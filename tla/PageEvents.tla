----------------------------- MODULE PageEvents -----------------------------
(***************************************************************************)
(* What crosses the crawl boundary (crawl/spider_engine.rs, page_event;    *)
(* crawl/boundary.rs): an answer of the vendored engine as a response or   *)
(* as none, and the addresses the archive will not ask for.                *)
(***************************************************************************)
EXTENDS Integers, Sequences, SequencesExt, FiniteSets

CONSTANT Limit   \* bytes of a body the engine holds

\* A status that sends no body of its own.
StatusCarriesABody_Always(status) == TRUE                                    \* mutant
StatusCarriesABody(status) == status \notin {"1xx", "204", "304"}

\* body_is_incomplete: marked by the engine, or empty under a promise.
BodyIsIncomplete(page) ==
    page.truncated \/ (page.body = 0 /\ StatusCarriesABody(page.status) /\ page.declared > 0)

\* headers_of: every line, without what a set-cookie said.
HeadersOf(headers) ==
    [i \in DOMAIN headers |->
        IF headers[i].name = "set-cookie" THEN [headers[i] EXCEPT !.value = "(dropped by the archive)"]
        ELSE headers[i]]

\* page_event: a status the engine made up is no response.
PageEvent(page) ==
    IF page.error THEN [is |-> "no response", url |-> page.url]
    ELSE [is |-> "response", url |-> page.url,
          final |-> IF page.redirect = "none" THEN page.url ELSE page.redirect,
          status |-> page.status, truncated |-> BodyIsIncomplete(page),
          headers |-> HeadersOf(page.headers)]

\* The engine: what it hands over of a transfer.  A promise over its limit
\* is not read at all; a stream that ends early or outgrows it is marked.
Engine(t) ==
    LET refused == t.promised > Limit
        held == IF t.sent > Limit THEN Limit ELSE t.sent IN
    [error |-> t.silent, url |-> "asked", redirect |-> t.redirect, status |-> IF t.silent THEN "599" ELSE t.status,
     headers |-> t.headers, declared |-> t.promised,
     body |-> IF refused THEN 0 ELSE held,
     truncated |-> ~refused /\ (t.cut \/ t.sent > Limit)]

-----------------------------------------------------------------------------
(* Addresses *)

\* is_internal_ipv4, is_internal_ipv6 and is_internal_name.
IsInternalIpv4(o) ==
    \/ o[1] \in {0, 10, 127} \/ o = <<255, 255, 255, 255>>
    \/ o[1] = 172 /\ o[2] \in 16 .. 31
    \/ <<o[1], o[2]>> \in {<<192, 168>>, <<169, 254>>}
Root == "(root)"   \* the empty label, after the last dot
IsInternalName(labels) ==
    LET said == {i \in DOMAIN labels : labels[i] # Root}
        name == SubSeq(labels, 1, CHOOSE i \in said : \A j \in said : j <= i)
    IN said # {} /\ \/ Last(name) = "localhost"
                    \/ name \in {<<"metadata", "google", "internal">>, <<"metadata", "goog">>}
IsInternalHost(h) ==
    CASE h.is = "v4" -> IsInternalIpv4(h.octets)
      [] h.is = "mapped" -> IsInternalIpv4(h.octets)
      [] h.is = "v6" -> h.block \in {"loopback", "unspecified", "unique local", "link local"}
      [] h.is = "name" -> IsInternalName(h.labels)

\* usable_url: what the engine dials.
UsableUrl(scheme, h, allowed) ==
    scheme \in {"http", "https"} /\ h.is # "none" /\ (allowed \/ ~IsInternalHost(h))

\* Other spellings of one host: the dots of the root, an address in six.
Respelled(h) ==
    CASE h.is = "name" -> [h EXCEPT !.labels = Append(@, Root)]
      [] h.is = "v4" -> [h EXCEPT !.is = "mapped"]
      [] OTHER -> h

-----------------------------------------------------------------------------

\* A record never holds a status nobody sent, never calls a part of a body
\* the whole of it nor the whole a part, keeps every header line in order
\* and no value of a cookie.
ResponseIsWhatArrived(t) ==
    LET e == PageEvent(Engine(t))
        short == IF t.promised > Limit THEN t.status \notin {"1xx", "204", "304"}
                 ELSE t.cut \/ t.sent > Limit IN
    /\ (e.is = "no response") <=> t.silent
    /\ e.is = "response" =>
          /\ e.status = t.status /\ (e.truncated <=> short)
          /\ Len(e.headers) = Len(t.headers)
          /\ \A i \in DOMAIN e.headers :
                /\ e.headers[i].name = t.headers[i].name
                /\ e.headers[i].value = t.headers[i].value <=> t.headers[i].name # "set-cookie"

\* How a host is spelled never decides whether it is asked.
SpellingDoesNotMatter(scheme, h, allowed) ==
    UsableUrl(scheme, h, allowed) = UsableUrl(scheme, Respelled(h), allowed)
=============================================================================
