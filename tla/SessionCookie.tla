---------------------------- MODULE SessionCookie ----------------------------
(***************************************************************************)
(* Where a subscription comes from, what it is refused for, and which      *)
(* requests carry it (cli/session_cookie.rs, SessionCookie of              *)
(* crawl/boundary.rs), together with the one Website the engine keeps for  *)
(* the seeds of one origin (crawl/spider_engine.rs).                       *)
(* A source holds characters: "x" is one a header can carry.               *)
(***************************************************************************)
EXTENDS Integers, Sequences, SequencesExt, FiniteSets

Whitespace == {"blank", "newline"}
Sendable == {"x", "blank"}

None == "no cookie"
Refused(why) == [refused |-> why]
Value(text) == [value |-> text]

Trimmed(text) ==
    LET kept == {i \in DOMAIN text : text[i] \notin Whitespace}
    IN IF kept = {} THEN <<>>
       ELSE SubSeq(text, CHOOSE i \in kept : \A j \in kept : i <= j,
                         CHOOSE i \in kept : \A j \in kept : j <= i)

\* usable_value: a newline inside one would be a second header.
UsableValue(text) ==
    IF Trimmed(text) = <<>> THEN Refused("empty")
    ELSE IF Range(Trimmed(text)) \subseteq Sendable THEN Value(Trimmed(text))
    ELSE Refused("not a header value")

\* who_else_can_read: only the bits of reading count.
WhoElseCanRead(mode) == mode \intersect {"group read", "other read"}

\* read_cookie_file: opened once; its mode is the descriptor's.
ReadCookieFile(file) ==
    IF ~file.opens THEN Refused("unreadable")
    ELSE IF WhoElseCanRead(file.mode) # {} THEN Refused("readable by others")
    ELSE IF ~file.text THEN Refused("unreadable") ELSE UsableValue(file.holds)

\* cookie_header_value: a file named on the command line comes first.
CookieHeaderValue(file, exported) ==
    IF file.given THEN ReadCookieFile(file)
    ELSE IF ~exported.given THEN [none |-> TRUE]
    ELSE IF exported.text THEN UsableValue(exported.holds) ELSE Refused("not a header value")

\* SessionCookie::value_for: an origin is a scheme, a host and a port, and
\* that of an address nothing parses equals none.
ValueFor(bound, url) == bound # "opaque" /\ url = bound

-----------------------------------------------------------------------------
(* The Website of an engine *)

Fresh(url) == [origin |-> url, rules |-> "unread", headers |-> FALSE]

\* cached_for: one slot, and it is only good for its own origin.
CachedFor_Any(slot, url) == IF slot = <<>> THEN Fresh(url) ELSE slot[1]      \* mutant
CachedFor(slot, url) == IF slot = <<>> \/ slot[1].origin # url THEN Fresh(url) ELSE slot[1]

\* configure_for_seed: the header is set for every seed, to none as well.
Configured(website, bound, url) == [website EXCEPT !.origin = url, !.headers = ValueFor(bound, url)]

Asked(what, url, website) == [what |-> what, to |-> url, rules |-> website.rules, carries |-> website.headers]

\* SpiderEngine::crawl: robots.txt is asked for unless the Website kept for
\* the origin has read it; a crawl that panics keeps none.
Crawled(s, call) ==
    LET site == Configured(CachedFor(s.slot, call.url), call.bound, call.url)
        read == [site EXCEPT !.rules = IF @ = "unread" THEN call.url ELSE @]
    IN [slot |-> IF call.panics THEN <<>> ELSE <<read>>,
        asked |-> Append(IF site.rules = "unread" THEN Append(s.asked, Asked("robots", call.url, site)) ELSE s.asked,
                         Asked("pages", call.url, read))]

\* SpiderEngine::fetch: a Website of the call's own.
Fetched(s, call) ==
    [s EXCEPT !.asked = Append(@, Asked("one", call.url, Configured(Fresh(call.url), call.bound, call.url)))]

Run(calls) ==
    FoldLeft(LAMBDA s, c : IF c.is = "crawl" THEN Crawled(s, c) ELSE Fetched(s, c),
             [slot |-> <<>>, asked |-> <<>>], calls).asked

-----------------------------------------------------------------------------

\* A credential that is used came from the source that was chosen, is
\* readable by nobody else there, and is one header.
CredentialIsPrivate(file, exported) ==
    LET v == CookieHeaderValue(file, exported) IN
    /\ "value" \in DOMAIN v =>
          /\ v.value # <<>> /\ ~Contains(v.value, "newline") /\ ~Contains(v.value, "control")
          /\ Trimmed(IF file.given THEN file.holds ELSE exported.holds) = v.value
          /\ file.given => file.mode \intersect {"group read", "other read"} = {}
    /\ "none" \in DOMAIN v => ~file.given /\ ~exported.given

\* It goes to the origin it is bound to and to no other, whatever an earlier
\* seed left in the engine; no crawl is judged by another origin's rules; and
\* robots.txt is asked for once while the origin stays the same.
CredentialStaysHome(calls) ==
    LET asked == Run(calls)
        crawls == {i \in DOMAIN calls : calls[i].is = "crawl"}
        follows(i, j) == j \in crawls /\ j < i /\ \A k \in crawls : k < i => k <= j IN
    /\ \A r \in Range(asked) : r.carries => \E c \in Range(calls) : c.url = r.to /\ c.bound = r.to
    /\ \A r \in Range(asked) : r.what = "pages" => r.rules = r.to
    /\ \A i \in DOMAIN calls : (calls[i].bound = calls[i].url /\ Cardinality({c.bound : c \in Range(calls)}) = 1) =>
          \A r \in Range(asked) : r.to = calls[i].url => r.carries
    /\ Cardinality({i \in DOMAIN asked : asked[i].what = "robots"}) =
          Cardinality({i \in crawls : \A j \in crawls :
                          follows(i, j) => calls[j].url # calls[i].url \/ calls[j].panics})
==============================================================================
