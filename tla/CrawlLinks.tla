----------------------------- MODULE CrawlLinks -----------------------------
(***************************************************************************)
(* Two readings of the links of a crawl that have to agree, or a link that *)
(* was fetched is reported as lost (crawl/spider_engine.rs): the address   *)
(* the frontier of the vendored crawler asks for, and the one this adapter *)
(* records.  An href is relative or spells out scheme, host and port; what *)
(* follows the "&" of its query is spelled plainly, with a named reference *)
(* or with a numeric one; a "#" starts a fragment.                         *)
(***************************************************************************)
EXTENDS Integers, Sequences, FiniteSets

CONSTANTS SeedScheme, SeedHost

Url(scheme, host, port, query, fragment) ==
    [scheme |-> scheme, host |-> host, port |-> port, query |-> query, fragment |-> fragment]

\* Url::join: only a relative href takes anything from the base.
Join(base, h, query, fragment) ==
    IF h.absolute THEN Url(h.scheme, h.host, h.port, query, fragment)
    ELSE Url(base.scheme, base.host, base.port, query, fragment)

\* As the page wrote it: the "#" of a numeric reference ends the address.
Raw(base, h) ==
    CASE h.spelled = "plain" -> Join(base, h, <<"&", h.rest>>, h.fragment)
      [] h.spelled = "named" -> Join(base, h, <<"&", "amp;", h.rest>>, h.fragment)
      [] h.spelled = "numeric" -> Join(base, h, <<"&", "">>, TRUE)

\* depth_key: no fragment, the scheme of the seed.
DepthKey(u) == [u EXCEPT !.fragment = FALSE, !.scheme = SeedScheme]

InScope(u) == u.host = SeedHost /\ u.scheme \in {"http", "https"}

\* corrected_resolution: what a reader would follow, if the href is escaped.
Escaped(h) == h.spelled # "plain"
Corrected(base, h) == [Join(base, h, <<"&", h.rest>>, h.fragment) EXCEPT !.scheme = SeedScheme]

\* link_base_of: a declared base counts if it is of the page's own origin.
Origin(u) == <<u.scheme, u.host, u.port>>
LinkBaseOf_Any(page, declared) == IF declared = {} THEN "page" ELSE "declared"   \* mutant
LinkBaseOf(page, declared) ==
    IF declared = {} THEN "page"
    ELSE IF \A d \in declared : Origin(d) = Origin(page) THEN "declared" ELSE "unusable"

\* record_discovered_links, for one link of a page: whether it is taken at
\* all, and the address it is asked for at.
Discovers(base, kind, h) == (kind = "unusable" => h.absolute) /\ InScope(Raw(base, h))
Target(base, h) == IF Escaped(h) THEN Corrected(base, h) ELSE Raw(base, h)

\* What hop_depth_guard has read of a crawl by some moment, link after link,
\* each with the page it was on; a page that declares an absolute base is not
\* read by it.  An address is recorded under its key, once.
Discovered(read) == {i \in DOMAIN read : Discovers(read[i].page, "page", read[i].href)}
KeyOf(link) == DepthKey(Raw(link.page, link.href))
PlaceOf(link) == DepthKey(Target(link.page, link.href))
Recorded(read) == {PlaceOf(read[i]) : i \in Discovered(read)}

\* HrefCorrections: one table for all pages of a crawl, in which a later link
\* takes the place of an earlier one, of its own page or of another.
Corrections(read) ==
    LET escaped == {i \in Discovered(read) : Escaped(read[i].href)}
        last(k) == CHOOSE i \in escaped :
                      KeyOf(read[i]) = k /\ \A j \in escaped : KeyOf(read[j]) = k => j <= i
    IN [k \in {KeyOf(read[i]) : i \in escaped} |-> Corrected(read[last(k)].page, read[last(k)].href)]

\* The vendored frontier resolves an href as it is written, and asks
\* rewrite_escaped_href about it, with the table as it is by then.
Requested(read, i) ==
    LET fixed == Corrections(read)
        k == KeyOf(read[i])
    IN IF k \in DOMAIN fixed THEN fixed[k] ELSE k

-----------------------------------------------------------------------------

\* A link whose raw spelling is that of a link elsewhere in the crawl, and
\* which is not that link.
Collides(read, i) ==
    \E j \in Discovered(read) : KeyOf(read[j]) = KeyOf(read[i]) /\ PlaceOf(read[j]) # PlaceOf(read[i])

\* Whatever other pages have written into the table, what the frontier asks
\* for is on record under the spelling it is fetched by, so nothing fetched is
\* reported as lost; and it is the address the link means, unless the link
\* collides with another of the crawl.  Then it may be that other's, and what
\* is not asked for stays on record for recovery to answer.
LinksAreOneAddress(read) ==
    \A i \in Discovered(read) :
        LET asked == DepthKey(Requested(read, i)) IN
        /\ asked \in Recorded(read)
        /\ ~Collides(read, i) => asked = PlaceOf(read[i])

\* A page fetched directly sends no relative link to another server than its
\* own, whatever base it declares, and nothing out of the crawl's scope.
BaseLeadsNowhereElse(page, declared, h) ==
    LET kind == LinkBaseOf(page, declared)
        base == IF kind = "declared" THEN CHOOSE d \in declared : TRUE ELSE page IN
    Discovers(base, kind, h) =>
        /\ InScope(Target(base, h))
        /\ ~h.absolute => Origin(Raw(base, h)) = Origin(page)
=============================================================================
