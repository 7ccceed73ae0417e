--------------------------- MODULE SitemapListing ---------------------------
(***************************************************************************)
(* Reading a sitemap (sitemap.rs).  A document is what the XML reader      *)
(* makes of a body: its events in order, up to the end or to the cut of a  *)
(* truncated response.  An element is named "urlset", "sitemapindex",      *)
(* "loc" or "url", in the protocol's namespace, in none, or in the one of  *)
(* an extension; a text is the address it spells.                          *)
(***************************************************************************)
EXTENDS Positions, SequencesExt

CONSTANTS
    MaxSitemapUrls,   \* MAX_SITEMAP_URLS, 50 000 in the code
    OnHost            \* addresses whose host is the seed's

Failed(why) == [failed |-> why]

\* is_page_namespace: an extension's own elements are not the protocol's,
\* however they are spelled.
IsPageNamespace_Prefixed(ns) == TRUE                                         \* mutant
IsPageNamespace(ns) == ns # "extension"

Start == [open |-> <<>>, root |-> FALSE, inLoc |-> FALSE, current |-> <<>>,
          locs |-> <<>>, listed |-> 0, overCeiling |-> 0, end |-> "eof"]

\* The reader refuses a closing tag that names something else than it closes.
Mismatched(s, e) == e.is = "close" /\ (s.open = <<>> \/ Last(s.open) # [name |-> e.name, ns |-> e.ns])

AfterRoot(s, e) == [s EXCEPT !.root = TRUE, !.end = IF ~s.root /\ e.name = "sitemapindex" THEN "index" ELSE @]

OnOpen(s, e) ==
    LET r == [AfterRoot(s, e) EXCEPT !.open = Append(@, [name |-> e.name, ns |-> e.ns])] IN
    IF r.end = "eof" /\ e.name = "loc" /\ IsPageNamespace(e.ns)
    THEN [r EXCEPT !.inLoc = TRUE, !.current = <<>>] ELSE r

\* The ceiling is applied as the list grows, so it never holds more.
OnClose(s, e) ==
    LET r == [s EXCEPT !.open = Front(@)] IN
    IF ~(s.inLoc /\ e.name = "loc") THEN r
    ELSE LET kept == Len(s.locs) < MaxSitemapUrls IN
         [r EXCEPT !.inLoc = FALSE, !.listed = @ + 1,
                   !.locs = IF kept THEN Append(@, s.current) ELSE @,
                   !.overCeiling = IF kept THEN @ ELSE @ + 1]

\* parse_locs, one event.  Nothing is read past an index or an error.
Read(s, e) ==
    IF s.end # "eof" THEN s
    ELSE IF Mismatched(s, e) \/ (e.is = "entity" /\ s.inLoc) THEN [s EXCEPT !.end = "unparseable"]
    ELSE CASE e.is = "open" -> OnOpen(s, e)
           [] e.is = "close" -> OnClose(s, e)
           [] e.is = "empty" -> AfterRoot(s, e)
           [] e.is = "text" /\ s.inLoc -> [s EXCEPT !.current = Append(@, e.text)]
           [] OTHER -> s

ParseLocs(doc) == FoldLeft(Read, Start, doc)

\* A text that spells one address is that address; two run together are not.
Address(loc) == IF Len(loc) = 1 THEN loc[1] ELSE "no address"

OfTheHost(urls) == Picked(urls, {i \in DOMAIN urls : urls[i] \in OnHost})

\* read_sitemap, once the body is here.
Listing(body) ==
    LET p == ParseLocs(body)
        at == [i \in DOMAIN p.locs |-> Address(p.locs[i])]
        urls == OfTheHost(at)
    IN IF p.end # "eof" THEN Failed(p.end)
       ELSE [listed |-> p.listed, urls |-> urls, offHost |-> Len(at) - Len(urls),
             overCeiling |-> p.overCeiling]

\* discover_sitemap_url and fetch_body: the first directive of robots.txt
\* that names anything, whatever status it came with, and /sitemap.xml if
\* none does.  A response counts if it is a success that is not compressed.
Names(directive) == directive.key = "sitemap" /\ directive.value # ""
Discovered(robots) ==
    LET named == {i \in DOMAIN robots : Names(robots[i])}
    IN IF named = {} THEN "/sitemap.xml" ELSE robots[Nth(named, 0)].value

ReadSitemap(explicit, robots, site) ==
    LET url == IF explicit # "" THEN explicit ELSE Discovered(robots) IN
    IF url \notin DOMAIN site \/ ~site[url].success THEN Failed("fetch")
    ELSE IF site[url].gzip THEN Failed("compressed")
    ELSE Listing(site[url].body)

-----------------------------------------------------------------------------
(* What the protocol says of the same document *)

\* Pages a document names: in order, the elements of the protocol's own that
\* closed before the end, where it is as flat as the protocol asks for.
Flat(doc) ==
    \A i \in DOMAIN doc : doc[i].is = "open" /\ doc[i].name = "loc" =>
        /\ i = Len(doc) \/ doc[i + 1].is \in {"text", "close"}
        /\ i + 1 >= Len(doc) \/ doc[i + 1].is = "close" \/ doc[i + 2].is = "close"
Closed(doc) == {i \in DOMAIN doc : doc[i].is = "close" /\ doc[i].name = "loc" /\ doc[i].ns \in {"sitemap", "none"}}
Says(doc, i) == IF doc[i - 1].is = "text" THEN doc[i - 1].text ELSE "no address"
PageLocs(doc) == LET order == InOrder(Closed(doc)) IN [k \in DOMAIN order |-> Says(doc, order[k])]

\* Nothing a sitemap names is lost without a count, nothing it does not name
\* is asked for, the ceiling takes the first that were named whatever their
\* host, and no address of another host goes through.
ListingAccounts(doc) ==
    LET l == Listing(doc) IN
    "failed" \in DOMAIN l \/
        /\ l.listed = Len(l.urls) + l.offHost + l.overCeiling
        /\ Len(l.urls) + l.offHost <= MaxSitemapUrls
        /\ Range(l.urls) \subseteq OnHost
        /\ Flat(doc) =>
             /\ l.listed = Len(PageLocs(doc))
             /\ l.urls = OfTheHost(SubSeq(PageLocs(doc), 1,
                                         IF l.listed < MaxSitemapUrls THEN l.listed ELSE MaxSitemapUrls))

\* The sitemap that is read is the one the operator named, else the first
\* robots.txt names, else the usual one; nothing else the site serves is read
\* in its place, and an answer that is no plain sitemap never becomes a list.
SitemapIsTheOneNamed(explicit, robots, site) ==
    LET r == ReadSitemap(explicit, robots, site)
        named(i) == Names(robots[i])
        meant(url) ==
            IF explicit # "" THEN url = explicit
            ELSE \/ \E i \in DOMAIN robots :
                        named(i) /\ robots[i].value = url /\ \A j \in 1 .. i - 1 : ~named(j)
                 \/ url = "/sitemap.xml" /\ \A i \in DOMAIN robots : ~named(i) IN
    IF \E url \in DOMAIN site : meant(url) /\ site[url].success /\ ~site[url].gzip
    THEN \E url \in DOMAIN site : meant(url) /\ r = Listing(site[url].body)
    ELSE r \in {Failed("fetch"), Failed("compressed")}
=============================================================================
