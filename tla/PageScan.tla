------------------------------ MODULE PageScan ------------------------------
(***************************************************************************)
(* What is collected from a page's markup, and what each ceiling leaves    *)
(* out (metadata/scan.rs).  A document is the tokens the HTML parser hands *)
(* over: the start of a title, in the page's own markup or in a graphic,   *)
(* characters of its text, meta tags, JSON-LD blocks, anchors, and files.  *)
(* A character is "x", a blank, or a reference, which is longer written    *)
(* than read; an address is short, or longer than any address is.          *)
(***************************************************************************)
EXTENDS Integers, Sequences, SequencesExt, FiniteSets

\* The ceilings a page is read under: raw and decoded title, meta tags and
\* their content, JSON-LD blocks and their bytes, links, files, addresses.
Total(numbers) == FoldLeft(LAMBDA n, m : n + m, 0, numbers)
Raw(c) == IF c = "reference" THEN 3 ELSE 1
RawSize(text) == Total([i \in DOMAIN text |-> Raw(text[i])])

Start == [title |-> <<>>, inside |-> FALSE, titleEnded |-> FALSE, metas |-> <<>>,
          jsonLd |-> <<>>, jsonLdBytes |-> 0, canonical |-> {}, links |-> <<>>,
          assets |-> <<>>, truncated |-> {}]

Cut(s, bound) == [s EXCEPT !.truncated = @ \union {bound}]

\* see_title: what fits of the raw text, the beginning of a reference too.
SeeTitle(s, c, max) ==
    LET room == max.titleRaw - RawSize(s.title) IN
    IF ~s.inside \/ s.titleEnded THEN s
    ELSE IF Raw(c) <= room THEN [s EXCEPT !.title = Append(@, c)]
    ELSE [s EXCEPT !.title = IF room > 0 THEN Append(@, "a piece of it") ELSE @, !.titleEnded = TRUE]

\* see_meta, with the content capped.
SeeMeta(s, e, max) ==
    IF Len(s.metas) >= max.metas THEN Cut(s, "metas")
    ELSE LET r == [s EXCEPT !.metas = Append(@, [e EXCEPT !.size = IF @ > max.text THEN max.text ELSE @])]
         IN IF e.size > max.text THEN Cut(r, "content") ELSE r

\* see_json_ld and finish_json_ld_block: a block is cut at the ceiling of
\* all of them, and what is left of it kept if that ceiling is not spent.
SeeJsonLd(s, size, max) ==
    LET cut == size > max.jsonLd
        held == IF cut THEN max.jsonLd ELSE size
        r == IF cut THEN Cut(s, "jsonLd") ELSE s IN
    IF held = 0 THEN r
    ELSE IF Len(s.jsonLd) >= max.blocks \/ s.jsonLdBytes + held > max.jsonLd THEN Cut(r, "jsonLd")
    ELSE [r EXCEPT !.jsonLd = Append(@, held), !.jsonLdBytes = @ + held]

\* see_link_tag: the first canonical address that fits; one that is too long
\* is passed over, and nothing is marked.
SeeCanonical(s, e, max) ==
    IF s.canonical = {} /\ e.size <= max.url THEN [s EXCEPT !.canonical = {e.id}] ELSE s

\* see_anchor and see_asset: too long and too many are one claim.
SeeAnchor_Unmarked(s, e, max) ==                                             \* mutant
    IF e.size > max.url \/ Len(s.links) >= max.links THEN s
    ELSE [s EXCEPT !.links = Append(@, e.id)]
SeeAnchor(s, e, max) ==
    IF e.size > max.url \/ Len(s.links) >= max.links THEN Cut(s, "links")
    ELSE [s EXCEPT !.links = Append(@, e.id)]
SeeAsset(s, e, max) ==
    IF e.size > max.url \/ Len(s.assets) >= max.assets THEN Cut(s, "assets")
    ELSE [s EXCEPT !.assets = Append(@, e.id)]

\* A title starts being the page's if none was read, unless a graphic holds it.
See(s, e, max) ==
    CASE e.is = "title" -> [s EXCEPT !.inside = s.title = <<>> /\ ~s.titleEnded /\ ~e.graphic]
      [] e.is = "text" -> SeeTitle(s, e.char, max)
      [] e.is = "meta" -> SeeMeta(s, e, max)
      [] e.is = "json" -> SeeJsonLd(s, e.size, max)
      [] e.is = "canonical" -> SeeCanonical(s, e, max)
      [] e.is = "anchor" -> SeeAnchor(s, e, max)
      [] e.is = "asset" -> SeeAsset(s, e, max)

\* finish: the title is decoded, trimmed, and capped as a reader would see it.
Trimmed(text) ==
    LET kept == {i \in DOMAIN text : text[i] # "blank"}
    IN IF kept = {} THEN <<>>
       ELSE SubSeq(text, CHOOSE i \in kept : \A j \in kept : i <= j,
                         CHOOSE i \in kept : \A j \in kept : j <= i)
Finish(s, max) ==
    LET title == Trimmed(s.title)
        over == Len(title) > max.text IN
    [s EXCEPT !.title = IF over THEN SubSeq(title, 1, max.text) ELSE title,
              !.truncated = IF s.titleEnded \/ over THEN @ \union {"title"} ELSE @]

Scan(doc, max) == Finish(FoldLeft(LAMBDA s, e : See(s, e, max), Start, doc), max)

-----------------------------------------------------------------------------

\* Ceilings that no document made of these tokens reaches.
Written(e) == 3 + IF e.is \in {"title", "text"} THEN 0 ELSE e.size
Unbounded(doc) ==
    LET n == Total([i \in DOMAIN doc |-> Written(doc[i])])
    IN [titleRaw |-> n, text |-> n, metas |-> n, blocks |-> n, jsonLd |-> n,
        links |-> n, assets |-> n, url |-> n]

Canonicals(doc) == {i \in DOMAIN doc : doc[i].is = "canonical"}
FirstThatFits(doc, max) ==
    LET fit == {i \in Canonicals(doc) : doc[i].size <= max.url}
    IN {doc[i].id : i \in {j \in fit : \A k \in fit : j <= k}}
FirstIsTooLong(doc, max) ==
    \E i \in Canonicals(doc) : doc[i].size > max.url /\ \A j \in Canonicals(doc) : i <= j

\* A record differs from what the page says in a field only where the record
\* names the ceiling that field met, and no field is over its ceiling.  The
\* canonical link is the one exception: an address over the ceiling of
\* addresses is passed over and nothing names it, although the docs have every
\* ceiling recorded that is reached (docs/metadata-extraction.md, "Hostile
\* input").  Of it the property says that the record holds the first that fits,
\* which is the page's own unless the page's own is too long.
NothingIsCutUnseen(doc, max) ==
    LET r == Scan(doc, max)
        full == Scan(doc, Unbounded(doc)) IN
    /\ r.title = full.title \/ "title" \in r.truncated
    /\ r.metas = full.metas \/ {"metas", "content"} \intersect r.truncated # {}
    /\ r.jsonLd = full.jsonLd \/ "jsonLd" \in r.truncated
    /\ r.links = full.links \/ "links" \in r.truncated
    /\ r.assets = full.assets \/ "assets" \in r.truncated
    /\ r.canonical = full.canonical \/ FirstIsTooLong(doc, max)
    /\ r.canonical = FirstThatFits(doc, max)
    /\ full.truncated = {}
    /\ Len(r.title) <= max.text /\ Len(r.metas) <= max.metas /\ r.jsonLdBytes <= max.jsonLd
    /\ Len(r.links) <= max.links /\ Len(r.assets) <= max.assets
=============================================================================
