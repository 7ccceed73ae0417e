------------------------------- MODULE JsonLd -------------------------------
(***************************************************************************)
(* The structured data of a page: which nodes a field may be read from     *)
(* (metadata/resolve.rs), and whether the page declared a paywall          *)
(* (readability/mod.rs).  A block is one object or a list of them; an      *)
(* object has a type, a name, a declaration, each of which may be missing, *)
(* and the objects of its graph.                                           *)
(***************************************************************************)
EXTENDS Positions, SequencesExt

None == "none"

\* schema_nodes: the objects of a list, the graph of an object and then the
\* object.  The graph of an object in a list is not opened.
Flattened(blocks) ==
    FlattenSeq([b \in DOMAIN blocks |->
        IF blocks[b].list THEN blocks[b].nodes ELSE blocks[b].nodes[1].graph \o blocks[b].nodes])

\* What describes the site is left out, unless there is nothing else.
DescribesTheSite(n) == n.type = "site"
SchemaNodes(blocks) ==
    LET all == Flattened(blocks)
        page == {i \in DOMAIN all : ~DescribesTheSite(all[i])}
    IN IF page = {} THEN all ELSE Picked(all, page)

\* from_schema: the first node that has the field, blank or not.
FromSchema(blocks) ==
    LET nodes == SchemaNodes(blocks)
        naming == {i \in DOMAIN nodes : nodes[i].name # None}
        first == nodes[Nth(naming, 0)].name
    IN IF naming = {} \/ first = "blank" THEN None ELSE first

\* resolve_title: the tag a page wrote for it, else its own structured data,
\* else the document's title; a blank one is none.
ResolveTitle(tags, blocks, document) ==
    LET claims == tags \o <<FromSchema(blocks), document>>
        made == {i \in DOMAIN claims : claims[i] \notin {None, "blank"}}
    IN IF made = {} THEN None ELSE claims[Nth(made, 0)]

\* schema_org_nodes: every object and its graph, one level down.
SchemaOrgNodes(blocks) ==
    FlattenSeq([b \in DOMAIN blocks |->
        FlattenSeq([n \in DOMAIN blocks[b].nodes |-> blocks[b].nodes[n].graph \o <<blocks[b].nodes[n]>>])])

\* declared_accessible_for_free: a wall anywhere is a wall; that there is
\* none is taken only from the node that is the document.
DescribesTheDocument_Any(n) == TRUE                                          \* mutant
DescribesTheDocument(n) == n.type = "article"
Hear(said, n) ==
    CASE said = "walled" \/ n.free = "false" -> "walled"
      [] said # "walled" /\ n.free = "true" /\ DescribesTheDocument(n) -> "free"
      [] OTHER -> said
Declared(blocks) == FoldLeft(Hear, None, SchemaOrgNodes(blocks))

-----------------------------------------------------------------------------

\* The order of the blocks never decides whether a page is behind a wall; a
\* site that is free does not make the article free; a title the site gave
\* itself is taken only if the page has no structured data of its own; and
\* what metadata reads is among what the declaration is read from.
DeclarationIsThePages(blocks) ==
    LET all == SchemaOrgNodes(blocks) IN
    /\ Declared(blocks) = Declared(Reverse(blocks))
    /\ Declared(blocks) = "free" =>
          \E n \in Range(all) : n.type = "article" /\ n.free = "true"
    /\ Declared(blocks) = "walled" <=> \E n \in Range(all) : n.free = "false"
    /\ Range(SchemaNodes(blocks)) \subseteq Range(all)
    /\ FromSchema(blocks) # None =>
          \/ \E n \in Range(all) : n.name = FromSchema(blocks) /\ n.type # "site"
          \/ \A n \in Range(Flattened(blocks)) : n.type = "site"

\* No claim to a title that is blank hides one that is not, and the document's
\* own is what a page is called only if it made no other claim.
TitleIsFound(blocks) ==
    \A tags \in {<<>>, <<"blank">>, <<"tag">>, <<"blank", "tag">>}, document \in {None, "blank", "document"} :
        LET title == ResolveTitle(tags, blocks, document) IN
        /\ "tag" \in Range(tags) => title = "tag"
        /\ title = None => Range(tags) \union {document} \subseteq {None, "blank"}
        /\ title = "document" => FromSchema(blocks) = None
=============================================================================
