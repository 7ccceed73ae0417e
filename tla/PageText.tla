------------------------------- MODULE PageText -------------------------------
(***************************************************************************)
(* The tree of a page before it is scored (readability/document.rs): what  *)
(* becomes of an embedded document, how much text the page holds, and how  *)
(* deep it nests.  Nodes are numbered in document order, 1 the root, 2 the *)
(* body if there is one; kind[n] is "text", "element", "iframe", or one of *)
(* the elements whose text is not prose, and parent[n] comes before n.     *)
(***************************************************************************)
EXTENDS Integers, Sequences, SequencesExt, FiniteSets, FiniteSetsExt

NotProse == {"script", "noscript"}
Body == 2

Children(page, n) == SetToSortSeq({m \in DOMAIN page.parent : page.parent[m] = n}, <)

\* A node and everything it is in.
Within(page, n) ==
    LET up[m \in DOMAIN page.parent] == IF m = 1 THEN {1} ELSE {m} \union up[page.parent[m]] IN up[n]

\* link_embedded_documents: an iframe whose address can be read and names a
\* host becomes a link with the host as its text.
Linked(page) ==
    [page EXCEPT !.kind = [n \in DOMAIN page.kind |->
        IF page.kind[n] = "iframe" /\ page.src[n] = "readable" THEN "text" ELSE page.kind[n]]]

\* page_text_chars: a walk that does not enter what is no prose.
CountedText_Differenced(page) ==                                             \* mutant
    LET texts(n) == {m \in DOMAIN page.parent : page.kind[m] = "text" /\ n \in Within(page, m)}
    IN Cardinality(texts(Body)) - MapThenSumSet(LAMBDA n : Cardinality(texts(n)),
                                                {n \in DOMAIN page.parent : page.kind[n] \in NotProse})
CountedText(page) ==
    LET walk[s \in [pending : Seq(Nat), total : Nat]] ==
            IF s.pending = <<>> THEN s.total
            ELSE LET n == Last(s.pending) IN
                 walk[CASE page.kind[n] = "text" -> [pending |-> Front(s.pending), total |-> s.total + 1]
                        [] page.kind[n] \in NotProse -> [s EXCEPT !.pending = Front(@)]
                        [] OTHER -> [s EXCEPT !.pending = Front(@) \o Children(page, n)]]
    IN walk[[pending |-> <<Body>>, total |-> 0]]
PageTextChars(page) == IF Len(page.parent) >= Body THEN CountedText(page) ELSE 0

\* nests_deeper_than: it stops at the first node past the ceiling.
NestsDeeperThan(page, ceiling) ==
    LET elements(n) == SelectSeq(Children(page, n), LAMBDA m : page.kind[m] # "text")
        walk[pending \in Seq([node : Nat, depth : Nat])] ==
            IF pending = <<>> THEN FALSE
            ELSE LET at == Last(pending) IN
                 at.depth > ceiling \/
                 walk[Front(pending) \o [i \in DOMAIN elements(at.node) |->
                         [node |-> elements(at.node)[i], depth |-> at.depth + 1]]]
    IN walk[<<[node |-> 1, depth |-> 0]>>]

-----------------------------------------------------------------------------

\* A text counts once, and only if nothing it is in is no prose, however
\* those are nested; an embedded document adds its host where its address
\* can be read and nothing where it cannot; and the depth that is refused is
\* that of the deepest element.
TextIsCountedOnce(page, ceiling) ==
    LET said(p) == {n \in DOMAIN p.parent : /\ p.kind[n] = "text" /\ Body \in Within(p, n)
                                            /\ \A m \in Within(p, n) : p.kind[m] \notin NotProse}
        embedded == {n \in DOMAIN page.parent : page.kind[n] = "iframe" /\ page.src[n] = "readable"
                        /\ Body \in Within(page, n) /\ \A m \in Within(page, n) : page.kind[m] \notin NotProse} IN
    /\ PageTextChars(page) = Cardinality(said(page))
    /\ PageTextChars(Linked(page)) = PageTextChars(page) + Cardinality(embedded)
    /\ NestsDeeperThan(page, ceiling) <=>
          \E n \in DOMAIN page.parent : page.kind[n] # "text" /\ Cardinality(Within(page, n)) - 1 > ceiling
==============================================================================
