------------------------------ MODULE Narrowing ------------------------------
(***************************************************************************)
(* Where a site's rule says the article is, before anything is scored      *)
(* (readability/document.rs, narrow).  A page is a tree of nodes numbered  *)
(* in document order: its parent is a function from a node to its parent,  *)
(* 0 for the root, and its body a node, or 0 where there is none.  A       *)
(* selector names nodes by what they are and, where it is written so, by   *)
(* what they are under: "main .ad" has every .ad in "it" and every main in *)
(* "under", which is empty for ".ad" alone.                                *)
(***************************************************************************)
EXTENDS Integers, Sequences, SequencesExt, FiniteSets

InOrder(nodes) == SetToSortSeq(nodes, <)

\* A node and its ancestors.
Chain(page, n) ==
    LET chain[m \in DOMAIN page.parent] ==
            {m} \union IF page.parent[m] = 0 THEN {} ELSE chain[page.parent[m]]
    IN chain[n]

\* What a selector finds in a tree, as it stands when it is asked.
Selected(page, selector) ==
    {n \in selector.it : selector.under = {}
                           \/ (Chain(page, n) \ {n}) \intersect selector.under # {}}

\* is_inside: under the body, which is not inside itself.
IsInside(page, n) == page.body # n /\ page.body \in Chain(page, n)
Inside(page) == {n \in DOMAIN page.parent : IsInside(page, n)}

\* first_match: what a selector matches, without what is inside another of
\* its matches.
Outermost_Every(page, matched) == matched                                    \* mutant
Outermost(page, matched) == {n \in matched : Chain(page, n) \intersect matched = {n}}

FirstMatch(page, selectors) ==
    LET at(i) == Outermost(page, Selected(page, selectors[i]) \intersect Inside(page))
        hits == {i \in DOMAIN selectors : at(i) # {}}
    IN IF hits = {} THEN {} ELSE at(CHOOSE i \in hits : \A j \in hits : i <= j)

\* The matches become the children of the body in the order they were in, and
\* nothing else is left of it; a node goes where the nearest of them goes.
Moved(page, article) ==
    LET owner(n) == LET over == Chain(page, n) \intersect article
                    IN CHOOSE m \in over : \A k \in over : k <= m
        tops == InOrder(article)
    IN [page |-> [page EXCEPT !.parent = [n \in DOMAIN @ |-> IF n \in article THEN page.body ELSE @[n]]],
        kept |-> FlattenSeq([t \in DOMAIN tops |->
                     InOrder({n \in DOMAIN page.parent :
                                Chain(page, n) \intersect article # {} /\ owner(n) = tops[t]})])]

\* A selector of furniture is asked of the tree as it is by then, and takes
\* what it finds there and all that is in it.
Strip(tree, selector) ==
    LET furniture == Selected(tree.page, selector) \intersect Range(tree.kept)
    IN [tree EXCEPT !.kept = SelectSeq(@, LAMBDA n : Chain(tree.page, n) \intersect furniture = {})]

\* narrow.
Narrow(page, rule) ==
    LET named == rule.body # <<>>
        article == FirstMatch(page, rule.body)
        whole == [page |-> page, kept |-> InOrder(Inside(page))]
        before == IF named THEN Moved(page, article) ELSE whole
        after == FoldLeft(Strip, before, rule.strip)
        left(answer) == [answer |-> answer, kept |-> whole.kept] IN
    IF page.body = 0 THEN left(IF named THEN "not an article" ELSE "untouched")
    ELSE IF named /\ article = {} THEN left("not an article")
    ELSE [answer |-> CASE named -> "the article"
                       [] ~named /\ after # before -> "without furniture"
                       [] OTHER -> "untouched",
          kept |-> after.kept]

-----------------------------------------------------------------------------
(* What the rule says *)

\* What the first selector that finds anything in the body selects, less the
\* furniture in it.  Furniture over the article is not in it, and neither is
\* what a selector of furniture says it is under: "main .ad" takes nothing from
\* an article that was moved out of its main.
Wanted(page, rule) ==
    LET finds(i) == Selected(page, rule.body[i]) \intersect Inside(page)
        first == {i \in DOMAIN rule.body : finds(i) # {} /\ \A j \in 1 .. i - 1 : finds(j) = {}}
        article == IF rule.body = <<>> THEN Inside(page) ELSE UNION {finds(i) : i \in first}
        path(n) == LET tops == {m \in Chain(page, n) : m \in article}
                   IN {m \in Chain(page, n) : \E t \in tops : t <= m}
        over(n) == (path(n) \ {n}) \union Chain(page, page.body)
        furniture(n) == \E i \in DOMAIN rule.strip :
                           /\ n \in rule.strip[i].it
                           /\ rule.strip[i].under = {} \/ over(n) \intersect rule.strip[i].under # {}
    IN {n \in DOMAIN page.parent : path(n) # {} /\ \A m \in path(n) : ~furniture(m)}

\* The scorer is handed what the rule says, each node once and in the order
\* of the page; a page the rule has nothing to say about is left whole; and
\* the answer says which of these happened.
RuleIsKept(page, rule) ==
    LET r == Narrow(page, rule) IN
    IF r.answer \in {"untouched", "not an article"} THEN r.kept = InOrder(Inside(page))
    ELSE /\ r.kept = InOrder(Wanted(page, rule))
         /\ r.answer = "without furniture" => Range(r.kept) # Inside(page)
=============================================================================
