------------------------------ MODULE Admission ------------------------------
(***************************************************************************)
(* Whether a captured page is an article (readability/mod.rs, extract), up *)
(* to the file its prose is written to (markdown.rs, render).  A page is   *)
(* what the steps of it answer: the parser, the rule of its host, the      *)
(* probe and the scorer of the library, and the two counts of characters.  *)
(***************************************************************************)
EXTENDS Integers, Sequences

CONSTANTS
    MinArticleChars,     \* 300
    ShareDenominator,    \* 4
    MaxText, MaxMarkdown \* bytes of an excerpt or a byline, and of a document

\* ProseShare::is_a_sliver: small, and little of its page.
IsASliver_Small(a, p) == a < MinArticleChars                                 \* mutant
IsASliver(a, p) == a < MinArticleChars /\ a * ShareDenominator < p

\* bounded_excerpt, bounded_byline and render: an excerpt is cut and a
\* byline dropped, each named in the record.
Cut(page) ==
    {b \in {"excerpt", "byline"} : page[b] > MaxText}
        \union IF page.markdown > MaxMarkdown THEN {"markdown"} ELSE {}

\* The rule an outcome is recorded under: the host's if it changed the page.
AppliedTo(narrowed) == IF narrowed \in {"no rule", "untouched"} THEN "heuristic" ELSE "site"

Outcome(is, page) == [is |-> is, rules |-> AppliedTo(page.narrowed), truncated |-> {}]
ToldWhere(page) == page.narrowed = "the article"

\* extract, the guards in their order.
Extract(page) ==
    CASE page.type = "markdown" -> [is |-> "served"]
      [] page.type = "other" -> [is |-> "nothing"]
      [] page.type = "html" ->
            IF page.tooExpensive THEN [is |-> "unreadable"]
            ELSE IF page.narrowed = "not an article" THEN Outcome("not an article", page)
            ELSE IF page.tooWide THEN [is |-> "unreadable"]
            ELSE IF ~ToldWhere(page) /\ ~page.probe THEN Outcome("not an article", page)
            ELSE IF page.scorer = "nothing" THEN Outcome("not an article", page)
            ELSE IF page.scorer = "error" THEN [is |-> "unreadable"]
            ELSE IF ~ToldWhere(page) /\ IsASliver(page.article, page.chars)
            THEN [Outcome("refused", page) EXCEPT !.truncated = Cut(page) \intersect {"excerpt"}]
            ELSE IF page.converter THEN [Outcome("article", page) EXCEPT !.truncated = Cut(page)]
            ELSE [is |-> "unreadable"]

-----------------------------------------------------------------------------

Judged(page) == Extract(page).is \in {"article", "refused", "not an article"}

\* More prose never loses an article, and neither does a rule that says
\* where it is; less of a page around it never does; a page is refused only
\* where it was measured, and an outcome under a rule is of a page it changed.
AdmissionIsMonotone(page) ==
    LET is(p) == Extract(p).is IN
    /\ is(page) = "article" =>
          /\ is([page EXCEPT !.article = @ + 1, !.chars = @ + 1]) = "article"
          /\ is([page EXCEPT !.chars = IF @ > page.article THEN @ - 1 ELSE @]) = "article"
          /\ is([page EXCEPT !.narrowed = "the article"]) = "article"
    /\ is(page) = "refused" =>
          page.article < page.chars /\ page.article < MinArticleChars /\ ~ToldWhere(page)
    /\ (Judged(page) /\ Extract(page).rules = "site") =>
          page.narrowed \notin {"no rule", "untouched"}
    /\ (Judged(page) /\ page.narrowed = "not an article") => is(page) = "not an article"
    /\ (page.chars = 0 /\ page.article = 0) => is(page) # "refused"
==============================================================================
