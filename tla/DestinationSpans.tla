--------------------------- MODULE DestinationSpans ---------------------------
(***************************************************************************)
(* Where the destinations of a Markdown text are, so that an export can    *)
(* replace them (export.rs, markdown_destinations): the vendored parser    *)
(* says what each link and image spans, and the destination inside is      *)
(* found again in the characters.                                          *)
(* A document is pieces: an opening, text, and a closing with the          *)
(* destination as it is spelled.                                           *)
(***************************************************************************)
EXTENDS Integers, Sequences, SequencesExt, FiniteSets

Greater(a, b) == IF a > b THEN a ELSE b

-----------------------------------------------------------------------------
(* The parser *)

Spelling(piece) ==
    CASE piece.is = "open" -> IF piece.kind = "image" THEN <<"!", "[">> ELSE <<"[">>
      [] piece.is = "text" -> piece.chars
      [] piece.is = "close" ->
            <<"]", "(">> \o (IF piece.pointed THEN <<"<">> \o piece.to \o <<">">> ELSE piece.to)
                \o (IF piece.titled THEN <<" ", "t">> ELSE <<>>) \o <<")">>
Source(doc) == FlattenSeq([i \in DOMAIN doc |-> Spelling(doc[i])])
Before(doc, i) == Len(Source(SubSeq(doc, 1, i - 1)))

\* The closing of the opening i, and the opening of the closing i.
Level(doc, i) ==
    Cardinality({j \in 1 .. i : doc[j].is = "open"}) - Cardinality({j \in 1 .. i : doc[j].is = "close"})
ClosingOf(doc, i) ==
    CHOOSE j \in i + 1 .. Len(doc) :
        Level(doc, j) < Level(doc, i) /\ \A k \in i .. j - 1 : Level(doc, k) >= Level(doc, i)
OpeningOf(doc, i) == CHOOSE j \in 1 .. i : doc[j].is = "open" /\ ClosingOf(doc, j) = i

\* An event and the characters it spans, from the one after "from" to "to".
Events(doc) ==
    [i \in DOMAIN doc |->
        LET first == IF doc[i].is = "close" THEN OpeningOf(doc, i) ELSE i
            last == IF doc[i].is = "open" THEN ClosingOf(doc, i) ELSE i IN
        [is |-> doc[i].is, from |-> Before(doc, first),
         to |-> Before(doc, last) + Len(Spelling(doc[last]))]]

-----------------------------------------------------------------------------
(* The characters *)

\* inline_destination_span: the first "]" after the label and the "(" next
\* to it; a destination in brackets ends at ">", any other at a blank or at
\* a ")" of its own depth, an escaped character never.
Depth(text, from, at) ==
    LET Read(s, c) ==
            CASE s.skip -> [s EXCEPT !.skip = FALSE]
              [] ~s.skip /\ c = "\\" -> [s EXCEPT !.skip = TRUE]
              [] ~s.skip /\ c = "(" -> [s EXCEPT !.depth = @ + 1]
              [] ~s.skip /\ c = ")" -> [s EXCEPT !.depth = @ - 1]
              [] OTHER -> s
    IN FoldLeft(Read, [skip |-> FALSE, depth |-> 0], SubSeq(text, from + 1, at))
FirstOf(here) == CHOOSE j \in here : \A k \in here : j <= k
InlineDestinationSpan(text, e, labelEnd) ==
    LET closers == {j \in labelEnd + 1 .. e.to : text[j] = "]"}
        at == FirstOf(closers) + 1
        pointed == text[at + 1] = "<"
        start == IF pointed THEN at + 1 ELSE at
        ends == {j \in start + 1 .. e.to :
                   IF pointed THEN text[j] = ">"
                   ELSE LET d == Depth(text, start, j - 1)
                        IN ~d.skip /\ ((text[j] = ")" /\ d.depth = 0) \/ text[j] = " ")} IN
    IF closers = {} \/ at > e.to \/ text[at] # "(" \/ ends = {} THEN {}
    ELSE LET end == FirstOf(ends) - 1
         IN IF pointed \/ start < end THEN {[from |-> start, to |-> end]} ELSE {}

\* What a label holds ends where the last thing in it ends, a nested image
\* with its own destination included.
LabelEnds_AtTheText(active, to) == active                                    \* mutant
LabelEnds(active, to) ==
    IF active = <<>> THEN active
    ELSE [active EXCEPT ![Len(active)].labelEnd = Greater(@, to)]

\* markdown_destinations.
MarkdownDestinations(doc) ==
    LET text == Source(doc)
        Read(s, e) ==
            CASE e.is = "open" -> [s EXCEPT !.active = Append(@, [span |-> e, labelEnd |-> e.from])]
              [] e.is = "close" ->
                    LET a == Last(s.active)
                        found == InlineDestinationSpan(text, a.span, a.labelEnd) IN
                    IF found = {} THEN [s EXCEPT !.active = Front(@)]
                    ELSE [active |-> LabelEnds(Front(s.active), a.span.to), found |-> s.found \union found]
              [] e.is = "text" ->
                    IF s.active # <<>> /\ Last(s.active).span.from < e.from /\ e.to < Last(s.active).span.to
                    THEN [s EXCEPT !.active[Len(s.active)].labelEnd = Greater(@, e.to)] ELSE s
    IN FoldLeft(Read, [active |-> <<>>, found |-> {}], Events(doc)).found

\* apply_markdown_replacements: from the last to the first, none that
\* overlaps an earlier one.
Replaced(text, spans, new) ==
    LET order == SetToSortSeq(spans, LAMBDA a, b : a.from < b.from)
        Keep(s, p) == IF p.from < s.end THEN s ELSE [end |-> p.to, kept |-> <<p>> \o s.kept]
        kept == FoldLeft(Keep, [end |-> 0, kept |-> <<>>], order).kept
    IN FoldLeft(LAMBDA t, p : SubSeq(t, 1, p.from) \o new \o SubSeq(t, p.to + 1, Len(t)), text, kept)

-----------------------------------------------------------------------------

\* A text whose destinations are replaced is the same text with those and
\* nothing else changed: every one is found where it is, behind brackets,
\* parentheses and escapes, and inside a label that holds a picture.
OnlyDestinationsChange(doc) ==
    LET new == <<"n", "e", "w">> IN
    Replaced(Source(doc), MarkdownDestinations(doc), new) =
        Source([i \in DOMAIN doc |-> IF doc[i].is = "close" THEN [doc[i] EXCEPT !.to = new] ELSE doc[i]])
==============================================================================
