---------------------------- MODULE OpenElements ----------------------------
(***************************************************************************)
(* The count of open elements a page is measured by before a tree is built *)
(* of it (readability/markup_scan.rs, peak_open_elements).  A page is the  *)
(* sequence of its characters: "d" is the name of an ordinary element, "v" *)
(* of one that has no end tag, "s" of one whose content is raw text; any   *)
(* of them is a letter of text as well.                                    *)
(***************************************************************************)
EXTENDS Integers, Sequences, SequencesExt, FiniteSets

Letters == {"d", "v", "s"}
Quotes == {"'", "\""}

\* The first of some positions, past the end if there is none.
FirstOf(text, here) == IF here = {} THEN Len(text) + 1 ELSE CHOOSE j \in here : \A k \in here : j <= k

At(text, i, word) == i + Len(word) - 1 <= Len(text) /\ SubSeq(text, i, i + Len(word) - 1) = word

\* The run of letters at i.
NameAt(text, i) == SubSeq(text, i, FirstOf(text, {j \in i .. Len(text) : text[j] \notin Letters}) - 1)

\* end_of_tag: the first ">" outside a quoted value; what follows it, and
\* whether a slash is before it.
Quoted_Never(text, from, to) == FALSE                                        \* mutant
Quoted(text, from, to) ==
    LET Read(quote, c) == CASE quote = "" /\ c \in Quotes -> c
                            [] quote # "" /\ c = quote -> ""
                            [] OTHER -> quote
    IN FoldLeft(Read, "", SubSeq(text, from, to)) # ""
EndOfTag(text, from) ==
    LET e == FirstOf(text, {j \in from .. Len(text) : text[j] = ">" /\ ~Quoted(text, from, j - 1)})
    IN [next |-> IF e > Len(text) THEN e ELSE e + 1,
        closed |-> e <= Len(text) /\ e > from /\ text[e - 1] = "/"]

\* past_bracketed: a comment ends where it says it does and nowhere else.
PastBracketed(text, at) ==
    IF ~At(text, at, <<"<", "!", "-", "-">>) THEN EndOfTag(text, at + 1).next
    ELSE LET e == FirstOf(text, {j \in at + 4 .. Len(text) : At(text, j, <<"-", "-", ">">>)})
         IN IF e > Len(text) THEN e ELSE e + 3

\* past_raw_text: to the end tag of the same name.
PastRawText(text, from, name) ==
    LET e == FirstOf(text, {j \in from .. Len(text) :
                               At(text, j, <<"<", "/">>) /\ NameAt(text, j + 2) = name})
    IN IF e > Len(text) THEN e ELSE EndOfTag(text, e + 2 + Len(name)).next

\* peak_open_elements, from a position with some elements open: it stops at
\* the first one past the ceiling.
PeakOpenElements(text, ceiling) ==
    LET scan[s \in [at : Nat, open : Nat, peak : Nat]] ==
            LET next == s.at + 1
                name == NameAt(text, next)
                tag == EndOfTag(text, next + Len(name)) IN
            IF s.at >= Len(text) THEN s.peak
            ELSE IF text[s.at] # "<" THEN scan[[s EXCEPT !.at = next]]
            ELSE CASE text[next] = "/" ->
                        scan[[s EXCEPT !.open = IF @ = 0 THEN 0 ELSE @ - 1, !.at = EndOfTag(text, next).next]]
                   [] text[next] = "!" -> scan[[s EXCEPT !.at = PastBracketed(text, s.at)]]
                   [] name = <<>> /\ text[next] \notin {"/", "!"} -> scan[[s EXCEPT !.at = next]]
                   [] name = <<"s">> -> scan[[s EXCEPT !.at = PastRawText(text, tag.next, name)]]
                   [] name \notin {<<>>, <<"s">>} /\ (tag.closed \/ name = <<"v">>) ->
                        scan[[s EXCEPT !.at = tag.next]]
                   [] OTHER ->
                        LET open == s.open + 1 IN
                        IF open > s.peak /\ open > ceiling THEN open
                        ELSE scan[[at |-> tag.next, open |-> open,
                                   peak |-> IF open > s.peak THEN open ELSE s.peak]]
    IN scan[[at |-> 1, open |-> 0, peak |-> 0]]

-----------------------------------------------------------------------------
(* What a page holds *)

\* A page as its author wrote it: pieces, of which only an opening tag opens
\* an element and only an end tag ends one.
Spelling(piece) ==
    CASE piece.is = "open" -> <<"<", "d">> \o piece.inside \o <<">">>
      [] piece.is = "end" -> <<"<", "/", "d", ">">>
      [] piece.is = "void" -> <<"<", "v">> \o piece.inside \o <<">">>
      [] piece.is = "closed" -> <<"<", "d">> \o piece.inside \o <<"/", ">">>
      [] piece.is = "comment" -> <<"<", "!", "-", "-">> \o piece.inside \o <<"-", "-", ">">>
      [] piece.is = "script" -> <<"<", "s", ">">> \o piece.inside \o <<"<", "/", "s", ">">>
      [] piece.is = "text" -> piece.inside
Written(page) == FlattenSeq([i \in DOMAIN page |-> Spelling(page[i])])

Opened(page) ==
    LET Read(s, piece) ==
            CASE piece.is = "open" -> [open |-> s.open + 1, peak |-> IF s.open = s.peak THEN s.peak + 1 ELSE s.peak]
              [] piece.is = "end" -> [s EXCEPT !.open = IF @ = 0 THEN 0 ELSE @ - 1]
              [] OTHER -> s
    IN FoldLeft(Read, [open |-> 0, peak |-> 0], page).peak

\* The count is what the page opens at once, whatever its values, comments
\* and scripts hold, and it is refused exactly when that is past the ceiling.
PeakIsThePages(page, ceiling) ==
    PeakOpenElements(Written(page), ceiling) =
        IF Opened(page) > ceiling THEN ceiling + 1 ELSE Opened(page)
=============================================================================
