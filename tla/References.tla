----------------------------- MODULE References -----------------------------
(***************************************************************************)
(* The files a page names: the candidates of a srcset and the two a        *)
(* capture may ask for (srcset.rs), and the list metadata extraction makes *)
(* of every reference (metadata/resolve.rs).  A srcset is a sequence of    *)
(* characters, of which commas, blanks and parentheses matter; a reference *)
(* is what Url::join makes of it against the base of its page.             *)
(***************************************************************************)
EXTENDS Integers, Sequences, SequencesExt, FiniteSets, Positions

NoAddress == <<>>

-----------------------------------------------------------------------------
(* srcset *)

\* The first position from i on where a condition holds, past the end if none.
FirstFrom(text, i, holds(_)) ==
    LET here == {j \in i .. Len(text) : holds(j)}
    IN IF here = {} THEN Len(text) + 1 ELSE CHOOSE j \in here : \A k \in here : j <= k

Trimmed(text, junk) ==
    LET kept == {i \in DOMAIN text : text[i] \notin junk}
        lo == CHOOSE i \in kept : \A j \in kept : i <= j
        hi == CHOOSE i \in kept : \A j \in kept : j <= i
    IN IF kept = {} THEN <<>> ELSE SubSeq(text, lo, hi)

\* A comma inside parentheses does not end a descriptor; a second opening
\* parenthesis is content.
InParentheses_Never(text, i, j) == FALSE                                     \* mutant
InParentheses(text, i, j) ==
    \E k \in i .. j - 1 : text[k] = "(" /\ \A l \in k .. j - 1 : text[l] # ")"

\* candidates: an address runs to whitespace, a descriptor to the next comma.
Candidates(text) ==
    LET from[i \in 1 .. Len(text) + 1] ==
            LET s == FirstFrom(text, i, LAMBDA j : text[j] \notin {",", " "})
                e == FirstFrom(text, s, LAMBDA j : text[j] = " ")
                ended == s < e /\ text[e - 1] = ","
                c == FirstFrom(text, e, LAMBDA j : text[j] = "," /\ ~InParentheses(text, e, j))
                next == IF c < Len(text) THEN c + 1 ELSE Len(text) + 1
            IN IF s > Len(text) THEN <<>>
               ELSE IF ended
               THEN <<[url |-> Trimmed(SubSeq(text, s, e - 1), {","}), descriptor |-> <<>>]>> \o from[e]
               ELSE <<[url |-> SubSeq(text, s, e - 1),
                       descriptor |-> Trimmed(SubSeq(text, e, c - 1), {" "})]>> \o from[next]
    IN from[1]

\* rank_of: a width outranks every density, and what is unreadable is 1x.
Digit == [d \in {"1", "2", "3"} |-> CASE d = "1" -> 1 [] d = "2" -> 2 [] d = "3" -> 3]
RankOf(d) ==
    IF Len(d) # 2 \/ d[1] \notin DOMAIN Digit THEN 1
    ELSE CASE d[2] = "w" -> 10 + Digit[d[1]] [] d[2] = "x" -> Digit[d[1]] [] OTHER -> 1

\* widest and second_widest, in one walk: the positions of the two, or 0.
Ranked(list) ==
    LET rank(i) == IF i = 0 THEN 0 ELSE RankOf(list[i].descriptor)
        upto[n \in 0 .. Len(list)] ==
            IF n = 0 THEN [best |-> 0, second |-> 0]
            ELSE LET p == upto[n - 1] IN
                 IF rank(n) > rank(p.best) THEN [best |-> n, second |-> p.best]
                 ELSE IF rank(n) > rank(p.second) THEN [p EXCEPT !.second = n] ELSE p
    IN upto[Len(list)]

\* How a page writes a list down.
Written(list) ==
    FlattenSeq([i \in DOMAIN list |->
        list[i].url \o (IF list[i].descriptor = <<>> THEN <<>> ELSE <<" ">> \o list[i].descriptor)
                    \o <<",", " ">>])

\* The first of those with the most to offer among some positions.
Foremost(list, at) ==
    IF at = {} THEN 0
    ELSE CHOOSE i \in at : \A j \in at :
            \/ RankOf(list[j].descriptor) < RankOf(list[i].descriptor)
            \/ (RankOf(list[j].descriptor) = RankOf(list[i].descriptor) /\ i <= j)

\* What a page wrote is read back, whatever its addresses hold, and what is
\* asked for first and second is the most it offers and the most of the rest.
SrcsetIsRead(list) ==
    /\ Candidates(Written(list)) = list
    /\ LET r == Ranked(list) IN
       /\ r.best = Foremost(list, DOMAIN list)
       /\ r.second = Foremost(list, DOMAIN list \ {r.best})

-----------------------------------------------------------------------------
(* The list of a page *)

\* PageAddress: a base that is not http leaves the page's own in charge.  A
\* relative reference resolves against it, and a fragment goes.
BaseOf(page) == IF page.base \in {"page", "elsewhere"} THEN page.base ELSE "page"
Absolute(page, r) ==
    CASE r.kind = "relative" -> <<BaseOf(page), r.path>>
      [] r.kind = "absolute" -> <<"elsewhere", r.path>>
      [] OTHER -> NoAddress

\* resolve_assets: the first reference to an address is kept, with the
\* fallback that is not itself.
Resolved(page) ==
    LET at(i) == Absolute(page, page.refs[i].url)
        first == {i \in DOMAIN page.refs :
                    at(i) # NoAddress /\ \A j \in 1 .. i - 1 : at(j) # at(i)}
        order == InOrder(first)
    IN [k \in DOMAIN order |->
          LET i == order[k]
              f == Absolute(page, page.refs[i].fallback)
          IN [url |-> at(i), fallback |-> IF f = at(i) THEN NoAddress ELSE f]]

\* What the subresource pass counts on: no address twice, none its own
\* fallback, and nothing a page names left out.
ListIsUsable(page) ==
    LET list == Resolved(page) IN
    /\ \A i, j \in DOMAIN list : list[i].url = list[j].url => i = j
    /\ \A i \in DOMAIN list : list[i].fallback # list[i].url
    /\ {list[i].url : i \in DOMAIN list} =
          {Absolute(page, page.refs[i].url) : i \in DOMAIN page.refs} \ {NoAddress}
==============================================================================
