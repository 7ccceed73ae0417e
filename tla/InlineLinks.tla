----------------------------- MODULE InlineLinks -----------------------------
(***************************************************************************)
(* How an anchor and an image are written into the Markdown of an article  *)
(* (readability/markdown.rs, readable_markdown.rs).  Text is a sequence of *)
(* words, blanks and line breaks; a destination is readable (http, https,  *)
(* mailto, or a fragment), relative, or neither.                           *)
(***************************************************************************)
EXTENDS Integers, Sequences, SequencesExt, FiniteSets

Break == "break"
Blank == "blank"
Spaces == {Break, Blank}

Trimmed(text) ==
    LET kept == {i \in DOMAIN text : text[i] \notin Spaces}
    IN IF kept = {} THEN <<>>
       ELSE SubSeq(text, CHOOSE i \in kept : \A j \in kept : i <= j,
                         CHOOSE i \in kept : \A j \in kept : j <= i)

\* split_whitespace and join: runs of whitespace become one blank.
Collapsed(text) ==
    LET t == Trimmed(text)
    IN FlattenSeq([i \in DOMAIN t |->
          IF t[i] \notin Spaces THEN <<t[i]>>
          ELSE IF t[i - 1] \in Spaces THEN <<>> ELSE <<Blank>>])

\* inline_content: a link is one line, or it is no link.
InlineContent_Trimmed(text) == Trimmed(text)                                 \* mutant
InlineContent(text) == IF Contains(Trimmed(text), Break) THEN Collapsed(text) ELSE Trimmed(text)

\* readable_destination, against the address of the response.
Readable(destination, based) ==
    destination = "readable" \/ (destination = "relative" /\ based)

\* anchor: whitespace at its edges goes outside; without a destination the
\* text stays as it was.
Anchor(text, destination, based) ==
    IF ~Readable(destination, based) THEN <<[is |-> "text", text |-> text]>>
    ELSE LET inline == InlineContent(text)
             edge(i) == [is |-> "text", text |-> IF text[i] \in Spaces THEN <<Blank>> ELSE <<>>]
             link == [is |-> "link", text |-> inline]
         IN IF inline = <<>> THEN <<link>> ELSE <<edge(1), link, edge(Len(text))>>

\* image_destination: the widest candidate if it is absolute and readable,
\* else the one address of the element that comes first.
ImageDestination(image, based) ==
    LET other == IF image.src # "none" THEN image.src ELSE image.href IN
    IF image.widest = "readable" THEN "widest"
    ELSE IF Readable(other, based) THEN "other" ELSE "none"

\* image: without a destination the description is text, or nothing.
Image(image, based) ==
    LET to == ImageDestination(image, based)
        words == Collapsed(image.alt) IN
    IF to # "none" THEN <<[is |-> "image", text |-> words, to |-> to]>>
    ELSE IF words = <<>> THEN <<>> ELSE <<[is |-> "text", text |-> words]>>

-----------------------------------------------------------------------------

Said(parts) == FlattenSeq([i \in DOMAIN parts |-> parts[i].text])
Words(text) == SelectSeq(text, LAMBDA c : c \notin Spaces)

\* Where a word stands apart from the one before it.
Gaps(text) ==
    LET at == {i \in DOMAIN text : text[i] \notin Spaces}
    IN {Cardinality({j \in at : j <= i}) : i \in {k \in at : k = 1 \/ text[k - 1] \in Spaces}}

\* No word is lost, doubled or run into the one beside it by being linked or
\* described, between any two words of the page; a link and a description
\* are one line each; and a picture is lost only if no address of it can be
\* read.
LinksKeepTheProse(text, destination, based, image) ==
    LET page == <<"before">> \o text \o <<"after">>
        parts == <<[text |-> <<"before">>]>> \o Anchor(text, destination, based) \o <<[text |-> <<"after">>]>>
        picture == Image(image, based) IN
    /\ Words(Said(parts)) = Words(page)
    /\ Words(text) # <<>> => Gaps(Said(parts)) = Gaps(page)
    /\ \A i \in DOMAIN parts :
          i \in 2 .. Len(parts) - 1 /\ parts[i].is = "link" => ~Contains(parts[i].text, Break)
    /\ Words(Said(picture)) = Words(image.alt) /\ ~Contains(Said(picture), Break)
    /\ (picture # <<>> /\ picture[1].is # "image") \/ (picture = <<>>) =>
          image.widest # "readable" /\ ~Readable(image.src, based)
==============================================================================
