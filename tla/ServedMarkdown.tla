--------------------------- MODULE ServedMarkdown ---------------------------
(***************************************************************************)
(* A page a site served as Markdown, on its way to the converter           *)
(* (readability/served.rs).  A document is the events the CommonMark       *)
(* parser makes of it: containers opened and closed in order, text, raw    *)
(* HTML, and line breaks, soft or hard.  A container is a link or an       *)
(* image, whose address is readable or not, front matter, or a block.  A   *)
(* word is a number above 0, without the brackets and backslashes that     *)
(* only_a_description takes out of a description.                          *)
(***************************************************************************)
EXTENDS Integers, Sequences, SequencesExt, FiniteSets

CONSTANT MaxNestingDepth   \* MAX_NESTING_DEPTH, 256 in the code

Begin(tag, readable) == [is |-> "open", tag |-> tag, readable |-> readable]
End(tag) == [is |-> "close", tag |-> tag]
Text(words) == [is |-> "text", words |-> words]
Raw(words) == [is |-> "raw", words |-> words]
Break == [is |-> "break"]
Spoken == {"text", "raw"}

\* nests_deeper_than, over every container, front matter included.
NestsDeeperThan(doc, ceiling) ==
    LET Step(s, e) ==
            CASE e.is = "open" -> [depth |-> s.depth + 1, over |-> s.over \/ s.depth + 1 > ceiling]
              [] e.is = "close" -> [s EXCEPT !.depth = IF @ = 0 THEN 0 ELSE @ - 1]
              [] OTHER -> s
    IN FoldLeft(Step, [depth |-> 0, over |-> FALSE], doc).over

-----------------------------------------------------------------------------
(* render *)

\* links: for each link being read, whether its start was written.  image:
\* the one whose description is being read, with how many are open in it.
NoImage == [depth |-> 0, readable |-> FALSE, words |-> <<>>]
Start == [out |-> <<>>, chars |-> 0, links |-> <<>>, frontMatter |-> FALSE, image |-> NoImage]

Write(s, events) == [s EXCEPT !.out = @ \o events]

\* ImageBeingRead::finish: the description is one piece of text, inside the
\* image if its address is readable and alone if it is not.
Finished(image) ==
    IF image.readable THEN <<Begin("image", TRUE), Text(image.words), End("image")>>
    ELSE <<Text(image.words)>>

ClosesImage_First(image) == TRUE                                             \* mutant
ClosesImage(image) == image.depth = 1

\* ImageBeingRead::read: of what is neither image nor text nothing is kept,
\* line breaks included, so the words around one run together.
InImage(s, e) ==
    CASE e.is = "open" /\ e.tag = "image" -> [s EXCEPT !.image.depth = @ + 1]
      [] e.is = "close" /\ e.tag = "image" ->
            IF ClosesImage(s.image) THEN Write([s EXCEPT !.image = NoImage], Finished(s.image))
            ELSE [s EXCEPT !.image.depth = @ - 1]
      [] e.is \in Spoken -> [s EXCEPT !.image.words = @ \o e.words]
      [] OTHER -> s

\* A link whose address is not readable loses its start, and the end that
\* belongs to that start; its text stays.
OnLink(s, e) ==
    IF e.is = "open"
    THEN LET r == [s EXCEPT !.links = Append(@, e.readable)] IN
         IF e.readable THEN Write(r, <<e>>) ELSE r
    ELSE LET r == [s EXCEPT !.links = IF @ = <<>> THEN @ ELSE Front(@)] IN
         IF s.links # <<>> /\ ~Last(s.links) THEN r ELSE Write(r, <<e>>)

InBody(s, e) ==
    CASE e.is \in Spoken -> Write([s EXCEPT !.chars = @ + Len(e.words)], <<Text(e.words)>>)
      [] e.is \in {"open", "close"} /\ e.tag = "link" -> OnLink(s, e)
      [] e.is = "open" /\ e.tag = "image" ->
            [s EXCEPT !.image = [depth |-> 1, readable |-> e.readable, words |-> <<>>]]
      [] OTHER -> Write(s, <<e>>)

Step(s, e) ==
    CASE e.is \in {"open", "close"} /\ e.tag = "meta" -> [s EXCEPT !.frontMatter = e.is = "open"]
      [] s.frontMatter -> s
      [] ~s.frontMatter /\ s.image.depth > 0 -> InImage(s, e)
      [] OTHER -> InBody(s, e)

Render(doc) == FoldLeft(Step, Start, doc)

\* read: a document past the ceiling is refused before anything is built.
Served(doc) ==
    IF NestsDeeperThan(doc, MaxNestingDepth) THEN [refused |-> TRUE]
    ELSE [refused |-> FALSE, markup |-> Render(doc).out, chars |-> Render(doc).chars]

-----------------------------------------------------------------------------
(* What the converter may count on *)

\* The containers open after some events, innermost last; an end that closes
\* nothing, or something else, leaves a mark that is never removed.
OpenAfter(events) ==
    LET Nest(open, e) ==
            CASE e.is = "open" -> Append(open, e.tag)
              [] e.is = "close" /\ open # <<>> /\ Last(open) = e.tag -> Front(open)
              [] e.is = "close" /\ (open = <<>> \/ Last(open) # e.tag) -> Append(open, "stray")
              [] OTHER -> open
    IN FoldLeft(Nest, <<>>, events)

\* The words of some events, and between them the line breaks.
LineEnd == 0
WordsOf(events) ==
    FlattenSeq([i \in DOMAIN events |-> CASE events[i].is \in Spoken -> events[i].words
                                          [] events[i].is = "break" -> <<LineEnd>>
                                          [] OTHER -> <<>>])

\* What a reader of the document is left with: all of its words but those of
\* the front matter, and every break that is not in an image's description.
Prose(doc) ==
    LET around(i) == Range(OpenAfter(SubSeq(doc, 1, i)))
        stays(i) == "meta" \notin around(i) /\ (doc[i].is = "break" => "image" \notin around(i))
    IN FlattenSeq([i \in DOMAIN doc |-> IF stays(i) THEN WordsOf(<<doc[i]>>) ELSE <<>>])

\* The markup is well nested and no deeper than the ceiling, every word of
\* the document is in it once and in order, none of it is raw, no address
\* it kept is unreadable, and an image's description is one text and no more.
\* The line breaks between words are kept outside the descriptions of images.
\* In a description they are lost, and words that only a break kept apart are
\* one word afterwards: of a description the property says no more than that
\* its characters are there in order.
ServedIsInert(doc) ==
    LET s == Served(doc) IN
    OpenAfter(doc) = <<>> /\ ~s.refused =>
        /\ OpenAfter(s.markup) = <<>> /\ ~NestsDeeperThan(s.markup, MaxNestingDepth)
        /\ WordsOf(s.markup) = Prose(doc) /\ s.chars <= Len(SelectSeq(Prose(doc), LAMBDA w : w # LineEnd))
        /\ \A i \in DOMAIN s.markup :
              LET e == s.markup[i] IN
              /\ e.is # "raw"
              /\ e.is = "open" => e.tag # "meta" /\ e.readable
              /\ e.is = "open" /\ e.tag = "image" =>
                    s.markup[i + 1].is = "text" /\ s.markup[i + 2] = End("image")
=============================================================================
