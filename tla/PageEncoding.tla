---------------------------- MODULE PageEncoding ----------------------------
(***************************************************************************)
(* How a stored body becomes text (metadata/decode.rs, metadata/mod.rs):   *)
(* which extractor reads it, and in which encoding.  The beginning of a    *)
(* body is the tokens a prescan tells apart: "<", ">", "meta", another     *)
(* name, "charset", "=", a quote, a blank, and labels, of which "nonsense" *)
(* names no encoding.                                                      *)
(***************************************************************************)
EXTENDS Integers, Sequences, SequencesExt, FiniteSets

CONSTANT Prescan   \* PRESCAN_BYTES in tokens

Labels == {"utf8", "latin1"}
None == "none"

\* Encoding::for_label.
Known(label) == label \in Labels

\* is_inside_a_meta_tag: the nearest "<" opens a meta tag not yet closed.
InsideAMetaTag_Anywhere(head, i) == TRUE                                     \* mutant
InsideAMetaTag(head, i) ==
    \E j \in 1 .. i - 1 :
        /\ head[j] = "<" /\ \A k \in j + 1 .. i - 1 : head[k] \notin {"<", ">"}
        /\ j + 2 <= Len(head) /\ j + 2 < i
        /\ head[j + 1] = "meta" /\ head[j + 2] = " "

\* charset_label_at: "=" and a label, blanks before both, in quotes or not.
LabelAt(head, i) ==
    LET rest == SelectSeq(SubSeq(head, i, Len(head)), LAMBDA t : t # " ")
    IN IF rest = <<>> \/ rest[1] # "=" THEN None
       ELSE IF Len(rest) > 2 /\ rest[2] = "quote" THEN rest[3]
       ELSE IF Len(rest) > 1 THEN rest[2] ELSE None

\* prescan_meta_charset: every occurrence is tried, near the top.
PrescanMetaCharset(body) ==
    LET head == SubSeq(body, 1, IF Len(body) < Prescan THEN Len(body) ELSE Prescan)
        naming == {i \in DOMAIN head : /\ head[i] = "charset" /\ InsideAMetaTag(head, i)
                                       /\ Known(LabelAt(head, i + 1))}
    IN IF naming = {} THEN None
       ELSE LabelAt(head, (CHOOSE i \in naming : \A j \in naming : i <= j) + 1)

\* decode_html and decode_text: the mark a body starts with, the response,
\* for markup the page, and UTF-8.
First(labels) ==
    LET known == SelectSeq(labels, Known) IN IF known = <<>> THEN "utf8" ELSE Head(known)
DecodedHtml(r) == First(<<r.mark, r.charset, PrescanMetaCharset(r.body)>>)
DecodedText(r) == First(<<r.mark, r.charset>>)

\* decoded_html and decoded_markdown: by the media type the response gave.
ReadAs(r) ==
    CASE r.type \in {"html", "xhtml"} -> [reader |-> "markup", encoding |-> DecodedHtml(r)]
      [] r.type = "markdown" -> [reader |-> "prose", encoding |-> DecodedText(r)]
      [] OTHER -> [reader |-> "nothing"]

-----------------------------------------------------------------------------
(* What was declared *)

\* A page is written in pieces: a meta tag that names an encoding, with more
\* before it or not, a tag whose address mentions one, and text that does.
Spelling(piece) ==
    CASE piece.is = "meta" -> <<"<", "meta", " ", "charset", " ", "=", "quote", piece.label, "quote", ">">>
      [] piece.is = "http" -> <<"<", "meta", " ", "quote", "charset", "=", piece.label, "quote", ">">>
      [] piece.is = "link" -> <<"<", "name", " ", "charset", "=", piece.label, ">">>
      [] piece.is = "text" -> <<"charset", "=", piece.label>>
Written(page) == FlattenSeq([i \in DOMAIN page |-> Spelling(page[i])])

Declared(page) ==
    LET metas == SelectSeq(page, LAMBDA p : p.is \in {"meta", "http"} /\ Known(p.label))
    IN IF metas = <<>> THEN None ELSE Head(metas).label

\* A page is read in what it, or the response, declared, and no word in an
\* address or in its text decides; a Markdown document decides nothing.
EncodingIsDeclared(page, r) ==
    LET answer == [r EXCEPT !.body = Written(page)]
        read == ReadAs(answer) IN
    /\ read.reader = "prose" => read.encoding = First(<<r.mark, r.charset>>)
    /\ read.reader = "markup" =>
          read.encoding = First(<<r.mark, r.charset,
              IF Len(answer.body) <= Prescan THEN Declared(page) ELSE PrescanMetaCharset(answer.body)>>)
    /\ (read.reader = "markup" /\ Len(answer.body) > Prescan /\ ~Known(r.mark) /\ ~Known(r.charset)) =>
          \E n \in 0 .. Len(page) : read.encoding = First(<<Declared(SubSeq(page, 1, n))>>)
=============================================================================
