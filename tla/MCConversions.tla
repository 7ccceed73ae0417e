---------------------------- MODULE MCConversions ----------------------------
(***************************************************************************)
(* The pure parts of the program, asked one question at a time: every      *)
(* behaviour is one question, put whole or one piece after another, and    *)
(* the answer is compared with what the answer is for.                     *)
(***************************************************************************)
EXTENDS Filing, SequencesExt

CONSTANTS
    MaxNestingDepth,                  \* ServedMarkdown
    Prescan                           \* PageEncoding

S == INSTANCE ServedMarkdown
N == INSTANCE Narrowing
O == INSTANCE OpenElements
D == INSTANCE PageEncoding
I == INSTANCE InlineLinks
B == INSTANCE DestinationSpans
T == INSTANCE PageText

none == of = "nothing"
Ask(kind, q) == of' = kind /\ question' = q
Texts(chars, n) == SeqOf(chars, n)

-----------------------------------------------------------------------------
(* Addresses *)

Line(p, a) == [pattern |-> p, allowed |-> a]
Group(agents, lines) == [agents |-> agents, lines |-> lines]

OneRule ==
    \E p \in Texts({"a", "*", "$", "%*", "%a"}, 3), a \in BOOLEAN, path \in Texts({"a", "b", "%*"}, 3) :
        Ask("robots", [file |-> <<Group({"*"}, <<Line(p, a)>>)>>, path |-> path])
TwoRules ==
    \E p, q \in Texts({"a", "*", "$"}, 2), a, b \in BOOLEAN, path \in Texts({"a", "b"}, 2) :
        Ask("robots", [file |-> <<Group({"*"}, <<Line(p, a), Line(q, b)>>)>>, path |-> path])
TwoGroups ==
    LET spelled == {<<"a">>, <<"*">>, <<"%*">>, <<"a", "%*">>} IN
    \E p, q, r \in spelled, a, b \in BOOLEAN, path \in {<<"a">>, <<"%*">>, <<"a", "%*">>, <<"b">>},
       agents \in {{"archeion"}, {"other"}, {"archeion", "other"}} :
        Ask("robots", [file |-> <<Group(agents, <<Line(p, a), Line(q, b)>>),
                                  Group({"*"}, <<Line(r, FALSE)>>)>>, path |-> path])

Url(scheme, literal, labels, dots, dressed, query) ==
    [scheme |-> scheme, literal |-> literal, labels |-> labels, dots |-> dots,
     credentials |-> dressed, fragment |-> dressed, path |-> 1, query |-> query]
Hosts ==
    {Url(s, FALSE, l, d, d = 1, <<>>) : s \in {"http", "https", "ftp"}, d \in {0, 1},
        l \in {<<>>, <<"", "com">>, <<"www">>, <<"www", "com">>, <<"a", "com">>, <<"www", "a", "com">>,
               <<"www", "www", "a", "com">>, <<"www", "www", "com">>, <<"unsafe", "com">>}}
    \union {Url("http", TRUE, <<"1.2.3.4">>, 0, FALSE, <<>>)}
Params == {[name |-> n, value |-> v, layers |-> l] : n \in {0, 1, 2}, v \in {0, 1}, l \in {0, 2}}
          \union {[name |-> 9, value |-> 1, layers |-> 1]}
Queries == {Url("http", FALSE, <<"a", "com">>, 0, FALSE, q) : q \in Texts(Params, 2)}

TwoHosts == \E u, v \in Hosts : Ask("addresses", <<u, v>>)
TwoQueries == \E u, v \in Queries : Ask("addresses", <<u, v>>)

Candidate(u, d) == [url |-> u, descriptor |-> d]
Srcset ==
    LET urls == {<<"a">>, <<"a", ",", "b">>, <<"b", ")">>, <<"(", "a">>}
        descriptors == {<<>>, <<"2", "x">>, <<"1", "w">>, <<"2", "w">>, <<"(", ",", ")">>, <<"?">>} IN
    \E list \in SeqOf({Candidate(u, d) : u \in urls, d \in descriptors}, 2)
                \union [1 .. 3 -> {Candidate(<<"a">>, d) : d \in descriptors}] :
        Ask("srcset", list)

PageList ==
    LET url(k) == [kind |-> k, path |-> 1]
        kinds == {url("relative"), url("absolute"), url("unfetchable")} IN
    \E base \in {"page", "elsewhere", "unusable"},
       refs \in SeqOf({[url |-> u, fallback |-> f] : u \in kinds, f \in kinds}, 3) :
        Ask("list", [base |-> base, refs |-> refs])

Href(scheme, host, spelled, rest, fragment) ==
    [absolute |-> scheme # "none", scheme |-> scheme, host |-> host, port |-> "own",
     spelled |-> spelled, rest |-> rest, fragment |-> fragment]
Spelled == {"plain", "named", "numeric"}
Relative == {Href("none", "none", s, r, f) : s \in Spelled, r \in {"", "a", "b"}, f \in BOOLEAN}
Hrefs == Relative \union {Href(c, h, s, r, FALSE) : c \in {"http", "https", "ftp"}, h \in {"seed", "other"},
                                                    s \in Spelled, r \in {"a", "b"}}
Pages == {L!Url(c, "seed", "own", <<>>, FALSE) : c \in {"http", "https"}}

\* Links of one page and of two; three of them where they can collide.
Links ==
    LET links(hrefs) == {[page |-> p, href |-> h] : p \in Pages, h \in hrefs} IN
    \E read \in SeqOf(links(Hrefs), 2)
                \union [1 .. 3 -> links({h \in Relative : h.spelled # "named" /\ ~h.fragment})] :
        Ask("links", read)
Bases ==
    LET bases == Pages \union {L!Url("https", h, p, <<>>, FALSE) : h \in {"seed", "other"}, p \in {"own", "8080"}} IN
    \E page \in Pages, declared \in {{}} \union {{b} : b \in bases}, h \in Hrefs :
        Ask("bases", [page |-> page, declared |-> declared, href |-> h])

\* A transfer nothing cut sends what it promised, unless its status sends no
\* body or nothing was promised.
Answers ==
    LET lines == {[name |-> n, value |-> v] : n \in {"set-cookie", "other"}, v \in {"x", "y"}} IN
    \E silent, cut \in BOOLEAN, redirect \in {"none", "elsewhere"}, status \in {"200", "204", "304", "404"},
       headers \in Texts(lines, 2), promised \in 0 .. 3, sent \in 0 .. 3 :
        /\ status \in {"204", "304"} => sent = 0 /\ ~cut
        /\ status \in {"204", "304"} \/ cut \/ promised = 0 \/ sent = promised
        /\ Ask("answers", [silent |-> silent, redirect |-> redirect, status |-> status, headers |-> headers,
                           promised |-> promised, sent |-> sent, cut |-> cut])
Spellings ==
    LET v4 == {<<0, 1, 2, 3>>, <<10, 0, 0, 1>>, <<127, 0, 0, 1>>, <<172, 15, 0, 1>>, <<172, 16, 0, 1>>,
               <<172, 31, 0, 1>>, <<172, 32, 0, 1>>, <<192, 168, 0, 1>>, <<192, 0, 0, 1>>, <<169, 254, 169, 254>>,
               <<255, 255, 255, 255>>, <<8, 8, 8, 8>>}
        hosts == {[is |-> "v4", octets |-> o] : o \in v4}
                 \union {[is |-> "v6", block |-> b] : b \in {"loopback", "unspecified", "unique local", "link local", "global"}}
                 \union {[is |-> "name", labels |-> l] : l \in Texts({"localhost", "metadata", "goog", E!Root}, 2)
                              \union {<<"metadata", "google", "internal">>, <<"a", "metadata", "goog">>}} IN
    \E scheme \in {"http", "https", "file"}, h \in hosts, allowed \in BOOLEAN :
        Ask("spellings", [scheme |-> scheme, host |-> h, allowed |-> allowed])

Credentials ==
    LET holds == Texts({"x", "blank", "newline", "control"}, 3) IN
    \E file \in [given : BOOLEAN, opens : BOOLEAN, text : BOOLEAN, holds : holds,
                  mode : {{"owner read"}, {"owner read", "group write"}, {"owner read", "group read"},
                          {"owner read", "other read"}}],
       exported \in [given : BOOLEAN, text : BOOLEAN, holds : {<<>>, <<"x">>, <<"x", "newline">>, <<"x", "newline", "x">>}] :
        Ask("credentials", [file |-> file, exported |-> exported])
Seeds ==
    LET call(k, u, b, p) == [is |-> k, url |-> u, bound |-> b, panics |-> p]
        calls == {call("crawl", u, b, p) : u \in {"a", "b"}, b \in {"a", "b", "opaque"}, p \in BOOLEAN}
                 \union {call("fetch", u, b, FALSE) : u \in {"a", "b"}, b \in {"a", "opaque"}} IN
    \E list \in Texts(calls, 3) : Ask("seeds", list)

-----------------------------------------------------------------------------
(* Documents *)

Leaf(t, named, f) == [type |-> t, name |-> IF named THEN t ELSE "none", free |-> f, graph |-> <<>>]
Leaves == {Leaf(t, named, f) : t \in {"site", "article", "other"}, named \in BOOLEAN,
                               f \in {"none", "true", "false"}}
Objects == Leaves \union {[l EXCEPT !.graph = <<g>>] : l \in Leaves,
                g \in {Leaf("article", TRUE, "true"), Leaf("site", TRUE, "true"), Leaf("other", TRUE, "false")}}
          \union {[l EXCEPT !.name = "blank"] : l \in Leaves}
Structured ==
    \E o, p \in Objects, list \in BOOLEAN :
        Ask("structured", <<[list |-> list, nodes |-> <<o>>], [list |-> FALSE, nodes |-> <<p>>]>>)

XmlOpen(n, ns) == [is |-> "open", name |-> n, ns |-> ns]
XmlClose(n, ns) == [is |-> "close", name |-> n, ns |-> ns]
XmlText(u) == [is |-> "text", text |-> u]
XmlPieces ==
    {<<XmlOpen("loc", ns), XmlText(u), XmlClose("loc", ns)>> :
        ns \in {"sitemap", "none", "extension"}, u \in {"on", "here", "off"}}
    \union {<<XmlOpen("urlset", "sitemap")>>, <<XmlClose("urlset", "sitemap")>>,
            <<XmlOpen("sitemapindex", "sitemap")>>, <<XmlOpen("loc", "sitemap")>>,
            <<XmlOpen("loc", "extension")>>, <<XmlText("on")>>, <<XmlClose("loc", "sitemap")>>,
            <<XmlClose("loc", "extension")>>, <<[is |-> "entity"]>>,
            <<[is |-> "empty", name |-> "sitemapindex", ns |-> "none"]>>}
Sitemap ==
    \/ none /\ \E piece \in XmlPieces : Ask("sitemap", piece)
    \/ /\ of = "sitemap" /\ Len(question) < 4
       /\ \E piece \in XmlPieces : Ask("sitemap", question \o piece)

\* Three addresses of a site, each serving a list of its own or none.
Sitemaps ==
    LET urls == {"/sitemap.xml", "/a.xml", "/b.xml"}
        body(n) == FlattenSeq([i \in 1 .. n |-> <<XmlOpen("loc", "none"), XmlText("on"), XmlClose("loc", "none")>>])
        serves == [success : BOOLEAN, gzip : BOOLEAN, body : {body(0), body(1), body(2)}]
        directives == [key : {"sitemap", "allow"}, value : {"", "/a.xml", "/b.xml"}] IN
    \E explicit \in {"", "/a.xml", "/c.xml"}, robots \in Texts(directives, 2), a \in serves, b \in serves :
        Ask("sitemaps", [explicit |-> explicit, robots |-> robots,
            site |-> [u \in urls |-> CASE u = "/a.xml" -> a [] u = "/b.xml" -> b
                                       [] OTHER -> [success |-> TRUE, gzip |-> FALSE, body |-> body(1)]]])

ScanMax == [titleRaw |-> 4, text |-> 2, metas |-> 1, blocks |-> 1, jsonLd |-> 2, links |-> 1,
            assets |-> 1, url |-> 1]
TitleTokens == {[is |-> "title", graphic |-> g] : g \in BOOLEAN}
               \union {[is |-> "text", char |-> c] : c \in {"x", "blank", "reference"}}
OtherTokens == {[is |-> k, id |-> i, size |-> z] : k \in {"meta", "anchor", "asset", "canonical"},
                                                  i \in {1, 2}, z \in {1, 3}}
               \union {[is |-> "json", size |-> z] : z \in {0, 1, 2, 3}}
Markup ==
    \/ none /\ \E t \in TitleTokens \union OtherTokens : Ask("markup", <<t>>)
    \/ /\ of = "markup"
       /\ \/ Head(question) \in TitleTokens /\ Len(question) < 5
             /\ \E t \in TitleTokens : Ask("markup", Append(question, t))
          \/ Head(question) \in OtherTokens /\ Len(question) < 3
             /\ \E t \in OtherTokens : Ask("markup", Append(question, t))

\* Front matter is only where a document begins; a line breaks after something
\* that was said; nothing closes but what is open, and there is room left to
\* close it.
MarkdownEvents(doc) ==
    {S!Begin(t, r) : t \in {"link", "image"}, r \in BOOLEAN}
    \union {S!Begin("block", TRUE), S!Text(<<Len(doc) + 1>>), S!Raw(<<Len(doc) + 1>>)}
    \union (IF doc = <<>> THEN {S!Begin("meta", TRUE)} ELSE {})
    \union (IF doc # <<>> /\ Last(doc).is \in S!Spoken \union {"close"} THEN {S!Break} ELSE {})
    \union {S!End(t) : t \in IF S!OpenAfter(doc) = <<>> THEN {} ELSE {Last(S!OpenAfter(doc))}}
Markdown ==
    \E doc \in (IF none THEN {<<>>} ELSE IF of = "markdown" THEN {question} ELSE {}) :
    \E e \in MarkdownEvents(doc) :
        /\ Len(doc) + 1 + Len(S!OpenAfter(Append(doc, e))) <= 6
        /\ Ask("markdown", Append(doc, e))

Trees == {p \in {0} \X {1} \X (1 .. 2) \X (1 .. 3) \X (1 .. 4) :
             \A n \in 3 .. 5 : p[n] \in N!Chain([parent |-> p], n - 1)}
Told ==
    LET some(it, under) == [it |-> it, under |-> under] IN
    \E parent \in Trees, body \in {0, 2}, a \in SUBSET (2 .. 5), f \in SUBSET (3 .. 5),
       u \in {{}, {3}}, v \in {{}, {1}, {3}}, form \in {"one", "second", "furniture"} :
        /\ form # "one" => u = {}
        /\ form = "furniture" => a = {}
        /\ body = 0 => u = {} /\ v = {}
        /\ Ask("told", [page |-> [parent |-> parent, body |-> body],
               rule |-> [body |-> CASE form = "one" -> <<some(a, {})>>
                                    [] form = "second" -> <<some({1}, {}), some(a, u)>>
                                    [] form = "furniture" -> <<>>,
                         strip |-> IF f = {} THEN <<>> ELSE <<some(f, v), some({4}, {})>>]])

\* Values, comments and scripts that hold what looks like tags.
Elements ==
    LET values == {<<>>, <<"'", ">", "'">>, <<"\"", "'", "<", "d", ">", "\"">>, <<"'", "/", "'">>}
        written == {<<"<", "/", "d", ">">>, <<"<", "d", ">">>, <<"<">>, <<"'">>}
        pieces == {[is |-> k, inside |-> v] : k \in {"open", "void", "closed"}, v \in values}
                  \union {[is |-> k, inside |-> w] : k \in {"comment", "script"}, w \in written}
                  \union {[is |-> "end", inside |-> <<>>], [is |-> "text", inside |-> <<"d", ">", "'">>],
                          [is |-> "text", inside |-> <<"<", " ">>]} IN
    \E page \in SeqOf(pieces, 2) \union [1 .. 4 -> {p \in pieces : p.is \in {"open", "end"} /\ Len(p.inside) < 3}],
       ceiling \in {1, 2} :
        Ask("elements", [page |-> page, ceiling |-> ceiling])

Encodings ==
    LET labels == {"utf8", "latin1", "nonsense"}
        pieces == {[is |-> k, label |-> l] : k \in {"meta", "http", "link", "text"}, l \in labels} IN
    \E page \in SeqOf(pieces, 2), mark \in {"none", "utf8"}, charset \in labels \union {"none"},
       type \in {"html", "markdown", "other"} :
        Ask("encodings", [page |-> page, r |-> [mark |-> mark, charset |-> charset, type |-> type, body |-> <<>>]])

Judgements ==
    \E type \in {"html", "markdown", "other"}, cost \in {"little", "many open", "too wide"},
       narrowed \in {"no rule", "untouched", "the article", "a part", "not an article"},
       probe, converter \in BOOLEAN, scorer \in {"nothing", "error", "article"},
       article \in 0 .. 4, rest \in {0, 1, 5, 6, 7, 8, 9, 10}, size \in {1, 2} :
        Ask("judged", [type |-> type, tooExpensive |-> cost = "many open", tooWide |-> cost = "too wide",
                       narrowed |-> narrowed, probe |-> probe, scorer |-> scorer, converter |-> converter,
                       article |-> article, chars |-> article + rest,
                       excerpt |-> size, byline |-> size, markdown |-> size])

\* Files that are read, of up to two hosts however they are spelled, asked for
\* pages of these hosts and others; and all that may become of one file.
RuleFiles ==
    LET rules == [body : Texts({"good", "bad"}, 1), strip : Texts({"good", "bad"}, 1)]
        host(labels, dots, spelled) == [literal |-> FALSE, labels |-> labels, dots |-> dots, spelled |-> spelled]
        literal(spelled) == [literal |-> TRUE, labels |-> <<"h", "com">>, dots |-> 0, spelled |-> spelled]
        hosts == {host(l, 0, "plain") : l \in {<<"h", "com">>, <<"www", "h", "com">>, <<"www", "com">>, <<"com">>}}
                 \union {host(<<"h", "com">>, 1, "plain"), host(<<"h", "com">>, 0, "capitals"),
                         host(<<"h", "com">>, 0, "port"), literal("plain"), literal("brackets")}
        pages == [scheme : {"https", "file"}, literal : BOOLEAN, dots : {0, 1}, credentials : {FALSE},
                  labels : {<<"h", "com">>, <<"www", "www", "h", "com">>, <<"www", "com">>, <<"www", "h">>},
                  fragment : {FALSE}, path : {0}, query : {<<>>}]
        read == [opens |-> "open", regular |-> TRUE, json |-> TRUE, yields |-> 2] IN
    \E page \in {p \in pages : p.literal => p.dots = 0 /\ p.labels = <<"h", "com">>} :
        \/ \E named \in {s \in SUBSET hosts : Cardinality(s) <= 2} : \E declared \in [named -> rules] :
              Ask("rules", [page |-> page, file |-> read @@ [declared |-> declared]])
        \/ \E opens \in {"absent", "denied", "open"}, regular, json \in BOOLEAN, yields \in 1 .. 4 :
              \E declared \in [{host(<<"h", "com">>, 0, "plain")} -> rules] :
                 Ask("rules", [page |-> page, file |-> [opens |-> opens, regular |-> regular, json |-> json,
                                                        yields |-> yields, declared |-> declared]])

Anchors ==
    \E text \in Texts({"one", "two", "break", "blank"}, 4), destination \in {"readable", "relative", "neither"},
       based \in BOOLEAN, alt \in Texts({"one", "break"}, 3),
       widest, src \in {"none", "readable", "relative"} :
        /\ alt = <<>> \/ text = <<>>
        /\ widest = "none" \/ text = <<>>
        /\ Ask("anchors", [text |-> text, destination |-> destination, based |-> based,
                           image |-> [alt |-> alt, widest |-> widest, src |-> src, href |-> "none"]])

\* Pages of a body and up to four nodes more; a text has no children.
TreeShapes == {0} \X {1} \X {2} \X (2 .. 3) \X (2 .. 4) \X (2 .. 5)
PageTexts ==
    \E parent \in TreeShapes, kinds \in [3 .. 6 -> {"text", "element", "iframe", "script", "noscript"}],
       src \in {"readable", "unreadable"}, ceiling \in {2, 3} :
        /\ \A n \in 3 .. 6 : parent[n] >= 3 => kinds[parent[n]] \notin {"text", "iframe"}
        /\ Ask("trees", [ceiling |-> ceiling,
               page |-> [parent |-> parent, src |-> [n \in 1 .. 6 |-> src],
                         kind |-> [n \in 1 .. 6 |-> IF n < 3 THEN "element" ELSE kinds[n]]]])

-----------------------------------------------------------------------------
(* Archives *)

\* A link or an image, alone or around another.
Destinations ==
    LET open(k) == [is |-> "open", kind |-> k]
        text(c) == [is |-> "text", chars |-> c]
        labels == {<<"a">>, <<"\\", "]">>, <<"code", "]", "code">>, <<"[", "]">>, <<"(", "a">>}
        closing == {[is |-> "close", to |-> d, pointed |-> FALSE, titled |-> t] :
                       d \in {<<"a">>, <<"a", "(", "b", ")">>, <<"a", "\\", ")", "b">>}, t \in BOOLEAN}
                   \union {[is |-> "close", to |-> d, pointed |-> TRUE, titled |-> t] :
                       d \in {<<>>, <<"a", " ", ")">>}, t \in BOOLEAN} IN
    \E around, within \in {"link", "image"}, c, d \in closing, l, m \in labels, deep \in BOOLEAN, after \in {<<>>, <<"a">>} :
        /\ ~deep \/ around # within \/ around = "image"
        /\ Ask("destinations",
               IF deep THEN <<text(<<"a">>), open(around), text(m), open(within), text(l), c>>
                            \o (IF after = <<>> THEN <<>> ELSE <<text(after)>>) \o <<d>>
               ELSE <<open(around), text(l), c, text(m), open(within), text(l), d>>)

Slugs ==
    \E title \in Texts({"a", "?"}, 5), path \in Texts({"?", "a", "%a", "%?", "%"}, 3) :
        Ask("slugs", [title |-> title, path |-> path])

Link(u) == [kind |-> "link", names |-> u]
Image(u) == [kind |-> "image", names |-> u]

\* Three captures of each of two items; ids that are one only if the items
\* were answered alike within the same seconds.
Vault ==
    \E slug \in [1 .. 2 -> [1 .. 3 -> {"x", "y"}]], article \in [1 .. 2 -> SUBSET (1 .. 3)],
       host \in {"h", "i"}, alike, all, tied \in BOOLEAN :
        /\ article[1] = 1 .. 3 \/ slug[1] = [i \in 1 .. 3 |-> "x"]
        /\ Ask("vault", [all |-> all, failing |-> 100, created |-> TRUE, archive |->
             [k \in 1 .. 2 |->
                [url |-> k, host |-> IF k = 1 THEN "h" ELSE host, prefix |-> <<"item", k>>,
                 captures |-> [i \in 1 .. 3 |->
                    [id |-> IF alike THEN <<"id", i, 0>> ELSE <<"id", i, k>>,
                     at |-> IF tied THEN 1 ELSE i, date |-> 1, slug |-> slug[k][i],
                     article |-> i \in article[k],
                     body |-> <<Link(1), Link(2), Link(3), Image(1)>>, assets |-> <<>>]]]]])

Pictures ==
    LET asset(u, v, h, t, ok) == [asked |-> u, answered |-> v, hash |-> h, type |-> t,
                                  success |-> ok, readable |-> h = 1]
        some == {asset(u, v, h, t, ok) : u \in {1, 2}, v \in {1, 2}, h \in {1, 2},
                                         t \in {"png", "other"}, ok \in BOOLEAN} IN
    \E assets \in SeqOf(some, 2), failing \in {1, 2, 100}, created \in BOOLEAN :
        Ask("vault", [all |-> FALSE, failing |-> failing, created |-> created, archive |->
            << [url |-> 1, host |-> "h", prefix |-> <<"item", 1>>,
                captures |-> << [id |-> <<"id", 1, 1>>, at |-> 1, date |-> 1, slug |-> "x", article |-> TRUE,
                                 body |-> <<Image(1), Link(1), Image(2), Image(1)>>, assets |-> assets] >>] >>])

-----------------------------------------------------------------------------

Init == of = "nothing" /\ question = <<>>

Next ==
    \/ none /\ (OneRule \/ TwoRules \/ TwoGroups \/ TwoHosts \/ TwoQueries \/ Srcset \/ PageList)
    \/ none /\ (Links \/ Bases \/ Answers \/ Spellings \/ Credentials \/ Seeds)
    \/ none /\ (Sitemaps \/ Structured \/ Told \/ Elements \/ Encodings \/ Judgements \/ RuleFiles \/ Anchors)
    \/ none /\ PageTexts
    \/ none /\ (Vault \/ Pictures \/ Destinations \/ Slugs)
    \/ Sitemap \/ Markup \/ Markdown

Spec == Init /\ [][Next]_<<of, question>>

\* What a document says: what is kept of it is kept in order and inert, the
\* elements, the texts and the encoding counted are the page's, links keep
\* the prose, and a srcset is read as it was written.
DocumentsAreReadWhole ==
    /\ of = "srcset" => F!SrcsetIsRead(question)
    /\ of = "markdown" => S!ServedIsInert(question)
    /\ of = "told" => N!RuleIsKept(question.page, question.rule)
    /\ of = "elements" => O!PeakIsThePages(question.page, question.ceiling)
    /\ of = "encodings" => D!EncodingIsDeclared(question.page, question.r)
    /\ of = "anchors" => I!LinksKeepTheProse(question.text, question.destination, question.based, question.image)
    /\ of = "trees" => T!TextIsCountedOnce(question.page, question.ceiling)
    /\ of = "destinations" => B!OnlyDestinationsChange(question)
=============================================================================
