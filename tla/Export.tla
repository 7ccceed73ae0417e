------------------------------- MODULE Export -------------------------------
(***************************************************************************)
(* The Markdown vault an archive is exported to (export.rs).  An archive   *)
(* is its items in the order walk() gives them, by address; an item its    *)
(* host, the prefix of its id, and its captures oldest first: an id, the   *)
(* instant and the day it was fetched, the slug its title makes, whether   *)
(* it has an article, the link and image destinations of that article in   *)
(* order, and the assets of the capture.                                   *)
(***************************************************************************)
EXTENDS Integers, Sequences, SequencesExt, FiniteSets, Positions

NoPath == <<>>

-----------------------------------------------------------------------------
(* The notes of an export *)

\* write_export: every capture, or the last of each item; one without an
\* article is no note.
Selected(captures, all) ==
    Picked(captures, {k \in DOMAIN captures :
                         captures[k].article /\ (all \/ k = Len(captures))})

NoteOf(item, c) == [url |-> item.url, host |-> item.host, prefix |-> item.prefix,
                    id |-> c.id, at |-> c.at, date |-> c.date, slug |-> c.slug,
                    body |-> c.body, assets |-> c.assets]

Ordered(archive, all) ==
    FlattenSeq([i \in DOMAIN archive |->
        LET chosen == Selected(archive[i].captures, all)
        IN [k \in DOMAIN chosen |-> NoteOf(archive[i], chosen[k])]])

\* unique_note_path: the first name nothing took; a fourth is not tried.
NamesFor_WithoutTheCapture(n) ==                                             \* mutant
    << <<n.host, n.date, n.slug>>, <<n.host, n.date, n.slug, n.prefix>> >>
NamesFor(n) ==
    << <<n.host, n.date, n.slug>>, <<n.host, n.date, n.slug, n.prefix>>,
       <<n.host, n.date, n.slug, n.id>> >>

Take(taken, n) ==
    LET free == {k \in DOMAIN NamesFor(n) : ~Contains(taken, NamesFor(n)[k])}
    IN Append(taken, IF free = {} THEN NoPath
                     ELSE NamesFor(n)[CHOOSE k \in free : \A j \in free : k <= j])
Paths(notes) == FoldLeft(Take, <<>>, notes)

\* unreachable!("capture ids are unique within an export").
Panics(notes) == Contains(Paths(notes), NoPath)

\* link_targets_by_url: the newest note of an address, the first of a tie.
Newer(notes, url, best, i) ==
    IF notes[i].url # url \/ (best # 0 /\ notes[best].at >= notes[i].at) THEN best ELSE i
TargetOf(notes, url) ==
    FoldLeft(LAMBDA best, i : Newer(notes, url, best, i), 0, [i \in DOMAIN notes |-> i])

\* relative_markdown_path.
Relative(from, to) == IF from[1] = to[1] THEN <<Tail(to)>> ELSE << <<"..">>, to>>

\* rewrite_note_links: a link to an exported item, whatever spells its
\* address, names that item's note; an image does not, nor a relative link.
Linked(notes, paths, i, d) ==
    LET t == TargetOf(notes, d.names)
    IN IF d.kind # "link" \/ t = 0 THEN d ELSE [kind |-> "note", to |-> Relative(paths[i], paths[t])]

-----------------------------------------------------------------------------
(* The pictures of a note *)

\* assets_by_url: under the address asked for and the one that answered, the
\* last entry written for a key.
AssetAt(assets, url) ==
    LET naming == {i \in DOMAIN assets : url \in {assets[i].asked, assets[i].answered}}
    IN IF naming = {} THEN [success |-> FALSE]
       ELSE assets[CHOOSE i \in naming : \A j \in naming : j <= i]
Carried(n, d) ==
    /\ d.kind = "image" /\ AssetAt(n.assets, d.names).success
    /\ AssetAt(n.assets, d.names).type # "other"

\* rewrite_note_assets: a success, of a type on the list, whose body can be
\* read; a file already copied for this note is not read again.
FileOf(n, d) == LET a == AssetAt(n.assets, d.names) IN <<a.hash, a.type>>
Picture(n, s, d) ==
    LET file == FileOf(n, d) IN
    IF ~Carried(n, d) THEN [s EXCEPT !.body = Append(@, d)]
    ELSE IF Contains(s.files, file) \/ AssetAt(n.assets, d.names).readable
    THEN [s EXCEPT !.body = Append(@, [kind |-> "file", to |-> file]),
                   !.files = IF Contains(@, file) THEN @ ELSE Append(@, file)]
    ELSE [s EXCEPT !.body = Append(@, d), !.unreadable = Append(@, file[1])]
Blank == [body |-> <<>>, files |-> <<>>, unreadable |-> <<>>]
Pictured(n) == FoldLeft(LAMBDA s, d : Picture(n, s, d), Blank, n.body)

-----------------------------------------------------------------------------
(* What is written *)

\* write_note: a note's pictures, then the note; write_host_indexes after
\* every note, one for each host.
NoteFile(notes, paths, i) ==
    LET body == Pictured(notes[i]).body IN
    [path |-> paths[i],
     holds |-> [d \in DOMAIN body |->
                  IF body[d].kind = "file" THEN body[d] ELSE Linked(notes, paths, i, body[d])]]
NoteWrites(notes, paths, i) ==
    LET files == Pictured(notes[i]).files IN
    Append([f \in DOMAIN files |-> [path |-> files[f], holds |-> <<>>]], NoteFile(notes, paths, i))

Indexes(notes, paths) ==
    LET hosts == SetToSeq({notes[i].host : i \in DOMAIN notes}) IN
    [h \in DOMAIN hosts |->
        [path |-> <<hosts[h], "index">>,
         holds |-> {paths[i] : i \in {j \in DOMAIN notes : notes[j].host = hosts[h]}}]]

Writes(notes) ==
    FlattenSeq([i \in DOMAIN notes |-> NoteWrites(notes, Paths(notes), i)]) \o Indexes(notes, Paths(notes))

\* export_archive: the write that fails, counted from 1, leaves what is written before
\* it, or nothing at all in a directory this export made.
Vault(notes, failing, created) ==
    LET all == Writes(notes) IN
    IF failing > Len(all) THEN all
    ELSE IF created THEN <<>> ELSE SubSeq(all, 1, failing - 1)

-----------------------------------------------------------------------------
(* What the export format promises *)

\* Captures of two items of one host, of one day and one title, that were
\* given one id: two seconds' worth of responses with nothing to tell apart.
SharesAnId(notes) ==
    \E i, j \in DOMAIN notes :
        /\ notes[i].url # notes[j].url /\ notes[i].host = notes[j].host
        /\ notes[i].id = notes[j].id

\* Where a relative destination leads from the directory of a note.
LeadsTo(host, to) == IF Len(to) = 1 THEN <<host>> \o to[1] ELSE to[2]

NewestOf(notes, url) ==
    {i \in DOMAIN notes : notes[i].url = url /\ \A j \in DOMAIN notes :
        notes[j].url = url => notes[j].at <= notes[i].at}

\* Every note has a name of its own unless two captures were given one id; a
\* link to an exported item leads to the newest note of that item, which is
\* in the vault; a picture is in the vault before the note that shows it,
\* and stays where it was only if it could not be carried.
VaultIsWhole(archive, all, failing, created) ==
    LET notes == Ordered(archive, all)
        paths == Paths(notes)
        vault == Vault(notes, failing, created)
        written(k) == {vault[j].path : j \in 1 .. k} IN
    IF Panics(notes) THEN SharesAnId(notes)
    ELSE /\ \A i, j \in DOMAIN notes : paths[i] = paths[j] => i = j
         /\ \A k \in DOMAIN vault, i \in DOMAIN notes : vault[k].path = paths[i] =>
              LET n == notes[i] IN
              \A d \in DOMAIN n.body :
                 LET b == vault[k].holds[d]
                     a == AssetAt(n.assets, n.body[d].names) IN
                 CASE n.body[d].kind = "link" ->
                        /\ (b.kind = "note") <=> (NewestOf(notes, n.body[d].names) # {})
                        /\ b.kind = "note" =>
                             \E t \in NewestOf(notes, n.body[d].names) : LeadsTo(n.host, b.to) = paths[t]
                   [] n.body[d].kind = "image" ->
                        /\ b.kind = "file" => b.to \in written(k - 1)
                        /\ b.kind # "file" => ~Carried(n, n.body[d]) \/ ~a.readable
                   [] OTHER -> b = n.body[d]
         /\ vault = Writes(notes) => \A i \in DOMAIN notes : paths[i] \in written(Len(vault))
=============================================================================
