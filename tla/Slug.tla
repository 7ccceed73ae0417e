--------------------------------- MODULE Slug ---------------------------------
(***************************************************************************)
(* The name of an exported note (export.rs, slug_for): its title, else the *)
(* path of its address, else the beginning of its item id, reduced to      *)
(* letters, digits and hyphens.  Bytes are "a" for one that is kept, "?"   *)
(* for any other, and in a path "%a", "%?" and "%" for an escape of either *)
(* and for one that is cut short.                                          *)
(***************************************************************************)
EXTENDS Integers, Sequences, SequencesExt, FiniteSets

CONSTANT SlugMaxBytes   \* SLUG_MAX_BYTES

NoSlug == <<>>

WithoutTrailing_Kept(slug) == slug                                           \* mutant
WithoutTrailing(slug) ==
    LET letters == {i \in DOMAIN slug : slug[i] # "-"}
    IN IF letters = {} THEN <<>> ELSE SubSeq(slug, 1, CHOOSE i \in letters : \A j \in letters : j <= i)

\* slugify: a hyphen for a run of other bytes, and it ends at the first
\* letter there is no room for.
Read(s, c) ==
    CASE s.full -> s
      [] ~s.full /\ c = "a" ->
            IF Len(s.slug) = SlugMaxBytes THEN [s EXCEPT !.full = TRUE]
            ELSE [s EXCEPT !.slug = Append(@, "a"), !.hyphen = FALSE]
      [] ~s.full /\ c # "a" ->
            IF s.hyphen \/ Len(s.slug) >= SlugMaxBytes THEN s
            ELSE [s EXCEPT !.slug = Append(@, "-"), !.hyphen = TRUE]
Unread == [slug |-> <<>>, hyphen |-> TRUE, full |-> FALSE]
Slugify(value) == WithoutTrailing(FoldLeft(Read, Unread, value).slug)

\* percent_decode_utf8: a path with an escape that is none is not decoded.
Decoded(path) ==
    [i \in DOMAIN path |-> CASE path[i] = "%a" -> "a" [] path[i] = "%?" -> "?" [] OTHER -> path[i]]
SlugFromPath(path) == IF Contains(path, "%") THEN NoSlug ELSE Slugify(Decoded(path))

\* slug_for.
SlugFor(title, path, id) ==
    IF Slugify(title) # NoSlug THEN Slugify(title)
    ELSE IF SlugFromPath(path) # NoSlug THEN SlugFromPath(path) ELSE id

-----------------------------------------------------------------------------

Letters(text) == Cardinality({i \in DOMAIN text : text[i] = "a"})

\* A slug names a file on every system: it is there, it has room, it begins
\* and ends with a letter and its words are one hyphen apart; of a title it
\* is the beginning, and escaping a path does not change it.
SlugIsAName(title, path, id) ==
    LET slug == SlugFor(title, path, id) IN
    /\ slug # <<>>
    /\ slug # id =>
          /\ Len(slug) <= SlugMaxBytes /\ Head(slug) = "a" /\ Last(slug) = "a"
          /\ \A i \in 1 .. Len(slug) - 1 : slug[i] = "a" \/ slug[i + 1] = "a"
    /\ Letters(title) > 0 =>
          /\ Letters(slug) <= Letters(title)
          /\ Letters(slug) = Letters(title) \/ Len(slug) + 1 >= SlugMaxBytes
    /\ Contains(path, "%") \/ SlugFor(title, path, id) = SlugFor(title, Decoded(path), id)
    /\ slug = id => Letters(title) = 0
==============================================================================
