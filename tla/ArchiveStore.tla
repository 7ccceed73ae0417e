---------------------------- MODULE ArchiveStore ----------------------------
(***************************************************************************)
(* The recorded layer of an archive (storage/archive.rs): content          *)
(* addressed blobs, one item record per URL, one capture record per fetch  *)
(* and the sidecar of subresources recovered later.  Every file lands by   *)
(* a rename, so a file write is one step; a process may stop between any   *)
(* two of them, because it is killed or because a write fails and the      *)
(* error ends the run.  Several processes may hold the archive open: there *)
(* is no lock.  Derived records are modelled in DerivedLayer.              *)
(***************************************************************************)
EXTENDS Integers, FiniteSets

CONSTANTS
    Writers,         \* processes that may have the archive open
    Urls,            \* canonical URLs
    Replies,         \* what tells two responses with the same bytes apart:
                     \*   status, headers, final URL, the truncation mark
    Bodies,          \* byte strings, each standing for its SHA-256
    AssetUrls,       \* addresses of subresources
    Refs,            \* Refs[b]: the subresources a page with bytes b references
    Times,           \* instants a fetch may carry
    TicksPerSecond,  \* instants per second, the resolution of a capture id
    MaxOps,          \* bound: operations begun in a behaviour
    NoItem,          \* no item.json
    NoCapture        \* no capture in hand

ASSUME TimesAssumption == Times \subseteq Int /\ TicksPerSecond \in Int \ {0}
ASSUME RefsAssumption == Refs \in [Bodies -> SUBSET AssetUrls]

VARIABLES
    blobs,     \* the hashes with a file under blobs/sha256
    items,     \* items[u]: the window of item.json, or NoItem
    captures,  \* the capture records under items/<host>/<item>/captures
    sidecars,  \* <<capture id, asset>> for every asset of an assets-recovered.json
    pc,        \* pc[w]: the next step of the operation w is in
    hand,      \* hand[w]: the capture w is writing or supplementing
    toStore,   \* toStore[w]: the subresources whose bytes w still has to store
    found,     \* found[w]: what w recovered for the capture in hand
    seen,      \* seen[w]: the window w read from item.json
    folded,    \* folded[w]: the assets w read from the sidecar
    ops        \* operations begun, bounded by MaxOps

files == <<blobs, items, captures, sidecars>>
vars == <<blobs, items, captures, sidecars,
          pc, hand, toStore, found, seen, folded, ops>>

-----------------------------------------------------------------------------
(* Records and the names they are filed under *)

Asset == [url : AssetUrls, body : Bodies]
Window == [first : Times, last : Times]
Capture == [url : Urls, at : Times, reply : Replies, body : Bodies,
            assets : SUBSET Asset]

ASSUME SentinelAssumption == NoItem \notin Window /\ NoCapture \notin Capture
ASSUME BoundAssumption == MaxOps \in Nat

Second(t) == t \div TicksPerSecond

\* Everything that distinguishes one response from another.  The code keeps
\* eight hexadecimal digits of a hash of it: taken as free of collisions.
Fingerprint_BodyOnly(c) == c.body
Fingerprint(c) == [reply |-> c.reply, body |-> c.body, assets |-> c.assets]

\* The file a capture is written to: its item, the second and the fingerprint.
PathOf(c) == [url |-> c.url, second |-> Second(c.at), print |-> Fingerprint(c)]

\* What the sidecar beside a capture holds.
SidecarOf(c) == {a \in Asset : <<PathOf(c), a>> \in sidecars}

\* read_capture: the record as filed, with the sidecar folded in.
HeldAssets(c) == c.assets \union SidecarOf(c)
BodiesOf(c) == {c.body} \union {a.body : a \in HeldAssets(c)}

\* record_item: both ends of the window widen.
Widen_LastOnly(w, t) ==
    IF w = NoItem THEN [first |-> t, last |-> t]
    ELSE [first |-> w.first, last |-> IF t > w.last THEN t ELSE w.last]
Widen(w, t) ==
    IF w = NoItem THEN [first |-> t, last |-> t]
    ELSE [first |-> IF t < w.first THEN t ELSE w.first,
          last  |-> IF t > w.last THEN t ELSE w.last]

HasCaptures(u) == items[u] # NoItem

-----------------------------------------------------------------------------
Init ==
    /\ blobs = {}
    /\ items = [u \in Urls |-> NoItem]
    /\ captures = {}
    /\ sidecars = {}
    /\ pc = [w \in Writers |-> "idle"]
    /\ hand = [w \in Writers |-> NoCapture]
    /\ toStore = [w \in Writers |-> {}]
    /\ found = [w \in Writers |-> {}]
    /\ seen = [w \in Writers |-> NoItem]
    /\ folded = [w \in Writers |-> {}]
    /\ ops = 0

\* The writer forgets the operation it was in.
Forget(w) ==
    /\ pc' = [pc EXCEPT ![w] = "idle"]
    /\ hand' = [hand EXCEPT ![w] = NoCapture]
    /\ toStore' = [toStore EXCEPT ![w] = {}]
    /\ found' = [found EXCEPT ![w] = {}]
    /\ seen' = [seen EXCEPT ![w] = NoItem]
    /\ folded' = [folded EXCEPT ![w] = {}]

\* A page was fetched.  It has at most one answer per subresource it names.
BeginCapture(w, c) ==
    /\ pc[w] = "idle"
    /\ ops < MaxOps
    /\ \A a, b \in c.assets : a.url = b.url => a = b
    /\ \A a \in c.assets : a.url \in Refs[c.body]
    /\ ops' = ops + 1
    /\ pc' = [pc EXCEPT ![w] = "body"]
    /\ hand' = [hand EXCEPT ![w] = c]
    /\ toStore' = [toStore EXCEPT ![w] = c.assets]
    /\ UNCHANGED <<files, found, seen, folded>>

\* store_asset: bytes already in the store are left alone.
StoreAsset(w, a) ==
    /\ a \in toStore[w]
    /\ blobs' = blobs \union {a.body}
    /\ toStore' = [toStore EXCEPT ![w] = @ \ {a}]
    /\ UNCHANGED <<items, captures, sidecars, pc, hand, found, seen, folded, ops>>

\* write_capture, first step: the body of the page, after its subresources.
StoreBody_ItemSkipped(w) ==
    /\ pc[w] = "body" /\ toStore[w] = {}
    /\ blobs' = blobs \union {hand[w].body}
    /\ pc' = [pc EXCEPT ![w] = "record"]
    /\ UNCHANGED <<items, captures, sidecars, hand, toStore, found, seen, folded, ops>>
StoreBody_AssetsLater(w) ==
    /\ pc[w] = "body"
    /\ blobs' = blobs \union {hand[w].body}
    /\ pc' = [pc EXCEPT ![w] = "item"]
    /\ UNCHANGED <<items, captures, sidecars, hand, toStore, found, seen, folded, ops>>
StoreBody(w) ==
    /\ pc[w] = "body" /\ toStore[w] = {}
    /\ blobs' = blobs \union {hand[w].body}
    /\ pc' = [pc EXCEPT ![w] = "item"]
    /\ UNCHANGED <<items, captures, sidecars, hand, toStore, found, seen, folded, ops>>

\* record_item reads the window it is about to widen ...
ReadItem(w) ==
    /\ pc[w] = "item"
    /\ seen' = [seen EXCEPT ![w] = items[hand[w].url]]
    /\ pc' = [pc EXCEPT ![w] = "widen"]
    /\ UNCHANGED <<files, hand, toStore, found, folded, ops>>

\* ... and replaces the file with the wider one.
WriteItem(w) ==
    /\ pc[w] = "widen"
    /\ items' = [items EXCEPT ![hand[w].url] = Widen(seen[w], hand[w].at)]
    /\ pc' = [pc EXCEPT ![w] = "record"]
    /\ UNCHANGED <<blobs, captures, sidecars, hand, toStore, found, seen, folded, ops>>

\* write_capture, last step: the record, over any record of the same name.
WriteCaptureRecord_OverTheItem(w) ==
    /\ pc[w] = "record"
    /\ captures' = {c \in captures : c.url # hand[w].url} \union {hand[w]}
    /\ UNCHANGED <<blobs, items, sidecars, ops>>
    /\ Forget(w)
WriteCaptureRecord(w) ==
    /\ pc[w] = "record"
    /\ captures' = {c \in captures : PathOf(c) # PathOf(hand[w])} \union {hand[w]}
    /\ UNCHANGED <<blobs, items, sidecars, ops>>
    /\ Forget(w)

\* A repass asks again for what capture c is recorded as missing, and for the
\* fallback of a miss not worth asking for again, held already or not.  It gets
\* the assets in got; a sidecar is written for a new miss alone, too.
BeginRecovery(w, c, got) ==
    /\ pc[w] = "idle"
    /\ ops < MaxOps
    /\ \A a \in got : a.url \in Refs[c.body]
    /\ \A a, b \in got : a.url = b.url => a = b
    /\ ops' = ops + 1
    /\ pc' = [pc EXCEPT ![w] = "sidecar"]
    /\ hand' = [hand EXCEPT ![w] = c]
    /\ toStore' = [toStore EXCEPT ![w] = got]
    /\ found' = [found EXCEPT ![w] = got]
    /\ UNCHANGED <<files, seen, folded>>

\* add_recovered_assets reads the sidecar ...
ReadSidecar(w) ==
    /\ pc[w] = "sidecar" /\ toStore[w] = {}
    /\ folded' = [folded EXCEPT ![w] = SidecarOf(hand[w])]
    /\ pc' = [pc EXCEPT ![w] = "merge"]
    /\ UNCHANGED <<files, hand, toStore, found, seen, ops>>

\* ... merges what was recovered into it ...
Merged_Replaced(known, incoming) == incoming
Merged(known, incoming) == known \union incoming

\* ... and replaces it.
WriteSidecar(w) ==
    /\ pc[w] = "merge"
    /\ sidecars' = {s \in sidecars : s[1] # PathOf(hand[w])}
                   \union ({PathOf(hand[w])} \X Merged(folded[w], found[w]))
    /\ UNCHANGED <<blobs, items, captures, ops>>
    /\ Forget(w)

\* The process is killed, or a file write fails and its error ends the run.
\* Files already renamed into place stay; a temporary file has a dotted name
\* no reader looks at.
Stop(w) ==
    /\ pc[w] # "idle"
    /\ UNCHANGED <<files, ops>>
    /\ Forget(w)

Write(w) ==
    \/ \E a \in toStore[w] : StoreAsset(w, a)
    \/ StoreBody(w)
    \/ ReadItem(w)
    \/ WriteItem(w)
    \/ WriteCaptureRecord(w)
    \/ ReadSidecar(w)
    \/ WriteSidecar(w)

Next ==
    \E w \in Writers :
        \/ \E c \in Capture : BeginCapture(w, c)
        \/ \E c \in captures, got \in SUBSET Asset : BeginRecovery(w, c, got)
        \/ Write(w)
        \/ Stop(w)

Spec == Init /\ [][Next]_vars

-----------------------------------------------------------------------------
(* Correctness *)

FilesTypeOK ==
    /\ blobs \subseteq Bodies
    /\ items \in [Urls -> Window \union {NoItem}]
    /\ captures \subseteq Capture

\* A sidecar lies beside a capture record, never alone in the directory.
SidecarsBesideCaptures ==
    \A s \in sidecars : \E c \in captures, a \in Asset : s = <<PathOf(c), a>>

ProcessTypeOK ==
    /\ pc \in [Writers -> {"idle", "body", "item", "widen", "record", "sidecar", "merge"}]
    /\ hand \in [Writers -> Capture \union {NoCapture}]
    /\ toStore \in [Writers -> SUBSET Asset]
    /\ found \in [Writers -> SUBSET Asset]
    /\ seen \in [Writers -> Window \union {NoItem}]
    /\ folded \in [Writers -> SUBSET Asset]
    /\ ops \in 0..MaxOps

\* An operation in progress has a capture in hand; one that supplements a
\* capture works beside a record that is there.
OperationsInHand ==
    \A w \in Writers :
        /\ pc[w] # "idle" => hand[w] # NoCapture
        /\ pc[w] \in {"sidecar", "merge"} =>
              \E c \in captures : PathOf(c) = PathOf(hand[w])

\* Every variable holds what the code can put in it.
TypeOK == FilesTypeOK /\ SidecarsBesideCaptures /\ ProcessTypeOK /\ OperationsInHand

\* A record never points at absent bytes: the page and every subresource a
\* reader is told a capture holds are in the store, wherever a writer stopped
\* (the order write_capture and add_recovered_assets are written in).
RecordsPointAtStoredBytes == \A c \in captures : BodiesOf(c) \subseteq blobs

\* A capture can be read back to the address it came from: its item record is
\* there, whichever file write was the last one done (write_capture puts the
\* item record before the capture record).
EveryCaptureHasItsItem == \A c \in captures : items[c.url] # NoItem

\* The item's window covers every capture of it, also one backfilled out of
\* order (record_item).  It holds while one process writes at a time.
WindowCoversEveryCapture ==
    \A c \in captures :
        /\ items[c.url] # NoItem
        /\ items[c.url].first <= c.at /\ c.at <= items[c.url].last

\* A capture already filed is never filed over by a different one: whatever a
\* step writes, each earlier observation is still there under its own name.
\* Two responses of one second whose fingerprints collide are out of the model.
NoCaptureIsLost ==
    [][\A c \in captures : \E d \in captures' :
           /\ d.url = c.url /\ Second(d.at) = Second(c.at)
           /\ d.reply = c.reply /\ d.body = c.body /\ d.assets = c.assets]_vars

\* has_captures answers by a stat of item.json, and its comment says the item
\* record exists exactly when a capture does.  Between operations it should.
ItemExactlyWhenCaptured ==
    (\A w \in Writers : pc[w] = "idle") =>
        \A u \in Urls : HasCaptures(u) <=> \E c \in captures : c.url = u

(***************************************************************************)
(* The promise to readers.  A reader walks the items, lists the captures   *)
(* of each and reads the bodies: an observation is in the log when that    *)
(* works from one end to the other.                                        *)
(***************************************************************************)
Observation == [url : Urls, second : {Second(t) : t \in Times},
                reply : Replies, body : Bodies, assets : SUBSET Asset]
Observed(c) == [url |-> c.url, second |-> Second(c.at), reply |-> c.reply,
                body |-> c.body, assets |-> c.assets]
Readable(c) == items[c.url] # NoItem /\ BodiesOf(c) \subseteq blobs
VisibleLog == {Observed(c) : c \in {d \in captures : Readable(d)}}
VisibleSupplements ==
    UNION {{Observed(c)} \X SidecarOf(c) : c \in {d \in captures : Readable(d)}}

Log == INSTANCE CaptureLog WITH Observations <- Observation, Assets <- Asset,
                                log <- VisibleLog, supplements <- VisibleSupplements

\* One process at a time keeps the promise of CaptureLog through every stop:
\* captures appear whole, in one step, and neither they nor what was recovered
\* for them ever goes away.
ImplementsCaptureLog == Log!Spec
=============================================================================
