------------------------- MODULE ArchiveStoreProofs -------------------------
(***************************************************************************)
(* Theorems about ArchiveStore, for every set of writers, URLs, bodies and *)
(* instants.  The invariants that need no coordination are proved for any  *)
(* number of processes; the window and the refinement of CaptureLog under  *)
(* the documented condition that one process writes at a time.             *)
(***************************************************************************)
EXTENDS ArchiveStore, TLAPS

\* docs/storage-model.md, "Known limits": one process has the archive open.
SingleWriter == \A v, w \in Writers : v = w

-----------------------------------------------------------------------------
(* Lemmas about the records *)

\* Widening a window answers a window that keeps what the old one covered and
\* covers the new instant too.
LEMMA WidenCovers ==
    ASSUME NEW w \in Window \union {NoItem}, NEW t \in Times
    PROVE  /\ Widen(w, t) \in Window
           /\ Widen(w, t).first <= t /\ t <= Widen(w, t).last
           /\ w # NoItem => /\ Widen(w, t).first <= w.first
                            /\ w.last <= Widen(w, t).last
<1>1. Times \subseteq Int
  BY TimesAssumption
<1>2. CASE w = NoItem
  BY <1>1, <1>2 DEF Widen, Window
<1>3. CASE w # NoItem
  <2>1. w \in Window
    BY <1>3
  <2>2. /\ w.first \in Times /\ w.last \in Times
    BY <2>1 DEF Window
  <2>3. /\ w.first \in Int /\ w.last \in Int /\ t \in Int
    BY <1>1, <2>2
  <2>4. Widen(w, t) = [first |-> IF t < w.first THEN t ELSE w.first,
                       last  |-> IF t > w.last THEN t ELSE w.last]
    BY <1>3 DEF Widen
  <2>5. Widen(w, t) \in Window
    BY <2>2, <2>4 DEF Window
  <2>6. /\ Widen(w, t).first = IF t < w.first THEN t ELSE w.first
        /\ Widen(w, t).last = IF t > w.last THEN t ELSE w.last
    BY <2>4
  <2> QED
    BY <2>3, <2>5, <2>6
<1> QED
  BY <1>2, <1>3

\* Two captures filed under one name are the same observation: the name holds
\* everything a response is told apart by.
LEMMA SameNameSameObservation ==
    ASSUME NEW c, NEW d, PathOf(c) = PathOf(d)
    PROVE  /\ c.url = d.url /\ Second(c.at) = Second(d.at)
           /\ c.reply = d.reply /\ c.body = d.body /\ c.assets = d.assets
<1>1. /\ PathOf(c).url = PathOf(d).url
      /\ PathOf(c).second = PathOf(d).second
      /\ PathOf(c).print = PathOf(d).print
  OBVIOUS
<1>2. /\ c.url = d.url /\ Second(c.at) = Second(d.at)
      /\ Fingerprint(c) = Fingerprint(d)
  BY <1>1 DEF PathOf
<1>3. /\ Fingerprint(c).reply = Fingerprint(d).reply
      /\ Fingerprint(c).body = Fingerprint(d).body
      /\ Fingerprint(c).assets = Fingerprint(d).assets
  BY <1>2
<1> QED
  BY <1>2, <1>3 DEF Fingerprint

-----------------------------------------------------------------------------
(* Type correctness *)

\* A new archive holds no file and no operation.
LEMMA TypeInit == Init => TypeOK
  BY BoundAssumption, SMT
  DEF Init, TypeOK, FilesTypeOK, SidecarsBesideCaptures, ProcessTypeOK, OperationsInHand

\* Ending an operation, done or not, leaves a well-typed idle writer.
LEMMA ForgetTypes ==
    ASSUME ProcessTypeOK, NEW w \in Writers, Forget(w), ops' = ops
    PROVE  ProcessTypeOK'
  BY DEF ProcessTypeOK, Forget

\* Every file write, and a stop anywhere, leaves well-typed files and keeps a
\* record beside every sidecar.
LEMMA TypeStep == TypeOK /\ [Next]_vars => TypeOK'
<1> SUFFICES ASSUME TypeOK, [Next]_vars PROVE TypeOK'
  OBVIOUS
<1> USE DEF TypeOK
<1>1. ASSUME NEW w \in Writers, NEW c \in Capture, BeginCapture(w, c)
      PROVE  TypeOK'
  <2>1. UNCHANGED files /\ FilesTypeOK' /\ SidecarsBesideCaptures'
    BY <1>1 DEF BeginCapture, files, FilesTypeOK, SidecarsBesideCaptures
  <2>2. c.assets \in SUBSET Asset
    BY DEF Capture
  <2>3. ProcessTypeOK'
    BY <1>1, <2>2, BoundAssumption DEF BeginCapture, ProcessTypeOK
  <2>4. OperationsInHand'
    BY <1>1, <2>1, SentinelAssumption
    DEF BeginCapture, ProcessTypeOK, OperationsInHand, files
  <2> QED
    BY <2>1, <2>3, <2>4
<1>2. ASSUME NEW w \in Writers, NEW a \in toStore[w], StoreAsset(w, a)
      PROVE  TypeOK'
  <2>1. a \in Asset /\ a.body \in Bodies
    BY DEF ProcessTypeOK, Asset
  <2>2. FilesTypeOK' /\ SidecarsBesideCaptures' /\ OperationsInHand'
    BY <1>2, <2>1
    DEF StoreAsset, FilesTypeOK, SidecarsBesideCaptures, OperationsInHand
  <2>3. ProcessTypeOK'
    BY <1>2 DEF StoreAsset, ProcessTypeOK
  <2> QED
    BY <2>2, <2>3
<1>3. ASSUME NEW w \in Writers, StoreBody(w)
      PROVE  TypeOK'
  <2>1. hand[w] \in Capture /\ hand[w].body \in Bodies
    BY <1>3 DEF StoreBody, ProcessTypeOK, OperationsInHand, Capture
  <2>2. FilesTypeOK' /\ SidecarsBesideCaptures'
    BY <1>3, <2>1 DEF StoreBody, FilesTypeOK, SidecarsBesideCaptures
  <2>3. ProcessTypeOK' /\ OperationsInHand'
    BY <1>3 DEF StoreBody, ProcessTypeOK, OperationsInHand
  <2> QED
    BY <2>2, <2>3
<1>4. ASSUME NEW w \in Writers, ReadItem(w)
      PROVE  TypeOK'
  <2>1. hand[w].url \in Urls
    BY <1>4 DEF ReadItem, ProcessTypeOK, OperationsInHand, Capture
  <2>2. items[hand[w].url] \in Window \union {NoItem}
    BY <2>1 DEF FilesTypeOK
  <2>3. FilesTypeOK' /\ SidecarsBesideCaptures'
    BY <1>4 DEF ReadItem, files, FilesTypeOK, SidecarsBesideCaptures
  <2>4. ProcessTypeOK' /\ OperationsInHand'
    BY <1>4, <2>2 DEF ReadItem, files, ProcessTypeOK, OperationsInHand
  <2> QED
    BY <2>3, <2>4
<1>5. ASSUME NEW w \in Writers, WriteItem(w)
      PROVE  TypeOK'
  <2>1. hand[w].url \in Urls /\ hand[w].at \in Times
    BY <1>5 DEF WriteItem, ProcessTypeOK, OperationsInHand, Capture
  <2>2. seen[w] \in Window \union {NoItem}
    BY DEF ProcessTypeOK
  <2>3. Widen(seen[w], hand[w].at) \in Window
    BY <2>1, <2>2, WidenCovers
  <2>4. FilesTypeOK' /\ SidecarsBesideCaptures'
    BY <1>5, <2>3 DEF WriteItem, FilesTypeOK, SidecarsBesideCaptures
  <2>5. ProcessTypeOK' /\ OperationsInHand'
    BY <1>5 DEF WriteItem, ProcessTypeOK, OperationsInHand
  <2> QED
    BY <2>4, <2>5
<1>6. ASSUME NEW w \in Writers, WriteCaptureRecord(w)
      PROVE  TypeOK'
  <2>1. hand[w] \in Capture
    BY <1>6 DEF WriteCaptureRecord, ProcessTypeOK, OperationsInHand
  <2>2. FilesTypeOK'
    BY <1>6, <2>1 DEF WriteCaptureRecord, FilesTypeOK
  <2>3. ASSUME NEW c \in captures
        PROVE  \E d \in captures' : PathOf(d) = PathOf(c)
    BY <1>6 DEF WriteCaptureRecord
  <2>4. SidecarsBesideCaptures'
    <3> SUFFICES ASSUME NEW s \in sidecars
                 PROVE  \E d \in captures', a \in Asset : s = <<PathOf(d), a>>
      BY <1>6 DEF WriteCaptureRecord, SidecarsBesideCaptures, PathOf, Fingerprint, Second
    <3>1. PICK c \in captures, a \in Asset : s = <<PathOf(c), a>>
      BY DEF SidecarsBesideCaptures
    <3> QED
      BY <2>3, <3>1
  <2>5. ProcessTypeOK'
    BY <1>6, ForgetTypes DEF WriteCaptureRecord
  <2>6. OperationsInHand'
    <3> SUFFICES ASSUME NEW v \in Writers
                 PROVE  /\ pc'[v] # "idle" => hand'[v] # NoCapture
                        /\ pc'[v] \in {"sidecar", "merge"} =>
                              \E d \in captures' : PathOf(d) = PathOf(hand'[v])
      BY DEF OperationsInHand, PathOf, Fingerprint, Second
    <3>1. CASE v = w
      BY <1>6, <3>1 DEF WriteCaptureRecord, Forget, ProcessTypeOK
    <3>2. CASE v # w
      <4>1. pc'[v] = pc[v] /\ hand'[v] = hand[v]
        BY <1>6, <3>2 DEF WriteCaptureRecord, Forget, ProcessTypeOK
      <4> QED
        BY <2>3, <4>1 DEF OperationsInHand
    <3> QED
      BY <3>1, <3>2
  <2> QED
    BY <2>2, <2>4, <2>5, <2>6
<1>7. ASSUME NEW w \in Writers, NEW c \in captures, NEW got \in SUBSET Asset,
             BeginRecovery(w, c, got)
      PROVE  TypeOK'
  <2>1. c \in Capture
    BY DEF FilesTypeOK
  <2>2. FilesTypeOK' /\ SidecarsBesideCaptures'
    BY <1>7 DEF BeginRecovery, files, FilesTypeOK, SidecarsBesideCaptures
  <2>3. ProcessTypeOK'
    BY <1>7, <2>1, BoundAssumption DEF BeginRecovery, ProcessTypeOK
  <2>4. OperationsInHand'
    BY <1>7, <2>1, SentinelAssumption
    DEF BeginRecovery, files, ProcessTypeOK, OperationsInHand
  <2> QED
    BY <2>2, <2>3, <2>4
<1>8. ASSUME NEW w \in Writers, ReadSidecar(w)
      PROVE  TypeOK'
  <2>1. SidecarOf(hand[w]) \in SUBSET Asset
    BY DEF SidecarOf
  <2>2. FilesTypeOK' /\ SidecarsBesideCaptures'
    BY <1>8 DEF ReadSidecar, files, FilesTypeOK, SidecarsBesideCaptures
  <2>3. ProcessTypeOK' /\ OperationsInHand'
    BY <1>8, <2>1 DEF ReadSidecar, files, ProcessTypeOK, OperationsInHand
  <2> QED
    BY <2>2, <2>3
<1>9. ASSUME NEW w \in Writers, WriteSidecar(w)
      PROVE  TypeOK'
  <2>1. FilesTypeOK'
    BY <1>9 DEF WriteSidecar, FilesTypeOK
  <2>2. PICK c \in captures : PathOf(c) = PathOf(hand[w])
    BY <1>9 DEF WriteSidecar, OperationsInHand
  <2>3. Merged(folded[w], found[w]) \in SUBSET Asset
    BY DEF ProcessTypeOK, Merged
  <2>4. SidecarsBesideCaptures'
    BY <1>9, <2>2, <2>3 DEF WriteSidecar, SidecarsBesideCaptures
  <2>5. ProcessTypeOK'
    BY <1>9, ForgetTypes DEF WriteSidecar
  <2>6. OperationsInHand'
    BY <1>9 DEF WriteSidecar, Forget, ProcessTypeOK, OperationsInHand
  <2> QED
    BY <2>1, <2>4, <2>5, <2>6
<1>10. ASSUME NEW w \in Writers, Stop(w)
       PROVE  TypeOK'
  <2>1. FilesTypeOK' /\ SidecarsBesideCaptures'
    BY <1>10 DEF Stop, files, FilesTypeOK, SidecarsBesideCaptures
  <2>2. ProcessTypeOK'
    BY <1>10, ForgetTypes DEF Stop
  <2>3. OperationsInHand'
    BY <1>10 DEF Stop, files, Forget, ProcessTypeOK, OperationsInHand
  <2> QED
    BY <2>1, <2>2, <2>3
<1>11. CASE UNCHANGED vars
  BY <1>11 DEF vars, FilesTypeOK, SidecarsBesideCaptures, ProcessTypeOK, OperationsInHand
<1> QED
  BY <1>1, <1>2, <1>3, <1>4, <1>5, <1>6, <1>7, <1>8, <1>9, <1>10, <1>11
  DEF Next, Write

\* Every variable holds what the code can put in it, for any number of
\* processes, stopped anywhere; in particular a sidecar is never orphaned.
THEOREM TypeCorrect == Spec => []TypeOK
  BY TypeInit, TypeStep, PTL DEF Spec

-----------------------------------------------------------------------------
(* The store never points at absent bytes, and every capture has its item   *)
(* record.  Both hold for any number of uncoordinated processes: each one   *)
(* stores before it points, and nothing ever takes bytes or an item away.   *)

Stored(S) == \A a \in S : a.body \in blobs

\* What writer w has put in the store by the step it is at: everything its
\* next record will point at.
Staged(w) ==
    /\ pc[w] = "body" => Stored(hand[w].assets \ toStore[w])
    /\ pc[w] \in {"item", "widen", "record"} =>
          hand[w].body \in blobs /\ Stored(hand[w].assets)
    /\ pc[w] = "record" => items[hand[w].url] # NoItem
    /\ pc[w] = "sidecar" => Stored(found[w] \ toStore[w])
    /\ pc[w] = "merge" => Stored(found[w]) /\ Stored(folded[w])

\* What the records already filed point at.
Backed ==
    /\ \A c \in captures :
          c.body \in blobs /\ Stored(c.assets) /\ items[c.url] # NoItem
    /\ \A s \in sidecars : s[2].body \in blobs

StoreInv == TypeOK /\ Backed /\ \A w \in Writers : Staged(w)

\* A new archive has nothing to back.
LEMMA StoreInvInit == Init => StoreInv
  BY TypeInit DEF Init, StoreInv, Backed, Staged

\* A step that takes no bytes and no item away leaves every other writer as
\* far as it was.
LEMMA OthersStayStaged ==
    ASSUME NEW v \in Writers, TypeOK, Staged(v),
           blobs \subseteq blobs',
           \A u \in Urls : items[u] # NoItem => items'[u] # NoItem,
           pc'[v] = pc[v], hand'[v] = hand[v], toStore'[v] = toStore[v],
           found'[v] = found[v], folded'[v] = folded[v]
    PROVE  Staged(v)'
<1>1. pc[v] = "record" => hand[v].url \in Urls
  BY DEF TypeOK, ProcessTypeOK, OperationsInHand, Capture
<1> QED
  BY <1>1 DEF Staged, Stored

\* Records already filed stay backed by a step that only adds to the store
\* and leaves the records alone.
LEMMA FiledStaysBacked ==
    ASSUME TypeOK, Backed, blobs \subseteq blobs',
           \A u \in Urls : items[u] # NoItem => items'[u] # NoItem,
           captures' = captures, sidecars' = sidecars
    PROVE  Backed'
<1>1. \A c \in captures : c.url \in Urls
  BY DEF TypeOK, FilesTypeOK, Capture
<1> QED
  BY <1>1 DEF Backed, Stored

\* Every file write of any process keeps filed records backed, and leaves its
\* own operation as far as the order of write_capture says it is.
LEMMA StoreInvStep == StoreInv /\ [Next]_vars => StoreInv'
<1> SUFFICES ASSUME StoreInv, [Next]_vars PROVE Backed' /\ \A v \in Writers : Staged(v)'
  BY TypeStep DEF StoreInv
<1>0. TypeOK /\ Backed /\ (\A v \in Writers : Staged(v)) /\ ProcessTypeOK
  BY DEF StoreInv, TypeOK
<1>1. ASSUME NEW w \in Writers, NEW c \in Capture, BeginCapture(w, c)
      PROVE  Backed' /\ \A v \in Writers : Staged(v)'
  <2>1. blobs' = blobs /\ items' = items /\ captures' = captures /\ sidecars' = sidecars
    BY <1>1 DEF BeginCapture, files
  <2>2. Staged(w)'
    BY <1>0, <1>1 DEF BeginCapture, ProcessTypeOK, Staged, Stored
  <2>3. ASSUME NEW v \in Writers, v # w PROVE Staged(v)'
    BY <1>0, <1>1, <2>1, <2>3, OthersStayStaged DEF BeginCapture, ProcessTypeOK
  <2> QED
    BY <1>0, <2>1, <2>2, <2>3, FiledStaysBacked
<1>2. ASSUME NEW w \in Writers, NEW a \in toStore[w], StoreAsset(w, a)
      PROVE  Backed' /\ \A v \in Writers : Staged(v)'
  <2>1. /\ blobs \subseteq blobs' /\ a.body \in blobs'
        /\ items' = items /\ captures' = captures /\ sidecars' = sidecars
    BY <1>2 DEF StoreAsset
  <2>2. /\ pc'[w] = pc[w] /\ hand'[w] = hand[w] /\ found'[w] = found[w]
        /\ folded'[w] = folded[w] /\ toStore'[w] = toStore[w] \ {a}
    BY <1>0, <1>2 DEF StoreAsset, ProcessTypeOK
  <2>3. Staged(w)'
    BY <1>0, <2>1, <2>2 DEF Staged, Stored
  <2>4. ASSUME NEW v \in Writers, v # w PROVE Staged(v)'
    BY <1>0, <1>2, <2>1, <2>4, OthersStayStaged DEF StoreAsset, ProcessTypeOK
  <2> QED
    BY <1>0, <2>1, <2>3, <2>4, FiledStaysBacked
<1>3. ASSUME NEW w \in Writers, StoreBody(w)
      PROVE  Backed' /\ \A v \in Writers : Staged(v)'
  <2>1. /\ blobs \subseteq blobs' /\ hand[w].body \in blobs'
        /\ items' = items /\ captures' = captures /\ sidecars' = sidecars
    BY <1>3 DEF StoreBody
  <2>2. /\ pc[w] = "body" /\ toStore[w] = {} /\ pc'[w] = "item" /\ hand'[w] = hand[w]
    BY <1>0, <1>3 DEF StoreBody, ProcessTypeOK
  <2>3. Staged(w)'
    BY <1>0, <2>1, <2>2 DEF Staged, Stored
  <2>4. ASSUME NEW v \in Writers, v # w PROVE Staged(v)'
    BY <1>0, <1>3, <2>1, <2>4, OthersStayStaged DEF StoreBody, ProcessTypeOK
  <2> QED
    BY <1>0, <2>1, <2>3, <2>4, FiledStaysBacked
<1>4. ASSUME NEW w \in Writers, ReadItem(w)
      PROVE  Backed' /\ \A v \in Writers : Staged(v)'
  <2>1. /\ blobs' = blobs /\ items' = items /\ captures' = captures
        /\ sidecars' = sidecars /\ hand' = hand /\ toStore' = toStore
        /\ found' = found /\ folded' = folded
    BY <1>4 DEF ReadItem, files
  <2>2. pc[w] = "item" /\ pc'[w] = "widen"
    BY <1>0, <1>4 DEF ReadItem, ProcessTypeOK
  <2>3. Staged(w)'
    BY <1>0, <2>1, <2>2 DEF Staged, Stored
  <2>4. ASSUME NEW v \in Writers, v # w PROVE Staged(v)'
    BY <1>0, <1>4, <2>1, <2>4, OthersStayStaged DEF ReadItem, ProcessTypeOK
  <2> QED
    BY <1>0, <2>1, <2>3, <2>4, FiledStaysBacked
<1>5. ASSUME NEW w \in Writers, WriteItem(w)
      PROVE  Backed' /\ \A v \in Writers : Staged(v)'
  <2>1. hand[w].url \in Urls /\ hand[w].at \in Times /\ seen[w] \in Window \union {NoItem}
    BY <1>0, <1>5 DEF WriteItem, TypeOK, ProcessTypeOK, OperationsInHand, Capture
  <2>2. Widen(seen[w], hand[w].at) # NoItem
    BY <2>1, WidenCovers, SentinelAssumption
  <2>3. /\ blobs' = blobs /\ captures' = captures /\ sidecars' = sidecars
        /\ hand' = hand /\ toStore' = toStore /\ found' = found /\ folded' = folded
        /\ items'[hand[w].url] # NoItem
        /\ \A u \in Urls : items[u] # NoItem => items'[u] # NoItem
    BY <1>0, <1>5, <2>1, <2>2 DEF WriteItem, TypeOK, FilesTypeOK
  <2>4. pc[w] = "widen" /\ pc'[w] = "record"
    BY <1>0, <1>5 DEF WriteItem, ProcessTypeOK
  <2>5. Staged(w)'
    BY <1>0, <2>3, <2>4 DEF Staged, Stored
  <2>6. ASSUME NEW v \in Writers, v # w PROVE Staged(v)'
    BY <1>0, <1>5, <2>3, <2>6, OthersStayStaged DEF WriteItem, ProcessTypeOK
  <2> QED
    BY <1>0, <2>3, <2>5, <2>6, FiledStaysBacked
<1>6. ASSUME NEW w \in Writers, WriteCaptureRecord(w)
      PROVE  Backed' /\ \A v \in Writers : Staged(v)'
  <2>1. /\ blobs' = blobs /\ items' = items /\ sidecars' = sidecars
        /\ captures' \subseteq captures \union {hand[w]} /\ pc[w] = "record"
    BY <1>6 DEF WriteCaptureRecord
  <2>2. /\ hand[w].body \in blobs /\ Stored(hand[w].assets)
        /\ items[hand[w].url] # NoItem
    BY <1>0, <2>1 DEF Staged
  <2>3. Backed'
    BY <1>0, <2>1, <2>2 DEF Backed, Stored
  <2>4. Staged(w)'
    BY <1>0, <1>6 DEF WriteCaptureRecord, Forget, ProcessTypeOK, Staged
  <2>5. ASSUME NEW v \in Writers, v # w PROVE Staged(v)'
    BY <1>0, <1>6, <2>1, <2>5, OthersStayStaged
    DEF WriteCaptureRecord, Forget, ProcessTypeOK
  <2> QED
    BY <2>3, <2>4, <2>5
<1>7. ASSUME NEW w \in Writers, NEW c \in captures, NEW got \in SUBSET Asset,
             BeginRecovery(w, c, got)
      PROVE  Backed' /\ \A v \in Writers : Staged(v)'
  <2>1. blobs' = blobs /\ items' = items /\ captures' = captures /\ sidecars' = sidecars
    BY <1>7 DEF BeginRecovery, files
  <2>2. Staged(w)'
    BY <1>0, <1>7 DEF BeginRecovery, ProcessTypeOK, Staged, Stored
  <2>3. ASSUME NEW v \in Writers, v # w PROVE Staged(v)'
    BY <1>0, <1>7, <2>1, <2>3, OthersStayStaged DEF BeginRecovery, ProcessTypeOK
  <2> QED
    BY <1>0, <2>1, <2>2, <2>3, FiledStaysBacked
<1>8. ASSUME NEW w \in Writers, ReadSidecar(w)
      PROVE  Backed' /\ \A v \in Writers : Staged(v)'
  <2>1. /\ blobs' = blobs /\ items' = items /\ captures' = captures /\ sidecars' = sidecars
        /\ hand' = hand /\ toStore' = toStore /\ found' = found
    BY <1>8 DEF ReadSidecar, files
  <2>2. /\ pc[w] = "sidecar" /\ toStore[w] = {} /\ pc'[w] = "merge"
        /\ folded'[w] = SidecarOf(hand[w])
    BY <1>0, <1>8 DEF ReadSidecar, ProcessTypeOK
  <2>3. Stored(SidecarOf(hand[w]))
    BY <1>0 DEF Backed, Stored, SidecarOf
  <2>4. Staged(w)'
    BY <1>0, <2>1, <2>2, <2>3 DEF Staged, Stored
  <2>5. ASSUME NEW v \in Writers, v # w PROVE Staged(v)'
    BY <1>0, <1>8, <2>1, <2>5, OthersStayStaged DEF ReadSidecar, ProcessTypeOK
  <2> QED
    BY <1>0, <2>1, <2>4, <2>5, FiledStaysBacked
<1>9. ASSUME NEW w \in Writers, WriteSidecar(w)
      PROVE  Backed' /\ \A v \in Writers : Staged(v)'
  <2>1. /\ blobs' = blobs /\ items' = items /\ captures' = captures /\ pc[w] = "merge"
    BY <1>9 DEF WriteSidecar
  <2>2. Stored(Merged(folded[w], found[w]))
    BY <1>0, <2>1 DEF Staged, Stored, Merged
  <2>3. \A s \in sidecars' : s[2].body \in blobs
    BY <1>0, <1>9, <2>2 DEF WriteSidecar, Backed, Stored
  <2>4. Backed'
    BY <1>0, <2>1, <2>3 DEF Backed, Stored
  <2>5. Staged(w)'
    BY <1>0, <1>9 DEF WriteSidecar, Forget, ProcessTypeOK, Staged
  <2>6. ASSUME NEW v \in Writers, v # w PROVE Staged(v)'
    BY <1>0, <1>9, <2>1, <2>6, OthersStayStaged DEF WriteSidecar, Forget, ProcessTypeOK
  <2> QED
    BY <2>4, <2>5, <2>6
<1>10. ASSUME NEW w \in Writers, Stop(w)
       PROVE  Backed' /\ \A v \in Writers : Staged(v)'
  <2>1. blobs' = blobs /\ items' = items /\ captures' = captures /\ sidecars' = sidecars
    BY <1>10 DEF Stop, files
  <2>2. Staged(w)'
    BY <1>0, <1>10 DEF Stop, Forget, ProcessTypeOK, Staged
  <2>3. ASSUME NEW v \in Writers, v # w PROVE Staged(v)'
    BY <1>0, <1>10, <2>1, <2>3, OthersStayStaged DEF Stop, Forget, ProcessTypeOK
  <2> QED
    BY <1>0, <2>1, <2>2, <2>3, FiledStaysBacked
<1>11. CASE UNCHANGED vars
  BY <1>0, <1>11, OthersStayStaged, FiledStaysBacked DEF vars
<1> QED
  BY <1>1, <1>2, <1>3, <1>4, <1>5, <1>6, <1>7, <1>8, <1>9, <1>10, <1>11
  DEF Next, Write

\* No record of the archive ever points at bytes that are not in it, wherever
\* any of any number of processes is stopped.
THEOREM NoDanglingRecord == Spec => []RecordsPointAtStoredBytes
<1>1. StoreInv => RecordsPointAtStoredBytes
  BY DEF StoreInv, Backed, Stored, RecordsPointAtStoredBytes, BodiesOf, HeldAssets, SidecarOf
<1> QED
  BY <1>1, StoreInvInit, StoreInvStep, PTL DEF Spec

\* No capture is ever stranded without the record that says which address it
\* came from.
THEOREM NoStrandedCapture == Spec => []EveryCaptureHasItsItem
<1>1. StoreInv => EveryCaptureHasItsItem
  BY DEF StoreInv, Backed, EveryCaptureHasItsItem
<1> QED
  BY <1>1, StoreInvInit, StoreInvStep, PTL DEF Spec

\* Whatever any process writes, a capture already filed stays filed: the only
\* step that replaces a record puts the same observation in its place.
THEOREM CapturesAreKept == Spec => NoCaptureIsLost
<1> DEFINE Kept(c) == \E d \in captures' :
                 /\ d.url = c.url /\ Second(d.at) = Second(c.at)
                 /\ d.reply = c.reply /\ d.body = c.body /\ d.assets = c.assets
<1>1. [Next]_vars => [\A c \in captures : Kept(c)]_vars
  <2> SUFFICES ASSUME [Next]_vars, NEW c \in captures PROVE Kept(c)
    OBVIOUS
  <2>1. CASE captures' = captures
    BY <2>1
  <2>2. ASSUME NEW w \in Writers, WriteCaptureRecord(w) PROVE Kept(c)
    <3>1. CASE PathOf(c) # PathOf(hand[w])
      BY <2>2, <3>1 DEF WriteCaptureRecord
    <3>2. CASE PathOf(c) = PathOf(hand[w])
      BY <2>2, <3>2, SameNameSameObservation DEF WriteCaptureRecord
    <3> QED
      BY <3>1, <3>2
  <2> QED
    BY <2>1, <2>2
    DEF Next, Write, vars, files, BeginCapture, StoreAsset, StoreBody, ReadItem,
        WriteItem, BeginRecovery, ReadSidecar, WriteSidecar, Stop
<1> QED
  BY <1>1, PTL DEF Spec, NoCaptureIsLost

-----------------------------------------------------------------------------
(* One process at a time                                                    *)

\* Between the read and the write of a read-merge-write nobody else wrote.
Undisturbed(w) ==
    /\ pc[w] = "widen" => seen[w] = items[hand[w].url]
    /\ pc[w] = "record" => /\ items[hand[w].url] # NoItem
                           /\ items[hand[w].url].first <= hand[w].at
                           /\ hand[w].at <= items[hand[w].url].last
    /\ pc[w] = "merge" => folded[w] = SidecarOf(hand[w])

AloneInv == TypeOK /\ WindowCoversEveryCapture /\ \A w \in Writers : Undisturbed(w)

\* An archive without captures has nothing to cover.
LEMMA AloneInvInit == Init => AloneInv
  BY TypeInit DEF Init, AloneInv, WindowCoversEveryCapture, Undisturbed

\* A lone writer's window covers the capture it is about to file, and every
\* one it covered before.
LEMMA AloneInvStep ==
    ASSUME SingleWriter, AloneInv, [Next]_vars
    PROVE  AloneInv'
<1> SUFFICES WindowCoversEveryCapture' /\ \A v \in Writers : Undisturbed(v)'
  BY TypeStep DEF AloneInv
<1>0. /\ TypeOK /\ WindowCoversEveryCapture /\ FilesTypeOK /\ ProcessTypeOK
      /\ \A v \in Writers : Undisturbed(v)
  BY DEF AloneInv, TypeOK
<1> SUFFICES ASSUME NEW w \in Writers
             PROVE  WindowCoversEveryCapture' /\ Undisturbed(w)'
  <2>1. CASE Writers = {}
    <3>1. UNCHANGED vars
      BY <2>1 DEF Next
    <3> QED
      BY <1>0, <2>1, <3>1 DEF vars, WindowCoversEveryCapture
  <2> QED
    BY <2>1
<1>1. \A v \in Writers : v = w
  BY DEF SingleWriter
<1>2. ASSUME NEW c \in Capture, BeginCapture(w, c)
      PROVE  WindowCoversEveryCapture' /\ Undisturbed(w)'
  <2>1. items' = items /\ captures' = captures /\ pc'[w] = "body"
    BY <1>0, <1>2 DEF BeginCapture, files, ProcessTypeOK
  <2> QED
    BY <1>0, <2>1 DEF WindowCoversEveryCapture, Undisturbed
<1>3. ASSUME NEW a \in toStore[w], StoreAsset(w, a)
      PROVE  WindowCoversEveryCapture' /\ Undisturbed(w)'
  BY <1>0, <1>3 DEF StoreAsset, WindowCoversEveryCapture, Undisturbed, SidecarOf
<1>4. ASSUME StoreBody(w)
      PROVE  WindowCoversEveryCapture' /\ Undisturbed(w)'
  <2>1. items' = items /\ captures' = captures /\ pc'[w] = "item"
    BY <1>0, <1>4 DEF StoreBody, ProcessTypeOK
  <2> QED
    BY <1>0, <2>1 DEF WindowCoversEveryCapture, Undisturbed
<1>5. ASSUME ReadItem(w)
      PROVE  WindowCoversEveryCapture' /\ Undisturbed(w)'
  <2>1. /\ items' = items /\ captures' = captures /\ hand' = hand
        /\ pc'[w] = "widen" /\ seen'[w] = items[hand[w].url]
    BY <1>0, <1>5 DEF ReadItem, files, ProcessTypeOK
  <2> QED
    BY <1>0, <2>1 DEF WindowCoversEveryCapture, Undisturbed
<1>6. ASSUME WriteItem(w)
      PROVE  WindowCoversEveryCapture' /\ Undisturbed(w)'
  <2>1. hand[w].url \in Urls /\ hand[w].at \in Times
    BY <1>0, <1>6 DEF WriteItem, TypeOK, ProcessTypeOK, OperationsInHand, Capture
  <2> DEFINE u == hand[w].url
             t == hand[w].at
             before == items[u]
             after == Widen(before, t)
  <2>2. seen[w] = before /\ before \in Window \union {NoItem}
    BY <1>0, <1>6, <2>1 DEF WriteItem, Undisturbed, FilesTypeOK
  <2>3. /\ after \in Window /\ after.first <= t /\ t <= after.last
        /\ before # NoItem => after.first <= before.first /\ before.last <= after.last
    BY <2>1, <2>2, WidenCovers
  <2>4. /\ items' = [items EXCEPT ![u] = after]
        /\ captures' = captures /\ hand' = hand /\ pc'[w] = "record"
    BY <1>0, <1>6, <2>2 DEF WriteItem, ProcessTypeOK
  <2>5. items'[u] = after /\ \A x \in Urls : x # u => items'[x] = items[x]
    BY <1>0, <2>1, <2>4 DEF FilesTypeOK
  <2>6. after # NoItem
    BY <2>3, SentinelAssumption
  <2>7. Undisturbed(w)'
    BY <2>3, <2>4, <2>5, <2>6 DEF Undisturbed
  <2>8. ASSUME NEW c \in captures
        PROVE  /\ items'[c.url] # NoItem
               /\ items'[c.url].first <= c.at /\ c.at <= items'[c.url].last
    <3>1. /\ c.url \in Urls /\ c.at \in Times /\ items[c.url] # NoItem
          /\ items[c.url].first <= c.at /\ c.at <= items[c.url].last
      BY <1>0 DEF FilesTypeOK, Capture, WindowCoversEveryCapture
    <3>2. CASE c.url # u
      BY <2>5, <3>1, <3>2
    <3>3. CASE c.url = u
      <4>1. before \in Window /\ before.first <= c.at /\ c.at <= before.last
        BY <2>2, <3>1, <3>3
      <4>2. /\ before.first \in Int /\ before.last \in Int /\ c.at \in Int
            /\ after.first \in Int /\ after.last \in Int
        BY <2>3, <3>1, <4>1, TimesAssumption DEF Window
      <4>3. after.first <= c.at /\ c.at <= after.last
        <5> HIDE DEF after, before
        <5> QED
          BY <2>2, <2>3, <3>1, <3>3, <4>1, <4>2 DEF before
      <4> QED
        BY <2>5, <2>6, <3>3, <4>3
    <3> QED
      BY <3>2, <3>3
  <2> QED
    BY <2>4, <2>7, <2>8 DEF WindowCoversEveryCapture
<1>7. ASSUME WriteCaptureRecord(w)
      PROVE  WindowCoversEveryCapture' /\ Undisturbed(w)'
  <2>1. items' = items /\ captures' \subseteq captures \union {hand[w]} /\ pc'[w] = "idle"
    BY <1>0, <1>7 DEF WriteCaptureRecord, Forget, ProcessTypeOK
  <2>2. /\ items[hand[w].url] # NoItem /\ items[hand[w].url].first <= hand[w].at
        /\ hand[w].at <= items[hand[w].url].last
    BY <1>0, <1>7 DEF WriteCaptureRecord, Undisturbed
  <2> QED
    BY <1>0, <2>1, <2>2 DEF WindowCoversEveryCapture, Undisturbed
<1>8. ASSUME NEW c \in captures, NEW got \in SUBSET Asset, BeginRecovery(w, c, got)
      PROVE  WindowCoversEveryCapture' /\ Undisturbed(w)'
  <2>1. items' = items /\ captures' = captures /\ pc'[w] = "sidecar"
    BY <1>0, <1>8 DEF BeginRecovery, files, ProcessTypeOK
  <2> QED
    BY <1>0, <2>1 DEF WindowCoversEveryCapture, Undisturbed
<1>9. ASSUME ReadSidecar(w)
      PROVE  WindowCoversEveryCapture' /\ Undisturbed(w)'
  <2>1. /\ items' = items /\ captures' = captures /\ sidecars' = sidecars /\ hand' = hand
        /\ pc'[w] = "merge" /\ folded'[w] = SidecarOf(hand[w])
    BY <1>0, <1>9 DEF ReadSidecar, files, ProcessTypeOK
  <2> QED
    BY <1>0, <2>1
    DEF WindowCoversEveryCapture, Undisturbed, SidecarOf, PathOf, Fingerprint, Second
<1>10. ASSUME WriteSidecar(w)
       PROVE  WindowCoversEveryCapture' /\ Undisturbed(w)'
  <2>1. items' = items /\ captures' = captures /\ pc'[w] = "idle"
    BY <1>0, <1>10 DEF WriteSidecar, Forget, ProcessTypeOK
  <2> QED
    BY <1>0, <2>1 DEF WindowCoversEveryCapture, Undisturbed
<1>11. ASSUME Stop(w)
       PROVE  WindowCoversEveryCapture' /\ Undisturbed(w)'
  <2>1. items' = items /\ captures' = captures /\ pc'[w] = "idle"
    BY <1>0, <1>11 DEF Stop, files, Forget, ProcessTypeOK
  <2> QED
    BY <1>0, <2>1 DEF WindowCoversEveryCapture, Undisturbed
<1>12. CASE UNCHANGED vars
  BY <1>0, <1>12
  DEF vars, WindowCoversEveryCapture, Undisturbed, SidecarOf, PathOf, Fingerprint, Second
<1> QED
  BY <1>1, <1>2, <1>3, <1>4, <1>5, <1>6, <1>7, <1>8, <1>9, <1>10, <1>11, <1>12
  DEF Next, Write

\* With one process at a time, the window of an item covers every capture of
\* it, whatever order their instants come in.
THEOREM WindowsCover ==
    ASSUME SingleWriter
    PROVE  Spec => []WindowCoversEveryCapture
<1>1. AloneInv /\ [Next]_vars => AloneInv'
  BY AloneInvStep
<1>2. AloneInv => WindowCoversEveryCapture
  BY DEF AloneInv
<1> QED
  BY <1>1, <1>2, AloneInvInit, PTL DEF Spec

-----------------------------------------------------------------------------
(* The promise to readers: ArchiveStore implements CaptureLog               *)

\* The log and its supplements, were every capture readable.
FiledLog == {Observed(c) : c \in captures}
FiledSupplements == UNION {{Observed(c)} \X SidecarOf(c) : c \in captures}

\* Every capture of the archive can be read from end to end.
LEMMA EverythingIsReadable ==
    ASSUME StoreInv
    PROVE  VisibleLog = FiledLog /\ VisibleSupplements = FiledSupplements
<1>1. \A c \in captures : Readable(c)
  BY DEF StoreInv, Backed, Stored, Readable, BodiesOf, HeldAssets, SidecarOf
<1>2. {d \in captures : Readable(d)} = captures
  BY <1>1
<1> QED
  BY <1>2 DEF VisibleLog, VisibleSupplements, FiledLog, FiledSupplements

\* What a reader observes of a capture and the name it is filed under tell
\* the same captures apart.
LEMMA ObservedIsTheName ==
    ASSUME NEW c, NEW d
    PROVE  Observed(c) = Observed(d) <=> PathOf(c) = PathOf(d)
<1>1. ASSUME PathOf(c) = PathOf(d) PROVE Observed(c) = Observed(d)
  BY <1>1, SameNameSameObservation DEF Observed
<1>2. ASSUME Observed(c) = Observed(d) PROVE PathOf(c) = PathOf(d)
  <2>1. /\ Observed(c).url = Observed(d).url
        /\ Observed(c).second = Observed(d).second
        /\ Observed(c).reply = Observed(d).reply
        /\ Observed(c).body = Observed(d).body
        /\ Observed(c).assets = Observed(d).assets
    BY <1>2
  <2>2. /\ c.url = d.url /\ Second(c.at) = Second(d.at) /\ c.reply = d.reply
        /\ c.body = d.body /\ c.assets = d.assets
    BY <2>1 DEF Observed
  <2> QED
    BY <2>2 DEF PathOf, Fingerprint
<1> QED
  BY <1>1, <1>2

Supplemented(p) == \E c \in captures, a \in Asset :
                       <<PathOf(c), a>> \in sidecars /\ p = <<Observed(c), a>>

\* What the sidecars fold in, one observation and asset at a time.
LEMMA SupplementsPointwise == \A p : p \in FiledSupplements <=> Supplemented(p)
<1> SUFFICES ASSUME NEW p PROVE p \in FiledSupplements <=> Supplemented(p)
  OBVIOUS
<1>1. ASSUME p \in FiledSupplements PROVE Supplemented(p)
  <2>1. PICK c \in captures : p \in {Observed(c)} \X SidecarOf(c)
    BY <1>1 DEF FiledSupplements
  <2>2. PICK a \in SidecarOf(c) : p = <<Observed(c), a>>
    BY <2>1
  <2> QED
    BY <2>2 DEF SidecarOf, Supplemented
<1>2. ASSUME Supplemented(p) PROVE p \in FiledSupplements
  <2>1. PICK c \in captures, a \in Asset :
              <<PathOf(c), a>> \in sidecars /\ p = <<Observed(c), a>>
    BY <1>2 DEF Supplemented
  <2>2. p \in {Observed(c)} \X SidecarOf(c)
    BY <2>1 DEF SidecarOf
  <2> QED
    BY <2>2 DEF FiledSupplements
<1> QED
  BY <1>1, <1>2

\* The same after a step.
LEMMA SupplementsPointwiseNext ==
    \A p : (p \in FiledSupplements') <=>
              (\E c \in captures', a \in Asset :
                  <<PathOf(c), a>> \in sidecars' /\ p = <<Observed(c), a>>)
<1>1. (\A p : p \in FiledSupplements <=> Supplemented(p))'
  BY SupplementsPointwise, PTL
<1>2. \A p : (p \in FiledSupplements') <=> Supplemented(p)'
  BY <1>1
<1>3. ASSUME NEW c PROVE Observed(c)' = Observed(c) /\ PathOf(c)' = PathOf(c)
  BY DEF Observed, PathOf, Fingerprint, Second
<1> QED
  BY <1>2, <1>3 DEF Supplemented

\* Filing a capture appends it to the log and supplements nothing, whether or
\* not a record of the same name was there.
LEMMA FilingAppends ==
    ASSUME TypeOK, NEW w \in Writers, WriteCaptureRecord(w)
    PROVE  /\ FiledLog' = FiledLog \union {Observed(hand[w])}
           /\ FiledSupplements' = FiledSupplements
<1>1. /\ captures' = {c \in captures : PathOf(c) # PathOf(hand[w])} \union {hand[w]}
      /\ sidecars' = sidecars
  BY DEF WriteCaptureRecord
<1>2. \A c : SidecarOf(c)' = {a \in Asset : <<PathOf(c), a>> \in sidecars}
  BY <1>1 DEF SidecarOf, PathOf, Fingerprint, Second
<1>3. FiledLog' = {Observed(c) : c \in captures'}
  BY DEF FiledLog, Observed, Second
<1>4. FiledLog' = FiledLog \union {Observed(hand[w])}
  BY <1>1, <1>3, ObservedIsTheName DEF FiledLog
<1>5. ASSUME NEW p
      PROVE  (p \in FiledSupplements') <=>
                (\E c \in captures', a \in Asset :
                    <<PathOf(c), a>> \in sidecars /\ p = <<Observed(c), a>>)
  BY <1>1, SupplementsPointwiseNext
<1>6. ASSUME NEW p
      PROVE  p \in FiledSupplements <=>
                \E c \in captures, a \in Asset :
                    <<PathOf(c), a>> \in sidecars /\ p = <<Observed(c), a>>
  BY SupplementsPointwise DEF Supplemented
<1>7. ASSUME NEW p \in FiledSupplements PROVE p \in FiledSupplements'
  <2>1. PICK c \in captures, a \in Asset :
              <<PathOf(c), a>> \in sidecars /\ p = <<Observed(c), a>>
    BY <1>6
  <2>2. CASE PathOf(c) # PathOf(hand[w])
    <3>1. c \in captures'
      BY <1>1, <2>2
    <3> QED
      BY <1>5, <2>1, <3>1
  <2>3. CASE PathOf(c) = PathOf(hand[w])
    <3>1. hand[w] \in captures' /\ Observed(c) = Observed(hand[w])
      BY <1>1, <2>3, ObservedIsTheName
    <3>2. <<PathOf(hand[w]), a>> \in sidecars /\ p = <<Observed(hand[w]), a>>
      BY <2>1, <2>3, <3>1
    <3> QED
      BY <1>5, <3>1, <3>2
  <2> QED
    BY <2>2, <2>3
<1>8. ASSUME NEW p \in FiledSupplements' PROVE p \in FiledSupplements
  <2>1. PICK c \in captures', a \in Asset :
              <<PathOf(c), a>> \in sidecars /\ p = <<Observed(c), a>>
    BY <1>5, <1>8
  <2>2. PICK d \in captures, b \in Asset : <<PathOf(c), a>> = <<PathOf(d), b>>
    BY <2>1 DEF TypeOK, SidecarsBesideCaptures
  <2>3. PathOf(c) = PathOf(d)
    BY <2>2
  <2>4. Observed(c) = Observed(d)
    BY <2>3, ObservedIsTheName
  <2>5. <<PathOf(d), a>> \in sidecars /\ p = <<Observed(d), a>>
    BY <2>1, <2>3, <2>4
  <2> QED
    BY <1>6, <2>5
<1> QED
  BY <1>4, <1>7, <1>8

\* A lone writer's recovery supplements one observation that is in the log.
LEMMA RecoverySupplements ==
    ASSUME TypeOK, NEW w \in Writers, Undisturbed(w), WriteSidecar(w)
    PROVE  /\ FiledLog' = FiledLog
           /\ Observed(hand[w]) \in FiledLog
           /\ FiledSupplements' = FiledSupplements \union ({Observed(hand[w])} \X found[w])
<1>1. /\ captures' = captures
      /\ sidecars' = {s \in sidecars : s[1] # PathOf(hand[w])}
                      \union ({PathOf(hand[w])} \X Merged(folded[w], found[w]))
      /\ pc[w] = "merge"
  BY DEF WriteSidecar
<1>2. folded[w] = SidecarOf(hand[w]) /\ found[w] \in SUBSET Asset
  BY <1>1 DEF Undisturbed, TypeOK, ProcessTypeOK
<1>3. PICK d \in captures : PathOf(d) = PathOf(hand[w])
  BY <1>1 DEF TypeOK, OperationsInHand
<1>4. Observed(d) = Observed(hand[w])
  BY <1>3, ObservedIsTheName
<1>5. FiledLog' = FiledLog /\ Observed(hand[w]) \in FiledLog
  BY <1>1, <1>4 DEF FiledLog, Observed, Second
<1>6. ASSUME NEW n, NEW a \in Asset
      PROVE  <<n, a>> \in sidecars' <=>
                \/ <<n, a>> \in sidecars
                \/ n = PathOf(hand[w]) /\ a \in found[w]
  BY <1>1, <1>2 DEF Merged, SidecarOf
<1>7. ASSUME NEW p
      PROVE  (p \in FiledSupplements') <=>
                (\E c \in captures, a \in Asset :
                    <<PathOf(c), a>> \in sidecars' /\ p = <<Observed(c), a>>)
  BY <1>1, SupplementsPointwiseNext
<1>8. ASSUME NEW p
      PROVE  p \in FiledSupplements <=>
                \E c \in captures, a \in Asset :
                    <<PathOf(c), a>> \in sidecars /\ p = <<Observed(c), a>>
  BY SupplementsPointwise DEF Supplemented
<1>9. ASSUME NEW p \in FiledSupplements'
      PROVE  p \in FiledSupplements \union ({Observed(hand[w])} \X found[w])
  <2>1. PICK c \in captures, a \in Asset :
              <<PathOf(c), a>> \in sidecars' /\ p = <<Observed(c), a>>
    BY <1>7, <1>9
  <2>2. CASE <<PathOf(c), a>> \in sidecars
    BY <1>8, <2>1, <2>2
  <2>3. CASE PathOf(c) = PathOf(hand[w]) /\ a \in found[w]
    <3>1. Observed(c) = Observed(hand[w])
      BY <2>3, ObservedIsTheName
    <3> QED
      BY <2>1, <2>3, <3>1
  <2> QED
    BY <1>6, <2>1, <2>2, <2>3
<1>10. ASSUME NEW p \in FiledSupplements PROVE p \in FiledSupplements'
  <2>1. PICK c \in captures, a \in Asset :
              <<PathOf(c), a>> \in sidecars /\ p = <<Observed(c), a>>
    BY <1>8
  <2>2. <<PathOf(c), a>> \in sidecars'
    BY <1>6, <2>1
  <2> QED
    BY <1>7, <2>1, <2>2
<1>11. ASSUME NEW a \in found[w] PROVE <<Observed(hand[w]), a>> \in FiledSupplements'
  <2>1. a \in Asset /\ <<PathOf(d), a>> \in sidecars'
    BY <1>2, <1>3, <1>6
  <2> QED
    BY <1>4, <1>7, <2>1
<1> QED
  BY <1>5, <1>9, <1>10, <1>11

\* A new archive shows a reader an empty log.
LEMMA LogInit == Init => Log!Init
  BY DEF Init, Log!Init, VisibleLog, VisibleSupplements

\* Every step of a lone writer appends one observation, supplements one, or
\* shows a reader nothing.
LEMMA LogStep ==
    ASSUME StoreInv, StoreInv', AloneInv, [Next]_vars
    PROVE  [Log!Next]_(Log!vars)
<1>1. /\ VisibleLog = FiledLog /\ VisibleSupplements = FiledSupplements
      /\ VisibleLog' = FiledLog' /\ VisibleSupplements' = FiledSupplements'
  <2>1. VisibleLog = FiledLog /\ VisibleSupplements = FiledSupplements
    BY EverythingIsReadable
  <2>2. (VisibleLog = FiledLog /\ VisibleSupplements = FiledSupplements)'
    BY EverythingIsReadable, PTL
  <2> QED
    BY <2>1, <2>2
<1>2. TypeOK /\ \A w \in Writers : Undisturbed(w)
  BY DEF AloneInv
<1>3. CASE captures' = captures /\ sidecars' = sidecars
  <2>1. FiledLog' = FiledLog /\ FiledSupplements' = FiledSupplements
    BY <1>3
    DEF FiledLog, FiledSupplements, SidecarOf, Observed, PathOf, Fingerprint, Second
  <2> QED
    BY <1>1, <2>1 DEF Log!vars
<1>4. ASSUME NEW w \in Writers, WriteCaptureRecord(w) PROVE Log!Next
  <2>1. hand[w] \in Capture
    BY <1>2, <1>4 DEF WriteCaptureRecord, TypeOK, ProcessTypeOK, OperationsInHand
  <2>2. Observed(hand[w]) \in Observation
    BY <2>1 DEF Observed, Observation, Capture
  <2>3. Log!Append(Observed(hand[w]))
    BY <1>1, <1>2, <1>4, FilingAppends DEF Log!Append
  <2> QED
    BY <2>2, <2>3 DEF Log!Next
<1>5. ASSUME NEW w \in Writers, WriteSidecar(w) PROVE Log!Next
  <2>1. found[w] \in SUBSET Asset
    BY <1>2 DEF TypeOK, ProcessTypeOK
  <2>2. Observed(hand[w]) \in VisibleLog /\ Log!Supplement(Observed(hand[w]), found[w])
    BY <1>1, <1>2, <1>5, RecoverySupplements DEF Log!Supplement
  <2> QED
    BY <2>1, <2>2 DEF Log!Next
<1> QED
  BY <1>3, <1>4, <1>5
  DEF Next, Write, vars, files, BeginCapture, StoreAsset, StoreBody, ReadItem,
      WriteItem, BeginRecovery, ReadSidecar, Stop

\* With one process at a time the files on disk are a capture log: whatever
\* step a process is stopped at, a reader finds captures whole, and keeps
\* finding every one of them with everything ever recovered for it.
THEOREM StoreImplementsLog ==
    ASSUME SingleWriter
    PROVE  Spec => ImplementsCaptureLog
<1>1. AloneInv /\ [Next]_vars => AloneInv'
  BY AloneInvStep
<1>2. StoreInv /\ StoreInv' /\ AloneInv /\ [Next]_vars => [Log!Next]_(Log!vars)
  BY LogStep
<1> QED
  BY <1>1, <1>2, LogInit, StoreInvInit, StoreInvStep, AloneInvInit, PTL
  DEF Spec, ImplementsCaptureLog, Log!Spec
=============================================================================
