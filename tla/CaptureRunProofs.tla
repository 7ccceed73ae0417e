-------------------------- MODULE CaptureRunProofs --------------------------
(***************************************************************************)
(* Theorems about CaptureRun, for every set of addresses, canonical form,  *)
(* page ceiling and number of runs.  One inductive invariant carries them  *)
(* all: it says what is true of a run half way through, where the losses   *)
(* are still in memory and owed.json does not know of them yet.            *)
(***************************************************************************)
EXTENDS CaptureRun, TLAPS

-----------------------------------------------------------------------------
(* Lemmas about the record of a run *)

\* The canonical form of an address, where it has one, is a page, and every
\* page is an address itself.
LEMMA CanonicalForms ==
    /\ Pages \subseteq Addresses
    /\ \A a \in Addresses : Canon[a] # Unaddressable => Canon[a] \in Pages
  BY CanonAssumption, SMT DEF Pages

\* A run begins with nothing in it.
LEMMA FreshIsEmpty ==
    /\ Fresh \in RunRecord /\ Losses(Fresh) = {} /\ Fresh.filed = {} /\ Fresh.refused = {}
    /\ Fresh.written = 0 /\ Fresh.spent = 0
  BY SMT DEF Fresh, RunRecord, Losses

\* Folding a phase into its run loses nothing either of them recorded
\* (CaptureRun::merge).
LEMMA MergeKeeps ==
    ASSUME NEW r \in RunRecord, NEW p \in RunRecord
    PROVE  /\ Merge(r, p) \in RunRecord
           /\ Merge(r, p).filed = r.filed \union p.filed
           /\ Merge(r, p).refused = r.refused \union p.refused
           /\ Losses(Merge(r, p)) = Losses(r) \union Losses(p)
           /\ Merge(r, p).written = r.written + p.written
           /\ Merge(r, p).spent = r.spent + p.spent
<1>1. Merge(r, p) \in RunRecord
  BY SMT DEF RunRecord, Merge
<1> QED
  BY <1>1, SMT DEF Merge, Losses

\* Every address a run lost is an address, and is owed for one of the reasons
\* the ledger knows (owed_addresses).
LEMMA LossesAreAddresses ==
    ASSUME NEW r \in RunRecord
    PROVE  /\ Losses(r) \subseteq Addresses
           /\ \A a \in Losses(r) : OwedAddresses(r)[a] \in Reasons
<1>1. Losses(r) \subseteq Addresses
  BY CanonicalForms, SMT DEF RunRecord, Losses
<1>2. ASSUME NEW a \in Losses(r) PROVE OwedAddresses(r)[a] \in Reasons
  BY SMT DEF OwedAddresses, Reasons
<1> QED
  BY <1>1, <1>2

\* write_owed leaves what was owed and not filed, and what the run lost, each
\* with a reason.
LEMMA FoldsDebt ==
    ASSUME ArchiveTypeOK, NEW r \in RunRecord
    PROVE  /\ DOMAIN Fold(r) = (DOMAIN owed \ r.filed) \union Losses(r)
           /\ DOMAIN Fold(r) \subseteq Addresses
           /\ Fold(r) \in [DOMAIN Fold(r) -> Reasons]
<1>1. DOMAIN Fold(r) = (DOMAIN owed \ r.filed) \union Losses(r)
  BY DEF Fold
<1>2. /\ Losses(r) \subseteq Addresses
      /\ \A a \in Losses(r) : OwedAddresses(r)[a] \in Reasons
  BY LossesAreAddresses
<1>3. Fold(r) \in [(DOMAIN owed \ r.filed) \union Losses(r) -> Reasons]
  BY <1>2 DEF Fold, ArchiveTypeOK
<1> QED
  BY <1>1, <1>2, <1>3 DEF ArchiveTypeOK

-----------------------------------------------------------------------------
(* The inductive invariant *)

\* Every page and lost link the engine told of is in a field of the run or of
\* its phase, but for the page whose write failed.
Recorded(a) ==
    \/ Canon[a] \in run.filed \union part.filed
    \/ {a, Canon[a]} \intersect (Losses(run) \union Losses(part)) # {}
Accounted == \A a \in reported \ {inHand} : Recorded(a)

\* What was archived and what the crawl in progress may still archive stay
\* within the ceiling, and no page is archived without being charged.
Ceiling ==
    /\ run.written + part.written + room <= MaxPages
    /\ run.written <= run.spent /\ part.written <= part.spent

\* A list is walked with the snapshot of the phases before it.
Snapshot == step \in {"list", "subcrawl", "fetch"} => settled = Settled(run)

\* Between phases everything is in the run.
BetweenPhases == step \in {"sitemap", "origins", "owe", "done"} => part = Fresh

\* A failed write is the last thing a run does.
FailureIsLast ==
    /\ failure => step \in {"crawl", "subcrawl", "listed", "owe", "done"}
    /\ failure /\ step = "subcrawl" => reached # {}
    /\ inHand # NoAddress => failure

RunInv ==
    /\ TypeOK /\ Accounted /\ Ceiling /\ Snapshot /\ BetweenPhases /\ FailureIsLast
    /\ EveryLossIsOwed /\ PaidDebtIsDropped

\* Before any run there is nothing to account for.
LEMMA RunInvInit == Init => RunInv
<1> SUFFICES ASSUME Init PROVE RunInv
  OBVIOUS
<1>0. DOMAIN owed = {} /\ owed \in [DOMAIN owed -> Reasons]
  BY SMT DEF Init
<1>1. TypeOK
  <2>1. ArchiveTypeOK
    BY <1>0 DEF Init, ArchiveTypeOK
  <2>2. RecordsTypeOK
    BY FreshIsEmpty DEF Init, RecordsTypeOK
  <2>3. CommandTypeOK
    <3>1. room \in 0..MaxPages /\ runs \in 0..MaxRuns
      BY PagesAssumption, SMT DEF Init
    <3> QED
      BY <3>1 DEF Init, CommandTypeOK
  <2> QED
    BY <2>1, <2>2, <2>3 DEF TypeOK
<1>2. Accounted /\ Snapshot /\ BetweenPhases /\ FailureIsLast
  BY DEF Init, Accounted, Snapshot, BetweenPhases, FailureIsLast
<1>3. Ceiling
  BY FreshIsEmpty, PagesAssumption, SMT DEF Init, Ceiling
<1>4. EveryLossIsOwed /\ PaidDebtIsDropped
  BY DEF Init, EveryLossIsOwed, PaidDebtIsDropped
<1> QED
  BY <1>1, <1>2, <1>3, <1>4 DEF RunInv

-----------------------------------------------------------------------------
(* One event of the engine *)

\* What capture_page leaves of an archive and a phase, whatever the answer to
\* the request was: nothing filed or lost is forgotten and the page costs what
\* it takes up.
PageKeeps ==
    /\ items' \subseteq Pages /\ captures' \subseteq items' /\ captures \subseteq captures'
    /\ part' \in RunRecord
    /\ part.filed \subseteq part'.filed /\ part'.filed \subseteq part.filed \union captures'
    /\ Losses(part) \subseteq Losses(part')
    /\ room' \in 0..MaxPages
    /\ part'.written + room' <= part.written + room
    /\ part.written <= part.spent => part'.written <= part'.spent

\* Where the page the event was about is found afterwards.
PageRecorded(final) ==
    \/ inHand' = final
    \/ Canon[final] \in part'.filed
    \/ {final, Canon[final]} \intersect Losses(part') # {}

\* A page no server answered is recorded under the address asked for.
LEMMA NoResponseEffect ==
    ASSUME TypeOK, NEW a \in Addresses, NoResponse(a)
    PROVE  PageKeeps /\ PageRecorded(a)
<1>1. part \in RunRecord /\ part' = [part EXCEPT !.failed = @ \union {a}]
  BY DEF TypeOK, RecordsTypeOK, NoResponse
<1>2. part' \in RunRecord /\ part'.filed = part.filed /\ part'.written = part.written
        /\ part'.spent = part.spent /\ Losses(part') = Losses(part) \union {a}
  BY <1>1, SMT DEF RunRecord, Losses
<1>3. /\ items' \subseteq Pages /\ captures' \subseteq items' /\ captures \subseteq captures'
      /\ room' \in 0..MaxPages /\ room' = room
  BY DEF TypeOK, ArchiveTypeOK, CommandTypeOK, NoResponse
<1>4. part.written \in Nat /\ room \in Nat
  BY <1>1, PagesAssumption, SMT DEF TypeOK, CommandTypeOK, RunRecord
<1>5. PageKeeps
  BY <1>2, <1>3, <1>4, SMT DEF PageKeeps
<1> QED
  BY <1>2, <1>5 DEF PageRecorded

\* A page that ended inside a network is recorded as such, wherever it began.
LEMMA InsideEffect ==
    ASSUME TypeOK, NEW a \in Addresses, EndedInsideANetwork(a)
    PROVE  PageKeeps /\ PageRecorded(a)
<1>1. part \in RunRecord /\ part' = [part EXCEPT !.inside = @ \union {a}]
  BY DEF TypeOK, RecordsTypeOK, EndedInsideANetwork
<1>2. part' \in RunRecord /\ part'.filed = part.filed /\ part'.written = part.written
        /\ part'.spent = part.spent /\ Losses(part') = Losses(part) \union {a}
  BY <1>1, SMT DEF RunRecord, Losses
<1>3. /\ items' \subseteq Pages /\ captures' \subseteq items' /\ captures \subseteq captures'
      /\ room' \in 0..MaxPages /\ room' = room
  BY DEF TypeOK, ArchiveTypeOK, CommandTypeOK, EndedInsideANetwork
<1>4. part.written \in Nat /\ part.spent \in Nat /\ room \in Nat
  BY <1>1, PagesAssumption, SMT DEF TypeOK, CommandTypeOK, RunRecord
<1>5. PageKeeps
  BY <1>2, <1>3, <1>4, SMT DEF PageKeeps
<1> QED
  BY <1>2, <1>5 DEF PageRecorded

\* A page that ended where no canonical form exists is recorded as it is spelled.
LEMMA UnaddressableEffect ==
    ASSUME TypeOK, NEW a \in Addresses, CannotBeAddressed(a)
    PROVE  PageKeeps /\ PageRecorded(a)
<1>1. part \in RunRecord /\ part' = [part EXCEPT !.unaddressable = @ \union {a}]
  BY DEF TypeOK, RecordsTypeOK, CannotBeAddressed
<1>2. part' \in RunRecord /\ part'.filed = part.filed /\ part'.written = part.written
        /\ part'.spent = part.spent /\ Losses(part') = Losses(part) \union {a}
  BY <1>1, SMT DEF RunRecord, Losses
<1>3. /\ items' \subseteq Pages /\ captures' \subseteq items' /\ captures \subseteq captures'
      /\ room' \in 0..MaxPages /\ room' = room
  BY DEF TypeOK, ArchiveTypeOK, CommandTypeOK, CannotBeAddressed
<1>4. part.written \in Nat /\ part.spent \in Nat /\ room \in Nat
  BY <1>1, PagesAssumption, SMT DEF TypeOK, CommandTypeOK, RunRecord
<1>5. PageKeeps
  BY <1>2, <1>3, <1>4, SMT DEF PageKeeps
<1> QED
  BY <1>2, <1>5 DEF PageRecorded

\* A refusal is recorded under the canonical address, charged and not counted as
\* archived.
LEMMA RefusedEffect ==
    ASSUME TypeOK, NEW a \in Addresses, HostRefused(a)
    PROVE  PageKeeps /\ PageRecorded(a)
<1>0. Canon[a] \in Pages
  BY CanonicalForms DEF HostRefused
<1>1. part \in RunRecord /\ part' = [part EXCEPT !.refused = @ \union {Canon[a]}, !.spent = @ + 1]
  BY DEF TypeOK, RecordsTypeOK, HostRefused
<1>2. part' \in RunRecord /\ part'.filed = part.filed /\ part'.written = part.written
        /\ part'.spent = part.spent + 1 /\ Losses(part') = Losses(part) \union {Canon[a]}
  <2>1. part.spent + 1 \in Nat /\ part.refused \union {Canon[a]} \in SUBSET Pages
    BY <1>0, <1>1, SMT DEF RunRecord
  <2>2. part' = [part EXCEPT !.refused = part.refused \union {Canon[a]},
                             !.spent = part.spent + 1]
    BY <1>1
  <2>3. part' \in RunRecord
    BY <1>1, <2>1, <2>2 DEF RunRecord
  <2>4. Losses(part') = Losses(part) \union {Canon[a]}
    BY <1>1, <2>2, SMT DEF RunRecord, Losses
  <2> QED
    BY <1>1, <2>2, <2>3, <2>4 DEF RunRecord
<1>3. /\ items' \subseteq Pages /\ captures' \subseteq items' /\ captures \subseteq captures'
      /\ room' \in 0..MaxPages /\ room' = room
  BY DEF TypeOK, ArchiveTypeOK, CommandTypeOK, HostRefused
<1>4. part.written \in Nat /\ part.spent \in Nat /\ room \in Nat
  BY <1>1, PagesAssumption, SMT DEF TypeOK, CommandTypeOK, RunRecord
<1>5. PageKeeps
  BY <1>2, <1>3, <1>4, SMT DEF PageKeeps
<1> QED
  BY <1>2, <1>5 DEF PageRecorded

\* A page that is filed has its capture in the archive and its place in the
\* phase, whether its derived records were written or not.
LEMMA FiledEffect ==
    ASSUME TypeOK, NEW a \in Addresses, NEW complete \in BOOLEAN, Filed(a, complete)
    PROVE  PageKeeps /\ PageRecorded(a)
<1>0. Canon[a] \in Pages
  BY CanonicalForms DEF Filed
<1>1. /\ part \in RunRecord
      /\ part' = [part EXCEPT !.filed = @ \union {Canon[a]}, !.written = @ + 1, !.spent = @ + 1]
  BY DEF TypeOK, RecordsTypeOK, Filed
<1>2. part' \in RunRecord /\ part'.filed = part.filed \union {Canon[a]}
        /\ part'.written = part.written + 1 /\ part'.spent = part.spent + 1
        /\ Losses(part') = Losses(part)
  <2>1. /\ part.written + 1 \in Nat /\ part.spent + 1 \in Nat
        /\ part.filed \union {Canon[a]} \in SUBSET Pages
    BY <1>0, <1>1, SMT DEF RunRecord
  <2>2. part' = [part EXCEPT !.filed = part.filed \union {Canon[a]},
                             !.written = part.written + 1, !.spent = part.spent + 1]
    BY <1>1
  <2>3. part' \in RunRecord
    BY <1>1, <2>1, <2>2 DEF RunRecord
  <2>4. Losses(part') = Losses(part)
    BY <1>1, <2>2, SMT DEF RunRecord, Losses
  <2> QED
    BY <1>1, <2>2, <2>3, <2>4 DEF RunRecord
<1>3. /\ items' \subseteq Pages /\ captures' \subseteq items' /\ captures \subseteq captures'
      /\ Canon[a] \in captures'
  BY <1>0 DEF TypeOK, ArchiveTypeOK, Filed
<1>4. part.written \in Nat /\ part.spent \in Nat /\ room \in Nat
  BY <1>1, PagesAssumption, SMT DEF TypeOK, CommandTypeOK, RunRecord
<1>5. room' \in 0..MaxPages /\ room' = room - 1
  BY PagesAssumption, SMT DEF TypeOK, CommandTypeOK, Filed
<1>6. PageKeeps
  BY <1>2, <1>3, <1>4, <1>5, SMT DEF PageKeeps
<1> QED
  BY <1>2, <1>6 DEF PageRecorded

\* A page whose write failed is in hand, and in no field of the phase.
LEMMA NotFiledEffect ==
    ASSUME TypeOK, NEW a \in Addresses, NEW itemWritten \in BOOLEAN, NotFiled(a, itemWritten)
    PROVE  PageKeeps /\ PageRecorded(a)
<1>0. Canon[a] \in Pages
  BY CanonicalForms DEF NotFiled
<1>1. part \in RunRecord /\ part' = part /\ inHand' = a
  BY DEF TypeOK, RecordsTypeOK, NotFiled
<1>2. /\ items' \subseteq Pages /\ captures' \subseteq items' /\ captures' = captures
  BY <1>0 DEF TypeOK, ArchiveTypeOK, NotFiled
<1>3. part.written \in Nat /\ part.spent \in Nat /\ room \in Nat
  BY <1>1, PagesAssumption, SMT DEF TypeOK, CommandTypeOK, RunRecord
<1>4. room' \in 0..MaxPages /\ room' = room - 1
  BY PagesAssumption, SMT DEF TypeOK, CommandTypeOK, NotFiled
<1>5. PageKeeps
  BY <1>1, <1>2, <1>3, <1>4, SMT DEF PageKeeps
<1> QED
  BY <1>1, <1>5 DEF PageRecorded

\* Whatever the answer to a request was, the page the engine told of is
\* recorded, and only a failed write stops the run.
LEMMA PageEffect ==
    ASSUME TypeOK, ~failure, NEW u \in Addresses, CapturePage(u)
    PROVE  /\ PageKeeps
           /\ \E a \in Addresses : reported' = reported \union {a} /\ PageRecorded(a)
           /\ failure' \in BOOLEAN
           /\ inHand' \in Addresses \union {NoAddress}
           /\ inHand' = inHand \/ failure'
<1>1. CASE NoResponse(u) /\ reported' = reported \union {u}
  BY <1>1, NoResponseEffect DEF NoResponse, TypeOK, CommandTypeOK
<1>2. ASSUME NEW final \in LandsOn[u],
             reported' = reported \union {final},
             \/ EndedInsideANetwork(final)
             \/ CannotBeAddressed(final)
             \/ HostRefused(final)
             \/ \E complete \in BOOLEAN : Filed(final, complete)
             \/ \E itemWritten \in BOOLEAN : NotFiled(final, itemWritten)
      PROVE  /\ PageKeeps /\ PageRecorded(final) /\ final \in Addresses
             /\ failure' \in BOOLEAN
             /\ inHand' \in Addresses \union {NoAddress}
             /\ inHand' = inHand \/ failure'
  <2>0. final \in Addresses
    BY LandsOnAssumption, SMT
  <2>1. CASE EndedInsideANetwork(final)
    BY <2>0, <2>1, InsideEffect DEF EndedInsideANetwork, TypeOK, CommandTypeOK
  <2>2. CASE CannotBeAddressed(final)
    BY <2>0, <2>2, UnaddressableEffect DEF CannotBeAddressed, TypeOK, CommandTypeOK
  <2>3. CASE HostRefused(final)
    BY <2>0, <2>3, RefusedEffect DEF HostRefused, TypeOK, CommandTypeOK
  <2>4. ASSUME NEW complete \in BOOLEAN, Filed(final, complete)
        PROVE  /\ PageKeeps /\ PageRecorded(final) /\ failure' \in BOOLEAN
               /\ inHand' = inHand
    BY <2>0, <2>4, FiledEffect DEF Filed
  <2>5. ASSUME NEW itemWritten \in BOOLEAN, NotFiled(final, itemWritten)
        PROVE  PageKeeps /\ PageRecorded(final) /\ failure' = TRUE /\ inHand' = final
    BY <2>0, <2>5, NotFiledEffect DEF NotFiled
  <2> QED
    BY <1>2, <2>0, <2>1, <2>2, <2>3, <2>4, <2>5 DEF TypeOK, CommandTypeOK
<1> QED
  BY <1>1, <1>2 DEF CapturePage

\* The event keeps the archive and the phase what they should be, whichever
\* phase it came in.
LEMMA PagePreserves ==
    ASSUME RunInv, ~failure, NEW u \in Addresses, CapturePage(u),
           UNCHANGED <<owed, run, settled>>
    PROVE  /\ ArchiveTypeOK' /\ RecordsTypeOK' /\ Accounted' /\ Ceiling'
           /\ room' \in 0..MaxPages /\ reported' \subseteq Addresses
           /\ failure' \in BOOLEAN /\ inHand' \in Addresses \union {NoAddress}
           /\ inHand' # NoAddress => failure'
<1>0. TypeOK /\ Accounted /\ Ceiling /\ inHand = NoAddress
  BY DEF RunInv, FailureIsLast
<1>1. PICK a \in Addresses : reported' = reported \union {a} /\ PageRecorded(a)
  BY <1>0, PageEffect
<1>2. /\ PageKeeps /\ failure' \in BOOLEAN /\ inHand' \in Addresses \union {NoAddress}
      /\ inHand' # NoAddress => failure'
  BY <1>0, PageEffect
<1>3. ArchiveTypeOK'
  BY <1>0, <1>2 DEF TypeOK, ArchiveTypeOK, PageKeeps
<1>4. RecordsTypeOK'
  <2>1. run.filed \union part.filed \subseteq captures /\ captures \subseteq captures'
    BY <1>0, <1>2 DEF TypeOK, RecordsTypeOK, PageKeeps
  <2>2. run.filed \union part'.filed \subseteq captures'
    BY <1>2, <2>1 DEF PageKeeps
  <2> QED
    BY <1>0, <1>2, <2>2 DEF TypeOK, RecordsTypeOK, PageKeeps
<1>5. Accounted'
  <2> SUFFICES ASSUME NEW x \in reported', x # inHand' PROVE Recorded(x)'
    BY DEF Accounted
  <2>1. CASE x = a
    BY <1>1, <2>1 DEF PageRecorded, Recorded
  <2>2. CASE x \in reported
    <3>1. reported \subseteq Addresses /\ NoAddress \notin Addresses
      BY <1>0, CanonAssumption DEF TypeOK, CommandTypeOK
    <3>2. Recorded(x)
      BY <1>0, <2>2, <3>1 DEF Accounted
    <3> QED
      BY <1>2, <3>2 DEF Recorded, PageKeeps
  <2> QED
    BY <1>1, <2>1, <2>2
<1>6. Ceiling'
  <2>1. run \in RunRecord /\ part \in RunRecord /\ part' \in RunRecord /\ room \in 0..MaxPages
          /\ room' \in 0..MaxPages
    BY <1>0, <1>2 DEF TypeOK, RecordsTypeOK, CommandTypeOK, PageKeeps
  <2>2. /\ run.written \in Nat /\ part.written \in Nat /\ part'.written \in Nat
        /\ MaxPages \in Nat
    BY <2>1, PagesAssumption DEF RunRecord
  <2>3. part'.written + room' <= part.written + room /\ part'.written <= part'.spent
    BY <1>0, <1>2 DEF PageKeeps, Ceiling
  <2>4. run.written + part'.written + room' <= MaxPages
    BY <1>0, <2>1, <2>2, <2>3, SMT DEF Ceiling
  <2> QED
    BY <1>0, <2>3, <2>4 DEF Ceiling
<1>7. room' \in 0..MaxPages /\ reported' \subseteq Addresses
  BY <1>0, <1>1, <1>2 DEF PageKeeps, TypeOK, CommandTypeOK
<1> QED
  BY <1>2, <1>3, <1>4, <1>5, <1>6, <1>7

\* A phase with the links its crawl lost and the way it stopped.
Ended(r, lost, stop) == [r EXCEPT !.never = @ \union lost, !.stopped = stop]

\* A phase that ends keeps what it recorded and adds the links it lost.
LEMMA EndedPhase ==
    ASSUME NEW r \in RunRecord, NEW lost \in SUBSET Addresses,
           NEW stop \in {"exhausted", "deadline", "page-ceiling", "caller"}
    PROVE  /\ Ended(r, lost, stop) \in RunRecord
           /\ Losses(Ended(r, lost, stop)) = Losses(r) \union lost
           /\ Ended(r, lost, stop).filed = r.filed
           /\ Ended(r, lost, stop).written = r.written
           /\ Ended(r, lost, stop).spent = r.spent
<1>1. Ended(r, lost, stop) \in RunRecord
  BY DEF RunRecord, Ended
<1>2. Losses(Ended(r, lost, stop)) = Losses(r) \union lost
  BY SMT DEF RunRecord, Losses, Ended
<1> QED
  BY <1>1, <1>2 DEF RunRecord, Ended

\* A link a crawl lost is an address.
LEMMA LostLinks == \A lost \in NeverFollowed : lost \in SUBSET Addresses
  BY DEF NeverFollowed

\* Folding a phase into its run keeps everything accounted for and charged.
LEMMA FoldedPhase ==
    ASSUME RunInv, NEW e \in RunRecord, NEW lost \in SUBSET Addresses,
           Losses(e) = Losses(part) \union lost, e.filed = part.filed,
           e.written = part.written, e.spent = part.spent,
           run' = Merge(run, e), part' = Fresh, reported' = reported \union lost,
           UNCHANGED <<captures, settled, inHand>>, room' \in {0, room}
    PROVE  RecordsTypeOK' /\ Accounted' /\ Ceiling' /\ reported' \subseteq Addresses
<1>0. TypeOK /\ run \in RunRecord /\ part \in RunRecord /\ Accounted /\ Ceiling
  BY DEF RunInv, TypeOK, RecordsTypeOK
<1>1. /\ run' \in RunRecord /\ run'.filed = run.filed \union part.filed
      /\ Losses(run') = Losses(run) \union Losses(part) \union lost
      /\ run'.written = run.written + part.written
      /\ run'.spent = run.spent + part.spent
  BY <1>0, MergeKeeps
<1>2. RecordsTypeOK'
  BY <1>0, <1>1, FreshIsEmpty DEF TypeOK, RecordsTypeOK
<1>3. Accounted'
  <2> SUFFICES ASSUME NEW x \in reported', x # inHand' PROVE Recorded(x)'
    BY DEF Accounted
  <2>1. CASE x \in lost
    BY <1>1, <2>1 DEF Recorded
  <2>2. CASE x \in reported
    <3>1. Recorded(x)
      BY <1>0, <2>2 DEF Accounted
    <3> QED
      BY <1>1, <3>1 DEF Recorded
  <2> QED
    BY <2>1, <2>2
<1>4. Ceiling'
  <2>1. /\ run.written \in Nat /\ part.written \in Nat /\ run.spent \in Nat
        /\ part.spent \in Nat /\ room \in Nat /\ MaxPages \in Nat
    BY <1>0, PagesAssumption DEF TypeOK, CommandTypeOK, RunRecord
  <2> QED
    BY <1>0, <1>1, <2>1, FreshIsEmpty, SMT DEF Ceiling
<1>5. reported' \subseteq Addresses
  BY <1>0 DEF TypeOK, CommandTypeOK
<1> QED
  BY <1>2, <1>3, <1>4, <1>5

\* A step that only moves the command on leaves the records as they were.
LEMMA OnlyMovesOn ==
    ASSUME RunInv, UNCHANGED <<archive, run, part, inHand, reported>>,
           settled' \in {settled, Settled(run)}
    PROVE  /\ ArchiveTypeOK' /\ RecordsTypeOK' /\ Accounted'
           /\ reported' \subseteq Addresses /\ inHand' \in Addresses \union {NoAddress}
           /\ room' = room => Ceiling'
<1>0. TypeOK /\ Accounted /\ Ceiling
  BY DEF RunInv
<1>1. Settled(run) \subseteq Pages
  BY <1>0 DEF TypeOK, RecordsTypeOK, RunRecord, Settled
<1> QED
  BY <1>0, <1>1 DEF TypeOK, ArchiveTypeOK, RecordsTypeOK, CommandTypeOK, Accounted, Recorded,
     Ceiling, archive

\* What owed.json and the run have to agree on is asked for at its end alone.
LEMMA NotDoneYet == step' # "done" => EveryLossIsOwed' /\ PaidDebtIsDropped'
  BY DEF EveryLossIsOwed, PaidDebtIsDropped

\* Every step of the command, a kill included, leaves a run as far as it is
\* accounted for.
LEMMA RunInvStep == RunInv /\ [Next]_vars => RunInv'
<1> SUFFICES ASSUME RunInv, [Next]_vars PROVE RunInv'
  OBVIOUS
<1> USE DEF RunInv
<1>1. ASSUME NEW k \in Kinds, StartRun(k) PROVE RunInv'
  <2>0. k \in {"crawl", "sitemap", "both", "resume"}
    BY KindsAssumption
  <2>1. step' \in {"crawl", "sitemap", "origins"}
    BY <1>1, <2>0 DEF StartRun
  <2>2. ArchiveTypeOK'
    BY <1>1 DEF StartRun, archive, TypeOK, ArchiveTypeOK
  <2>3. RecordsTypeOK'
    BY <1>1, FreshIsEmpty DEF StartRun, RecordsTypeOK
  <2>4. room' \in 0..MaxPages /\ runs' \in 0..MaxRuns
    BY <1>1, PagesAssumption, SMT DEF StartRun, TypeOK, CommandTypeOK
  <2>5. waiting' \subseteq Addresses
    BY <1>1 DEF StartRun, Resumable, TypeOK, ArchiveTypeOK
  <2>6. CommandTypeOK'
    BY <1>1, <2>0, <2>1, <2>4, <2>5 DEF StartRun, CommandTypeOK
  <2>7. Ceiling'
    BY <1>1, <2>4, FreshIsEmpty, PagesAssumption, SMT DEF StartRun, Ceiling
  <2>8. Accounted' /\ Snapshot' /\ BetweenPhases' /\ FailureIsLast'
    BY <1>1, <2>1 DEF StartRun, Accounted, Snapshot, BetweenPhases, FailureIsLast
  <2> QED
    BY <2>1, <2>2, <2>3, <2>6, <2>7, <2>8, NotDoneYet DEF TypeOK
<1>2. ASSUME NEW u \in Addresses, PageOfTheCrawl(u) PROVE RunInv'
  <2>1. /\ ArchiveTypeOK' /\ RecordsTypeOK' /\ Accounted' /\ Ceiling'
        /\ room' \in 0..MaxPages /\ reported' \subseteq Addresses
        /\ failure' \in BOOLEAN /\ inHand' \in Addresses \union {NoAddress}
        /\ inHand' # NoAddress => failure'
    BY <1>2, PagePreserves DEF PageOfTheCrawl
  <2>2. CommandTypeOK'
    BY <1>2, <2>1 DEF PageOfTheCrawl, TypeOK, CommandTypeOK
  <2>3. Snapshot' /\ BetweenPhases' /\ FailureIsLast' /\ step' # "done"
    BY <1>2, <2>1 DEF PageOfTheCrawl, Snapshot, BetweenPhases, FailureIsLast, Settled
  <2> QED
    BY <2>1, <2>2, <2>3, NotDoneYet DEF TypeOK
<1>3. CASE SeedCrawlEnds
  <2>a. PICK stop \in CrawlStops, lost \in NeverFollowed :
           /\ run' = Merge(run, [part EXCEPT !.never = @ \union lost, !.stopped = stop])
           /\ reported' = reported \union lost
    BY <1>3 DEF SeedCrawlEnds
  <2>b. PICK e : e = Ended(part, lost, stop)
    OBVIOUS
  <2>0. run' = Merge(run, e) /\ reported' = reported \union lost
    BY <2>a, <2>b DEF Ended
  <2>1. /\ lost \in SUBSET Addresses /\ part \in RunRecord
        /\ stop \in {"exhausted", "deadline", "page-ceiling", "caller"}
    BY <2>0, LostLinks DEF CrawlStops, TypeOK, RecordsTypeOK
  <2>2. /\ e \in RunRecord /\ Losses(e) = Losses(part) \union lost /\ e.filed = part.filed
        /\ e.written = part.written /\ e.spent = part.spent
    BY <2>b, <2>1, EndedPhase
  <2>3. RecordsTypeOK' /\ Accounted' /\ Ceiling' /\ reported' \subseteq Addresses
    BY <1>3, <2>0, <2>1, <2>2, FoldedPhase DEF SeedCrawlEnds, archive
  <2>4. ArchiveTypeOK' /\ step' \in {"sitemap", "owe"}
    BY <1>3 DEF SeedCrawlEnds, archive, TypeOK, ArchiveTypeOK
  <2>5. room' \in 0..MaxPages
    BY <1>3, PagesAssumption, SMT DEF SeedCrawlEnds
  <2>6. CommandTypeOK'
    BY <1>3, <2>3, <2>4, <2>5 DEF SeedCrawlEnds, TypeOK, CommandTypeOK
  <2>7. Snapshot' /\ BetweenPhases' /\ FailureIsLast'
    BY <1>3, <2>4 DEF SeedCrawlEnds, Snapshot, BetweenPhases, FailureIsLast
  <2> QED
    BY <2>3, <2>4, <2>6, <2>7, NotDoneYet DEF TypeOK
<1>4. CASE SubcrawlEnds
  <2>a. PICK stop \in CrawlStops, lost \in NeverFollowed :
           /\ part' = [part EXCEPT !.never = @ \union lost,
                  !.stopped = IF stop = "deadline" /\ ~failure THEN stop ELSE @]
           /\ reported' = reported \union lost
           /\ step' = IF failure \/ stop = "deadline" THEN "listed" ELSE "list"
    BY <1>4 DEF SubcrawlEnds
  <2>b. PICK end : end = IF stop = "deadline" /\ ~failure THEN stop ELSE part.stopped
    OBVIOUS
  <2>0. /\ part' = Ended(part, lost, end)
        /\ reported' = reported \union lost
        /\ step' \in {"listed", "list"} /\ (failure => step' = "listed")
    BY <2>a, <2>b DEF Ended
  <2>1. /\ lost \in SUBSET Addresses /\ part \in RunRecord
        /\ end \in {"exhausted", "deadline", "page-ceiling", "caller"}
    BY <2>b, LostLinks DEF TypeOK, RecordsTypeOK, RunRecord
  <2>2. /\ part' \in RunRecord /\ Losses(part') = Losses(part) \union lost
        /\ part'.filed = part.filed /\ part'.written = part.written
        /\ part'.spent = part.spent
    BY <2>0, <2>1, EndedPhase
  <2>3. ArchiveTypeOK' /\ RecordsTypeOK' /\ reported' \subseteq Addresses
    BY <1>4, <2>0, <2>1, <2>2 DEF SubcrawlEnds, archive, TypeOK, ArchiveTypeOK,
       RecordsTypeOK, CommandTypeOK
  <2>4. Accounted'
    BY <1>4, <2>0, <2>2 DEF SubcrawlEnds, Accounted, Recorded
  <2>5. Ceiling' /\ room' \in 0..MaxPages
    <3>1. /\ run.written \in Nat /\ part.written \in Nat /\ room \in Nat /\ MaxPages \in Nat
      BY <2>1, PagesAssumption DEF TypeOK, RecordsTypeOK, CommandTypeOK, RunRecord
    <3> QED
      BY <1>4, <2>2, <3>1, SMT DEF SubcrawlEnds, Ceiling
  <2>6. CommandTypeOK'
    BY <1>4, <2>0, <2>3, <2>5 DEF SubcrawlEnds, TypeOK, CommandTypeOK
  <2>7. Snapshot' /\ BetweenPhases' /\ FailureIsLast' /\ step' # "done"
    BY <1>4, <2>0 DEF SubcrawlEnds, Snapshot, BetweenPhases, FailureIsLast
  <2> QED
    BY <2>3, <2>4, <2>5, <2>6, <2>7, NotDoneYet DEF TypeOK
<1>5. CASE SubcrawlRefused
  <2>1. cur \in Addresses /\ part \in RunRecord
    BY <1>5 DEF SubcrawlRefused, TypeOK, RecordsTypeOK, CommandTypeOK
  <2>2. /\ part' \in RunRecord /\ Losses(part') = Losses(part) \union {cur}
        /\ part'.filed = part.filed /\ part'.written = part.written
        /\ part'.spent = part.spent
    BY <1>5, <2>1, SMT DEF SubcrawlRefused, RunRecord, Losses
  <2>3. ArchiveTypeOK' /\ RecordsTypeOK' /\ reported' \subseteq Addresses
    BY <1>5, <2>1, <2>2 DEF SubcrawlRefused, archive, TypeOK, ArchiveTypeOK,
       RecordsTypeOK, CommandTypeOK
  <2>4. Accounted'
    BY <1>5, <2>2 DEF SubcrawlRefused, Accounted, Recorded
  <2>5. Ceiling' /\ room' \in 0..MaxPages
    <3>1. /\ run.written \in Nat /\ part.written \in Nat /\ room \in Nat /\ MaxPages \in Nat
      BY <2>1, PagesAssumption DEF TypeOK, RecordsTypeOK, CommandTypeOK, RunRecord
    <3> QED
      BY <1>5, <2>2, <3>1, SMT DEF SubcrawlRefused, Ceiling
  <2>6. CommandTypeOK'
    BY <1>5, <2>3, <2>5 DEF SubcrawlRefused, TypeOK, CommandTypeOK
  <2>7. Snapshot' /\ BetweenPhases' /\ FailureIsLast' /\ step' # "done"
    BY <1>5 DEF SubcrawlRefused, Snapshot, BetweenPhases, FailureIsLast
  <2> QED
    BY <2>3, <2>4, <2>5, <2>6, <2>7, NotDoneYet DEF TypeOK
<1>6. CASE ReadSitemap
  <2>1. /\ UNCHANGED <<archive, run, part, inHand, reported, room>>
        /\ settled' \in {settled, Settled(run)}
        /\ step' = "owe" \/ (step' = "list" /\ settled' = Settled(run))
        /\ todo' \subseteq Addresses
    BY <1>6 DEF ReadSitemap, StartList, crawl, TypeOK, CommandTypeOK
  <2>2. ArchiveTypeOK' /\ RecordsTypeOK' /\ Accounted' /\ Ceiling'
    BY <2>1, OnlyMovesOn
  <2>3. CommandTypeOK'
    BY <1>6, <2>1 DEF ReadSitemap, crawl, TypeOK, CommandTypeOK
  <2>4. Snapshot' /\ BetweenPhases' /\ FailureIsLast' /\ step' # "done"
    BY <1>6, <2>1 DEF ReadSitemap, crawl, Snapshot, BetweenPhases, FailureIsLast
  <2> QED
    BY <2>2, <2>3, <2>4, NotDoneYet DEF TypeOK
<1>7. CASE NextOrigin
  <2>1. /\ UNCHANGED <<archive, run, part, inHand, reported, room>>
        /\ settled' \in {settled, Settled(run)}
        /\ step' = "owe" \/ (step' = "list" /\ settled' = Settled(run))
        /\ todo' \subseteq Addresses /\ waiting' \subseteq Addresses
    BY <1>7 DEF NextOrigin, StartList, crawl, TypeOK, CommandTypeOK
  <2>2. ArchiveTypeOK' /\ RecordsTypeOK' /\ Accounted' /\ Ceiling'
    BY <2>1, OnlyMovesOn
  <2>3. CommandTypeOK'
    BY <1>7, <2>1 DEF NextOrigin, crawl, TypeOK, CommandTypeOK
  <2>4. Snapshot' /\ BetweenPhases' /\ FailureIsLast' /\ step' # "done"
    BY <1>7, <2>1 DEF NextOrigin, crawl, Snapshot, BetweenPhases, FailureIsLast
  <2> QED
    BY <2>2, <2>3, <2>4, NotDoneYet DEF TypeOK
<1>8. CASE ListReachesABound
  <2>1. /\ part \in RunRecord
        /\ Bound(SpentSoFar) \in {"exhausted", "deadline", "page-ceiling", "caller"}
    BY DEF TypeOK, RecordsTypeOK, Bound
  <2>2. /\ part' \in RunRecord /\ Losses(part') = Losses(part)
        /\ part'.filed = part.filed /\ part'.written = part.written
        /\ part'.spent = part.spent
    BY <1>8, <2>1 DEF ListReachesABound, RunRecord, Losses
  <2>3. ArchiveTypeOK' /\ RecordsTypeOK' /\ Accounted' /\ Ceiling'
    BY <1>8, <2>2 DEF ListReachesABound, archive, crawl, TypeOK, ArchiveTypeOK,
       RecordsTypeOK, Accounted, Recorded, Ceiling
  <2>4. CommandTypeOK'
    BY <1>8 DEF ListReachesABound, crawl, TypeOK, CommandTypeOK
  <2>5. Snapshot' /\ BetweenPhases' /\ FailureIsLast' /\ step' # "done"
    BY <1>8 DEF ListReachesABound, crawl, Snapshot, BetweenPhases, FailureIsLast
  <2> QED
    BY <2>3, <2>4, <2>5, NotDoneYet DEF TypeOK
<1>9. ASSUME NEW u \in todo, SkipListed(u) PROVE RunInv'
  <2>1. ArchiveTypeOK' /\ RecordsTypeOK' /\ Accounted' /\ Ceiling'
    BY <1>9, OnlyMovesOn DEF SkipListed, crawl
  <2>2. CommandTypeOK'
    BY <1>9 DEF SkipListed, crawl, TypeOK, CommandTypeOK
  <2>3. Snapshot' /\ BetweenPhases' /\ FailureIsLast' /\ step' # "done"
    BY <1>9 DEF SkipListed, crawl, Snapshot, BetweenPhases, FailureIsLast
  <2> QED
    BY <2>1, <2>2, <2>3, NotDoneYet DEF TypeOK
<1>10. ASSUME NEW u \in todo, AskForListed(u) PROVE RunInv'
  <2>1. ArchiveTypeOK' /\ RecordsTypeOK' /\ Accounted'
    BY <1>10, OnlyMovesOn DEF AskForListed
  <2>2. Ceiling' /\ room' \in 0..MaxPages
    <3>1. /\ run.written \in Nat /\ part.written \in Nat /\ run.spent \in Nat
          /\ part.spent \in Nat /\ MaxPages \in Nat
      BY PagesAssumption DEF TypeOK, RecordsTypeOK, RunRecord
    <3>2. run.spent + part.spent < MaxPages
      BY <1>10, <3>1, SMT DEF AskForListed, BoundReached, SpentSoFar
    <3>3. room' = MaxPages - (run.spent + part.spent)
      BY <1>10, <3>1, <3>2, SMT DEF AskForListed, RemainingPages, SpentSoFar
    <3> QED
      BY <1>10, <3>1, <3>2, <3>3, SMT DEF AskForListed, Ceiling
  <2>3. CommandTypeOK'
    <3>1. u \in Addresses /\ NoAddress \notin Addresses
      BY CanonAssumption DEF TypeOK, CommandTypeOK
    <3> QED
      BY <1>10, <2>2, <3>1 DEF AskForListed, TypeOK, CommandTypeOK
  <2>4. Snapshot' /\ BetweenPhases' /\ FailureIsLast' /\ step' # "done"
    BY <1>10 DEF AskForListed, Snapshot, BetweenPhases, FailureIsLast
  <2> QED
    BY <2>1, <2>2, <2>3, <2>4, NotDoneYet DEF TypeOK
<1>11. CASE FetchListed
  <2>0. cur \in Addresses /\ ~failure
    BY <1>11 DEF FetchListed, TypeOK, CommandTypeOK, FailureIsLast
  <2>1. /\ ArchiveTypeOK' /\ RecordsTypeOK' /\ Accounted' /\ Ceiling'
        /\ room' \in 0..MaxPages /\ reported' \subseteq Addresses
        /\ failure' \in BOOLEAN /\ inHand' \in Addresses \union {NoAddress}
        /\ inHand' # NoAddress => failure'
    BY <1>11, <2>0, PagePreserves DEF FetchListed
  <2>2. step' \in {"listed", "list"} /\ (failure' => step' = "listed")
    BY <1>11 DEF FetchListed
  <2>3. CommandTypeOK'
    BY <1>11, <2>1, <2>2 DEF FetchListed, TypeOK, CommandTypeOK
  <2>4. Snapshot' /\ BetweenPhases' /\ FailureIsLast'
    BY <1>11, <2>1, <2>2 DEF FetchListed, Snapshot, BetweenPhases, FailureIsLast, Settled
  <2> QED
    BY <2>1, <2>2, <2>3, <2>4, NotDoneYet DEF TypeOK
<1>12. CASE ListEnds
  <2>1. part \in RunRecord /\ Losses(part) = Losses(part) \union {}
    BY DEF TypeOK, RecordsTypeOK
  <2>2. RecordsTypeOK' /\ Accounted' /\ Ceiling' /\ reported' \subseteq Addresses
    <3>1. reported' = reported \union {} /\ room' \in {0, room}
      BY <1>12 DEF ListEnds, crawl
    <3>2. /\ run' = Merge(run, part) /\ part' = Fresh
          /\ UNCHANGED <<captures, settled, inHand>>
      BY <1>12 DEF ListEnds, archive
    <3>3. {} \in SUBSET Addresses
      OBVIOUS
    <3> QED
      BY <2>1, <3>1, <3>2, <3>3, FoldedPhase
  <2>3. ArchiveTypeOK' /\ step' \in {"origins", "owe"}
    BY <1>12 DEF ListEnds, archive, TypeOK, ArchiveTypeOK
  <2>4. CommandTypeOK'
    BY <1>12, <2>3 DEF ListEnds, crawl, TypeOK, CommandTypeOK
  <2>5. Snapshot' /\ BetweenPhases' /\ FailureIsLast'
    BY <1>12, <2>3 DEF ListEnds, crawl, Snapshot, BetweenPhases, FailureIsLast
  <2> QED
    BY <2>2, <2>3, <2>4, <2>5, NotDoneYet DEF TypeOK
<1>13. CASE WriteOwed
  <2>0. part = Fresh /\ run \in RunRecord /\ step' = "done"
    BY <1>13 DEF WriteOwed, BetweenPhases, TypeOK, RecordsTypeOK
  <2>1. /\ DOMAIN owed' = (DOMAIN owed \ run.filed) \union Losses(run)
        /\ DOMAIN owed' \subseteq Addresses /\ owed' \in [DOMAIN owed' -> Reasons]
    BY <1>13, <2>0, FoldsDebt DEF WriteOwed, TypeOK
  <2>2. ArchiveTypeOK' /\ RecordsTypeOK' /\ CommandTypeOK'
    BY <1>13, <2>1 DEF WriteOwed, crawl, TypeOK, ArchiveTypeOK, RecordsTypeOK, CommandTypeOK
  <2>3. Accounted' /\ Ceiling' /\ Snapshot' /\ BetweenPhases' /\ FailureIsLast'
    BY <1>13, <2>0 DEF WriteOwed, crawl, Accounted, Recorded, Ceiling, Snapshot,
       BetweenPhases, FailureIsLast
  <2>4. EveryLossIsOwed'
    <3> SUFFICES ASSUME NEW a \in reported, a # inHand
                 PROVE  \/ Canon[a] \in run.filed
                        \/ {a, Canon[a]} \intersect DOMAIN owed' # {}
      BY <1>13 DEF WriteOwed, EveryLossIsOwed
    <3>1. Recorded(a)
      BY DEF Accounted
    <3> QED
      BY <2>0, <2>1, <3>1, FreshIsEmpty DEF Recorded
  <2>5. PaidDebtIsDropped'
    BY <1>13, <2>1 DEF WriteOwed, PaidDebtIsDropped
  <2> QED
    BY <2>2, <2>3, <2>4, <2>5 DEF TypeOK
<1>14. CASE TimePasses
  <2>1. ArchiveTypeOK' /\ RecordsTypeOK' /\ Accounted' /\ Ceiling'
    BY <1>14, OnlyMovesOn DEF TimePasses, crawl
  <2>2. CommandTypeOK'
    BY <1>14 DEF TimePasses, crawl, TypeOK, CommandTypeOK
  <2>3. Snapshot' /\ BetweenPhases' /\ FailureIsLast' /\ step' # "done"
    BY <1>14 DEF TimePasses, crawl, Snapshot, BetweenPhases, FailureIsLast
  <2> QED
    BY <2>1, <2>2, <2>3, NotDoneYet DEF TypeOK
<1>15. CASE Killed
  <2>1. ArchiveTypeOK'
    BY <1>15 DEF Killed, TypeOK, ArchiveTypeOK
  <2>2. RecordsTypeOK'
    BY <1>15, FreshIsEmpty DEF Killed, RecordsTypeOK
  <2>3. room' \in 0..MaxPages
    BY <1>15, PagesAssumption, SMT DEF Killed
  <2>4. CommandTypeOK'
    BY <1>15, <2>3 DEF Killed, TypeOK, CommandTypeOK
  <2>5. Ceiling'
    BY <1>15, FreshIsEmpty, PagesAssumption, SMT DEF Killed, Ceiling
  <2>6. Accounted' /\ Snapshot' /\ BetweenPhases' /\ FailureIsLast' /\ step' # "done"
    BY <1>15 DEF Killed, Accounted, Snapshot, BetweenPhases, FailureIsLast
  <2> QED
    BY <2>1, <2>2, <2>4, <2>5, <2>6, NotDoneYet DEF TypeOK
<1>16. CASE UNCHANGED vars
  BY <1>16 DEF vars, archive, crawl, TypeOK, ArchiveTypeOK, RecordsTypeOK, CommandTypeOK,
     Accounted, Recorded, Ceiling, Snapshot, BetweenPhases, FailureIsLast, EveryLossIsOwed,
     PaidDebtIsDropped
<1> QED
  BY <1>1, <1>2, <1>3, <1>4, <1>5, <1>6, <1>7, <1>8, <1>9, <1>10, <1>11, <1>12, <1>13,
     <1>14, <1>15, <1>16 DEF Next

-----------------------------------------------------------------------------
(* The theorems *)

\* Every variable holds what the code can put in it; in particular a page a
\* run counts as filed has its capture in the archive.
THEOREM TypeCorrect == Spec => []TypeOK
<1>1. RunInv => TypeOK
  BY DEF RunInv
<1> QED
  BY <1>1, RunInvInit, RunInvStep, PTL DEF Spec

\* Whatever the phases of a run and however many of them there were, a page or
\* lost link it was told of is in the archive or in owed.json when it ends.
THEOREM LossesAreOwed == Spec => []EveryLossIsOwed
<1>1. RunInv => EveryLossIsOwed
  BY DEF RunInv
<1> QED
  BY <1>1, RunInvInit, RunInvStep, PTL DEF Spec

\* What a run filed and did not also lose leaves the ledger with it.
THEOREM DebtIsSettled == Spec => []PaidDebtIsDropped
<1>1. RunInv => PaidDebtIsDropped
  BY DEF RunInv
<1> QED
  BY <1>1, RunInvInit, RunInvStep, PTL DEF Spec

\* The phases of a run together archive no more pages than --max-pages, for
\* every ceiling, every listing and every number of origins.
THEOREM CeilingHolds == Spec => []RunStaysWithinMaxPages
<1>1. RunInv => RunStaysWithinMaxPages
  <2> SUFFICES ASSUME RunInv PROVE RunStaysWithinMaxPages
    OBVIOUS
  <2>1. run.written \in Nat /\ part.written \in Nat /\ room \in Nat /\ MaxPages \in Nat
    BY PagesAssumption DEF RunInv, TypeOK, RecordsTypeOK, CommandTypeOK, RunRecord
  <2> QED
    BY <2>1, SMT DEF RunInv, Ceiling, RunStaysWithinMaxPages
<1> QED
  BY <1>1, RunInvInit, RunInvStep, PTL DEF Spec

\* No step of any run takes an address out of owed.json, or changes its
\* reason, unless the archive holds a capture of it.
THEOREM DebtOutlivesRuns == Spec => DebtIsKept
<1> DEFINE Kept == \A a \in DOMAIN owed :
                       (a \in DOMAIN owed' /\ owed'[a] = owed[a]) \/ a \in captures
<1>1. RunInv /\ [Next]_vars => [Kept]_vars
  <2> SUFFICES ASSUME RunInv, [Next]_vars, NEW a \in DOMAIN owed
               PROVE  (a \in DOMAIN owed' /\ owed'[a] = owed[a]) \/ a \in captures
    OBVIOUS
  <2>1. CASE WriteOwed
    <3>1. run.filed \subseteq captures
      BY DEF RunInv, TypeOK, RecordsTypeOK
    <3> QED
      BY <2>1, <3>1 DEF WriteOwed, Fold
  <2>2. CASE UNCHANGED owed
    BY <2>2
  <2>3. Next => WriteOwed \/ UNCHANGED owed
    BY DEF Next, StartRun, PageOfTheCrawl, SeedCrawlEnds, SubcrawlEnds, SubcrawlRefused,
       ReadSitemap, NextOrigin, ListReachesABound, SkipListed, AskForListed, FetchListed,
       ListEnds, TimePasses, Killed, archive
  <2>4. UNCHANGED vars => UNCHANGED owed
    BY DEF vars, archive
  <2> QED
    BY <2>1, <2>2, <2>3, <2>4
<1> QED
  BY <1>1, RunInvInit, RunInvStep, PTL DEF Spec, DebtIsKept

\* No run asks for a listed address that it already filed or was refused,
\* whatever phase, origin or entry of a list settled it.
THEOREM NothingIsAskedTwice == Spec => NotAskedAgain
<1> DEFINE Once == \A u \in {cur'} \ {cur, NoAddress} :
                       \A r \in {run, part} : Canon[u] \notin r.filed \union r.refused
<1>1. RunInv /\ [Next]_vars => [Once]_vars
  <2> SUFFICES ASSUME RunInv, [Next]_vars, cur' # cur, cur' # NoAddress
               PROVE  \A r \in {run, part} : Canon[cur'] \notin r.filed \union r.refused
    OBVIOUS
  <2>1. PICK u \in todo : AskForListed(u)
    BY DEF Next, StartRun, PageOfTheCrawl, SeedCrawlEnds, SubcrawlEnds, SubcrawlRefused,
       ReadSitemap, NextOrigin, ListReachesABound, SkipListed, FetchListed, ListEnds,
       WriteOwed, TimePasses, Killed, vars, crawl
  <2>2. settled = Settled(run)
    BY <2>1 DEF AskForListed, RunInv, Snapshot
  <2> QED
    BY <2>1, <2>2 DEF AskForListed, AlreadyFiled, Settled
<1> QED
  BY <1>1, RunInvInit, RunInvStep, PTL DEF Spec, NotAskedAgain

=============================================================================
