----------------------------- MODULE CaptureRun -----------------------------
(***************************************************************************)
(* The capture command over its archive (capture.rs and cli/capture.rs):   *)
(* a crawl from a seed, the phase that asks for listed addresses, the      *)
(* resume that pays a debt origin by origin, and owed.json, which each     *)
(* run merges what it lost into when it ends.  The crawl engine is what    *)
(* crawl/boundary.rs says of it: a crawl reports pages one at a time,      *)
(* serves at most the pages it was granted, and may end at any point.      *)
(* A run may be killed between any two steps.  One run at a time.          *)
(***************************************************************************)
EXTENDS Integers, FiniteSets

CONSTANTS
    Addresses,      \* spellings of addresses an engine reports
    Canon,          \* Canon[a]: CanonicalUrl::parse of a, or Unaddressable
    Unaddressable,  \* what a parse that refuses an address answers
    InsideANetwork, \* addresses that exist only inside a network
    LandsOn,        \* LandsOn[a]: the addresses a request for a may end on
    Origin,         \* Origin[a]: the group a resume asks for a in
    MaxPages,       \* --max-pages
    HasDeadline,    \* whether --deadline is a span, and not none
    Kinds,          \* the invocations to explore
    MaxRuns,        \* bound: runs in a behaviour
    NoAddress       \* no address in hand

ASSUME CanonAssumption ==
    /\ Canon \in [Addresses -> Addresses \union {Unaddressable}]
    /\ Unaddressable \notin Addresses /\ NoAddress \notin Addresses
    /\ \A a \in Addresses : Canon[a] # Unaddressable => Canon[Canon[a]] = Canon[a]
ASSUME LandsOnAssumption == LandsOn \in [Addresses -> SUBSET Addresses]
ASSUME PagesAssumption == MaxPages \in Nat \ {0} /\ MaxRuns \in Nat /\ HasDeadline \in BOOLEAN
ASSUME KindsAssumption == Kinds \subseteq {"crawl", "sitemap", "both", "resume"}

VARIABLES
    items,     \* pages with an item.json, what has_captures answers from
    captures,  \* pages with a capture record
    owed,      \* owed.json: the addresses it names, each with its reason
    step,      \* where the command is
    kind,      \* the invocation
    run,       \* CaptureRun, the phases already merged
    part,      \* CaptureRun of the phase in progress
    settled,   \* so_far.archived: what earlier phases filed or were refused
    todo,      \* listed addresses this phase has yet to look at
    waiting,   \* owed addresses of the origins a resume has yet to reach
    reached,   \* addresses the crawl in progress has requested
    room,      \* pages the crawl in progress may still serve
    cur,       \* the listed address a sub-crawl started from
    late,      \* the run's deadline has passed
    failure,   \* a write failed
    inHand,    \* the page whose capture that write failed to file
    reported,  \* history: the pages and lost links the engine told this run of
    runs       \* runs begun, bounded by MaxRuns

archive == <<items, captures, owed>>
crawl == <<reached, room, cur>>
vars == <<archive, step, kind, run, part, settled, todo, waiting, crawl,
          late, failure, inHand, reported, runs>>

-----------------------------------------------------------------------------
(* The record of a run *)

Pages == {Canon[a] : a \in Addresses} \ {Unaddressable}
Reasons == {"refused", "no_response", "unaddressable", "inside_a_network", "never_followed"}

Fresh == [filed |-> {}, refused |-> {}, failed |-> {}, unaddressable |-> {},
          inside |-> {}, never |-> {}, written |-> 0, spent |-> 0,
          stopped |-> "exhausted"]

\* CaptureRun::merge: sums, unions, and the stop reason of the later phase.
Merge(r, p) ==
    [filed |-> r.filed \union p.filed, refused |-> r.refused \union p.refused,
     failed |-> r.failed \union p.failed,
     unaddressable |-> r.unaddressable \union p.unaddressable,
     inside |-> r.inside \union p.inside, never |-> r.never \union p.never,
     written |-> r.written + p.written, spent |-> r.spent + p.spent,
     stopped |-> p.stopped]

\* owed_addresses: the first reason found for an address is the one kept.
Losses_NotInside(r) == r.refused \union r.failed \union r.unaddressable \union r.never
Losses(r) == r.refused \union r.failed \union r.unaddressable \union r.inside \union r.never
OwedAddresses(r) ==
    [a \in Losses(r) |->
        CASE a \in r.refused -> "refused"
          [] a \in r.failed \ r.refused -> "no_response"
          [] a \in r.unaddressable \ (r.refused \union r.failed) -> "unaddressable"
          [] a \in r.inside \ (r.refused \union r.failed \union r.unaddressable) ->
                "inside_a_network"
          [] OTHER -> "never_followed"]

\* write_owed: what the run filed is settled, what it lost is added, and an
\* entry already on file wins over a new one for its address.
Fold_Replaced(r) == OwedAddresses(r)
Fold_NothingSettled(r) ==
    [a \in DOMAIN owed \union Losses(r) |->
        IF a \in DOMAIN owed THEN owed[a] ELSE OwedAddresses(r)[a]]
Fold(r) ==
    LET kept == DOMAIN owed \ r.filed
    IN [a \in kept \union Losses(r) |->
           IF a \in kept THEN owed[a] ELSE OwedAddresses(r)[a]]

\* owed_but_not_yet_filed
Resumable == {a \in DOMAIN owed : Canon[a] \notin items}

\* bound_reached, over everything the run has charged so far.
BoundReached(spent) == spent >= MaxPages \/ late
Bound(spent) == IF spent >= MaxPages THEN "page-ceiling" ELSE "deadline"
SpentSoFar == run.spent + part.spent

\* remaining_pages: the engine reads a zero as no limit, so never a zero.
RemainingPages_OfThePhase(spent) ==
    IF MaxPages - part.spent > 1 THEN MaxPages - part.spent ELSE 1
RemainingPages(spent) == IF MaxPages - spent > 1 THEN MaxPages - spent ELSE 1

\* already_filed: by an earlier phase, or by this one.
AlreadyFiled(u) == Canon[u] \in settled \union part.filed \union part.refused

\* The snapshot a phase is handed of the phases before it.
Settled_FiledOnly(r) == r.filed
Settled(r) == r.filed \union r.refused

-----------------------------------------------------------------------------
Init ==
    /\ items = {} /\ captures = {} /\ owed = [a \in {} |-> "refused"]
    /\ step = "idle" /\ kind = "crawl"
    /\ run = Fresh /\ part = Fresh /\ settled = {} /\ todo = {} /\ waiting = {}
    /\ reached = {} /\ room = 0 /\ cur = NoAddress
    /\ late = FALSE /\ failure = FALSE /\ inHand = NoAddress
    /\ reported = {} /\ runs = 0

-----------------------------------------------------------------------------
(* capture_page: one event of the engine.  final is the address the page    *)
(* ended on, or the one no server answered.                                 *)

NoResponse(final) ==
    /\ part' = [part EXCEPT !.failed = @ \union {final}]
    /\ UNCHANGED <<items, captures, room, failure, inHand>>

EndedInsideANetwork(final) ==
    /\ final \in InsideANetwork
    /\ part' = [part EXCEPT !.inside = @ \union {final}]
    /\ UNCHANGED <<items, captures, room, failure, inHand>>

CannotBeAddressed(final) ==
    /\ final \notin InsideANetwork
    /\ Canon[final] = Unaddressable
    /\ part' = [part EXCEPT !.unaddressable = @ \union {final}]
    /\ UNCHANGED <<items, captures, room, failure, inHand>>

\* Status 400 and above.
HostRefused(final) ==
    /\ final \notin InsideANetwork
    /\ Canon[final] # Unaddressable
    /\ part' = [part EXCEPT !.refused = @ \union {Canon[final]}, !.spent = @ + 1]
    /\ UNCHANGED <<items, captures, room, failure, inHand>>

\* The page is filed; complete says whether its derived records were, too.
Filed(final, complete) ==
    /\ final \notin InsideANetwork
    /\ Canon[final] # Unaddressable
    /\ room > 0
    /\ room' = room - 1
    /\ items' = items \union {Canon[final]}
    /\ captures' = captures \union {Canon[final]}
    /\ part' = [part EXCEPT !.filed = @ \union {Canon[final]},
                            !.written = @ + 1, !.spent = @ + 1]
    /\ failure' = ~complete
    /\ UNCHANGED inHand

\* A write failed before the capture record was in place; the item record may
\* already have been.
NotFiled_CountedAsFiled(final, itemWritten) ==
    /\ final \notin InsideANetwork
    /\ Canon[final] # Unaddressable
    /\ room > 0
    /\ room' = room - 1
    /\ items' = IF itemWritten THEN items \union {Canon[final]} ELSE items
    /\ failure' = TRUE
    /\ inHand' = final
    /\ part' = [part EXCEPT !.filed = @ \union {Canon[final]}, !.spent = @ + 1]
    /\ UNCHANGED captures
NotFiled(final, itemWritten) ==
    /\ final \notin InsideANetwork
    /\ Canon[final] # Unaddressable
    /\ room > 0
    /\ room' = room - 1
    /\ items' = IF itemWritten THEN items \union {Canon[final]} ELSE items
    /\ failure' = TRUE
    /\ inHand' = final
    /\ UNCHANGED <<captures, part>>

\* What the pipeline does with the answer to a request for address u.
CapturePage(u) ==
    \/ NoResponse(u) /\ reported' = reported \union {u}
    \/ \E final \in LandsOn[u] :
           /\ reported' = reported \union {final}
           /\ \/ EndedInsideANetwork(final)
              \/ CannotBeAddressed(final)
              \/ HostRefused(final)
              \/ \E complete \in BOOLEAN : Filed(final, complete)
              \/ \E itemWritten \in BOOLEAN : NotFiled(final, itemWritten)

-----------------------------------------------------------------------------
(* A crawl, from the seed or from a listed address *)

\* The engine reports a page of the crawl.  A resume asks with a depth of
\* zero, so for its own address alone.
PageOfTheCrawl(u) ==
    /\ step \in {"crawl", "subcrawl"}
    /\ ~failure
    /\ u \notin reached
    /\ kind = "resume" => u = cur
    /\ CapturePage(u)
    /\ reached' = reached \union {u}
    /\ UNCHANGED <<owed, step, kind, run, settled, todo, waiting, cur, late, runs>>

\* How a crawl can have ended: stopped by the caller after a failed write, cut
\* by the deadline, or claiming nothing was left.
CrawlStops == (IF failure THEN {"caller"} ELSE {"exhausted"})
                \union (IF late THEN {"deadline"} ELSE {})

\* The links a crawl says it discovered and never fetched: at most one here,
\* and none once the crawl was served every page it was granted.
NeverFollowed ==
    {{}} \union {{a} : a \in {b \in Addresses \ reached : room > 0 /\ Canon[b] # Unaddressable}}

\* capture_seed_reporting returns, and the command goes on to the sitemap
\* unless a write failed.
SeedCrawlEnds ==
    /\ step = "crawl"
    /\ \E stop \in CrawlStops, lost \in NeverFollowed :
           /\ run' = Merge(run, [part EXCEPT !.never = @ \union lost, !.stopped = stop])
           /\ reported' = reported \union lost
    /\ part' = Fresh
    /\ step' = IF kind = "both" /\ ~failure THEN "sitemap" ELSE "owe"
    /\ reached' = {} /\ room' = 0
    /\ UNCHANGED <<archive, kind, settled, todo, waiting, cur, late, failure, inHand, runs>>

\* A sub-crawl returns to the list it was started from.
SubcrawlEnds_LinksDropped ==
    /\ step = "subcrawl"
    /\ \E stop \in CrawlStops, lost \in NeverFollowed :
           /\ part' = [part EXCEPT !.stopped = IF stop = "deadline" /\ ~failure THEN stop ELSE @]
           /\ reported' = reported \union lost
           /\ step' = IF failure \/ stop = "deadline" THEN "listed" ELSE "list"
    /\ reached' = {} /\ room' = 0 /\ cur' = NoAddress
    /\ UNCHANGED <<archive, kind, run, settled, todo, waiting, late, failure, inHand, runs>>
SubcrawlEnds ==
    /\ step = "subcrawl"
    /\ \E stop \in CrawlStops, lost \in NeverFollowed :
           /\ part' = [part EXCEPT !.never = @ \union lost,
                          !.stopped = IF stop = "deadline" /\ ~failure THEN stop ELSE @]
           /\ reported' = reported \union lost
           /\ step' = IF failure \/ stop = "deadline" THEN "listed" ELSE "list"
    /\ reached' = {} /\ room' = 0 /\ cur' = NoAddress
    /\ UNCHANGED <<archive, kind, run, settled, todo, waiting, late, failure, inHand, runs>>

\* The engine will not dial the listed address: that costs this one alone.
SubcrawlRefused ==
    /\ step = "subcrawl" /\ reached = {}
    /\ part' = [part EXCEPT !.failed = @ \union {cur}]
    /\ reported' = reported \union {cur}
    /\ step' = "list"
    /\ room' = 0 /\ cur' = NoAddress
    /\ UNCHANGED <<archive, kind, run, settled, todo, waiting, reached, late, failure,
                   inHand, runs>>

-----------------------------------------------------------------------------
(* capture_sitemap_reporting: listed addresses, one after another *)

\* A phase begins over the addresses listed.
StartList(listed) ==
    /\ todo' = listed
    /\ settled' = Settled(run)
    /\ step' = "list"

\* sitemap_phase: a run with nothing left to spend does not read the listing.
\* Without a crawl the seed leads the list, so that list is never empty.
ReadSitemap ==
    /\ step = "sitemap"
    /\ \/ /\ BoundReached(run.spent)
          /\ step' = "owe"
          /\ UNCHANGED <<todo, settled>>
       \/ /\ ~BoundReached(run.spent)
          /\ \E listed \in SUBSET Addresses \ {{}} : StartList(listed)
       \/ /\ ~BoundReached(run.spent) /\ kind = "both"
          /\ step' = "owe"
          /\ UNCHANGED <<todo, settled>>
    /\ UNCHANGED <<archive, kind, run, part, waiting, crawl, late, failure, inHand,
                   reported, runs>>

\* capture_owed_reporting: one origin after another, while there is anything
\* left to spend.
NextOrigin ==
    /\ step = "origins"
    /\ \/ /\ waiting = {} \/ BoundReached(run.spent)
          /\ step' = "owe"
          /\ UNCHANGED <<todo, settled, waiting>>
       \/ /\ ~BoundReached(run.spent)
          /\ \E a \in waiting :
                LET group == {b \in waiting : Origin[b] = Origin[a]}
                IN StartList(group) /\ waiting' = waiting \ group
    /\ UNCHANGED <<archive, kind, run, part, crawl, late, failure, inHand, reported, runs>>

\* A bound of the run is spent before the next address is looked at.
ListReachesABound ==
    /\ step = "list" /\ todo # {} /\ BoundReached(SpentSoFar)
    /\ part' = [part EXCEPT !.stopped = Bound(SpentSoFar)]
    /\ step' = "listed"
    /\ UNCHANGED <<archive, kind, run, settled, todo, waiting, crawl, late, failure,
                   inHand, reported, runs>>

SkipListed(u) ==
    /\ step = "list" /\ u \in todo /\ ~BoundReached(SpentSoFar)
    /\ AlreadyFiled(u)
    /\ todo' = todo \ {u}
    /\ UNCHANGED <<archive, step, kind, run, part, settled, waiting, crawl, late,
                   failure, inHand, reported, runs>>

\* The address is crawled from, or without a depth fetched on its own.
AskForListed(u) ==
    /\ step = "list" /\ u \in todo /\ ~BoundReached(SpentSoFar)
    /\ ~AlreadyFiled(u)
    /\ todo' = todo \ {u}
    /\ cur' = u /\ room' = RemainingPages(SpentSoFar)
    /\ step' = IF kind = "sitemap" THEN "fetch" ELSE "subcrawl"
    /\ UNCHANGED <<archive, kind, run, part, settled, waiting, reached, late, failure,
                   inHand, reported, runs>>

FetchListed ==
    /\ step = "fetch"
    /\ CapturePage(cur)
    /\ step' = IF failure' THEN "listed" ELSE "list"
    /\ cur' = NoAddress
    /\ UNCHANGED <<owed, kind, run, settled, todo, waiting, reached, late, runs>>

\* The phase is folded into the run; a resume goes on to the next origin
\* unless a write failed.
ListEnds ==
    /\ step = "listed" \/ (step = "list" /\ todo = {})
    /\ run' = Merge(run, part)
    /\ part' = Fresh
    /\ step' = IF kind = "resume" /\ ~failure THEN "origins" ELSE "owe"
    /\ UNCHANGED <<archive, kind, settled, todo, waiting, crawl, late, failure, inHand,
                   reported, runs>>

-----------------------------------------------------------------------------
(* The command *)

StartRun(k) ==
    /\ step \in {"idle", "done"} /\ runs < MaxRuns
    /\ kind' = k /\ runs' = runs + 1
    /\ run' = Fresh /\ part' = Fresh /\ settled' = {} /\ todo' = {}
    /\ late' = FALSE /\ failure' = FALSE /\ inHand' = NoAddress
    /\ reported' = {} /\ reached' = {} /\ cur' = NoAddress
    /\ room' = IF k \in {"crawl", "both"} THEN MaxPages ELSE 0
    /\ waiting' = IF k = "resume" THEN Resumable ELSE {}
    /\ step' = CASE k \in {"crawl", "both"} -> "crawl"
                 [] k = "sitemap" -> "sitemap"
                 [] k = "resume" -> "origins"
    /\ UNCHANGED archive

\* write_owed, attempted whatever became of the run before it.
WriteOwed ==
    /\ step = "owe"
    /\ owed' = Fold(run)
    /\ step' = "done"
    /\ UNCHANGED <<items, captures, kind, run, part, settled, todo, waiting, crawl, late,
                   failure, inHand, reported, runs>>

TimePasses ==
    /\ HasDeadline /\ step \notin {"idle", "done", "owe"} /\ ~late
    /\ late' = TRUE
    /\ UNCHANGED <<archive, step, kind, run, part, settled, todo, waiting, crawl, failure,
                   inHand, reported, runs>>

\* The process is killed, or owed.json cannot be written.  A page it was
\* filing may be left with its item record alone.
Killed ==
    /\ step \notin {"idle", "done"}
    /\ \/ UNCHANGED items
       \/ /\ step \in {"crawl", "subcrawl", "fetch"}
          /\ \E p \in Pages : items' = items \union {p}
    /\ step' = "idle"
    /\ run' = Fresh /\ part' = Fresh /\ settled' = {} /\ todo' = {} /\ waiting' = {}
    /\ reached' = {} /\ room' = 0 /\ cur' = NoAddress
    /\ late' = FALSE /\ failure' = FALSE /\ inHand' = NoAddress
    /\ reported' = {}
    /\ UNCHANGED <<captures, owed, kind, runs>>

Next ==
    \/ \E k \in Kinds : StartRun(k)
    \/ \E u \in Addresses : PageOfTheCrawl(u)
    \/ SeedCrawlEnds
    \/ SubcrawlEnds
    \/ SubcrawlRefused
    \/ ReadSitemap
    \/ NextOrigin
    \/ ListReachesABound
    \/ \E u \in todo : SkipListed(u)
    \/ \E u \in todo : AskForListed(u)
    \/ FetchListed
    \/ ListEnds
    \/ WriteOwed
    \/ TimePasses
    \/ Killed

Spec == Init /\ [][Next]_vars

-----------------------------------------------------------------------------
(* Correctness *)

RunRecord ==
    [filed : SUBSET Pages, refused : SUBSET Pages, failed : SUBSET Addresses,
     unaddressable : SUBSET Addresses, inside : SUBSET Addresses, never : SUBSET Addresses,
     written : Nat, spent : Nat,
     stopped : {"exhausted", "deadline", "page-ceiling", "caller"}]

ArchiveTypeOK ==
    /\ items \subseteq Pages /\ captures \subseteq items
    /\ DOMAIN owed \subseteq Addresses /\ owed \in [DOMAIN owed -> Reasons]

RecordsTypeOK ==
    /\ run \in RunRecord /\ part \in RunRecord
    /\ run.filed \union part.filed \subseteq captures
    /\ settled \subseteq Pages

CommandTypeOK ==
    /\ step \in {"idle", "crawl", "sitemap", "origins", "list", "subcrawl", "fetch",
                 "listed", "owe", "done"}
    /\ kind \in {"crawl", "sitemap", "both", "resume"}
    /\ todo \subseteq Addresses /\ waiting \subseteq Addresses
    /\ reached \subseteq Addresses /\ room \in 0..MaxPages
    /\ cur \in Addresses \union {NoAddress}
    /\ step \in {"subcrawl", "fetch"} => cur # NoAddress
    /\ late \in BOOLEAN /\ failure \in BOOLEAN
    /\ inHand \in Addresses \union {NoAddress}
    /\ reported \subseteq Addresses
    /\ runs \in 0..MaxRuns

\* Every variable holds what the code can put in it; the pages a run says it
\* filed have a capture, and a capture has an item.
TypeOK == ArchiveTypeOK /\ RecordsTypeOK /\ CommandTypeOK

\* Nothing owed is forgotten: whatever run, phase, failure or kill comes after
\* it, an address leaves owed.json or changes its reason only once the archive
\* holds a capture of it (write_owed merges, and drops by archived_urls).
DebtIsKept ==
    [][\A a \in DOMAIN owed :
           (a \in DOMAIN owed' /\ owed'[a] = owed[a]) \/ a \in captures]_vars

\* A run that ends by itself accounts on disk for every page and lost link the
\* engine told it of, over all its phases: it is filed under its canonical
\* address, or owed.  The one exception is the page whose own write failed.
EveryLossIsOwed ==
    step = "done" =>
        \A a \in reported \ {inHand} :
            \/ Canon[a] \in run.filed
            \/ {a, Canon[a]} \intersect DOMAIN owed # {}

\* A page this run filed, and did not also lose, is no longer owed.
PaidDebtIsDropped ==
    step = "done" => (run.filed \ Losses(run)) \intersect DOMAIN owed = {}

\* A listed address is not asked for once this run filed it or was refused it,
\* under any spelling and whichever phase, origin or entry of a list did so
\* (already_filed and the snapshot each phase is handed).  It says nothing of
\* what a sub-crawl follows from a listed address: the engine keeps no record
\* across crawls, and may ask there for a page that was answered before.
NotAskedAgain ==
    [][\A u \in {cur'} \ {cur, NoAddress} :
           \A r \in {run, part} : Canon[u] \notin r.filed \union r.refused]_vars

\* --max-pages bounds the run, not one phase of it: the pages its phases
\* archive, however they divide, stay within the ceiling.
RunStaysWithinMaxPages == run.written + part.written <= MaxPages

\* docs/storage-model.md: a refused entry is guaranteed to be dropped once it
\* is archived.
ArchivedIsNotOwedAsRefused ==
    step = "done" => \A a \in DOMAIN owed \intersect run.filed : owed[a] # "refused"
=============================================================================
