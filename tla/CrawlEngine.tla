----------------------------- MODULE CrawlEngine -----------------------------
(***************************************************************************)
(* One crawl of a seed by the adapter over the vendored crawler            *)
(* (crawl/spider_engine.rs, crawl_seed).  The crawler fetches concurrently *)
(* and broadcasts what it gets into a queue of fixed size that overwrites  *)
(* its oldest page; the adapter hands the pages to the caller one by one,  *)
(* while the deadline, the caller and the end of the crawl race.  A crawl  *)
(* that claims to be exhausted is compared with the links its pages named, *)
(* and what the crawler lost is fetched directly.  The crawler itself is   *)
(* external: an action of it is what the adapter relies on.                *)
(***************************************************************************)
EXTENDS Integers, Sequences, SequencesExt, FiniteSets

CONSTANTS
    Pages,           \* addresses of the seed's host, as depth_key spells them
    Start,           \* the seed's own
    Links,           \* Links[p]: the addresses p names
    Allowed,         \* what this project's RobotRules let through
    EngineAllowed,   \* what the crawler's own matcher lets through
    DeclaresBase,    \* pages with an absolute <base href>
    MaxPages, MaxDepth, Concurrency,   \* --max-pages, --max-depth, --concurrency
    QueueFactor,     \* pages in the queue per concurrent fetch, 4 in the code
    HasDeadline

ASSUME SeedAssumption ==
    /\ IsFiniteSet(Pages) /\ Start \in Pages /\ Links \in [Pages -> SUBSET Pages]
    /\ Allowed \subseteq Pages /\ EngineAllowed \subseteq Pages
    /\ DeclaresBase \subseteq Pages
    /\ MaxPages \in Nat \ {0} /\ MaxDepth \in Nat /\ Concurrency \in Nat
    /\ QueueFactor \in Nat \ {0} /\ HasDeadline \in BOOLEAN

VARIABLES
    frontier, inflight, asked,   \* the crawler: queued, being fetched, ever fetched
    queue,       \* the broadcast queue, oldest first
    lost,        \* pages it overwrote and has not reported yet
    depths,      \* hops from the seed of every link found in scope
    fetched,     \* addresses handed over, or to be: RobotRules let them through
    step,        \* where crawl_seed is
    stopped,     \* outcome.stopped
    dropped,     \* outcome.pages_dropped
    expired,     \* the deadline has passed
    todo, seen, total, recovered, missing,   \* recover_lost_links
    calls, said, \* what the caller was handed, and that it asked to stop
    sent, taken, \* history: pages put into the queue, and read from it
    aimed,       \* history: addresses the adapter asked for itself
    before       \* history: pages fetched when recovery began

crawler == <<frontier, inflight, asked>>
pages == <<queue, lost, sent>>
recovery == <<todo, seen, total, recovered, missing, before>>
caller == <<calls, said>>
vars == <<crawler, pages, depths, fetched, step, stopped, dropped, expired,
          recovery, caller, taken, aimed>>

-----------------------------------------------------------------------------
(* Links and depths *)

\* A page of status under 400, a 429 that outlasted its retries, any other
\* status, no response.  Only the first names links worth following.
Answers == {"page", "refused", "error", "silent"}

Hops(p) == IF p \in DOMAIN depths THEN depths[p] ELSE 0

Expands_AtTheLimit(d) == d <= MaxDepth                                       \* mutant
Expands(d) == d < MaxDepth

Recorded_Backwards(p, d) ==                                                  \* mutant
    [q \in DOMAIN depths \union Links[p] |-> IF q \in DOMAIN depths THEN depths[q] ELSE d - 1]

\* record_discovered_links: the shorter of two distances is kept.
Recorded(p, d) ==
    [q \in DOMAIN depths \union Links[p] |->
        IF q \in DOMAIN depths /\ (q \notin Links[p] \/ depths[q] <= d + 1)
        THEN depths[q] ELSE d + 1]

-----------------------------------------------------------------------------
(* The crawler *)

FetchConcurrency == IF Concurrency = 0 THEN 1 ELSE Concurrency
Capacity == FetchConcurrency * QueueFactor

EngineFetch(p) ==
    /\ step = "crawl" /\ p \in frontier
    /\ Cardinality(inflight) < FetchConcurrency /\ Cardinality(asked) < MaxPages
    /\ frontier' = frontier \ {p} /\ inflight' = inflight \union {p}
    /\ asked' = asked \union {p}
    /\ UNCHANGED <<pages, depths, fetched, step, stopped, dropped, expired,
                   recovery, caller, taken, aimed>>

\* The crawler calls hop_depth_guard with the page, queues its links if the
\* guard lets it, and broadcasts the page.  Links of a page that declares a
\* base are queued and not recorded.
EngineAnswer(p, a) ==
    /\ p \in inflight /\ step \notin {"recover", "done"}
    /\ inflight' = inflight \ {p}
    /\ LET follow == a = "page" /\ Expands(Hops(p)) IN
       /\ frontier' = IF follow THEN frontier \union ((Links[p] \intersect EngineAllowed) \ asked)
                      ELSE frontier
       /\ depths' = IF follow /\ p \notin DeclaresBase THEN Recorded(p, Hops(p)) ELSE depths
    /\ queue' = Append(IF Len(queue) = Capacity THEN Tail(queue) ELSE queue,
                       [page |-> p, answer |-> a])
    /\ lost' = IF Len(queue) = Capacity THEN lost + 1 ELSE lost
    /\ sent' = sent + 1
    /\ UNCHANGED <<asked, fetched, step, stopped, dropped, expired, recovery, caller,
                   taken, aimed>>

\* A crawl that was cancelled leaves tasks that may end without a page.
EngineAborts(p) ==
    /\ p \in inflight /\ step \in {"flush", "stopped"}
    /\ inflight' = inflight \ {p}
    /\ UNCHANGED <<frontier, asked, pages, depths, fetched, step, stopped, dropped,
                   expired, recovery, caller, taken, aimed>>

\* The crawl future ends with nothing in flight: the frontier empty, or the
\* page limit met, or, in the frontier's own race, one batch still queued.
CrawlFinishes ==
    /\ step = "crawl" /\ inflight = {} /\ (frontier = {} \/ asked # {})
    /\ step' = "drain"
    /\ UNCHANGED <<crawler, pages, depths, fetched, stopped, dropped, expired,
                   recovery, caller, taken, aimed>>

-----------------------------------------------------------------------------
(* Pages handed to the caller *)

Admitted(p) == p \in Allowed

Reading == step \in {"crawl", "drain", "flush"}

StopReason_DrainIsExhausted(halt) ==                                         \* mutant
    IF halt /\ step = "crawl" THEN "caller" ELSE stopped
StopReason(halt) == IF halt /\ step # "flush" THEN "caller" ELSE stopped

\* on_page: handed over, and the caller answers.
HandOver(halt) ==
    /\ calls' = calls + 1
    /\ said' = halt
    /\ step' = IF halt THEN "stopped" ELSE step
    /\ stopped' = StopReason(halt)

\* forward_after_rate_limit_backoff: a page robots.txt refuses goes no
\* further; one answered 429 is waited out and asked for again, and if that
\* brings it, the links it names are recorded where the crawler would have.
Receive(answer, halt) ==
    /\ Reading /\ lost = 0 /\ queue # <<>>
    /\ queue' = Tail(queue) /\ taken' = taken + 1
    /\ LET p == Head(queue).page
           first == Head(queue).answer IN
       \/ /\ ~Admitted(p) /\ answer = first /\ ~halt
          /\ UNCHANGED <<depths, fetched, step, stopped, caller, aimed>>
       \/ /\ Admitted(p)
          /\ answer = first \/ first = "refused"
          /\ fetched' = fetched \union {p}
          /\ aimed' = IF first = "refused" THEN aimed \union {p} ELSE aimed
          /\ depths' = IF first = "refused" /\ answer = "page" /\ Expands(Hops(p))
                       THEN Recorded(p, Hops(p)) ELSE depths
          /\ HandOver(halt)
    /\ UNCHANGED <<crawler, lost, sent, dropped, expired, recovery>>

\* RecvError::Lagged: the overwritten pages are counted, the rest goes on.
Lagged ==
    /\ Reading /\ lost > 0
    /\ dropped' = dropped + lost /\ lost' = 0
    /\ UNCHANGED <<crawler, queue, sent, depths, fetched, step, stopped, expired,
                   recovery, caller, taken, aimed>>

TimeExpires ==
    /\ HasDeadline /\ ~expired /\ step # "done"
    /\ expired' = TRUE
    /\ UNCHANGED <<crawler, pages, depths, fetched, step, stopped, dropped,
                   recovery, caller, taken, aimed>>

\* budget_spent wins the race: only what is already queued is handed over.
DeadlineFires ==
    /\ step = "crawl" /\ expired
    /\ step' = "flush" /\ stopped' = "deadline"
    /\ UNCHANGED <<crawler, pages, depths, fetched, dropped, expired,
                   recovery, caller, taken, aimed>>

Unread_WithoutTheOverwritten == Len(queue)                                   \* mutant
Unread == Len(queue) + lost

\* The call returns after a stop: what the caller left unread is counted,
\* which after a recovery is nothing.
CountUnread ==
    /\ step = "stopped"
    /\ dropped' = dropped + Unread
    /\ queue' = <<>> /\ lost' = 0 /\ step' = "done"
    /\ UNCHANGED <<crawler, sent, depths, fetched, stopped, expired, recovery, caller,
                   taken, aimed>>

FlushEnds ==
    /\ step = "flush" /\ queue = <<>> /\ lost = 0
    /\ step' = "done"
    /\ UNCHANGED <<crawler, pages, depths, fetched, stopped, dropped, expired,
                   recovery, caller, taken, aimed>>

-----------------------------------------------------------------------------
(* What the crawler lost *)

\* frontier_claim_is_trustworthy.
Trustworthy == stopped = "exhausted" /\ dropped = 0

\* links_discovered_but_never_fetched, with the depth each was found at.
Candidates ==
    IF Cardinality(fetched) >= MaxPages THEN {}
    ELSE {p \in DOMAIN depths : p # Start /\ p \notin fetched /\ p \in Allowed}

AlreadyFetched_Nothing == 0                                                  \* mutant
AlreadyFetched == Cardinality(fetched)

SenderDropped_Never == FALSE                                                 \* mutant
SenderDropped == step = "drain"

\* The queue is closed and empty: recovery begins, or there is none.
QueueCloses ==
    /\ SenderDropped /\ queue = <<>> /\ lost = 0
    /\ \/ /\ Trustworthy
          /\ step' = "recover"
          /\ todo' = SetToSeq({[page |-> p, depth |-> depths[p]] : p \in Candidates})
          /\ seen' = Candidates
          /\ total' = AlreadyFetched /\ before' = Cardinality(fetched)
       \/ /\ ~Trustworthy
          /\ step' = "done"
          /\ UNCHANGED <<todo, seen, total, before>>
    /\ UNCHANGED <<crawler, pages, depths, fetched, stopped, dropped, expired,
                   recovered, missing, caller, taken, aimed>>

\* A child is queued once, and only if robots.txt lets it through.
NewChildren_Unasked(p) == Links[p] \ seen                                    \* mutant
NewChildren(p) == (Links[p] \ seen) \intersect Allowed

ChildrenOf_Leaf(p, d) == <<>>                                                \* mutant
ChildrenOf(p, d) == SetToSeq({[page |-> q, depth |-> d + 1] : q \in NewChildren(p)})

\* recover_lost_links, one candidate: its retries and its waits are one
\* fetch.  Only an answer under 400 counts; the caller may stop on any.
Recover(answer, halt) ==
    /\ step = "recover" /\ todo # <<>> /\ total < MaxPages /\ ~expired
    /\ LET p == Head(todo).page
           d == Head(todo).depth
           won == answer = "page" IN
       /\ aimed' = aimed \union {p}
       /\ fetched' = fetched \union {p}
       /\ total' = IF won THEN total + 1 ELSE total
       /\ recovered' = IF won THEN recovered + 1 ELSE recovered
       /\ depths' = IF won /\ Expands(d) THEN Recorded(p, d) ELSE depths
       /\ seen' = IF won /\ Expands(d) THEN seen \union Links[p] ELSE seen
       /\ todo' = Tail(todo) \o IF won /\ Expands(d) THEN ChildrenOf(p, d) ELSE <<>>
       /\ missing' = missing \union (IF won THEN {} ELSE {p})
                             \union IF halt THEN {todo'[i].page : i \in DOMAIN todo'} ELSE {}
    /\ HandOver(halt)
    /\ UNCHANGED <<crawler, pages, dropped, expired, before, taken>>

\* Nothing left, the page ceiling, or the deadline; at the last two what is
\* still queued is left unreported.
RecoveryEnds ==
    /\ step = "recover"
    /\ todo = <<>> \/ total >= MaxPages \/ expired
    /\ step' = "done"
    /\ stopped' = IF todo # <<>> /\ total < MaxPages THEN "deadline" ELSE stopped
    /\ UNCHANGED <<crawler, pages, depths, fetched, dropped, expired, recovery,
                   caller, taken, aimed>>

-----------------------------------------------------------------------------

Init ==
    /\ frontier = {Start} /\ inflight = {} /\ asked = {}
    /\ queue = <<>> /\ lost = 0 /\ sent = 0 /\ taken = 0
    /\ depths = [p \in {Start} |-> 0] /\ fetched = {} /\ aimed = {}
    /\ step = "crawl" /\ stopped = "exhausted" /\ dropped = 0 /\ expired = FALSE
    /\ todo = <<>> /\ seen = {} /\ total = 0 /\ recovered = 0 /\ missing = {}
    /\ before = 0 /\ calls = 0 /\ said = FALSE

Adapter ==
    \/ \E a \in Answers, halt \in BOOLEAN : Receive(a, halt) \/ Recover(a, halt)
    \/ Lagged \/ DeadlineFires \/ CountUnread \/ FlushEnds \/ QueueCloses \/ RecoveryEnds

Crawler ==
    \/ \E p \in Pages : EngineFetch(p) \/ EngineAborts(p)
    \/ \E p \in Pages, a \in Answers : EngineAnswer(p, a)
    \/ CrawlFinishes

Next == Adapter \/ Crawler \/ TimeExpires

\* The runtime polls every future that is ready, and a request ends within
\* its timeout; nothing is assumed of the deadline.
Spec == Init /\ [][Next]_vars /\ WF_vars(Adapter) /\ WF_vars(Crawler)

-----------------------------------------------------------------------------
(* Properties *)

\* Type correctness.
TypeOK ==
    /\ frontier \subseteq Pages /\ inflight \subseteq Pages /\ asked \subseteq Pages
    /\ queue \in Seq([page : Pages, answer : Answers]) /\ lost \in Nat
    /\ sent \in Nat /\ taken \in Nat /\ aimed \subseteq Pages
    /\ DOMAIN depths \subseteq Pages /\ \A p \in DOMAIN depths : depths[p] \in Nat
    /\ fetched \subseteq Pages /\ dropped \in Nat /\ expired \in BOOLEAN
    /\ step \in {"crawl", "drain", "flush", "stopped", "recover", "done"}
    /\ stopped \in {"exhausted", "deadline", "caller"}
    /\ todo \in Seq([page : Pages, depth : Nat]) /\ seen \subseteq Pages
    /\ total \in Nat /\ recovered \in Nat /\ missing \subseteq Pages /\ before \in Nat
    /\ calls \in Nat /\ said \in BOOLEAN

\* Whatever ends the crawl, a page whose fetch was paid for was read from the
\* queue or is in pages_dropped: overwritten, left by the caller, or cut off.
EveryPageSentIsAnswered == step = "done" => sent = taken + dropped

\* A crawl reported as exhausted, with nothing dropped and its ceiling not
\* met, has asked for every link its pages named that robots.txt allows, or
\* says which it never followed.
LostLinksAreAnswered ==
    step = "done" /\ stopped = "exhausted" /\ dropped = 0 /\ total < MaxPages =>
        \A p \in DOMAIN depths :
            p = Start \/ p \notin Allowed \/ p \in asked \/ p \in aimed \/ p \in missing

\* What recovery adds stays inside --max-pages together with what the crawl
\* had already fetched.
CeilingCoversRecovery == recovered > 0 => before + recovered <= MaxPages

\* A page robots.txt refuses is never delivered, and never asked for by the
\* adapter itself, in the crawl, in a wait, or behind a recovered page.
RefusedIsNeverDelivered == fetched \subseteq Allowed /\ aimed \subseteq Allowed

\* At most n links lead from the seed to p.
Within(p, n) ==
    \E k \in 0 .. n : \E walk \in [0 .. k -> Pages] :
        /\ walk[0] = Start /\ walk[k] = p
        /\ \A i \in 1 .. k : walk[i] \in Links[walk[i - 1]]

Near == {p \in Pages : Within(p, MaxDepth)}

\* No page further than --max-depth hops is asked for, by the crawler or by
\* recovery, whatever order pages arrive in.  A page that declares a base is
\* the documented exception: its links are taken as one hop from the seed.
DepthIsKept == DeclaresBase \intersect asked = {} => asked \union aimed \subseteq Near

\* Recovery keeps the bounds the crawl itself was given.
RecoveryKeepsTheBounds == CeilingCoversRecovery /\ DepthIsKept

Contract == INSTANCE EngineContract WITH ended <- IF step = "done" THEN stopped ELSE "running"

\* The adapter is an engine as the archive is promised one: nothing handed
\* over after a stop, and the reason it ends is the one that ended it.
ImplementsEngineContract == Contract!Spec

\* Every crawl ends, with a deadline or without.
EngineEnds == <>(step = "done")
==============================================================================
