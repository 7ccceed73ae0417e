------------------------------ MODULE RateLimit ------------------------------
(***************************************************************************)
(* Waiting out a 429 (crawl/boundary.rs, wait_out_rate_limit and the       *)
(* RateLimitMemory it keeps): how long a refusing address is waited for,   *)
(* when its server is given up on, and the pace owed to the server after.  *)
(* One call at a time, on the thread that drains the run.  Time passes     *)
(* only in sleeps and in fetches; a sleep takes exactly what it was asked. *)
(***************************************************************************)
EXTENDS Integers

CONSTANTS
    Hosts,         \* origins, what rate_limit_key makes of an address
    Deadlines,     \* the budgets a run may have been given
    NoDeadline,    \* a run with none
    Floor,         \* the pace the run already honours, its delay
    BaseBackoff,   \* RATE_LIMIT_BASE_BACKOFF
    MaxBackoff,    \* RATE_LIMIT_MAX_BACKOFF
    MaxDoublings,  \* the cap on the exponent
    Share,         \* RATE_LIMIT_SHARE_OF_THE_BUDGET
    RetryAfters,   \* waits a Retry-After may ask for, 0 when there is none
    FetchTimes,    \* how long a fetch may take
    SubCrawls,     \* whether a caller opens crawls of its own on what is left
    Horizon        \* bound: where the clock and sums of waits stop, past every deadline

ASSUME BackoffAssumption ==
    /\ BaseBackoff \in Nat \ {0} /\ MaxBackoff \in Nat \ {0}
    /\ Floor \in Nat /\ MaxDoublings \in Nat /\ Share \in Nat \ {0}
    /\ RetryAfters \subseteq Nat /\ FetchTimes \subseteq Nat
    /\ \A n \in 0 .. MaxDoublings : BaseBackoff * 2 ^ n \in Nat   \* so it is not checked
ASSUME HorizonAssumption ==
    /\ Horizon \in Nat /\ SubCrawls \in BOOLEAN
    /\ NoDeadline \notin Int
    /\ \A d \in Deadlines \ {NoDeadline} : d \in Nat /\ d < Horizon

VARIABLES
    deadline,   \* the run's budget, counted from clock 0
    clock,      \* time since the run began
    started,    \* when the crawl whose budget is being spent began
    budget,     \* what that crawl was handed
    refusals,   \* consecutive_refusals, read no higher than MaxDoublings
    givenUp,    \* given_up_on
    pc,         \* where the call is
    host,       \* the server of the address in hand
    begun,      \* this_address_started
    asked,      \* asked_again
    answer,     \* what the last request came back as
    header,     \* its Retry-After
    slept,      \* history: what has been waited for this address
    lastRetry   \* history: when a server last answered a request made here

call == <<pc, host, begun, asked, answer, header, slept>>
vars == <<deadline, clock, started, budget, refusals, givenUp, call, lastRetry>>

Never == -1

\* A page, a status that refuses for another reason or no response, and a 429.
Answers == {"archived", "failed", "refused"}

-----------------------------------------------------------------------------
(* The policy *)

Least(a, b) == IF a <= b THEN a ELSE b
Greatest(a, b) == IF a >= b THEN a ELSE b

\* rate_limit_backoff.
Backoff(consecutive, retryAfter) ==
    LET grown == Least(BaseBackoff * 2 ^ Least(consecutive, MaxDoublings), MaxBackoff)
    IN  Greatest(Greatest(grown, Floor), retryAfter)

FitsTheRun(wait) == deadline # NoDeadline /\ clock - started + wait < budget

\* fits, and what it would say of an address that has spent nothing yet.
FitsTheShare(spent, wait) == FitsTheRun(wait) /\ Share * (spent + wait) <= budget
Fits_EachWaitAlone(wait) == FitsTheShare(0, wait)              \* mutants
Fits_NothingBoundsIt(wait) ==
    deadline # NoDeadline => FitsTheShare(clock - begun, wait)
Fits(wait) == FitsTheShare(clock - begun, wait)
AFreshAddressCouldWait(wait) == FitsTheShare(0, wait)

\* The server itself is out of reach: not this address, and not this header.
GivesUp_OnWhatThisAddressSpent ==                              \* mutant
    deadline # NoDeadline /\ ~ Fits(Backoff(refusals[host], 0))
GivesUp == deadline # NoDeadline /\ ~ AFreshAddressCouldWait(Backoff(refusals[host], 0))

\* The gap owed between the last request made here and the caller's next.
FloorOwed_LeftToTheCaller == 0                                 \* mutant
FloorOwed == IF asked /\ FitsTheRun(Floor) THEN Floor ELSE 0

Passed(t) == clock' = Least(clock + t, Horizon)

-----------------------------------------------------------------------------
Init ==
    /\ deadline \in Deadlines
    /\ budget = deadline
    /\ clock = 0 /\ started = 0 /\ begun = 0
    /\ refusals = [h \in Hosts |-> 0]
    /\ givenUp = {}
    /\ pc = "idle" /\ host \in Hosts /\ asked = FALSE
    /\ answer = "archived" /\ header = 0
    /\ slept = 0
    /\ lastRetry = [h \in Hosts |-> Never]

\* A sub-crawl is handed what is left of the run (remaining_deadline) and
\* keeps a clock of its own; the memory is the run's.
BeginCrawl_HandsOutTheWholeBudget ==                          \* mutant
    /\ SubCrawls /\ pc = "idle" /\ deadline # NoDeadline
    /\ started < clock /\ clock < deadline
    /\ started' = clock
    /\ budget' = deadline
    /\ UNCHANGED <<deadline, clock, refusals, givenUp, call, lastRetry>>

BeginCrawl ==
    /\ SubCrawls /\ pc = "idle" /\ deadline # NoDeadline
    /\ started < clock /\ clock < deadline
    /\ started' = clock
    /\ budget' = deadline - clock
    /\ UNCHANGED <<deadline, clock, refusals, givenUp, call, lastRetry>>

\* A caller asks for an address and hands over what came back, past its budget
\* too when it drains a queue: only a 429 from a server still waited for is
\* waited out.
FirstAnswer(h) ==
    /\ pc = "idle"
    /\ \E t \in FetchTimes, a \in Answers, r \in RetryAfters :
        /\ Passed(t)
        /\ IF a = "refused" /\ h \notin givenUp
           THEN /\ pc' = "refused" /\ host' = h /\ begun' = clock'
                /\ answer' = a /\ header' = r
                /\ UNCHANGED <<asked, slept>>
           ELSE UNCHANGED call
    /\ lastRetry' = [lastRetry EXCEPT ![h] = Never]
    /\ UNCHANGED <<deadline, started, budget, refusals, givenUp>>

\* The wait fits: it is slept, and counted before the address is asked again.
WaitOut ==
    LET wait == Backoff(refusals[host], header)
    IN  /\ pc = "refused" /\ Fits(wait)
        /\ Passed(wait)
        /\ asked' = TRUE
        /\ refusals' = [refusals EXCEPT ![host] = Least(@ + 1, MaxDoublings)]
        /\ slept' = Least(slept + wait, Horizon)
        /\ pc' = "asking"
        /\ UNCHANGED <<deadline, started, budget, givenUp, host, begun, answer,
                       header, lastRetry>>

AskAgain ==
    /\ pc = "asking"
    /\ \E t \in FetchTimes, a \in Answers, r \in RetryAfters :
        /\ Passed(t)
        /\ answer' = a
        /\ header' = IF a = "refused" THEN r ELSE 0
        /\ pc' = IF a = "refused" THEN "refused" ELSE "leaving"
    /\ lastRetry' = [lastRetry EXCEPT ![host] = clock']
    /\ UNCHANGED <<deadline, started, budget, refusals, givenUp, host, begun,
                   asked, slept>>

\* The wait does not fit: the address is left, and perhaps its server.
StopWaiting ==
    /\ pc = "refused" /\ ~ Fits(Backoff(refusals[host], header))
    /\ givenUp' = IF GivesUp THEN givenUp \union {host} ELSE givenUp
    /\ pc' = "leaving"
    /\ UNCHANGED <<deadline, clock, started, budget, refusals, host, begun,
                   asked, answer, header, slept, lastRetry>>

\* What the call knew of its address ends with it.
Returned ==
    /\ pc' = "idle" /\ host' = host /\ begun' = 0 /\ asked' = FALSE
    /\ answer' = "archived" /\ header' = 0 /\ slept' = 0

\* The floor is paid when a request was made here and the run has room for it,
\* and a page forgives the server its refusals.
Leave ==
    /\ pc = "leaving"
    /\ Passed(FloorOwed)
    /\ refusals' = IF answer = "archived" THEN [refusals EXCEPT ![host] = 0]
                                          ELSE refusals
    /\ Returned
    /\ UNCHANGED <<deadline, started, budget, givenUp, lastRetry>>

Call == WaitOut \/ AskAgain \/ StopWaiting \/ Leave
Next == BeginCrawl \/ (\E h \in Hosts : FirstAnswer(h)) \/ Call

\* The loop runs to its end and every fetch in it returns: the engine bounds
\* each request by its own timeout.  Nothing obliges a caller to ask.
Spec == Init /\ [][Next]_vars /\ WF_vars(Call)

-----------------------------------------------------------------------------
(* Properties *)

\* Type correctness, and the one end every crawl of the run shares.
TypeOK ==
    /\ deadline \in Deadlines
    /\ clock \in 0 .. Horizon /\ started \in 0 .. Horizon /\ begun \in 0 .. Horizon
    /\ IF deadline = NoDeadline THEN budget = NoDeadline
       ELSE budget \in Nat /\ started + budget = deadline
    /\ refusals \in [Hosts -> 0 .. MaxDoublings]
    /\ givenUp \subseteq Hosts
    /\ pc \in {"idle", "refused", "asking", "leaving"}
    /\ host \in Hosts /\ asked \in BOOLEAN
    /\ answer \in Answers /\ header \in RetryAfters \union {0}
    /\ slept \in Nat
    /\ lastRetry \in [Hosts -> Nat \union {Never}]

\* However many times one address refuses, and whatever its headers ask, what
\* is slept for it stays within its share of the budget and ends before the
\* budget does; a run with no deadline sleeps for nobody.
WaitsStayInTheShare ==
    IF deadline = NoDeadline THEN slept = 0
    ELSE /\ Share * slept <= budget
         /\ pc = "asking" => clock < deadline

\* A server is given up on only where no address on it could ever be waited
\* for again, and from then on none is: one long Retry-After, or one address
\* that spent its share, does not cost the server.
GivenUpIsBeyondReach ==
    /\ \A h \in givenUp : ~ AFreshAddressCouldWait(Backoff(refusals[h], 0))
    /\ pc \in {"refused", "asking"} => host \notin givenUp

\* The caller's first request to a server after one made here comes no sooner
\* than the run's pace, unless the pace itself would outlast the run: the
\* caller's scheduler counted its throttle down while this slept.
PaceIsKept ==
    [][\A h \in Hosts :
         FirstAnswer(h) /\ lastRetry[h] # Never =>
            clock - lastRetry[h] >= Floor \/ lastRetry[h] + Floor >= deadline]_vars

\* No server can keep the run: a call that waits always returns, even to a
\* server that refuses for ever and whether or not there is a deadline.
CallReturns == pc # "idle" ~> pc = "idle"
==============================================================================
