--------------------------- MODULE RateLimitProofs ---------------------------
(***************************************************************************)
(* Theorems about RateLimit, for any set of servers, any deadlines and any *)
(* values of the policy's constants.                                       *)
(***************************************************************************)
EXTENDS RateLimit, TLAPS

-----------------------------------------------------------------------------
(* Lemmas about the policy and the clock *)

LEMMA LeastType == \A a, b \in Nat : Least(a, b) \in Nat /\ Least(a, b) <= a /\ Least(a, b) <= b
  BY DEF Least

LEMMA BackoffIsNatural ==
    ASSUME NEW n \in 0 .. MaxDoublings, NEW r \in RetryAfters \union {0}
    PROVE  Backoff(n, r) \in Nat
<1>1. Least(n, MaxDoublings) = n
  BY BackoffAssumption DEF Least
<1> DEFINE grown == Least(BaseBackoff * 2 ^ n, MaxBackoff)
<1>2. grown \in Nat
  <2>1. BaseBackoff * 2 ^ n \in Nat
    BY BackoffAssumption
  <2> DEFINE product == BaseBackoff * 2 ^ n
  <2> HIDE DEF product
  <2>2. product \in Nat
    BY <2>1 DEF product
  <2>3. Least(product, MaxBackoff) \in Nat
    BY <2>2, BackoffAssumption DEF Least
  <2> QED
    BY <2>3 DEF product
<1> HIDE DEF grown
<1>3. r \in Nat
  BY BackoffAssumption
<1>4. Greatest(Greatest(grown, Floor), r) \in Nat
  BY <1>2, <1>3, BackoffAssumption DEF Greatest
<1> QED
  BY <1>1, <1>4 DEF Backoff, grown

\* Time does not go back, and stands still only at the bound.
LEMMA ClockMoves ==
    ASSUME clock \in 0 .. Horizon, NEW t \in Nat, Passed(t)
    PROVE  /\ clock' \in 0 .. Horizon /\ clock' >= clock
           /\ clock + t < Horizon => clock' = clock + t
  BY HorizonAssumption DEF Passed, Least

\* Arithmetic of instants, stated of numbers to be used of primed variables.
LEMMA SpanGrows ==
    \A now, later, from, part \in Nat :
        now <= later /\ from <= now /\ part <= now - from
            => from <= later /\ part <= later - from
  OBVIOUS

LEMMA LateStaysLate ==
    \A now, later, wait, end \in Nat :
        now <= later /\ now + wait >= end => later + wait >= end
  OBVIOUS

LEMMA PastTheEnd ==
    \A now, from, room, wait, end \in Nat :
        from + room = end => (now + wait >= end <=> ~ (now - from + wait < room))
  OBVIOUS

LEMMA ScalingKeepsOrder ==
    ASSUME NEW k \in Nat, NEW a \in Nat, NEW b \in Nat, a <= b
    PROVE  k * a <= k * b
<1>1. PICK d \in Nat : b = a + d
  <2>1. b - a \in Nat /\ b = a + (b - a)
    OBVIOUS
  <2> QED
    BY <2>1
<1>2. k * b = k * a + k * d
  BY <1>1
<1>3. k * d \in Nat
  BY <1>1
<1> QED
  BY <1>2, <1>3

-----------------------------------------------------------------------------
(* Type correctness *)

\* TypeOK's first fact about the budget, as the proofs use it.
LEMMA BudgetType ==
    ASSUME TypeOK, deadline # NoDeadline
    PROVE  /\ deadline \in Nat /\ deadline < Horizon
           /\ budget \in Nat /\ started \in Nat /\ started + budget = deadline
           /\ clock \in Nat /\ clock <= Horizon /\ Horizon \in Nat
  BY HorizonAssumption DEF TypeOK

LEMMA WaitIsNatural ==
    ASSUME TypeOK
    PROVE  Backoff(refusals[host], header) \in Nat
<1>1. refusals[host] \in 0 .. MaxDoublings /\ header \in RetryAfters \union {0}
  BY DEF TypeOK
<1> QED
  BY <1>1, BackoffIsNatural

LEMMA FloorOwedIsNatural == FloorOwed \in Nat
  BY BackoffAssumption DEF FloorOwed

LEMMA TypeInit == Init => TypeOK
<1> SUFFICES ASSUME Init PROVE TypeOK
  OBVIOUS
<1>1. /\ deadline \in Deadlines /\ clock \in 0 .. Horizon /\ started \in 0 .. Horizon
      /\ begun \in 0 .. Horizon
  BY HorizonAssumption DEF Init
<1>2. IF deadline = NoDeadline THEN budget = NoDeadline
      ELSE budget \in Nat /\ started + budget = deadline
  BY HorizonAssumption DEF Init
<1>3. refusals \in [Hosts -> 0 .. MaxDoublings]
  BY BackoffAssumption DEF Init
<1>4. lastRetry \in [Hosts -> Nat \union {Never}]
  BY DEF Init
<1>5. /\ givenUp \subseteq Hosts /\ pc \in {"idle", "refused", "asking", "leaving"}
      /\ host \in Hosts /\ asked \in BOOLEAN
      /\ answer \in Answers /\ header \in RetryAfters \union {0} /\ slept \in Nat
  BY DEF Init, Answers
<1> QED
  BY <1>1, <1>2, <1>3, <1>4, <1>5 DEF TypeOK

LEMMA TypeStep == TypeOK /\ [Next]_vars => TypeOK'
<1> SUFFICES ASSUME TypeOK, [Next]_vars PROVE TypeOK'
  OBVIOUS
<1> USE DEF TypeOK
<1>1. CASE BeginCrawl
  <2>1. clock \in Nat /\ deadline \in Nat /\ clock < deadline /\ deadline # NoDeadline
    BY <1>1, BudgetType DEF BeginCrawl
  <2>2. /\ started' = clock /\ budget' = deadline - clock
        /\ UNCHANGED <<deadline, clock, refusals, givenUp, lastRetry>>
        /\ UNCHANGED <<pc, host, begun, asked, answer, header, slept>>
    BY <1>1 DEF BeginCrawl, call
  <2>3. budget' \in Nat /\ started' + budget' = deadline' /\ deadline' # NoDeadline
    BY <2>1, <2>2
  <2> QED
    BY <2>2, <2>3
<1>2. CASE \E h \in Hosts : FirstAnswer(h)
  <2>1. PICK h \in Hosts : FirstAnswer(h)
    BY <1>2
  <2>2. PICK t \in FetchTimes, a \in Answers, r \in RetryAfters :
            /\ Passed(t)
            /\ IF a = "refused" /\ h \notin givenUp
               THEN /\ pc' = "refused" /\ host' = h /\ begun' = clock'
                    /\ answer' = a /\ header' = r
                    /\ UNCHANGED <<asked, slept>>
               ELSE UNCHANGED call
    BY <2>1 DEF FirstAnswer
  <2>3. clock' \in 0 .. Horizon
    BY <2>2, ClockMoves, BackoffAssumption
  <2>4. lastRetry' \in [Hosts -> Nat \union {Never}]
    BY <2>1, <2>2 DEF FirstAnswer
  <2>5. /\ UNCHANGED <<deadline, started, budget, refusals, givenUp>>
    BY <2>1 DEF FirstAnswer
  <2>6. CASE a = "refused" /\ h \notin givenUp
    BY <2>2, <2>3, <2>4, <2>5, <2>6
  <2>7. CASE ~ (a = "refused" /\ h \notin givenUp)
    BY <2>2, <2>3, <2>4, <2>5, <2>7 DEF call
  <2> QED
    BY <2>6, <2>7
<1>3. CASE WaitOut
  <2> DEFINE wait == Backoff(refusals[host], header)
  <2>1. wait \in Nat
    BY WaitIsNatural
  <2>2. Passed(wait) /\ slept' = Least(slept + wait, Horizon)
    BY <1>3 DEF WaitOut
  <2>4. refusals' = [refusals EXCEPT ![host] = Least(@ + 1, MaxDoublings)]
    BY <1>3 DEF WaitOut
  <2> HIDE DEF wait
  <2>5. clock' \in 0 .. Horizon
    BY <2>1, <2>2, ClockMoves
  <2>6. slept' \in Nat
    <3>1. slept \in Nat /\ slept + wait \in Nat /\ Horizon \in Nat
      BY <2>1, HorizonAssumption
    <3> QED
      BY <2>2, <3>1, LeastType
  <2>8. \A n \in 0 .. MaxDoublings : Least(n + 1, MaxDoublings) \in 0 .. MaxDoublings
    BY BackoffAssumption DEF Least
  <2>9. refusals' \in [Hosts -> 0 .. MaxDoublings]
    BY <2>4, <2>8
  <2> QED
    BY <1>3, <2>5, <2>6, <2>9 DEF WaitOut
<1>4. CASE AskAgain
  <2>1. PICK t \in FetchTimes, a \in Answers, r \in RetryAfters :
            /\ Passed(t)
            /\ answer' = a
            /\ header' = IF a = "refused" THEN r ELSE 0
            /\ pc' = IF a = "refused" THEN "refused" ELSE "leaving"
    BY <1>4 DEF AskAgain
  <2>2. clock' \in 0 .. Horizon /\ clock' \in Nat
    BY <2>1, ClockMoves, BackoffAssumption, HorizonAssumption
  <2>3. lastRetry' \in [Hosts -> Nat \union {Never}]
    BY <1>4, <2>1, <2>2 DEF AskAgain
  <2> QED
    BY <1>4, <2>1, <2>2, <2>3 DEF AskAgain
<1>5. CASE StopWaiting
  BY <1>5 DEF StopWaiting
<1>6. CASE Leave
  <2>1. clock' \in 0 .. Horizon
    BY <1>6, FloorOwedIsNatural, ClockMoves DEF Leave
  <2>2. refusals' \in [Hosts -> 0 .. MaxDoublings]
    BY <1>6, BackoffAssumption DEF Leave
  <2>3. /\ pc' = "idle" /\ host' = host /\ begun' = 0 /\ asked' = FALSE
        /\ answer' = "archived" /\ header' = 0 /\ slept' = 0
        /\ UNCHANGED <<deadline, started, budget, givenUp, lastRetry>>
    BY <1>6 DEF Leave, Returned
  <2>4. begun' \in 0 .. Horizon /\ slept' \in Nat
    BY <2>3, HorizonAssumption
  <2>5. pc' \in {"idle", "refused", "asking", "leaving"} /\ host' \in Hosts /\ asked' \in BOOLEAN
    BY <2>3
  <2>6. answer' \in Answers /\ header' \in RetryAfters \union {0}
    BY <2>3 DEF Answers
  <2>7. IF deadline' = NoDeadline THEN budget' = NoDeadline
        ELSE budget' \in Nat /\ started' + budget' = deadline'
    BY <2>3
  <2> QED
    BY <2>1, <2>2, <2>3, <2>4, <2>5, <2>6, <2>7
<1>7. CASE UNCHANGED vars
  BY <1>7 DEF vars, call
<1> QED
  BY <1>1, <1>2, <1>3, <1>4, <1>5, <1>6, <1>7 DEF Next, Call

\* The state always has its type, and whatever crawl is under way ends when the
\* run does: a sub-crawl's budget never reaches past the run's deadline.
THEOREM TypeCorrect == Spec => []TypeOK
<1>1. Init => TypeOK
  BY TypeInit
<1>2. TypeOK /\ [Next]_vars => TypeOK'
  BY TypeStep
<1> QED
  BY <1>1, <1>2, PTL DEF Spec

-----------------------------------------------------------------------------
(* Waits and their share *)

\* What has been slept for the address in hand is part of the time since it was
\* first refused, and is nothing between two calls.
SleptSince ==
    /\ pc = "idle" => slept = 0
    /\ pc # "idle" => begun <= clock /\ slept <= clock - begun

ShareInv ==
    /\ deadline = NoDeadline => slept = 0
    /\ deadline # NoDeadline =>
          Share * slept <= budget /\ (pc = "asking" => clock < deadline)

LEMMA WaitInit == Init => SleptSince /\ ShareInv
<1> SUFFICES ASSUME Init PROVE SleptSince /\ ShareInv
  OBVIOUS
<1>1. pc = "idle" /\ slept = 0
  BY DEF Init
<1>2. Share * slept = 0
  BY <1>1, BackoffAssumption
<1>3. ASSUME deadline # NoDeadline PROVE budget \in Nat
  BY <1>3, HorizonAssumption DEF Init
<1> QED
  BY <1>1, <1>2, <1>3 DEF SleptSince, ShareInv

\* A wait that fits ends before the run does, and within the share.
LEMMA FittingWait ==
    ASSUME TypeOK, SleptSince, pc = "refused", NEW wait \in Nat, Fits(wait)
    PROVE  /\ deadline # NoDeadline
           /\ clock + wait < deadline /\ clock + wait < Horizon
           /\ slept + wait \in Nat /\ Share * (slept + wait) <= budget
<1>1. deadline # NoDeadline /\ clock - started + wait < budget
  BY DEF Fits, FitsTheShare, FitsTheRun
<1>2. clock + wait < deadline /\ clock + wait < Horizon
  BY <1>1, BudgetType
<1>3. Share * ((clock - begun) + wait) <= budget
  BY DEF Fits, FitsTheShare
<1>4. /\ slept \in Nat /\ begun \in Nat /\ clock \in Nat
      /\ begun <= clock /\ slept <= clock - begun
  BY HorizonAssumption DEF TypeOK, SleptSince
<1> DEFINE spent == (clock - begun) + wait
<1>5. spent \in Nat /\ slept + wait \in Nat /\ slept + wait <= spent
  BY <1>4
<1>6. Share * spent <= budget
  BY <1>3
<1> HIDE DEF spent
<1>7. Share * (slept + wait) <= Share * spent
  BY <1>5, ScalingKeepsOrder, BackoffAssumption
<1>8. Share * (slept + wait) \in Nat /\ Share * spent \in Nat /\ budget \in Nat
  BY <1>1, <1>5, BackoffAssumption, BudgetType
<1>9. Share * (slept + wait) <= budget
  BY <1>6, <1>7, <1>8
<1> QED
  BY <1>1, <1>2, <1>5, <1>9

LEMMA WaitStep == TypeOK /\ SleptSince /\ ShareInv /\ [Next]_vars => SleptSince' /\ ShareInv'
<1> SUFFICES ASSUME TypeOK, SleptSince, ShareInv, [Next]_vars
             PROVE  SleptSince' /\ ShareInv'
  OBVIOUS
<1>0. /\ clock \in Nat /\ clock \in 0 .. Horizon /\ begun \in Nat /\ slept \in Nat
      /\ Horizon \in Nat /\ Share \in Nat
  BY HorizonAssumption, BackoffAssumption DEF TypeOK
<1>1. CASE BeginCrawl
  <2>1. /\ pc = "idle" /\ pc' = pc /\ slept' = slept /\ deadline' = deadline
        /\ deadline # NoDeadline /\ budget' = deadline - clock /\ clock < deadline
    BY <1>1 DEF BeginCrawl, call
  <2>2. slept' = 0 /\ pc' = "idle"
    BY <2>1 DEF SleptSince
  <2>3. Share * slept' = 0
    BY <2>2, <1>0
  <2>4. budget' \in Nat
    BY <2>1, <1>0, BudgetType
  <2> QED
    BY <2>1, <2>2, <2>3, <2>4 DEF SleptSince, ShareInv
<1>2. CASE \E h \in Hosts : FirstAnswer(h)
  <2>1. PICK h \in Hosts : FirstAnswer(h)
    BY <1>2
  <2>2. pc = "idle" /\ slept = 0 /\ deadline' = deadline /\ budget' = budget
    BY <2>1 DEF FirstAnswer, SleptSince
  <2>3. PICK t \in FetchTimes : Passed(t)
    BY <2>1 DEF FirstAnswer
  <2>4. clock' \in Nat
    BY <2>3, <1>0, ClockMoves, BackoffAssumption
  <2>5. \/ pc' = "refused" /\ begun' = clock' /\ slept' = slept
        \/ pc' = pc /\ slept' = slept
    BY <2>1 DEF FirstAnswer, call
  <2>6. slept' = 0
    BY <2>2, <2>5
  <2>7. SleptSince'
    BY <2>2, <2>4, <2>5, <2>6 DEF SleptSince
  <2>8. ShareInv'
    BY <2>2, <2>5, <2>6 DEF ShareInv
  <2> QED
    BY <2>7, <2>8
<1>3. CASE WaitOut
  <2> DEFINE wait == Backoff(refusals[host], header)
  <2>1. wait \in Nat
    BY WaitIsNatural
  <2>2. /\ pc = "refused" /\ Fits(wait) /\ Passed(wait)
        /\ slept' = Least(slept + wait, Horizon)
        /\ pc' = "asking" /\ UNCHANGED <<deadline, budget, begun>>
    BY <1>3 DEF WaitOut
  <2> HIDE DEF wait
  <2>3. /\ deadline # NoDeadline /\ clock + wait < deadline /\ clock + wait < Horizon
        /\ slept + wait \in Nat /\ Share * (slept + wait) <= budget
    BY <2>1, <2>2, FittingWait
  <2>4. clock' = clock + wait
    BY <2>1, <2>2, <2>3, <1>0, ClockMoves
  <2>5. begun <= clock /\ slept <= clock - begun
    BY <2>2 DEF SleptSince
  <2>6. slept + wait <= Horizon
    BY <2>1, <2>3, <2>5, <1>0
  <2>7. slept' = slept + wait
    BY <2>2, <2>6 DEF Least
  <2>8. begun' <= clock' /\ slept' <= clock' - begun'
    BY <2>1, <2>2, <2>4, <2>5, <2>7, <1>0
  <2>9. SleptSince'
    BY <2>2, <2>8 DEF SleptSince
  <2>10. ShareInv'
    BY <2>2, <2>3, <2>4, <2>7 DEF ShareInv
  <2> QED
    BY <2>9, <2>10
<1>4. CASE AskAgain
  <2>1. PICK t \in FetchTimes : Passed(t)
    BY <1>4 DEF AskAgain
  <2>2. /\ pc = "asking" /\ pc' \in {"refused", "leaving"}
        /\ UNCHANGED <<deadline, budget, begun, slept>>
    BY <1>4 DEF AskAgain
  <2>3. clock' >= clock /\ clock' \in Nat
    BY <2>1, <1>0, ClockMoves, BackoffAssumption
  <2>4. SleptSince'
    <3>1. begun <= clock /\ slept <= clock - begun
      BY <2>2 DEF SleptSince
    <3>2. begun <= clock' /\ slept <= clock' - begun
      BY <2>3, <3>1, <1>0, SpanGrows
    <3>3. begun' = begun /\ slept' = slept
      BY <2>2
    <3> QED
      BY <2>2, <3>2, <3>3 DEF SleptSince
  <2>5. ShareInv'
    BY <2>2 DEF ShareInv
  <2> QED
    BY <2>4, <2>5
<1>5. CASE StopWaiting
  BY <1>5 DEF StopWaiting, SleptSince, ShareInv
<1>6. CASE Leave
  <2>1. pc' = "idle" /\ slept' = 0 /\ deadline' = deadline /\ budget' = budget
    BY <1>6 DEF Leave, Returned
  <2>2. Share * slept' = 0
    BY <2>1, <1>0
  <2>3. deadline # NoDeadline => budget \in Nat
    BY BudgetType
  <2> QED
    BY <2>1, <2>2, <2>3 DEF SleptSince, ShareInv
<1>7. CASE UNCHANGED vars
  BY <1>7 DEF vars, call, SleptSince, ShareInv
<1> QED
  BY <1>1, <1>2, <1>3, <1>4, <1>5, <1>6, <1>7 DEF Next, Call

\* What one refusing address is slept for stays within its share of the budget
\* and ends before the run's, for any headers and however often it refuses.
THEOREM WaitsAreBounded == Spec => []WaitsStayInTheShare
<1>1. Init => TypeOK /\ SleptSince /\ ShareInv
  BY TypeInit, WaitInit
<1>2. /\ TypeOK /\ SleptSince /\ ShareInv /\ [Next]_vars
      => TypeOK' /\ SleptSince' /\ ShareInv'
  BY TypeStep, WaitStep
<1>3. ShareInv => WaitsStayInTheShare
  BY DEF ShareInv, WaitsStayInTheShare
<1> QED
  BY <1>1, <1>2, <1>3, PTL DEF Spec

-----------------------------------------------------------------------------
(* Servers given up on *)

BeyondReach(h) == ~ AFreshAddressCouldWait(Backoff(refusals[h], 0))

\* Nothing forgives a server it gave up on its refusals: the address in hand is
\* on another one, or was left refused.
GivenUpInv ==
    /\ started <= clock
    /\ \A h \in givenUp : deadline # NoDeadline => BeyondReach(h)
    /\ pc \in {"refused", "asking"} => host \notin givenUp /\ answer = "refused"
    /\ pc = "leaving" /\ answer = "archived" => host \notin givenUp

\* A wait out of reach stays there while time passes and as budgets shrink.
LEMMA ReachShrinks ==
    ASSUME TypeOK, TypeOK', started <= clock, clock <= clock', deadline' = deadline,
           \/ started' = started /\ budget' = budget
           \/ started' = clock /\ budget' = deadline - clock,
           deadline # NoDeadline, NEW wait \in Nat,
           ~ AFreshAddressCouldWait(wait)
    PROVE  ~ AFreshAddressCouldWait(wait)'
<1>1. /\ deadline \in Nat /\ budget \in Nat /\ started \in Nat /\ clock \in Nat
      /\ started + budget = deadline
  BY BudgetType
<1>2. /\ budget' \in Nat /\ started' \in Nat /\ clock' \in Nat
      /\ started' + budget' = deadline
  <2>1. started' \in 0 .. Horizon /\ clock' \in 0 .. Horizon
    BY DEF TypeOK
  <2>2. budget' \in Nat /\ started' + budget' = deadline'
    BY DEF TypeOK
  <2> QED
    BY <2>1, <2>2, HorizonAssumption
<1>3. budget' <= budget
  BY <1>1, <1>2
<1> DEFINE share == Share * (0 + wait)
<1>4. share \in Nat
  BY BackoffAssumption
<1>5. ~ (clock - started + wait < budget) \/ ~ (share <= budget)
  BY DEF AFreshAddressCouldWait, FitsTheShare, FitsTheRun
<1> HIDE DEF share
<1>6. CASE ~ (clock - started + wait < budget)
  <2>1. clock + wait >= deadline
    BY <1>1, <1>6, PastTheEnd
  <2>2. clock' + wait >= deadline
    BY <1>1, <1>2, <2>1, LateStaysLate
  <2>3. ~ (clock' - started' + wait < budget')
    BY <1>1, <1>2, <2>2, PastTheEnd
  <2> QED
    BY <2>3 DEF AFreshAddressCouldWait, FitsTheShare, FitsTheRun
<1>7. CASE ~ (share <= budget)
  <2>1. ~ (share <= budget')
    BY <1>1, <1>2, <1>3, <1>4, <1>7
  <2> QED
    BY <2>1 DEF AFreshAddressCouldWait, FitsTheShare, FitsTheRun, share
<1> QED
  BY <1>5, <1>6, <1>7

LEMMA GivenUpInit == Init => GivenUpInv
  BY DEF Init, GivenUpInv

\* A step that leaves refusals and the run alone but for its clock, or opens a
\* crawl on what is left, keeps every server given up on out of reach.
LEMMA StillBeyondReach ==
    ASSUME TypeOK, TypeOK', GivenUpInv, clock <= clock', deadline' = deadline,
           \/ started' = started /\ budget' = budget
           \/ started' = clock /\ budget' = deadline - clock,
           deadline # NoDeadline, NEW h \in givenUp, refusals'[h] = refusals[h]
    PROVE  BeyondReach(h)'
<1>1. refusals[h] \in 0 .. MaxDoublings
  BY DEF TypeOK
<1>2. PICK wait \in Nat : wait = Backoff(refusals[h], 0)
  BY <1>1, BackoffIsNatural
<1>3. ~ AFreshAddressCouldWait(wait) /\ started <= clock
  BY <1>2 DEF GivenUpInv, BeyondReach
<1>4. ~ AFreshAddressCouldWait(wait)'
  BY <1>3, ReachShrinks
<1>5. wait = Backoff(refusals'[h], 0)
  BY <1>2
<1> QED
  BY <1>4, <1>5 DEF BeyondReach

LEMMA TimePasses ==
    ASSUME TypeOK, TypeOK', GivenUpInv, NEW t \in Nat, Passed(t),
           UNCHANGED <<deadline, started, budget>>,
           \A h \in givenUp : refusals'[h] = refusals[h]
    PROVE  /\ started' <= clock'
           /\ \A h \in givenUp : deadline # NoDeadline => BeyondReach(h)'
<1>1. /\ clock \in 0 .. Horizon /\ clock \in Nat /\ started \in Nat /\ started <= clock
      /\ clock' \in Nat
  BY HorizonAssumption DEF TypeOK, GivenUpInv
<1>2. clock <= clock'
  BY <1>1, ClockMoves
<1>3. \A a, b, c \in Nat : a <= b /\ b <= c => a <= c
  OBVIOUS
<1>4. started' = started /\ budget' = budget /\ deadline' = deadline
  OBVIOUS
<1>5. started' <= clock'
  BY <1>1, <1>2, <1>3, <1>4
<1>6. ASSUME NEW h \in givenUp, deadline # NoDeadline PROVE BeyondReach(h)'
  BY <1>2, <1>4, <1>6, StillBeyondReach
<1> QED
  BY <1>5, <1>6

LEMMA GivenUpStep == TypeOK /\ TypeOK' /\ GivenUpInv /\ [Next]_vars => GivenUpInv'
<1> SUFFICES ASSUME TypeOK, TypeOK', GivenUpInv, [Next]_vars PROVE GivenUpInv'
  OBVIOUS
<1>0. clock \in 0 .. Horizon /\ clock \in Nat /\ started \in Nat /\ started <= clock
  BY HorizonAssumption DEF TypeOK, GivenUpInv
<1>1. CASE BeginCrawl
  <2>1. /\ pc' = "idle" /\ started' = clock /\ clock' = clock
        /\ budget' = deadline - clock /\ deadline' = deadline
        /\ refusals' = refusals /\ givenUp' = givenUp
    BY <1>1 DEF BeginCrawl, call
  <2>2. clock <= clock' /\ started' <= clock'
    BY <2>1, <1>0
  <2>3. ASSUME NEW h \in givenUp', deadline' # NoDeadline PROVE BeyondReach(h)'
    BY <2>1, <2>2, <2>3, StillBeyondReach
  <2> QED
    BY <2>1, <2>2, <2>3 DEF GivenUpInv
<1>2. ASSUME NEW h \in Hosts, FirstAnswer(h) PROVE GivenUpInv'
  <2>1. PICK t \in FetchTimes : Passed(t)
    BY <1>2 DEF FirstAnswer
  <2>2. /\ pc = "idle" /\ UNCHANGED <<deadline, started, budget>>
        /\ refusals' = refusals /\ givenUp' = givenUp
    BY <1>2 DEF FirstAnswer
  <2>3. \/ pc' = "refused" /\ host' = h /\ h \notin givenUp /\ answer' = "refused"
        \/ pc' = pc
    BY <1>2 DEF FirstAnswer, call
  <2>4. started' <= clock' /\ \A g \in givenUp : deadline # NoDeadline => BeyondReach(g)'
    BY <2>1, <2>2, TimePasses, BackoffAssumption
  <2> QED
    BY <2>2, <2>3, <2>4 DEF GivenUpInv
<1>3. CASE WaitOut
  <2> DEFINE wait == Backoff(refusals[host], header)
  <2>1. wait \in Nat
    BY WaitIsNatural
  <2>2. /\ Passed(wait) /\ UNCHANGED <<deadline, started, budget>>
        /\ refusals' = [refusals EXCEPT ![host] = Least(@ + 1, MaxDoublings)]
        /\ pc = "refused" /\ pc' = "asking" /\ host' = host /\ givenUp' = givenUp
        /\ answer' = answer
    BY <1>3 DEF WaitOut
  <2> HIDE DEF wait
  <2>3. answer = "refused"
    BY <2>2 DEF GivenUpInv
  <2>4. host \notin givenUp /\ refusals \in [Hosts -> 0 .. MaxDoublings] /\ givenUp \subseteq Hosts
    BY <2>2 DEF GivenUpInv, TypeOK
  <2>5. \A g \in givenUp : refusals'[g] = refusals[g]
    BY <2>2, <2>4
  <2>6. started' <= clock' /\ \A g \in givenUp : deadline # NoDeadline => BeyondReach(g)'
    BY <2>1, <2>2, <2>5, TimePasses
  <2> QED
    BY <2>2, <2>3, <2>4, <2>6 DEF GivenUpInv
<1>4. CASE AskAgain
  <2>1. PICK t \in FetchTimes : Passed(t)
    BY <1>4 DEF AskAgain
  <2>2. /\ pc = "asking" /\ UNCHANGED <<deadline, started, budget>>
        /\ refusals' = refusals /\ givenUp' = givenUp /\ host' = host
    BY <1>4 DEF AskAgain
  <2>3. /\ host' \notin givenUp'
        /\ (pc' = "refused" /\ answer' = "refused") \/ pc' = "leaving"
    BY <1>4, <2>2 DEF GivenUpInv, AskAgain
  <2>4. started' <= clock' /\ \A g \in givenUp : deadline # NoDeadline => BeyondReach(g)'
    BY <2>1, <2>2, TimePasses, BackoffAssumption
  <2> QED
    BY <2>2, <2>3, <2>4 DEF GivenUpInv
<1>5. CASE StopWaiting
  <2>1. /\ UNCHANGED <<deadline, clock, started, budget, refusals, host, answer>>
        /\ pc = "refused" /\ pc' = "leaving"
        /\ givenUp' = IF GivesUp THEN givenUp \union {host} ELSE givenUp
    BY <1>5 DEF StopWaiting
  <2>2. answer = "refused"
    BY <2>1 DEF GivenUpInv
  <2>3. ASSUME NEW h \in givenUp', deadline' # NoDeadline PROVE BeyondReach(h)'
    <3>1. CASE h \in givenUp
      <4>1. BeyondReach(h)
        BY <2>1, <2>3, <3>1 DEF GivenUpInv
      <4> QED
        BY <4>1, <2>1 DEF BeyondReach, AFreshAddressCouldWait, FitsTheShare, FitsTheRun, Backoff
    <3>2. CASE h = host /\ GivesUp
      <4>1. BeyondReach(h)
        BY <3>2 DEF GivesUp, BeyondReach
      <4> QED
        BY <4>1, <2>1 DEF BeyondReach, AFreshAddressCouldWait, FitsTheShare, FitsTheRun, Backoff
    <3> QED
      BY <2>1, <2>3, <3>1, <3>2
  <2> QED
    BY <2>1, <2>2, <2>3 DEF GivenUpInv
<1>6. CASE Leave
  <2>1. /\ Passed(FloorOwed) /\ UNCHANGED <<deadline, started, budget>>
        /\ pc = "leaving" /\ pc' = "idle" /\ givenUp' = givenUp
        /\ refusals' = IF answer = "archived" THEN [refusals EXCEPT ![host] = 0]
                                               ELSE refusals
    BY <1>6 DEF Leave, Returned
  <2>2. /\ answer = "archived" => host \notin givenUp
        /\ refusals \in [Hosts -> 0 .. MaxDoublings] /\ givenUp \subseteq Hosts
    BY <2>1 DEF GivenUpInv, TypeOK
  <2>3. \A g \in givenUp : refusals'[g] = refusals[g]
    BY <2>1, <2>2
  <2>4. started' <= clock' /\ \A g \in givenUp : deadline # NoDeadline => BeyondReach(g)'
    BY <2>1, <2>3, TimePasses, FloorOwedIsNatural
  <2> QED
    BY <2>1, <2>4 DEF GivenUpInv
<1>7. CASE UNCHANGED vars
  BY <1>7 DEF vars, call, GivenUpInv, BeyondReach, AFreshAddressCouldWait,
              FitsTheShare, FitsTheRun, Backoff
<1> QED
  BY <1>1, <1>2, <1>3, <1>4, <1>5, <1>6, <1>7 DEF Next, Call

\* A server is given up on only where no address of it could be waited for
\* again, whatever happens later in the run, and none is.
THEOREM GivingUpIsSound == Spec => []GivenUpIsBeyondReach
<1>1. Init => TypeOK /\ GivenUpInv
  BY TypeInit, GivenUpInit
<1>2. TypeOK /\ GivenUpInv /\ [Next]_vars => TypeOK' /\ GivenUpInv'
  BY TypeStep, GivenUpStep
<1>3. TypeOK /\ GivenUpInv => GivenUpIsBeyondReach
  BY DEF GivenUpInv, GivenUpIsBeyondReach, BeyondReach,
         AFreshAddressCouldWait, FitsTheShare, FitsTheRun
<1> QED
  BY <1>1, <1>2, <1>3, PTL DEF Spec

-----------------------------------------------------------------------------
(* The pace after a retry *)

PacedSince(now, last) == now - last >= Floor \/ last + Floor >= deadline

\* A server asked again is owed its pause, unless it has been paid or the call
\* that owes it is under way and has slept for nothing else since.
PaceInv ==
    /\ pc = "idle" => ~ asked
    /\ pc = "asking" => asked
    /\ asked => deadline # NoDeadline
    /\ asked /\ pc # "asking" => lastRetry[host] = clock
    /\ \A h \in Hosts : lastRetry[h] # Never =>
          /\ deadline # NoDeadline /\ lastRetry[h] <= clock
          /\ PacedSince(clock, lastRetry[h]) \/ (h = host /\ asked)

LEMMA PaceInit == Init => PaceInv
  BY DEF Init, PaceInv

\* A pause once paid stays paid.
LEMMA PauseLasts ==
    \A now, later, last, pause, end \in Nat :
        /\ now <= later /\ last <= now
        => /\ last <= later
           /\ now - last >= pause \/ last + pause >= end
              => later - last >= pause \/ last + pause >= end
  OBVIOUS

LEMMA RetryLasts ==
    ASSUME TypeOK, PaceInv, NEW t \in Nat, Passed(t), deadline' = deadline,
           NEW h \in Hosts, lastRetry'[h] = lastRetry[h], lastRetry[h] # Never
    PROVE  /\ deadline' # NoDeadline /\ lastRetry'[h] <= clock'
           /\ PacedSince(clock, lastRetry[h]) => PacedSince(clock, lastRetry[h])'
<1>1. /\ clock \in 0 .. Horizon /\ clock \in Nat /\ deadline # NoDeadline
      /\ deadline \in Nat /\ lastRetry[h] <= clock
  BY HorizonAssumption, BudgetType DEF TypeOK, PaceInv
<1>2. clock' \in Nat /\ clock <= clock'
  BY <1>1, ClockMoves, HorizonAssumption
<1>3. PICK last \in Nat : last = lastRetry[h]
  BY DEF TypeOK
<1>4. /\ last <= clock'
      /\ clock - last >= Floor \/ last + Floor >= deadline
         => clock' - last >= Floor \/ last + Floor >= deadline
  BY <1>1, <1>2, <1>3, PauseLasts, BackoffAssumption
<1> QED
  BY <1>1, <1>3, <1>4 DEF PacedSince

LEMMA StillPaced ==
    ASSUME TypeOK, PaceInv, NEW t \in Nat, Passed(t), deadline' = deadline,
           lastRetry' = lastRetry, host' = host, asked => asked'
    PROVE  \A h \in Hosts : lastRetry'[h] # Never =>
              /\ deadline' # NoDeadline /\ lastRetry'[h] <= clock'
              /\ PacedSince(clock, lastRetry[h])' \/ (h = host' /\ asked')
<1> SUFFICES ASSUME NEW h \in Hosts, lastRetry'[h] # Never
             PROVE  /\ deadline' # NoDeadline /\ lastRetry'[h] <= clock'
                    /\ PacedSince(clock, lastRetry[h])' \/ (h = host' /\ asked')
  OBVIOUS
<1>1. lastRetry[h] # Never /\ lastRetry'[h] = lastRetry[h]
  OBVIOUS
<1>2. /\ deadline' # NoDeadline /\ lastRetry'[h] <= clock'
      /\ PacedSince(clock, lastRetry[h]) => PacedSince(clock, lastRetry[h])'
  BY <1>1, RetryLasts
<1>3. PacedSince(clock, lastRetry[h]) \/ (h = host /\ asked)
  BY <1>1 DEF PaceInv
<1> QED
  BY <1>2, <1>3

LEMMA PaceStep == TypeOK /\ TypeOK' /\ PaceInv /\ [Next]_vars => PaceInv'
<1> SUFFICES ASSUME TypeOK, TypeOK', PaceInv, [Next]_vars PROVE PaceInv'
  OBVIOUS
<1>0. clock \in 0 .. Horizon /\ clock \in Nat /\ clock' \in Nat
  BY HorizonAssumption DEF TypeOK
<1>1. CASE BeginCrawl
  BY <1>1 DEF BeginCrawl, call, PaceInv, PacedSince
<1>2. ASSUME NEW g \in Hosts, FirstAnswer(g) PROVE PaceInv'
  <2>1. PICK t \in FetchTimes : Passed(t)
    BY <1>2 DEF FirstAnswer
  <2>2. /\ pc = "idle" /\ deadline' = deadline
        /\ lastRetry' = [lastRetry EXCEPT ![g] = Never]
        /\ lastRetry \in [Hosts -> Nat \union {Never}]
    BY <1>2 DEF FirstAnswer, TypeOK
  <2>3. ~ asked /\ asked' = asked /\ (pc' = "refused" \/ pc' = "idle")
    BY <1>2, <2>2 DEF FirstAnswer, call, PaceInv
  <2>4. ASSUME NEW h \in Hosts, lastRetry'[h] # Never
        PROVE  /\ deadline' # NoDeadline /\ lastRetry'[h] <= clock'
               /\ PacedSince(clock, lastRetry[h])'
    <3>1. lastRetry'[h] = lastRetry[h] /\ lastRetry[h] # Never
      BY <2>2, <2>4
    <3>2. PacedSince(clock, lastRetry[h])
      BY <2>3, <3>1 DEF PaceInv
    <3> QED
      BY <2>1, <2>2, <3>1, <3>2, RetryLasts, BackoffAssumption
  <2> QED
    BY <2>3, <2>4 DEF PaceInv
<1>3. CASE WaitOut
  <2> DEFINE wait == Backoff(refusals[host], header)
  <2>1. wait \in Nat
    BY WaitIsNatural
  <2>2. /\ Passed(wait) /\ Fits(wait) /\ deadline' = deadline
        /\ lastRetry' = lastRetry /\ host' = host /\ asked' = TRUE /\ pc' = "asking"
    BY <1>3 DEF WaitOut
  <2> HIDE DEF wait
  <2>3. deadline' # NoDeadline
    BY <2>2 DEF Fits, FitsTheShare, FitsTheRun
  <2>4. \A h \in Hosts : lastRetry'[h] # Never =>
          /\ deadline' # NoDeadline /\ lastRetry'[h] <= clock'
          /\ PacedSince(clock, lastRetry[h])' \/ (h = host' /\ asked')
    BY <2>1, <2>2, StillPaced
  <2> QED
    BY <2>2, <2>3, <2>4 DEF PaceInv
<1>4. CASE AskAgain
  <2>1. PICK t \in FetchTimes : Passed(t)
    BY <1>4 DEF AskAgain
  <2>2. /\ pc = "asking" /\ deadline' = deadline /\ host' = host /\ asked' = asked
        /\ pc' \in {"refused", "leaving"}
        /\ lastRetry' = [lastRetry EXCEPT ![host] = clock']
        /\ lastRetry \in [Hosts -> Nat \union {Never}] /\ host \in Hosts
    BY <1>4 DEF AskAgain, TypeOK
  <2>3. asked /\ asked' /\ deadline' # NoDeadline
    BY <2>2 DEF PaceInv
  <2>4. lastRetry'[host'] = clock'
    BY <2>2
  <2>5. ASSUME NEW h \in Hosts, lastRetry'[h] # Never
        PROVE  /\ deadline' # NoDeadline /\ lastRetry'[h] <= clock'
               /\ PacedSince(clock, lastRetry[h])' \/ (h = host' /\ asked')
    <3>1. CASE h = host
      <4>1. \A n \in Nat : n <= n
        OBVIOUS
      <4> QED
        BY <1>0, <2>2, <2>3, <2>4, <3>1, <4>1
    <3>2. CASE h # host
      <4>1. lastRetry'[h] = lastRetry[h] /\ lastRetry[h] # Never
        BY <2>2, <2>5, <3>2
      <4>2. PacedSince(clock, lastRetry[h])
        BY <3>2, <4>1 DEF PaceInv
      <4> QED
        BY <2>1, <2>2, <4>1, <4>2, RetryLasts, BackoffAssumption
    <3> QED
      BY <3>1, <3>2
  <2> QED
    BY <2>2, <2>3, <2>4, <2>5 DEF PaceInv
<1>5. CASE StopWaiting
  BY <1>5 DEF StopWaiting, PaceInv, PacedSince
<1>6. CASE Leave
  <2>1. /\ Passed(FloorOwed) /\ deadline' = deadline /\ lastRetry' = lastRetry
        /\ host' = host /\ pc = "leaving" /\ pc' = "idle" /\ asked' = FALSE
    BY <1>6 DEF Leave, Returned
  <2>2. ASSUME NEW h \in Hosts, lastRetry'[h] # Never
        PROVE  /\ deadline' # NoDeadline /\ lastRetry'[h] <= clock'
               /\ PacedSince(clock, lastRetry[h])'
    <3>1. lastRetry[h] # Never /\ lastRetry'[h] = lastRetry[h]
      BY <2>1, <2>2
    <3>2. /\ deadline' # NoDeadline /\ lastRetry'[h] <= clock'
          /\ PacedSince(clock, lastRetry[h]) => PacedSince(clock, lastRetry[h])'
      BY <2>1, <3>1, RetryLasts, FloorOwedIsNatural
    <3>3. CASE PacedSince(clock, lastRetry[h])
      BY <3>2, <3>3
    <3>4. CASE h = host /\ asked
      <4>1. lastRetry[h] = clock /\ deadline # NoDeadline
        BY <2>1, <3>4 DEF PaceInv
      <4>2. CASE FitsTheRun(Floor)
        <5>1. clock + Floor < Horizon
          BY <4>1, <4>2, BudgetType, BackoffAssumption DEF FitsTheRun
        <5>2. FloorOwed = Floor
          BY <3>4, <4>2 DEF FloorOwed
        <5>3. clock' = clock + Floor
          BY <1>0, <2>1, <5>1, <5>2, ClockMoves, BackoffAssumption
        <5>4. \A n, m, f \in Nat : m = n + f => m - n >= f
          OBVIOUS
        <5>5. clock' - lastRetry'[h] >= Floor
          BY <1>0, <3>1, <4>1, <5>3, <5>4, BackoffAssumption
        <5> QED
          BY <3>2, <5>5 DEF PacedSince
      <4>3. CASE ~ FitsTheRun(Floor)
        <5>1. ~ (clock - started + Floor < budget)
          BY <4>1, <4>3 DEF FitsTheRun
        <5>2. clock + Floor >= deadline
          BY <4>1, <5>1, BudgetType, PastTheEnd, BackoffAssumption
        <5>3. lastRetry'[h] + Floor >= deadline'
          BY <2>1, <3>1, <4>1, <5>2
        <5> QED
          BY <3>2, <5>3 DEF PacedSince
      <4> QED
        BY <4>2, <4>3
    <3> QED
      BY <3>1, <3>3, <3>4 DEF PaceInv
  <2> QED
    BY <2>1, <2>2 DEF PaceInv
<1>7. CASE UNCHANGED vars
  BY <1>7 DEF vars, call, PaceInv, PacedSince
<1> QED
  BY <1>1, <1>2, <1>3, <1>4, <1>5, <1>6, <1>7 DEF Next, Call

\* A retry is followed by the run's own pause before the caller asks that
\* server for anything else, unless the pause would outlast the run.
THEOREM RetriesKeepThePace == Spec => PaceIsKept
<1>1. Init => TypeOK /\ PaceInv
  BY TypeInit, PaceInit
<1>2. TypeOK /\ PaceInv /\ [Next]_vars => TypeOK' /\ PaceInv'
  BY TypeStep, PaceStep
<1>3. TypeOK /\ PaceInv
      => \A h \in Hosts :
            FirstAnswer(h) /\ lastRetry[h] # Never =>
               clock - lastRetry[h] >= Floor \/ lastRetry[h] + Floor >= deadline
  BY DEF FirstAnswer, PaceInv, PacedSince
<1> QED
  BY <1>1, <1>2, <1>3, PTL DEF Spec, PaceIsKept
==============================================================================
