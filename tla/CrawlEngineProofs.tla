-------------------------- MODULE CrawlEngineProofs --------------------------
(***************************************************************************)
(* Theorems about CrawlEngine, for every site, every robots.txt, every     *)
(* ceiling, hop limit, concurrency and queue, with a deadline or without.  *)
(* One inductive invariant carries them: where each page is while a crawl  *)
(* is under way, why it will have ended, and what recovery still owes.     *)
(***************************************************************************)
EXTENDS CrawlEngine, FiniteSetTheorems, TLAPS

-----------------------------------------------------------------------------
(* Lemmas about lists *)

\* SetToSeq lists a finite set, all of it.
LEMMA ListOfASet ==
    ASSUME NEW S, IsFiniteSet(S)
    PROVE  /\ SetToSeq(S) \in Seq(S)
           /\ \A x \in S : \E i \in DOMAIN SetToSeq(S) : SetToSeq(S)[i] = x
<1> DEFINE n == Cardinality(S)
           f == SetToSeq(S)
<1>1. n \in Nat /\ ExistsBijection(1 .. n, S)
  BY FS_CardinalityType
<1>2. \E g \in [1 .. n -> S] : IsInjective(g)
  BY <1>1 DEF ExistsBijection, Bijection, Injection
<1>3. f \in [1 .. n -> S] /\ IsInjective(f)
  BY <1>2 DEF SetToSeq
<1>4. f \in Seq(S)
  BY <1>1, <1>3
<1>5. Cardinality(1 .. n) = Cardinality(S)
  BY <1>1, FS_Interval
<1>6. f \in Injection(1 .. n, S)
  BY <1>3 DEF Injection
<1>7. f \in Surjection(1 .. n, S)
  BY <1>5, <1>6, FS_Injection, Zenon
<1> QED
  BY <1>3, <1>4, <1>7 DEF Surjection

\* Appending to a list of elements keeps it one; so does dropping its head.
LEMMA Lists ==
    ASSUME NEW S, NEW s \in Seq(S)
    PROVE  /\ s # <<>> => Head(s) \in S /\ Tail(s) \in Seq(S) /\ Len(Tail(s)) = Len(s) - 1
           /\ \A x \in S : Append(s, x) \in Seq(S) /\ Len(Append(s, x)) = Len(s) + 1
           /\ \A t \in Seq(S) : s \o t \in Seq(S)
           /\ Len(s) \in Nat
  OBVIOUS

-----------------------------------------------------------------------------
(* Type correctness *)

Entries == [page : Pages, depth : Nat]
Reports == [page : Pages, answer : Answers]

\* record_discovered_links keeps depths a number for every address in it.
LEMMA RecordedType ==
    ASSUME DOMAIN depths \subseteq Pages, \A q \in DOMAIN depths : depths[q] \in Nat,
           NEW p \in Pages, NEW d \in Nat
    PROVE  /\ DOMAIN Recorded(p, d) = DOMAIN depths \union Links[p]
           /\ DOMAIN Recorded(p, d) \subseteq Pages
           /\ \A q \in DOMAIN Recorded(p, d) : Recorded(p, d)[q] \in Nat
<1>1. Links[p] \subseteq Pages
  BY SeedAssumption
<1> QED
  BY <1>1 DEF Recorded

LEMMA HopsType ==
    ASSUME \A q \in DOMAIN depths : depths[q] \in Nat
    PROVE  \A p : Hops(p) \in Nat
  BY DEF Hops

\* The children of a recovered page are pages robots.txt lets through.
LEMMA ChildrenType ==
    ASSUME NEW p \in Pages, NEW d \in Nat
    PROVE  /\ ChildrenOf(p, d) \in Seq(Entries)
           /\ \A i \in DOMAIN ChildrenOf(p, d) : ChildrenOf(p, d)[i].page \in Allowed
           /\ \A i \in DOMAIN ChildrenOf(p, d) :
                 ChildrenOf(p, d)[i].page \in Links[p] /\ ChildrenOf(p, d)[i].depth = d + 1
           /\ \A q \in NewChildren(p) : \E i \in DOMAIN ChildrenOf(p, d) : ChildrenOf(p, d)[i].page = q
<1> DEFINE N == NewChildren(p)
           list == {[page |-> q, depth |-> d + 1] : q \in N}
           f == [q \in N |-> [page |-> q, depth |-> d + 1]]
<1>1. N \subseteq Pages /\ N \subseteq Allowed
  BY SeedAssumption DEF NewChildren
<1>2. IsFiniteSet(N)
  BY <1>1, SeedAssumption, FS_Subset
<1>3. /\ f \in [N -> list] /\ \A x \in list : \E q \in N : f[q] = x
      /\ \A q \in N : f[q].page = q
  OBVIOUS
<1>4. ChildrenOf(p, d) = SetToSeq(list)
  BY DEF ChildrenOf
<1>5. /\ SetToSeq(list) \in Seq(list)
      /\ \A q \in N : \E i \in DOMAIN SetToSeq(list) : SetToSeq(list)[i].page = q
  <2> HIDE DEF N, list, f
  <2>1. f \in Surjection(N, list)
    BY <1>3 DEF Surjection
  <2>2. IsFiniteSet(list)
    BY <1>2, <2>1, FS_Surjection
  <2>3. /\ SetToSeq(list) \in Seq(list)
        /\ \A x \in list : \E i \in DOMAIN SetToSeq(list) : SetToSeq(list)[i] = x
    BY <2>2, ListOfASet
  <2>4. \A q \in N : f[q] \in list
    BY <1>3
  <2> QED
    BY <2>3, <2>4, <1>3
<1>6. \A x \in list : x \in Entries /\ x.page \in Allowed /\ x.page \in Links[p] /\ x.depth = d + 1
  BY <1>1 DEF Entries, NewChildren
<1> HIDE DEF list, N
<1>7. SetToSeq(list) \in Seq(Entries)
  BY <1>5, <1>6
<1>8. \A i \in DOMAIN SetToSeq(list) : SetToSeq(list)[i] \in list
  BY <1>5
<1> QED
  BY <1>4, <1>5, <1>6, <1>7, <1>8 DEF N

LEMMA CandidatesType ==
    ASSUME TypeOK
    PROVE  /\ Candidates \subseteq Pages /\ Candidates \subseteq Allowed
           /\ SetToSeq({[page |-> p, depth |-> depths[p]] : p \in Candidates}) \in Seq(Entries)
           /\ \A i \in DOMAIN SetToSeq({[page |-> p, depth |-> depths[p]] : p \in Candidates}) :
                 LET x == SetToSeq({[page |-> p, depth |-> depths[p]] : p \in Candidates})[i] IN
                 x.page \in Allowed /\ x.page \in DOMAIN depths /\ x.depth = depths[x.page]
           /\ \A p \in Candidates :
                 \E i \in DOMAIN SetToSeq({[page |-> q, depth |-> depths[q]] : q \in Candidates}) :
                    SetToSeq({[page |-> q, depth |-> depths[q]] : q \in Candidates})[i].page = p
<1> DEFINE list == {[page |-> p, depth |-> depths[p]] : p \in Candidates}
<1>1. /\ Candidates \subseteq Pages /\ Candidates \subseteq Allowed
      /\ Candidates \subseteq DOMAIN depths
  BY DEF Candidates, TypeOK
<1>2. IsFiniteSet(Candidates)
  BY <1>1, SeedAssumption, FS_Subset
<1> DEFINE f == [p \in Candidates |-> [page |-> p, depth |-> depths[p]]]
<1>f. /\ f \in [Candidates -> list] /\ \A x \in list : \E p \in Candidates : f[p] = x
      /\ \A p \in Candidates : f[p].page = p
  OBVIOUS
<1>3. /\ SetToSeq(list) \in Seq(list)
      /\ \A p \in Candidates : \E i \in DOMAIN SetToSeq(list) : SetToSeq(list)[i].page = p
  <2> HIDE DEF list, f
  <2>1. f \in Surjection(Candidates, list)
    BY <1>f DEF Surjection
  <2>2. IsFiniteSet(list)
    BY <1>2, <2>1, FS_Surjection
  <2>3. /\ SetToSeq(list) \in Seq(list)
        /\ \A x \in list : \E i \in DOMAIN SetToSeq(list) : SetToSeq(list)[i] = x
    BY <2>2, ListOfASet
  <2>4. \A p \in Candidates : f[p] \in list
    BY <1>f
  <2> QED
    BY <2>3, <2>4, <1>f
<1>4. \A x \in list : /\ x \in Entries /\ x.page \in Allowed
                     /\ x.page \in DOMAIN depths /\ x.depth = depths[x.page]
  BY <1>1 DEF Entries, TypeOK
<1> HIDE DEF list
<1>5. SetToSeq(list) \in Seq(Entries) /\ \A i \in DOMAIN SetToSeq(list) : SetToSeq(list)[i] \in list
  BY <1>3, <1>4
<1>6. \A i \in DOMAIN SetToSeq(list) :
         LET x == SetToSeq(list)[i] IN
         x.page \in Allowed /\ x.page \in DOMAIN depths /\ x.depth = depths[x.page]
  BY <1>4, <1>5
<1> QED
  BY <1>1, <1>3, <1>5, <1>6 DEF list

\* The pages handed over can be counted.
LEMMA FetchedCounted ==
    ASSUME TypeOK PROVE Cardinality(fetched) \in Nat
<1>1. IsFiniteSet(fetched)
  BY SeedAssumption, FS_Subset DEF TypeOK
<1> QED
  BY <1>1, FS_CardinalityType

\* The queue holds at least one page.
LEMMA CapacityType == Capacity \in Nat \ {0}
<1>1. FetchConcurrency \in Nat /\ FetchConcurrency >= 1
  BY SeedAssumption DEF FetchConcurrency
<1>2. QueueFactor \in Nat /\ QueueFactor >= 1
  BY SeedAssumption
<1>3. \A m, n \in Nat : m >= 1 /\ n >= 1 => m * n \in Nat /\ m * n >= 1
  OBVIOUS
<1> QED
  BY <1>1, <1>2, <1>3 DEF Capacity

LEMMA TypeOKKept ==
    ASSUME TypeOK, [Next]_vars PROVE TypeOK'
<1> USE DEF crawler, pages, recovery, caller
<1>1. CASE UNCHANGED vars
  BY <1>1 DEF TypeOK, vars
<1>2. ASSUME NEW p \in Pages, EngineFetch(p) PROVE TypeOK'
  BY <1>2 DEF TypeOK, EngineFetch
<1>3. ASSUME NEW p \in Pages, NEW a \in Answers, EngineAnswer(p, a) PROVE TypeOK'
  <2>1. queue' \in Seq(Reports) /\ lost' \in Nat /\ sent' \in Nat
    <3>1. queue \in Seq(Reports) /\ lost \in Nat /\ sent \in Nat
      BY DEF TypeOK, Reports
    <3>2. [page |-> p, answer |-> a] \in Reports
      BY DEF Reports
    <3>3. CASE Len(queue) = Capacity
      <4>1. queue # <<>>
        BY <3>1, <3>3, CapacityType
      <4>2. Tail(queue) \in Seq(Reports)
        BY <3>1, <4>1
      <4> QED
        BY <1>3, <3>1, <3>2, <3>3, <4>2 DEF EngineAnswer
    <3>4. CASE Len(queue) # Capacity
      BY <1>3, <3>1, <3>2, <3>4 DEF EngineAnswer
    <3> QED
      BY <3>3, <3>4
  <2>2. DOMAIN depths' \subseteq Pages /\ \A q \in DOMAIN depths' : depths'[q] \in Nat
    <3>1. depths' = depths \/ depths' = Recorded(p, Hops(p))
      BY <1>3 DEF EngineAnswer
    <3>2. DOMAIN depths \subseteq Pages /\ \A q \in DOMAIN depths : depths[q] \in Nat
      BY DEF TypeOK
    <3>3. Hops(p) \in Nat
      BY <3>2, HopsType
    <3>4. /\ DOMAIN Recorded(p, Hops(p)) \subseteq Pages
          /\ \A q \in DOMAIN Recorded(p, Hops(p)) : Recorded(p, Hops(p))[q] \in Nat
      BY <3>2, <3>3, RecordedType
    <3> QED
      BY <3>1, <3>2, <3>4
  <2>3. frontier' \subseteq Pages /\ inflight' \subseteq Pages
    BY <1>3, SeedAssumption DEF TypeOK, EngineAnswer
  <2> QED
    BY <1>3, <2>1, <2>2, <2>3 DEF TypeOK, EngineAnswer, Reports
<1>4. ASSUME NEW p \in Pages, EngineAborts(p) PROVE TypeOK'
  BY <1>4 DEF TypeOK, EngineAborts
<1>5. CASE CrawlFinishes
  BY <1>5 DEF TypeOK, CrawlFinishes
<1>6. ASSUME NEW answer \in Answers, NEW halt \in BOOLEAN, Receive(answer, halt) PROVE TypeOK'
  <2>1. queue \in Seq(Reports) /\ queue # <<>>
    BY <1>6 DEF TypeOK, Reports, Receive
  <2>2. Head(queue) \in Reports /\ queue' \in Seq(Reports)
    BY <1>6, <2>1 DEF Receive
  <2> DEFINE p == Head(queue).page
  <2>3. p \in Pages
    BY <2>2 DEF Reports
  <2>4. DOMAIN depths' \subseteq Pages /\ \A q \in DOMAIN depths' : depths'[q] \in Nat
    <3>1. depths' = depths \/ depths' = Recorded(p, Hops(p))
      BY <1>6 DEF Receive
    <3>2. DOMAIN depths \subseteq Pages /\ \A q \in DOMAIN depths : depths[q] \in Nat
      BY DEF TypeOK
    <3>3. Hops(p) \in Nat
      BY <3>2, HopsType
    <3>4. /\ DOMAIN Recorded(p, Hops(p)) \subseteq Pages
          /\ \A q \in DOMAIN Recorded(p, Hops(p)) : Recorded(p, Hops(p))[q] \in Nat
      BY <2>3, <3>2, <3>3, RecordedType
    <3> QED
      BY <3>1, <3>2, <3>4
  <2>5. /\ fetched' = fetched \/ fetched' = fetched \union {p}
        /\ aimed' = aimed \/ aimed' = aimed \union {p}
    BY <1>6 DEF Receive
  <2>6. /\ calls' \in Nat /\ said' \in BOOLEAN
        /\ step' \in {"crawl", "drain", "flush", "stopped", "recover", "done"}
        /\ stopped' \in {"exhausted", "deadline", "caller"}
    BY <1>6 DEF Receive, HandOver, StopReason, TypeOK
  <2>7. taken' \in Nat
    BY <1>6 DEF Receive, TypeOK
  <2>8. UNCHANGED <<crawler, lost, sent, dropped, expired, recovery>>
    BY <1>6 DEF Receive
  <2> HIDE DEF p
  <2> QED
    BY <2>2, <2>3, <2>4, <2>5, <2>6, <2>7, <2>8 DEF TypeOK, Reports
<1>7. ASSUME NEW answer \in Answers, NEW halt \in BOOLEAN, Recover(answer, halt) PROVE TypeOK'
  <2> DEFINE p == Head(todo).page
             d == Head(todo).depth
  <2>1. todo \in Seq(Entries) /\ todo # <<>>
    BY <1>7 DEF TypeOK, Entries, Recover
  <2>2. Head(todo) \in Entries /\ Tail(todo) \in Seq(Entries)
    BY <2>1
  <2>3. p \in Pages /\ d \in Nat
    BY <2>2 DEF Entries
  <2>4. ChildrenOf(p, d) \in Seq(Entries)
    BY <2>3, ChildrenType
  <2>5. todo' \in Seq(Entries)
    <3>1. <<>> \in Seq(Entries)
      OBVIOUS
    <3>2. todo' = Tail(todo) \o ChildrenOf(p, d) \/ todo' = Tail(todo) \o <<>>
      BY <1>7 DEF Recover
    <3> HIDE DEF p, d
    <3> QED
      BY <2>2, <2>4, <3>1, <3>2, Lists
  <2>6. DOMAIN depths' \subseteq Pages /\ \A q \in DOMAIN depths' : depths'[q] \in Nat
    <3>1. depths' = depths \/ depths' = Recorded(p, d)
      BY <1>7 DEF Recover
    <3>2. DOMAIN depths \subseteq Pages /\ \A q \in DOMAIN depths : depths[q] \in Nat
      BY DEF TypeOK
    <3>3. /\ DOMAIN Recorded(p, d) \subseteq Pages
          /\ \A q \in DOMAIN Recorded(p, d) : Recorded(p, d)[q] \in Nat
      BY <2>3, <3>2, RecordedType
    <3> QED
      BY <3>1, <3>2, <3>3
  <2>7. {todo'[i].page : i \in DOMAIN todo'} \subseteq Pages
    <3>1. \A i \in DOMAIN todo' : todo'[i] \in Entries
      BY <2>5
    <3> QED
      BY <3>1 DEF Entries
  <2>8. missing' \subseteq Pages
    <3>1. missing' \subseteq missing \union {p} \union {todo'[i].page : i \in DOMAIN todo'}
      BY <1>7 DEF Recover
    <3> QED
      BY <2>3, <2>7, <3>1 DEF TypeOK
  <2>9. seen' \subseteq Pages
    <3>1. seen' = seen \/ seen' = seen \union Links[p]
      BY <1>7 DEF Recover
    <3> QED
      BY <2>3, <3>1, SeedAssumption DEF TypeOK
  <2>10. total' \in Nat /\ recovered' \in Nat
    BY <1>7 DEF Recover, TypeOK
  <2>11. /\ calls' \in Nat /\ said' \in BOOLEAN
         /\ step' \in {"crawl", "drain", "flush", "stopped", "recover", "done"}
         /\ stopped' \in {"exhausted", "deadline", "caller"}
    BY <1>7 DEF Recover, HandOver, StopReason, TypeOK
  <2>12. fetched' = fetched \union {p} /\ aimed' = aimed \union {p}
    BY <1>7 DEF Recover
  <2>13. UNCHANGED <<crawler, pages, dropped, expired, before, taken>>
    BY <1>7 DEF Recover
  <2> HIDE DEF p, d
  <2> QED
    BY <2>3, <2>5, <2>6, <2>8, <2>9, <2>10, <2>11, <2>12, <2>13 DEF TypeOK, Entries
<1>8. CASE Lagged
  BY <1>8 DEF TypeOK, Lagged
<1>9. CASE DeadlineFires
  BY <1>9 DEF TypeOK, DeadlineFires
<1>10. CASE CountUnread
  <2>1. Len(queue) \in Nat
    BY DEF TypeOK
  <2> QED
    BY <1>10, <2>1 DEF TypeOK, CountUnread, Unread
<1>11. CASE FlushEnds
  BY <1>11 DEF TypeOK, FlushEnds
<1>12. CASE QueueCloses
  <2>1. CASE Trustworthy
    <3>1. /\ step' = "recover" /\ seen' = Candidates
          /\ todo' = SetToSeq({[page |-> p, depth |-> depths[p]] : p \in Candidates})
          /\ total' = Cardinality(fetched) /\ before' = Cardinality(fetched)
      BY <1>12, <2>1 DEF QueueCloses, AlreadyFetched
    <3>2. todo' \in Seq(Entries) /\ seen' \subseteq Pages
      BY <3>1, CandidatesType
    <3>3. total' \in Nat /\ before' \in Nat
      BY <3>1, FetchedCounted
    <3>4. UNCHANGED <<crawler, pages, depths, fetched, stopped, dropped, expired,
                      recovered, missing, caller, taken, aimed>>
      BY <1>12 DEF QueueCloses
    <3> QED
      BY <3>1, <3>2, <3>3, <3>4 DEF TypeOK, Entries
  <2>2. CASE ~Trustworthy
    BY <1>12, <2>2 DEF TypeOK, QueueCloses
  <2> QED
    BY <2>1, <2>2
<1>13. CASE RecoveryEnds
  BY <1>13 DEF TypeOK, RecoveryEnds
<1>14. CASE TimeExpires
  BY <1>14 DEF TypeOK, TimeExpires
<1> QED
  BY <1>1, <1>2, <1>3, <1>4, <1>5, <1>6, <1>7, <1>8, <1>9, <1>10, <1>11, <1>12, <1>13, <1>14
  DEF Next, Adapter, Crawler

\* Type correctness, for every site and every setting.
THEOREM TypeCorrect == Spec => []TypeOK
<1>1. ASSUME Init PROVE TypeOK
  <2>1. queue \in Seq([page : Pages, answer : Answers]) /\ todo \in Seq([page : Pages, depth : Nat])
    BY <1>1 DEF Init
  <2>2. DOMAIN depths \subseteq Pages /\ \A p \in DOMAIN depths : depths[p] \in Nat
    BY <1>1, SeedAssumption DEF Init
  <2>3. frontier \subseteq Pages /\ inflight \subseteq Pages /\ asked \subseteq Pages
    BY <1>1, SeedAssumption DEF Init
  <2> QED
    BY <1>1, <2>1, <2>2, <2>3 DEF Init, TypeOK
<1>2. TypeOK /\ [Next]_vars => TypeOK'
  BY TypeOKKept
<1> QED
  BY <1>1, <1>2, PTL DEF Spec

-----------------------------------------------------------------------------
(* Every page sent is answered for *)

\* A page in the crawler's stream is in the queue, was read from it, or is
\* counted: overwritten or left unread.  Recovery starts on an empty queue.
Counted ==
    /\ sent = taken + Len(queue) + lost + dropped
    /\ step \in {"recover", "done"} => queue = <<>> /\ lost = 0

\* A page read, overwritten or queued keeps the sum.
LEMMA Balance ==
    ASSUME NEW s \in Nat, NEW t \in Nat, NEW q \in Nat, NEW l \in Nat, NEW d \in Nat,
           s = t + q + l + d
    PROVE  /\ s = (t + 1) + (q - 1) + l + d
           /\ s + 1 = t + q + (l + 1) + d /\ s + 1 = t + (q + 1) + l + d
  OBVIOUS

LEMMA CountedKept ==
    ASSUME TypeOK, Counted, [Next]_vars PROVE Counted'
<1> USE DEF crawler, pages, recovery, caller
<1>0. /\ queue \in Seq(Reports) /\ Len(queue) \in Nat
      /\ sent \in Nat /\ taken \in Nat /\ lost \in Nat /\ dropped \in Nat
  BY DEF TypeOK, Reports
<1>1. CASE UNCHANGED vars
  BY <1>1 DEF Counted, vars
<1>2. ASSUME NEW p \in Pages, EngineFetch(p) PROVE Counted'
  BY <1>2 DEF Counted, EngineFetch
<1>3. ASSUME NEW p \in Pages, NEW a \in Answers, EngineAnswer(p, a) PROVE Counted'
  <2>1. [page |-> p, answer |-> a] \in Reports
    BY DEF Reports
  <2>2. CASE Len(queue) = Capacity
    <3>1. queue # <<>>
      BY <1>0, <2>2, CapacityType
    <3>2. Tail(queue) \in Seq(Reports) /\ Len(Tail(queue)) = Len(queue) - 1
      BY <1>0, <3>1, Lists
    <3>3. queue' = Append(Tail(queue), [page |-> p, answer |-> a]) /\ lost' = lost + 1
      BY <1>3, <2>2 DEF EngineAnswer
    <3>4. Len(queue') = Len(queue)
      BY <1>0, <2>1, <3>2, <3>3
    <3>5. /\ sent' = sent + 1 /\ UNCHANGED <<taken, dropped, step>>
          /\ step \notin {"recover", "done"}
      BY <1>3 DEF EngineAnswer
    <3>6. sent = taken + Len(queue) + lost + dropped
      BY DEF Counted
    <3>7. sent' = taken' + Len(queue') + lost' + dropped'
      <4>1. sent + 1 = taken + Len(queue) + (lost + 1) + dropped
        BY <1>0, <3>6, Balance
      <4> QED
        BY <3>3, <3>4, <3>5, <4>1
    <3> QED
      BY <3>5, <3>7 DEF Counted
  <2>3. CASE Len(queue) # Capacity
    <3>1. Len(queue') = Len(queue) + 1 /\ lost' = lost
      BY <1>0, <1>3, <2>1, <2>3 DEF EngineAnswer
    <3>2. /\ sent' = sent + 1 /\ UNCHANGED <<taken, dropped, step>>
          /\ step \notin {"recover", "done"}
      BY <1>3 DEF EngineAnswer
    <3>3. sent = taken + Len(queue) + lost + dropped
      BY DEF Counted
    <3>4. sent + 1 = taken + (Len(queue) + 1) + lost + dropped
      BY <1>0, <3>3, Balance
    <3>5. sent' = taken' + Len(queue') + lost' + dropped'
      BY <3>1, <3>2, <3>4
    <3> QED
      BY <3>2, <3>5 DEF Counted
  <2> QED
    BY <2>2, <2>3
<1>4. ASSUME NEW p \in Pages, EngineAborts(p) PROVE Counted'
  BY <1>4 DEF Counted, EngineAborts
<1>5. CASE CrawlFinishes
  BY <1>5 DEF Counted, CrawlFinishes
<1>6. ASSUME NEW answer \in Answers, NEW halt \in BOOLEAN, Receive(answer, halt) PROVE Counted'
  <2>1. Len(Tail(queue)) = Len(queue) - 1
    BY <1>0, <1>6, Lists DEF Receive
  <2>2. /\ queue' = Tail(queue) /\ taken' = taken + 1
        /\ UNCHANGED <<lost, sent, dropped>>
        /\ step \notin {"recover", "done"} /\ (step' = step \/ step' = "stopped")
    BY <1>6 DEF Receive, HandOver, Reading
  <2>3. Len(queue') = Len(queue) - 1
    BY <2>1, <2>2
  <2>4. sent = taken + Len(queue) + lost + dropped
    BY DEF Counted
  <2>5. sent' = taken' + Len(queue') + lost' + dropped'
    <3>1. sent = (taken + 1) + (Len(queue) - 1) + lost + dropped
      BY <1>0, <2>4, Balance
    <3> QED
      BY <2>2, <2>3, <3>1
  <2> QED
    BY <2>2, <2>5 DEF Counted
<1>7. ASSUME NEW answer \in Answers, NEW halt \in BOOLEAN, Recover(answer, halt) PROVE Counted'
  BY <1>7 DEF Counted, Recover
<1>8. CASE Lagged
  BY <1>0, <1>8 DEF Counted, Lagged, Reading
<1>9. CASE DeadlineFires
  BY <1>9 DEF Counted, DeadlineFires
<1>10. CASE CountUnread
  BY <1>0, <1>10 DEF Counted, CountUnread, Unread
<1>11. CASE FlushEnds
  BY <1>11 DEF Counted, FlushEnds
<1>12. CASE QueueCloses
  BY <1>12 DEF Counted, QueueCloses
<1>13. CASE RecoveryEnds
  BY <1>13 DEF Counted, RecoveryEnds
<1>14. CASE TimeExpires
  BY <1>14 DEF Counted, TimeExpires
<1> QED
  BY <1>1, <1>2, <1>3, <1>4, <1>5, <1>6, <1>7, <1>8, <1>9, <1>10, <1>11, <1>12, <1>13, <1>14
  DEF Next, Adapter, Crawler

\* Nothing whose fetch was paid for goes unreported: at the end every page
\* the crawler sent was read or is in pages_dropped.
THEOREM PagesAreAnswered == Spec => []EveryPageSentIsAnswered
<1>1. Init => Counted
  BY DEF Init, Counted
<1>2. TypeOK /\ Counted /\ [Next]_vars => Counted'
  BY CountedKept
<1>3. TypeOK /\ Counted => EveryPageSentIsAnswered
  BY DEF TypeOK, Counted, EveryPageSentIsAnswered
<1> QED
  BY <1>1, <1>2, <1>3, TypeCorrect, PTL DEF Spec

-----------------------------------------------------------------------------
(* Why it ended *)

\* The reason the call will give, and what the caller has said by then.
Ended ==
    /\ step \in {"crawl", "drain", "flush", "recover"} => ~said
    /\ step \in {"crawl", "drain", "recover"} => stopped = "exhausted"
    /\ step = "flush" => stopped = "deadline"
    /\ step = "stopped" => said
    /\ IF said THEN stopped # "exhausted" ELSE stopped # "caller"

LEMMA EndedKept ==
    ASSUME TypeOK, Ended, [Next]_vars PROVE Ended'
<1> USE DEF crawler, pages, recovery, caller
<1>1. CASE UNCHANGED vars
  BY <1>1 DEF Ended, vars
<1>2. ASSUME NEW p \in Pages, EngineFetch(p) PROVE Ended'
  BY <1>2 DEF Ended, EngineFetch
<1>3. ASSUME NEW p \in Pages, NEW a \in Answers, EngineAnswer(p, a) PROVE Ended'
  BY <1>3 DEF Ended, EngineAnswer
<1>4. ASSUME NEW p \in Pages, EngineAborts(p) PROVE Ended'
  BY <1>4 DEF Ended, EngineAborts
<1>5. CASE CrawlFinishes
  BY <1>5 DEF Ended, CrawlFinishes
<1>6. ASSUME NEW answer \in Answers, NEW halt \in BOOLEAN, Receive(answer, halt) PROVE Ended'
  <2>1. step \in {"crawl", "drain", "flush"}
    BY <1>6 DEF Receive, Reading
  <2>2. CASE UNCHANGED <<step, stopped, caller>>
    BY <2>2 DEF Ended
  <2>3. CASE HandOver(halt)
    BY <2>1, <2>3 DEF Ended, HandOver, StopReason
  <2> QED
    BY <1>6, <2>2, <2>3 DEF Receive
<1>7. ASSUME NEW answer \in Answers, NEW halt \in BOOLEAN, Recover(answer, halt) PROVE Ended'
  <2>1. step = "recover" /\ HandOver(halt)
    BY <1>7 DEF Recover
  <2> QED
    BY <2>1 DEF Ended, HandOver, StopReason
<1>8. CASE Lagged
  BY <1>8 DEF Ended, Lagged
<1>9. CASE DeadlineFires
  BY <1>9 DEF Ended, DeadlineFires
<1>10. CASE CountUnread
  BY <1>10 DEF Ended, CountUnread
<1>11. CASE FlushEnds
  BY <1>11 DEF Ended, FlushEnds
<1>12. CASE QueueCloses
  BY <1>12 DEF Ended, QueueCloses, SenderDropped
<1>13. CASE RecoveryEnds
  BY <1>13 DEF Ended, RecoveryEnds
<1>14. CASE TimeExpires
  BY <1>14 DEF Ended, TimeExpires
<1> QED
  BY <1>1, <1>2, <1>3, <1>4, <1>5, <1>6, <1>7, <1>8, <1>9, <1>10, <1>11, <1>12, <1>13, <1>14
  DEF Next, Adapter, Crawler

\* What the contract calls the end of a call.
Told == IF step = "done" THEN stopped ELSE "running"

LEMMA ContractStep ==
    ASSUME TypeOK, Ended, [Next]_vars PROVE [Contract!Next]_(Contract!contract)
<1> USE DEF crawler, pages, recovery, caller
<1> DEFINE Quiet == UNCHANGED <<calls, said>> /\ Told' = Told
<1>0. stopped \in {"exhausted", "deadline", "caller"}
  BY DEF TypeOK
<1>1. CASE UNCHANGED vars
  BY <1>1 DEF vars, Contract!contract
<1>2. ASSUME NEW p \in Pages, EngineFetch(p) PROVE Quiet
  BY <1>2 DEF EngineFetch, Told
<1>3. ASSUME NEW p \in Pages, NEW a \in Answers, EngineAnswer(p, a) PROVE Quiet
  BY <1>3 DEF EngineAnswer, Told
<1>4. ASSUME NEW p \in Pages, EngineAborts(p) PROVE Quiet
  BY <1>4 DEF EngineAborts, Told
<1>5. ASSUME CrawlFinishes PROVE Quiet
  BY <1>5 DEF CrawlFinishes, Told
<1>6. ASSUME NEW answer \in Answers, NEW halt \in BOOLEAN, Receive(answer, halt)
      PROVE Quiet \/ Contract!HandOver
  <2>1. step \in {"crawl", "drain", "flush"}
    BY <1>6 DEF Receive, Reading
  <2>2. CASE UNCHANGED <<step, stopped, caller>>
    BY <2>2 DEF Told
  <2>3. CASE HandOver(halt)
    BY <2>1, <2>3 DEF Ended, HandOver, Contract!HandOver
  <2> QED
    BY <1>6, <2>2, <2>3 DEF Receive
<1>7. ASSUME NEW answer \in Answers, NEW halt \in BOOLEAN, Recover(answer, halt)
      PROVE Contract!HandOver
  <2>1. step = "recover" /\ HandOver(halt)
    BY <1>7 DEF Recover
  <2> QED
    BY <2>1 DEF Ended, HandOver, Contract!HandOver
<1>8. ASSUME Lagged PROVE Quiet
  BY <1>8 DEF Lagged, Told
<1>9. ASSUME DeadlineFires PROVE Quiet
  BY <1>9 DEF DeadlineFires, Told
<1>10. ASSUME CountUnread PROVE Contract!Return
  BY <1>0, <1>10 DEF Ended, CountUnread, Contract!Return
<1>11. ASSUME FlushEnds PROVE Contract!Return
  BY <1>11 DEF Ended, FlushEnds, Contract!Return
<1>12. ASSUME QueueCloses PROVE Quiet \/ Contract!Return
  BY <1>12 DEF Ended, QueueCloses, SenderDropped, Told, Contract!Return
<1>13. ASSUME RecoveryEnds PROVE Contract!Return
  BY <1>13 DEF Ended, RecoveryEnds, Contract!Return
<1>14. ASSUME TimeExpires PROVE Quiet
  BY <1>14 DEF TimeExpires, Told
<1>15. Next => Quiet \/ Contract!HandOver \/ Contract!Return
  <2> HIDE DEF Quiet
  <2> QED
    BY <1>2, <1>3, <1>4, <1>5, <1>6, <1>7, <1>8, <1>9, <1>10, <1>11, <1>12, <1>13, <1>14
    DEF Next, Adapter, Crawler
<1> QED
  BY <1>1, <1>15 DEF Contract!Next, Contract!contract, Told

\* The adapter is the engine the archive is promised: one page at a time
\* while the call runs, none after a stop, and a true reason at the end.
THEOREM AdapterIsAnEngine == Spec => ImplementsEngineContract
<1>1. Init => Contract!Init
  BY DEF Init, Contract!Init
<1>2. Init => Ended
  BY DEF Init, Ended
<1>3. TypeOK /\ Ended /\ [Next]_vars => Ended'
  BY EndedKept
<1>4. TypeOK /\ Ended /\ [Next]_vars => [Contract!Next]_(Contract!contract)
  BY ContractStep
<1> QED
  BY <1>1, <1>2, <1>3, <1>4, TypeCorrect, PTL DEF Spec, ImplementsEngineContract, Contract!Spec

-----------------------------------------------------------------------------
(* What robots.txt refuses *)

Asked == [page : asked, answer : Answers]
Owed == [page : Allowed, depth : Nat]

\* Where a page can be: what is queued was asked for, what is handed over or
\* waits for recovery was let through, and nothing is handed over unasked.
Contents ==
    /\ inflight \subseteq asked /\ queue \in Seq(Asked)
    /\ fetched \subseteq Allowed /\ aimed \subseteq Allowed /\ todo \in Seq(Owed)
    /\ fetched \subseteq asked \union aimed

\* A list of elements of a set is one of elements of a larger set.
LEMMA ListsGrow ==
    ASSUME NEW S, NEW T, S \subseteq T, NEW s \in Seq(S)
    PROVE  s \in Seq(T)
  OBVIOUS

\* A sequence with every element in a set is a list of that set.
LEMMA ListOf ==
    ASSUME NEW S, NEW T, NEW s \in Seq(S), \A i \in DOMAIN s : s[i] \in T
    PROVE  s \in Seq(T)
  OBVIOUS

LEMMA ContentsKept ==
    ASSUME TypeOK, Contents, [Next]_vars PROVE Contents'
<1> USE DEF crawler, pages, recovery, caller
<1>1. CASE UNCHANGED vars
  BY <1>1 DEF Contents, Asked, vars
<1>2. ASSUME NEW p \in Pages, EngineFetch(p) PROVE Contents'
  <2>1. Asked \subseteq Asked' /\ queue \in Seq(Asked)
    BY <1>2 DEF Asked, EngineFetch, Contents
  <2>2. queue \in Seq(Asked')
    BY <2>1, ListsGrow
  <2> QED
    BY <1>2, <2>2 DEF Contents, EngineFetch
<1>3. ASSUME NEW p \in Pages, NEW a \in Answers, EngineAnswer(p, a) PROVE Contents'
  <2>1. [page |-> p, answer |-> a] \in Asked /\ queue \in Seq(Asked)
    BY <1>3 DEF Asked, EngineAnswer, Contents
  <2>2. Asked' = Asked
    BY <1>3 DEF Asked, EngineAnswer
  <2>3. CASE Len(queue) = Capacity
    <3>1. queue # <<>>
      BY <2>1, <2>3, CapacityType
    <3>2. Tail(queue) \in Seq(Asked)
      BY <2>1, <3>1
    <3>3. queue' = Append(Tail(queue), [page |-> p, answer |-> a])
      BY <1>3, <2>3 DEF EngineAnswer
    <3>4. queue' \in Seq(Asked)
      BY <2>1, <3>2, <3>3
    <3> QED
      BY <1>3, <2>2, <3>4 DEF Contents, EngineAnswer
  <2>4. CASE Len(queue) # Capacity
    <3>1. queue' = Append(queue, [page |-> p, answer |-> a])
      BY <1>3, <2>4 DEF EngineAnswer
    <3>2. queue' \in Seq(Asked)
      BY <2>1, <3>1
    <3> QED
      BY <1>3, <2>2, <3>2 DEF Contents, EngineAnswer
  <2> QED
    BY <2>3, <2>4
<1>4. ASSUME NEW p \in Pages, EngineAborts(p) PROVE Contents'
  BY <1>4 DEF Contents, Asked, EngineAborts
<1>5. CASE CrawlFinishes
  BY <1>5 DEF Contents, Asked, CrawlFinishes
<1>6. ASSUME NEW answer \in Answers, NEW halt \in BOOLEAN, Receive(answer, halt) PROVE Contents'
  <2> DEFINE p == Head(queue).page
  <2>1. queue \in Seq(Asked) /\ queue # <<>>
    BY <1>6 DEF Receive, Contents
  <2>2. Head(queue) \in Asked /\ Tail(queue) \in Seq(Asked)
    BY <2>1
  <2>3. p \in asked
    BY <2>2 DEF Asked
  <2>4. UNCHANGED <<crawler, recovery>> /\ queue' = Tail(queue)
    BY <1>6 DEF Receive
  <2>5. \/ fetched' = fetched /\ aimed' = aimed
        \/ /\ p \in Allowed /\ fetched' = fetched \union {p}
           /\ aimed' = aimed \/ aimed' = aimed \union {p}
    BY <1>6 DEF Receive, Admitted
  <2>6. Asked' = Asked
    BY <2>4 DEF Asked
  <2> HIDE DEF p
  <2> QED
    BY <2>2, <2>3, <2>4, <2>5, <2>6 DEF Contents
<1>7. ASSUME NEW answer \in Answers, NEW halt \in BOOLEAN, Recover(answer, halt) PROVE Contents'
  <2> DEFINE p == Head(todo).page
             d == Head(todo).depth
  <2>1. todo \in Seq(Owed) /\ todo # <<>>
    BY <1>7 DEF Recover, Contents
  <2>2. Head(todo) \in Owed /\ Tail(todo) \in Seq(Owed)
    BY <2>1
  <2>3. p \in Allowed /\ p \in Pages /\ d \in Nat
    BY <2>2, SeedAssumption DEF Owed
  <2>4. ChildrenOf(p, d) \in Seq(Owed)
    <3>1. /\ ChildrenOf(p, d) \in Seq(Entries)
          /\ \A i \in DOMAIN ChildrenOf(p, d) : ChildrenOf(p, d)[i].page \in Allowed
      BY <2>3, ChildrenType
    <3>2. \A i \in DOMAIN ChildrenOf(p, d) : ChildrenOf(p, d)[i] \in Entries
      BY <3>1
    <3>3. \A i \in DOMAIN ChildrenOf(p, d) : ChildrenOf(p, d)[i] \in Owed
      BY <3>1, <3>2 DEF Owed, Entries
    <3> HIDE DEF p, d
    <3> QED
      BY <3>1, <3>3, ListOf
  <2>5. todo' \in Seq(Owed)
    <3>1. <<>> \in Seq(Owed)
      OBVIOUS
    <3>2. todo' = Tail(todo) \o ChildrenOf(p, d) \/ todo' = Tail(todo) \o <<>>
      BY <1>7 DEF Recover
    <3> HIDE DEF p, d
    <3> QED
      BY <2>2, <2>4, <3>1, <3>2, Lists
  <2>6. fetched' = fetched \union {p} /\ aimed' = aimed \union {p}
    BY <1>7 DEF Recover
  <2>7. UNCHANGED <<crawler, pages>>
    BY <1>7 DEF Recover
  <2>8. Asked' = Asked
    BY <2>7 DEF Asked
  <2> HIDE DEF p, d
  <2> QED
    BY <2>3, <2>5, <2>6, <2>7, <2>8 DEF Contents
<1>8. CASE Lagged
  BY <1>8 DEF Contents, Asked, Lagged
<1>9. CASE DeadlineFires
  BY <1>9 DEF Contents, Asked, DeadlineFires
<1>10. CASE CountUnread
  <2>1. queue' \in Seq(Asked')
    BY <1>10 DEF CountUnread
  <2> QED
    BY <1>10, <2>1 DEF Contents, CountUnread
<1>11. CASE FlushEnds
  BY <1>11 DEF Contents, Asked, FlushEnds
<1>12. CASE QueueCloses
  <2>1. todo' \in Seq(Owed)
    <3>1. CASE Trustworthy
      <4> DEFINE list == SetToSeq({[page |-> p, depth |-> depths[p]] : p \in Candidates})
      <4>1. list \in Seq(Entries) /\ \A i \in DOMAIN list : list[i].page \in Allowed
        BY CandidatesType
      <4>2. todo' = list
        BY <1>12, <3>1 DEF QueueCloses
      <4> HIDE DEF list
      <4>3. \A i \in DOMAIN list : list[i] \in Entries
        BY <4>1
      <4>4. \A i \in DOMAIN list : list[i] \in Owed
        BY <4>1, <4>3 DEF Owed, Entries
      <4>5. list \in Seq(Owed)
        BY <4>1, <4>4, ListOf
      <4> QED
        BY <4>2, <4>5
    <3>2. CASE ~Trustworthy
      BY <1>12, <3>2 DEF QueueCloses, Contents
    <3> QED
      BY <3>1, <3>2
  <2>2. UNCHANGED <<crawler, pages, fetched, aimed>>
    BY <1>12 DEF QueueCloses
  <2>3. Asked' = Asked
    BY <2>2 DEF Asked
  <2> QED
    BY <2>1, <2>2, <2>3 DEF Contents
<1>13. CASE RecoveryEnds
  BY <1>13 DEF Contents, Asked, RecoveryEnds
<1>14. CASE TimeExpires
  BY <1>14 DEF Contents, Asked, TimeExpires
<1> QED
  BY <1>1, <1>2, <1>3, <1>4, <1>5, <1>6, <1>7, <1>8, <1>9, <1>10, <1>11, <1>12, <1>13, <1>14
  DEF Next, Adapter, Crawler

LEMMA ContentsAlways == Spec => []Contents
<1>1. ASSUME Init PROVE Contents
  <2>1. queue \in Seq(Asked) /\ todo \in Seq(Owed)
    BY <1>1 DEF Init
  <2> QED
    BY <1>1, <2>1 DEF Init, Contents
<1>2. TypeOK /\ Contents /\ [Next]_vars => Contents'
  BY ContentsKept
<1> QED
  BY <1>1, <1>2, TypeCorrect, PTL DEF Spec

\* A page robots.txt refuses is never handed over and never asked for by the
\* adapter itself.
THEOREM RefusedIsWithheld == Spec => []RefusedIsNeverDelivered
<1>1. Contents => RefusedIsNeverDelivered
  BY DEF Contents, RefusedIsNeverDelivered
<1> QED
  BY <1>1, ContentsAlways, PTL

-----------------------------------------------------------------------------
(* The page ceiling *)

\* Before recovery nothing is recovered; from then on the total it is held
\* to is what the crawl had fetched and what it added.
Ceiling ==
    /\ step \in {"crawl", "drain", "flush"} => recovered = 0
    /\ recovered > 0 => total = before + recovered /\ total <= MaxPages
    /\ step = "recover" => total = before + recovered

LEMMA CeilingKept ==
    ASSUME TypeOK, Ceiling, [Next]_vars PROVE Ceiling'
<1> USE DEF crawler, pages, recovery, caller
<1>0. /\ total \in Nat /\ before \in Nat /\ recovered \in Nat /\ MaxPages \in Nat
  BY SeedAssumption DEF TypeOK
<1>1. CASE UNCHANGED vars
  BY <1>1 DEF Ceiling, vars
<1>2. ASSUME NEW p \in Pages, EngineFetch(p) PROVE Ceiling'
  BY <1>2 DEF Ceiling, EngineFetch
<1>3. ASSUME NEW p \in Pages, NEW a \in Answers, EngineAnswer(p, a) PROVE Ceiling'
  BY <1>3 DEF Ceiling, EngineAnswer
<1>4. ASSUME NEW p \in Pages, EngineAborts(p) PROVE Ceiling'
  BY <1>4 DEF Ceiling, EngineAborts
<1>5. CASE CrawlFinishes
  BY <1>5 DEF Ceiling, CrawlFinishes
<1>6. ASSUME NEW answer \in Answers, NEW halt \in BOOLEAN, Receive(answer, halt) PROVE Ceiling'
  <2>1. step \in {"crawl", "drain", "flush"} /\ (step' = step \/ step' = "stopped")
    BY <1>6 DEF Receive, Reading, HandOver
  <2>2. UNCHANGED recovery
    BY <1>6 DEF Receive
  <2> QED
    BY <2>1, <2>2 DEF Ceiling
<1>7. ASSUME NEW answer \in Answers, NEW halt \in BOOLEAN, Recover(answer, halt) PROVE Ceiling'
  <2>1. /\ step = "recover" /\ (step' = "recover" \/ step' = "stopped")
        /\ before' = before /\ total < MaxPages
    BY <1>7 DEF Recover, HandOver
  <2>2. \/ total' = total /\ recovered' = recovered
        \/ total' = total + 1 /\ recovered' = recovered + 1
    BY <1>7 DEF Recover
  <2>3. /\ total = before + recovered
        /\ total + 1 = before + (recovered + 1) /\ total + 1 <= MaxPages
    BY <1>0, <2>1 DEF Ceiling
  <2>4. total' = before' + recovered' /\ total' <= MaxPages
    <3>1. CASE total' = total /\ recovered' = recovered
      BY <1>0, <2>1, <2>3, <3>1
    <3>2. CASE total' = total + 1 /\ recovered' = recovered + 1
      BY <2>1, <2>3, <3>2
    <3> QED
      BY <2>2, <3>1, <3>2
  <2> QED
    BY <2>1, <2>4 DEF Ceiling
<1>8. CASE Lagged
  BY <1>8 DEF Ceiling, Lagged
<1>9. CASE DeadlineFires
  BY <1>9 DEF Ceiling, DeadlineFires
<1>10. CASE CountUnread
  BY <1>10 DEF Ceiling, CountUnread
<1>11. CASE FlushEnds
  BY <1>11 DEF Ceiling, FlushEnds
<1>12. CASE QueueCloses
  <2>1. step = "drain" /\ recovered = 0 /\ recovered' = recovered
    BY <1>12 DEF Ceiling, QueueCloses, SenderDropped
  <2>2. CASE step' = "recover" /\ total' = before'
    <3>1. before' \in Nat
      BY <1>12, TypeOKKept DEF TypeOK
    <3>2. \A n \in Nat : n = n + 0
      OBVIOUS
    <3>3. before' = before' + 0
      BY <3>1, <3>2
    <3>4. recovered' = 0 /\ ~(recovered' > 0)
      BY <2>1
    <3>5. total' = before' + recovered'
      BY <2>2, <3>3, <3>4
    <3> QED
      BY <3>4, <3>5 DEF Ceiling
  <2>3. CASE step' = "done"
    BY <2>1, <2>3 DEF Ceiling
  <2> QED
    BY <1>12, <2>2, <2>3 DEF QueueCloses, AlreadyFetched
<1>13. CASE RecoveryEnds
  BY <1>13 DEF Ceiling, RecoveryEnds
<1>14. CASE TimeExpires
  BY <1>14 DEF Ceiling, TimeExpires
<1> QED
  BY <1>1, <1>2, <1>3, <1>4, <1>5, <1>6, <1>7, <1>8, <1>9, <1>10, <1>11, <1>12, <1>13, <1>14
  DEF Next, Adapter, Crawler

LEMMA CeilingAlways == Spec => []CeilingCoversRecovery
<1>1. Init => Ceiling
  BY SeedAssumption DEF Init, Ceiling
<1>2. TypeOK /\ Ceiling /\ [Next]_vars => Ceiling'
  BY CeilingKept
<1>3. Ceiling => CeilingCoversRecovery
  BY DEF Ceiling, CeilingCoversRecovery
<1> QED
  BY <1>1, <1>2, <1>3, TypeCorrect, PTL DEF Spec

-----------------------------------------------------------------------------
(* The hop limit *)

\* A walk to p goes on to whatever p names, and the empty walk is one.
LEMMA WithinNext ==
    ASSUME NEW p \in Pages, NEW n \in Nat, Within(p, n), NEW q \in Links[p]
    PROVE  Within(q, n + 1)
<1>1. PICK k \in 0 .. n : \E walk \in [0 .. k -> Pages] :
         /\ walk[0] = Start /\ walk[k] = p
         /\ \A i \in 1 .. k : walk[i] \in Links[walk[i - 1]]
  BY DEF Within
<1>2. PICK walk \in [0 .. k -> Pages] :
         /\ walk[0] = Start /\ walk[k] = p
         /\ \A i \in 1 .. k : walk[i] \in Links[walk[i - 1]]
  BY <1>1
<1>3. q \in Pages
  BY SeedAssumption
<1> DEFINE longer == [i \in 0 .. k + 1 |-> IF i = k + 1 THEN q ELSE walk[i]]
<1>4. k \in Nat /\ k + 1 \in 0 .. n + 1
  OBVIOUS
<1>5. longer \in [0 .. k + 1 -> Pages]
  BY <1>2, <1>3, <1>4
<1>6. longer[0] = Start /\ longer[k + 1] = q
  BY <1>2, <1>4
<1>7. ASSUME NEW i \in 1 .. k + 1 PROVE longer[i] \in Links[longer[i - 1]]
  <2>1. CASE i = k + 1
    <3>1. longer[i] = q /\ longer[i - 1] = walk[k]
      BY <1>4, <2>1
    <3> QED
      BY <1>2, <3>1
  <2>2. CASE i # k + 1
    <3>1. i \in 1 .. k /\ longer[i] = walk[i] /\ longer[i - 1] = walk[i - 1]
      BY <1>4, <2>2
    <3> QED
      BY <1>2, <3>1
  <2> QED
    BY <2>1, <2>2
<1> HIDE DEF longer
<1> QED
  BY <1>4, <1>5, <1>6, <1>7 DEF Within

LEMMA WithinStart == Within(Start, 0)
<1> DEFINE walk == [i \in 0 .. 0 |-> Start]
<1>1. walk \in [0 .. 0 -> Pages] /\ walk[0] = Start
  BY SeedAssumption
<1>2. \A i \in 1 .. 0 : walk[i] \in Links[walk[i - 1]]
  OBVIOUS
<1> HIDE DEF walk
<1> QED
  BY <1>1, <1>2 DEF Within

LEMMA WithinMore ==
    ASSUME NEW p, NEW m \in Nat, NEW n \in Nat, m <= n, Within(p, m)
    PROVE  Within(p, n)
<1>1. 0 .. m \subseteq 0 .. n
  OBVIOUS
<1> QED
  BY <1>1, Zenon DEF Within

\* Every distance on record is that of some walk, and not past the limit.
Measured == \A p \in DOMAIN depths : depths[p] <= MaxDepth /\ Within(p, depths[p])

\* What waits for recovery, at a distance some walk has.
Waiting == {e \in Entries : /\ e.page \in DOMAIN depths /\ e.depth <= MaxDepth
                            /\ Within(e.page, e.depth)}

\* As long as no page that declares a base was fetched, every address the
\* crawl knows of has a distance on record.
HopsKept ==
    DeclaresBase \intersect asked = {} =>
        /\ Measured
        /\ frontier \union asked \union aimed \subseteq DOMAIN depths
        /\ todo \in Seq(Waiting)

\* record_discovered_links keeps distances true.
LEMMA RecordedMeasured ==
    ASSUME TypeOK, Measured, NEW p \in Pages, NEW d \in Nat, Expands(d), Within(p, d)
    PROVE  \A q \in DOMAIN Recorded(p, d) :
              Recorded(p, d)[q] <= MaxDepth /\ Within(q, Recorded(p, d)[q])
<1> TAKE q \in DOMAIN Recorded(p, d)
<1>1. q \in DOMAIN depths \union Links[p]
  BY DEF Recorded
<1>2. \/ q \in DOMAIN depths /\ Recorded(p, d)[q] = depths[q]
      \/ q \in Links[p] /\ Recorded(p, d)[q] = d + 1
  BY <1>1 DEF Recorded
<1>3. CASE q \in DOMAIN depths /\ Recorded(p, d)[q] = depths[q]
  BY <1>3 DEF Measured
<1>4. CASE q \in Links[p] /\ Recorded(p, d)[q] = d + 1
  <2>1. Within(q, d + 1)
    BY <1>4, WithinNext
  <2>2. d + 1 <= MaxDepth
    BY SeedAssumption DEF Expands
  <2> QED
    BY <1>4, <2>1, <2>2
<1> QED
  BY <1>2, <1>3, <1>4

LEMMA HopsKeptKept ==
    ASSUME TypeOK, Contents, HopsKept, [Next]_vars PROVE HopsKept'
<1> USE DEF crawler, pages, recovery, caller
<1> SUFFICES ASSUME DeclaresBase \intersect asked' = {}
             PROVE  /\ Measured'
                    /\ (frontier \union asked \union aimed \subseteq DOMAIN depths)'
                    /\ (todo \in Seq(Waiting))'
  BY DEF HopsKept
<1>a. asked \subseteq asked'
  BY DEF Next, Adapter, Crawler, vars, EngineFetch, EngineAborts, EngineAnswer, CrawlFinishes, Receive,
         Recover, Lagged, DeadlineFires, CountUnread, FlushEnds, QueueCloses, RecoveryEnds, TimeExpires
<1>b. /\ Measured
      /\ frontier \union asked \union aimed \subseteq DOMAIN depths
      /\ todo \in Seq(Waiting)
  BY <1>a DEF HopsKept
<1>c. /\ DOMAIN depths \subseteq Pages /\ \A q \in DOMAIN depths : depths[q] \in Nat
  BY DEF TypeOK
<1> DEFINE Goal == /\ Measured'
                   /\ (frontier \union asked \union aimed \subseteq DOMAIN depths)'
                   /\ (todo \in Seq(Waiting))'
\* A step that leaves the distances alone.
<1>d. ASSUME depths' = depths, todo' = todo,
             (frontier \union asked \union aimed)' \subseteq DOMAIN depths
      PROVE  Goal
  <2>1. Waiting' = Waiting /\ Measured'
    BY <1>b, <1>d DEF Waiting, Measured
  <2> QED
    BY <1>b, <1>d, <2>1
\* A step that records the links of p at d.
<1>e. ASSUME NEW p \in Pages, NEW d \in Nat, Expands(d), Within(p, d), depths' = Recorded(p, d)
      PROVE  /\ Measured' /\ DOMAIN depths' = DOMAIN depths \union Links[p]
             /\ Waiting \subseteq Waiting'
  <2>1. Measured'
    <3>1. \A q \in DOMAIN depths' : depths'[q] <= MaxDepth /\ Within(q, depths'[q])
      BY <1>b, <1>e, RecordedMeasured
    <3> QED
      BY <3>1 DEF Measured
  <2>2. DOMAIN depths' = DOMAIN depths \union Links[p]
    BY <1>c, <1>e, RecordedType
  <2> QED
    BY <2>1, <2>2 DEF Waiting
<1>1. ASSUME UNCHANGED vars PROVE Goal
  BY <1>1, <1>b, <1>d DEF vars
<1>2. ASSUME NEW p \in Pages, EngineFetch(p) PROVE Goal
  BY <1>2, <1>b, <1>d DEF EngineFetch
<1>3. ASSUME NEW p \in Pages, NEW a \in Answers, EngineAnswer(p, a) PROVE Goal
  <2>1. p \in asked /\ p \in DOMAIN depths /\ p \notin DeclaresBase
    BY <1>3, <1>a, <1>b DEF EngineAnswer, Contents
  <2>2. Hops(p) = depths[p] /\ Hops(p) \in Nat /\ Within(p, Hops(p))
    BY <1>b, <1>c, <2>1 DEF Hops, Measured
  <2>3. UNCHANGED <<asked, aimed, todo>>
    BY <1>3 DEF EngineAnswer
  <2>4. CASE a = "page" /\ Expands(Hops(p))
    <3>1. depths' = Recorded(p, Hops(p)) /\ frontier' \subseteq frontier \union Links[p]
      BY <1>3, <2>1, <2>4 DEF EngineAnswer
    <3>2. /\ Measured' /\ DOMAIN depths' = DOMAIN depths \union Links[p]
          /\ Waiting \subseteq Waiting'
      BY <1>e, <2>2, <2>4, <3>1
    <3>3. todo' \in Seq(Waiting')
      BY <1>b, <2>3, <3>2, ListsGrow
    <3> QED
      BY <1>b, <2>3, <3>1, <3>2, <3>3
  <2>5. CASE ~(a = "page" /\ Expands(Hops(p)))
    <3>1. depths' = depths /\ frontier' = frontier
      BY <1>3, <2>5 DEF EngineAnswer
    <3> QED
      BY <1>b, <1>d, <2>3, <3>1
  <2> QED
    BY <2>4, <2>5
<1>4. ASSUME NEW p \in Pages, EngineAborts(p) PROVE Goal
  BY <1>4, <1>b, <1>d DEF EngineAborts
<1>5. ASSUME CrawlFinishes PROVE Goal
  BY <1>5, <1>b, <1>d DEF CrawlFinishes
<1>6. ASSUME NEW answer \in Answers, NEW halt \in BOOLEAN, Receive(answer, halt) PROVE Goal
  <2> DEFINE p == Head(queue).page
  <2>1. p \in asked
    <3>1. queue \in Seq(Asked) /\ queue # <<>>
      BY <1>6 DEF Receive, Contents
    <3>2. Head(queue) \in Asked
      BY <3>1
    <3> QED
      BY <3>2 DEF Asked
  <2>2. /\ UNCHANGED <<frontier, asked, todo>>
        /\ aimed' = aimed \/ aimed' = aimed \union {p}
        /\ \/ depths' = depths
           \/ Expands(Hops(p)) /\ depths' = Recorded(p, Hops(p))
    BY <1>6 DEF Receive
  <2> HIDE DEF p
  <2>3. p \in DOMAIN depths /\ p \in Pages
    BY <1>b, <1>c, <2>1
  <2>4. Hops(p) = depths[p] /\ Hops(p) \in Nat /\ Within(p, Hops(p))
    BY <1>b, <1>c, <2>3 DEF Hops, Measured
  <2>5. CASE depths' = depths
    BY <1>b, <1>d, <2>2, <2>3, <2>5
  <2>6. CASE Expands(Hops(p)) /\ depths' = Recorded(p, Hops(p))
    <3>1. /\ Measured' /\ DOMAIN depths' = DOMAIN depths \union Links[p]
          /\ Waiting \subseteq Waiting'
      BY <1>e, <2>3, <2>4, <2>6
    <3>2. todo' \in Seq(Waiting')
      BY <1>b, <2>2, <3>1, ListsGrow
    <3> QED
      BY <1>b, <2>2, <2>3, <3>1, <3>2
  <2> QED
    BY <2>2, <2>5, <2>6
<1>7. ASSUME NEW answer \in Answers, NEW halt \in BOOLEAN, Recover(answer, halt) PROVE Goal
  <2> DEFINE p == Head(todo).page
             d == Head(todo).depth
             more == answer = "page" /\ Expands(d)
  <2>1. todo # <<>>
    BY <1>7 DEF Recover
  <2>2. Head(todo) \in Waiting /\ Tail(todo) \in Seq(Waiting)
    BY <1>b, <2>1
  <2>3. p \in Pages /\ d \in Nat /\ p \in DOMAIN depths /\ Within(p, d)
    BY <2>2 DEF Waiting, Entries
  <2>4. UNCHANGED <<frontier, asked>> /\ aimed' = aimed \union {p}
    BY <1>7 DEF Recover
  <2>5. CASE ~more
    <3>1. depths' = depths /\ todo' = Tail(todo) \o <<>>
      BY <1>7, <2>5 DEF Recover
    <3>2. Waiting' = Waiting /\ Measured'
      BY <1>b, <3>1 DEF Waiting, Measured
    <3>3. Tail(todo) \o <<>> \in Seq(Waiting)
      BY <2>2
    <3> HIDE DEF p
    <3> QED
      BY <1>b, <2>3, <2>4, <3>1, <3>2, <3>3
  <2>6. CASE more
    <3>1. depths' = Recorded(p, d) /\ todo' = Tail(todo) \o ChildrenOf(p, d) /\ Expands(d)
      BY <1>7, <2>6 DEF Recover
    <3> HIDE DEF p, d
    <3>2. /\ Measured' /\ DOMAIN depths' = DOMAIN depths \union Links[p]
          /\ Waiting \subseteq Waiting'
      BY <1>e, <2>3, <3>1
    <3>3. ChildrenOf(p, d) \in Seq(Waiting')
      <4>1. /\ ChildrenOf(p, d) \in Seq(Entries)
            /\ \A i \in DOMAIN ChildrenOf(p, d) :
                  ChildrenOf(p, d)[i].page \in Links[p] /\ ChildrenOf(p, d)[i].depth = d + 1
        BY <2>3, ChildrenType
      <4>2. d + 1 <= MaxDepth /\ \A q \in Links[p] : Within(q, d + 1)
        BY <2>3, <3>1, SeedAssumption, WithinNext DEF Expands
      <4>3. ASSUME NEW i \in DOMAIN ChildrenOf(p, d) PROVE ChildrenOf(p, d)[i] \in Waiting'
        <5>1. ChildrenOf(p, d)[i] \in Entries
          BY <4>1
        <5>2. ChildrenOf(p, d)[i].page \in Links[p] /\ ChildrenOf(p, d)[i].depth = d + 1
          BY <4>1
        <5> QED
          BY <3>2, <4>2, <5>1, <5>2 DEF Waiting
      <4> QED
        BY <4>1, <4>3, ListOf
    <3>4. Tail(todo) \in Seq(Waiting')
      BY <2>2, <3>2, ListsGrow
    <3>5. Tail(todo) \o ChildrenOf(p, d) \in Seq(Waiting')
      BY <3>3, <3>4, Lists
    <3> QED
      BY <1>b, <2>3, <2>4, <3>1, <3>2, <3>5
  <2> QED
    BY <2>5, <2>6
<1>8. ASSUME Lagged PROVE Goal
  BY <1>8, <1>b, <1>d DEF Lagged
<1>9. ASSUME DeadlineFires PROVE Goal
  BY <1>9, <1>b, <1>d DEF DeadlineFires
<1>10. ASSUME CountUnread PROVE Goal
  BY <1>10, <1>b, <1>d DEF CountUnread
<1>11. ASSUME FlushEnds PROVE Goal
  BY <1>11, <1>b, <1>d DEF FlushEnds
<1>12. ASSUME QueueCloses PROVE Goal
  <2>1. depths' = depths /\ UNCHANGED <<frontier, asked, aimed>>
    BY <1>12 DEF QueueCloses
  <2>2. Waiting' = Waiting /\ Measured'
    BY <1>b, <2>1 DEF Waiting, Measured
  <2>3. CASE Trustworthy
    <3> DEFINE list == SetToSeq({[page |-> q, depth |-> depths[q]] : q \in Candidates})
    <3>1. todo' = list
      BY <1>12, <2>3 DEF QueueCloses
    <3>2. /\ list \in Seq(Entries)
          /\ \A i \in DOMAIN list : list[i].page \in DOMAIN depths /\ list[i].depth = depths[list[i].page]
      BY CandidatesType
    <3> HIDE DEF list
    <3>3. ASSUME NEW i \in DOMAIN list PROVE list[i] \in Waiting
      <4>1. list[i] \in Entries
        BY <3>2
      <4> QED
        BY <1>b, <3>2, <4>1 DEF Waiting, Measured
    <3>4. list \in Seq(Waiting)
      BY <3>2, <3>3, ListOf
    <3> QED
      BY <1>b, <2>1, <2>2, <3>1, <3>4
  <2>4. CASE ~Trustworthy
    <3>1. todo' = todo
      BY <1>12, <2>4 DEF QueueCloses
    <3> QED
      BY <1>b, <1>d, <2>1, <3>1
  <2> QED
    BY <2>3, <2>4
<1>13. ASSUME RecoveryEnds PROVE Goal
  BY <1>13, <1>b, <1>d DEF RecoveryEnds
<1>14. ASSUME TimeExpires PROVE Goal
  BY <1>14, <1>b, <1>d DEF TimeExpires
<1>15. Goal
  <2> HIDE DEF Goal
  <2> QED
    BY <1>1, <1>2, <1>3, <1>4, <1>5, <1>6, <1>7, <1>8, <1>9, <1>10, <1>11, <1>12, <1>13, <1>14
    DEF Next, Adapter, Crawler
<1> QED
  BY <1>15

\* Recovery keeps the bounds the crawl was given: no page past --max-pages,
\* and none further than --max-depth links from the seed.
THEOREM RecoveryIsBounded == Spec => []RecoveryKeepsTheBounds
<1>1. ASSUME Init PROVE HopsKept
  <2>1. DOMAIN depths = {Start} /\ depths[Start] = 0 /\ 0 <= MaxDepth
    BY <1>1, SeedAssumption DEF Init
  <2>2. Measured
    BY <2>1, WithinStart DEF Measured
  <2>3. todo \in Seq(Waiting)
    BY <1>1 DEF Init
  <2> QED
    BY <1>1, <2>1, <2>2, <2>3 DEF Init, HopsKept
<1>2. TypeOK /\ Contents /\ HopsKept /\ [Next]_vars => HopsKept'
  BY HopsKeptKept
<1>3. TypeOK /\ HopsKept => DepthIsKept
  <2> SUFFICES ASSUME TypeOK, HopsKept, DeclaresBase \intersect asked = {},
                      NEW p \in asked \union aimed
               PROVE  p \in Near
    BY DEF DepthIsKept
  <2>1. p \in DOMAIN depths /\ Measured
    BY DEF HopsKept
  <2>2. p \in Pages /\ depths[p] \in Nat /\ depths[p] <= MaxDepth /\ Within(p, depths[p])
    BY <2>1 DEF TypeOK, Measured
  <2>3. Within(p, MaxDepth)
    BY <2>2, SeedAssumption, WithinMore
  <2> QED
    BY <2>2, <2>3 DEF Near
<1>4. CeilingCoversRecovery /\ DepthIsKept => RecoveryKeepsTheBounds
  BY DEF RecoveryKeepsTheBounds
<1> QED
  BY <1>1, <1>2, <1>3, <1>4, TypeCorrect, ContentsAlways, CeilingAlways, PTL DEF Spec

-----------------------------------------------------------------------------
(* Links the crawler lost *)

\* A link is followed, out of bounds, reported as missing, or still waiting.
Followed(p) ==
    \/ p = Start \/ p \notin Allowed \/ p \in asked \/ p \in aimed \/ p \in missing
    \/ \E i \in DOMAIN todo : todo[i].page = p

\* From the moment recovery begins until a call that ends as exhausted with
\* room to spare.
NothingForgotten ==
    step \in {"recover", "done"} /\ stopped = "exhausted" /\ dropped = 0 /\ total < MaxPages =>
        /\ step = "done" => todo = <<>>
        /\ \A p \in DOMAIN depths \union seen : Followed(p)

After(s, t) == Tail(s) \o t

\* What is behind the head of a list, or joined to it, is in what remains.
LEMMA RestNamed ==
    ASSUME NEW S, NEW s \in Seq(S), NEW t \in Seq(S), s # <<>>
    PROVE  /\ \A i \in DOMAIN s : s[i] = Head(s) \/ \E j \in DOMAIN After(s, t) : After(s, t)[j] = s[i]
           /\ \A i \in DOMAIN t : \E j \in DOMAIN After(s, t) : After(s, t)[j] = t[i]
<1> DEFINE r == Tail(s) \o t
<1>1. /\ Len(s) \in Nat /\ Len(s) > 0 /\ Len(t) \in Nat
      /\ DOMAIN r = 1 .. (Len(s) - 1 + Len(t))
  OBVIOUS
<1>2. ASSUME NEW i \in DOMAIN s, i # 1 PROVE i - 1 \in DOMAIN r /\ r[i - 1] = s[i]
  BY <1>1, <1>2
<1>3. s[1] = Head(s)
  OBVIOUS
<1>4. ASSUME NEW i \in DOMAIN t PROVE Len(s) - 1 + i \in DOMAIN r /\ r[Len(s) - 1 + i] = t[i]
  BY <1>1, <1>4
<1> QED
  BY <1>2, <1>3, <1>4 DEF After

LEMMA NothingForgottenKept ==
    ASSUME TypeOK, Contents, Ended, NothingForgotten, [Next]_vars PROVE NothingForgotten'
<1> USE DEF crawler, pages, recovery, caller
<1>1. CASE UNCHANGED vars
  BY <1>1 DEF NothingForgotten, Followed, vars
<1>2. ASSUME NEW p \in Pages, EngineFetch(p) PROVE NothingForgotten'
  BY <1>2 DEF NothingForgotten, EngineFetch
<1>3. ASSUME NEW p \in Pages, NEW a \in Answers, EngineAnswer(p, a) PROVE NothingForgotten'
  BY <1>3 DEF NothingForgotten, EngineAnswer
<1>4. ASSUME NEW p \in Pages, EngineAborts(p) PROVE NothingForgotten'
  BY <1>4 DEF NothingForgotten, EngineAborts
<1>5. CASE CrawlFinishes
  BY <1>5 DEF NothingForgotten, CrawlFinishes
<1>6. ASSUME NEW answer \in Answers, NEW halt \in BOOLEAN, Receive(answer, halt)
      PROVE NothingForgotten'
  <2>1. step' \notin {"recover", "done"}
    BY <1>6 DEF Receive, Reading, HandOver
  <2> QED
    BY <2>1 DEF NothingForgotten
<1>7. ASSUME NEW answer \in Answers, NEW halt \in BOOLEAN, Recover(answer, halt)
      PROVE NothingForgotten'
  <2> DEFINE p == Head(todo).page
             d == Head(todo).depth
             more == answer = "page" /\ Expands(d)
             new == IF more THEN ChildrenOf(p, d) ELSE <<>>
  <2>1. step = "recover" /\ total < MaxPages /\ todo # <<>> /\ dropped' = dropped
    BY <1>7 DEF Recover
  <2>2. CASE halt
    <3>1. step' = "stopped"
      BY <1>7, <2>2 DEF Recover, HandOver
    <3> QED
      BY <3>1 DEF NothingForgotten
  <2>3. CASE ~halt /\ dropped = 0
    <3>1. stopped = "exhausted" /\ step' = "recover"
      BY <1>7, <2>1, <2>3 DEF Recover, HandOver, Ended
    <3>2. \A q \in DOMAIN depths \union seen : Followed(q)
      BY <2>1, <2>3, <3>1 DEF NothingForgotten
    <3>3. /\ aimed' = aimed \union {p} /\ asked' = asked /\ todo' = Tail(todo) \o new
          /\ missing \subseteq missing'
      BY <1>7 DEF Recover
    <3>4. todo \in Seq(Entries)
      BY DEF TypeOK, Entries
    <3>5. p \in Pages /\ d \in Nat
      <4>1. Head(todo) \in Entries
        BY <2>1, <3>4
      <4> QED
        BY <4>1 DEF Entries
    <3>6. /\ ChildrenOf(p, d) \in Seq(Entries)
          /\ \A q \in NewChildren(p) : \E i \in DOMAIN ChildrenOf(p, d) : ChildrenOf(p, d)[i].page = q
      BY <3>5, ChildrenType
    <3>7. new \in Seq(Entries)
      BY <3>6
    <3>8. /\ \A i \in DOMAIN todo : todo[i] = Head(todo) \/ \E j \in DOMAIN todo' : todo'[j] = todo[i]
          /\ \A i \in DOMAIN new : \E j \in DOMAIN todo' : todo'[j] = new[i]
      <4> DEFINE rest == After(todo, new)
      <4> HIDE DEF new, p, d, more
      <4>1. /\ \A i \in DOMAIN todo : todo[i] = Head(todo) \/ \E j \in DOMAIN rest : rest[j] = todo[i]
            /\ \A i \in DOMAIN new : \E j \in DOMAIN rest : rest[j] = new[i]
        BY <2>1, <3>4, <3>7, RestNamed
      <4>2. todo' = rest
        BY <3>3 DEF After
      <4> HIDE DEF rest
      <4> QED
        BY <4>1, <4>2
    <3>9. ASSUME NEW q, Followed(q) PROVE Followed(q)'
      BY <3>3, <3>8, <3>9 DEF Followed
    <3>10. CASE ~more
      <4>1. UNCHANGED <<depths, seen>>
        BY <1>7, <3>10 DEF Recover
      <4> QED
        BY <3>1, <3>2, <3>9, <4>1 DEF NothingForgotten
    <3>11. CASE more
      <4>1. DOMAIN depths' = DOMAIN depths \union Links[p] /\ seen' = seen \union Links[p]
        BY <1>7, <3>11 DEF Recover, Recorded
      <4>2. ASSUME NEW q \in Links[p], q \notin seen PROVE Followed(q)'
        <5>1. CASE q \in Allowed
          <6>1. q \in NewChildren(p)
            BY <4>2, <5>1 DEF NewChildren
          <6>2. PICK i \in DOMAIN ChildrenOf(p, d) : ChildrenOf(p, d)[i].page = q
            BY <3>6, <6>1
          <6>3. PICK j \in DOMAIN todo' : todo'[j] = ChildrenOf(p, d)[i]
            BY <3>8, <3>11
          <6> QED
            BY <6>2, <6>3 DEF Followed
        <5>2. CASE q \notin Allowed
          BY <5>2 DEF Followed
        <5> QED
          BY <5>1, <5>2
      <4>3. \A q \in DOMAIN depths' \union seen' : Followed(q)'
        BY <3>2, <3>9, <4>1, <4>2
      <4> QED
        BY <3>1, <4>3 DEF NothingForgotten
    <3> QED
      BY <3>10, <3>11
  <2>4. CASE dropped # 0
    BY <2>1, <2>4 DEF NothingForgotten
  <2> QED
    BY <2>2, <2>3, <2>4
<1>8. CASE Lagged
  BY <1>8 DEF NothingForgotten, Lagged, Reading
<1>9. CASE DeadlineFires
  BY <1>9 DEF NothingForgotten, DeadlineFires
<1>10. CASE CountUnread
  BY <1>10 DEF NothingForgotten, CountUnread, Ended
<1>11. CASE FlushEnds
  BY <1>11 DEF NothingForgotten, FlushEnds, Ended
<1>12. CASE QueueCloses
  <2>1. CASE Trustworthy /\ Cardinality(fetched) < MaxPages
    <3>1. /\ step' = "recover" /\ seen' = Candidates
          /\ todo' = SetToSeq({[page |-> p, depth |-> depths[p]] : p \in Candidates})
          /\ UNCHANGED <<crawler, depths, aimed, missing>>
      BY <1>12, <2>1 DEF QueueCloses
    <3>2. \A p \in Candidates : \E i \in DOMAIN todo' : todo'[i].page = p
      BY <3>1, CandidatesType
    <3>3. MaxPages \in Nat /\ Cardinality(fetched) \in Nat
      BY SeedAssumption, FetchedCounted
    <3>4. Candidates = {p \in DOMAIN depths : p # Start /\ p \notin fetched /\ p \in Allowed}
      BY <2>1, <3>3 DEF Candidates
    <3>5. fetched \subseteq asked \union aimed
      BY DEF Contents
    <3>6. \A p \in DOMAIN depths' \union seen' : Followed(p)'
      BY <3>1, <3>2, <3>4, <3>5 DEF Followed
    <3> QED
      BY <3>1, <3>6 DEF NothingForgotten
  <2>2. CASE Trustworthy /\ ~(Cardinality(fetched) < MaxPages)
    <3>1. ~(total' < MaxPages)
      BY <1>12, <2>2 DEF QueueCloses, AlreadyFetched
    <3> QED
      BY <3>1 DEF NothingForgotten
  <2>3. CASE ~Trustworthy
    <3>1. ~(stopped' = "exhausted" /\ dropped' = 0)
      BY <1>12, <2>3 DEF QueueCloses, Trustworthy
    <3> QED
      BY <3>1 DEF NothingForgotten
  <2> QED
    BY <2>1, <2>2, <2>3
<1>13. CASE RecoveryEnds
  <2>1. /\ step = "recover" /\ stopped = "exhausted" /\ step' = "done"
        /\ UNCHANGED <<crawler, depths, dropped, recovery, aimed>>
    BY <1>13 DEF RecoveryEnds, Ended
  <2>2. stopped' = IF todo # <<>> /\ total < MaxPages THEN "deadline" ELSE stopped
    BY <1>13 DEF RecoveryEnds
  <2> QED
    BY <2>1, <2>2 DEF NothingForgotten, Followed
<1>14. CASE TimeExpires
  BY <1>14 DEF NothingForgotten, Followed, TimeExpires
<1> QED
  BY <1>1, <1>2, <1>3, <1>4, <1>5, <1>6, <1>7, <1>8, <1>9, <1>10, <1>11, <1>12, <1>13, <1>14
  DEF Next, Adapter, Crawler

\* A crawl reported as exhausted, with nothing dropped and room left, has
\* asked for every link it was given that robots.txt allows, or says which
\* it never followed.
THEOREM NoLinkIsForgotten == Spec => []LostLinksAreAnswered
<1>1. Init => Ended /\ NothingForgotten
  BY DEF Init, Ended, NothingForgotten
<1>2. TypeOK /\ Ended /\ [Next]_vars => Ended'
  BY EndedKept
<1>3. TypeOK /\ Contents /\ Ended /\ NothingForgotten /\ [Next]_vars => NothingForgotten'
  BY NothingForgottenKept
<1>4. NothingForgotten => LostLinksAreAnswered
  BY DEF NothingForgotten, Followed, LostLinksAreAnswered
<1> QED
  BY <1>1, <1>2, <1>3, <1>4, TypeCorrect, ContentsAlways, PTL DEF Spec
==============================================================================
