--------------------------- MODULE SubresourcePass ---------------------------
(***************************************************************************)
(* The subresource pass (assets.rs, AssetCapture): what a capture asks for *)
(* of the files its page names, under a count, a byte and a silence        *)
(* ceiling, from answers one pass shares; and the repass that asks later   *)
(* for what a ceiling left out (repass.rs, recover_assets).  Each phase of *)
(* a run has a pass of its own and takes one capture at a time; a fetch is *)
(* answered in any way.  A repass finds current metadata by each capture.  *)
(***************************************************************************)
EXTENDS Integers, Sequences, FiniteSets

CONSTANTS
    Urls,            \* addresses a page may reference
    NoUrl,           \* no fallback
    Captures,        \* pages of the crawl, a capture each
    NoCapture,       \* none in hand
    Refs,            \* Refs[c]: the references of c in page order, each with
                     \* its fetch_priority and the fallback of its srcset
    Inside,          \* addresses refused before they are dialled
    Dead,            \* addresses on a host that never answers
    Sizes,           \* bytes of a response
    MaxPerCapture,   \* MAX_ASSETS_PER_CAPTURE
    MaxAssetBytes,   \* MAX_ASSET_BYTES
    MaxCaptureBytes, \* MAX_ASSET_BYTES_PER_CAPTURE
    MaxSilences,     \* MAX_CONSECUTIVE_SILENCES
    TimedRuns,       \* runs that may outlast their deadline
    MaxStops         \* bound: runs cut short by a kill or a failed write

ASSUME CeilingAssumption ==
    /\ {MaxPerCapture, MaxAssetBytes, MaxCaptureBytes, MaxSilences} \subseteq Nat \ {0}
    /\ Sizes \subseteq Nat /\ MaxStops \in Nat
    /\ Inside \subseteq Urls /\ Dead \subseteq Urls /\ TimedRuns \subseteq {"crawl", "repass"}
ASSUME NamesAssumption == NoCapture \notin Captures /\ NoUrl \notin Urls
ASSUME RefsAssumption ==   \* resolve_assets drops repeats and a fallback to oneself
    \A c \in Captures :
        /\ Refs[c] \in Seq([url : Urls, rank : 0 .. 4, fallback : Urls \union {NoUrl}])
        /\ \A i, j \in DOMAIN Refs[c] : Refs[c][i].url = Refs[c][j].url => i = j
        /\ \A i \in DOMAIN Refs[c] : Refs[c][i].fallback # Refs[c][i].url

VARIABLES
    stored,    \* assets of a capture, its sidecar folded in
    missed,    \* assets_missed of a capture, its sidecar folded in
    filed,     \* captures the crawl has filed
    run,       \* "crawl", or "repass" from the first one on
    todo,      \* captures the run has yet to take
    late,      \* the run's deadline has passed
    known,     \* the pass's memo: what asking for an address taught it
    hand,      \* the capture in hand
    list,      \* the references of_page was given
    outcome,   \* what it made of each, "none" before it is dealt with
    rescued,   \* fallbacks_recovered
    current,   \* the reference whose fallback is to be tried, or 0
    dealt,     \* dealt_with
    bytes,     \* bytes_spent
    silences,  \* requests in a row that nothing answered
    asks,      \* history: requests the pass made for an address
    asked,     \* history: references of this list that were asked for
    wired,     \* history: bytes this capture transferred
    mute,      \* history: this capture's requests in a row without an answer
    stops      \* runs cut short, bounded by MaxStops

record == <<stored, missed, filed>>
budget == <<dealt, bytes, silences>>
history == <<asks, asked, wired, mute>>
page == <<hand, list, outcome, rescued, current>>
vars == <<record, run, todo, late, known, page, budget, history, stops>>

-----------------------------------------------------------------------------
(* Answers *)

Ceilings == {"count_ceiling", "byte_ceiling", "nothing_answering", "deadline"}
\* "unusable" stands for the three ways an answer is turned down: it landed
\* inside a network, arrived short, or was too large.
FinalMisses == {"no_response", "unusable", "inside_a_network"}
Learned == FinalMisses \union {"stored"}

\* retryable_miss: it was the archive that stopped asking.
Retryable_ButForTheCount(why) == why \in Ceilings \ {"count_ceiling"}       \* mutant
Retryable(why) == why \in Ceilings

\* ask_for: an inside address is never dialled; of what arrives anything may
\* be turned down, and a body over the limit always is.
Judged(size) == {"unusable"} \union IF size > MaxAssetBytes THEN {} ELSE {"stored"}
Answers(u) ==
    IF u \in Inside
    THEN {[learned |-> "inside_a_network", size |-> 0, wire |-> "nothing_sent"]}
    ELSE {[learned |-> "no_response", size |-> 0, wire |-> "silent"]} \union
         UNION {[learned : Judged(n), size : {n}, wire : {"answered"}] :
                   n \in IF u \in Dead THEN {} ELSE Sizes}

Known_InsideTheCount(u) == dealt < MaxPerCapture /\ known[u] # "unknown"     \* mutant
Known(u) == known[u] # "unknown"

Remember_WhatWasStored(u, l) ==                                              \* mutant
    IF l = "stored" THEN [known EXCEPT ![u] = l] ELSE known
Remember(u, l) == [known EXCEPT ![u] = l]

\* Bytes are charged as they arrive, kept or not.
Charge_WhatWasKept(a) == IF a.learned = "stored" THEN a.size ELSE 0          \* mutant
Charge(a) == a.size

InARow(n, a) ==
    CASE a.wire = "silent" -> n + 1
      [] a.wire = "answered" -> 0
      [] OTHER -> n

\* One request, or none for an address that is not dialled.
Ask(u, a) ==
    /\ a \in Answers(u)
    /\ known' = Remember(u, a.learned)
    /\ bytes' = bytes + Charge(a)
    /\ silences' = InARow(silences, a)
    /\ asks' = IF a.wire = "nothing_sent" THEN asks
               ELSE [asks EXCEPT ![u] = IF @ = 2 THEN 2 ELSE @ + 1]
    /\ wired' = wired + a.size
    /\ mute' = InARow(mute, a)

-----------------------------------------------------------------------------
(* The budget of a capture *)

\* no_room_for_another, then the silences, then the clock.
NoRoom ==
    IF dealt >= MaxPerCapture THEN "count_ceiling"
    ELSE IF bytes >= MaxCaptureBytes THEN "byte_ceiling"
    ELSE IF silences >= MaxSilences THEN "nothing_answering"
    ELSE IF late THEN "deadline" ELSE "none"

\* A fallback is judged by the same budget, the count apart.
NoRoomForAFallback_SilencesForgotten == bytes >= MaxCaptureBytes \/ late     \* mutant
NoRoomForAFallback ==
    silences >= MaxSilences \/ bytes >= MaxCaptureBytes \/ late

WantsFallback(r, l) == l # "stored" /\ ~ Retryable(l) /\ r.fallback # NoUrl

\* The stable sort by fetch_priority.
Before_PageOrder(i, j) == i <= j                                             \* mutant
Before(i, j) ==
    \/ list[i].rank < list[j].rank
    \/ list[i].rank = list[j].rank /\ i <= j

Pending == {i \in DOMAIN list : outcome[i] = "none"}
IsNext(i) == i \in Pending /\ \A j \in Pending : Before(i, j)

Settle(i, l) ==
    /\ outcome' = [outcome EXCEPT ![i] = l]
    /\ current' = IF WantsFallback(list[i], l) THEN i ELSE 0
    /\ UNCHANGED <<hand, list, rescued>>

-----------------------------------------------------------------------------
(* What a record lists *)

RefRecords == [url : Urls, rank : 0 .. 4, fallback : Urls \union {NoUrl}]
Misses == [url : Urls, why : Ceilings \union FinalMisses]

\* The elements of s that are in K, in order: a recursive function, and not
\* SelectSeq, so that lemmas can be proved of it.
Only(s, K) ==
    LET kept[k \in 0 .. Len(s)] ==
            IF k = 0 THEN <<>>
            ELSE IF s[k] \in K THEN Append(kept[k - 1], s[k]) ELSE kept[k - 1]
    IN  kept[Len(s)]

\* merge_miss_lists: the later reason for an address replaces the earlier.
AddMiss_Beside(old, m) == Append(old, m)                                     \* mutant
AddMiss(old, m) ==
    IF \E i \in DOMAIN old : old[i].url = m.url
    THEN [i \in DOMAIN old |-> IF old[i].url = m.url THEN m ELSE old[i]]
    ELSE Append(old, m)
MergeMisses(old, new) ==
    LET merged[k \in 0 .. Len(new)] == IF k = 0 THEN old ELSE AddMiss(merged[k - 1], new[k])
    IN  merged[Len(new)]

NewlyStored == {list[i].url : i \in {j \in DOMAIN list : outcome[j] = "stored"}}
NewMisses ==
    Only([i \in DOMAIN list |-> [url |-> list[i].url, why |-> outcome[i]]], Misses)

\* roles_by_url: an address no reference names is taken for a picture.
Role(c, u) ==
    IF \E i \in DOMAIN Refs[c] : Refs[c][i].url = u
    THEN Refs[c][CHOOSE i \in DOMAIN Refs[c] : Refs[c][i].url = u]
    ELSE [url |-> u, rank |-> 0, fallback |-> NoUrl]

\* recover_assets: a miss a ceiling made is asked for again, and for one that
\* asking will not change the fallback its reference names is; one that names
\* none, its address no address, is left out.
Retry(c, m) ==
    IF Retryable(m.why) THEN Role(c, m.url)
    ELSE [Role(c, m.url) EXCEPT !.url = Role(c, m.url).fallback, !.fallback = NoUrl]
Retries(c) == Only([i \in DOMAIN missed[c] |-> Retry(c, missed[c][i])], RefRecords)

-----------------------------------------------------------------------------
Init ==
    /\ stored = [c \in Captures |-> {}] /\ missed = [c \in Captures |-> <<>>]
    /\ filed = {}
    /\ run = "crawl" /\ todo = Captures /\ late = FALSE
    /\ known = [u \in Urls |-> "unknown"]
    /\ hand = NoCapture /\ list = <<>> /\ outcome = <<>>
    /\ rescued = {} /\ current = 0
    /\ dealt = 0 /\ bytes = 0 /\ silences = 0
    /\ asks = [u \in Urls |-> 0] /\ asked = {} /\ wired = 0 /\ mute = 0
    /\ stops = 0

\* Every capture starts its own budget.
FreshBudget_CountKept == dealt' = dealt /\ bytes' = 0 /\ silences' = 0       \* mutant
FreshBudget == dealt' = 0 /\ bytes' = 0 /\ silences' = 0

\* A page arrives, or a repass comes to a capture.
TakeUp(c) ==
    /\ hand = NoCapture /\ c \in todo
    /\ hand' = c /\ todo' = todo \ {c}
    /\ list' = IF run = "crawl" THEN Refs[c] ELSE Retries(c)
    /\ outcome' = [i \in DOMAIN list' |-> "none"]
    /\ FreshBudget
    /\ rescued' = {} /\ asked' = {} /\ wired' = 0 /\ mute' = 0
    /\ UNCHANGED <<record, run, late, known, current, asks, stops>>

\* The memo is consulted before any ceiling.
Serve(i) ==
    /\ current = 0 /\ IsNext(i) /\ Known(list[i].url)
    /\ Settle(i, known[list[i].url])
    /\ UNCHANGED <<record, run, todo, late, known, budget, history, stops>>

Refuse(i) ==
    /\ current = 0 /\ IsNext(i) /\ ~ Known(list[i].url) /\ NoRoom # "none"
    /\ Settle(i, NoRoom)
    /\ dealt' = dealt + 1
    /\ UNCHANGED <<record, run, todo, late, known, bytes, silences, history, stops>>

AskFor(i) ==
    /\ current = 0 /\ IsNext(i) /\ ~ Known(list[i].url) /\ NoRoom = "none"
    /\ \E a \in Answers(list[i].url) : Ask(list[i].url, a) /\ Settle(i, a.learned)
    /\ dealt' = dealt + 1
    /\ asked' = asked \union {i}
    /\ UNCHANGED <<record, run, todo, late, stops>>

\* try_fallback: the next rendition, from the memo or from its server.
TryFallback ==
    /\ current # 0
    /\ current' = 0
    /\ LET u == list[current].fallback
       IN  \/ /\ NoRoomForAFallback
              /\ UNCHANGED <<rescued, known, bytes, silences, history>>
           \/ /\ ~ NoRoomForAFallback /\ known[u] # "unknown"
              /\ rescued' = IF known[u] = "stored" THEN rescued \union {u} ELSE rescued
              /\ UNCHANGED <<known, bytes, silences, history>>
           \/ /\ ~ NoRoomForAFallback /\ known[u] = "unknown"
              /\ \E a \in Answers(u) :
                    /\ Ask(u, a)
                    /\ rescued' = IF a.learned = "stored" THEN rescued \union {u}
                                                          ELSE rescued
              /\ UNCHANGED asked
    /\ UNCHANGED <<record, run, todo, late, hand, list, outcome, dealt, stops>>

EmptyHand ==
    /\ hand' = NoCapture /\ list' = <<>> /\ outcome' = <<>>
    /\ rescued' = {} /\ current' = 0 /\ FreshBudget
    /\ asked' = {} /\ wired' = 0 /\ mute' = 0 /\ UNCHANGED asks

\* The record is filed, or the sidecar beside it is merged, and an address
\* that is held is no longer listed as missed.
Finish ==
    /\ hand # NoCapture /\ Pending = {} /\ current = 0
    /\ \E held \in {stored[hand] \union NewlyStored \union rescued},   \* values, once
          new \in {NewMisses} : \E merged \in {MergeMisses(missed[hand], new)} :
          /\ stored' = [stored EXCEPT ![hand] = held]
          /\ missed' = [missed EXCEPT ![hand] =
                            Only(merged, [url : Urls \ held, why : Ceilings \union FinalMisses])]
    /\ filed' = filed \union {hand}
    /\ EmptyHand
    /\ UNCHANGED <<run, todo, late, known, stops>>

\* AssetCapture::new.
NewPass ==
    /\ known' = [u \in Urls |-> "unknown"]
    /\ asks' = [u \in Urls |-> 0]
    /\ UNCHANGED <<record, page, budget, asked, wired, mute, stops>>

\* The next phase of the run, a listing or another origin of a resume, starts
\* a memo of its own under the run's clock.
NextPhase ==
    /\ run = "crawl" /\ hand = NoCapture /\ todo # {}
    /\ \E u \in Urls : known[u] # "unknown"
    /\ NewPass
    /\ UNCHANGED <<run, todo, late>>

\* A later run over what the crawl filed, with a memo and a clock of its own.
BeginRepass ==
    /\ hand = NoCapture /\ todo = {} /\ filed # {}
    /\ run' = "repass" /\ todo' = filed /\ late' = FALSE
    /\ NewPass

TimeRunsOut ==
    /\ run \in TimedRuns /\ ~ late
    /\ late' = TRUE
    /\ UNCHANGED <<record, run, todo, known, page, budget, history, stops>>

\* A failed write ends the run, and so does a kill: the capture in hand is
\* not filed and no other is taken.
Stop ==
    /\ stops < MaxStops /\ hand # NoCapture
    /\ stops' = stops + 1 /\ todo' = {}
    /\ EmptyHand
    /\ UNCHANGED <<record, run, late, known>>

Step ==
    \/ \E c \in Captures : TakeUp(c)
    \/ \E i \in DOMAIN list : Serve(i) \/ Refuse(i) \/ AskFor(i)
    \/ TryFallback \/ Finish \/ BeginRepass
Next == Step \/ NextPhase \/ TimeRunsOut \/ Stop

\* A run goes on once begun, every fetch returns, and the archive is repassed
\* again and again: nothing is recovered by a repass nobody runs.
Spec == Init /\ [][Next]_vars /\ WF_vars(Step)

-----------------------------------------------------------------------------
(* Properties *)

Addresses(misses) == {misses[i].url : i \in DOMAIN misses}
Owing(c) == {m.url : m \in {missed[c][i] : i \in {j \in DOMAIN missed[c] :
                                                    missed[c][j].why \in Ceilings}}}

NamesNoFallback(c) == \A i \in DOMAIN Refs[c] : Refs[c][i].fallback = NoUrl

\* Type correctness, the count of references dealt with included.
TypeOK ==
    /\ stored \in [Captures -> SUBSET Urls]
    /\ missed \in [Captures -> Seq(Misses)]
    /\ filed \subseteq Captures /\ todo \subseteq Captures
    /\ run \in {"crawl", "repass"} /\ late \in BOOLEAN
    /\ known \in [Urls -> Learned \union {"unknown"}]
    /\ hand \in Captures \union {NoCapture}
    /\ outcome \in [DOMAIN list -> Ceilings \union Learned \union {"none"}]
    /\ rescued \subseteq Urls /\ current \in {0} \union DOMAIN list
    /\ dealt \in 0 .. Len(list) /\ bytes \in Nat /\ silences \in Nat
    /\ asks \in [Urls -> 0 .. 2] /\ asked \subseteq DOMAIN list
    /\ wired \in Nat /\ mute \in Nat /\ stops \in 0 .. MaxStops

\* A pass asks for one address once, whichever captures name it, for itself or
\* as a fallback, and whatever it came back as.
AskedOncePerPass == \A u \in Urls : asks[u] <= 1

\* A capture waits out no more than MaxSilences requests in a row that nothing
\* answers, its fallbacks included: the crawl's queue fills while it waits.
SilenceIsBounded == mute <= MaxSilences

\* What a capture transfers crosses its ceiling by one response at most, files
\* refused for their size and fallbacks included.
TransferIsBounded == \E last \in Sizes \union {0} : wired - last < MaxCaptureBytes

\* Bytes the pass already held when a reference came up are in the record of
\* its capture, whatever ceiling the capture had reached.
HeldBytesAreListed ==
    \A i \in DOMAIN list :
        outcome[i] # "none" /\ known[list[i].url] = "stored" =>
            list[i].url \in NewlyStored \union rescued

\* What a ceiling leaves out is what an archive of prose misses least: no
\* reference of a lesser kind was asked for on the same page.
LesserKindsLoseFirst ==
    \A i \in DOMAIN list, j \in asked :
        outcome[i] \in {"count_ceiling", "byte_ceiling"} => list[j].rank <= list[i].rank

\* Over the crawl and every repass, the record of a filed capture lists each
\* address its page referenced once: held, or missed with a reason.
RecordAccountsForThePage ==
    \A c \in filed :
        /\ stored[c] \intersect Addresses(missed[c]) = {}
        /\ {Refs[c][i].url : i \in DOMAIN Refs[c]} \subseteq
              stored[c] \union Addresses(missed[c])
        /\ \A i, j \in DOMAIN missed[c] : missed[c][i].url = missed[c][j].url => i = j

\* On a page whose references name no other rendition, what a ceiling left out
\* is asked for by a later repass and comes to an answer.
PlainPageIsRecovered ==
    \A c \in Captures :
        NamesNoFallback(c) /\ Owing(c) # {} ~> Owing(c) = {}

\* "Recorded rather than silent, and recoverable later from the reference list
\* without a crawl" (assets.rs:90): what a ceiling left out is asked for by
\* some later repass, and comes to an answer.
CeilingMissIsRecoverable == \A c \in Captures : Owing(c) # {} ~> Owing(c) = {}
==============================================================================
