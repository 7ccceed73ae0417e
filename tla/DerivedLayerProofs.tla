------------------------- MODULE DerivedLayerProofs -------------------------
(***************************************************************************)
(* Theorems about DerivedLayer, for every page, any versions, any number   *)
(* of processes, stops and changes: the types, what a reader is told while *)
(* a lone process replaces one outcome by another, what a whole pass       *)
(* leaves, and that the next one finds nothing to do.                      *)
(***************************************************************************)
EXTENDS DerivedLayer, TLAPS

-----------------------------------------------------------------------------
(* Short sequences *)

LEMMA Front ==
    ASSUME NEW S, NEW x \in S, NEW t \in Seq(S)
    PROVE  /\ Head(<<x>> \o t) = x /\ Tail(<<x>> \o t) = t /\ <<x>> \o t # <<>>
           /\ <<x>> \o t \in Seq(S) /\ <<>> \o t = t /\ t \o <<>> = t
<1>1. Head(<<x>> \o t) = x /\ <<x>> \o t # <<>> /\ <<>> \o t = t /\ t \o <<>> = t
  OBVIOUS
<1>2. Tail(<<x>> \o t) = t /\ <<x>> \o t \in Seq(S)
  OBVIOUS
<1> QED
  BY <1>1, <1>2

LEMMA Joined ==
    ASSUME NEW S, NEW s \in Seq(S), NEW t \in Seq(S) PROVE s \o t \in Seq(S)
  OBVIOUS

LEMMA HeadAndTail ==
    ASSUME NEW S, NEW s \in Seq(S), s # <<>>
    PROVE  /\ Head(s) \in S /\ Tail(s) \in Seq(S) /\ 1 \in DOMAIN s /\ Head(s) = s[1]
           /\ \A i \in DOMAIN Tail(s) : i + 1 \in DOMAIN s /\ Tail(s)[i] = s[i + 1]
  OBVIOUS

LEMMA Transitive ==
    ASSUME NEW x \in Nat, NEW y \in Nat, NEW z \in Nat, x <= y, y <= z PROVE x <= z
  OBVIOUS

-----------------------------------------------------------------------------
(* Types *)

\* Everything a process may still have to write.
Entries == [file : {"metadata"}, value : MetaVersions]
           \union [file : Outcomes \union {"markdown"}, value : Readings \union {None}]
Holdings == [build : Builds \union {None}, rule : BOOLEAN, seen : MetaVersions \union {0},
             alone : BOOLEAN]

\* The types, in full: nothing is written before the capture is filed.
Typed ==
    /\ TypeOK
    /\ DOMAIN file = Files
    /\ at \in [Processes -> {"idle", "begun", "writing"}]
    /\ held \in [Processes -> Holdings]
    /\ plan \in [Processes -> Seq(Entries)]
    /\ ~captured => \A w \in Processes : at[w] = "idle"

LEMMA PageType ==
    ASSUME Typed
    PROVE  /\ page.readsAs \in [ReadVersions \X BOOLEAN -> Outcomes \union {"unreadable"}]
           /\ page.titled \in [MetaVersions -> BOOLEAN]
           /\ page.touched \in BOOLEAN /\ page.declares \in BOOLEAN
           /\ \A v \in ReadVersions :
                 page.readsAs[<<v, FALSE>>] # "unreadable" => page.readsAs[<<v, TRUE>>] # "unreadable"
<1>1. page \in Pages
  BY StartAssumption DEF Typed, TypeOK
<1> QED
  BY <1>1 DEF Pages

LEMMA ReadingType ==
    ASSUME Typed, NEW h \in Holdings, h.build \in Builds
    PROVE  /\ SiteRule(h) \in BOOLEAN
           /\ ReadsAs(h) \in Outcomes \union {"unreadable"}
           /\ TitleFor(h) \in MetaVersions \union {0}
           /\ ReadingOf(h, TitleFor(h)) \in Readings
<1>1. h.build.read \in ReadVersions /\ h.build.meta \in MetaVersions /\ h.rule \in BOOLEAN
      /\ h.seen \in MetaVersions \union {0}
  BY DEF Holdings, Builds
<1>2. SiteRule(h) \in BOOLEAN
  BY <1>1, PageType DEF SiteRule
<1>3. ReadsAs(h) \in Outcomes \union {"unreadable"}
  BY <1>1, <1>2, PageType DEF ReadsAs
<1>4. TitleFor(h) \in MetaVersions \union {0}
  BY <1>1 DEF TitleFor
<1>5. (ReadsAs(h) = "article" /\ TitleFor(h) # 0 /\ page.declares) \in BOOLEAN
  BY <1>3, PageType
<1>6. ReadingOf(h, TitleFor(h)) \in Readings
  <2> DEFINE t == IF ReadsAs(h) = "article" THEN TitleFor(h) ELSE 0
             d == ReadsAs(h) = "article" /\ TitleFor(h) # 0 /\ page.declares
  <2>1. ReadingOf(h, TitleFor(h)) = [read |-> h.build.read, site |-> SiteRule(h), title |-> t, declared |-> d]
    BY DEF ReadingOf
  <2>2. t \in MetaVersions \union {0} /\ d \in BOOLEAN
    BY <1>4, <1>5
  <2> HIDE DEF t, d
  <2> QED
    BY <1>1, <1>2, <2>1, <2>2 DEF Readings
<1> QED
  BY <1>2, <1>3, <1>4, <1>6

LEMMA OutcomeWritesType ==
    ASSUME NEW k \in Outcomes, NEW r \in Readings
    PROVE  OutcomeWrites(k, r) \in Seq(Entries) /\ OutcomeWrites(k, r) # <<>>
<1>1. \A f \in Outcomes \union {"markdown"} : Put(f, r) \in Entries /\ Remove(f) \in Entries
  BY DEF Put, Remove, Entries
<1>2. CASE k = "article"
  <2>1. Put("markdown", r) \in Entries /\ Put("article", r) \in Entries
        /\ Remove("refused") \in Entries /\ Remove("not_article") \in Entries
    BY <1>1 DEF Outcomes
  <2> QED
    BY <1>2, <2>1 DEF OutcomeWrites
<1>3. CASE k = "refused"
  <2>1. Put("refused", r) \in Entries /\ Remove("article") \in Entries
        /\ Remove("markdown") \in Entries /\ Remove("not_article") \in Entries
    BY <1>1 DEF Outcomes
  <2> QED
    BY <1>3, <2>1 DEF OutcomeWrites
<1>4. CASE k = "not_article"
  <2>1. Put("not_article", r) \in Entries /\ Remove("article") \in Entries
        /\ Remove("markdown") \in Entries /\ Remove("refused") \in Entries
    BY <1>1 DEF Outcomes
  <2> QED
    BY <1>4, <2>1 DEF OutcomeWrites
<1> QED
  BY <1>2, <1>3, <1>4 DEF Outcomes

LEMMA WritesType ==
    ASSUME Typed, NEW h \in Holdings, h.build \in Builds, NEW known
    PROVE  /\ MetadataWrites(h) \in Seq(Entries) /\ ExtractionWrites(h, known) \in Seq(Entries)
           /\ PassWrites(h, known) \in Seq(Entries)
<1>1. MetadataWrites(h) \in Seq(Entries)
  <2>1. Put("metadata", h.build.meta) \in Entries
    BY DEF Put, Entries, Builds
  <2> QED
    BY <2>1 DEF MetadataWrites
<1>2. ExtractionWrites(h, known) \in Seq(Entries)
  BY ReadingType, OutcomeWritesType DEF ExtractionWrites
<1>3. <<>> \in Seq(Entries)
  OBVIOUS
<1> QED
  BY <1>1, <1>2, <1>3, Joined DEF PassWrites

LEMMA StartType ==
    ASSUME Typed, NEW w \in Processes, NEW seen \in MetaVersions \union {0}, Start(w, seen)
    PROVE  /\ held' \in [Processes -> Holdings]
           /\ held'[w].build = build /\ held'[w].rule = rule /\ held'[w].seen = seen
           /\ held'[w].alone = (\A v \in Processes : at[v] = "idle")
           /\ held'[w].build \in Builds
           /\ \A v \in Processes \ {w} :
                 /\ held'[v].build = held[v].build /\ held'[v].rule = held[v].rule
                 /\ held'[v].seen = held[v].seen
                 /\ at[v] # "idle" => ~held'[v].alone
           /\ clean' => clean /\ \A v \in Processes : at[v] = "idle"
<1> DEFINE busy == {v \in Processes : at[v] # "idle"}
<1>1. /\ held' = [v \in Processes |->
             IF v = w THEN [build |-> build, rule |-> rule, seen |-> seen, alone |-> busy = {}]
             ELSE IF v \in busy THEN [held[v] EXCEPT !.alone = FALSE] ELSE held[v]]
      /\ clean' = (clean /\ busy = {})
  BY DEF Start
<1>2. build \in Builds /\ rule \in BOOLEAN /\ (busy = {}) \in BOOLEAN
      /\ (busy = {} <=> \A v \in Processes : at[v] = "idle")
  BY DEF Typed, TypeOK
<1>3. held'[w] = [build |-> build, rule |-> rule, seen |-> seen, alone |-> busy = {}]
  BY <1>1
<1>4. held'[w] \in Holdings
  BY <1>2, <1>3 DEF Holdings
<1>5. ASSUME NEW v \in Processes, v # w
      PROVE  /\ held'[v] \in Holdings
             /\ held'[v].build = held[v].build /\ held'[v].rule = held[v].rule
             /\ held'[v].seen = held[v].seen
             /\ at[v] # "idle" => ~held'[v].alone
  <2>1. held[v] \in Holdings
    BY DEF Typed
  <2>2. CASE v \in busy
    <3>1. held'[v] = [held[v] EXCEPT !.alone = FALSE]
      BY <1>1, <1>5, <2>2
    <3> QED
      BY <2>1, <3>1 DEF Holdings
  <2>3. CASE v \notin busy
    BY <1>1, <1>5, <2>1, <2>3
  <2> QED
    BY <2>2, <2>3
<1>6. held' \in [Processes -> Holdings]
  <2>1. \A v \in Processes : held'[v] \in Holdings
    BY <1>4, <1>5
  <2> QED
    BY <1>1, <2>1
<1> QED
  BY <1>1, <1>2, <1>3, <1>5, <1>6

\* One entry lands: its file, and no other.
LEMMA Landing ==
    ASSUME Typed, NEW w \in Processes, WriteNext(w)
    PROVE  /\ plan[w] # <<>> /\ Head(plan[w]) \in Entries /\ Tail(plan[w]) \in Seq(Entries)
           /\ Head(plan[w]).file \in Files /\ DOMAIN file' = Files
           /\ \A f \in Files : file'[f] = IF f = Head(plan[w]).file THEN Head(plan[w]).value ELSE file[f]
           /\ file'["metadata"] \in MetaVersions \union {None}
           /\ \A f \in Files \ {"metadata"} : file'[f] \in Readings \union {None}
           /\ captured
<1>1. plan[w] \in Seq(Entries) /\ plan[w] # <<>>
  BY DEF WriteNext, Typed, TypeOK
<1>2. Head(plan[w]) \in Entries /\ Tail(plan[w]) \in Seq(Entries)
  BY <1>1, HeadAndTail
<1>3. Head(plan[w]).file \in Files
  BY <1>2 DEF Entries, Files, Outcomes
<1>4. file' = [file EXCEPT ![Head(plan[w]).file] = Head(plan[w]).value]
  BY DEF WriteNext
<1> DEFINE e == Head(plan[w])
<1>5. /\ e.file = "metadata" => e.value \in MetaVersions
      /\ e.file # "metadata" => e.value \in Readings \union {None}
  BY <1>2 DEF Entries, Outcomes
<1> HIDE DEF e
<1>6. DOMAIN file' = Files
      /\ \A f \in Files : file'[f] = IF f = e.file THEN e.value ELSE file[f]
  BY <1>3, <1>4 DEF Typed, e
<1>7. /\ file'["metadata"] \in MetaVersions \union {None}
      /\ \A f \in Files \ {"metadata"} : file'[f] \in Readings \union {None}
  BY <1>5, <1>6 DEF Typed, TypeOK, Files
<1>8. captured
  BY DEF Typed, WriteNext
<1> QED
  BY <1>1, <1>2, <1>3, <1>6, <1>7, <1>8 DEF e

LEMMA ContinueType ==
    ASSUME Typed, NEW w \in Processes, NEW writes \in Seq(Entries), Continue(w, writes)
    PROVE  /\ at' \in [Processes -> {"idle", "begun", "writing"}]
           /\ plan' \in [Processes -> Seq(Entries)]
           /\ plan'[w] = writes /\ at'[w] = IF writes = <<>> THEN "idle" ELSE "writing"
           /\ \A v \in Processes \ {w} : plan'[v] = plan[v] /\ at'[v] = at[v]
  BY DEF Continue, Typed

LEMMA TypedKept ==
    ASSUME Typed, [Next]_vars PROVE Typed'
<1>1. ASSUME UNCHANGED vars PROVE Typed'
  BY <1>1 DEF vars, Typed, TypeOK
<1>2. ASSUME NEW w \in Processes, FileCapture(w) PROVE Typed'
  <2>1. /\ ~captured /\ captured' = TRUE /\ Start(w, 0)
        /\ UNCHANGED <<page, file, build, rule, stops, changes>>
    BY <1>2 DEF FileCapture
  <2> DEFINE writes == MetadataWrites(held'[w])
                       \o ExtractionWrites(held'[w], [kind |-> "missing", reading |-> None])
  <2>2. /\ plan' = [plan EXCEPT ![w] = writes]
        /\ at' = [at EXCEPT ![w] = IF writes = <<>> THEN "idle" ELSE "writing"]
    BY <1>2 DEF FileCapture
  <2>3. held' \in [Processes -> Holdings] /\ held'[w].build \in Builds /\ held'[w] \in Holdings
    BY <2>1, StartType
  <2>4. writes \in Seq(Entries)
    BY <2>3, WritesType, Joined
  <2> HIDE DEF writes
  <2>5. /\ at' \in [Processes -> {"idle", "begun", "writing"}]
        /\ plan' \in [Processes -> Seq(Entries)]
        /\ \A v \in Processes : plan'[v] # <<>> <=> at'[v] = "writing"
        /\ \A v \in Processes \ {w} : at'[v] = at[v]
    BY <2>2, <2>4 DEF Typed, TypeOK
  <2>6. \A v \in Processes : at'[v] # "idle" => held'[v].build \in Builds
    BY <2>1, <2>3, <2>5, StartType DEF Typed, TypeOK
  <2> QED
    BY <2>1, <2>3, <2>5, <2>6 DEF Typed, TypeOK
<1>3. ASSUME NEW w \in Processes, BeginPass(w) PROVE Typed'
  <2> DEFINE seen == IF file["metadata"] = None THEN 0 ELSE file["metadata"]
  <2>1. /\ captured /\ Start(w, seen) /\ at' = [at EXCEPT ![w] = "begun"] /\ at[w] = "idle"
        /\ UNCHANGED <<page, file, captured, build, rule, plan, stops, changes>>
    BY <1>3 DEF BeginPass, Start
  <2>2. seen \in MetaVersions \union {0}
    BY DEF Typed, TypeOK
  <2> HIDE DEF seen
  <2>3. held' \in [Processes -> Holdings] /\ held'[w].build \in Builds
        /\ \A v \in Processes \ {w} : held'[v].build = held[v].build
    BY <2>1, <2>2, StartType
  <2>4. \A v \in Processes : /\ at'[v] \in {"idle", "begun", "writing"}
                             /\ at'[v] # "idle" => held'[v].build \in Builds
                             /\ plan'[v] # <<>> <=> at'[v] = "writing"
    BY <2>1, <2>3 DEF Typed, TypeOK
  <2> QED
    BY <2>1, <2>3, <2>4 DEF Typed, TypeOK
<1>4. ASSUME NEW w \in Processes, JudgeRecords(w) PROVE Typed'
  <2>1. /\ at[w] = "begun" /\ Continue(w, PassWrites(held[w], Told))
        /\ UNCHANGED <<page, file, captured, build, rule, held, stops, changes>>
    BY <1>4 DEF JudgeRecords
  <2>2. held[w] \in Holdings /\ held[w].build \in Builds
    BY <2>1 DEF Typed, TypeOK
  <2>3. PassWrites(held[w], Told) \in Seq(Entries)
    BY <2>2, WritesType
  <2> QED
    BY <2>1, <2>2, <2>3, ContinueType DEF Typed, TypeOK
<1>5. ASSUME NEW w \in Processes, WriteNext(w) PROVE Typed'
  <2>1. /\ at[w] = "writing" /\ Continue(w, Tail(plan[w]))
        /\ UNCHANGED <<page, captured, build, rule, held, stops, changes>>
    BY <1>5 DEF WriteNext
  <2>2. Tail(plan[w]) \in Seq(Entries) /\ captured /\ DOMAIN file' = Files
        /\ file'["metadata"] \in MetaVersions \union {None}
        /\ \A f \in Files \ {"metadata"} : file'[f] \in Readings \union {None}
    BY <1>5, Landing
  <2> QED
    BY <2>1, <2>2, ContinueType DEF Typed, TypeOK
<1>6. ASSUME NEW w \in Processes, Stop(w) PROVE Typed'
  <2>1. /\ at' = [at EXCEPT ![w] = "idle"] /\ plan' = [plan EXCEPT ![w] = <<>>]
        /\ stops' = stops + 1 /\ stops < MaxStops
        /\ UNCHANGED <<page, file, captured, build, rule, held, changes>>
    BY <1>6 DEF Stop
  <2>2. stops' \in 0 .. MaxStops
    BY <2>1, BoundsAssumption DEF Typed, TypeOK
  <2>3. /\ at' \in [Processes -> {"idle", "begun", "writing"}]
        /\ plan' \in [Processes -> Seq(Entries)]
        /\ \A v \in Processes : /\ plan'[v] # <<>> <=> at'[v] = "writing"
                                /\ at'[v] # "idle" => at[v] # "idle"
    BY <2>1 DEF Typed, TypeOK
  <2> QED
    BY <2>1, <2>2, <2>3 DEF Typed, TypeOK
<1>7. ASSUME Upgrade PROVE Typed'
  <2>1. build' \in Builds /\ changes' \in 0 .. MaxChanges
        /\ UNCHANGED <<page, file, captured, rule, at, held, plan, stops>>
    BY <1>7, BoundsAssumption DEF Upgrade, Typed, TypeOK
  <2> QED
    BY <2>1 DEF Typed, TypeOK
<1>8. ASSUME EditRules PROVE Typed'
  <2>1. rule' \in BOOLEAN /\ changes' \in 0 .. MaxChanges
        /\ UNCHANGED <<page, file, captured, build, at, held, plan, stops>>
    BY <1>8, BoundsAssumption DEF EditRules, Typed, TypeOK
  <2> QED
    BY <2>1 DEF Typed, TypeOK
<1> QED
  BY <1>1, <1>2, <1>3, <1>4, <1>5, <1>6, <1>7, <1>8 DEF Next

LEMMA TypedAlways == Spec => []Typed
<1>1. ASSUME Init PROVE Typed
  <2>1. \A w \in Processes : Nothing \in Holdings
    BY DEF Nothing, Holdings
  <2>2. <<>> \in Seq(Entries)
    OBVIOUS
  <2>3. /\ at \in [Processes -> {"idle", "begun", "writing"}] /\ held \in [Processes -> Holdings]
        /\ plan \in [Processes -> Seq(Entries)]
        /\ \A w \in Processes : at[w] = "idle" /\ plan[w] = <<>>
    BY <1>1, <2>1, <2>2 DEF Init, Idle
  <2>4. DOMAIN file = Files /\ \A f \in Files : file[f] = None
    BY <1>1 DEF Init
  <2>5. stops \in 0 .. MaxStops /\ changes \in 0 .. MaxChanges
    BY <1>1, BoundsAssumption DEF Init
  <2>6. page \in SomePages /\ captured = FALSE /\ build \in Builds /\ rule \in BOOLEAN
    BY <1>1, StartAssumption DEF Init
  <2>7. TypeOK
    BY <2>3, <2>4, <2>5, <2>6 DEF TypeOK, Files
  <2> QED
    BY <2>3, <2>4, <2>6, <2>7 DEF Typed
<1>2. Typed /\ [Next]_vars => Typed'
  BY TypedKept
<1> QED
  BY <1>1, <1>2, PTL DEF Spec

\* Every variable holds what the code can put in it, and a derived record is
\* of a capture that was filed.
THEOREM TypeCorrect == Spec => []TypeOK
<1>1. Typed => TypeOK
  BY DEF Typed
<1> QED
  BY <1>1, TypedAlways, PTL

-----------------------------------------------------------------------------
(* What a record says *)

\* A record says what its own version and rules make of the page.
Fits(r, k) ==
    /\ page.readsAs[<<r.read, r.site>>] = k
    /\ IF k = "article" THEN r.declared <=> (r.title # 0 /\ page.declares)
                        ELSE r.title = 0 /\ ~r.declared

\* Writes of a program of version n.
WritesOf(n) ==
    {e \in Entries : e.file \in Outcomes /\ e.value # None =>
                        Fits(e.value, e.file) /\ e.value.read <= n}

\* So do the records on file and those about to be, and none is of a program
\* newer than the one that writes it or than the one installed.
Recorded ==
    /\ \A k \in Outcomes : file[k] # None => Fits(file[k], k) /\ file[k].read <= build.read
    /\ \A w \in Processes : at[w] # "idle" =>
          held[w].build.read <= build.read /\ held[w].build.meta <= build.meta
    /\ \A w \in Processes : plan[w] \in Seq(WritesOf(held[w].build.read))

LEMMA VersionsAreNumbers ==
    ASSUME NEW b \in Builds PROVE b.read \in Nat /\ b.meta \in Nat /\ b.meta # 0 /\ b.read \in ReadVersions /\ b.meta \in MetaVersions
<1>1. b.read \in ReadVersions /\ b.meta \in MetaVersions
  BY DEF Builds
<1> QED
  BY <1>1, VersionsAssumption

LEMMA ReadingFits ==
    ASSUME Typed, NEW h \in Holdings, h.build \in Builds, ReadsAs(h) # "unreadable"
    PROVE  /\ Fits(ReadingOf(h, TitleFor(h)), ReadsAs(h))
           /\ ReadingOf(h, TitleFor(h)).read = h.build.read
           /\ ReadingOf(h, TitleFor(h)).site = SiteRule(h)
<1> DEFINE r == ReadingOf(h, TitleFor(h))
           t == IF ReadsAs(h) = "article" THEN TitleFor(h) ELSE 0
<1>1. r.read = h.build.read /\ r.site = SiteRule(h) /\ r.title = t
      /\ r.declared = (ReadsAs(h) = "article" /\ TitleFor(h) # 0 /\ page.declares)
  BY DEF ReadingOf
<1>2. page.readsAs[<<r.read, r.site>>] = ReadsAs(h)
  BY <1>1 DEF ReadsAs
<1> HIDE DEF r
<1>3. Fits(r, ReadsAs(h))
  BY <1>1, <1>2 DEF Fits
<1> QED
  BY <1>1, <1>3 DEF r

LEMMA WritesAreRight ==
    ASSUME Typed, NEW h \in Holdings, h.build \in Builds, NEW known
    PROVE  /\ MetadataWrites(h) \in Seq(WritesOf(h.build.read))
           /\ ExtractionWrites(h, known) \in Seq(WritesOf(h.build.read))
           /\ PassWrites(h, known) \in Seq(WritesOf(h.build.read))
<1> DEFINE S == WritesOf(h.build.read)
           r == ReadingOf(h, TitleFor(h))
<1>1. MetadataWrites(h) \in Seq(S)
  <2>1. Put("metadata", h.build.meta) \in S
    BY DEF Put, Entries, Builds, WritesOf, Outcomes
  <2> HIDE DEF S
  <2> QED
    BY <2>1 DEF MetadataWrites
<1>2. ExtractionWrites(h, known) \in Seq(S)
  <2>1. CASE ReadsAs(h) = "unreadable"
    BY <2>1 DEF ExtractionWrites
  <2>2. CASE ReadsAs(h) # "unreadable"
    <3>1. r \in Readings /\ ReadsAs(h) \in Outcomes /\ Fits(r, ReadsAs(h)) /\ r.read = h.build.read
      BY <2>2, ReadingType, ReadingFits
    <3>2. h.build.read <= h.build.read
      BY VersionsAreNumbers
    <3> HIDE DEF r
    <3>3. \A f \in Outcomes \union {"markdown"} : Remove(f) \in S
      BY DEF Remove, WritesOf, Entries
    <3>4. Put("markdown", r) \in S /\ Put(ReadsAs(h), r) \in S
      BY <3>1, <3>2 DEF Put, WritesOf, Entries, Outcomes
    <3>5. /\ Remove("article") \in S /\ Remove("refused") \in S /\ Remove("not_article") \in S
          /\ Remove("markdown") \in S
      BY <3>3 DEF Outcomes
    <3> HIDE DEF S
    <3>6. OutcomeWrites(ReadsAs(h), r) \in Seq(S)
      <4>1. CASE ReadsAs(h) = "article"
        BY <3>4, <3>5, <4>1 DEF OutcomeWrites
      <4>2. CASE ReadsAs(h) = "refused"
        BY <3>4, <3>5, <4>2 DEF OutcomeWrites
      <4>3. CASE ReadsAs(h) = "not_article"
        BY <3>4, <3>5, <4>3 DEF OutcomeWrites
      <4> QED
        BY <3>1, <4>1, <4>2, <4>3 DEF Outcomes
    <3> QED
      BY <3>6 DEF ExtractionWrites, r
  <2> QED
    BY <2>1, <2>2
<1>3. <<>> \in Seq(S)
  OBVIOUS
<1> HIDE DEF S
<1> QED
  BY <1>1, <1>2, <1>3, Joined DEF PassWrites, S

LEMMA RecordedKept ==
    ASSUME Typed, Typed', Recorded, [Next]_vars PROVE Recorded'
<1>a. ASSUME page' = page PROVE \A n : WritesOf(n)' = WritesOf(n)
  BY <1>a DEF WritesOf, Fits
<1>b. ASSUME UNCHANGED <<page, file, build>>
      PROVE  \A k \in Outcomes : file'[k] # None => Fits(file[k], k)' /\ file'[k].read <= build'.read
  BY <1>b DEF Recorded, Fits
<1>c. build.read \in Nat /\ build.meta \in Nat
  BY VersionsAreNumbers DEF Typed, TypeOK
<1>d. build.read <= build.read /\ build.meta <= build.meta
  BY <1>c
<1>1. ASSUME UNCHANGED vars PROVE Recorded'
  BY <1>1 DEF vars, Recorded, WritesOf, Fits
<1>2. ASSUME NEW w \in Processes, FileCapture(w) PROVE Recorded'
  <2>1. /\ Start(w, 0) /\ UNCHANGED <<page, file, build>>
    BY <1>2 DEF FileCapture
  <2> DEFINE writes == MetadataWrites(held'[w])
                       \o ExtractionWrites(held'[w], [kind |-> "missing", reading |-> None])
  <2>2. /\ plan' = [plan EXCEPT ![w] = writes]
        /\ at' = [at EXCEPT ![w] = IF writes = <<>> THEN "idle" ELSE "writing"]
    BY <1>2 DEF FileCapture
  <2>3. held'[w] \in Holdings /\ held'[w].build = build /\ build \in Builds
        /\ \A v \in Processes \ {w} : held'[v].build = held[v].build
    BY <2>1, StartType DEF Typed, TypeOK
  <2>4. writes \in Seq(WritesOf(held'[w].build.read))
    BY <2>3, WritesAreRight, Joined
  <2> HIDE DEF writes
  <2>5. \A v \in Processes : plan'[v] \in Seq(WritesOf(held'[v].build.read))
    BY <2>2, <2>3, <2>4 DEF Recorded, Typed
  <2>6. \A v \in Processes : at'[v] # "idle" =>
            held'[v].build.read <= build'.read /\ held'[v].build.meta <= build'.meta
    BY <1>d, <2>1, <2>2, <2>3 DEF Recorded, Typed
  <2> QED
    BY <1>a, <1>b, <2>1, <2>5, <2>6 DEF Recorded
<1>3. ASSUME NEW w \in Processes, BeginPass(w) PROVE Recorded'
  <2> DEFINE seen == IF file["metadata"] = None THEN 0 ELSE file["metadata"]
  <2>1. /\ Start(w, seen) /\ at' = [at EXCEPT ![w] = "begun"] /\ at[w] = "idle"
        /\ UNCHANGED <<page, file, build, plan>>
    BY <1>3 DEF BeginPass, Start
  <2>2. seen \in MetaVersions \union {0}
    BY DEF Typed, TypeOK
  <2> HIDE DEF seen
  <2>3. held'[w].build = build /\ \A v \in Processes \ {w} : held'[v].build = held[v].build
    BY <2>1, <2>2, StartType
  <2>4. plan[w] = <<>>
    BY <2>1 DEF Typed, TypeOK
  <2>5. <<>> \in Seq(WritesOf(held'[w].build.read))
    OBVIOUS
  <2>6. \A v \in Processes : plan'[v] \in Seq(WritesOf(held'[v].build.read))
    BY <2>1, <2>3, <2>4, <2>5 DEF Recorded
  <2>7. \A v \in Processes : at'[v] # "idle" =>
            held'[v].build.read <= build'.read /\ held'[v].build.meta <= build'.meta
    <3>1. \A v \in Processes : at[v] # "idle" =>
              held[v].build.read <= build.read /\ held[v].build.meta <= build.meta
      BY Zenon DEF Recorded
    <3>2. \A v \in Processes \ {w} : at'[v] = at[v] /\ held'[v].build = held[v].build
      BY <2>1, <2>3 DEF Typed, TypeOK
    <3>3. held'[w].build = build /\ build' = build
      BY <2>1, <2>3
    <3> QED
      BY <1>d, <3>1, <3>2, <3>3
  <2> QED
    BY <1>a, <1>b, <2>1, <2>6, <2>7 DEF Recorded
<1>4. ASSUME NEW w \in Processes, JudgeRecords(w) PROVE Recorded'
  <2>1. /\ at[w] = "begun" /\ Continue(w, PassWrites(held[w], Told))
        /\ UNCHANGED <<page, file, build, held>>
    BY <1>4 DEF JudgeRecords
  <2>2. held[w] \in Holdings /\ held[w].build \in Builds
    BY <2>1 DEF Typed, TypeOK
  <2>3. PassWrites(held[w], Told) \in Seq(WritesOf(held[w].build.read)) /\ PassWrites(held[w], Told) \in Seq(Entries)
    BY <2>2, WritesType, WritesAreRight
  <2>4. /\ plan'[w] = PassWrites(held[w], Told)
        /\ \A v \in Processes \ {w} : plan'[v] = plan[v] /\ at'[v] = at[v]
    BY <2>1, <2>3, ContinueType
  <2>5. \A v \in Processes : plan'[v] \in Seq(WritesOf(held'[v].build.read))
    BY <2>1, <2>3, <2>4 DEF Recorded
  <2>6. \A v \in Processes : at'[v] # "idle" => at[v] # "idle"
    BY <2>1, <2>4
  <2> QED
    BY <1>a, <1>b, <2>1, <2>5, <2>6 DEF Recorded
<1>5. ASSUME NEW w \in Processes, WriteNext(w) PROVE Recorded'
  <2>1. /\ at[w] = "writing" /\ Continue(w, Tail(plan[w]))
        /\ UNCHANGED <<page, build, held>>
    BY <1>5 DEF WriteNext
  <2> DEFINE e == Head(plan[w])
             n == held[w].build.read
  <2>2. /\ plan[w] # <<>> /\ plan[w] \in Seq(WritesOf(n)) /\ Tail(plan[w]) \in Seq(Entries)
        /\ \A f \in Files : file'[f] = IF f = e.file THEN e.value ELSE file[f]
    BY <1>5, Landing DEF Recorded
  <2>3. e \in WritesOf(n) /\ Tail(plan[w]) \in Seq(WritesOf(n))
    BY <2>2, HeadAndTail
  <2>4. n <= build.read /\ n \in Nat
    BY <2>1, VersionsAreNumbers DEF Recorded, Typed, TypeOK
  <2>5. \A k \in Outcomes : file'[k] # None => Fits(file'[k], k) /\ file'[k].read <= build.read
    <3> TAKE k \in Outcomes
    <3>1. k \in Files /\ k # "metadata"
      BY DEF Outcomes, Files
    <3>2. CASE k = e.file
      <4>1. file'[k] = e.value
        BY <2>2, <3>1, <3>2
      <4>2. file'[k] \in Readings \union {None}
        BY <1>5, Landing, <3>1
      <4>3. file'[k] \in Readings => file'[k].read \in Nat
        BY VersionsAssumption DEF Readings
      <4>4. file'[k] # None => Fits(file'[k], k) /\ file'[k].read <= n
        BY <2>3, <3>2, <4>1 DEF WritesOf
      <4> HIDE DEF n, e
      <4> QED
        BY <1>c, <2>4, <4>2, <4>3, <4>4, Transitive
    <3>3. CASE k # e.file
      BY <2>2, <3>1, <3>3 DEF Recorded
    <3> QED
      BY <3>2, <3>3
  <2>6. /\ plan'[w] = Tail(plan[w])
        /\ \A v \in Processes \ {w} : plan'[v] = plan[v] /\ at'[v] = at[v]
    BY <2>1, <2>2, ContinueType
  <2>7. \A v \in Processes : plan'[v] \in Seq(WritesOf(held'[v].build.read))
    BY <2>1, <2>3, <2>6 DEF Recorded
  <2>8. \A v \in Processes : at'[v] # "idle" => at[v] # "idle"
    BY <2>1, <2>6
  <2>9. \A k \in Outcomes : file'[k] # None => Fits(file[k], k)' /\ file'[k].read <= build'.read
    BY <2>1, <2>5 DEF Fits
  <2> QED
    BY <1>a, <2>1, <2>7, <2>8, <2>9 DEF Recorded
<1>6. ASSUME NEW w \in Processes, Stop(w) PROVE Recorded'
  <2>1. /\ at' = [at EXCEPT ![w] = "idle"] /\ plan' = [plan EXCEPT ![w] = <<>>]
        /\ UNCHANGED <<page, file, build, held>>
    BY <1>6 DEF Stop
  <2>2. <<>> \in Seq(WritesOf(held'[w].build.read))
    OBVIOUS
  <2>3. \A v \in Processes : /\ plan'[v] \in Seq(WritesOf(held'[v].build.read))
                             /\ at'[v] # "idle" => at[v] # "idle"
    BY <2>1, <2>2 DEF Recorded, Typed
  <2> QED
    BY <1>a, <1>b, <2>1, <2>3 DEF Recorded
<1>7. ASSUME Upgrade PROVE Recorded'
  <2>1. /\ build' \in Builds /\ build.meta <= build'.meta /\ build.read <= build'.read
        /\ UNCHANGED <<page, file, at, held, plan>>
    <3>1. PICK b \in Builds : b.meta >= build.meta /\ b.read >= build.read /\ build' = b
      BY <1>7 DEF Upgrade
    <3>2. b.meta \in Nat /\ b.read \in Nat
      BY VersionsAreNumbers
    <3> QED
      BY <1>7, <1>c, <3>1, <3>2 DEF Upgrade
  <2>2. build'.read \in Nat /\ build'.meta \in Nat
    BY <2>1, VersionsAreNumbers
  <2>3. \A k \in Outcomes : file'[k] # None => Fits(file[k], k)' /\ file'[k].read <= build'.read
    <3> SUFFICES ASSUME NEW k \in Outcomes, file[k] # None
                 PROVE  Fits(file[k], k)' /\ file[k].read <= build'.read
      BY <2>1
    <3>1. file[k].read \in Nat
      BY VersionsAssumption DEF Typed, TypeOK, Outcomes, Files, Readings
    <3>2. Fits(file[k], k) /\ file[k].read <= build.read
      BY DEF Recorded
    <3> QED
      BY <1>c, <2>1, <2>2, <3>1, <3>2, Transitive DEF Fits
  <2>4. \A w \in Processes : at'[w] # "idle" =>
           held'[w].build.read <= build'.read /\ held'[w].build.meta <= build'.meta
    <3> SUFFICES ASSUME NEW w \in Processes, at[w] # "idle"
                 PROVE  held[w].build.read <= build'.read /\ held[w].build.meta <= build'.meta
      BY <2>1
    <3>1. held[w].build.read \in Nat /\ held[w].build.meta \in Nat
      BY VersionsAreNumbers DEF Typed, TypeOK
    <3>2. held[w].build.read <= build.read /\ held[w].build.meta <= build.meta
      BY DEF Recorded
    <3> QED
      BY <1>c, <2>1, <2>2, <3>1, <3>2, Transitive
  <2> QED
    BY <1>a, <2>1, <2>3, <2>4 DEF Recorded
<1>8. ASSUME EditRules PROVE Recorded'
  BY <1>8 DEF EditRules, Recorded, WritesOf, Fits
<1> QED
  BY <1>1, <1>2, <1>3, <1>4, <1>5, <1>6, <1>7, <1>8 DEF Next

-----------------------------------------------------------------------------
(* How far a lone process has come *)

OnFile == IF file["metadata"] = None THEN 0 ELSE file["metadata"]
Renews(h) == MetadataIsStale(h) /\ page.titled[h.build.meta]
Target(h) == [kind |-> ReadsAs(h), reading |-> ReadingOf(h, TitleFor(h))]

\* How far the writes of an outcome have come, and what is on file by then.
Writing(k, r, p) ==
    \/ p = OutcomeWrites(k, r)
    \/ /\ k = "article" /\ file["markdown"] = r
       /\ \/ p = <<Put("article", r), Remove("refused"), Remove("not_article")>>
          \/ /\ file["article"] = r
             /\ \/ p = <<Remove("refused"), Remove("not_article")>>
                \/ file["refused"] = None /\ p = <<Remove("not_article")>>
    \/ /\ k = "refused" /\ file["refused"] = r
       /\ \/ p = <<Remove("article"), Remove("markdown"), Remove("not_article")>>
          \/ /\ file["article"] = None
             /\ \/ p = <<Remove("markdown"), Remove("not_article")>>
                \/ p = <<Remove("not_article")>>
    \/ /\ k = "not_article" /\ file["not_article"] = r
       /\ \/ p = <<Remove("article"), Remove("markdown"), Remove("refused")>>
          \/ /\ file["article"] = None
             /\ \/ p = <<Remove("markdown"), Remove("refused")>>
                \/ p = <<Remove("refused")>>

\* What a reader is told once they are done, and nothing that contradicts it.
Written(k, r) ==
    /\ Told = [kind |-> k, reading |-> r]
    /\ \A j \in Outcomes \ {k} : file[j] = None

\* The file an entry names takes its value, and no other file changes.
Lands(e) ==
    /\ page' = page /\ DOMAIN file' = Files
    /\ \A f \in Files : file'[f] = IF f = e.file THEN e.value ELSE file[f]

\* A reader is told of something again, or new prose lies under an old record.
NothingVanishes ==
    ToldKind # "missing" =>
        \/ ToldKind' # "missing"
        \/ file["article"] # None /\ file'["markdown"] # file["markdown"]

LEMMA WritingStep ==
    ASSUME NEW k \in Outcomes, NEW r, r # None, NEW p, Writing(k, r, p), Lands(Head(p))
    PROVE  /\ Tail(p) # <<>> => Writing(k, r, Tail(p))'
           /\ Tail(p) = <<>> => Written(k, r)'
           /\ NothingVanishes
           /\ file'["metadata"] = file["metadata"]
<1> USE DEF Lands, Put, Remove, Files, Outcomes
<1> USE DEF Told, ToldKind, ArticleReadable, NothingVanishes
<1>1. CASE k = "article"
  <2>1. CASE p = OutcomeWrites(k, r)
    <3>1. p = <<Put("markdown", r), Put("article", r), Remove("refused"), Remove("not_article")>>
      BY <1>1, <2>1 DEF OutcomeWrites
    <3>2. Head(p) = Put("markdown", r)
          /\ Tail(p) = <<Put("article", r), Remove("refused"), Remove("not_article")>>
      BY <3>1
    <3>3. file'["markdown"] = r /\ \A f \in Files \ {"markdown"} : file'[f] = file[f]
      BY <3>2
    <3> QED
      BY <1>1, <3>2, <3>3 DEF Writing
  <2>2. CASE p = <<Put("article", r), Remove("refused"), Remove("not_article")>> /\ file["markdown"] = r
    <3>1. Head(p) = Put("article", r) /\ Tail(p) = <<Remove("refused"), Remove("not_article")>>
      BY <2>2
    <3>2. file'["article"] = r /\ \A f \in Files \ {"article"} : file'[f] = file[f]
      BY <3>1
    <3> QED
      BY <1>1, <2>2, <3>1, <3>2 DEF Writing
  <2>3. CASE p = <<Remove("refused"), Remove("not_article")>> /\ file["markdown"] = r /\ file["article"] = r
    <3>1. Head(p) = Remove("refused") /\ Tail(p) = <<Remove("not_article")>>
      BY <2>3
    <3>2. file'["refused"] = None /\ \A f \in Files \ {"refused"} : file'[f] = file[f]
      BY <3>1
    <3> QED
      BY <1>1, <2>3, <3>1, <3>2 DEF Writing
  <2>4. CASE /\ p = <<Remove("not_article")>> /\ file["markdown"] = r /\ file["article"] = r
             /\ file["refused"] = None
    <3>1. Head(p) = Remove("not_article") /\ Tail(p) = <<>>
      BY <2>4
    <3>2. file'["not_article"] = None /\ \A f \in Files \ {"not_article"} : file'[f] = file[f]
      BY <3>1
    <3> QED
      BY <1>1, <2>4, <3>1, <3>2 DEF Written
  <2> QED
    BY <1>1, <2>1, <2>2, <2>3, <2>4 DEF Writing
<1>2. CASE k = "refused"
  <2>1. CASE p = OutcomeWrites(k, r)
    <3>1. p = <<Put("refused", r), Remove("article"), Remove("markdown"), Remove("not_article")>>
      BY <1>2, <2>1 DEF OutcomeWrites
    <3>2. Head(p) = Put("refused", r)
          /\ Tail(p) = <<Remove("article"), Remove("markdown"), Remove("not_article")>>
      BY <3>1
    <3>3. file'["refused"] = r /\ \A f \in Files \ {"refused"} : file'[f] = file[f]
      BY <3>2
    <3> QED
      BY <1>2, <3>2, <3>3 DEF Writing
  <2>2. CASE /\ p = <<Remove("article"), Remove("markdown"), Remove("not_article")>>
             /\ file["refused"] = r
    <3>1. Head(p) = Remove("article") /\ Tail(p) = <<Remove("markdown"), Remove("not_article")>>
      BY <2>2
    <3>2. file'["article"] = None /\ \A f \in Files \ {"article"} : file'[f] = file[f]
      BY <3>1
    <3> QED
      BY <1>2, <2>2, <3>1, <3>2 DEF Writing
  <2>3. CASE /\ p = <<Remove("markdown"), Remove("not_article")>>
             /\ file["refused"] = r /\ file["article"] = None
    <3>1. Head(p) = Remove("markdown") /\ Tail(p) = <<Remove("not_article")>>
      BY <2>3
    <3>2. file'["markdown"] = None /\ \A f \in Files \ {"markdown"} : file'[f] = file[f]
      BY <3>1
    <3> QED
      BY <1>2, <2>3, <3>1, <3>2 DEF Writing
  <2>4. CASE p = <<Remove("not_article")>> /\ file["refused"] = r /\ file["article"] = None
    <3>1. Head(p) = Remove("not_article") /\ Tail(p) = <<>>
      BY <2>4
    <3>2. file'["not_article"] = None /\ \A f \in Files \ {"not_article"} : file'[f] = file[f]
      BY <3>1
    <3> QED
      BY <1>2, <2>4, <3>1, <3>2 DEF Written
  <2> QED
    BY <1>2, <2>1, <2>2, <2>3, <2>4 DEF Writing
<1>3. CASE k = "not_article"
  <2>1. CASE p = OutcomeWrites(k, r)
    <3>1. p = <<Put("not_article", r), Remove("article"), Remove("markdown"), Remove("refused")>>
      BY <1>3, <2>1 DEF OutcomeWrites
    <3>2. Head(p) = Put("not_article", r)
          /\ Tail(p) = <<Remove("article"), Remove("markdown"), Remove("refused")>>
      BY <3>1
    <3>3. file'["not_article"] = r /\ \A f \in Files \ {"not_article"} : file'[f] = file[f]
      BY <3>2
    <3> QED
      BY <1>3, <3>2, <3>3 DEF Writing
  <2>2. CASE /\ p = <<Remove("article"), Remove("markdown"), Remove("refused")>>
             /\ file["not_article"] = r
    <3>1. Head(p) = Remove("article") /\ Tail(p) = <<Remove("markdown"), Remove("refused")>>
      BY <2>2
    <3>2. file'["article"] = None /\ \A f \in Files \ {"article"} : file'[f] = file[f]
      BY <3>1
    <3> QED
      BY <1>3, <2>2, <3>1, <3>2 DEF Writing
  <2>3. CASE /\ p = <<Remove("markdown"), Remove("refused")>>
             /\ file["not_article"] = r /\ file["article"] = None
    <3>1. Head(p) = Remove("markdown") /\ Tail(p) = <<Remove("refused")>>
      BY <2>3
    <3>2. file'["markdown"] = None /\ \A f \in Files \ {"markdown"} : file'[f] = file[f]
      BY <3>1
    <3> QED
      BY <1>3, <2>3, <3>1, <3>2 DEF Writing
  <2>4. CASE p = <<Remove("refused")>> /\ file["not_article"] = r /\ file["article"] = None
    <3>1. Head(p) = Remove("refused") /\ Tail(p) = <<>>
      BY <2>4
    <3>2. file'["refused"] = None /\ \A f \in Files \ {"refused"} : file'[f] = file[f]
      BY <3>1
    <3> QED
      BY <1>3, <2>4, <3>1, <3>2 DEF Written
  <2> QED
    BY <1>3, <2>1, <2>2, <2>3, <2>4 DEF Writing
<1> QED
  BY <1>1, <1>2, <1>3

-----------------------------------------------------------------------------
(* What a pass sets out to write *)

\* How far a pass has come: before its metadata, with only that to write, or
\* with the metadata as it leaves it.
Underway(h, p) ==
    \/ /\ Renews(h) /\ ReadsAs(h) # "unreadable"
       /\ p = <<Put("metadata", h.build.meta)>> \o OutcomeWrites(ReadsAs(h), Target(h).reading)
    \/ /\ Renews(h) /\ (ReadsAs(h) = "unreadable" \/ Told = Target(h))
       /\ p = <<Put("metadata", h.build.meta)>>
    \/ /\ ReadsAs(h) # "unreadable"
       /\ OnFile = (IF Renews(h) THEN h.build.meta ELSE h.seen)
       /\ Writing(ReadsAs(h), Target(h).reading, p)

\* No record is of a later program than the one that runs.
NoneNewer(h) == \A k \in Outcomes : file[k] # None => file[k].read <= h.build.read

\* What a reader is told is of the program and the rules of h, and of its kind.
OfItsBuild(h) ==
    /\ ToldKind = ReadsAs(h)
    /\ Told.reading.read = h.build.read /\ Told.reading.site = SiteRule(h)

\* One outcome, and an article with the title on file unless a pass of build
\* b would find something stale.
Single == \A k \in Outcomes \ {ToldKind} : file[k] = None
Tidy(b) ==
    /\ Single
    /\ ToldKind = "article" =>
          \/ file["article"].title = OnFile \/ OnFile < b.meta
          \/ file["article"].site \/ file["article"].read < b.read

LEMMA ToldType ==
    ASSUME Typed
    PROVE  /\ ToldKind \in Outcomes \union {"missing"}
           /\ ToldKind # "missing" => file[ToldKind] # None /\ file[ToldKind] \in Readings
                                      /\ Told = [kind |-> ToldKind, reading |-> file[ToldKind]]
           /\ Told.kind = ToldKind
           /\ ToldKind # "missing" => Told.reading = file[ToldKind]
           /\ ToldKind = "article" => file["markdown"] = file["article"]
           /\ OnFile \in MetaVersions \union {0}
<1>1. ToldKind \in Outcomes \union {"missing"}
      /\ (ToldKind # "missing" => file[ToldKind] # None)
      /\ (ToldKind = "article" => file["markdown"] = file["article"])
  BY DEF ToldKind, ArticleReadable, Outcomes
<1>2. ToldKind # "missing" => file[ToldKind] \in Readings
  <2>1. \A k \in Outcomes : file[k] \in Readings \union {None}
    BY DEF Typed, TypeOK, Outcomes, Files
  <2> QED
    BY <1>1, <2>1
<1>3. Told.kind = ToldKind /\ (ToldKind # "missing" => Told = [kind |-> ToldKind, reading |-> file[ToldKind]])
  BY DEF Told
<1>4. OnFile \in MetaVersions \union {0}
  BY DEF OnFile, Typed, TypeOK
<1> QED
  BY <1>1, <1>2, <1>3, <1>4

LEMMA TargetIs ==
    ASSUME Typed, NEW h \in Holdings, h.build \in Builds, ReadsAs(h) # "unreadable"
    PROVE  /\ Target(h).kind = ReadsAs(h) /\ Target(h).reading = ReadingOf(h, TitleFor(h))
           /\ ReadsAs(h) \in Outcomes /\ Target(h).reading \in Readings /\ Target(h).reading # None
           /\ Target(h) = [kind |-> ReadsAs(h), reading |-> Target(h).reading]
           /\ OutcomeWrites(ReadsAs(h), Target(h).reading) \in Seq(Entries)
           /\ OutcomeWrites(ReadsAs(h), Target(h).reading) # <<>>
<1>1. Target(h).kind = ReadsAs(h) /\ Target(h).reading = ReadingOf(h, TitleFor(h))
      /\ Target(h) = [kind |-> ReadsAs(h), reading |-> Target(h).reading]
  BY DEF Target
<1>2. ReadsAs(h) \in Outcomes /\ ReadingOf(h, TitleFor(h)) \in Readings
  BY ReadingType
<1>3. \A r \in Readings : r # None
  BY NoneAssumption
<1> QED
  BY <1>1, <1>2, <1>3, OutcomeWritesType

LEMMA Extraction ==
    ASSUME Typed, NEW h \in Holdings, h.build \in Builds
    PROVE  /\ (ReadsAs(h) = "unreadable" \/ Told = Target(h)) => ExtractionWrites(h, Told) = <<>>
           /\ ~(ReadsAs(h) = "unreadable" \/ Told = Target(h)) =>
                 /\ ExtractionWrites(h, Told) = OutcomeWrites(ReadsAs(h), Target(h).reading)
                 /\ ExtractionWrites(h, Told) # <<>>
<1>1. Target(h) = [kind |-> ReadsAs(h), reading |-> ReadingOf(h, TitleFor(h))]
      /\ Target(h).reading = ReadingOf(h, TitleFor(h))
  BY DEF Target
<1> QED
  BY <1>1, TargetIs DEF ExtractionWrites

LEMMA PassSetsOut ==
    ASSUME Typed, NEW h \in Holdings, h.build \in Builds, h.seen = OnFile,
           PassWrites(h, Told) # <<>>
    PROVE  Underway(h, PassWrites(h, Told))
<1> DEFINE p == PassWrites(h, Told)
           x == ExtractionWrites(h, Told)
           put == <<Put("metadata", h.build.meta)>>
<1>1. x \in Seq(Entries) /\ Put("metadata", h.build.meta) \in Entries
  <2>1. Put("metadata", h.build.meta) \in Entries
    BY DEF Put, Entries, Builds
  <2> QED
    BY <2>1, WritesType
<1>2. put \o <<>> = put /\ <<>> \o x = x /\ put \o x = put \o x
  BY <1>1, Front
<1>3. CASE Renews(h)
  <2>1. p = put \o x
    BY <1>3 DEF PassWrites, Renews, MetadataWrites
  <2> HIDE DEF p, x, put
  <2>2. CASE ReadsAs(h) = "unreadable" \/ Told = Target(h)
    <3>1. p = put
      BY <1>2, <2>1, <2>2, Extraction DEF x
    <3> QED
      BY <1>3, <2>2, <3>1 DEF Underway, p, put
  <2>3. CASE ~(ReadsAs(h) = "unreadable" \/ Told = Target(h))
    <3>1. p = put \o OutcomeWrites(ReadsAs(h), Target(h).reading)
      BY <2>1, <2>3, Extraction DEF x
    <3> QED
      BY <1>3, <2>3, <3>1 DEF Underway, p, put
  <2> QED
    BY <2>2, <2>3
<1>4. CASE ~Renews(h)
  <2>1. p = <<>> \o x \/ p = <<>> \o <<>>
    <3>1. (IF MetadataIsStale(h) THEN MetadataWrites(h) ELSE <<>>) = <<>>
      BY <1>4 DEF Renews, MetadataWrites
    <3> QED
      BY <3>1 DEF PassWrites
  <2>2. <<>> \o <<>> = <<>>
    OBVIOUS
  <2>3. p = x /\ x # <<>>
    BY <1>2, <2>1, <2>2
  <2> HIDE DEF p, x, put
  <2>4. ReadsAs(h) # "unreadable" /\ p = OutcomeWrites(ReadsAs(h), Target(h).reading)
    BY <2>3, Extraction DEF x
  <2>5. Writing(ReadsAs(h), Target(h).reading, p)
    BY <2>4 DEF Writing
  <2> QED
    BY <1>4, <2>4, <2>5 DEF Underway, p
<1> QED
  BY <1>3, <1>4

LEMMA PassIsEmpty ==
    ASSUME Typed, NEW h \in Holdings, h.build \in Builds
    PROVE  PassWrites(h, Told) = <<>> <=>
              /\ ~Renews(h)
              /\ \/ ReadsAs(h) = "unreadable" \/ Told = Target(h)
                 \/ ~MetadataIsStale(h) /\ ~OutcomeIsStale(h, Told)
<1> DEFINE x == ExtractionWrites(h, Told)
           put == <<Put("metadata", h.build.meta)>>
<1>1. x \in Seq(Entries) /\ Put("metadata", h.build.meta) \in Entries
  <2>1. Put("metadata", h.build.meta) \in Entries
    BY DEF Put, Entries, Builds
  <2> QED
    BY <2>1, WritesType
<1>2. put \o x # <<>> /\ <<>> \o x = x /\ <<>> \o <<>> = <<>>
  <2> HIDE DEF x
  <2> QED
    BY <1>1, Front
<1>3. CASE Renews(h)
  <2>1. PassWrites(h, Told) = put \o x
    BY <1>3 DEF PassWrites, Renews, MetadataWrites
  <2> QED
    BY <1>2, <1>3, <2>1
<1>4. CASE ~Renews(h)
  <2>1. PassWrites(h, Told) = <<>> \o (IF MetadataIsStale(h) \/ OutcomeIsStale(h, Told) THEN x ELSE <<>>)
    <3>1. (IF MetadataIsStale(h) THEN MetadataWrites(h) ELSE <<>>) = <<>>
      BY <1>4 DEF Renews, MetadataWrites
    <3> QED
      BY <3>1 DEF PassWrites
  <2> HIDE DEF x, put
  <2>2. x = <<>> <=> (ReadsAs(h) = "unreadable" \/ Told = Target(h))
    BY Extraction DEF x
  <2> QED
    BY <1>2, <1>4, <2>1, <2>2
<1> QED
  BY <1>3, <1>4

\* What is not judged stale is of the program and the rules that judge it.
LEMMA CurrentIsOfItsBuild ==
    ASSUME Typed, Recorded, NEW h \in Holdings, h.build \in Builds, NoneNewer(h),
           ~OutcomeIsStale(h, Told)
    PROVE  OfItsBuild(h) /\ SiteRule(h) = FALSE /\ Fits(file[ToldKind], ReadsAs(h))
<1>1. ToldKind \in Outcomes /\ file[ToldKind] # None /\ file[ToldKind] \in Readings
      /\ Told.reading = file[ToldKind] /\ Told.kind = ToldKind
  BY ToldType DEF OutcomeIsStale
<1> DEFINE r == file[ToldKind]
<1>2. ~h.rule /\ ~r.site /\ ~(r.read < h.build.read)
  BY <1>1 DEF OutcomeIsStale
<1>3. Fits(r, ToldKind) /\ r.read <= h.build.read
  BY <1>1 DEF Recorded, NoneNewer
<1>4. r.read \in Nat /\ h.build.read \in Nat /\ r.site \in BOOLEAN
  BY <1>1, VersionsAreNumbers, VersionsAssumption DEF Readings
<1> HIDE DEF r
<1>5. r.read = h.build.read
  BY <1>2, <1>3, <1>4
<1>6. SiteRule(h) = FALSE /\ r.site = FALSE
  BY <1>2, <1>4 DEF SiteRule
<1>7. ToldKind = ReadsAs(h)
  BY <1>3, <1>5, <1>6 DEF Fits, ReadsAs
<1> QED
  BY <1>1, <1>3, <1>5, <1>6, <1>7 DEF OfItsBuild, r

LEMMA TargetIsOfItsBuild ==
    ASSUME Typed, NEW h \in Holdings, h.build \in Builds, ReadsAs(h) # "unreadable", Told = Target(h)
    PROVE  OfItsBuild(h)
  BY TargetIs, ReadingFits, ToldType DEF OfItsBuild

\* A tidy record that is not judged stale is what the pass would have written.
LEMMA CurrentIsTarget ==
    ASSUME Typed, Recorded, NEW h \in Holdings, h.build \in Builds, NoneNewer(h), h.seen = OnFile,
           ~MetadataIsStale(h), ~OutcomeIsStale(h, Told), Tidy(h.build)
    PROVE  Told = Target(h)
<1>1. OfItsBuild(h) /\ SiteRule(h) = FALSE /\ Fits(file[ToldKind], ReadsAs(h))
  BY CurrentIsOfItsBuild
<1>2. ToldKind # "missing"
  BY ToldType DEF OutcomeIsStale
<1> DEFINE r == file[ToldKind]
           g == ReadingOf(h, TitleFor(h))
<1>3. r \in Readings /\ Told = [kind |-> ToldKind, reading |-> r]
  BY <1>2, ToldType
<1>4. r.read = h.build.read /\ r.site = SiteRule(h) /\ ToldKind = ReadsAs(h)
  BY <1>1, <1>3 DEF OfItsBuild
<1>5. TitleFor(h) = OnFile
  BY DEF TitleFor
<1>6. g = [read |-> h.build.read, site |-> SiteRule(h),
           title |-> IF ReadsAs(h) = "article" THEN OnFile ELSE 0,
           declared |-> ReadsAs(h) = "article" /\ OnFile # 0 /\ page.declares]
  BY <1>5 DEF ReadingOf
<1>7. r.title = IF ReadsAs(h) = "article" THEN OnFile ELSE 0
  <2>1. CASE ReadsAs(h) = "article"
    <3>1. OnFile \in Nat /\ h.build.read \in Nat /\ h.build.meta \in Nat
      <4>1. OnFile \in MetaVersions \union {0}
        BY ToldType
      <4>2. h.build.read \in Nat /\ h.build.meta \in Nat
        BY VersionsAreNumbers
      <4> QED
        BY <4>1, <4>2, VersionsAssumption
    <3>2. ~(OnFile < h.build.meta) /\ r.site = FALSE /\ ~(r.read < h.build.read)
      BY <1>1, <1>4, <3>1 DEF MetadataIsStale
    <3>3. ToldKind = "article"
      BY <1>4, <2>1
    <3> QED
      BY <2>1, <3>2, <3>3 DEF Tidy
  <2>2. CASE ReadsAs(h) # "article"
    BY <1>1, <2>2 DEF Fits
  <2> QED
    BY <2>1, <2>2
<1>8. r.declared = (ReadsAs(h) = "article" /\ OnFile # 0 /\ page.declares)
  <2>1. r.declared \in BOOLEAN
    BY <1>3 DEF Readings
  <2>2. CASE ReadsAs(h) = "article"
    BY <1>1, <1>7, <2>1, <2>2, PageType DEF Fits
  <2>3. CASE ReadsAs(h) # "article"
    BY <1>1, <2>1, <2>3 DEF Fits
  <2> QED
    BY <2>2, <2>3
<1>9. r = [read |-> r.read, site |-> r.site, title |-> r.title, declared |-> r.declared]
  BY <1>3 DEF Readings
<1> HIDE DEF r, g
<1>10. r = g
  BY <1>4, <1>6, <1>7, <1>8, <1>9
<1> QED
  BY <1>3, <1>4, <1>10 DEF Target, g

-----------------------------------------------------------------------------
(* One write of a lone process *)

\* What every write of a lone process leaves, p being what it had to write.
Advances(h, p) ==
    /\ Tail(p) # <<>> => Underway(h, Tail(p))' /\ \A m : Tail(p) # <<Put("metadata", m)>>
    /\ Tail(p) = <<>> =>
          /\ OnFile' = IF Renews(h) THEN h.build.meta ELSE h.seen
          /\ ReadsAs(h) # "unreadable" => Told' = Target(h)
          /\ ReadsAs(h) = "unreadable" => Renews(h)
          /\ \/ p = <<Put("metadata", h.build.meta)>> /\ Told' = Told /\ ToldKind' = ToldKind
                /\ \A k \in Outcomes : file'[k] = file[k]
             \/ ReadsAs(h) # "unreadable" /\ \A j \in Outcomes \ {ReadsAs(h)} : file'[j] = None
    /\ NothingVanishes

\* The writes of an outcome put nothing in the metadata record.
LEMMA OtherTails ==
    ASSUME NEW a, NEW b, NEW c, NEW d, NEW x, x # d
    PROVE  /\ Tail(<<a, b, c, d>>) # <<x>> /\ Tail(<<b, c, d>>) # <<x>>
           /\ Tail(<<c, d>>) # <<x>> /\ Tail(<<d>>) # <<x>>
  OBVIOUS

LEMMA TailIsOfOutcome ==
    ASSUME NEW k \in Outcomes, NEW r, NEW p, Writing(k, r, p), NEW m
    PROVE  Tail(p) # <<Put("metadata", m)>>
<1> DEFINE x == Put("metadata", m)
<1>a. \A f : f # "metadata" => x # Remove(f)
  BY DEF Put, Remove
<1>b. x # Remove("article") /\ x # Remove("refused") /\ x # Remove("not_article") /\ x # Remove("markdown")
  BY <1>a
<1> HIDE DEF x
<1>1. CASE k = "article"
  <2>1. \/ p = <<Put("markdown", r), Put("article", r), Remove("refused"), Remove("not_article")>>
        \/ p = <<Put("article", r), Remove("refused"), Remove("not_article")>>
        \/ p = <<Remove("refused"), Remove("not_article")>>
        \/ p = <<Remove("not_article")>>
    BY <1>1 DEF Writing, OutcomeWrites
  <2> QED
    BY <1>b, <2>1, OtherTails DEF x
<1>2. CASE k = "refused"
  <2>1. \/ p = <<Put("refused", r), Remove("article"), Remove("markdown"), Remove("not_article")>>
        \/ p = <<Remove("article"), Remove("markdown"), Remove("not_article")>>
        \/ p = <<Remove("markdown"), Remove("not_article")>>
        \/ p = <<Remove("not_article")>>
    BY <1>2 DEF Writing, OutcomeWrites
  <2> QED
    BY <1>b, <2>1, OtherTails DEF x
<1>3. CASE k = "not_article"
  <2>1. \/ p = <<Put("not_article", r), Remove("article"), Remove("markdown"), Remove("refused")>>
        \/ p = <<Remove("article"), Remove("markdown"), Remove("refused")>>
        \/ p = <<Remove("markdown"), Remove("refused")>>
        \/ p = <<Remove("refused")>>
    BY <1>3 DEF Writing, OutcomeWrites
  <2> QED
    BY <1>b, <2>1, OtherTails DEF x
<1> QED
  BY <1>1, <1>2, <1>3 DEF Outcomes

LEMMA MetadataLands ==
    ASSUME NEW m \in MetaVersions, NEW e, e = Put("metadata", m), Lands(e)
    PROVE  /\ OnFile' = m /\ Told' = Told /\ ToldKind' = ToldKind /\ NothingVanishes
           /\ \A k \in Outcomes : file'[k] = file[k]
<1>1. e.file = "metadata" /\ e.value = m
  BY DEF Put
<1>2. file'["metadata"] = m /\ \A f \in Files \ {"metadata"} : file'[f] = file[f]
  BY <1>1 DEF Lands, Files
<1>3. ToldKind' = ToldKind /\ ToldKind \in Outcomes \union {"missing"}
  BY <1>2 DEF ToldKind, ArticleReadable, Files, Outcomes
<1>4. \A k \in Outcomes : file'[k] = file[k]
  BY <1>2 DEF Outcomes, Files
<1>5. Told' = Told
  BY <1>3, <1>4 DEF Told
<1>6. OnFile' = m
  BY <1>2, NoneAssumption DEF OnFile
<1> QED
  BY <1>3, <1>4, <1>5, <1>6 DEF NothingVanishes

LEMMA WriteAdvances ==
    ASSUME Typed, NEW h \in Holdings, h.build \in Builds, NEW p, Underway(h, p), Lands(Head(p))
    PROVE  Advances(h, p)
<1> DEFINE put == <<Put("metadata", h.build.meta)>>
           ws == OutcomeWrites(ReadsAs(h), Target(h).reading)
<1>a. page' = page
  BY DEF Lands
<1>b. Renews(h)' = Renews(h) /\ ReadsAs(h)' = ReadsAs(h) /\ Target(h)' = Target(h)
  BY <1>a DEF Renews, MetadataIsStale, ReadsAs, SiteRule, Target, ReadingOf, TitleFor
<1>c. h.build.meta \in MetaVersions
  BY DEF Builds
<1>1. CASE Renews(h) /\ ReadsAs(h) # "unreadable" /\ p = put \o ws
  <2>1. Head(p) = Put("metadata", h.build.meta) /\ Tail(p) = ws /\ ws # <<>>
    <3>1. ws \in Seq(Entries) /\ ws # <<>>
      BY <1>1, TargetIs
    <3>2. Put("metadata", h.build.meta) \in Entries
      BY <1>c DEF Put, Entries
    <3> HIDE DEF ws
    <3> QED
      BY <1>1, <3>1, <3>2, Front
  <2>2. OnFile' = h.build.meta /\ NothingVanishes
    BY <1>c, <2>1, MetadataLands
  <2>3. Writing(ReadsAs(h), Target(h).reading, Tail(p))'
    BY <1>b, <2>1 DEF Writing
  <2>4. Underway(h, Tail(p))'
    BY <1>1, <1>b, <2>2, <2>3 DEF Underway
  <2>5. \A m : Tail(p) # <<Put("metadata", m)>>
    <3> SUFFICES ASSUME NEW m PROVE ws # <<Put("metadata", m)>>
      BY <2>1
    <3>1. ReadsAs(h) \in Outcomes
      BY <1>1, TargetIs
    <3> QED
      BY <3>1 DEF OutcomeWrites, Put, Remove, Outcomes
  <2> HIDE DEF ws
  <2> QED
    BY <2>1, <2>2, <2>4, <2>5 DEF Advances
<1>2. CASE /\ Renews(h) /\ (ReadsAs(h) = "unreadable" \/ Told = Target(h)) /\ p = put
  <2>1. Head(p) = Put("metadata", h.build.meta) /\ Tail(p) = <<>>
    BY <1>2
  <2>2. /\ OnFile' = h.build.meta /\ Told' = Told /\ ToldKind' = ToldKind /\ NothingVanishes
        /\ \A k \in Outcomes : file'[k] = file[k]
    BY <1>c, <2>1, MetadataLands
  <2> QED
    BY <1>2, <2>1, <2>2 DEF Advances
<1>3. CASE /\ ReadsAs(h) # "unreadable"
           /\ OnFile = (IF Renews(h) THEN h.build.meta ELSE h.seen)
           /\ Writing(ReadsAs(h), Target(h).reading, p)
  <2>1. /\ ReadsAs(h) \in Outcomes /\ Target(h).reading # None
        /\ Target(h) = [kind |-> ReadsAs(h), reading |-> Target(h).reading]
    BY <1>3, TargetIs
  <2>2. /\ Tail(p) # <<>> => Writing(ReadsAs(h), Target(h).reading, Tail(p))'
        /\ Tail(p) = <<>> => Written(ReadsAs(h), Target(h).reading)'
        /\ NothingVanishes
        /\ file'["metadata"] = file["metadata"]
    <3> DEFINE k == ReadsAs(h)
               r == Target(h).reading
    <3>1. k' = k /\ r' = r
      BY <1>b
    <3>2. \A i \in Outcomes : \A s : s # None /\ Writing(i, s, p) =>
             /\ Tail(p) # <<>> => Writing(i, s, Tail(p))'
             /\ Tail(p) = <<>> => Written(i, s)'
             /\ NothingVanishes
             /\ file'["metadata"] = file["metadata"]
      BY WritingStep
    <3>3. /\ Tail(p) # <<>> => Writing(k, r, Tail(p))'
          /\ Tail(p) = <<>> => Written(k, r)'
          /\ NothingVanishes
          /\ file'["metadata"] = file["metadata"]
      BY <1>3, <2>1, <3>1, <3>2
    <3> QED
      BY <3>3
  <2>3. OnFile' = OnFile
    BY <2>2 DEF OnFile
  <2>4. Tail(p) # <<>> => Underway(h, Tail(p))'
    BY <1>3, <1>b, <2>2, <2>3 DEF Underway
  <2>5. \A m : Tail(p) # <<Put("metadata", m)>>
    BY <1>3, <2>1, TailIsOfOutcome
  <2>6. Tail(p) = <<>> => Told' = Target(h) /\ \A j \in Outcomes \ {ReadsAs(h)} : file'[j] = None
    BY <1>b, <2>1, <2>2 DEF Written
  <2> QED
    BY <1>3, <2>2, <2>3, <2>4, <2>5, <2>6 DEF Advances
<1> QED
  BY <1>1, <1>2, <1>3 DEF Underway

-----------------------------------------------------------------------------
(* What holds of a process as long as no other has come *)

Alone(w) == at[w] # "idle" /\ held[w].alone

Lone ==
    \A w \in Processes : Alone(w) =>
        /\ \A v \in Processes \ {w} : at[v] = "idle"
        /\ NoneNewer(held[w])
        /\ at[w] = "begun" => held[w].seen = OnFile
        /\ at[w] = "writing" => Underway(held[w], plan[w])

\* What a process that writes does to the files, and to its own plan.
LEMMA WriteNextLands ==
    ASSUME Typed, NEW w \in Processes, WriteNext(w)
    PROVE  /\ Lands(Head(plan[w])) /\ held[w] \in Holdings /\ held[w].build \in Builds
           /\ held' = held /\ build' = build /\ rule' = rule /\ clean' = clean /\ captured' = captured
           /\ plan'[w] = Tail(plan[w])
           /\ at[w] = "writing" /\ at'[w] = IF Tail(plan[w]) = <<>> THEN "idle" ELSE "writing"
           /\ \A v \in Processes \ {w} : plan'[v] = plan[v] /\ at'[v] = at[v]
           /\ last' = IF Tail(plan[w]) = <<>> /\ held[w].alone
                      THEN [build |-> held[w].build, rule |-> held[w].rule] ELSE None
<1>1. Lands(Head(plan[w])) /\ Tail(plan[w]) \in Seq(Entries)
  <2>1. page' = page
    BY DEF WriteNext
  <2> QED
    BY <2>1, Landing DEF Lands
<1>2. Continue(w, Tail(plan[w])) /\ at[w] = "writing" /\ held' = held /\ build' = build /\ rule' = rule
      /\ clean' = clean /\ captured' = captured
  BY DEF WriteNext
<1>3. held[w] \in Holdings /\ held[w].build \in Builds
  BY <1>2 DEF Typed, TypeOK
<1>4. last' = IF Tail(plan[w]) = <<>> /\ held[w].alone
              THEN [build |-> held[w].build, rule |-> held[w].rule] ELSE None
  BY <1>2 DEF Continue
<1> QED
  BY <1>1, <1>2, <1>3, <1>4, ContinueType

LEMMA JudgeContinues ==
    ASSUME Typed, NEW w \in Processes, JudgeRecords(w)
    PROVE  /\ UNCHANGED <<page, file, captured, build, rule, held, clean>>
           /\ held[w] \in Holdings /\ held[w].build \in Builds
           /\ plan'[w] = PassWrites(held[w], Told)
           /\ at[w] = "begun" /\ at'[w] = IF PassWrites(held[w], Told) = <<>> THEN "idle" ELSE "writing"
           /\ \A v \in Processes \ {w} : plan'[v] = plan[v] /\ at'[v] = at[v]
           /\ last' = IF PassWrites(held[w], Told) = <<>> /\ held[w].alone
                      THEN [build |-> held[w].build, rule |-> held[w].rule] ELSE None
<1>1. /\ Continue(w, PassWrites(held[w], Told)) /\ at[w] = "begun"
      /\ UNCHANGED <<page, file, captured, build, rule, held, clean>>
  BY DEF JudgeRecords
<1>2. held[w] \in Holdings /\ held[w].build \in Builds
  BY <1>1 DEF Typed, TypeOK
<1>3. PassWrites(held[w], Told) \in Seq(Entries)
  BY <1>2, WritesType
<1>4. last' = IF PassWrites(held[w], Told) = <<>> /\ held[w].alone
              THEN [build |-> held[w].build, rule |-> held[w].rule] ELSE None
  BY <1>1 DEF Continue
<1> QED
  BY <1>1, <1>2, <1>3, <1>4, ContinueType

\* The process that files the capture judges it like a pass that finds nothing.
LEMMA FilingIsAPass ==
    ASSUME Typed, NEW w \in Processes, FileCapture(w)
    PROVE  /\ Start(w, 0) /\ UNCHANGED <<page, file, build>> /\ at[w] = "idle"
           /\ held'[w] \in Holdings /\ held'[w].build = build /\ build \in Builds /\ held'[w].seen = OnFile
           /\ \A f \in Files : file[f] = None
           /\ ToldKind = "missing"
           /\ plan'[w] = PassWrites(held'[w], Told)
           /\ at'[w] = IF PassWrites(held'[w], Told) = <<>> THEN "idle" ELSE "writing"
           /\ \A v \in Processes : at[v] = "idle"
           /\ \A v \in Processes \ {w} : at'[v] = "idle"
           /\ last' = None
<1>1. /\ Start(w, 0) /\ UNCHANGED <<page, file, build>> /\ ~captured /\ last' = None
  BY DEF FileCapture
<1>2. /\ \A f \in Files : file[f] = None
      /\ \A v \in Processes : at[v] = "idle"
  BY <1>1 DEF Typed, TypeOK
<1>3. held'[w] \in Holdings /\ held'[w].build = build /\ build \in Builds /\ held'[w].seen = 0
  BY <1>1, StartType DEF Typed, TypeOK
<1>4. OnFile = 0 /\ ToldKind = "missing" /\ Told = [kind |-> "missing", reading |-> None]
  BY <1>2 DEF OnFile, Told, ToldKind, ArticleReadable, Files
<1>5. MetadataIsStale(held'[w])
  <2>1. held'[w].build.meta \in Nat /\ held'[w].build.meta # 0
    BY <1>3, VersionsAreNumbers
  <2> DEFINE m == held'[w].build.meta
  <2> HIDE DEF m
  <2>2. 0 < m
    BY <2>1 DEF m
  <2> QED
    BY <1>3, <2>2 DEF MetadataIsStale, m
<1> DEFINE writes == MetadataWrites(held'[w]) \o ExtractionWrites(held'[w], Told)
<1>6. writes = PassWrites(held'[w], Told)
  BY <1>5 DEF PassWrites
<1>7. /\ plan' = [plan EXCEPT ![w] = writes]
      /\ at' = [at EXCEPT ![w] = IF writes = <<>> THEN "idle" ELSE "writing"]
  BY <1>4 DEF FileCapture
<1> HIDE DEF writes
<1>8. /\ plan'[w] = writes /\ at'[w] = IF writes = <<>> THEN "idle" ELSE "writing"
      /\ \A v \in Processes \ {w} : at'[v] = "idle"
  BY <1>2, <1>7 DEF Typed
<1> QED
  BY <1>1, <1>2, <1>3, <1>4, <1>6, <1>8

LEMMA BeginReads ==
    ASSUME Typed, NEW w \in Processes, BeginPass(w)
    PROVE  /\ Start(w, OnFile) /\ UNCHANGED <<page, file, build, plan, last>> /\ at[w] = "idle"
           /\ held'[w] \in Holdings /\ held'[w].build = build /\ build \in Builds /\ held'[w].seen = OnFile
           /\ at'[w] = "begun" /\ \A v \in Processes \ {w} : at'[v] = at[v]
<1>1. /\ Start(w, OnFile) /\ UNCHANGED <<page, file, build, plan, last>> /\ at[w] = "idle"
      /\ at' = [at EXCEPT ![w] = "begun"]
  BY DEF BeginPass, OnFile, Start
<1>2. OnFile \in MetaVersions \union {0}
  BY ToldType
<1> QED
  BY <1>1, <1>2, StartType DEF Typed, TypeOK

LEMMA SameFiles ==
    ASSUME page' = page, file' = file
    PROVE  /\ OnFile' = OnFile /\ Told' = Told /\ ToldKind' = ToldKind
           /\ \A h, p : Underway(h, p) => Underway(h, p)'
           /\ \A h : NoneNewer(h) => NoneNewer(h)'
           /\ \A h : Target(h)' = Target(h) /\ ReadsAs(h)' = ReadsAs(h)
<1>1. OnFile' = OnFile /\ Told' = Told /\ ToldKind' = ToldKind
  BY DEF OnFile, Told, ToldKind, ArticleReadable
<1>2. \A h : Target(h)' = Target(h) /\ ReadsAs(h)' = ReadsAs(h) /\ Renews(h)' = Renews(h)
  BY DEF Target, ReadingOf, TitleFor, Renews, ReadsAs, SiteRule, MetadataIsStale
<1>3. \A k, r, p : Writing(k, r, p) => Writing(k, r, p)'
  BY DEF Writing
<1>4. ASSUME NEW h, NEW p, Underway(h, p) PROVE Underway(h, p)'
  BY <1>1, <1>2, <1>3, <1>4 DEF Underway
<1>5. \A h : NoneNewer(h) => NoneNewer(h)'
  BY DEF NoneNewer
<1> QED
  BY <1>1, <1>2, <1>4, <1>5

LEMMA LoneKept ==
    ASSUME Typed, Typed', Recorded, Lone, [Next]_vars PROVE Lone'
<1>1. ASSUME UNCHANGED <<page, file, at, held, plan>> PROVE Lone'
  <2> SUFFICES ASSUME NEW w \in Processes, Alone(w)'
               PROVE  /\ \A v \in Processes \ {w} : at'[v] = "idle"
                      /\ NoneNewer(held[w])'
                      /\ at'[w] = "begun" => held'[w].seen = OnFile'
                      /\ at'[w] = "writing" => Underway(held[w], plan[w])'
    BY DEF Lone
  <2>1. Alone(w)
    BY <1>1 DEF Alone
  <2>2. /\ held'[w] = held[w] /\ plan'[w] = plan[w] /\ at' = at /\ OnFile' = OnFile
        /\ \A h, p : Underway(h, p) => Underway(h, p)'
        /\ \A h : NoneNewer(h) => NoneNewer(h)'
    BY <1>1, SameFiles
  <2>3. /\ NoneNewer(held[w]) /\ (at[w] = "begun" => held[w].seen = OnFile)
        /\ (at[w] = "writing" => Underway(held[w], plan[w]))
        /\ \A v \in Processes \ {w} : at[v] = "idle"
    BY <2>1 DEF Lone
  <2>4. NoneNewer(held[w])' /\ (at[w] = "writing" => Underway(held[w], plan[w])')
    BY <2>2, <2>3
  <2> QED
    BY <2>2, <2>3, <2>4
<1>2. ASSUME NEW u \in Processes, FileCapture(u) PROVE Lone'
  <2>1. /\ page' = page /\ file' = file /\ held'[u] \in Holdings /\ held'[u].build \in Builds
        /\ held'[u].seen = OnFile /\ plan'[u] = PassWrites(held'[u], Told)
        /\ at'[u] = (IF PassWrites(held'[u], Told) = <<>> THEN "idle" ELSE "writing")
        /\ \A v \in Processes \ {u} : at'[v] = "idle"
        /\ \A f \in Files : file[f] = None
    BY <1>2, FilingIsAPass
  <2> SUFFICES ASSUME NEW w \in Processes, Alone(w)'
               PROVE  /\ \A v \in Processes \ {w} : at'[v] = "idle"
                      /\ NoneNewer(held[w])'
                      /\ at'[w] = "begun" => held'[w].seen = OnFile'
                      /\ at'[w] = "writing" => Underway(held[w], plan[w])'
    BY DEF Lone
  <2>2. w = u /\ PassWrites(held'[u], Told) # <<>> /\ at'[w] = "writing"
    BY <2>1 DEF Alone
  <2>3. \A h \in Holdings : h.build \in Builds /\ h.seen = OnFile /\ PassWrites(h, Told) # <<>>
                            => Underway(h, PassWrites(h, Told))
    BY PassSetsOut
  <2>4. Underway(held'[u], plan'[u])
    BY <2>1, <2>2, <2>3
  <2>a. \A h, p : Underway(h, p) => Underway(h, p)'
    BY <2>1, SameFiles
  <2>5. Underway(held[w], plan[w])'
    BY <2>2, <2>4, <2>a
  <2>6. NoneNewer(held[w])'
    BY <2>1 DEF NoneNewer, Outcomes, Files
  <2> QED
    BY <2>1, <2>2, <2>5, <2>6
<1>3. ASSUME NEW u \in Processes, BeginPass(u) PROVE Lone'
  <2>1. /\ Start(u, OnFile) /\ page' = page /\ file' = file /\ build' = build /\ held'[u].build = build
        /\ held'[u].seen = OnFile /\ at'[u] = "begun" /\ \A v \in Processes \ {u} : at'[v] = at[v]
        /\ OnFile \in MetaVersions \union {0}
    BY <1>3, BeginReads, ToldType
  <2>2. /\ held'[u].alone = (\A v \in Processes : at[v] = "idle")
        /\ \A v \in Processes \ {u} : at[v] # "idle" => ~held'[v].alone
    BY <2>1, StartType
  <2> SUFFICES ASSUME NEW w \in Processes, Alone(w)'
               PROVE  /\ \A v \in Processes \ {w} : at'[v] = "idle"
                      /\ NoneNewer(held[w])'
                      /\ at'[w] = "begun" => held'[w].seen = OnFile'
                      /\ at'[w] = "writing" => Underway(held[w], plan[w])'
    BY DEF Lone
  <2>3. w = u /\ \A v \in Processes : at[v] = "idle"
    BY <2>1, <2>2 DEF Alone
  <2>4. NoneNewer(held[w])'
    BY <2>1, <2>3 DEF NoneNewer, Recorded
  <2> QED
    BY <2>1, <2>3, <2>4 DEF OnFile
<1>4. ASSUME NEW u \in Processes, JudgeRecords(u) PROVE Lone'
  <2>1. /\ page' = page /\ file' = file /\ held' = held /\ held[u] \in Holdings /\ held[u].build \in Builds
        /\ plan'[u] = PassWrites(held[u], Told) /\ at[u] = "begun"
        /\ at'[u] = (IF PassWrites(held[u], Told) = <<>> THEN "idle" ELSE "writing")
        /\ \A v \in Processes \ {u} : plan'[v] = plan[v] /\ at'[v] = at[v]
    BY <1>4, JudgeContinues
  <2> SUFFICES ASSUME NEW w \in Processes, Alone(w)'
               PROVE  /\ \A v \in Processes \ {w} : at'[v] = "idle"
                      /\ NoneNewer(held[w])'
                      /\ at'[w] = "begun" => held'[w].seen = OnFile'
                      /\ at'[w] = "writing" => Underway(held[w], plan[w])'
    BY DEF Lone
  <2>2. Alone(w)
    BY <2>1 DEF Alone
  <2>3. w = u
    BY <2>1, <2>2 DEF Lone
  <2>4. PassWrites(held[u], Told) # <<>> /\ at'[w] = "writing"
    BY <2>1, <2>3 DEF Alone
  <2>5. held[u].seen = OnFile /\ NoneNewer(held[u]) /\ \A v \in Processes \ {w} : at[v] = "idle"
    BY <2>1, <2>2, <2>3 DEF Lone
  <2>6. Underway(held[u], plan'[u])
    BY <2>1, <2>4, <2>5, PassSetsOut
  <2>a. /\ \A h, p : Underway(h, p) => Underway(h, p)'
        /\ \A h : NoneNewer(h) => NoneNewer(h)'
    BY <2>1, SameFiles
  <2>b. NoneNewer(held'[w]) /\ Underway(held'[w], plan'[w])
    BY <2>1, <2>3, <2>5, <2>6
  <2>7. Underway(held[w], plan[w])' /\ NoneNewer(held[w])'
    BY <2>a, <2>b
  <2> QED
    BY <2>1, <2>3, <2>4, <2>5, <2>7
<1>5. ASSUME NEW u \in Processes, WriteNext(u) PROVE Lone'
  <2>1. /\ Lands(Head(plan[u])) /\ held' = held /\ held[u] \in Holdings /\ held[u].build \in Builds
        /\ plan'[u] = Tail(plan[u]) /\ at[u] = "writing"
        /\ at'[u] = (IF Tail(plan[u]) = <<>> THEN "idle" ELSE "writing")
        /\ \A v \in Processes \ {u} : plan'[v] = plan[v] /\ at'[v] = at[v]
    BY <1>5, WriteNextLands
  <2> SUFFICES ASSUME NEW w \in Processes, Alone(w)'
               PROVE  /\ \A v \in Processes \ {w} : at'[v] = "idle"
                      /\ NoneNewer(held[w])'
                      /\ at'[w] = "begun" => held'[w].seen = OnFile'
                      /\ at'[w] = "writing" => Underway(held[w], plan[w])'
    BY DEF Lone
  <2>2. Alone(w)
    BY <2>1 DEF Alone
  <2>3. w = u
    BY <2>1, <2>2 DEF Lone
  <2>4. Tail(plan[u]) # <<>> /\ at'[w] = "writing"
    BY <2>1, <2>3 DEF Alone
  <2>5. Underway(held[u], plan[u]) /\ \A v \in Processes \ {w} : at[v] = "idle"
    BY <2>1, <2>2, <2>3 DEF Lone
  <2>6. \A h \in Holdings : \A p : h.build \in Builds /\ Underway(h, p) /\ Lands(Head(p)) => Advances(h, p)
    BY WriteAdvances
  <2>7. \A h \in Holdings : \A p : h.build \in Builds /\ Underway(h, p) /\ Lands(Head(p)) /\ Tail(p) # <<>>
                               => Underway(h, Tail(p))'
    BY <2>6 DEF Advances
  <2>8. Underway(held[w], plan[w])'
    BY <2>1, <2>3, <2>4, <2>5, <2>7
  <2>9. NoneNewer(held[w])'
    <3>1. NoneNewer(held[w])
      BY <2>2 DEF Lone
    <3>2. Head(plan[w]) \in WritesOf(held[w].build.read) /\ plan[w] # <<>>
      <4>1. plan[w] \in Seq(WritesOf(held[w].build.read)) /\ plan[w] # <<>>
        BY <2>1, <2>3 DEF Recorded, Typed, TypeOK
      <4> QED
        BY <4>1, HeadAndTail
    <3>3. ASSUME NEW k \in Outcomes, file'[k] # None PROVE file'[k].read <= held[w].build.read
      <4>1. k \in Files
        BY DEF Outcomes, Files
      <4>2. file'[k] = IF k = Head(plan[w]).file THEN Head(plan[w]).value ELSE file[k]
        BY <2>1, <2>3, <4>1 DEF Lands
      <4>3. CASE k = Head(plan[w]).file
        BY <3>2, <3>3, <4>2, <4>3 DEF WritesOf
      <4>4. CASE k # Head(plan[w]).file
        BY <3>1, <3>3, <4>2, <4>4 DEF NoneNewer
      <4> QED
        BY <4>3, <4>4
    <3> QED
      BY <2>1, <3>3 DEF NoneNewer
  <2> QED
    BY <2>1, <2>3, <2>4, <2>5, <2>8, <2>9
<1>6. ASSUME NEW u \in Processes, Stop(u) PROVE Lone'
  <2>1. /\ at' = [at EXCEPT ![u] = "idle"] /\ plan' = [plan EXCEPT ![u] = <<>>]
        /\ page' = page /\ file' = file /\ held' = held
    BY <1>6 DEF Stop
  <2>2. at'[u] = "idle" /\ \A v \in Processes \ {u} : plan'[v] = plan[v] /\ at'[v] = at[v]
    BY <2>1 DEF Typed
  <2> SUFFICES ASSUME NEW w \in Processes, Alone(w)'
               PROVE  /\ \A v \in Processes \ {w} : at'[v] = "idle"
                      /\ NoneNewer(held[w])'
                      /\ at'[w] = "begun" => held'[w].seen = OnFile'
                      /\ at'[w] = "writing" => Underway(held[w], plan[w])'
    BY DEF Lone
  <2>3. w # u /\ Alone(w)
    BY <2>1, <2>2 DEF Alone
  <2>4. /\ at'[w] = at[w] /\ plan'[w] = plan[w] /\ NoneNewer(held[w])
        /\ at[w] = "begun" => held[w].seen = OnFile
        /\ at[w] = "writing" => Underway(held[w], plan[w])
        /\ \A v \in Processes \ {w} : at'[v] = "idle"
    BY <2>2, <2>3 DEF Lone
  <2>5. /\ OnFile' = OnFile /\ \A h, p : Underway(h, p) => Underway(h, p)'
        /\ \A h : NoneNewer(h) => NoneNewer(h)'
    BY <2>1, SameFiles
  <2>6. held'[w] = held[w]
    BY <2>1
  <2>7. NoneNewer(held[w])' /\ (at[w] = "writing" => Underway(held[w], plan[w])')
    BY <2>4, <2>5, <2>6
  <2> QED
    BY <2>4, <2>5, <2>6, <2>7
<1>7. ASSUME Upgrade \/ EditRules PROVE Lone'
  BY <1>1, <1>7 DEF Upgrade, EditRules
<1>8. ASSUME UNCHANGED vars PROVE Lone'
  BY <1>1, <1>8 DEF vars
<1> QED
  BY <1>2, <1>3, <1>4, <1>5, <1>6, <1>7, <1>8 DEF Next

LEMMA LoneAlways == Spec => [](Typed /\ Recorded /\ Lone)
<1>1. ASSUME Init PROVE Recorded /\ Lone
  <2>1. /\ \A k \in Files : file[k] = None
        /\ \A w \in Processes : at[w] = "idle" /\ plan[w] = <<>>
    BY <1>1 DEF Init, Idle
  <2>2. \A w \in Processes : <<>> \in Seq(WritesOf(held[w].build.read))
    OBVIOUS
  <2> QED
    BY <2>1, <2>2 DEF Recorded, Lone, Alone, Outcomes, Files
<1>2. (Typed /\ Typed') /\ (Recorded /\ Lone) /\ [Next]_vars => Recorded' /\ Lone'
  BY RecordedKept, LoneKept
<1>3. Spec => []Typed
  BY TypedAlways
<1> QED
  BY <1>1, <1>2, <1>3, PTL DEF Spec

\* What one whole step of a lone process does.
LEMMA LoneWrite ==
    ASSUME Typed, Lone, NEW w \in Processes, WriteNext(w), held[w].alone
    PROVE  Advances(held[w], plan[w])
<1>1. /\ Lands(Head(plan[w])) /\ held[w] \in Holdings /\ held[w].build \in Builds /\ at[w] = "writing"
  BY WriteNextLands
<1>2. Underway(held[w], plan[w])
  BY <1>1 DEF Lone, Alone
<1>3. \A h \in Holdings : \A p : h.build \in Builds /\ Underway(h, p) /\ Lands(Head(p)) => Advances(h, p)
  BY WriteAdvances
<1> QED
  BY <1>1, <1>2, <1>3

\* docs/cli.md: a pass writes the new record before it removes the one it
\* contradicts.  Whatever interrupted and overlapping passes left, a capture
\* that reads as something reads as something after every write of a process
\* at work alone, but for the write of new prose under an older record.
THEOREM NothingIsLostToTheReader == Spec => ReadingNeverVanishes
<1> DEFINE A == \A w \in Processes :
                   at[w] = "writing" /\ held[w].alone /\ ToldKind # "missing" =>
                      \/ ToldKind' # "missing"
                      \/ file["article"] # None /\ file'["markdown"] # file["markdown"]
<1>1. ASSUME Typed, Lone, [Next]_vars PROVE A
  <2>1. ASSUME page' = page, file' = file PROVE A
    BY <2>1, SameFiles
  <2>2. ASSUME NEW u \in Processes, WriteNext(u) PROVE A
    <3> SUFFICES ASSUME NEW w \in Processes, at[w] = "writing", held[w].alone, ToldKind # "missing"
                 PROVE  \/ ToldKind' # "missing"
                        \/ file["article"] # None /\ file'["markdown"] # file["markdown"]
      OBVIOUS
    <3>1. at[u] = "writing"
      BY <2>2 DEF WriteNext
    <3>2. u = w
      BY <1>1, <3>1 DEF Lone, Alone
    <3>3. Advances(held[u], plan[u])
      BY <1>1, <2>2, <3>2, LoneWrite
    <3> QED
      BY <3>3 DEF Advances, NothingVanishes
  <2> QED
    BY <1>1, <2>1, <2>2 DEF Next, vars, FileCapture, BeginPass, JudgeRecords, Stop, Upgrade, EditRules
<1>2. Typed /\ Lone /\ [Next]_vars => [A]_vars
  BY <1>1
<1> QED
  BY <1>2, LoneAlways, PTL DEF Spec, ReadingNeverVanishes

\* A process that ends a pass ends it in its judgement or by its last write.
LEMMA HowItFinishes ==
    ASSUME Typed, [Next]_vars, NEW w \in Processes, Finishes(w)
    PROVE  \/ JudgeRecords(w) /\ PassWrites(held[w], Told) = <<>>
           \/ WriteNext(w) /\ Tail(plan[w]) = <<>>
<1>1. at[w] # "idle" /\ at'[w] = "idle" /\ stops' = stops
  BY DEF Finishes
<1>2. ASSUME NEW u \in Processes, FileCapture(u) PROVE FALSE
  BY <1>1, <1>2, FilingIsAPass
<1>3. ASSUME NEW u \in Processes, BeginPass(u) PROVE FALSE
  BY <1>1, <1>3, BeginReads
<1>4. ASSUME NEW u \in Processes, JudgeRecords(u)
      PROVE  JudgeRecords(w) /\ PassWrites(held[w], Told) = <<>>
  <2>1. /\ at'[u] = (IF PassWrites(held[u], Told) = <<>> THEN "idle" ELSE "writing")
        /\ \A v \in Processes \ {u} : at'[v] = at[v]
    BY <1>4, JudgeContinues
  <2> QED
    BY <1>1, <1>4, <2>1
<1>5. ASSUME NEW u \in Processes, WriteNext(u) PROVE WriteNext(w) /\ Tail(plan[w]) = <<>>
  <2>1. /\ at'[u] = (IF Tail(plan[u]) = <<>> THEN "idle" ELSE "writing")
        /\ \A v \in Processes \ {u} : at'[v] = at[v]
    BY <1>5, WriteNextLands
  <2> QED
    BY <1>1, <1>5, <2>1
<1>6. ASSUME NEW u \in Processes, Stop(u) PROVE FALSE
  <2>1. stops' = stops + 1 /\ stops \in Nat
    BY <1>6, BoundsAssumption DEF Stop, Typed, TypeOK
  <2> QED
    BY <1>1, <2>1
<1>7. ASSUME Upgrade \/ EditRules \/ UNCHANGED vars PROVE FALSE
  BY <1>1, <1>7 DEF Upgrade, EditRules, vars
<1> QED
  BY <1>2, <1>3, <1>4, <1>5, <1>6, <1>7 DEF Next

LEMMA EndOfAReading ==
    ASSUME Typed, Recorded, Lone, [Next]_vars, NEW w \in Processes, FinishesReading(w)
    PROVE  /\ held[w] \in Holdings /\ held[w].build \in Builds /\ ReadsAs(held[w]) # "unreadable"
           /\ \/ Told' = Target(held[w])
              \/ /\ JudgeRecords(w) /\ Told' = Told
                 /\ ~MetadataIsStale(held[w]) /\ ~OutcomeIsStale(held[w], Told)
           /\ Alone(w)
<1>1. Finishes(w) /\ held[w].alone /\ ReadsAs(held[w]) # "unreadable" /\ at[w] # "idle"
  BY DEF FinishesReading, Finishes
<1>2. held[w] \in Holdings /\ held[w].build \in Builds
  BY <1>1 DEF Typed, TypeOK
<1>3. CASE JudgeRecords(w) /\ PassWrites(held[w], Told) = <<>>
  <2>1. Told' = Told
    BY <1>3, JudgeContinues, SameFiles
  <2> QED
    BY <1>1, <1>2, <1>3, <2>1, PassIsEmpty DEF Alone
<1>4. CASE WriteNext(w) /\ Tail(plan[w]) = <<>>
  <2>1. Told' = Target(held[w])
    BY <1>1, <1>4, LoneWrite DEF Advances
  <2> QED
    BY <1>1, <1>2, <2>1 DEF Alone
<1> QED
  BY <1>1, <1>3, <1>4, HowItFinishes

\* A whole pass mends what interrupted and overlapping ones left: the reader is
\* told an outcome of the version and the rules it ran with, and of that kind,
\* and an article's prose is the one its record describes.
THEOREM AWholePassMends == Spec => PassReadsWithItsBuild
<1> DEFINE A == \A w \in Processes :
                   FinishesReading(w) =>
                      /\ ToldKind' = ReadsAs(held[w])
                      /\ Told'.reading.read = held[w].build.read
                      /\ Told'.reading.site = SiteRule(held[w])
                      /\ ToldKind' = "article" => file'["markdown"] = file'["article"]
<1>1. ASSUME Typed, Typed', Recorded, Lone, [Next]_vars PROVE A
  <2> SUFFICES ASSUME NEW w \in Processes, FinishesReading(w)
               PROVE  /\ ToldKind' = ReadsAs(held[w])
                      /\ Told'.reading.read = held[w].build.read
                      /\ Told'.reading.site = SiteRule(held[w])
                      /\ ToldKind' = "article" => file'["markdown"] = file'["article"]
    OBVIOUS
  <2> DEFINE h == held[w]
  <2>1. h \in Holdings /\ h.build \in Builds /\ ReadsAs(h) # "unreadable" /\ Alone(w)
        /\ \/ Told' = Target(h)
           \/ Told' = Told /\ ~MetadataIsStale(h) /\ ~OutcomeIsStale(h, Told)
    BY <1>1, EndOfAReading
  <2>2. Told'.kind = ToldKind' /\ Told.kind = ToldKind
        /\ (ToldKind' = "article" => file'["markdown"] = file'["article"])
    BY DEF Told, ToldKind, ArticleReadable
  <2>3. NoneNewer(h)
    BY <1>1, <2>1 DEF Lone
  <2> HIDE DEF h
  <2>4. CASE Told' = Target(h)
    <3>1. Target(h).kind = ReadsAs(h) /\ Target(h).reading = ReadingOf(h, TitleFor(h))
      BY <1>1, <2>1, TargetIs
    <3>2. ReadingOf(h, TitleFor(h)).read = h.build.read /\ ReadingOf(h, TitleFor(h)).site = SiteRule(h)
      BY <1>1, <2>1, ReadingFits
    <3> QED
      BY <2>2, <2>4, <3>1, <3>2 DEF h
  <2>5. CASE Told' = Told /\ ~OutcomeIsStale(h, Told)
    <3>1. OfItsBuild(h)
      BY <1>1, <2>1, <2>3, <2>5, CurrentIsOfItsBuild
    <3> QED
      BY <2>2, <2>5, <3>1 DEF h, OfItsBuild
  <2> QED
    BY <2>1, <2>4, <2>5
<1>2. (Typed /\ Recorded /\ Lone) /\ (Typed /\ Recorded /\ Lone)' /\ [Next]_vars => [A]_vars
  BY <1>1
<1> QED
  BY <1>2, LoneAlways, PTL DEF Spec, PassReadsWithItsBuild

-----------------------------------------------------------------------------
(* A second pass *)

\* What a whole pass of its build and rules would write.
LastIsWhole ==
    last # None =>
       \A h \in Holdings : h.build \in Builds /\ h.build = last.build /\ h.rule = last.rule /\ h.seen = OnFile =>
           PassWrites(h, Told) = <<>>

LEMMA SameHoldings ==
    ASSUME NEW g, NEW h, g.build = h.build, g.rule = h.rule
    PROVE  /\ ReadsAs(g) = ReadsAs(h)
           /\ g.seen = h.seen => /\ Renews(g) = Renews(h) /\ Target(g) = Target(h)
                                 /\ MetadataIsStale(g) = MetadataIsStale(h)
                                 /\ \A known : OutcomeIsStale(g, known) = OutcomeIsStale(h, known)
  BY DEF ReadsAs, SiteRule, Renews, MetadataIsStale, Target, ReadingOf, TitleFor, OutcomeIsStale,
         UnreadDeclaration

\* The metadata a pass leaves is current, or it cannot read better.
LEMMA MetadataIsSettled ==
    ASSUME Typed, NEW h \in Holdings, h.build \in Builds,
           NEW g \in Holdings, g.build = h.build, g.rule = h.rule,
           g.seen = (IF Renews(h) THEN h.build.meta ELSE h.seen)
    PROVE  ~Renews(g) /\ TitleFor(g) = TitleFor(h) /\ Target(g) = Target(h)
<1>1. h.build.meta \in Nat
  BY VersionsAreNumbers
<1>2. ~(h.build.meta < h.build.meta)
  BY <1>1
<1>3. ~Renews(g) /\ TitleFor(g) = TitleFor(h)
  <2>1. CASE Renews(h)
    <3>1. g.seen = h.build.meta /\ ~MetadataIsStale(g)
      BY <1>2, <2>1 DEF MetadataIsStale
    <3> QED
      BY <2>1, <3>1 DEF Renews, TitleFor
  <2>2. CASE ~Renews(h)
    <3>1. g.seen = h.seen
      BY <2>2
    <3> QED
      BY <2>2, <3>1 DEF Renews, TitleFor, MetadataIsStale
  <2> QED
    BY <2>1, <2>2
<1>4. Target(g) = Target(h)
  BY <1>3 DEF Target, ReadingOf, ReadsAs, SiteRule
<1> QED
  BY <1>3, <1>4

LEMMA NothingLeftToWrite ==
    ASSUME NEW h, NEW known, ~Renews(h), ReadsAs(h) = "unreadable" \/ known = Target(h)
    PROVE  PassWrites(h, known) = <<>>
<1>1. ExtractionWrites(h, known) = <<>>
  BY DEF ExtractionWrites, Target
<1>2. (IF MetadataIsStale(h) THEN MetadataWrites(h) ELSE <<>>) = <<>>
  BY DEF Renews, MetadataWrites
<1>3. <<>> \o <<>> = <<>>
  OBVIOUS
<1> QED
  BY <1>1, <1>2, <1>3 DEF PassWrites

LEMMA LastIsWholeKept ==
    ASSUME Typed, Typed', Lone, LastIsWhole, [Next]_vars PROVE LastIsWhole'
<1>1. ASSUME last' = None PROVE LastIsWhole'
  BY <1>1 DEF LastIsWhole
<1>2. ASSUME UNCHANGED <<page, file, last>> PROVE LastIsWhole'
  <2> SUFFICES ASSUME NEW h \in Holdings, last # None,
                      h.build \in Builds /\ h.build = last.build /\ h.rule = last.rule /\ h.seen = OnFile
               PROVE  PassWrites(h, Told') = <<>>'
    <3>1. \A h, known : PassWrites(h, known)' = PassWrites(h, known)
      BY <1>2 DEF PassWrites, MetadataWrites, ExtractionWrites, MetadataIsStale, OutcomeIsStale,
         UnreadDeclaration, ReadsAs, SiteRule, ReadingOf, TitleFor
    <3>2. OnFile' = OnFile
      BY <1>2, SameFiles
    <3> QED
      BY <1>2, <3>1, <3>2 DEF LastIsWhole
  <2> QED
    BY <1>2, SameFiles DEF LastIsWhole
<1>3. ASSUME NEW w \in Processes, JudgeRecords(w) PROVE LastIsWhole'
  <2>1. /\ page' = page /\ file' = file /\ at[w] = "begun" /\ held[w] \in Holdings /\ held[w].build \in Builds
        /\ last' = IF PassWrites(held[w], Told) = <<>> /\ held[w].alone
                   THEN [build |-> held[w].build, rule |-> held[w].rule] ELSE None
    BY <1>3, JudgeContinues
  <2> DEFINE h == held[w]
  <2>2. CASE PassWrites(h, Told) = <<>> /\ h.alone
    <3>1. h.seen = OnFile
      BY <2>1, <2>2 DEF Lone, Alone
    <3>2. last' = [build |-> h.build, rule |-> h.rule]
      BY <2>1, <2>2
    <3>3. last'.build = h.build /\ last'.rule = h.rule
      BY <3>2
    <3>4. ASSUME NEW g \in Holdings, g.build = h.build, g.rule = h.rule, g.seen = OnFile
          PROVE  PassWrites(g, Told) = <<>>
      <4>1. g.build \in Builds /\ h.build \in Builds /\ h \in Holdings
        BY <2>1, <3>4
      <4>2. /\ ReadsAs(g) = ReadsAs(h) /\ Renews(g) = Renews(h) /\ Target(g) = Target(h)
            /\ MetadataIsStale(g) = MetadataIsStale(h) /\ OutcomeIsStale(g, Told) = OutcomeIsStale(h, Told)
        BY <3>1, <3>4, SameHoldings
      <4> HIDE DEF h
      <4> QED
        BY <2>2, <4>1, <4>2, PassIsEmpty
    <3>5. \A g \in Holdings : g.build = h.build /\ g.rule = h.rule /\ g.seen = OnFile'
                                 => PassWrites(g, Told)' = <<>>
      <4>1. \A g, known : PassWrites(g, known)' = PassWrites(g, known)
        BY <2>1 DEF PassWrites, MetadataWrites, ExtractionWrites, MetadataIsStale, OutcomeIsStale,
           UnreadDeclaration, ReadsAs, SiteRule, ReadingOf, TitleFor
      <4>2. OnFile' = OnFile /\ Told' = Told
        BY <2>1, SameFiles
      <4> QED
        BY <3>4, <4>1, <4>2
    <3> HIDE DEF h
    <3> QED
      BY <3>3, <3>5 DEF LastIsWhole
  <2> QED
    BY <1>1, <2>1, <2>2
<1>4. ASSUME NEW w \in Processes, WriteNext(w) PROVE LastIsWhole'
  <2>1. /\ page' = page /\ held[w] \in Holdings /\ held[w].build \in Builds
        /\ last' = IF Tail(plan[w]) = <<>> /\ held[w].alone
                   THEN [build |-> held[w].build, rule |-> held[w].rule] ELSE None
    BY <1>4, WriteNextLands DEF Lands
  <2> DEFINE h == held[w]
  <2>2. CASE Tail(plan[w]) = <<>> /\ h.alone
    <3>1. /\ OnFile' = (IF Renews(h) THEN h.build.meta ELSE h.seen)
          /\ ReadsAs(h) # "unreadable" => Told' = Target(h)
      BY <1>4, <2>2, LoneWrite DEF Advances
    <3>2. last' = [build |-> h.build, rule |-> h.rule]
      BY <2>1, <2>2
    <3>3. last'.build = h.build /\ last'.rule = h.rule
      BY <3>2
    <3>4. ASSUME NEW g \in Holdings, g.build = h.build, g.rule = h.rule, g.seen = OnFile'
          PROVE  PassWrites(g, Told)' = <<>>
      <4>1. ~Renews(g) /\ Target(g) = Target(h) /\ ReadsAs(g) = ReadsAs(h)
        BY <2>1, <3>1, <3>4, MetadataIsSettled, SameHoldings
      <4>2. PassWrites(g, Told') = <<>>
        BY <3>1, <4>1, NothingLeftToWrite
      <4>3. \A known : PassWrites(g, known)' = PassWrites(g, known)
        BY <2>1 DEF PassWrites, MetadataWrites, ExtractionWrites, MetadataIsStale, OutcomeIsStale,
           UnreadDeclaration, ReadsAs, SiteRule, ReadingOf, TitleFor
      <4> QED
        BY <4>2, <4>3
    <3>5. \A g \in Holdings : g.build = h.build /\ g.rule = h.rule /\ g.seen = OnFile'
                                 => PassWrites(g, Told)' = <<>>
      BY <3>4
    <3> HIDE DEF h
    <3> QED
      BY <3>3, <3>5 DEF LastIsWhole
  <2> QED
    BY <1>1, <2>1, <2>2
<1>5. ASSUME NEW w \in Processes, FileCapture(w) \/ Stop(w) PROVE LastIsWhole'
  BY <1>1, <1>5 DEF FileCapture, Stop
<1>6. ASSUME NEW w \in Processes, BeginPass(w) PROVE LastIsWhole'
  BY <1>2, <1>6 DEF BeginPass
<1>7. ASSUME Upgrade \/ EditRules \/ UNCHANGED vars PROVE LastIsWhole'
  BY <1>2, <1>7 DEF Upgrade, EditRules, vars
<1> QED
  BY <1>3, <1>4, <1>5, <1>6, <1>7 DEF Next

LEMMA LastAlways == Spec => []LastIsWhole
<1>1. Init => LastIsWhole
  BY DEF Init, LastIsWhole
<1>2. (Typed /\ Lone) /\ Typed' /\ LastIsWhole /\ [Next]_vars => LastIsWhole'
  BY LastIsWholeKept
<1> QED
  BY <1>1, <1>2, LoneAlways, PTL DEF Spec

\* A second pass of the same program and rules has nothing to write: what a
\* pass leaves, it judges current or reads again to the same record.
THEOREM TheSecondPassIsIdle == Spec => SecondPassWritesNothing
<1> DEFINE A == \A w \in Processes :
                   /\ at[w] = "begun" /\ at'[w] # "begun" /\ held[w].alone /\ stops' = stops
                   /\ last = [build |-> held[w].build, rule |-> held[w].rule]
                   => plan'[w] = <<>>
<1>1. ASSUME Typed, Lone, LastIsWhole, [Next]_vars PROVE A
  <2> SUFFICES ASSUME NEW w \in Processes,
                      at[w] = "begun", at'[w] # "begun", held[w].alone, stops' = stops,
                      last = [build |-> held[w].build, rule |-> held[w].rule]
               PROVE  plan'[w] = <<>>
    OBVIOUS
  <2>1. held[w] \in Holdings /\ held[w].build \in Builds /\ held[w].rule \in BOOLEAN
    BY <1>1 DEF Typed, TypeOK, Holdings
  <2>2. held[w].seen = OnFile
    BY <1>1 DEF Lone, Alone
  <2>3. last # None
    <3>1. last \in [build : Builds, rule : BOOLEAN]
      BY <2>1
    <3> QED
      BY <3>1, NoneAssumption
  <2>4. PassWrites(held[w], Told) = <<>>
    <3>1. last.build = held[w].build /\ last.rule = held[w].rule
      OBVIOUS
    <3> QED
      BY <1>1, <2>1, <2>2, <2>3, <3>1 DEF LastIsWhole
  <2>5. ASSUME NEW u \in Processes, FileCapture(u) PROVE FALSE
    BY <1>1, <2>5, FilingIsAPass
  <2>6. ASSUME NEW u \in Processes, BeginPass(u) PROVE FALSE
    BY <1>1, <2>6, BeginReads
  <2>7. ASSUME NEW u \in Processes, JudgeRecords(u) PROVE plan'[w] = <<>>
    <3>1. u = w
      BY <1>1, <2>7, JudgeContinues
    <3> QED
      BY <1>1, <2>4, <2>7, <3>1, JudgeContinues
  <2>8. ASSUME NEW u \in Processes, WriteNext(u) PROVE FALSE
    BY <1>1, <2>8, WriteNextLands
  <2>9. ASSUME NEW u \in Processes, Stop(u) PROVE FALSE
    <3>1. stops' = stops + 1 /\ stops \in Nat
      BY <1>1, <2>9, BoundsAssumption DEF Stop, Typed, TypeOK
    <3> QED
      BY <3>1
  <2>10. ASSUME Upgrade \/ EditRules \/ UNCHANGED vars PROVE FALSE
    BY <2>10 DEF Upgrade, EditRules, vars
  <2> QED
    BY <1>1, <2>5, <2>6, <2>7, <2>8, <2>9, <2>10 DEF Next
<1>2. (Typed /\ Lone) /\ LastIsWhole /\ [Next]_vars => [A]_vars
  BY <1>1
<1> QED
  BY <1>2, LoneAlways, LastAlways, PTL DEF Spec, SecondPassWritesNothing

-----------------------------------------------------------------------------
(* Records no one interrupted *)

CleanIsTidy ==
    clean =>
       /\ (\A w \in Processes : at[w] = "idle") => Tidy(build)
       /\ \A w \in Processes :
             /\ at[w] # "idle" => held[w].alone
             /\ at[w] = "begun" => Tidy(held[w].build)
             /\ at[w] = "writing" /\ plan[w] = <<Put("metadata", held[w].build.meta)>> => Single

LEMMA LaterBuildIsTidy ==
    ASSUME Typed, NEW b \in Builds, NEW c \in Builds, b.meta <= c.meta, b.read <= c.read, Tidy(b)
    PROVE  Tidy(c)
<1>1. b.meta \in Nat /\ c.meta \in Nat /\ b.read \in Nat /\ c.read \in Nat
  BY VersionsAreNumbers
<1>2. OnFile \in MetaVersions \union {0}
  BY ToldType
<1>3. OnFile \in Nat
  BY <1>2, VersionsAssumption
<1>4. OnFile < b.meta => OnFile < c.meta
  BY <1>1, <1>3
<1>5. ToldKind = "article" => (file["article"].read < b.read => file["article"].read < c.read)
  <2>1. ToldKind = "article" => file["article"] \in Readings
    BY ToldType
  <2>2. ToldKind = "article" => file["article"].read \in Nat
    BY <2>1, VersionsAssumption DEF Readings
  <2> QED
    BY <1>1, <2>2
<1> QED
  BY <1>4, <1>5 DEF Tidy

LEMMA TidyKept == ASSUME page' = page, file' = file PROVE /\ \A b : Tidy(b) => Tidy(b)'
                                                          /\ Single => Single'
<1>1. OnFile' = OnFile /\ ToldKind' = ToldKind
  BY SameFiles
<1> QED
  BY <1>1 DEF Tidy, Single

\* An outcome on file when the page cannot be read is of other rules or of an
\* older program than the one that tried.
LEMMA UnreadableIsStale ==
    ASSUME Typed, Recorded, NEW h \in Holdings, h.build \in Builds, NoneNewer(h),
           ReadsAs(h) = "unreadable", file["article"] # None
    PROVE  file["article"].site \/ file["article"].read < h.build.read
<1> DEFINE r == file["article"]
<1>1. r \in Readings /\ r # None /\ Fits(r, "article") /\ r.read <= h.build.read
  BY DEF Typed, TypeOK, Files, Recorded, NoneNewer, Outcomes
<1>2. r.read \in Nat /\ h.build.read \in Nat /\ r.site \in BOOLEAN /\ h.build.read \in ReadVersions
  BY <1>1, VersionsAreNumbers, VersionsAssumption DEF Readings
<1> HIDE DEF r
<1>3. ASSUME ~r.site, r.read = h.build.read PROVE FALSE
  <2>1. page.readsAs[<<h.build.read, FALSE>>] = "article"
    BY <1>1, <1>2, <1>3 DEF Fits
  <2>2. page.readsAs[<<h.build.read, TRUE>>] # "unreadable"
    BY <1>2, <2>1, PageType
  <2>3. SiteRule(h) \in BOOLEAN
    BY ReadingType
  <2> QED
    BY <2>1, <2>2, <2>3 DEF ReadsAs
<1> QED
  BY <1>1, <1>2, <1>3 DEF r

LEMMA TitlesAreNumbers ==
    ASSUME NEW x \in MetaVersions \union {0} PROVE x \in Nat
  BY VersionsAssumption

LEMMA StrictThen ==
    ASSUME NEW x \in Nat, NEW y \in Nat, NEW z \in Nat, x < y, y <= z PROVE x < z
  OBVIOUS

\* The title a pass gives an article is the one it leaves on file, unless it
\* leaves none that is current.
LEMMA TitleIsOnFile ==
    ASSUME Typed, NEW h \in Holdings, h.build \in Builds, ReadsAs(h) = "article"
    PROVE  LET o == IF Renews(h) THEN h.build.meta ELSE h.seen
           IN  Target(h).reading.title = o \/ o < h.build.meta
<1>1. Target(h).reading.title = TitleFor(h)
  BY DEF Target, ReadingOf
<1>2. CASE ~MetadataIsStale(h)
  BY <1>1, <1>2 DEF TitleFor, Renews
<1>3. CASE MetadataIsStale(h) /\ page.titled[h.build.meta]
  BY <1>1, <1>3 DEF TitleFor, Renews
<1>4. CASE MetadataIsStale(h) /\ ~page.titled[h.build.meta]
  BY <1>4 DEF Renews, MetadataIsStale
<1> QED
  BY <1>2, <1>3, <1>4

LEMMA WriteLeavesTidy ==
    ASSUME Typed, Typed', Recorded, Lone, CleanIsTidy, clean,
           NEW w \in Processes, WriteNext(w), Tail(plan[w]) = <<>>
    PROVE  Tidy(build)'
<1> DEFINE h == held[w]
           o == IF Renews(h) THEN h.build.meta ELSE h.seen
<1>1. h \in Holdings /\ h.build \in Builds /\ at[w] = "writing" /\ build' = build
  BY WriteNextLands
<1>2. h.alone /\ (plan[w] = <<Put("metadata", h.build.meta)>> => Single)
  BY <1>1 DEF CleanIsTidy
<1>3. NoneNewer(h) /\ h.build.meta <= build.meta /\ h.build.read <= build.read
  BY <1>1, <1>2 DEF Lone, Alone, Recorded
<1>4. /\ OnFile' = o
      /\ ReadsAs(h) # "unreadable" => Told' = Target(h)
      /\ \/ plan[w] = <<Put("metadata", h.build.meta)>> /\ Told' = Told /\ ToldKind' = ToldKind
            /\ \A k \in Outcomes : file'[k] = file[k]
         \/ ReadsAs(h) # "unreadable" /\ \A j \in Outcomes \ {ReadsAs(h)} : file'[j] = None
      /\ ReadsAs(h) = "unreadable" => plan[w] = <<Put("metadata", h.build.meta)>>
            /\ \A k \in Outcomes : file'[k] = file[k]
  BY <1>2, LoneWrite DEF Advances
<1> HIDE DEF h
<1>5. ReadsAs(h) # "unreadable" => ToldKind' = ReadsAs(h)
  <2>1. Told'.kind = ToldKind'
    BY DEF Told
  <2> QED
    BY <1>1, <1>4, <2>1, TargetIs
<1>6. Single'
  BY <1>2, <1>4, <1>5 DEF Single
<1>7. build.meta \in Nat /\ build.read \in Nat /\ h.build.meta \in Nat /\ h.build.read \in Nat
      /\ h.build.meta \in MetaVersions
  BY <1>1, VersionsAreNumbers DEF Typed, TypeOK
<1>8. o \in Nat
  <2>1. h.seen \in MetaVersions \union {0}
    BY <1>1 DEF Holdings
  <2>2. h.seen \in Nat
    BY <2>1, TitlesAreNumbers
  <2> QED
    BY <1>7, <2>2
<1>9. ASSUME ToldKind' = "article"
      PROVE  \/ file'["article"].title = OnFile' \/ OnFile' < build'.meta
             \/ file'["article"].site \/ file'["article"].read < build'.read
  <2>1. CASE ReadsAs(h) # "unreadable"
    <3>1. ReadsAs(h) = "article" /\ Told'.reading = file'["article"]
      BY <1>5, <1>9, <2>1 DEF Told
    <3>2. Target(h).reading.title = o \/ o < h.build.meta
      BY <1>1, <3>1, TitleIsOnFile
    <3>3. o < h.build.meta => o < build.meta
      <4> HIDE DEF o
      <4> QED
        BY <1>3, <1>7, <1>8, StrictThen
    <3> HIDE DEF o
    <3> QED
      BY <1>1, <1>4, <2>1, <3>1, <3>2, <3>3
  <2>2. CASE ReadsAs(h) = "unreadable"
    <3>1. file'["article"] = file["article"] /\ file'["article"] # None
      BY <1>4, <1>9, <2>2 DEF ToldKind, ArticleReadable, Outcomes
    <3>2. file["article"].site \/ file["article"].read < h.build.read
      BY <1>1, <1>3, <2>2, <3>1, UnreadableIsStale
    <3>3. file["article"].read \in Nat
      BY <3>1, VersionsAssumption DEF Typed, TypeOK, Files, Readings
    <3> DEFINE n == file["article"].read
    <3>4. n < h.build.read => n < build.read
      <4> HIDE DEF n
      <4> QED
        BY <1>3, <1>7, <3>3, StrictThen DEF n
    <3> QED
      BY <1>1, <3>1, <3>2, <3>4
  <2> QED
    BY <2>1, <2>2
<1> QED
  BY <1>6, <1>9 DEF Tidy, Single

LEMMA CleanIsTidyKept ==
    ASSUME Typed, Typed', Recorded, Lone, CleanIsTidy, [Next]_vars PROVE CleanIsTidy'
<1> DEFINE Kept == /\ (\A w \in Processes : at'[w] = "idle") => Tidy(build)'
                   /\ \A w \in Processes :
                         /\ at'[w] # "idle" => held'[w].alone
                         /\ at'[w] = "begun" => Tidy(held[w].build)'
                         /\ at'[w] = "writing" /\ plan'[w] = <<Put("metadata", held'[w].build.meta)>> => Single'
<1>a. SUFFICES ASSUME clean' PROVE Kept
  BY DEF CleanIsTidy
<1>1. ASSUME NEW u \in Processes, FileCapture(u) PROVE Kept
  <2>1. /\ Start(u, 0) /\ page' = page /\ file' = file
        /\ \A f \in Files : file[f] = None
        /\ ToldKind = "missing"
        /\ \A v \in Processes \ {u} : at'[v] = "idle"
        /\ at'[u] # "begun" /\ \A v \in Processes : at[v] = "idle"
    BY <1>1, FilingIsAPass
  <2>2. Single /\ \A b : Tidy(b)
    BY <2>1 DEF Single, Tidy, Files, Outcomes
  <2>3. Single' /\ \A b : Tidy(b)'
    BY <2>1, <2>2, TidyKept
  <2>4. held'[u].alone
    BY <2>1, StartType
  <2>5. Tidy(build)'
    BY <2>3
  <2> QED
    BY <2>1, <2>3, <2>4, <2>5
<1>2. ASSUME NEW u \in Processes, BeginPass(u) PROVE Kept
  <2>1. /\ Start(u, OnFile) /\ page' = page /\ file' = file /\ held'[u].build = build
        /\ at'[u] = "begun" /\ \A v \in Processes \ {u} : at'[v] = at[v]
        /\ OnFile \in MetaVersions \union {0}
    BY <1>2, BeginReads, ToldType
  <2>2. clean /\ (\A v \in Processes : at[v] = "idle") /\ held'[u].alone
    BY <1>a, <2>1, StartType
  <2>3. Tidy(build)
    BY <2>2 DEF CleanIsTidy
  <2>4. \A b : Tidy(b) => Tidy(b)'
    BY <2>1, TidyKept
  <2>5. Tidy(held'[u].build)
    BY <2>1, <2>3
  <2>6. Tidy(held[u].build)'
    BY <2>4, <2>5
  <2> QED
    BY <2>1, <2>2, <2>6
<1>3. ASSUME NEW u \in Processes, JudgeRecords(u) PROVE Kept
  <2>1. /\ page' = page /\ file' = file /\ held' = held /\ clean' = clean /\ build' = build
        /\ held[u].build \in Builds /\ at[u] = "begun" /\ at'[u] # "begun"
        /\ \A v \in Processes \ {u} : at'[v] = at[v]
    BY <1>3, JudgeContinues
  <2>2. clean /\ held[u].alone /\ Tidy(held[u].build)
    BY <1>a, <2>1 DEF CleanIsTidy
  <2>3. \A v \in Processes \ {u} : at'[v] = "idle"
    BY <2>1, <2>2 DEF Lone, Alone
  <2>4. held[u].build.meta <= build.meta /\ held[u].build.read <= build.read /\ build \in Builds
    BY <2>1 DEF Recorded, Typed, TypeOK
  <2>5. Tidy(build)
    BY <2>1, <2>2, <2>4, LaterBuildIsTidy
  <2>6. (\A b : Tidy(b) => Tidy(b)') /\ (Single => Single')
    BY <2>1, TidyKept
  <2>7. Tidy(build') /\ Single
    BY <2>1, <2>5 DEF Tidy
  <2>8. Tidy(build)' /\ Single'
    BY <2>6, <2>7
  <2> QED
    BY <2>1, <2>2, <2>3, <2>8
<1>4. ASSUME NEW u \in Processes, WriteNext(u) PROVE Kept
  <2>1. /\ held' = held /\ clean' = clean /\ plan'[u] = Tail(plan[u]) /\ at[u] = "writing"
        /\ at'[u] = (IF Tail(plan[u]) = <<>> THEN "idle" ELSE "writing")
        /\ \A v \in Processes \ {u} : at'[v] = at[v]
    BY <1>4, WriteNextLands
  <2>2. clean /\ held[u].alone
    BY <1>a, <2>1 DEF CleanIsTidy
  <2>3. \A v \in Processes \ {u} : at'[v] = "idle"
    BY <2>1, <2>2 DEF Lone, Alone
  <2>4. Tail(plan[u]) # <<>> => \A m : Tail(plan[u]) # <<Put("metadata", m)>>
    BY <1>4, <2>2, LoneWrite DEF Advances
  <2>5. Tail(plan[u]) = <<>> => Tidy(build)'
    BY <1>4, <2>2, WriteLeavesTidy
  <2> QED
    BY <2>1, <2>2, <2>3, <2>4, <2>5
<1>5. ASSUME NEW u \in Processes, Stop(u) PROVE Kept
  BY <1>a, <1>5 DEF Stop
<1>6. ASSUME Upgrade PROVE Kept
  <2>1. /\ build' \in Builds /\ build.meta <= build'.meta /\ build.read <= build'.read
        /\ UNCHANGED <<page, file, at, held, plan, clean>>
    <3>1. PICK b \in Builds : b.meta >= build.meta /\ b.read >= build.read /\ build' = b
      BY <1>6 DEF Upgrade
    <3>2. b.meta \in Nat /\ b.read \in Nat /\ build.meta \in Nat /\ build.read \in Nat
      BY VersionsAreNumbers DEF Typed, TypeOK
    <3> QED
      BY <1>6, <3>1, <3>2 DEF Upgrade
  <2>2. build \in Builds
    BY DEF Typed, TypeOK
  <2>3. (\A b : Tidy(b) => Tidy(b)') /\ (Single => Single')
    BY <2>1, TidyKept
  <2>4. Tidy(build) => Tidy(build')
    BY <2>1, <2>2, LaterBuildIsTidy
  <2>5. Tidy(build) => Tidy(build)'
    BY <2>3, <2>4
  <2>6. \A w \in Processes : Tidy(held[w].build) => Tidy(held'[w].build)
    BY <2>1
  <2>7. \A w \in Processes : Tidy(held[w].build) => Tidy(held[w].build)'
    BY <2>3, <2>6
  <2> QED
    BY <1>a, <2>1, <2>3, <2>5, <2>7 DEF CleanIsTidy
<1>7. ASSUME EditRules \/ UNCHANGED vars PROVE Kept
  <2>1. UNCHANGED <<page, file, build, at, held, plan, clean>>
    BY <1>7 DEF EditRules, vars
  <2>2. (\A b : Tidy(b) => Tidy(b)') /\ (Single => Single')
    BY <2>1, TidyKept
  <2>3. /\ Tidy(build) => Tidy(build')
        /\ \A w \in Processes : Tidy(held[w].build) => Tidy(held'[w].build)
    BY <2>1
  <2>4. /\ Tidy(build) => Tidy(build)'
        /\ \A w \in Processes : Tidy(held[w].build) => Tidy(held[w].build)'
    BY <2>2, <2>3
  <2> QED
    BY <1>a, <2>1, <2>2, <2>4 DEF CleanIsTidy
<1> QED
  BY <1>1, <1>2, <1>3, <1>4, <1>5, <1>6, <1>7 DEF Next

LEMMA CleanAlways == Spec => []CleanIsTidy
<1>1. ASSUME Init PROVE CleanIsTidy
  <2>1. /\ \A f \in Files : file[f] = None
        /\ \A w \in Processes : at[w] = "idle"
    BY <1>1 DEF Init, Idle
  <2>2. ToldKind = "missing" /\ Single
    BY <2>1 DEF ToldKind, ArticleReadable, Single, Files, Outcomes
  <2> QED
    BY <2>1, <2>2 DEF CleanIsTidy, Tidy
<1>2. (Typed /\ Recorded /\ Lone) /\ Typed' /\ CleanIsTidy /\ [Next]_vars => CleanIsTidy'
  BY CleanIsTidyKept
<1> QED
  BY <1>1, <1>2, LoneAlways, PTL DEF Spec

\* A pass over records no one interrupted leaves the reading its own program
\* and rules make of the page, title and all, and nothing that contradicts it.
THEOREM ThePassIsWhole == Spec => PassLeavesCurrentReading
<1> DEFINE A == \A w \in Processes :
                   clean /\ FinishesReading(w) =>
                      /\ Told' = [kind |-> ReadsAs(held[w]),
                                  reading |-> ReadingOf(held[w], TitleFor(held[w]))]
                      /\ \A k \in Outcomes \ {ReadsAs(held[w])} : file'[k] = None
<1>1. ASSUME Typed, Recorded, Lone, CleanIsTidy, [Next]_vars PROVE A
  <2> SUFFICES ASSUME NEW w \in Processes, clean, FinishesReading(w)
               PROVE  Told' = Target(held[w]) /\ \A k \in Outcomes \ {ReadsAs(held[w])} : file'[k] = None
    BY DEF Target
  <2> DEFINE h == held[w]
  <2>1. /\ h \in Holdings /\ h.build \in Builds /\ ReadsAs(h) # "unreadable" /\ Alone(w)
        /\ Finishes(w) /\ h.alone
    BY <1>1, EndOfAReading DEF FinishesReading
  <2>2. NoneNewer(h)
    BY <1>1, <2>1 DEF Lone
  <2>3. CASE JudgeRecords(w) /\ PassWrites(h, Told) = <<>>
    <3>1. at[w] = "begun" /\ page' = page /\ file' = file
      BY <1>1, <2>3, JudgeContinues
    <3>2. h.seen = OnFile /\ Tidy(h.build) /\ Told' = Told
      BY <1>1, <2>1, <3>1, SameFiles DEF Lone, CleanIsTidy
    <3> HIDE DEF h
    <3>3. Told = Target(h)
      BY <1>1, <2>1, <2>2, <2>3, <3>2, PassIsEmpty, CurrentIsTarget
    <3>4. ToldKind = ReadsAs(h)
      BY <1>1, <2>1, <3>3, TargetIs, ToldType
    <3> QED
      BY <3>1, <3>2, <3>3, <3>4 DEF h, Tidy, Single
  <2>4. CASE WriteNext(w) /\ Tail(plan[w]) = <<>>
    <3>1. Advances(h, plan[w]) /\ at[w] = "writing"
      BY <1>1, <2>1, <2>4, LoneWrite, WriteNextLands
    <3>2. Told' = Target(h)
      BY <2>1, <2>4, <3>1 DEF Advances
    <3>3. CASE /\ plan[w] = <<Put("metadata", h.build.meta)>> /\ Told' = Told
               /\ \A k \in Outcomes : file'[k] = file[k]
      <4>1. Single
        BY <1>1, <3>1, <3>3 DEF CleanIsTidy
      <4> HIDE DEF h
      <4>2. ToldKind = ReadsAs(h)
        BY <1>1, <2>1, <3>2, <3>3, TargetIs, ToldType
      <4> QED
        BY <3>2, <3>3, <4>1, <4>2 DEF h, Single
    <3>4. CASE \A j \in Outcomes \ {ReadsAs(h)} : file'[j] = None
      BY <3>2, <3>4
    <3> QED
      BY <2>4, <3>1, <3>3, <3>4 DEF Advances
  <2> QED
    BY <1>1, <2>1, <2>3, <2>4, HowItFinishes
<1>2. (Typed /\ Recorded /\ Lone) /\ CleanIsTidy /\ [Next]_vars => [A]_vars
  BY <1>1
<1> QED
  BY <1>2, LoneAlways, CleanAlways, PTL DEF Spec, PassLeavesCurrentReading

=============================================================================
