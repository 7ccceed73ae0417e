---------------------------- MODULE DerivedLayer ----------------------------
(***************************************************************************)
(* The derived records beside one capture of an HTML page: its metadata,   *)
(* and the article pair, the refused extraction or the not-article marker  *)
(* (storage/archive.rs).  The process that files the capture writes them   *)
(* first and every repass (repass.rs) judges them and writes them again,   *)
(* file by file; either may stop between two files, the program and the    *)
(* site's rule may change between two passes, and nothing keeps two        *)
(* processes from the same capture.                                        *)
(***************************************************************************)
EXTENDS Integers, Sequences

CONSTANTS
    Processes,
    MetaVersions,  \* metadata::EXTRACTOR_VERSION of the programs that ran here
    ReadVersions,  \* readability::EXTRACTOR_VERSION of the same programs
    FirstBuild,    \* the versions of the program that captured the page
    SomePages,     \* bound: the pages explored
    MaxStops,      \* bound: processes stopped before their end
    MaxChanges,    \* bound: upgrades, and edits of extraction-rules.json
    None           \* no such file

ASSUME VersionsAssumption ==
    /\ MetaVersions \subseteq Nat \ {0} /\ ReadVersions \subseteq Nat \ {0}
    /\ MetaVersions # {} /\ ReadVersions # {}
ASSUME BoundsAssumption == MaxStops \in Nat /\ MaxChanges \in Nat

VARIABLES
    page,      \* what the stored response reads as; it never changes
    file,      \* file[f]: what the derived record f holds, or None
    captured,  \* the capture record is there
    build,     \* the versions of the program installed now
    rule,      \* extraction-rules.json has a rule for the host
    at,        \* at[w]: idle, begun or writing
    held,      \* held[w]: what process w started from
    plan,      \* plan[w]: the file writes w still has to do
    stops, changes,
    clean,     \* history: no process was stopped, and no two overlapped
    last       \* history: the lone pass the last writes were the whole of, or None

vars == <<page, file, captured, build, rule, at, held, plan, stops, changes, clean, last>>

-----------------------------------------------------------------------------
(* What the extractors make of the page *)

Files == {"metadata", "markdown", "article", "refused", "not_article"}
Outcomes == {"article", "refused", "not_article"}
Builds == [meta : MetaVersions, read : ReadVersions]

\* A record of what one extraction read.  Its title is that of the metadata
\* it was given, named by the version that extracted it, or 0 for none.
Readings == [read : ReadVersions, site : BOOLEAN, title : MetaVersions \union {0},
             declared : BOOLEAN]

\* readsAs: what each version makes of the page, unreadable when a cost guard
\* refuses it; titled: whether each metadata version can read it; touched:
\* whether the site's rule matches anything in it; declares: whether its
\* JSON-LD says how much of itself it serves.  A rule only narrows the page.
Pages == {q \in [readsAs : [ReadVersions \X BOOLEAN -> Outcomes \union {"unreadable"}],
                 titled : [MetaVersions -> BOOLEAN],
                 touched : BOOLEAN, declares : BOOLEAN] :
            \A v \in ReadVersions :
                q.readsAs[<<v, FALSE>>] # "unreadable" => q.readsAs[<<v, TRUE>>] # "unreadable"}

ASSUME StartAssumption == FirstBuild \in Builds /\ SomePages \subseteq Pages
ASSUME NoneAssumption ==
    None \notin MetaVersions \union Readings \union Builds \union [build : Builds, rule : BOOLEAN]

SiteRule(h) == h.rule /\ page.touched
ReadsAs(h) == page.readsAs[<<h.build.read, SiteRule(h)>>]

\* Only an article embeds the title and the declaration.
ReadingOf(h, title) ==
    [read |-> h.build.read, site |-> SiteRule(h),
     title |-> IF ReadsAs(h) = "article" THEN title ELSE 0,
     declared |-> ReadsAs(h) = "article" /\ title # 0 /\ page.declares]

-----------------------------------------------------------------------------
(* What a reader is told *)

\* read_article: the record, unless the prose beside it is not the prose whose
\* hash it carries.
ArticleReadable_ByPresence == file["article"] # None /\ file["markdown"] # None
ArticleReadable == file["article"] # None /\ file["markdown"] = file["article"]

\* ArticleState::read
ToldKind ==
    IF ArticleReadable THEN "article"
    ELSE IF file["refused"] # None THEN "refused"
    ELSE IF file["not_article"] # None THEN "not_article"
    ELSE "missing"
Told == [kind |-> ToldKind, reading |-> IF ToldKind = "missing" THEN None ELSE file[ToldKind]]

\* ArticleState::is_stale
UnreadDeclaration(known, seen) ==
    known.kind = "article" /\ ~known.reading.declared /\ seen # 0 /\ page.declares
OutcomeIsStale_RulesUnread(h, known) ==
    \/ known.kind = "missing"
    \/ known.kind # "missing" /\ known.reading.read < h.build.read
    \/ UnreadDeclaration(known, h.seen)
OutcomeIsStale(h, known) ==
    \/ h.rule
    \/ known.kind = "missing"
    \/ known.kind # "missing" /\ (known.reading.site \/ known.reading.read < h.build.read)
    \/ UnreadDeclaration(known, h.seen)

\* No metadata is stale metadata, and counts as version 0.
MetadataIsStale(h) == h.seen < h.build.meta

-----------------------------------------------------------------------------
(* The file writes of one outcome, in order *)

Put(f, value) == [file |-> f, value |-> value]
Remove(f) == [file |-> f, value |-> None]

\* write_article, write_refused_extraction and write_non_article: the new
\* record first, then whatever contradicts it.
OutcomeWrites_RemoveFirst(kind, reading) ==
    CASE kind = "article" ->
            <<Remove("refused"), Remove("not_article"), Put("markdown", reading), Put("article", reading)>>
      [] kind = "refused" ->
            <<Remove("article"), Remove("markdown"), Remove("not_article"), Put("refused", reading)>>
      [] kind = "not_article" ->
            <<Remove("article"), Remove("markdown"), Remove("refused"), Put("not_article", reading)>>
OutcomeWrites_RefusedStays(kind, reading) ==
    CASE kind = "article" -> <<Put("markdown", reading), Put("article", reading), Remove("not_article")>>
      [] kind = "refused" ->
            <<Put("refused", reading), Remove("article"), Remove("markdown"), Remove("not_article")>>
      [] kind = "not_article" ->
            <<Put("not_article", reading), Remove("article"), Remove("markdown")>>
OutcomeWrites(kind, reading) ==
    CASE kind = "article" ->
            <<Put("markdown", reading), Put("article", reading), Remove("refused"), Remove("not_article")>>
      [] kind = "refused" ->
            <<Put("refused", reading), Remove("article"), Remove("markdown"), Remove("not_article")>>
      [] kind = "not_article" ->
            <<Put("not_article", reading), Remove("article"), Remove("markdown"), Remove("refused")>>

MetadataWrites(h) ==
    IF page.titled[h.build.meta] THEN <<Put("metadata", h.build.meta)>> ELSE <<>>

\* The metadata the prose is read with.
TitleFor(h) == IF ~MetadataIsStale(h) THEN h.seen
               ELSE IF page.titled[h.build.meta] THEN h.build.meta ELSE 0

\* write_extraction: an outcome equal to the known one is not written again,
\* and an extraction that cannot read the page leaves what is there.
ExtractionWrites_Always(h, known) ==
    IF ReadsAs(h) = "unreadable" THEN <<>>
    ELSE OutcomeWrites(ReadsAs(h), ReadingOf(h, TitleFor(h)))
ExtractionWrites(h, known) ==
    IF \/ ReadsAs(h) = "unreadable"
       \/ known = [kind |-> ReadsAs(h), reading |-> ReadingOf(h, TitleFor(h))]
    THEN <<>>
    ELSE OutcomeWrites(ReadsAs(h), ReadingOf(h, TitleFor(h)))

\* repass_capture: metadata about to be replaced makes the article stale, too.
PassWrites_ArticleByItsOwnVersion(h, known) ==
    (IF MetadataIsStale(h) THEN MetadataWrites(h) ELSE <<>>)
    \o (IF OutcomeIsStale(h, known) THEN ExtractionWrites(h, known) ELSE <<>>)
PassWrites(h, known) ==
    (IF MetadataIsStale(h) THEN MetadataWrites(h) ELSE <<>>)
    \o (IF MetadataIsStale(h) \/ OutcomeIsStale(h, known)
        THEN ExtractionWrites(h, known) ELSE <<>>)

-----------------------------------------------------------------------------
Idle == [w \in Processes |-> "idle"]
Nothing == [build |-> None, rule |-> FALSE, seen |-> 0, alone |-> FALSE]

Init ==
    /\ page \in SomePages
    /\ file = [f \in Files |-> None] /\ captured = FALSE
    /\ build = FirstBuild /\ rule \in BOOLEAN
    /\ at = Idle /\ held = [w \in Processes |-> Nothing]
    /\ plan = [w \in Processes |-> <<>>]
    /\ stops = 0 /\ changes = 0
    /\ clean = TRUE /\ last = None

\* Process w starts; whoever is already at work is no longer alone.
Start(w, seen) ==
    LET busy == {v \in Processes : at[v] # "idle"}
    IN /\ at[w] = "idle"
       /\ held' = [v \in Processes |->
             IF v = w THEN [build |-> build, rule |-> rule, seen |-> seen, alone |-> busy = {}]
             ELSE IF v \in busy THEN [held[v] EXCEPT !.alone = FALSE] ELSE held[v]]
       /\ clean' = (clean /\ busy = {})

\* Process w has writes left to do, or is done with the capture.
Continue(w, writes) ==
    /\ plan' = [plan EXCEPT ![w] = writes]
    /\ at' = [at EXCEPT ![w] = IF writes = <<>> THEN "idle" ELSE "writing"]
    /\ last' = IF writes = <<>> /\ held[w].alone
               THEN [build |-> held[w].build, rule |-> held[w].rule] ELSE None

\* capture_page filed the capture, and writes what it read out of it.
FileCapture_RecordLast(w) ==
    /\ ~captured
    /\ Start(w, 0)
    /\ LET writes == MetadataWrites(held'[w])
                     \o ExtractionWrites(held'[w], [kind |-> "missing", reading |-> None])
       IN /\ plan' = [plan EXCEPT ![w] = writes]
          /\ at' = [at EXCEPT ![w] = IF writes = <<>> THEN "idle" ELSE "writing"]
          /\ captured' = (writes = <<>>)
    /\ last' = None
    /\ UNCHANGED <<page, file, build, rule, stops, changes>>
FileCapture(w) ==
    /\ ~captured /\ captured' = TRUE
    /\ Start(w, 0)
    /\ LET writes == MetadataWrites(held'[w])
                     \o ExtractionWrites(held'[w], [kind |-> "missing", reading |-> None])
       IN /\ plan' = [plan EXCEPT ![w] = writes]
          /\ at' = [at EXCEPT ![w] = IF writes = <<>> THEN "idle" ELSE "writing"]
    /\ last' = None
    /\ UNCHANGED <<page, file, build, rule, stops, changes>>

\* repass_one reads the metadata record, then goes to the network for the
\* subresources the capture missed.
BeginPass(w) ==
    /\ captured
    /\ Start(w, IF file["metadata"] = None THEN 0 ELSE file["metadata"])
    /\ at' = [at EXCEPT ![w] = "begun"]
    /\ UNCHANGED <<page, file, captured, build, rule, plan, stops, changes, last>>

\* repass_capture reads the outcome on file and judges both.
JudgeRecords(w) ==
    /\ at[w] = "begun"
    /\ Continue(w, PassWrites(held[w], Told))
    /\ UNCHANGED <<page, file, captured, build, rule, held, stops, changes, clean>>

\* One file lands by its rename, or goes.
WriteNext(w) ==
    /\ at[w] = "writing"
    /\ file' = [file EXCEPT ![Head(plan[w]).file] = Head(plan[w]).value]
    /\ Continue(w, Tail(plan[w]))
    /\ UNCHANGED <<page, captured, build, rule, held, stops, changes, clean>>

\* The process is killed, or a write fails and its error ends the run.
Stop(w) ==
    /\ at[w] # "idle" /\ stops < MaxStops
    /\ stops' = stops + 1
    /\ at' = [at EXCEPT ![w] = "idle"]
    /\ plan' = [plan EXCEPT ![w] = <<>>]
    /\ clean' = FALSE /\ last' = None
    /\ UNCHANGED <<page, file, captured, build, rule, held, changes>>

\* A later program is installed: no version goes back.
Upgrade ==
    /\ changes < MaxChanges /\ changes' = changes + 1
    /\ \E b \in Builds \ {build} :
           b.meta >= build.meta /\ b.read >= build.read /\ build' = b
    /\ UNCHANGED <<page, file, captured, rule, at, held, plan, stops, clean, last>>

\* The operator writes the rule, or takes it away.
EditRules ==
    /\ changes < MaxChanges /\ changes' = changes + 1
    /\ rule' = ~rule
    /\ UNCHANGED <<page, file, captured, build, at, held, plan, stops, clean, last>>

Next ==
    \/ \E w \in Processes :
           FileCapture(w) \/ BeginPass(w) \/ JudgeRecords(w) \/ WriteNext(w) \/ Stop(w)
    \/ Upgrade
    \/ EditRules

Spec == Init /\ [][Next]_vars

-----------------------------------------------------------------------------
(* Correctness *)

\* Every variable holds what the code can put in it, and a derived record is
\* of a capture that was filed: deleting the whole derived layer is safe.
TypeOK ==
    /\ page \in SomePages
    /\ file["metadata"] \in MetaVersions \union {None}
    /\ \A f \in Files \ {"metadata"} : file[f] \in Readings \union {None}
    /\ captured \in BOOLEAN /\ build \in Builds /\ rule \in BOOLEAN
    /\ ~captured => \A f \in Files : file[f] = None
    /\ \A w \in Processes :
           /\ at[w] \in {"idle", "begun", "writing"}
           /\ at[w] # "idle" => held[w].build \in Builds
           /\ plan[w] # <<>> <=> at[w] = "writing"
    /\ stops \in 0..MaxStops /\ changes \in 0..MaxChanges

\* docs/cli.md: a pass writes the new record before it removes the one it
\* contradicts.  So a capture that reads as something reads as something after
\* every file write of a process at work alone, but for the write that puts new
\* prose under an older article record.
ReadingNeverVanishes ==
    [][\A w \in Processes :
           at[w] = "writing" /\ held[w].alone /\ ToldKind # "missing" =>
               \/ ToldKind' # "missing"
               \/ file["article"] # None /\ file'["markdown"] # file["markdown"]]_vars

Finishes(w) == at[w] # "idle" /\ at'[w] = "idle" /\ stops' = stops
FinishesReading(w) == Finishes(w) /\ held[w].alone /\ ReadsAs(held[w]) # "unreadable"

\* A pass over records no one interrupted leaves the reading its own program
\* and rules make of the page, title and all, and nothing that contradicts it.
PassLeavesCurrentReading ==
    [][\A w \in Processes :
           clean /\ FinishesReading(w) =>
               /\ Told' = [kind |-> ReadsAs(held[w]),
                           reading |-> ReadingOf(held[w], TitleFor(held[w]))]
               /\ \A k \in Outcomes \ {ReadsAs(held[w])} : file'[k] = None]_vars

\* A whole pass mends what interrupted and overlapping ones left: whatever is
\* on file when it starts, the reader is told an outcome of the version and the
\* rules it ran with, and of that kind; and prose handed out as an article is
\* the prose its record describes, not that of a second writer.
PassReadsWithItsBuild ==
    [][\A w \in Processes :
           FinishesReading(w) =>
               /\ ToldKind' = ReadsAs(held[w])
               /\ Told'.reading.read = held[w].build.read
               /\ Told'.reading.site = SiteRule(held[w])
               /\ ToldKind' = "article" => file'["markdown"] = file'["article"]]_vars

\* A second pass of the same program and rules has nothing to write: what a
\* pass leaves, it judges current or reads again to the same record.
SecondPassWritesNothing ==
    [][\A w \in Processes :
           /\ at[w] = "begun" /\ at'[w] # "begun" /\ held[w].alone /\ stops' = stops
           /\ last = [build |-> held[w].build, rule |-> held[w].rule]
           => plan'[w] = <<>>]_vars
=============================================================================
