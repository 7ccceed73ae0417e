# A verification of archeion in TLA+

archeion keeps pages: it fetches them, files every response once under a
content hash, reads metadata and an article out of each, and never forgets
what it failed to fetch.  This directory models the part of the program that is
hard to test: what is on disk after a stop between any two file writes, what a
run of several phases still owes, what a later pass makes of records an older
program left half written, how long a refusing server is waited for, what a
page's subresources may cost, and what becomes of a crawl whose queue, deadline,
caller and lost links race each other.  Beside it stand the pure parts of the
program, each compared with a definition of what it is for.

Everything is translated from the Rust source (`src/src/**`); `PROJECT.json`
names, for every definition, the lines it stands for.

## 1. Inventory

| component | state it keeps | operations | talks to |
|---|---|---|---|
| **Archive store, recorded layer** (`storage/archive.rs`, `model.rs`, `walk.rs`) | blobs by SHA-256, one `item.json` per address, one capture record per fetch, one `assets-recovered.json` beside it | `write_capture`, `record_item`, `store_asset`, `add_recovered_assets`, `has_captures`, the walk | the file system, by whole-file renames; no lock |
| **Archive store, derived layer** (`storage/archive.rs`) | metadata, article record and prose, refused extraction, not-article marker | `write_metadata`, `write_article`, `write_refused_extraction`, `write_non_article`, `read_article`, `ArticleState` | the capture pipeline and the repass |
| **Repass** (`repass.rs`) | nothing of its own | judge each capture's derived records against this program and `extraction-rules.json`, rewrite the stale ones, recover missing subresources | both layers of the store, the network |
| **Capture run** (`capture.rs`) | the `CaptureRun` of each phase: filed, refused, failed, unaddressable, inside a network, never followed, pages spent | seed crawl, listed addresses, resume by origin, merge of phases | the engine (callback per page), the store, the readers of a page |
| **Capture command and ledger** (`cli/capture.rs`, `write_owed`/`read_owed`/`resume`) | `owed.json` | one run from start to report; the ledger is merged at its end | the capture run, the store |
| **Crawl boundary** (`crawl/boundary.rs`) | per-host rate limit memory, what the engine discovered and refused | the contract of an engine, `wait_out_rate_limit` | the engine |
| **Crawl engine** (`crawl/spider_engine.rs`) | bounded queue of reports, deadline, hop depth, lost links | start, drain, recover lost links, stop | the spider crate, the boundary |
| **Robots rules** (`crawl/robots.rs`) | parsed groups | longest match | the engine |
| **Subresource pass** (`assets.rs`) | answers shared by the pages of a phase, byte, count and silence ceilings | fetch what a page names, remember misses | the store, the network |
| **Session cookie** (`cli/session_cookie.rs`, `crawl/boundary.rs`) | one credential and the origin it is bound to | read it, refuse it, send it or not | the command, the engine |
| **Sitemap reading** (`sitemap.rs`) | addresses collected so far | find the listing, read its locs under a ceiling | the command |
| **Canonical URLs** (`canonical_url.rs`), **srcset** (`srcset.rs`) | none | pure conversions | everything |
| **Export** (`export.rs`, `cli/export.rs`) | the vault directory | slugs, notes, attachments | the store's walk |
| **Metadata** (`metadata/*`), **Readability** (`readability/*`) | none | pure functions of a page, a version and a rule | derived layer |
| **Progress, list, report words, argument parsing** | none worth a model | reporting | |

What is hard in each, and what makes it correct:

* *Recorded layer.*  Writers stop between two renames; nothing locks the
  archive; instants come out of order.  A record must never point at absent
  bytes, a capture must always have its item, and no capture may be filed over
  a different one.
* *Derived layer and repass.*  An outcome is two to four files; the program and
  the site rule change between passes; processes overlap and stop.  A reader
  must get whole readings, a pass must leave the outcome of its own program
  whatever it found, and a pass over settled records must do nothing.
* *Capture run.*  Phases share one page ceiling and a list must not ask for what
  is settled; pages
  land elsewhere by redirect and have several spellings; a write failure, a
  deadline or a kill ends a run anywhere.  Every loss must be accounted for.
* *Ledger.*  It must lose an entry only to a capture, across any number of runs.
* *Engine.*  A callback is slower than the fetches it is fed by; a deadline races
  the drain.  It must stop in time and must not lose links silently.
* *Rate limits.*  A wait sleeps on the thread that drains the run, and a server
  chooses the header that lengthens it.  It must end inside the share of its
  address, a server must not be given up on too early or too late, and the pause
  between two requests must survive the sleep.
* *Subresources.*  Three ceilings and a memo decide, per reference, whether to
  ask; fallbacks and later repasses take other paths to the same budget.  No
  ceiling may be walked around, and no reference may drop out of the record.
* *Robots, canonical URLs, srcset, links.*  One address has several spellings,
  and each part of the program has a key of its own for it.  Two spellings of one
  page must meet, two pages must not, and a rule must be read as it was written.
* *Session.*  A credential is one header, private where it is kept, and goes to
  one origin whatever the engine kept from the seed before.
* *Metadata, readability, sitemap.*  Ceilings of count, bytes, memory, depth and
  open elements meet in one document written by somebody else.  What is cut must
  be marked, what belongs to another document must not be taken for this one's,
  and what is kept must be kept in order and inert.
* *Export.*  Notes of one title and day must have names of their own; a link
  into the archive must lead to the newest note, and only destinations change.

`PROJECT.json` lists the hazards of this code one by one, each at its line,
with the properties that would catch it or why none does yet.

## 2. Modules

| module | models |
|---|---|
| `CaptureLog` | the promise to a reader: a log of observations that only grows, and supplements to them |
| `ArchiveStore` | the recorded layer, one action per file read or write; `ImplementsCaptureLog` is its refinement of `CaptureLog` |
| `ArchiveStoreProofs` | theorems about `ArchiveStore` |
| `CaptureRun` | the command, its phases and `owed.json` over any number of runs |
| `CaptureRunProofs` | theorems about `CaptureRun` |
| `DerivedLayer` | the derived records of one capture under its first process and every repass |
| `DerivedLayerProofs` | theorems about `DerivedLayer` |
| `RateLimit` | the wait for a server that answers 429, over the addresses and crawls of a run |
| `RateLimitProofs` | theorems about `RateLimit` |
| `SubresourcePass` | the files a page names: one pass per phase of a crawl, and every repass after it |
| `SubresourcePassProofs` | theorems about `SubresourcePass` |
| `EngineContract` | what the archive is promised of one crawl by whatever engine runs it |
| `CrawlEngine` | one crawl of a seed over the vendored crawler; `ImplementsEngineContract` is its refinement of `EngineContract` |
| `CrawlEngineProofs` | theorems about `CrawlEngine` |
| `Robots`, `CanonicalForm`, `References`, `CrawlLinks`, `PageEvents`, `SessionCookie` | what an address means: rules, canonical form, srcset and reference lists, keys of the frontier, page events, which requests carry the session |
| `PageScan`, `PageEncoding`, `JsonLd`, `SitemapListing` | what a document says of itself: the metadata scan, its encoding, its structured data; a sitemap |
| `Admission`, `OpenElements`, `PageText`, `Narrowing`, `SiteRules`, `ServedMarkdown`, `InlineLinks` | what becomes of the prose of a page |
| `Export`, `DestinationSpans`, `Slug` | the vault an archive is exported to |
| `Positions` | the members of a set of positions in their order: what a filter of a list picks |
| `Boundary`, `BoundaryProofs` | what crosses the boundary of a crawl and what a page says of itself, as one property over `CrawlLinks`, `PageEvents`, `SessionCookie`, `References`, `Robots`, `SitemapListing`, `PageScan` and `JsonLd`; theorems about it |
| `Filing`, `FilingProofs` | what an archive files, takes for an article and exports, as one property over `CanonicalForm`, `Slug`, `Export`, `Admission` and `SiteRules`; theorems about it |
| `MCArchiveStore`, `MCCaptureRun`, `MCDerivedLayer`, `MCRateLimit`, `MCSubresourcePass`, `MCCrawlEngine`, `MCConversions` | values of the constants for the model checker, and the questions put to the pure parts |

Operators with an underscore suffix (`Widen_LastOnly`, `Fold_Replaced`) are
mutated forms of the definition below them: a plausible bug, kept to show that
the property in question notices it.  Nothing in a specification uses them.  The
pure modules have one each, and every one of these breaks the invariant of its
part in `conversions`, beside the three that `PROJECT.json` lists.

### ArchiveStore

`blobs`, `items`, `captures` and `sidecars` are the four kinds of files.  A
body stands for its SHA-256, which is taken as collision free, so a blob is in
the store or not.  A capture record is named by its item, the second of its
instant and a fingerprint of everything else (`PathOf`).  The fingerprint, eight
hexadecimal digits of a hash in the code, is taken as collision free as well: two
captures of one second share a name exactly when they observed the same response.
Two different responses to one item within one second that agree in those eight
digits are outside the model, and outside `NoCaptureIsLost` and its theorem.

`pc[w]` walks a process through `write_capture` (subresources in any order,
body, read item, write item, capture record) or `add_recovered_assets`
(subresources, read sidecar, write sidecar).  Each rename is one step, because
`write_atomically` writes a temporary file with a dotted name that no reader
looks at; a finished rename is taken as durable.  Reading `item.json` and
replacing it are two steps, and so are the sidecar's, because nothing keeps
another process out in between.  `Stop` is a kill, or a failed write whose
error ends the run, before any step.

### CaptureRun

`items`, `captures` and `owed` are the archive as the command sees it.  `run`
is the `CaptureRun` merged so far, `part` that of the phase in progress, with
its address sets, its page count and its stop reason.  `step` follows
`capture`, `sitemap_phase` and `capture_resume` through the phases: `crawl`
(from the seed), `list` (looking at listed addresses), `fetch` and `subcrawl`
(one of them), `origins` (a resume between two origins), `owe`, `done`.

An event of the engine is `CapturePage`: no response, a page inside a network,
one without a canonical form, a refusal, a page filed (wholly, or with its
derived records missing after a failed write), or a page whose own write
failed.  `LandsOn` gives the addresses a request may end on, `Canon` the
canonical form of each: several spellings may share one, and some have none.

The engine is here by its contract (`crawl/boundary.rs`): it reports pages one
at a time and each requested address once per crawl, serves at most the pages
it was granted, gives refusals away for free, and may end at any point with or
without links it discovered and never fetched.  A list is a set, so its order
is every order.  `Killed` may come between any two steps.

Left out: counts of subresources, what is printed, argument parsing, session
cookies, two runs at once over one ledger.

### DerivedLayer

One capture of an HTML page.  `page` is what the stored response is to the
extractors: what each readability version makes of it with and without the
site's rule (article, refused, not an article, or unreadable when a cost guard
gives up), which metadata versions can read it, whether the rule matches
anything in it, whether it declares how much of itself it serves.  A rule only
narrows a page, so it cannot make a readable page too costly.

`file` holds the five derived records.  A reading records the version and rule
it was made with, the title it was given (named by the metadata version the
title came from) and whether it took in the declaration.  The prose file
carries the reading it was made by, which is what the hash in the article record
tells a reader.

A process files the capture and then writes its first outcome, or begins a pass
(`repass_one` reads the metadata), judges (`repass_capture` reads the outcome on
file, decides what is stale and plans its writes), and writes file by file in
the code's order.  `ArticleState::read` opens up to four files and is one step
here: the one mix that could mislead it, prose beside another reading's
record, is refused by the hash.  `Upgrade` installs a later program and
`EditRules` changes the site's rule between any two steps, also during a pass,
which keeps what it started with.

### RateLimit

`wait_out_rate_limit` with its `RateLimitMemory` (`refusals`, `givenUp`), for one
engine or one listed phase, each of which owns a memory.  `clock` is the run's,
and stands for every `Instant`; `started` and `budget` are what the crawl under
way was given, the run's own at first and what is left of it for a sub-crawl
(`BeginCrawl`, from `remaining_deadline`).  `FirstAnswer` is a caller that asks
for an address and hands over the answer: with a 429 from a server not given up
on, the loop begins.  It then alternates `WaitOut` (sleep, count the refusal) and
`AskAgain` until an answer or a wait that does not fit (`StopWaiting`), and
`Leave` pays the pause and forgives the server that answered with a page.

A sleep takes exactly what it was asked for, and a fetch any of `FetchTimes`.
A `Retry-After` is a number of seconds, 0 where there is none; reading it, as a
number or a date, is left out, and so is the count of recovered pages, which is
only reported.  Numbers that saturate in the code are capped at `Horizon` here,
past every deadline.  `refusals` is read by the code no higher than ten and kept
no higher here.  `slept` and `lastRetry` are history.

### SubresourcePass

`known` is the memo of `AssetCapture`; the pass of a page is `list` (its
references in page order), `outcome` (what became of each), and the counters
`dealt`, `bytes` and `silences`.  `TakeUp` begins a page; then, reference by
reference in the order of `fetch_priority`, one of `Serve` (from the memo),
`Refuse` (a ceiling) and `AskFor`, each followed by `TryFallback` where the code
calls for one; `Finish` files what came of it.  In a repass the list is what
`recover_assets` makes of the record's misses (`Retries`), and `Finish` is
`add_recovered_assets` together with the fold that every reader applies.

An answer is silence, or a body of some size that is kept or turned down;
"unusable" stands for landing inside a network, arriving short and being too
large, between which nothing here distinguishes.  Addresses in `Inside` are never
dialled, and those in `Dead` never answer.  `NextPhase` starts another
`AssetCapture` under the run's clock, as the listing after a crawl does, and
`BeginRepass` a later run.  `Stop` loses the page in hand: a kill, or a failed
write.  By each repass the metadata in hand is taken to name the references of
the page.  The lists of misses are kept and merged by recursive functions (`Only`,
`MergeMisses`) rather than by `SelectSeq` and a fold, which say the same and of
which nothing could be proved; `Finish` binds the values it files by quantifiers
over singletons, so that each is computed once.  Left out: the mark on a fallback, a redirect that lands on another
missed address of the same page, media types, and two repasses at once.

### CrawlEngine

`crawl_seed` and what it calls.  The vendored crawler is external, and four
actions say what the adapter relies on: `EngineFetch` (a page is taken from the
frontier while there is concurrency and room under its page limit),
`EngineAnswer` (the crawler calls `hop_depth_guard`, queues the links it let
through, and broadcasts the page), `EngineAborts` (a task of a cancelled crawl)
and `CrawlFinishes`, which may come with part of the frontier unfetched: that
race is what the recovery exists for.

`queue` is the broadcast channel, which overwrites its oldest page when full;
`lost` counts what it overwrote since the reader last asked.  `step` is where
`crawl_seed` is: `crawl` (the select over crawl, deadline and queue), `drain`
(the crawl ended by itself), `flush` (the deadline won), `stopped` (the caller
did), `recover` and `done`.  `Receive` hands one page to the caller, through the
robots rules and through `wait_out_rate_limit`, which is one step here
(`RateLimit` opens it up).  `Recover` is one candidate of `recover_lost_links`,
with the children it adds.  `sent`, `taken`, `aimed` and `before` are history.

An address is its `depth_key`; what a key hides is in `CrawlLinks`.  `Allowed` is
what this project's rules let through and `EngineAllowed` what the crawler's own
matcher does: the two disagree in the run in both directions.

### The pure modules

Each is one source file, or two that act on one thing, as operators: the
state of a loop is the accumulator of a fold, and every early return and ceiling
is a guard.  Characters, tags and values are members of small alphabets in which
everything the code tells apart has a representative: `%a` and `%*` are the
escapes of a letter and of an operator, a size is a number of bytes before and
after entities are read, a namespace is the protocol's, another's or undeclared.
Below the code comes the reference definition it is compared with, which is
written from what the result is for and never from the code: a pattern covers a
path when its characters can be laid over it; two addresses are one page when
dropping what does not matter leaves the same; a nesting is what a reader of the
document counts; what a cookie may reach is what its origin is.

A behaviour of `Boundary` and `Filing` is one question; what of the answers
is proved is stated there.  `MCConversions` asks the questions, those two's and
the rest's, whole or, where the number of pieces matters, piece after piece (a
sitemap, a marked-up page, a served document).  The three invariants group the
answers by what they are about.  The modules that are proved about hold no
recursive operator: a loop is a fold, a filter is what is `Picked` at the positions that
pass, and a stable sort is the positions in their order.

## 3. Runs

Two-worker times on a small machine; every run finishes its whole state space.

| run | question | bounds |
|---|---|---|
| `store_one` | does one process at a time, stopped anywhere, implement the append-only log, and does the item window cover every capture? | one page address, two bodies of which one names two subresources, instants 0..2 with two per second (so two share a second and one does not), three operations |
| `store_two` | what survives two processes without a lock? | two processes, two replies that share bodies, one subresource, two instants in one second, three operations |
| `store_stranded` (violation) | does an item exist exactly when a capture does, as a comment says? | one process, one operation |
| `run_phases` | a crawl and a crawled listing: one ceiling, no settled address of a list asked for again, every loss owed? | a page with two spellings and a second page that redirects to it, two pages allowed, one run, killed or failing anywhere |
| `run_debt` | a listing and then a resume (or two of either), with a deadline: is debt kept until paid, and dropped once paid? | the two spellings, an address without canonical form and one inside a network; two runs |
| `run_refused` (violation) | is a refused entry dropped once archived, as the docs say? | as `run_phases` |
| `derived` | what do a capture and repasses leave, with an upgrade or an edited rule and a stop anywhere? | two processes, two versions of each extractor, one stop, one change, 520 initial pages and rules |
| `rate` | is a refusing server waited for within bounds, given up on for good reason, and asked at the run's pace? | two servers, a deadline of 12 or none, waits of 1, 2 and 4, headers of 0 and 3 against a share of 3, fetches of 0 and 1 |
| `subresources` | do the ceilings hold, is nothing asked for twice, and does the record account for every reference, over a crawl and its repasses? | two pages sharing two of four and three addresses, one of them with a fallback and one inside a network; ceilings of two references, two bytes and two silences; one stop |
| `subresources_dead` (violation) | is what a ceiling left out recoverable? | one page of four pictures, three of them and their renditions on a host that never answers |
| `engine` | is every page and link of a crawl accounted for, and does it end for the reason it gives? | seven pages whose links cross, a ceiling of four, two hops, two fetches at once, a queue of two; 33 795 states |
| `conversions` | do the pure parts answer what they are for? | twenty-one domains, 427 827 questions; 50 s |

The bounds are small and chosen for the cases they contain.  Three operations
are what it takes for a capture, a second capture that collides with it (or
not), and a recovery beside either.  Two spellings and one redirect give every
relation two addresses of a run can have: equal, same canonical form, one ends
on the other.  Two pages of ceiling split over two phases as 0+2, 1+1 and 2+0.
Two runs are a debt and its payment, or a debt and a failure to pay it.  Two
versions are an old and a new program; one stop and one change are enough
because a whole pass resets what earlier ones left, which is itself a property
(`PassReadsWithItsBuild`).  `MCPages` keeps the pages on which the site's rule,
where it matches, makes the same of every version and which then declare
themselves; `MCSymmetry` swaps the two processes, in a run with no liveness.

In `rate` the deadline is twelve so that a share of a quarter holds the second
wait but not the third: every branch of the loop, of giving up and of the pause
comes up, for a fresh and for a sub-crawl's smaller budget.  In `subresources`
every ceiling is two, so each is reached with references left over, alone and
with a fallback in flight; a response may be larger than one file and than a
whole page may spend; an address may be known from the other page or not.

In `engine` the site is deeper than the hop limit and larger than the ceiling,
one page is refused by each robots reading alone, one declares a base, two name
the seed or each other, and the queue holds one round of fetches, so it can
overflow.  The factor of four between concurrency and queue is a constant that
only moves the point of overflow.

In `conversions` a domain is large enough for two of everything that can
interfere: two wildcards and an anchor in one pattern, two groups that name one
agent, two tracked and two kept parameters, two candidates with a descriptor
between, two ceilings in one tag, an image in an image in a link, two items of
one title with two captures each.  The ceilings are one to three.

Deadlock is not checked: a run may simply be over when its bounds
(`MaxOps`, `MaxRuns`, `MaxStops`, `MaxChanges`) are used up, a caller need not
ask again, a repass that finds nothing owing changes nothing, a crawl ends, and
a question has one answer.

### What the passing runs show

*Store.*  Records never point at absent bytes and captures never lose their
item, with any interleaving and stop (`RecordsPointAtStoredBytes`,
`EveryCaptureHasItsItem`); no step files a different capture over an existing
one (`NoCaptureIsLost`).  With one process at a time the file writes refine
`CaptureLog`: an observation becomes visible whole, by the single rename of its
record, and is never altered after that (`ImplementsCaptureLog`); windows cover
backfilled captures too (`WindowCoversEveryCapture`).

*Run.*  Every page and lost link the engine told a run of is filed or owed when
the run ends (`EveryLossIsOwed`), except the page whose own write failed: the
comment in `capture.rs` that every address is in exactly one list is not true
of that one, and the property says so rather than hide it.  The phases together
stay under `--max-pages` (`RunStaysWithinMaxPages`), no listed address is asked for
that the run already filed or was refused, under any spelling and by whatever phase
(`NotAskedAgain`; what a sub-crawl follows from a listed address is not covered: the
engine remembers nothing from one crawl to the next and may ask there again), and debt is dropped only for a capture
(`DebtIsKept`) and always for one (`PaidDebtIsDropped`), unless the same run
also lost the address.

*Derived layer.*  A lone pass never takes the last reading away on its way to a
new one but for the prose-then-record window (`ReadingNeverVanishes`).  Over
records no one interrupted it leaves exactly its own reading and nothing that
contradicts it (`PassLeavesCurrentReading`); over anything at all it leaves the
kind, version and rule of its own program, with prose and record of one reading
(`PassReadsWithItsBuild`); and the next pass of the same program writes nothing
(`SecondPassWritesNothing`).

*Rate limits.*  For any pattern of refusals, headers and sub-crawls, an address
is slept for at most its share (`WaitsStayInTheShare`); a server given up on is
beyond reach for the rest of the run, and not because of one header or one spent
share (`GivenUpIsBeyondReach`); the caller's next request keeps the run's pace
(`PaceIsKept`); and a call returns even to a server that refuses for ever
(`CallReturns`).

*Subresources.*  A pass asks for each address once (`AskedOncePerPass`); the
waits and the bytes of a page are bounded with its fallbacks and refused bodies
counted in (`SilenceIsBounded`, `TransferIsBounded`); the count ceiling is not
claimed for fallbacks, which `try_fallback` charges to the other two only.  Bytes already held are
listed whatever ceiling was met (`HeldBytesAreListed`), the lesser kinds lose
first (`LesserKindsLoseFirst`), and over any number of repasses each reference
is held or missed with one reason (`RecordAccountsForThePage`).  Where no
reference names a fallback, repasses that are not cut short recover all a
ceiling left out (`PlainPageIsRecovered`).

*Engine.*  Whatever ends a crawl, a page whose fetch was paid for was handed over
or is in `pages_dropped` (`EveryPageSentIsAnswered`).  A crawl that says it is
exhausted, dropped nothing and met no ceiling has asked for every link its pages
named, or names it (`LostLinksAreAnswered`).  The recovery keeps the page ceiling
and the hop limit of the crawl it mends (`RecoveryKeepsTheBounds`) and asks for
nothing robots.txt refuses (`RefusedIsNeverDelivered`).  Nothing is handed over
after a stop, and the reason given for the end is the one that ended it
(`ImplementsEngineContract`); and every crawl ends (`EngineEnds`).

*Conversions.*  `BoundaryIsHeld`: over all the links of a crawl and the one table
of corrections they write into, what the frontier asks for is on record under the
key its fetch is looked up by, and is the address the link means unless another
link of the crawl has the same raw spelling; no declared base leads a relative
link to another server; a page event is what arrived; no spelling of a host
gets past the guard of internal networks; a credential is private, one header,
and stays with its origin; no file of a page is listed twice; a robots.txt whose
general group comes last refuses what RFC 9309 says it refuses; the sitemap that
is read is the one that was named, and all its addresses are accounted for;
nothing a ceiling cut from a page goes unmarked but a canonical link, of which the
first that fits is kept; a declaration of access or a title is the page's and not
the site's.
`DocumentsAreReadWhole`: a srcset is read as written; served Markdown keeps its
words in order, and its line breaks outside the descriptions of images, with no
markup it brought along and every start closed; a rule narrows to what it names,
less the furniture it then finds in what is left; elements are counted as the page opens them; text is
counted once; a page is read in the encoding it declares; links keep the prose
around them; only the destinations of a note are rewritten.
`FilingIsFaithful`: one page has one canonical address, and canonicalizing
twice changes nothing; notes have different names, the names of files; links and
pictures lead where they led; a page that says more is not refused where one
that says less is admitted; a site's rule is told, as it was written, to every
page of the site it names as canonicalization spells it, however the page's
address is spelled, or is reported.  A readable rule under any other
spelling is neither, and the property says so.

### What the violation runs show

1. `store_stranded`: a stop between item record and capture record makes
   `has_captures` answer yes for an address with no capture, and a later resume
   skips it.
2. `run_refused`: an address refused in one phase and archived in another
   through a redirect is owed as refused after a run that archived it.
3. `subresources_dead`: each repass asks first for the narrower renditions of
   pictures it cannot have; three on a silent host end the pass, and what is
   listed behind them is never asked for.

### Known from reading, and not shown by a run

The following came up while translating; each is in the model as the code has it,
and the property nearest to it is stated so that it holds.

* A repass stopped between the metadata and the article (`repass.rs`, around
  line 370) leaves an old title that every later pass judges current, although
  the comment above says replaced metadata makes the article stale.
* A server whose header asks for a minute each time is never given up on
  (`boundary.rs:592`), because the wait the run would choose by itself still fits;
  four of its addresses sleep through 240 of the default 300 seconds.
* Two repasses at once can lose what one of them recovered
  (`add_recovered_assets` reads, merges and replaces a sidecar without a lock,
  where the docs allow one writer).
* A resume whose ceiling is spent exactly at the end of one origin's list
  reports that nothing was left to fetch (`capture_owed_reporting` breaks
  without recording the bound).
* The recovery's `seen` starts with its candidates only, so a child that the
  crawl had already fetched is asked for again, counted in `links_recovered`,
  or listed as never followed although it is in the archive.  Links still
  queued when the ceiling or the deadline ends a recovery are left unreported,
  where `boundary.rs` says they are listed; attempts that fail are not charged
  to the ceiling; and the children of a recovered page keep their fragments,
  so two anchors of one page are two requests.
* `group_of` walks the raw lines of robots.txt in file order while the parser
  publishes the general group last: a file that begins with it loses raw
  spellings of the groups behind.
* `unique_note_path` panics (`unreachable!`) for captures of two items of one
  host that share title, day and capture id.  An item whose latest capture has
  no article exports nothing, also when an earlier one has.
* The description of a dropped image in served Markdown is not counted as text,
  and a line break inside a description is dropped with nothing in its place
  (`served.rs:289`), which makes one word of the two around it.
* The table of corrections belongs to the crawl and is keyed by the raw
  resolution (`spider_engine.rs:1601`): of two links whose raw spellings agree and
  whose meanings do not, as two numeric references cut at the `#` do, the later
  read decides what both are asked for at.  The other stays on record as lost, for
  recovery to fetch or to name.
* `schema_nodes` does not open the graph of an object inside a list, which
  `readability/mod.rs` says it mirrors; a blank name in one node hides a later
  node's.
* An over-long canonical link is dropped without a mark (`scan.rs:350`), and a
  later one that fits takes its place, where docs/metadata-extraction.md has the
  reaching of any ceiling recorded.  The end tag of an extension's `loc` inside a
  page's ends the page's.
* A site rule under a host spelled with `www.`, a capital, a port or brackets is
  read and kept, never looked up (`rules.rs:187`) and not reported, where the
  comment on `SiteRules::read` has everything that is not usable reported.

## 4. Fairness

`ArchiveStore`, `CaptureRun` and `DerivedLayer` assume none and claim no
liveness: a run may be killed, and ends when the engine ends.

`RateLimit` assumes weak fairness of the steps of one call (`Call`): a sleep ends,
and every fetch comes back because the engine bounds a request by its own
timeout.  Nothing obliges a caller to ask, and a server may refuse for ever.

`SubresourcePass` assumes weak fairness of `Step`: a pass goes on with its list,
every fetch comes back, and somebody runs the repass again and again, which is
what "recoverable later" asks for.  Stops, the end of a deadline and the next
phase are never forced, and no server is obliged to answer or to keep answering.

`CrawlEngine` assumes weak fairness of the adapter's steps, which one runtime
polls whenever one is ready, and of the crawler's, whose requests end within
their timeout.  The deadline is never forced to pass, and the caller never
obliged to stop.  `MCConversions` claims no liveness.

## 5. Proofs

TLAPS checks the following for every value of the constants that satisfies the
named assumptions of the modules.  Six of the eight proof modules check in about a
minute or less each; `BoundaryProofs` and `FilingProofs` take some twenty-five
minutes each, nearly all of it `tlapm` preparing obligations among the definitions
of eight and thirteen models.

**ArchiveStoreProofs.**  `TypeCorrect`; `NoDanglingRecord` and `NoStrandedCapture`
for any number of processes; `CapturesAreKept`; and under `SingleWriter` (one
process has the archive open, the documented condition) `WindowsCover` and
`StoreImplementsLog`.

`RecordsPointAtStoredBytes` is not inductive: it says nothing of a process about
to write a record.  `StoreInv` adds `Staged(w)`: by the step writer `w` is at,
everything its next record will point at is stored already, and its item is
there.  Nothing ever removes a blob or an item, so other processes cannot
disturb it (`OthersStayStaged`) and no lock is needed.  The window does need
one: `AloneInv` says the window a lone writer read is the one on file, which a
second writer falsifies.  The refinement maps every rename to one step of
`CaptureLog` or to a stutter; the one visible step of a capture is its record.

**CaptureRunProofs.**  `TypeCorrect`, `LossesAreOwed`, `DebtIsSettled`,
`CeilingHolds`, `DebtOutlivesRuns`, `NothingIsAskedTwice`.  All follow from one
inductive invariant, `RunInv`.  Its parts say what holds before the ledger is
written: `Accounted` (what the engine told of is in the run or its phase),
`Ceiling` (archived pages plus the room still granted stay under the ceiling,
and nothing archived goes uncharged), `Snapshot` (a list is walked with the
snapshot of the phases before it), `BetweenPhases` (the phase has been folded in
when the run moves on, so the ledger write sees everything) and `FailureIsLast`
(one failed write ends a run, so at most one page is in hand).  `PageEffect`
treats the six outcomes of one engine event once for both the places they
happen in.

**RateLimitProofs.**  `TypeCorrect`, `WaitsAreBounded`, `GivingUpIsSound` and
`RetriesKeepThePace`, for any servers, deadlines, headers, fetch times and
policy constants that are natural numbers.  The bounds on waiting follow from
`SleptSince` (what was slept for an address is part of the time since its first
refusal) and `ShareInv`: a wait that fits is added to both sides.
`GivenUpIsBeyondReach` needs `GivenUpInv`, which says that the address in hand is
on another server or was left refused, so that nothing resets the refusals of a
server given up on; `ReachShrinks` then shows that a wait out of reach stays out
of reach as time passes and as a sub-crawl takes a smaller budget.  The pace
follows from `PaceInv`: after each retry the call that made it is still under way
and has slept for nothing since, or the pause has been paid.  `BackoffAssumption`
says of the powers of two only that the products are natural numbers, and
`HorizonAssumption` that the bound of the clock is past every deadline.

**CrawlEngineProofs.**  `TypeCorrect`, `PagesAreAnswered`, `AdapterIsAnEngine`,
`RefusedIsWithheld`, `RecoveryIsBounded` and `NoLinkIsForgotten`, for any
finite site, robots rules, ceilings, concurrency and queue factor.  `Counted`
balances the stream: every page sent is queued, read or counted, and recovery
begins with an empty queue.  `Ended` ties the stop reason to the step and to
what the caller said, which gives both the invariant and the step simulation of
`ImplementsEngineContract`.  `Contents` says where an address can be, and that
nothing handed over was not asked for.  `LostLinksAreAnswered` speaks of the end
only; `NothingForgotten` carries it through recovery, where an address may also
be waiting in `todo`, and has to follow the addresses in `seen` as well, because
a child that is in `seen` is not queued again.  `SetToSeq` is known only as some
listing of a finite set (`ListOfASet`).  The hop limit follows from `HopsKept`:
every distance on record is that of some walk from the seed, every address that
was asked for has one, and so does every child that waits; it is lost once a
page that declares a base is fetched, since the links of such a page are queued
and not recorded, which is why the property makes that exception.

**SubresourcePassProofs.**  `TypeCorrect`, `NothingIsAskedTwice`,
`WaitsAreBounded`, `BytesAreBounded`, `HeldBytesAreKept`, `CeilingsSpareTheText`
and `NoReferenceDropsOut`, for any pages, references, servers, ceilings and
number of repasses.  `Typed` strengthens the types by what is in hand: the
references have the program's shape, a fallback is tried only where one is named,
and no more is dealt with than settled.  `AskedIsKnown` (what was asked for is
known), `Metered` (the counters of the code are what was spent), `Ranked` (what is
settled comes before what is pending, and a ceiling that refused a reference of
this list is still reached) and `Accounted` (the list of a crawl is the page's
own, and a repass takes only what is filed) carry one theorem each or two.
What a record lists is a recursive function of lists: `Iterates` gives such a
function its values, `Upwards` stands in for induction up to a number, by counting
a finite set, and `OnlyLists` and `MergeLists` say what comes of the two recursions
the model has.

**DerivedLayerProofs.**  `TypeCorrect`, `NothingIsLostToTheReader`,
`AWholePassMends`, `TheSecondPassIsIdle` and `ThePassIsWhole`: every property of
the module, for any page, versions, rules, number of processes, stops and
changes.  `Recorded` says that a record, on file or about to be, fits what its own
version and rules make of the page, and is of no later program than its writer;
`Lone` says how far a process that met no other has come: what it read is still
on file, no record is newer than it, and what it has left to write is one of the
tails `Writing` lists, each with the files the entries before it left.
`WritingStep` takes each of those one write further.  A pass that ends without a
write needs `CurrentIsOfItsBuild`: what is not judged stale cannot be of other
rules, nor of another version.  `LastIsWhole` speaks of every process that would
start as the last whole pass did, so it survives until a file changes.  For the
title, `CleanIsTidy`: between passes the article has the title on file, or a pass
would find something stale; it rests on the restriction that a page readable in
full is readable when a rule narrows it, without which an unreadable pass could
renew the metadata under a current article.

**BoundaryProofs.**  `LinksAgree`, `BasesLeadNowhereElse`, `ResponsesAreWhatArrived`, `SpellingsAgree`,
`CredentialsArePrivate`, `CredentialsStayHome`, `ListsAreUsable`,
`RobotsAreObeyed`, `SitemapsAreAccountedFor`, `TheSitemapNamedIsRead`,
`NothingOfAPageIsCutUnseen`, `DeclarationsAreThePages` and `TitlesAreFound`, and
`WhateverIsAskedTheBoundaryIsHeld`, which puts them together.  Its hypothesis
`WellAsked` says only what a question is made of: lists of any length, headers,
hosts, files, calls, XML events, tokens of markup and nodes of structured data
of the shapes the program has.

A list that is walked by a fold needs the invariant of the walk.  For the seeds
of a session it is what holds after the first k calls: `Kept` (the Website in
the slot is that of the last crawl, and only if that one did not panic), `Sent`
(every request so far was made for its call, and carries the credential if its
origin is the bound one) and `Counted` (robots.txt was asked for once for each
crawl that found no Website of its origin).  `Folds` and `FoldsUpTo` give a fold
its values, which is what stands in for induction along the list.  `Extremes`
gives every non-empty set of positions a first and a last, which is what "the
first reference to an address" asks for.

That robots.txt is obeyed has two halves.  A pattern matches what it covers:
the code walks the literals of a pattern and puts each at the earliest place it
fits, the reference lays the characters of the pattern over the path in any way.
`CutsDivide` divides a pattern into its literals, `LaidOutIsPlaced` and
`PlacedIsLaidOut` go from a laying to one place for each literal and back, and
`PlacedIsWalked` is the argument that
the earliest place is never the wrong one.  And the rules the crawl judges by are
the lines that govern it: `SpellingsAreWalked` follows the raw lines beside the
parsed ones, which meet line for line where the general group comes last
(`FilesAreKeptInOrder`), and that is where the hypothesis is needed.

A sitemap is a walk over events (`AReadingIsAWalk`).  Its account balances after
each of them (`TheAccountStaysBalanced`); for a flat document `FlatStaysNested`
says what is open, and `TheCountIsKept` that the addresses read so far are those
of the elements closed so far.

A scan under ceilings is compared with one of the same markup that meets none.
`Uncut` says that the second keeps everything, because the whole of the document
is longer than anything taken from it (`TotalsRise`); `Alike`, that the two are
equal in everything but what is marked; both survive each token
(`AlikeStaysAlike`, `UncutStaysUncut`), of which there is a lemma for each kind.
What is not marked, the canonical link, is followed by itself:
`TheFirstCanonicalIsKept` says that a scan holds the first that fits, and
`TheFirstIsTheFirstThatFits` that this is the page's own unless that is too long.

For structured data, `AllThatStandsIsRead` says which nodes the two flattenings of
a page hold, `ReversedStandsAlike` that their order is no matter, and
`APageDeclaresWhatItsNodesSay` what comes of hearing them one after another.

**FilingProofs.**  `PagesHaveOneAddress`, `SlugsAreNames`, `VaultsAreWhole`,
`MoreProseIsNoLess` and `RulesAreToldToTheirSites`, and
`WhateverIsAskedFilingIsFaithful`, which puts them together.

Two addresses are one page when their servers read the same of them, which
compares values parameter by parameter; they have one canonical form when two
sorted lists are equal.  The bridge is that a finite set with a strict order is
listed in one way (`Place`, `Member`, `Listed`): the lists are equal when there
is an order isomorphism between the positions they come from, and equal values
under every name give one.  Where the prefix of a name ends is the first label
that stays, and is never moved by reading the name again.

A slug is read byte by byte: `Spelled` says after each how much was written, that
it begins with a letter and has no two hyphens in a row, and that nothing but the
room was lost.

A vault is whole by four walks, each with its invariant: `TakenAfter` (a name
given is the first of three that no note before took, or none was left),
`BestAfter` (the newest note of an address so far, the first of a tie),
`ShownAfter` (a picture is as it was, or names a file in the list of its note)
and `Flattens` (the lists of a list follow each other at known offsets, so what
is written comes after the pictures of its note).  The hypothesis `Archived` is
what the layout of the store gives: one item for each address, one capture for
each id in its directory, and no item whose prefix is somebody's capture id,
which has another form.  `all`, the write that fails and `created` are free.
That two captures of *different* items may share an id is not excluded; it is
what the panic comes from, and `PanicsShareAnId` shows there is no other cause.
`WellFiled` puts these hypotheses on the question; every question of the run
meets them.

Of what decides on an article, `VerdictsAreThese` turns the order of the guards of `extract` into two
conditions on the page, and `SliversAreSmall` is the arithmetic of the share: one
more character on both sides adds `ShareDenominator` to one of them and 1 to the
other, which is why it must not be zero.  A file of rules may name any hosts
in any spelling, with lists of any length, and is asked for any page's address;
`HostsAreSites` says that the key it is looked up under is the site of the page,
spelled plainly, by what `PagesHaveOneAddress` knows of canonical addresses.

## 6. Only model-checked, or not modelled

All liveness is model-checked only, and so is `DocumentsAreReadWhole`: srcsets,
served Markdown, the narrowing of a page, its open elements, its encoding, its
counted text, its anchors and the destinations of a note.  The disagreements are
shown by counterexample.  Out of the prover's reach, and left to the model checker
where they come up: liveness and `ENABLED`, and what a `RECURSIVE` operator or a
nested recursion over a document computes for every input.  The lemmas that stand
in for induction serve one walk along one list each; the parts of
`DocumentsAreReadWhole` read characters by a matcher that branches, or walk a tree
with a stack, for which the invariant would be the code again.  Two of them, the
narrowing of a page and served Markdown, are walks of one list over a tree and
over lines: they look provable in the same way and are not proved yet.

Not modelled, and why: the archive marker and the refusal of malformed or
oversized files (single checks before any write); damage to files on disk and
the durability of a rename (no code to translate); the tokenizers of HTML, XML
and Markdown, the scoring of articles, the URL parser and the crawler, which are
dependencies (external, by what the code relies on); dates, authors and the
other fields that are resolved as the title is; the block structure and the
escaping of the Markdown converter, and front matter quoting, where a property
would be about spelling; the settings of the crawler other than its headers;
reporting, progress and arguments (no state that outlives a line).

## 7. Plan

1. `CaptureLog`, `ArchiveStore`, `ArchiveStoreProofs`: done.
2. `CaptureRun`, `CaptureRunProofs`: done for one run at a time.
3. `DerivedLayer`, `DerivedLayerProofs`: done.
4. `RateLimit`, `RateLimitProofs`: done.
5. `SubresourcePass`, `SubresourcePassProofs`: done, proved but for liveness.
6. `EngineContract`, `CrawlEngine`: done, proved but for liveness.
7. `Boundary`, `BoundaryProofs`, `Filing`, `FilingProofs`: done, and the modules
   they are about.
8. The other pure modules: done, and model-checked only; first to prove about
   would be `Narrowing`, whose tree is walked by parents.  Open are the front
   matter of a note and the dates of a page.
9. The stop reason of a resume, and liveness of the ledger: with a host that
   answers and resumes that are not killed, a debt is eventually paid or refused.
