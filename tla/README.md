# go-knowrag: verification project

go-knowrag keeps a vector index (Qdrant) in line with vaults of Markdown notes
and answers searches over it, from a command line (`knowrag`) and an MCP server.
Notes are scanned, cut into chunks, embedded by a local GPU service and written
as points whose identifiers are computed from tenant, uid and chunk index.
Nothing in the system is transactional: a run is a sequence of remote calls, it
can be interrupted or killed anywhere, and correctness means that what is left
behind is safe to search and that the next run repairs it.

This directory holds TLA+ models of that system, the instances TLC checks, and
proofs checked by TLAPS.

## 1. The system and its parts

| Part | State | Operations | What makes it correct |
|---|---|---|---|
| Ingestion run: `internal/ingest`, `cmd/cli/ingest*.go`, `interrupt.go` | per process: scan result, snapshot of the tenant, outcome per note, deletion candidates, interrupt | lock, scan, handshake, snapshot, per note (integrity check, embed, upsert with retries, delete the tail), split and prune the candidates, exit | a reported outcome describes the index; nothing alive is deleted; a clean exit means everything selected was brought in line; reruns bring in every note on disk, and prunes take out the others |
| Ingest lock: `internal/ingest/lock` | one flock per (endpoint, collection, tenant) and machine | TryAcquire, Release, and the kernel's release at death | one writer per lock file; never left behind |
| Point store: `internal/store/points.go` | points in Qdrant, writes in flight | UpsertPoints, DeleteByFilter, ScrollByUID, ScrollTenant, Stats | answers say whether the write is applied; a scroll returns everything |
| Vault scan: `internal/vault` | none (reads the disk) | ScanVault, walk, frontmatter, duplicate uids | fails closed on a broken contract; a missing note means missing, excluded or emptied |
| Chunker: `internal/chunk` | none | split by sections, clamp, merge | no chunk over the ceiling, text preserved |
| Embedding client: `internal/embed` | latch "verified", gate, per call: semaphore, first error | Handshake, EmbedDocuments (concurrent sub-batches), EmbedQuery, retries | nothing embedded through an unconfirmed backend; all or nothing; never a zero vector |
| Embedder service: `scripts/embedder-service/server.py` | GPU busy, queries waiting, time of last use | `gpu()` admission, requests, idle watchdog | one call at a time; a waiting query is not overtaken; nobody parked for ever |
| Schema apply: `internal/store/apply.go`, `internal/schema` | collections and their payload indexes, the applied-state file | Apply, Load, Save | idempotent; a crash in the middle is repaired by the next apply; a revision that changed is refused |
| Retrieval: `internal/retrieval`, `internal/store/query.go` | none | Search (window, cap per note), Get | at most the asked results, cap per note, scope always applied |
| MCP server: `cmd/mcp-server` | embedder, deadline per request | boot check, search, explanation of an empty answer | a refused revision never answers; explanation never fails a search |
| Configuration: `internal/config` | none (reads file and environment) | Load, RequireVaults | no setting of a vault is passed over in silence, none is read for two vaults |
| Golden sets: `internal/goldenset`, `internal/goldenauthor` | a YAML file, the questions a session knows | draw a note, append an entry | what was saved stays; needy areas first |
| Evaluation: `internal/eval`, `cmd/cli/eval.go` | results so far, the comparison document | ask, aggregate, verdict, exit code; isolation cases | exit 0 means everything was asked and answered; the suite passes only what isolates |
| Operations: `scripts`, `deploy` | the vault, a parked note, the volume | prune drill, recovery drill, timers | what a drill takes away comes back; its verdict is true |

How they interact. `knowrag ingest` calls the vault scan (disk), then the
embedder (handshake and, through the tokenizer, chunking), then the store; the
MCP server and `knowrag search` call the embedder and the store and share no
memory with a run: the index is the only thing in common. The embedder service
serves both and orders them (queries before batches). Two runs of one scope on
one machine are kept apart by the lock; runs on two machines are not. The
operator, cron timers and editors act at any time.

What is hard: writes whose fate is unknown (`WaitTimeout`, errors after the
server took the request), late landing, partial application, crashes between
insert and prune, a snapshot used long after it was read, files edited during a
run, SIGINT and the cancellation that follows it, two hosts with a lock each.
`PROJECT.json` lists every hazard with its line and the properties that cover it.

## 2. Modules

| Part | Modules | Instance | Proofs |
|---|---|---|---|
| Ingestion runs, lock, point store | `PointIndex`, `Ingest`, `IngestInv` | `MCIngest`, `MCIngestHosts` | `IngestProofs` |
| Embedder service | `PriorityLock` (abstract), `EmbedderService` | `MCEmbedderService` | `EmbedderProofs` |
| Embedding client | `AtomicEmbedding` (abstract), `EmbeddingClient` | `MCEmbeddingClient` | `EmbeddingProofs` |
| Searches: retrieval, MCP server, `knowrag search` | `Retrieval`, `SearchServer` | `MCSearchServer` | `SearchServerProofs` |
| Schema apply | `SchemaApply` | `MCSchemaApply` | `SchemaApplyProofs` |
| Paged reads of the store | `Scroll` | `MCOffline` | `OfflineProofs` |
| Chunker, vault scan, vault settings | `Chunker`, `VaultScan`, `Configuration` | `MCOffline` | `CorpusProofs` |
| Golden sets, evaluation | `GoldenSession`, `EvalGate` | `MCOffline` | `OfflineProofs` |
| Drills | `Operations` | `MCOffline` | `OfflineProofs` |
| Isolation suite | `Isolation` | `MCOffline` | |
| Induction and recursion over data | `DataLemmas` | | |

How they compose. `Ingest` takes the vault scan and the embedding as steps that
answer whole or fail; `VaultScan` shows the first of the scan, `EmbeddingClient`
shows the second of the client by refining `AtomicEmbedding`. `SearchServer`
extends `Retrieval` and uses the embedding client by the same contract, with the
service's replacement in view; it shares no state with `Ingest`, whose effect on a
reader is that points appear and go between two reads. `Isolation` instantiates
`Retrieval`: the suite is asked of the same filter the searches are modelled with.
`Ingest` reads the store in one step; `Scroll` says when reading it page by page
is as good. `Operations` uses the end of a whole ingestion without `--prune` as a step:
what is on disk is in the index, and points of notes that are gone stay. The first
half of `EventuallyConverges` says that such runs get there.

What is left for later: an abstract index ("each note moves from one version to the
next") that `Ingest` implements where nobody writes from outside. What such an index
would promise at the end of a run is `CleanRunAccountsForAll`; that it is reached, for
deleted notes only where somebody prunes, is `EventuallyConverges`.

## 3. The ingestion model

### Modules

* `PointIndex` — the data: notes (a location and a version), points (fingerprint
  and payload, both named by the note they were computed from), the rows stored
  under one uid, and the pure decisions over them: `ExpectedPoints`,
  `CheckIntegrity` (`integrity.go`), `ScanOrphans` (`orphans.go`), the effect of
  an upsert and of a delete by filter (`points.go`).
* `Ingest` — the runs, the lock files, the server's pending writes, the people
  who edit the vaults; safety and liveness properties.
* `IngestInv` — the inductive invariants `IndInv`, `PruneInv` and `ReportInv`.
* `MCIngest` — instances for TLC. `IngestProofs` — proofs.

### State and code

| Variables | Code |
|---|---|
| `disk`, `edits` | the vault directories; a location holds a note, nothing, a file the scan skips (`Hidden`: excluded or emptied) or one that breaks the contract (`Invalid`) |
| `index` | what `ScrollByUID` would return for each uid |
| `pending` | writes the server may still apply: acknowledged ones (`WaitTimeout`, `Acknowledged`) cannot be lost, the others may be |
| `held` | which process holds the flock of each lock file |
| `pc` | where a run is: `acquire` (`TryAcquire`), `scan` (`scanVaults`), `connect` (client, handshake, `withPrefetch`), `loop` (`RunBatch`), `embed`, `upsert`, `trim` (`ProcessNote`), `split` and `resplit` (`splitStillOnDisk`, called twice), `prune`, `report` (`runOutcome`) |
| `opt`, `unscanned`, `scan`, `snap` | flags, vaults left to scan, scanned notes, the prefetched tenant (`NoSnap`: the read failed, notes are read one by one) |
| `todo`, `cur`, `tries`, `result` | notes left, the note in flight, upserts attempted, outcome per note |
| `orphans`, `onDisk`, `gone`, `pruneFailed` | `Report.Orphans`, `Report.OnDisk`, the candidates already deleted, the error of the prune |
| `signal`, `interrupted` | the stop channel and the context of `withInterrupt`; `Report.Interrupted` |
| `foreign`, `disturbed` | history: uids written from outside this lock since the run last established them; locations edited since the run started. No action reads them |
| `faults` | the failures so far, bounded by `MaxFaults` |

Each action is named for the step it models and stands for the whole step:
for example `UpsertNotConfirmed` is one failed attempt of `upsertWithRetry`
together with what becomes of the note when the attempts or the context are
used up.

### Abstractions

* A version of a note stands for its bytes and the chunker and embedder
  configuration of the build; the model reads from it only its number of chunks.
  Fingerprints and payloads are named by the note: two notes have equal hashes
  exactly when they are equal.
* One tenant. Scanning one vault, reading the tenant, and the stats of one
  `splitStillOnDisk` are one step each; vaults are scanned one after the other
  and files may change between them. The order in which notes are processed and
  candidates deleted is left open.
* Chunking happens in the step that takes a note out of the loop.
* `--prune` in a flag set means the operator confirmed it.
* Late writes land in any order. The call a process was waiting for when it died
  may still reach the server (`LastCall`).
* A run that cannot identify the lock directory, cannot print, or dies while it
  starts ends like a crash before the lock.
* Not in the model: message texts, JSON output, the pages of a scroll, which
  vault an unattributable point belongs to, parsing of frontmatter.

## 4. The embedder service model

`EmbedderService` models the threads of `scripts/embedder-service/server.py`
around `gpu()`, and the watchdog that stops an idle process. It does not share
state with the ingestion model: a run sees the service as a call that answers or
fails, which is how `Ingest` treats it. `PriorityLock` is what `gpu()` promises: a lock
with two classes of holder, on which a registered query is ahead of every batch and
waits only while the lock is taken. The condition variable, the flag and the count are
how the code keeps that promise, and `IsPriorityLock` says that it does.

| Variables | Code |
|---|---|
| `pc` | where the thread of a request is: `entering` (parsed, `mark_used` done), `parked` in `_gpu.wait()`, `awake` (notified, about to test the loop condition), `running` (inside `with gpu()`), `done`, `cut` (the process ended under it) |
| `busy`, `waiting` | `_gpu_busy`, `_queries_waiting` |
| `idle` | `seconds_idle()`, in ticks, up to the timeout |
| `server` | `up`; `stopping` once the watchdog called `shutdown()`; `down` once `serve_forever` returned |
| `behind` | history: the batches each query has waited for since it registered. No action reads it |
| `raises` | admissions that ended in an exception, bounded by `MaxRaises` |

One action is what a thread does under one hold of the monitor's lock, so a
query that is admitted at once registers and leaves in a single step, and a
query that parks keeps its registration. A notification makes every parked
thread `awake`; which of them, or which newcomer, looks first is open. An
admission that raises is in the model although no exception reaches it today:
`gpu()` guards against it at length and `test_server.py` tests that guard. A
request is served once; a client that retries is a further request. `Boot` is a
new process, with the monitor's state reset. Stops from outside (SIGTERM, the
day-down timer), loading the model, and the contents of requests and answers are
left out. The actions `Tick` and `Handshake` stand for time passing and for the
only request that counts as use without taking the GPU.

## 5. The embedding client

`EmbeddingClient` models one `ServiceEmbedder` shared by concurrent calls
(`internal/embed`). `AtomicEmbedding` is what the `Embedder` interface promises:
a call is answered once, with all its vectors or with an error, and not before a
backend was confirmed.

| Variables | Code |
|---|---|
| `verified`, `gate` | the atomic latch and `verifyGate`, the one-slot channel that serialises the first handshake |
| `pc`, `ctx`, `answer` | where `EmbedDocuments` or `EmbedQuery` is, its caller's context, what it returned |
| `sub`, `tries`, `out` | the goroutine of each sub-batch, its attempts (`callWithRetry`), its share of the result slice (`Zero` as `make` left it) |
| `firstErr` | the error that is kept; setting it cancels `runCtx` |
| `backend` | what the listening service reports, or `Down`; it stops and comes back with another configuration |
| `swapped` | history: a service came up after the latch was set. No action reads it |

`Acquire` takes the semaphore; `GiveUp` is a goroutine that finds its context
ended before that; `Replies`, `RepliesInvalid`, `CallFails` and `Retry` are the
ends of an attempt. `ExplicitHandshake` is the one the ingestion makes for its
fingerprint. Backoff times, bytes and JSON are left out; a deadline that passes
inside a wait is the context ending.

## 6. Searches

`SearchServer` runs requests of the two tools (`search_knowledge`, `get_note`) and
of `knowrag search`, each with its own steps: parsed and validated
(`SearchKnowledge`, `GetNote`, `RunSearch`), embedded (`EmbedQuery`,
`EmbedFails`), read (`ExecuteQuery`, `QueryFails`, `GetByUID`), and for an empty
answer with an area the explanation (`ExplainEmptyArea`, `ProbeFails`). `Retrieval`
has what is computed: `Validate`, `BuildFilter`, `FetchWindow`, `FormatResults`,
`CapPerUid`. `index` is the collection, which `IngestWrites` changes at any
time; `service` and `latch` are the embedding service and who confirmed it;
`server` is the boot check (`VerifyEmbedder`) with `Relaunch`. `space`, `seen` and
`probed` are histories. The ranking is any order of the matching points: scores are
not modelled, so what holds, holds for every ranking.

## 7. Schema apply

`SchemaApply` runs `knowrag schema apply` from several checkouts, each with its
own applied-state file and build, over one Qdrant. A step is one remote call or
one write of the file; `Fail` is a call that fails with or without its effect, or
the death of the process. `Disturb` is what happens to the store, the record and
the build between: a lost volume, geometry or an index replaced by hand, a lost
record, a build with another revision. `settled` says that an apply succeeded and
nothing was disturbed since it began.

## 8. The tools beside the protocols

`MCOffline` holds these side by side: its variable `tool` chooses one, whose
variables then change.

* `Chunker`: a note after the other through `ChunkNote`, by a run whose floor and
  ceiling are one of `Configs`, a pair that `Validate` refuses among them. A body is
  a sequence of lines (heading, fence, table row, text, blank) and an offset is a
  line number. The scans and the merge read line by line; sections and their
  children are sets of pieces, in the order of their first lines. `BreadcrumbsAreTrue`
  holds names against the outline, in which a heading stands over the lines up to the
  next one of its level or above (`HeadingsOver`); a section does not end at an H1, and
  `StandsOver` lets a name pass one there. Tokens are summed
  over lines plus one per heading of the breadcrumb; the code re-counts because
  real tokenizers are not additive, and the model does not show that.
* `Configuration`: processes that load one installation after another, each a
  roster, an environment and a file, by `loadVaults`, `orphanedVaultSettings` and
  `RequireVaults`. A name is its words, its separator and its case, so that two names
  can make the same variable.
* `VaultScan`: runs, one after another, that read their vaults in order (`ScanNext`:
  `ScanVault` over a tree in the order of the walk, no vault after one that fails) and
  join the scans (`Orchestrate`). What a vault holds may differ at every scan.
* `Scroll`: the page loop of `ScrollByUID`, `ScrollTenant` and `Stats`, of a server
  that is honest, repeats its offset, or answers empty pages, while points are
  written and deleted.
* `GoldenSession`: sessions of `knowrag golden` (open, draw, skip, answer,
  append) over one file, with kills in the write and the owner's repair by hand.
  `Answer` reads the file and computes the bytes; `Write` appends them.
* `EvalGate`: `knowrag eval` in its three modes, question by question, to the
  exit code and the comparison document. `RunGolden` also returns early on a context
  that is cancelled (`runner.go:109-112`); the command line never cancels its own, and
  the model has no step for it.
* `Isolation`: the cases of the suite that ask, over its own fixture, of every
  combination of the ways `Builds` lets the filter of the search go wrong (1,920) and
  `WriteBuilds` the ingestion. `cases_nonvacuity_test.go` plants some of these, one at a
  time; others no test plants, and what a test plants outside of the filter is not among
  them: a store that ignores filters, exclusions missing from the recorded request alone, a
  refusal that comes after the request.
* `Operations`: the prune drill and the recovery drill command by command, with
  failures, signals, SIGKILL, the timers' ingestion and an operator who follows what the scripts
  print. `ParkTorn` is the move that parks the note, to another filesystem, cut in its copy.
  A move back that fails leaves the stash as it is.

## 9. What TLC checks

| Run | Properties | Instance |
|---|---|---|
| `IngestTrim` | `ReportedNoteIsExact`, `OneWriterPerLock`, `LiveNoteStaysSearchable` | two processes, one lock, one note with 0, 1 or 2 chunks, 2 upserts, 2 edits, 2 faults |
| `IngestPrune` | `PruneSparesLiveNotes`, `PruneFollowsWholePass`, `CleanExitCoversSelection`, `CleanRunAccountsForAll` | every combination of flags, one vault or both, two uids, 2 edits, 1 fault |
| `IngestConverges` | `EventuallyConverges` | runs with and without `--prune`; one host with 2 faults and an edit; two hosts with a lock file each and edits that delete or shorten the note |
| `EmbedderService` | `WaitingCountIsExact`, `NoLostWakeup`, `QueryWaitsForOneBatch`, `IsPriorityLock`, `EveryRequestEnds` | two queries, three batches, a timeout of one tick, two admissions that raise |
| `EmbeddingClient` | `OnlyConfirmedSpace`, `CancelledByCallerOnly`, `ImplementsContract`, `EveryCallReturns` | an ingestion of two sub-batches beside a query, two attempts each, two changes of the service, one more fault |
| `SearchServer` | `ScopeIsKept`, `TopKIsDiverse`, `NoteIsWhole`, `EmptyMeansAbsent`, `AnswersFromPinnedSpace` | one request of each kind, two notes of up to four chunks and one, another tenant, one write, one fault, one change of the service, one relaunch |
| `SchemaApply` | `SuccessMeansProvisioned`, `RerunWritesNothing`, `RevisionIsNeverRewritten`, `EventuallyProvisioned` | two checkouts, two collections with two indexes, two revisions, one fault, one disturbance |
| `Offline` | `NothingLostOrTorn`, `CutsAreForced`, `BreadcrumbsAreTrue`; `EachSettingHasOneVault`; `EveryFileHasOneFate`; `ScrollIsWhole`, `ScrollAdvances`; `NeediestFirst`, `SavedStaysSaved`; `PassMeansMeasured`; `SuiteIsSharp`; `NoteComesBack`, `VerdictsAreTrue`, `IndexComesBack` | bodies of up to five lines of headings and text and up to four of fences and tables; rosters of up to two vaults; trees of up to two files; pages of two points of four; two sessions over three notes; two questions; two notes of up to two points |
| `IngestTailLeft`, `IngestMixedRows`, `IngestLateWrite`, `GoldenAppends` | four statements of comments that the code does not keep (section 11) | one process; two sessions |

**Bounds of the ingestion.** `MaxEdits` counts edits of the vaults; `MaxFaults`
counts failed calls, interrupts, crashes, unreadable files and payloads edited in
the store. Two faults are enough for the sequences that matter: a write whose fate
is unknown followed by a crash, a retry that also fails, an interrupt while a call
fails, a late delete against a note that grew. Two chunks distinguish a prefix
from a tail; version `v0` (no chunks) is the emptied-by-content boundary. Two
locations let a note move and another take its place. Runs themselves are not
bounded: a process that ended starts again. `IngestTrim` treats its two processes
as symmetric: they share a lock file and the run checks safety only.

**Other bounds.** In the service, two queries let one wait while the other is served
or raises, and three batches are one more than the bound on overtaking needs to be
broken. In the client, two sub-batches let one fail while the other waits, calls or
backs off, and two changes let a service be replaced after it was confirmed. The
window of a search is two results times two chunks, the note has four chunks, and
a lookup refuses at three, so each limit is reached and passed. In schema apply a failure
and a disturbance are enough for a half-made collection that another checkout
finds; the distance between two checkouts is what the order of their steps adds.
Five lines make a section over the ceiling with two children and a lead, or one with a
second H1 in its middle and a child after it; a body of four
closes, nests and leaves open a fence. In the scroll, four points and pages of two
give two full pages, and an id no note owns. Deadlock is checked except where a
finite set of calls ends (`EmbeddingClient`, `SearchServer`).

**Fairness** (liveness only).

* `Ingest`: weak fairness of each process's steps (the command is rerun by the
  operator or the timers in `deploy` and `scripts/embedder-service`, and its calls
  return because every one has a deadline) and of the server's handling of writes
  in flight: they land or are dropped. None of edits, faults or signals, and none of a
  choice of flags: a run is `ingest --vault both`, as the timers call it
  (`nightly-ingest.sh:37`, `daytime-ingest.sh:35`), or the same with a confirmed
  `--prune`, and a behaviour may hold runs of the first kind alone.
  `EventuallyConverges` says of every behaviour that from some time on each note on
  disk is in the index as it is there (`NotesConverged`), and of those in which runs
  with `--prune` recur that the points of deleted notes are gone for good
  (`OrphansGone`), both provided the vaults can be scanned. Under the timers alone the
  points of a deleted note stay, listed in every report, until somebody prunes. Points
  whose file exists but is not scanned are left. In `MCIngestHosts` a host that is not
  there never starts.
* `EmbedderService`: each request's thread is scheduled while it can step, and a
  call on the GPU ends. Nothing is assumed of arrivals, raises, time or the
  watchdog. `EveryRequestEnds` holds for a finite set of requests; the code
  accepts, and says, that an endless stream of queries starves the batches.
* `EmbeddingClient`: goroutines are scheduled, and an attempt ends because it has
  a deadline. Not the service: `EveryCallReturns` holds while it stays down.
* `SchemaApply`: the command is run again until it succeeds, as the recovery drill
  does in a loop; each checkout's next step is taken.
* `Operations`: scripts go on, the operator does what they print, the timers fire.

## 10. What is proved

Everything below holds for all values of the constants, under the named
assumptions, which type the constants and keep the model values apart.

**Ingestion** (`IndexAssumption`, `IngestAssumption`; any processes, lock files,
notes, vaults, chunks, bounds).

* `Invariance`: `Spec => []IndInv`.
* From it `TypeCorrectness`, `ReportedNotesExact`, `OneWriter`, `CleanExitCovers`,
  `PruneSafe`, `PruneIsLast`.
* `InsertThenPrune`: the action property `LiveNoteStaysSearchable`.
* `PruneInvariance`: `Spec => []PruneInv`, and from it `PruneIsComplete`:
  `CleanPruneExitLeavesNoOrphan`.
* `ReportInvariance`: `Spec => []ReportInv`, and from it `CleanRunAccounts`:
  `CleanRunAccountsForAll`, of which `CleanPruneExitLeavesNoOrphan` is a part. This is
  the safety that `EventuallyConverges` rests on: what one run of whole vaults that exits 0 has
  established of every uid.
* `IntegralIffExact`: the four-part integrity predicate holds exactly when the
  stored rows are the expected ones.

`IndInv` is the conjunction of the type invariant, `LockInv` and, per process:
`PhaseInv` (what has not begun has left nothing), `PlanInv` (every selected note
is waiting, in flight or has an outcome), `SnapInv` (the snapshot of a note not
reached yet is the index unless somebody outside wrote it), `InsertedInv`
(between a confirmed upsert and the delete all chunks are there), `ScannedInv`
(a note that was not edited is in the scan as it is), `OrphanInv`, and `Exact`.
The safety properties are not inductive by themselves: that a skipped note is
exact needs `SnapInv`, which needs that no other process writes under the same
lock (`LockInv`); that the delete of the tail leaves the note searchable needs
`InsertedInv`. The proof of a step has three parts: the lock files change only
hands they may change; for a process that does not step, what the others, the
server and the editors do is either outside its concern or recorded in `foreign`
and `disturbed`; and for the process that steps, one lemma per action and part of
the invariant. `PruneInv` adds what a prune knows of its candidates: those it
deleted stay without points (or somebody outside wrote them, or the accepted delete
is on its way), and a prune that reports without an error and without an interrupt
has come to the end of its list. `ReportInv` adds what becomes of the uids that have no
note. The two lists of a run, what is to be deleted and what is still on disk, are apart,
name a uid once and only uids without a note, and a run that scanned for orphans misses
none (`ListedOnce`); and until it exits, what is stored under such a uid is what the
snapshot read, unless the prune took it (`KeptInv`). `KeptInv` needs the lists to name a
uid once: a candidate that stood on both would be deleted and reported as kept.

**Embedder service** (`ServiceAssumption`; any number of requests).
`ServiceInvariance`, and from it `GpuExclusion`, `WaitingCount`,
`WakeupsAreNotLost` and `QueryBound`; and the refinement `ServiceIsPriorityLock`. The
invariant is the conjunction of the type
invariant, those four properties and `DownIsEmpty` (a process that ended holds no
request). They carry each other: a batch is admitted only when the count is zero,
the count is exact, so no query is registered and `behind` does not grow; a query
that leaves by an exception wakes the batches that deferred to it, or the wake-up
would be lost. For the refinement the guards carry over: the lock is free exactly when
the flag is down (`GpuIsExclusive`) and nobody is ahead exactly when the count is zero
(`WaitingCountIsExact`); a wake-up, and a batch that parks, are steps `PriorityLock` does
not see. The run checks the lock itself, which implies that one request holds it, and leaves
`GpuIsExclusive`, which adds the flag, to the theorem.

**Embedding client** (`ClientAssumption`; any calls, sub-batches, attempts,
configurations). `ClientInvariance`, and from it `ConfirmedSpaceOnly`,
`ZeroVectorsStayInside` and `CancellationIsTheCallers`; and the refinement
`ClientImplementsContract`. The invariant says, per call, that a sub-batch that is
done has written its vectors or left an error, that what was written is backed by
the latch, and that an error which says "cancelled" has an ended context behind it;
and that until the service is replaced the one that answers is the one that was
confirmed. With it every step maps to a step of `AtomicEmbedding` or to none: only
`Join` answers, and only when each share of the slice is filled.

**Schema apply** (`SchemaAssumption`; any checkouts, collections, indexes,
revisions). `ApplyInvariance`, and from it `SuccessIsComplete` and the action
properties `RevisionsAreKept` and `RerunsWriteNothing`. The invariant says of an
apply under way that what it read is still on record or was lost, and, while
nothing is disturbed, that each collection behind it is complete and that Qdrant
still has the indexes it saw: other checkouts only add.

**Paged reads** (`ScrollAssumption`; any ids, filters, page size, writers and kind
of server). `ScrollInvariance`, `ScrollsAreWhole`, `ScrollsAdvance`. The invariant: a read has
everything below its offset that was there all along and nothing from the offset
on. That a page is a prefix of what is ahead is proved by cardinality.

**Searches** (`RetrievalAssumption`, `ServerAssumption`, `RequestAssumption`,
`IndexAssumption`; any requests, arguments, tenants, payloads, limits, collections,
writes and changes of the service). `Invariant` and `TypeCorrect`, and from the
invariant `AnswersKeepTheirScope`, `AnswersAreDiverse`, `NotesAreWhole`,
`EmptyAnswersAreTrue` and `SpaceIsPinned`. The assumptions say that the three kinds of
request are disjoint, that a facet is not called `tenant` or `uid`, and that two points
of one tenant, uid and chunk are one point (their key is computed from these). `Inv`
says of each request what its step may rely on: `QueryInv` (what is asked was
validated and, through the server, is of its tenant), `ReadInv` (before the query
nothing was read, a probe follows a read that held nothing), `SpaceInv` (which model
the query was embedded with) and `AnswerInv` (an answer follows from what was read).
`ServiceInv` is what makes `SpaceInv` inductive: a client that confirmed the pinned
model meets another one only if the service was replaced behind its back. The lemmas
on `Retrieval` are about every ranking: the window, cut to `MaxPerUid` per note and to
`topK`, holds the best of every note that has a place; a lookup that is not refused
has all chunks of the note, by counting them.

**Chunker** (`ChunkerAssumption`: lines have tokens, floor and ceiling are integers;
any notes over any lines, any floor and ceiling). `NotesAreChunkedWhole`,
`CutsHaveCause`, `BreadcrumbsHold`. A chunked note is `ChunkNote` of it; the work is in
what that computes. The scan of the fences keeps: those closed are apart and closed
at their first closing line, and every delimiter read is inside one, or in the one that is
open (`FencesSoFar`). A heading outside of every unit never
cuts one, so sections partition the lines, children partition their section, and no
piece begins inside a unit. The merge keeps `Merged`: a chunk begins where a piece
begins and ends where one ends (`Placed`), chunks are in order (`InOrder`) and cover
the pieces read (`Covered`), one over the ceiling is a piece as it was (`Sized`), its
names stand over all its lines, as `StandsOver` has it (`Titled`), and what is small is followed by a piece that
would have put it over (`Forced`).

**Vault settings** (`ConfigurationAssumption`: a name has words, one separator and a
case; a name of one word has one spelling of the separator; any names and
installations). `SettingsAreHeeded`: `EachSettingHasOneVault`. What was loaded is `Load`
of the installation there is. That a variable of one vault is not one of another is by
its last word, which tells the setting, and by the names `ValidateSlug` accepts, which
are spelled one way: two names that make one variable cannot both be used by a command.
A setting of a vault that left the roster is found because `Load` compares every variable
with those of every vault of the roster.

**Vault scan** (`VaultAssumption`: paths and names are strings, and what is wrong with
a text is one of the `Checks`; any vaults, trees, commits and exclusions).
`ScansAreWhole`: `EveryFileHasOneFate`. The invariant says that each scan is `ScanVault`
of what was found and that no run goes on over a scan that failed; the work is in what
`ScanVault` computes. After k files of the walk (`SoFar`) the notes are those of the files
before k that are kept, with a uid each, the failures are as many as the offenders and
name their paths, and what is neither is in the list of the skipped. The map of the dates
is proved by the same recursion over the commits.

**Evaluation** (`EvalAssumption`). `EvalInvariance`, `PassesAreMeasured`. The
invariant: no ranking is asked more than the set, and a verdict waits for the last
answer (`AsksTheSet`); a whole document holds two rankings that may be compared and the
winner they make (`DocumentRanks`). That hits, misses and errors are together the
answers is proved by cardinality.

**Golden sets** (`GoldenAssumption`; any sessions, notes, areas, minima and maxima).
`GoldenInvariance`, `SavedQuestionsStay`, `SessionsGoInTurn`. The invariant: what a
session knows is in the file (`KnownIsSaved`); from the draw to the write, what the
draw saw of the session's own set is still so, whatever others save meanwhile
(`DrawsStand`); and what it added is in the areas whose turn it was (`InTurn`).

**Drills** (`OperationsAssumption`). `OpsInvariance`, `DrilledNoteComesBack`,
`DrillVerdictsAreTrue`. The invariant: a parked note belongs to a step that puts it
back, or to a move back that failed (`StashHeld`; a parking move that is cut ends the
drill with nothing parked); a drill that ended without a kill or a failed move left the
note as it was counted, if nobody edited it (`BackWhole`); while one runs, each note has the
points that were counted or none, and those of the drilled note are back only after its
file is (`PruneCalm`, `RecoverCalm`). A drill compares counts; that equal counts mean
the same index is proved from each note having no more points than before, by counting places.

**Induction over data.** The library's induction theorems take an operator as a
parameter and cannot be instantiated. `DataLemmas` does without: `LeastNat` says a
nonempty set of numbers has a least one (from the well-foundedness of `<`, which
is stated for sets); a set of numbers with 0 that is closed under the successor up
to n has all of them (`UpTo`); by that a function exists for every table of steps
(`Recursion`), and a recursive definition is the function it describes
(`Unrolled`). The proofs about the scans, the token sums and the merge of the chunker,
about the walk over a vault and the dates of its commits, and about the passes over the
answers of a query, rest on these.

**Only model-checked**, and why:

* `SuiteIsSharp`: the builds of the suite are a finite set that TLC goes through whole,
  so a proof would say no more.
* Liveness (`EventuallyConverges`, `EveryRequestEnds`, `EveryCallReturns`,
  `EventuallyProvisioned`, `IndexComesBack`): outside the prover's reach.

## 11. Where the code and its comments part

With a run that shows it:

* `IngestTailLeft`: `DeleteByFilter` (`points.go:119`) discards the answer's
  status, so a delete that is only acknowledged counts as done and the note ends
  as `pruned` with its tail still stored, while `state.go:30` defines that state
  as "written, confirmed, tail removed". The next run repairs it.
* `IngestMixedRows`: a candidate's file is the one named by the first record the
  store returns (`orphans.go:77`). After a partial write of a moved note two
  records of one uid name two files, and the candidate can be pruned with a file
  of its own on disk, excluded from the scan; `ingest_modes.go:100` says every
  candidate whose file is on disk leaves the list.
* `IngestLateWrite`: a write of an earlier run lands after the snapshot was
  taken, with no second process; `prefetch.go:74-75` counts on the lock for that.
  The next run repairs it, as `IngestConverges` shows.
* `GoldenAppends`: two sessions that read a golden set without a `questions:` key
  both append the key, and the file no longer reads; `authoring.go:51-53` says
  concurrent appends are safe by construction.

Met while modelling, without a run of their own:

* Chunker: a section ends at the next H2 and its breadcrumb is that of its first line
  (`sections.go:66-71`); text and H3s after a second H1 within it keep the first, while
  `sections.go:100-101` says that a second H1 has everything after it filed under it. A
  preamble is likewise named by its first H1 throughout. `StandsOver` says how far a name
  reaches there, so that `BreadcrumbsAreTrue` holds of what the code does.
* Prune drill: the trap is armed before the move that parks the note
  (`prune-drill.sh:217-218`) and moves back whatever is at the stash (142). With the
  state directory on another filesystem than the vault the move is a copy; cut in it, it
  leaves the note whole and part of it at the stash, which then replaces the note
  (`ParkTorn`), although `README.md:403` of the repository says the trap gives the note
  back at any exit. `NoteComesBack` excepts moves that fail.
* Embedder service: the watchdog tests the clock (`server.py:113-114`) and then
  calls `shutdown()` (118) without a look at the requests in flight; one that
  arrives in between is cut, although line 99 speaks of `timeout` seconds with no
  request.
* `cmd/cli/schema.go:38-40` says the command fails without writing when recorded
  and pinned revision disagree; the check is made per collection (`apply.go:125`),
  so the collections before the one that disagrees may have been created.
* `recovery-drill.sh:12-15` says the preflight confirms that the rebuild is
  possible; it does not look at the recorded revision, and after a bump the
  rebuild waits in vain over a removed volume. `IndexComesBack` excepts that case.
* The prune drill goes on when its move back fails (step 6) and takes the trap off
  first; its trap moves the stash over a file that was created meanwhile. Both
  drills compare counts only.
* `config.go` (comment of `Load`) says names that are not slugs are refused there;
  `loadVaults` says, and does, otherwise: `RequireVaults` refuses them.
* A golden entry cut inside its last field still parses, as a shorter question.
* The window of a search is `topK * maxPerUID`: with more matching chunks of one
  note than that, an answer is shorter than it need be. `TopKIsDiverse` is stated
  for what fits the window.
* `scrollPageDone` refuses the offset that was just used; a server that alternates
  between two is not noticed.
* `eval --compare-modes` does not read `--min-recall`; a cancellation during the
  last question of `RunGolden` is an errored question, not a cancelled run.
* `cmd/cli/main.go:137-140` still says the gates are not built. `SaveBaseline`,
  `LoadBaseline` and `CompareToBaseline` have no caller.
* A dot-named `.md` file is scanned (a dot-named folder is not).
* The isolation suite cannot see a filter that is defective in one collection
  only, if no case asks that collection.

## 12. Not modelled, and why

* The scalar settings of `internal/config`, flag parsing, and printing: no state.
* The tokenizer's HTTP client, dialling, and the translation into gRPC messages:
  a call that answers or fails, which is how the models use them.
* `internal/measure`, `cmd/measure-*`, corpus search, baselines, provenance from
  git, confidence intervals: arithmetic and reports.
* The isolation cases that read source code (`cases_mcp.go`,
  `cases_architecture.go`): syntax, not behaviour.
* Deployment files, backups and the compose stack around the drills.
* Scores, tokens of real text, YAML syntax, message texts and layout.
