# A TLA+ verification of prometheus-knowledge

This directory models the parts of prometheus-knowledge (the Rust workspace
under `src/`) that keep durable state while several processes, crashes and
unreliable requests are at work, checks them with TLC on small instances, and
proves the most important properties with TLAPS for every instance.
`PROJECT.json` lists runs, mutants, the map from definitions to source lines,
findings, hazards and theorems. Paths below are relative to `src/`.

## 1. Inventory

The workspace is a set of command-line programs and one server that share
directories. Nothing coordinates them except atomic renames and two lock files
(`worker.lock`, `wiki/.index.lock`).

| Component (code) | State | Operations | Hard behaviour | What makes it correct |
|---|---|---|---|---|
| Memory delivery: `pk-learning-worker/src/main.rs` | one JSON record per operation in `memory/{pending,submitting,accepted,completed,rejected,stalled,retry}`, manifests, `status.json`, `worker.lock` | recover, migrate, enqueue, reconcile (lookup, submit, apply receipt, settle), quarantine, release | crashes between two file operations, lost and late requests, records queued twice, three listings of moving files, operator commands | no operation lost; directory never ahead of the ledger; terminal records final; no resubmission of what is acknowledged; delivery |
| Learning jobs: same file | `queue/{pending,processing,completed,rejected,retry}`, failure records, learning log | hook publishes, claim, `process_job` (page, index, log, snapshot, learning log, operation), complete, reject, recover | a crash between any two effects, failing file operations, midnight, repeated events | completed means all effects; none twice; a job always has a file |
| Prompt snapshots: `pk-store/src/prompt_snapshot.rs` | generation files, `current` pointer | commit (five processes), read | commits and reads without a lock, torn files, stale commits | pointer names a whole generation; generations immutable |
| Candidates: `pk-cli/src/candidates.rs`, `promotion.rs`, `skill_candidates.rs` | `{pending,accepted,rejected}` | propose (worker), accept, reject (people) | check-then-act across processes without a lock; effects before the decision is durable | accepted means effects; a decision is not undone; evidence arrives |
| Markdown store: `pk-store/src/store.rs` | `entries`, text index, `source_hashes`, `content_hash_index` under one lock; files under `wiki/` | open, reconcile_from_disk, upsert, delete, find_by_content_hash | files read and written outside the lock; other processes write the same tree | memory and disk agree when all is quiet; indexes agree with entries |
| Ingest: `pk-librarian/src/librarian.rs`, `pk-store/src/dedup.rs` | tasks in flight | compile_with | state read before the model's answer and used after it | one page per content |
| pk-cherry: `pk-cherry/src/main.rs`, `pk-watcher/src/lib.rs`, `pk-mcp/src/server.rs` | watcher channels, readiness | start, reconcile on change, publish, serve `/mcp`, `/events`, `/ready` | events during a scan, before the watch begins, dropped and coalesced; failures that must not be forgotten | no lost wake-up; `ready` means what is served is what is on disk |
| Inbox watcher: `pk-watcher/src/lib.rs` | channels of paths and of documents | each create or modify event becomes a compile | several events for one file, half-written files, full channels | the last content of a file is compiled |
| Wiki index and log: `pk-store/src/store.rs`, `bundle.rs` | `index.md`, `log.md`, `.index.lock` | regenerate_index, append_log | rebuilds by several processes, crashes, requests dropped while a thread renames | every page listed; no line lost; the lock comes round |
| Lint and repair: `pk-cli/src/main.rs`, `pk-librarian/src/librarian.rs`, `pk-store/src/store.rs`, `markdown.rs` | the reports of a run | lint_with_options, auto_fix, strict check | reports come from files, repairs from memory; a batch that fails; pages edited meanwhile | strict means conforming; nothing unreported is rewritten |
| Recall: `pk context`, `pk doctor`, `pk ingest`, `pk snapshot` in `pk-cli/src/main.rs` | knowledge roots, one snapshot per root and label | resolve root and label, publish, read, rank, drop duplicates, diagnose | writer and reader choose root and label in code of their own | what is written is recalled from the same place; one copy of each; doctor agrees |
| Promotion and skill detection: `promotion.rs`, `skill_candidates.rs`, `transcript.rs` | `lessons.jsonl`, `workflows.jsonl`, pending files, `pending.log` | append, cluster, propose, log updates | torn last line, records only in memory until appended, clusters rebuilt from a growing index | what is observed is indexed; one candidate per cluster; evidence grows |
| Receipt clock: `main.rs` `observe_receipt` | times and poll counters in each accepted record | observe, poll deferred?, stale? | clock arithmetic, saturation, restart | backoff bounded and reset by progress |
| Event store: `pk-event-store` | SurrealDB or JSONL | append, list, migrate | fallback between two stores, repeated migration | no event lost or doubled |
| `pk focus` cache: `pk-cli/src/main.rs` | one file per topic and size | answer, read back | never invalidated | - |
| Text index, Markdown layout, LLM client, router, prompts, parsers, `pk-uar`, `pk-core`, other `pk` commands | none of their own that outlives a call | - | text processing | - |
| Memory server, stop hooks | outside this repository | record, advance, decide; publish a job | answers lost, late, repeated | modelled from how the code uses them |

Interactions. Hooks publish jobs by rename. The worker turns jobs into wiki
pages, snapshots, log lines and memory operations, proposes candidates, and
talks to the memory server. People decide candidates with `pk`; accepting one
writes to the shared wiki, a snapshot, and the worker's queue. `pk-cherry`
ingests through the librarian and store and follows changes other programs make
under `wiki/`. `pk context` reads only snapshots.

## 2. Modules

| Module | Models | Checked by |
|---|---|---|
| `MemoryQueue` | memory delivery, with the ledger, its requests, the operator's commands and concurrent `pk candidates accept` | `queue_refines`, `queue_accept` |
| `DeliveryContract` | what delivery promises, without files: absent, queued, held, parked, completed, rejected | - |
| `MemoryQueueRefinement` | the mapping from the first to the second | `queue_refines` |
| `JobQueue` | learning jobs and their effects | `jobs_run` |
| `PromptSnapshot` | commit and read of one scope | `snapshot_race` |
| `Candidates` | proposing and deciding | `candidates_decide` |
| `LearningIndex` | what the worker makes of the jobs it completes: both indexes, their clusters and candidates | `lessons_run`, `lessons_torn` |
| `KnowledgeStore` | the server's store, its compiles, its reconciling task, and other writers of `wiki/` | `store_run` |
| `WikiIndex` | `index.md` and `log.md`, written by several processes | `index_run` |
| `Bridge` | the server around its store: watcher, reconciling task, readiness, inbox | `bridge_run` |
| `Recall` | roots, labels and snapshots: what is written where, and what `pk context` and `pk doctor` make of it | `recall_run` |
| `Lint` | `pk lint`: open, check, repair, check again | `lint_run` |
| `Ranking` | sorting by an order without ties, as `LearningIndex` and `Recall` use it | with them |
| `MemoryQueueProofs`, `JobQueueProofs`, `CandidatesProofs`, `KnowledgeStoreProofs`, `WikiIndexProofs`, `LintProofs` | theorems of the module each is named after | TLAPS |
| `ServingProofs` | theorems of `PromptSnapshot` and `Bridge` | TLAPS |
| `LearningRecallProofs` | theorems of `LearningIndex` and `Recall` | TLAPS |

The modules meet where one takes for one step what another takes apart: `JobQueue`
calls the queueing of an operation and the commit of a snapshot one step each
(`MemoryQueue`, `PromptSnapshot`), `Candidates` treats the detector's clusters as
given (`LearningIndex` has them) and `LearningIndex` the decision as one step,
`Bridge` a scan and an upsert (`KnowledgeStore`), `Recall` a commit
(`PromptSnapshot`), `Lint` the contents of `index.md` (`WikiIndex`).

Operators that a comment calls a mutant are plausible bugs of the definition
that follows them. They are used nowhere in a specification; each is put in the
place of its definition to see that a property notices.

### MemoryQueue

`file[d][o]` is the record of operation `o` in directory `d`: its state, its
last receipt and whether a backoff is running. `w` is the memory of the running
worker (its place, the names listed, the record in hand, the server's answer).
Each action is one step between two points at which a crash or another process
can be seen: a listing, a rename, the rewriting of a record (`atomic_json`
writes a temporary file and renames it), a request sent, an answer received.
`CrashWorker` and `CrashCommand` fall between any two. Requests are kept in
`posts` until the server records them, which may be after the client has given
up. `acc` holds `accept` processes inside `queue_memory`, which looks through
the directories one at a time and takes no lock (`dead-letter`, where nothing puts a
record, is left out).

Simplifications. A file error inside a reconciliation other than an unreadable
record ends the run as a crash would. The rename and the rewrite of a migrated
`retry` record are one step. When a poll is due is a Boolean (`hold`) that time
clears, and the operations a command treats as stale are any subset. Contents
of records are abstracted to what decides their path.

### JobQueue

`queue[d]` is the set of jobs with a file in `d`, `w` the run. The effects of
`process_job` are one action each, in its order, and each is guarded by the
test the code makes (does the page exist, does today's log name the job, is the
operation in pending or completed). `OperationFails` makes any file operation
fail; `WriteFailure` and `RejectJob` are the two steps of a rejection. A page
cut short by a crash is `torn` if what is there parses, and is then taken as it
is; one that does not parse counts as none, since the recovered job's scan
leaves it out and the job writes it again. The line of the learning log is one step: a
crash in the middle of it leaves what a crash just before or just after it does, as the
search goes by the event id alone. Whether the line is complete is not modelled, nor is
more than one knowledge root. An error inside `reject_job` ends the run like a crash.

### PromptSnapshot

A view (set of pages) stands for the entries of a snapshot and, since the
generation's name is the hash of its entries, for the generation. `OpenStore`
scans, `Upsert` adds a page, `Probe`, `Create`, `WriteGeneration` and `Publish`
are the steps of `commit`; `ReadPointer` and `ReadGeneration` those of `read`.
`Fail` is a crash or a failed write at any place.

### Candidates

The worker's pass over clusters (`propose`, `CheckDecided` for `accepted` then
`rejected`, `Look`, `Read`, `Write`) and the commands (`Share`,
`LookForOperation`, `QueueOperation`, `Rewrite`, `Decide`) interleave step by
step. `lessons` is the index of lessons the pass reads. The run uses one
promotion, because everything is per candidate; skill candidates have the same
steps without effects, so the run gives `Skill` no members.

`mem[c]` is the set of directories of the memory queue that have a record of `c`'s
operation. `LookForOperation` is one `exists()` call of `queue_memory`, in the order of
`MemoryStates`, and between two of them the worker and the operator move the record under
a lock the command does not take: `Deliver` takes it onward (`Onward`: to the server, to
its end, or aside), `TakeBack` the other way (`Backward`: a release, or a submission of a
record that already lay in `accepted`). `overtaken` notes that a record went back to a
directory the search had left. The moves are those `MemoryQueue` takes apart; `retry`
and `dead-letter`, which the code looks in too, never hold the operation of a candidate.

### KnowledgeStore

`disk` and `mem` map ids to pages; a page carries its content hash, its
revision and a stamp that stands for its bytes. `loop` is the server's task
(`open`, `unwatched` until the watcher's thread has called `watch`, `wait`,
`scan`, `publish`) with the files its scan has read so far. Truncating and
filling a file are two steps, for upserts and for other processes. `task[t]` is
a compile: it reads related entries and asks the model, then takes the id of
the same content hash, of a near duplicate, or of the model's title, then
upserts memory, then writes the file. `dirty` says that a change waits in the
watcher's channel: the loop drains it, so how many wait makes no difference.

Simplifications. Near duplicates are any entry that was there when the compile
began. A hash found on several pages maps to any of them. A file that vanishes
between listing and reading counts as absent rather than as a failure. A torn
page does not parse. Outside writers give a page no content hash or keep the
one it had; `pk ingest` in another process, which stamps new ones, is left out.
The publication of a snapshot is one step (`PromptSnapshot` has its details),
and so is a crash with everything the server held in memory. `delete` and
`okf_autofix_type` are not called by the server.

### WikiIndex

`disk[p]` is the file of page `p` (absent, torn, or the id and text it declares),
`index` the set of entry lines, `log` the sequence of lines, `lock` who has
`.index.lock`, `job[w]` the place of process `w` between writing its page
(`BeginEntry`, `BeginFix`, `FillPage`), rebuilding the index (`LockIndex`,
`ReadPage` per file, `PrepareIndex`, `ReplaceIndex`) and logging (`LockLog`,
`PrepareLog`, `ReplaceLog`). `RenderIndex` is `render_index_preserving`: a line of
a page that does not parse, or that failed to be read, is kept from the old index
and one line per target remains. A request whose client goes away (`Drop`) frees
the lock although the blocking thread it started goes on to rename.

Simplifications. A page's title, description and section are one number, the run
that wrote it. A `lint --fix` whose write fails goes on to its next page, and rebuilds the
index if it has written one (`fixed`); if it has not, going on is the same as another
`BeginFix`. `log.md` is a sequence of dated lines, `append_log` a rendering of
the whole file. A write of a temporary file that fails is a failure of its rename.

### Bridge

`mem`, `source` and `published` are the entries, source hashes and last snapshot
(a version per page). The watcher's thread is `StartWatching`, `SayStarted`,
`PassOn` over `raised` and the bounded channel `wikiEvents`; the reconciling task is
`Receive`, `Drain`, `Reconcile` or `ReconcileTorn` or `ReconcileFails`, then
`PublishSnapshot` or `PublishFails`, with the readiness each of them sets. The inbox is
`PassPath`, `ReadRaw`, `SendDoc`, `StartCompile` and the compile that ends in
`Compile` or `CompileFails`. `Overflow` is a notification the kernel drops,
`WatcherErrs` one it reports as an error.

Simplifications. A scan is one step, and so is an upsert (the notifications it
raises are not). The debounce is the place `debounce` of the task: any event may
arrive in it. A compile names any page. The two watchers have threads of their own;
only the wiki one can fail, since the code ignores what the inbox one reports.

### LearningIndex

`file[x]` is an index as a sequence of lines (a record, garbled text, or bytes that
end the reading), `ended[x]` whether it ends with a newline. A pass completes jobs
(`CompleteJob` puts what they showed into memory), reads one index, appends what is
new line by line, clusters the whole index and writes candidates, then does the same
for the other index; updates of skills are logged once a day. `Clusters` is the
greedy grouping of `cluster_observations` in the order of time and id, with the
anchor a cluster is named after; `WorthSharing`, `WorthASkill` and `Updates` are the
thresholds. `SafeNames` keeps the skills that `log_update_proposal` logs: it passes over a
name with a space or another character that `normalize_skill` lets through. A crash falls
between any two steps, and `CutLine` in the middle of a
line.

Simplifications. Whether two lessons are alike is decided by the sets of tags and
shingles given with them, in per cent as the code does; finding lessons in a text and
digesting a transcript is outside. A pending file is its id and evidence. Time is what `Before` orders: the
pass a record was appended in, then its id.

### Recall

`wiki[r]` is what a scan of root `r` finds, `snapshot[r][s]` the snapshot of `r`
under label `s`. `ResolveKb` and `RootForScope` are the two functions that choose a
root, one for writers and one for readers. `Ingest`, `CompleteJob`, `Accept`, `Serve`
and `Snapshot` write and publish, `Break` and `Repair` stand for pages that stop or
start to parse. `ContextCandidates`, `Kept` and `Context` are the ranking, the dropping of
duplicates in one pass over the ranked list, and the budget; `DoctorPasses` the
checks of `pk doctor` about snapshots and roots. A ranking is `Ranked` of the set of
candidates: the sort of the code on an order in which no two are equal.

Simplifications. `Hits[q][t]`, the weighed terms of a query found in a text, is a
constant; the bonus of a scope and ties are as in the code. A text is what an entry says,
tags and description included; `Body` is its title and content alone, by which duplicates
are told. `Offered` bounds the entries there are to write. Commits are whole.

### Lint

`files` and `mem` are the pages on disk and the entries in memory, `lint` the run
(open, structural check, batches of the model, repairs in the order of the reports,
strict check), `reports` its list. Repairs go by memory: `Repair` gives the entry that
the report's path names a type if it has none, and otherwise asks the model for another
body (`Rewritten`, `ModelFails`). A write is truncate and fill. Other processes write or remove pages at any step.

Simplifications. A page is whether it parses, the id it declares, whether it has a
type and a description, and a body that decides its links. What is wrong with the
structure of `index.md` and of `log.md` is one Boolean each. The model's answer about a
batch is nothing or one report about any page.

## 3. Runs

| Run | Instance | What it shows |
|---|---|---|
| `queue_refines` | one operation from a job, also left in `retry`, queued twice more, and one unreadable record in any of four directories; 2 crashes, 2 commands | directories agree with ledger and receipts, a run counts an operation once, no rename replaces evidence, no resubmission of what has a receipt, `memoryDelivered` as the README defines it, `DeliveryContract` implemented |
| `queue_accept` | one operation, two `accept` processes, worker, 1 crash, 1 command | no operation is ever without a record; delivery under `FairSpec` |
| `jobs_run` | two jobs (one unreadable), each published up to twice and also in `retry`, 2 crashes, 1 failed file operation, 2 days | completed means every effect, no line and no operation twice, no job lost, `Settles` under `FairSpec` |
| `snapshot_race` | two committers, one reader, two pages, 3 commits, 1 failure | the pointer is findable, and whole unless something failed |
| `candidates_decide` | one promotion, two lessons, two commands by two people or by one who starts again, 1 crash, its operation moved by worker and operator as often as they like | accepted means effects, one operation unless it goes back behind a search, decisions stand, evidence arrives under `FairSpec` |
| `store_run` | two ids, two contents, two compiles; up to 2 ingests, 2 outside changes, 1 failure, 4 in all | content-hash index sound, one page per content where the code can promise it, no lost wake-up |
| `index_run` | two pages, two writers one of which is a request, 2 pages written, 2 troubles (crash, drop, failed write, outside change), 2 days | a listed page stays listed, the index is right when all is quiet, no log line lost or doubled, the lock comes round under `FairSpec` |
| `bridge_run` | two pages, one raw file, channels of capacity 1, 3 events, 1 version of the raw file | `ready` is never said of a stale store, store and snapshot catch up, the last content dropped is compiled, under `FairSpec` |
| `lessons_run` | three jobs whose lessons and workflows `MCLearningIndex` gives, 3 passes, 1 trouble, 1 decision, 2 days | what completed jobs showed is indexed or known lost, one candidate per cluster, evidence only grows, updates are logged once a day, those with a safe name |
| `lessons_torn` | the same | expected violation: section 6 |
| `recall_run` | two ids, three texts of which two differ in tags only, every place a command may run in, a server, 3 writes, 1 broken page | what is written is recalled from the same place, duplicates keep one copy, doctor agrees with context |
| `lint_run` | two pages, four kinds of file, batch sizes 0 and 2, 1 run, 1 outside write, 1 fault, 2 in all | strict success means conforming pages, reports are complete although batches fail, only what is reported is rewritten |

Bounds. `MaxCrash`, `MaxCommand`, `MaxEnqueue`, `MaxPublish`, `MaxFail`, `MaxRun`,
`MaxIngest`, `MaxOutside`, `MaxFault`, `MaxEvents`, `MaxEvent`, `MaxDrop`, `MaxTrouble`,
`MaxPass`, `MaxDecision`, `MaxWrite`, `MaxBreak` and `LastDay` limit only how often the
environment acts; the programs are never limited. One operation or page suffices where
the code treats names independently; two are used where an order of names, a listing
or a collision matters. Two crashes cover a crash during the recovery from a crash;
two publications cover republication of a finished job; two overlapping processes
cover every check-then-act pair in the code. Channels of capacity 1 are full as soon
as anything waits, which the code's 32 and 64 are only after a burst. Three passes let
a pass see an index that two others wrote. For the wider instances below the runs
would take too long to repeat at each change; the same properties were found to hold
of them: `JobQueue` with two good jobs and one crash (749 thousand states) or three
jobs, one publication and one crash (307 thousand), `KnowledgeStore` with one compile,
three ingests, an outside change and a crash (1.4 million).

Deadlock is checked except where everybody may have finished: the snapshot, store,
bridge, learning-index and lint modules.

### Fairness

`MemoryQueue`: the worker is started again and again by its scheduler and runs
when started (weak fairness of `Begin` and of its steps, and of a command's
steps); a request repeated for ever is answered some time, so a lookup, an
answer and the recording of a submission get strong fairness, since the code
retries in every run but each single attempt may fail; the server decides what
it has recorded; time passes. Operators and accept processes are never obliged
to act. `JobQueue`: starts and steps of the worker only; `Candidates`: the
worker's and a started command's steps; `WikiIndex`: the steps of a process that is not
killed, among them taking a lock that stays free (nobody takes it for ever, since
`MaxRun` bounds the pages written); `Bridge`: the runtime polls a task that can go on, and threads run.
Its `Compile` has no fairness of its own: a compile may hang as long as it likes. No
fairness is assumed of crashes, failures, publication, or of anybody who writes files
from outside.

## 4. Proofs

All proofs hold for arbitrary sets and bounds under the named assumptions on the
constants (`MemoryQueueAssumption`, `JobQueueAssumption`, `PromptSnapshotAssumption`,
`CandidatesAssumption`, `KnowledgeStoreAssumption`, `WikiIndexAssumption`,
`BridgeAssumption`, `LearningIndexAssumption`, `RecallAssumption`, `LintAssumption`),
which TLC evaluates in every run of the module. What they say beyond the kinds of the
constants is what the code makes true: there are finitely many pages; the observations of a
job are a sequence; the name of a skill ends with itself; the ids of lessons and of
workflows, hashes of different things, differ; some query has no term. No recursive
operator is declared anywhere. Every invariant and every safety action property that a
run checks is stated by a theorem.

* `MemoryQueueProofs!TypeCorrect`. `TypeOK` is inductive; it is split into the
  part about files and the rest, so that each action is proved once for each.
* `MemoryQueueProofs`, what directories claim. `LedgerAgreement` is not inductive by itself: a record
  settles into `completed` because of the receipt in the worker's hand, which
  was read from the ledger one or more steps before. `EvidenceInv` adds that
  the answer in hand is the ledger's word if it is final (`ReplyAgrees`; a
  final state of the ledger does not change), that the worker has at most one
  record in hand (`OneInHand`), and that the ledger knows, and a manifest
  lists, every operation a command has taken (`CommandKnown`), from which
  `ParkedIsListed` follows too. `KeepsEveryOperation` and `TerminalIsFinal` are
  action properties. They need `PresenceInv`: worker and commands exclude each
  other, and a file about to be renamed is still there.
* `MemoryQueueProofs`, what a run does. `ReceiptStopsSubmission` follows from `SubmissionInv`: a
  receipt in any record means that the ledger knows the operation, so what the ledger
  did not know when it was looked up has none, and only `ApplyReceipt` gives a first
  one. `CountedOnce` rests on `CountInv`: whatever a run has counted it has seen and let
  go, and it takes nothing in hand that it has seen. `RenamesReplaceNothing` needs
  `VisitInv`, an argument about the order of the pass: since recovery leaves only
  records in state `submitting` in `submitting`, and that directory is listed first,
  whatever is there has been seen or is still listed, so a record taken from `pending`
  finds its place free; and `CommandInv` for the two commands. `ReceiptMatchesDirectory`
  adds `BookInv`, which says of every record what its directory demands of it
  (`RecordsSound`), and of run and command that what they hold is where they think it is.
* `MemoryQueueProofs!Implements`. The refinement: `Place` is a function of the
  directories that have a record, so each step is shown to change the directories of
  one operation only (`WriteOne`, `MoveOne`, `RenameOne`, `SetAsideOne`), and the move of
  its place to be one the contract allows given the ledger's word (`OwnMoves`).
  `RecordsSound` is what makes release lead from `stalled` back to `accepted`, and
  `PostsKnown` that the server records only what is queued.
* `MemoryQueueProofs!DeliveredIsMoved`. A settled receipt counts as delivered if it leads
  to another local state than the record showed when it was taken in hand. That this
  moves a file needs `MarkInv`: a record in `accepted` shows no other state than
  `accepted`, unless `apply_receipt` died after writing a decision the ledger keeps
  (`Marked`); so a receipt that leads to `accepted` is never counted for a record that
  was there. It holds through `ReleaseMark`, which writes the state before the rename.
* `JobQueueProofs`. `Stages` says that an effect of `process_job` is begun only when the
  ones before it are durable, `Hand` which job is in hand and where its file is, `Waiting`
  that, as long as nothing failed, a job whose operation waits and that is not completed
  is still to be run, so that no run overlaps the operation on its way. From them
  `CompletedMeansDone`, `LearnedOncePerDay`, `JobKept` and `EnqueuedOnce`.
* `ServingProofs`, snapshots. The invariant adds to `Findable` that a process
  that is writing or publishing has its generation file in existence, and that a
  torn file, as long as nothing failed, has a writer.
* `ServingProofs!ReadyMeansServed`. `CaughtUp` is the argument of a wake-up that is not
  lost: unless a change was announced to nobody (`forgotten`) or a page does not parse,
  readiness shows a failure, or a change is on its way to the task (`Announced`: in the
  callback, the channel, the debounce, the scan), or the task is about to publish with a
  true report (`Reported`), or what is served is what is on disk unless the report says
  otherwise (`Serving`). What makes a report true is `CountsTell`: a scan that counts as
  many entries as files has no entry left over, and, since no version of a page comes
  back (`Versions`), a page with the bytes of the last scan is in memory as it is.
* `CandidatesProofs`. `EffectsInv` follows a command through its steps: a promotion on its
  way to acceptance has its shared entry, and past the queue its operation. `Alone`: while
  a command is the only one under way the others have not begun, so what it saw still
  holds. What keeps its search honest while records move is `Searched`: a directory it has
  left has no record, since every onward move leads to a directory later in the order of
  the search (`OnwardIsLater`) and a move back is noted (`overtaken`). `Unsettled`: the worker gets no further than its two checks with a
  candidate that   was decided when it took it up.
* `KnowledgeStoreProofs`. `HashIndexSound` is preserved by an upsert because
  the only hash that named the replaced entry is the one the entry carries
  (soundness before the step), and that one is removed; and by a swap because
  the index is rebuilt from the same scan. `TornKeepsEntry` is an action
  property: of all steps only `Swap` can take an entry away from a running
  server, and it does so only with a scan in which every page parsed.
  `ServesDisk` needs `ServeInv`: unless an event waits, a change was missed or a page was
  torn, what the last scan read is what is on disk (`ReadInv`); memory has what that scan
  swapped in, except where an upsert is on its way (`MemInv`); the last published scan has
  what memory has (`PublishedInv`). Every write carries a stamp of its own (`StampInv`), so
  a page that looks as it did was not written in between. `OneEntryPerContent` adds
  `HomeInv`: until the tasks race, each content has one home, the hash index is complete,
  and memory knows the content of every page or is about to.
* `WikiIndexProofs`. `Mutex`: until a request is dropped while it renames, whoever reads
  or replaces a reserved file holds the lock. So the old file a process renders from is
  the one it replaces, and `ListInv` (what a rebuild has read makes it list every page
  in `due`) and `LogInv` (a log under way has every line of `logged`, and the runs in hand
  are all different) are inductive. `IndexFinal` needs `FinalInv`: a change of a page is
  owed, or its writer's own rebuild is still to come (`Coming`), or the rebuild under way
  or the last one has seen it (`Accounted`).

* `LintProofs`. `ReadInv` follows a run: a page the scan has read has its faults in the
  reports (`ScanInv`), a batch that was sent was answered or is reported (`BatchInv`), a
  page the last check has read has a type (`CheckInv`); each for pages nobody wrote in
  between (`touched`). `StrictSuccess` and `NothingUnreported` follow. `RepairsWithinReports`
  needs `RepairInv`: what memory holds of a page is the body of a file that claims its id
  or one the model was asked for, and its type comes from such a file or from a repair
  (`HeldInv`), and a page is reported without type once (`ReportInv`). The attempt to prove
  an earlier form, in which a missing type never led to another body, failed for a good
  reason: when two files claim one id and one of them has the type, the entry in memory
  may have it too, and `auto_fix` then asks the model for a body. TLC's instance was too
  small to show it, and `RepairsAsReported` now says so.
* `LearningRecallProofs`, recall. `KeepsOneCopy` is a fact about the fold that drops duplicates,
  for any ranked list: `KeptOfList` relates each entry kept to the one place it came from.
  `WrittenIsRecalled` and `DoctorSpeaksForContext` rest on `RootsInv` (one entry of an id in a
  root and in a snapshot) and `LastInv` (the last entry written is in its root and in the
  snapshot published with it), and on `RankedChooses`: the list that `pk context` cuts at
  `--max-candidates` holds the best of the candidates.
* `LearningRecallProofs`, learning. `TaughtIsIndexed`: until a line is cut, what a completed
  job taught is on disk, lost with a pass that died, or in the memory of a worker that has
  yet to append it (`Taught`, `AheadOf`); the files end whole, and what `append_new` holds
  makes up for what the index lacks (`Sound`). `UpdatesAreHinted`: an update that is due,
  of a skill with a safe name, was logged, or a skill whose name ends alike; and what is
  logged is safe and has an update among the candidate files (`LogNames`, `UpdatesStay`).
  `EvidenceOfOne` and `EvidenceIsKept` need a
  fact about the greedy clustering: the list that a pass clusters begins with the list an
  earlier one clustered, since records are ordered by the pass that appended them
  (`Dated`, `RankedPrefix`), and a longer list only adds to clusters and starts new ones,
  whose anchors differ (`ClusteringGrows`, `ClustersStay`). So every candidate is backed by a
  cluster of today's index that holds its evidence (`Grounded`), and a candidate rewritten
  has no less.

On the form of these proofs. What a fold or a sort computes is an induction over data, which
the library's theorems cannot carry here; the folds of `LearningRecallProofs` are followed by an
induction over a set of numbers instead (`Induction`, from `WFMin`). `Iterates` shows that
a function that folds exists, so that what `MapThenFoldSet` chooses is one.
`Ranked` defines a sorted list by the rank of each element, because the sort of the
community modules ends in an operator of TLC that the prover cannot open; both were compared by
TLC. It makes no difference to a run.

Model-checked only: liveness (`Delivers`, `Settles`, `EvidenceArrives`, `LockComesRound`,
`CatchesUp`, `InboxDelivers`), since fairness and `ENABLED` are beyond the prover. The
violation `TornLineSkipped` is TLC's to find.

`ImplementsContract`, `ReceiptMatchesDirectory` and `DeliveredMoved` are checked, and
proved, with `Acceptor = {}`; on the same instance without the unreadable record
`ImplementsContract` also holds with one accept process. With two
it does not: one that has looked everywhere may write its fresh record after
the other's has been taken in hand, over the record the worker is about to
settle; the fresh record is then renamed into `accepted`, and a later run takes
it back to `submitting`. The operation is looked up before it is submitted
again, and `KeepsEveryOperation`, `LedgerAgreement` and `TerminalIsFinal`
(proved for any number of accept processes) still hold.

## 5. Conditions in the properties

* `EnqueuedOnce` holds as long as no file operation fails: a job rejected after it
  queued its operation and then published again queues it again.
* `QueuedOnce` is about commands that no other command overlaps, and excepts those whose
  search the operation passed (`overtaken`): released, or submitted again, to a directory
  already looked in. Such a command does queue the operation a second time (section 6);
  `MemoryQueue` has the same search and shows what becomes of two records.
* `UpdatesHinted` says nothing of skills with unsafe names (`Loggable`), and takes a skill as
  named if the log has one whose name ends with its name.
* `OneEntryPerContent` excludes (`raced`) compiles that overlap a compile or a
  scan, that follow outside writes no complete scan has read yet, or that could
  not write their file: the code looks the hash up and inserts the entry
  without a lock over both, and a scan swaps in what it read before.
* `ServesDisk` speaks of quiet states: no scan, compile or outside write under
  way, no event waiting, every page parses. It excludes a start in which a page
  changed between being read by `open` and the beginning of the watch
  (`missed`), and pages whose write the server itself reported as failed.
* `KeepsListed`, `IndexFinal` and `LogKeepsLines` end with `cut`: a request dropped
  between rendering a file and renaming it frees the lock and renames nevertheless
  (section 6). `IndexFinal` speaks of moments when nobody writes and no change is
  waiting for a rebuild (`owed`).
* `ReadyServesDisk` and `CatchesUp` except `forgotten`: a change nobody was told of
  (made before the watch began, or dropped by the kernel), and a failure whose status a
  late `Started` overwrites. They except pages that do not parse.
* `ObservedIndexed` excepts what was in memory when a pass died (`lost`); it and
  `OneCandidate` and `EvidenceGrows` end when a line is cut, the subject of
  `TornLineSkipped`.
* `RecalledAfterWrite` and `DoctorAgrees` except the combinations of root and label that
  section 6 names.
* `StrictMeansConforming` and `ReportsComplete` say nothing about pages written since
  the check began, `RepairsAsReported` nothing about those written since `open`.

## 6. Disagreements between the code and its documentation

Shown by a run: `lessons_torn`. A line of `lessons.jsonl` cut by a crash costs the
record that is appended next, or hides every later one if a character was cut, although
`promotion.rs:237` says that a torn final line is skipped.

Seen while modelling, not run. In the worker and the candidates:

* An unreadable memory record ends a run without `status.json`
  (`pk-learning-worker/src/main.rs:437`), which `README.md:21` says every
  `run-once` writes.
* After a crash between the rewrite and the rename of a settled record, the
  next run counts it as in flight although it is finished
  (`pk-learning-worker/src/main.rs:1029`).
* A job that dies between its page and the index is taken up again, finds its page and
  skips index and log (`main.rs:570`): the next rebuild by anybody heals the index, the
  line of the log is lost.
* A task that persists an entry is not awaited (`pk-cli/src/main.rs:349`).
* An accept run again while the operator releases the parked operation may look in
  `accepted` before and in `stalled` after the move, and queues the operation again
  (`pk-cli/src/candidates.rs:382`).
* An update of a skill whose name has a space or another character outside letters, digits,
  `-`, `_` and `.` (`normalize_skill`, `transcript.rs:294`, lets it through) becomes a
  candidate that is never logged, without a warning (`skill_candidates.rs:455`), and that
  `pk candidates accept` refuses (`candidates.rs:265`).
* An accept and a reject that overlap may both report success
  (`pk-cli/src/candidates.rs:195`).
* A rejection that falls between the worker's checks and its write is followed
  by a new pending file (`promotion.rs:413`), although `candidates.rs:79` says a
  rejected candidate is never proposed again. `NotReopened` states what holds.
* Learning: observations are only in memory until they are appended, so a pass that dies
  after its jobs loses them; a later, longer transcript of the same session is ignored; an
  accepted update of a skill is never proposed again; corrections are counted per session
  although the doc says per group; one pending file that does not parse stops every
  later proposal of its detector; the marker searched in `pending.log` may be part of
  another skill's.

In the store, the index and the server:

* The next commit of the same entries takes a generation cut short by a crash as written
  (`prompt_snapshot.rs:53`); a slower committer replaces a newer snapshot (`:58`).
* An ingested page removed before the next scan is served for ever (`store.rs:129`), and
  the revision of a page ingested again stays 1 (`store.rs:167`).
* Two overlapping compiles of one content make two pages
  (`pk-librarian/src/librarian.rs:76`).
* A dropped request renames `index.md` or `log.md` after its lock is gone
  (`store.rs:487`), against the comment at `store.rs:288` that appenders never drop each
  other's lines.
* `/ready`: a page that did not parse when the server started, and any later change, give
  `ready` while the page is missing; a `Started` that the channel delivers late replaces
  `failed`, and one that the draining loop swallows leaves `initializing`; what the
  kernel drops is ignored. After a failed publication `not_ready` stays until the server
  is restarted (`pk-cherry/src/main.rs:99`, `:115`).
* The inbox watcher's doc comment speaks of a debounce window
  (`pk-watcher/src/lib.rs:68`); the handler has none. Files in `raw/` before the start
  are never compiled.

In the other commands of `pk`:

* `pk ingest` outside any project, or with `--kb-dir` into the shared scope, publishes
  under a label that `pk context` reads nowhere; `pk doctor` outside a project checks the
  global root's `project` label. `pk migrate-to-per-project` moves pages to where no store
  looks.
* The dropping of duplicates (`pk-cli/src/main.rs:804`) uses up an id even if the entry
  is then dropped for its content.
* `pk focus` answers from a cache that nothing invalidates (`:496`).
* `pk lint`: a page whose declared id is not its path is reported under the path, and
  then either not repaired or overwritten by the entry of another page; a report of the
  model about a page without a type gives it a type and nothing else; a page removed
  since `open` comes back; a page's link to itself keeps it from being an orphan,
  although `bundle.rs:329` says "from any other concept"; a file that cannot be read is
  linted as empty; the snapshot is not published after a fix.
* Running the migration of the event store twice writes its records twice
  (`pk-event-store/src/migrate.rs:59`).

## 7. Not modelled

* MCP dispatch and the event stream: request handlers without state of their own. That
  the client may drop a request is in `WikiIndex`.
* The receipt clock: `observe_receipt` computes on times and counters of one record; when a
  poll is due and when an operation is stale is a free choice of `MemoryQueue`, so its
  properties hold for any such arithmetic. That backoff is bounded is not shown.
* The event store, the cache of `pk focus`, `delete` (no command calls it) and the one-off
  conversions of `pk` (init, events, migrate, codegraph).
* The text index, similarity of texts, digestion of transcripts, Markdown layout, prompts
  and parsers, the router and the LLM client: text processing; in the models, their result
  is a constant or a choice. Overrides and unique ids of a compile
  (`CompileOverrides`, `with_unique_ids`) belong to it.
* `pk-uar` and `pk-core`: adapters and data types.

What would come next, in this order: `ReceiptClock` over bounded times against a reference
definition; the event store's fallback and migration; several knowledge roots in one
`WikiIndex`; theorems with accept processes at work for what is now proved without.
