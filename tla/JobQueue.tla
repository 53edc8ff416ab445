------------------------------- MODULE JobQueue -------------------------------
(***************************************************************************)
(* The learning-job queue of prometheus-learning-worker                    *)
(* (pk-learning-worker/src/main.rs).  A hook publishes a job, one file, in *)
(* pending; a worker run claims it (processing), performs its effects one  *)
(* after the other (wiki page, index, log, prompt snapshot, learning log,  *)
(* memory operation) and only then moves it to completed.  A job that      *)
(* fails is moved to rejected beside a failure record.  The worker may die *)
(* between two effects; the next run recovers what is in processing.       *)
(* Runs exclude each other by worker.lock, so there is one at a time.      *)
(***************************************************************************)
EXTENDS Naturals, FiniteSets

CONSTANTS
  Job,         \* event ids; their order is the order of the file names
  Bad,         \* jobs process_job cannot read: malformed or of another schema
  LegacyJob,   \* jobs an older worker left in retry
  MaxPublish,  \* bound: how often the hook publishes each job
  MaxCrash,    \* bound: crashes of the worker
  MaxFail,     \* bound: failed file operations
  LastDay      \* bound: days

ASSUME JobQueueAssumption ==
  /\ Job \subseteq Nat /\ Bad \subseteq Job /\ LegacyJob \subseteq Job
  /\ MaxPublish \in Nat /\ MaxCrash \in Nat /\ MaxFail \in Nat /\ LastDay \in Nat \ {0}

JobDir == {"retry", "pending", "processing", "completed", "rejected"}
Day    == 1..LastDay

\* What runs after one effect of a job, in the order of process_job.
Effect  == {"page", "index", "log", "snapshot", "learn", "memory", "complete"}
After   == [page |-> "index", index |-> "log", log |-> "snapshot", snapshot |-> "learn",
            learn |-> "memory", memory |-> "complete"]

VARIABLES
  queue,      \* queue[d]: the jobs with a file in directory d
  failure,    \* jobs with a failure record in rejected
  w,          \* the run: its place, the listed jobs, the job in hand (at most one)
  page,       \* page[j]: the wiki page, "none", "torn" (cut short, yet it parses) or "whole"
  indexed,    \* jobs whose page index.md lists
  logged,     \* jobs with a line in the wiki's log.md
  recallable, \* jobs whose page is in the current prompt snapshot
  learned,    \* learned[d][j]: lines about j in the learning log of day d
  mem,        \* mem[j]: the memory operation, none -> pending -> underway -> completed
  day,
  published, crashes, fails

wiki   == <<page, indexed, logged, recallable>>
env    == <<day, published, crashes, fails>>
vars   == <<queue, failure, w, wiki, learned, mem, env>>

Idle == [pc |-> "off", todo |-> {}, cur |-> {}]

Init ==
  /\ queue = [d \in JobDir |-> IF d = "retry" THEN LegacyJob ELSE {}]
  /\ failure = {}
  /\ w = Idle
  /\ page = [j \in Job |-> "none"] /\ indexed = {} /\ logged = {} /\ recallable = {}
  /\ learned = [d \in Day |-> [j \in Job |-> 0]]
  /\ mem = [j \in Job |-> "none"]
  /\ day = 1
  /\ published = [j \in Job |-> 0] /\ crashes = 0 /\ fails = 0

Move(j, d, e) == queue' = [queue EXCEPT ![d] = @ \ {j}, ![e] = @ \cup {j}]

\* preserve_duplicate keeps the bytes under a name that is never listed.
SetAside(j, d) == queue' = [queue EXCEPT ![d] = @ \ {j}]

-----------------------------------------------------------------------------
(* The hook (external): a file renamed into pending, replacing one of its name *)
Publish(j) ==
  /\ published[j] < MaxPublish
  /\ queue' = [queue EXCEPT !["pending"] = @ \cup {j}]
  /\ published' = [published EXCEPT ![j] = @ + 1]
  /\ UNCHANGED <<failure, w, wiki, learned, mem, day, crashes, fails>>

Midnight ==
  /\ day < LastDay
  /\ day' = day + 1
  /\ UNCHANGED <<queue, failure, w, wiki, learned, mem, published, crashes, fails>>

-----------------------------------------------------------------------------
(* A run, up to its first job *)

BeginRun ==
  /\ w.pc = "off"
  /\ w' = [w EXCEPT !.pc = "recover"]
  /\ UNCHANGED <<queue, failure, wiki, learned, mem, env>>

\* Mutant: only the legacy directory is recovered.
RecoverDirsLegacy == {"retry"}

\* Directories whose jobs go back to pending.
RecoverDirs == {"processing", "retry"}

\* Mutant: the two branches are exchanged.
RecoverJobReversed(j) ==
  /\ w.pc = "recover"
  /\ \E d \in RecoverDirs :
       /\ j \in queue[d]
       /\ IF j \in queue["pending"] THEN Move(j, d, "pending") ELSE SetAside(j, d)
  /\ UNCHANGED <<failure, wiki, w, learned, mem, env>>

\* A copy whose name pending already has is set aside.
RecoverJob(j) ==
  /\ w.pc = "recover"
  /\ \E d \in RecoverDirs :
       /\ j \in queue[d]
       /\ IF j \in queue["pending"] THEN SetAside(j, d) ELSE Move(j, d, "pending")
  /\ UNCHANGED <<failure, w, wiki, learned, mem, env>>

ListJobs ==
  /\ w.pc = "recover" /\ \A d \in RecoverDirs : queue[d] = {}
  /\ w' = [w EXCEPT !.pc = "jobs", !.todo = queue["pending"]]
  /\ UNCHANGED <<queue, failure, wiki, learned, mem, env>>

-----------------------------------------------------------------------------
(* One job *)

At(j, pc)  == w.pc = pc /\ j \in w.cur
Goto(pc)   == w' = [w EXCEPT !.pc = pc]
NextJob    == w' = [w EXCEPT !.pc = "jobs", !.cur = {}]

Claim(j) ==
  /\ w.pc = "jobs" /\ j \in w.todo /\ \A k \in w.todo : j <= k
  /\ Move(j, "pending", "processing")
  /\ w' = [w EXCEPT !.pc = "claimed", !.todo = @ \ {j}, !.cur = {j}]
  /\ UNCHANGED <<failure, wiki, learned, mem, env>>

\* Mutant: the completed directory is not consulted.
IsDuplicateNever(j) == FALSE

IsDuplicate(j) == j \in queue["completed"]

DropDuplicate(j) ==
  /\ At(j, "claimed") /\ j \notin Bad /\ IsDuplicate(j)
  /\ SetAside(j, "processing")
  /\ NextJob
  /\ UNCHANGED <<failure, wiki, learned, mem, env>>

Malformed(j) ==
  /\ At(j, "claimed") /\ j \in Bad
  /\ Goto("error")
  /\ UNCHANGED <<queue, failure, wiki, learned, mem, env>>

\* Mutant: the snapshot is committed only with a new page.
OpenStoreSkips(j) ==
  /\ At(j, "claimed") /\ j \notin Bad /\ ~IsDuplicate(j)
  /\ Goto(IF page[j] = "none" THEN "page" ELSE "learn")
  /\ UNCHANGED <<queue, failure, wiki, learned, mem, env>>

\* The store is opened afresh: a page that parses is taken as it is, and then
\* neither the index nor the log is touched.
OpenStore(j) ==
  /\ At(j, "claimed") /\ j \notin Bad /\ ~IsDuplicate(j)
  /\ Goto(IF page[j] = "none" THEN "page" ELSE "snapshot")
  /\ UNCHANGED <<queue, failure, wiki, learned, mem, env>>

WritePage(j) ==
  /\ At(j, "page")
  /\ page' = [page EXCEPT ![j] = "whole"]
  /\ Goto(After["page"])
  /\ UNCHANGED <<queue, failure, indexed, logged, recallable, learned, mem, env>>

\* The pages a scan of the wiki finds.
Readable == {k \in Job : page[k] # "none"}

\* The index is rebuilt from all pages on disk.
RebuildIndex(j) ==
  /\ At(j, "index")
  /\ indexed' = Readable
  /\ Goto(After["index"])
  /\ UNCHANGED <<queue, failure, page, logged, recallable, learned, mem, env>>

AppendWikiLog(j) ==
  /\ At(j, "log")
  /\ logged' = logged \cup {j}
  /\ Goto(After["log"])
  /\ UNCHANGED <<queue, failure, page, indexed, recallable, learned, mem, env>>

CommitSnapshot(j) ==
  /\ At(j, "snapshot")
  /\ recallable' = Readable
  /\ Goto(After["snapshot"])
  /\ UNCHANGED <<queue, failure, page, indexed, logged, learned, mem, env>>

\* Mutant: a line is appended whether or not there is one.
AlreadyLearnedNever(j) == FALSE

\* The file of the day is searched for the event id.
AlreadyLearned(j) == learned[day][j] > 0

AppendLearned(j) ==
  learned' = IF AlreadyLearned(j) THEN learned ELSE [learned EXCEPT ![day][j] = @ + 1]

Learn(j) ==
  /\ At(j, "learn")
  /\ AppendLearned(j)
  /\ Goto(After["learn"])
  /\ UNCHANGED <<queue, failure, wiki, mem, env>>

\* enqueue_memory looks in memory/pending and memory/completed.
QueueOperation(j) ==
  mem' = IF mem[j] \in {"pending", "completed"} THEN mem ELSE [mem EXCEPT ![j] = "pending"]

EnqueueMemory(j) ==
  /\ At(j, "memory")
  /\ QueueOperation(j)
  /\ Goto(After["memory"])
  /\ UNCHANGED <<queue, failure, wiki, learned, env>>

Complete(j) ==
  /\ At(j, "complete")
  /\ Move(j, "processing", "completed")
  /\ NextJob
  /\ UNCHANGED <<failure, wiki, learned, mem, env>>

\* What a failed operation may have done all the same: the flush that follows a
\* rename or an append failed, or a page was cut short.
DoneDespiteError(j) ==
  \/ UNCHANGED <<queue, page, recallable, learned, mem>>
  \/ /\ w.pc = "claimed" /\ j \notin Bad /\ IsDuplicate(j) /\ SetAside(j, "processing")
     /\ UNCHANGED <<page, recallable, learned, mem>>
  \/ /\ w.pc = "page" /\ page' = [page EXCEPT ![j] = "torn"]
     /\ UNCHANGED <<queue, recallable, learned, mem>>
  \/ /\ w.pc = "snapshot" /\ recallable' = Readable
     /\ UNCHANGED <<queue, page, learned, mem>>
  \/ /\ w.pc = "learn" /\ AppendLearned(j)
     /\ UNCHANGED <<queue, page, recallable, mem>>
  \/ /\ w.pc = "memory" /\ QueueOperation(j)
     /\ UNCHANGED <<queue, page, recallable, learned>>
  \/ /\ w.pc = "complete" /\ Move(j, "processing", "completed")
     /\ UNCHANGED <<page, recallable, learned, mem>>

OperationFails(j) ==
  /\ fails < MaxFail /\ j \in w.cur /\ w.pc \in Effect \cup {"claimed"}
  /\ fails' = fails + 1
  /\ Goto("error")
  /\ DoneDespiteError(j)
  /\ UNCHANGED <<failure, indexed, logged, day, published, crashes>>

\* The claim's rename fails and the job stays in pending.  A completed one counts
\* as completed; of any other there is nothing in processing to reject, and that
\* error ends the run.
ClaimFails(j) ==
  /\ fails < MaxFail /\ w.pc = "jobs" /\ j \in w.todo /\ \A k \in w.todo : j <= k
  /\ fails' = fails + 1
  /\ w' = IF j \in queue["completed"] THEN [w EXCEPT !.todo = @ \ {j}] ELSE Idle
  /\ UNCHANGED <<queue, failure, wiki, learned, mem, day, published, crashes>>

-----------------------------------------------------------------------------
(* A failed job *)

\* The job was completed after all; its file, if any, stays in processing.
CountCompleted(j) ==
  /\ At(j, "error") /\ j \in queue["completed"]
  /\ NextJob
  /\ UNCHANGED <<queue, failure, wiki, learned, mem, env>>

WriteFailure(j) ==
  /\ At(j, "error") /\ j \notin queue["completed"]
  /\ failure' = failure \cup {j}
  /\ Goto("reject")
  /\ UNCHANGED <<queue, wiki, learned, mem, env>>

RejectJob(j) ==
  /\ At(j, "reject")
  /\ Move(j, "processing", "rejected")
  /\ NextJob
  /\ UNCHANGED <<failure, wiki, learned, mem, env>>

-----------------------------------------------------------------------------
(* After the jobs: the memory pass (MemoryQueue), then the end of the run *)

JobsDone ==
  /\ w.pc = "jobs" /\ w.todo = {}
  /\ Goto("deliver")
  /\ UNCHANGED <<queue, failure, wiki, learned, mem, env>>

Forward(j) ==
  \/ mem[j] = "pending" /\ mem' = [mem EXCEPT ![j] = "underway"]
  \/ mem[j] = "underway" /\ mem' = [mem EXCEPT ![j] = "completed"]

Deliver(j) ==
  /\ w.pc = "deliver" /\ Forward(j)
  /\ UNCHANGED <<queue, failure, w, wiki, learned, env>>

EndRun ==
  /\ w.pc = "deliver"
  /\ w' = Idle
  /\ UNCHANGED <<queue, failure, wiki, learned, mem, env>>

\* The process dies, or an error outside the jobs ends the run; a page being
\* written may be cut short.
Crash ==
  /\ w.pc # "off" /\ crashes < MaxCrash
  /\ crashes' = crashes + 1
  /\ w' = Idle
  /\ \/ UNCHANGED page
     \/ \E j \in w.cur : w.pc = "page" /\ page' = [page EXCEPT ![j] = "torn"]
  /\ UNCHANGED <<queue, failure, indexed, logged, recallable, learned, mem, day, published, fails>>

WorkerStep ==
  \/ ListJobs \/ JobsDone \/ EndRun
  \/ \E j \in Job :
       \/ RecoverJob(j) \/ Claim(j) \/ DropDuplicate(j) \/ Malformed(j) \/ OpenStore(j)
       \/ WritePage(j) \/ RebuildIndex(j) \/ AppendWikiLog(j) \/ CommitSnapshot(j)
       \/ Learn(j) \/ EnqueueMemory(j) \/ Complete(j)
       \/ CountCompleted(j) \/ WriteFailure(j) \/ RejectJob(j)

Next ==
  \/ BeginRun \/ WorkerStep \/ Crash \/ Midnight
  \/ \E j \in Job : Publish(j) \/ Deliver(j) \/ OperationFails(j) \/ ClaimFails(j)

Spec == Init /\ [][Next]_vars

\* The worker is started again and again and runs; files are not obliged to fail,
\* nor hooks to publish, nor the server to answer.
Fairness == WF_vars(BeginRun) /\ WF_vars(WorkerStep)
FairSpec == Spec /\ Fairness

-----------------------------------------------------------------------------
(* Properties *)

PC == {"off", "recover", "jobs", "claimed", "error", "reject", "deliver"} \cup Effect

\* Type invariant.
TypeOK ==
  /\ queue \in [JobDir -> SUBSET Job]
  /\ failure \in SUBSET Job
  /\ w \in [pc : PC, todo : SUBSET Job, cur : SUBSET Job]
  /\ page \in [Job -> {"none", "torn", "whole"}]
  /\ indexed \in SUBSET Job /\ logged \in SUBSET Job /\ recallable \in SUBSET Job
  /\ learned \in [Day -> [Job -> Nat]]
  /\ mem \in [Job -> {"none", "pending", "underway", "completed"}]
  /\ day \in Day
  /\ published \in [Job -> Nat] /\ crashes \in Nat /\ fails \in Nat

Held(j) == \E d \in JobDir : j \in queue[d]

\* A published job always has a file: neither recovery, a duplicate, a rejection
\* nor a crash between two renames loses it.
JobKept == [][\A j \in Job : Held(j) => Held(j)']_vars

\* A job is completed only after everything it stands for is durable: its page is
\* on disk and recallable, the learning log names it and its operation is queued.
CompletedMeansDone ==
  \A j \in queue["completed"] :
    /\ page[j] # "none" /\ j \in recallable
    /\ \E d \in Day : learned[d][j] > 0
    /\ mem[j] # "none"

\* A job run again after a crash, or published again, adds no second line to a
\* day's learning log.
LearnedOncePerDay == \A d \in Day, j \in Job : learned[d][j] <= 1

\* Unless a file operation failed, an operation that is on its way is not queued a
\* second time by its job: a run finishes its jobs, recovered ones included, before
\* it touches their operations, and a completed job is not run again.  (A job
\* rejected after it queued its operation and published once more does.)
EnqueuedOnce ==
  [][fails = 0 => \A j \in Job : mem[j] = "underway" => mem'[j] # "pending"]_vars

\* Every published job is eventually completed or rejected.
Settles ==
  \A j \in Job : j \in queue["pending"] ~> (j \in queue["completed"] \/ j \in queue["rejected"])
=============================================================================
