---------------------------- MODULE JobQueueProofs ----------------------------
(***************************************************************************)
(* Theorems about JobQueue, for any jobs and any bounds on publications,   *)
(* crashes, failures and days: type correctness, that no job's file is     *)
(* lost, what a completed job has durably done, and that a job run again   *)
(* repeats neither its learning-log line nor an operation under way.       *)
(***************************************************************************)
EXTENDS JobQueue, TLAPS

\* TypeOK, in parts that the actions change together.
QueueType  == queue \in [JobDir -> SUBSET Job]
RunType    == w \in [pc : PC, todo : SUBSET Job, cur : SUBSET Job]
WikiType   == /\ page \in [Job -> {"none", "torn", "whole"}]
              /\ indexed \in SUBSET Job /\ logged \in SUBSET Job /\ recallable \in SUBSET Job
LogType    == learned \in [Day -> [Job -> Nat]]
MemType    == mem \in [Job -> {"none", "pending", "underway", "completed"}]
RestType   == /\ failure \in SUBSET Job /\ day \in Day
              /\ published \in [Job -> Nat] /\ crashes \in Nat /\ fails \in Nat

LEMMA TypeSplit ==
  /\ TypeOK <=> QueueType /\ RunType /\ WikiType /\ LogType /\ MemType /\ RestType
  /\ TypeOK' <=> QueueType' /\ RunType' /\ WikiType' /\ LogType' /\ MemType' /\ RestType'
BY DEF TypeOK, QueueType, RunType, WikiType, LogType, MemType, RestType

LEMMA MoveType ==
  ASSUME QueueType, NEW j \in Job, NEW d \in JobDir, NEW e \in JobDir,
         Move(j, d, e) \/ SetAside(j, d)
  PROVE  QueueType'
BY DEF QueueType, Move, SetAside

LEMMA GotoType ==
  ASSUME RunType, NEW pc \in PC, Goto(pc) \/ NextJob
  PROVE  RunType'
BY DEF RunType, Goto, NextJob, PC

LEMMA IdleType == Idle \in [pc : PC, todo : SUBSET Job, cur : SUBSET Job]
BY DEF Idle, PC

LEMMA ReadableType == Readable \in SUBSET Job
BY DEF Readable

LEMMA AppendLearnedType ==
  ASSUME LogType, day \in Day, NEW j \in Job, AppendLearned(j)
  PROVE  LogType'
BY DEF LogType, AppendLearned, AlreadyLearned

LEMMA QueueOperationType ==
  ASSUME MemType, NEW j \in Job, QueueOperation(j)
  PROVE  MemType'
BY DEF MemType, QueueOperation

-----------------------------------------------------------------------------
(* Type correctness *)

LEMMA TypeInit == Init => TypeOK
BY JobQueueAssumption, IdleType DEF Init, TypeOK, Day

\* A failed operation.
LEMMA FailType ==
  ASSUME TypeOK, NEW j \in Job, OperationFails(j)
  PROVE  TypeOK'
<1> USE TypeSplit
<1>1. RunType'
  BY GotoType DEF OperationFails, PC
<1>2. RestType'
  BY DEF OperationFails, RestType
<1>3. QueueType' /\ WikiType' /\ LogType' /\ MemType'
  <2> USE DEF OperationFails, DoneDespiteError
  <2>1. CASE UNCHANGED <<queue, page, recallable, learned, mem>>
    BY <2>1 DEF QueueType, WikiType, LogType, MemType
  <2>2. CASE SetAside(j, "processing") /\ UNCHANGED <<page, recallable, learned, mem>>
    <3>1. QueueType'
      BY <2>2, MoveType DEF JobDir
    <3> QED
      BY <2>2, <3>1 DEF WikiType, LogType, MemType
  <2>3. CASE /\ page' = [page EXCEPT ![j] = "torn"]
             /\ UNCHANGED <<queue, recallable, learned, mem>>
    BY <2>3 DEF QueueType, WikiType, LogType, MemType
  <2>4. CASE recallable' = Readable /\ UNCHANGED <<queue, page, learned, mem>>
    BY <2>4, ReadableType DEF QueueType, WikiType, LogType, MemType
  <2>5. CASE AppendLearned(j) /\ UNCHANGED <<queue, page, recallable, mem>>
    <3>1. LogType'
      BY <2>5, AppendLearnedType DEF RestType
    <3> QED
      BY <2>5, <3>1 DEF QueueType, WikiType, MemType
  <2>6. CASE QueueOperation(j) /\ UNCHANGED <<queue, page, recallable, learned>>
    <3>1. MemType'
      BY <2>6, QueueOperationType
    <3> QED
      BY <2>6, <3>1 DEF QueueType, WikiType, LogType
  <2>7. CASE Move(j, "processing", "completed") /\ UNCHANGED <<page, recallable, learned, mem>>
    <3>1. QueueType'
      BY <2>7, MoveType DEF JobDir
    <3> QED
      BY <2>7, <3>1 DEF WikiType, LogType, MemType
  <2> QED
    BY <2>1, <2>2, <2>3, <2>4, <2>5, <2>6, <2>7
<1> QED
  BY <1>1, <1>2, <1>3

\* The steps on one job.
LEMMA JobType ==
  ASSUME TypeOK, NEW j \in Job,
         \/ RecoverJob(j) \/ Claim(j) \/ DropDuplicate(j) \/ Malformed(j) \/ OpenStore(j)
         \/ WritePage(j) \/ RebuildIndex(j) \/ AppendWikiLog(j) \/ CommitSnapshot(j)
         \/ Learn(j) \/ EnqueueMemory(j) \/ Complete(j)
         \/ CountCompleted(j) \/ WriteFailure(j) \/ RejectJob(j)
  PROVE  TypeOK'
<1> USE TypeSplit
<1>1. CASE RecoverJob(j)
  <2>1. QueueType'
    BY <1>1, MoveType DEF RecoverJob, RecoverDirs, JobDir
  <2> QED
    BY <1>1, <2>1 DEF RecoverJob, RunType, wiki, WikiType, LogType, MemType, env, RestType
<1>2. CASE Claim(j)
  <2>1. QueueType'
    BY <1>2, MoveType DEF Claim, JobDir
  <2>2. RunType'
    BY <1>2 DEF Claim, RunType, PC
  <2> QED
    BY <1>2, <2>1, <2>2 DEF Claim, wiki, WikiType, LogType, MemType, env, RestType
<1>3. CASE DropDuplicate(j)
  <2>1. QueueType' /\ RunType'
    BY <1>3, MoveType, GotoType DEF DropDuplicate, JobDir, PC
  <2> QED
    BY <1>3, <2>1 DEF DropDuplicate, wiki, WikiType, LogType, MemType, env, RestType
<1>4. CASE Malformed(j) \/ OpenStore(j)
  <2>1. RunType'
    BY <1>4, GotoType DEF Malformed, OpenStore, PC, Effect
  <2> QED
    BY <1>4, <2>1 DEF Malformed, OpenStore, QueueType, wiki, WikiType, LogType, MemType, env, RestType
<1>5. CASE WritePage(j) \/ RebuildIndex(j) \/ AppendWikiLog(j) \/ CommitSnapshot(j)
  <2> USE DEF WritePage, RebuildIndex, AppendWikiLog, CommitSnapshot
  <2>1. RunType'
    BY <1>5, GotoType DEF After, PC, Effect
  <2>2. WikiType'
    BY <1>5, ReadableType DEF WikiType
  <2> QED
    BY <1>5, <2>1, <2>2 DEF QueueType, LogType, MemType, env, RestType
<1>6. CASE Learn(j)
  <2>1. RunType' /\ LogType'
    BY <1>6, GotoType, AppendLearnedType DEF Learn, After, PC, Effect, RestType
  <2> QED
    BY <1>6, <2>1 DEF Learn, QueueType, wiki, WikiType, MemType, env, RestType
<1>7. CASE EnqueueMemory(j)
  <2>1. RunType' /\ MemType'
    BY <1>7, GotoType, QueueOperationType DEF EnqueueMemory, After, PC, Effect
  <2> QED
    BY <1>7, <2>1 DEF EnqueueMemory, QueueType, wiki, WikiType, LogType, env, RestType
<1>8. CASE Complete(j) \/ RejectJob(j)
  <2>1. QueueType' /\ RunType'
    BY <1>8, MoveType, GotoType DEF Complete, RejectJob, JobDir, PC
  <2> QED
    BY <1>8, <2>1 DEF Complete, RejectJob, wiki, WikiType, LogType, MemType, env, RestType
<1>9. CASE CountCompleted(j) \/ WriteFailure(j)
  <2>1. RunType'
    BY <1>9, GotoType DEF CountCompleted, WriteFailure, PC
  <2> QED
    BY <1>9, <2>1 DEF CountCompleted, WriteFailure, QueueType, wiki, WikiType, LogType, MemType, env, RestType
<1> QED
  BY <1>1, <1>2, <1>3, <1>4, <1>5, <1>6, <1>7, <1>8, <1>9

LEMMA TypeStep == TypeOK /\ [Next]_vars => TypeOK'
<1> SUFFICES ASSUME TypeOK, [Next]_vars PROVE TypeOK'
  OBVIOUS
<1> USE TypeSplit
<1>1. CASE BeginRun \/ ListJobs \/ JobsDone \/ EndRun
  <2>1. RunType'
    BY <1>1, IdleType DEF BeginRun, ListJobs, JobsDone, EndRun, Goto, RunType, PC, QueueType, JobDir
  <2> QED
    BY <1>1, <2>1 DEF BeginRun, ListJobs, JobsDone, EndRun, QueueType, wiki, WikiType, LogType,
                      MemType, env, RestType
<1>2. CASE Crash
  <2>1. RunType'
    BY <1>2, IdleType DEF Crash, RunType
  <2>2. WikiType'
    BY <1>2 DEF Crash, WikiType
  <2> QED
    BY <1>2, <2>1, <2>2 DEF Crash, QueueType, LogType, MemType, RestType
<1>3. CASE Midnight
  <2>1. day' \in Day
    BY <1>3, JobQueueAssumption DEF Midnight, RestType, Day
  <2> QED
    BY <1>3, <2>1 DEF Midnight, QueueType, RunType, wiki, WikiType, LogType, MemType, RestType
<1>4. ASSUME NEW j \in Job, Publish(j)
      PROVE  TypeOK'
  <2>1. QueueType'
    BY <1>4 DEF Publish, QueueType, JobDir
  <2> QED
    BY <1>4, <2>1 DEF Publish, RunType, wiki, WikiType, LogType, MemType, RestType
<1>5. ASSUME NEW j \in Job, Deliver(j)
      PROVE  TypeOK'
  <2>1. MemType'
    BY <1>5 DEF Deliver, Forward, MemType
  <2> QED
    BY <1>5, <2>1 DEF Deliver, QueueType, RunType, wiki, WikiType, LogType, env, RestType
<1>6. ASSUME NEW j \in Job, ClaimFails(j)
      PROVE  TypeOK'
  <2>1. RunType'
    BY <1>6, IdleType DEF ClaimFails, RunType
  <2> QED
    BY <1>6, <2>1 DEF ClaimFails, QueueType, wiki, WikiType, LogType, MemType, RestType
<1>7. CASE UNCHANGED vars
  BY <1>7 DEF vars, QueueType, RunType, wiki, WikiType, LogType, MemType, env, RestType
<1> QED
  BY <1>1, <1>2, <1>3, <1>4, <1>5, <1>6, <1>7, FailType, JobType DEF Next, WorkerStep

\* The job queue keeps its types.
THEOREM TypeCorrect == Spec => []TypeOK
<1>1. Init => TypeOK
  BY TypeInit
<1>2. TypeOK /\ [Next]_vars => TypeOK'
  BY TypeStep
<1> QED
  BY <1>1, <1>2, PTL DEF Spec

-----------------------------------------------------------------------------
(* No job's file is lost *)

Kept == \A j \in Job : Held(j) => Held(j)'

LEMMA HeldMove ==
  ASSUME QueueType, NEW j \in Job, NEW d \in JobDir, NEW e \in JobDir, Move(j, d, e),
         NEW k \in Job, Held(k)
  PROVE  Held(k)'
BY DEF QueueType, Held, Move

LEMMA HeldSetAside ==
  ASSUME QueueType, NEW j \in Job, NEW d \in JobDir, SetAside(j, d),
         NEW c \in JobDir, c # d, j \in queue[c],
         NEW k \in Job, Held(k)
  PROVE  Held(k)'
BY DEF QueueType, Held, SetAside

LEMMA HeldSame ==
  ASSUME UNCHANGED queue, NEW k \in Job, Held(k)
  PROVE  Held(k)'
BY DEF Held

LEMMA KeptStep ==
  ASSUME TypeOK, [Next]_vars, NEW k \in Job, Held(k)
  PROVE  Held(k)'
<1> QueueType
  BY TypeSplit
<1>1. CASE BeginRun \/ ListJobs \/ JobsDone \/ EndRun \/ Crash \/ Midnight \/ UNCHANGED vars
  BY <1>1, HeldSame DEF BeginRun, ListJobs, JobsDone, EndRun, Crash, Midnight, vars
<1>2. ASSUME NEW j \in Job, Publish(j)
      PROVE  Held(k)'
  BY <1>2 DEF Publish, QueueType, Held, JobDir
<1>3. ASSUME NEW j \in Job, Deliver(j) \/ ClaimFails(j)
      PROVE  Held(k)'
  BY <1>3, HeldSame DEF Deliver, ClaimFails
<1>4. ASSUME NEW j \in Job, RecoverJob(j)
      PROVE  Held(k)'
  <2>1. PICK d \in RecoverDirs :
          IF j \in queue["pending"] THEN SetAside(j, d) ELSE Move(j, d, "pending")
    BY <1>4 DEF RecoverJob
  <2>2. d \in JobDir /\ d # "pending" /\ "pending" \in JobDir
    BY DEF RecoverDirs, JobDir
  <2> QED
    BY <2>1, <2>2, HeldMove, HeldSetAside
<1>5. ASSUME NEW j \in Job, Claim(j) \/ Complete(j) \/ RejectJob(j)
      PROVE  Held(k)'
  BY <1>5, HeldMove DEF Claim, Complete, RejectJob, JobDir
<1>6. ASSUME NEW j \in Job, DropDuplicate(j)
      PROVE  Held(k)'
  <2>1. SetAside(j, "processing") /\ j \in queue["completed"]
    BY <1>6 DEF DropDuplicate, IsDuplicate
  <2> QED
    BY <2>1, HeldSetAside DEF JobDir
<1>7. ASSUME NEW j \in Job, 
             \/ Malformed(j) \/ OpenStore(j) \/ WritePage(j) \/ RebuildIndex(j)
             \/ AppendWikiLog(j) \/ CommitSnapshot(j) \/ Learn(j) \/ EnqueueMemory(j)
             \/ CountCompleted(j) \/ WriteFailure(j)
      PROVE  Held(k)'
  BY <1>7, HeldSame DEF Malformed, OpenStore, WritePage, RebuildIndex, AppendWikiLog,
     CommitSnapshot, Learn, EnqueueMemory, CountCompleted, WriteFailure
<1>8. ASSUME NEW j \in Job, OperationFails(j)
      PROVE  Held(k)'
  <2>1. \/ UNCHANGED queue
        \/ j \in queue["completed"] /\ SetAside(j, "processing")
        \/ Move(j, "processing", "completed")
    BY <1>8 DEF OperationFails, DoneDespiteError, IsDuplicate
  <2> QED
    BY <2>1, HeldSame, HeldSetAside, HeldMove DEF JobDir
<1> QED
  BY <1>1, <1>2, <1>3, <1>4, <1>5, <1>6, <1>7, <1>8 DEF Next, WorkerStep

\* A published job always has a file.
THEOREM KeepsJobs == Spec => JobKept
<1>1. TypeOK /\ [Next]_vars => [Kept]_vars
  BY KeptStep DEF Kept
<1>2. [][Kept]_vars => JobKept
  BY PTL DEF JobKept, Kept
<1> QED
  BY <1>1, <1>2, TypeCorrect, PTL DEF Spec

-----------------------------------------------------------------------------
(* One learning-log line a day *)

LEMMA OnceAppend ==
  ASSUME LogType, LearnedOncePerDay, day \in Day, NEW j \in Job, AppendLearned(j)
  PROVE  LearnedOncePerDay'
<1> SUFFICES ASSUME NEW d \in Day, NEW k \in Job
             PROVE  learned'[d][k] <= 1
  BY DEF LearnedOncePerDay
<1>1. learned[d][k] \in Nat /\ learned[day][j] \in Nat /\ learned[d][k] <= 1
  BY DEF LogType, LearnedOncePerDay
<1>2. CASE AlreadyLearned(j)
  BY <1>1, <1>2 DEF AppendLearned
<1>3. CASE ~AlreadyLearned(j)
  BY <1>1, <1>3 DEF AppendLearned, AlreadyLearned, LogType
<1> QED
  BY <1>2, <1>3

LEMMA OnceStep == TypeOK /\ LearnedOncePerDay /\ [Next]_vars => LearnedOncePerDay'
<1> SUFFICES ASSUME TypeOK, LearnedOncePerDay, [Next]_vars
             PROVE  LearnedOncePerDay'
  OBVIOUS
<1>1. UNCHANGED learned \/ \E j \in Job : AppendLearned(j)
  BY DEF Next, WorkerStep, BeginRun, ListJobs, JobsDone, EndRun, Crash, Midnight, Publish, Deliver,
         OperationFails, DoneDespiteError, ClaimFails, RecoverJob, Claim, DropDuplicate, Malformed,
         OpenStore, WritePage, RebuildIndex, AppendWikiLog, CommitSnapshot, Learn, EnqueueMemory,
         Complete, CountCompleted, WriteFailure, RejectJob, vars
<1>2. CASE UNCHANGED learned
  BY <1>2 DEF LearnedOncePerDay
<1>3. CASE \E j \in Job : AppendLearned(j)
  BY <1>3, OnceAppend, TypeSplit DEF RestType
<1> QED
  BY <1>1, <1>2, <1>3

\* A job run again adds no second line to a day's learning log.
THEOREM LearnsOnce == Spec => []LearnedOncePerDay
<1>1. Init => LearnedOncePerDay
  BY DEF Init, LearnedOncePerDay
<1> QED
  BY <1>1, OnceStep, TypeCorrect, PTL DEF Spec

-----------------------------------------------------------------------------
(* The job in hand, and what its earlier effects have left *)

\* The run holds at most one job; while it is being processed its file is in
\* processing, and it is neither malformed nor completed.
Hand ==
  /\ w.pc \in {"off", "recover", "jobs", "deliver"} => w.cur = {}
  /\ w.pc = "deliver" => w.todo = {}
  /\ \A j, k \in w.cur : j = k
  /\ w.todo \subseteq queue["pending"]
  /\ w.pc \in Effect \cup {"claimed"} => w.cur \subseteq queue["processing"]
  /\ w.pc \in Effect => w.cur \cap queue["completed"] = {} /\ w.cur \cap Bad = {}

HasPage(j)    == page[j] # "none"
IsRecalled(j) == page[j] # "none" /\ j \in recallable
IsLearned(j)  == \E d \in Day : learned[d][j] > 0
IsQueued(j)   == mem[j] # "none"

\* An effect is begun only when the ones before it are done.
Stages ==
  \A j \in w.cur :
    /\ w.pc \in Effect \ {"page"} => HasPage(j)
    /\ w.pc \in {"learn", "memory", "complete"} => IsRecalled(j)
    /\ w.pc \in {"memory", "complete"} => IsLearned(j)
    /\ w.pc = "complete" => IsQueued(j)

\* Unless an operation failed: a job whose memory operation waits and that is not
\* completed is still to be run in this run, or has its file where the next run
\* finds it.
Waiting ==
  fails = 0 =>
    /\ w.pc \in {"error", "reject"} => w.cur \subseteq Bad
    /\ \A j \in Job : mem[j] # "none" /\ j \notin queue["completed"] =>
         /\ mem[j] = "pending" /\ j \notin Bad
         /\ IF w.pc \in {"off", "recover"} THEN j \in queue["processing"] \cup queue["pending"]
            ELSE j \in w.todo \cup w.cur

LEMMA Grows ==
  ASSUME TypeOK, [Next]_vars, NEW j \in Job
  PROVE  /\ HasPage(j) => HasPage(j)'
         /\ IsRecalled(j) => IsRecalled(j)'
         /\ IsLearned(j) => IsLearned(j)'
         /\ IsQueued(j) => IsQueued(j)'
<1> USE DEF Next, WorkerStep, BeginRun, ListJobs, JobsDone, EndRun, Crash, Midnight, Publish, Deliver,
         OperationFails, DoneDespiteError, ClaimFails, RecoverJob, Claim, DropDuplicate, Malformed,
         OpenStore, WritePage, RebuildIndex, AppendWikiLog, CommitSnapshot, Learn, EnqueueMemory,
         Complete, CountCompleted, WriteFailure, RejectJob, vars, wiki
<1>1. UNCHANGED page \/ \E k \in Job, v \in {"torn", "whole"} : page' = [page EXCEPT ![k] = v]
  <2>1. CASE Crash
    <3>1. w.cur \subseteq Job
      BY TypeSplit DEF RunType
    <3> QED
      BY <2>1, <3>1
  <2>2. CASE [Next]_vars /\ ~Crash
    BY <2>2
  <2> QED
    BY <2>1, <2>2
<1>2. UNCHANGED recallable \/ recallable' = Readable
  OBVIOUS
<1>3. UNCHANGED learned \/ \E k \in Job : AppendLearned(k)
  OBVIOUS
<1>4. UNCHANGED mem \/ \E k \in Job : QueueOperation(k) \/ Forward(k)
  OBVIOUS
<1> HIDE DEF Next, vars
<1>5. HasPage(j) => HasPage(j)'
  BY <1>1, TypeSplit DEF WikiType, HasPage
<1>6. IsRecalled(j) => IsRecalled(j)'
  BY <1>2, <1>5 DEF IsRecalled, HasPage, Readable
<1>7. IsLearned(j) => IsLearned(j)'
  <2> SUFFICES ASSUME NEW d \in Day, learned[d][j] > 0
               PROVE  learned'[d][j] > 0
    BY DEF IsLearned
  <2>1. CASE UNCHANGED learned
    BY <2>1
  <2>2. ASSUME NEW k \in Job, AppendLearned(k)
        PROVE  learned'[d][j] > 0
    <3>1. LogType /\ day \in Day
      BY TypeSplit DEF RestType
    <3>2. learned[d][j] \in Nat /\ learned[day][k] \in Nat
      BY <3>1 DEF LogType
    <3> QED
      BY <2>2, <3>1, <3>2 DEF AppendLearned, LogType
  <2> QED
    BY <1>3, <2>1, <2>2
<1>8. IsQueued(j) => IsQueued(j)'
  BY <1>4, TypeSplit DEF MemType, IsQueued, QueueOperation, Forward
<1> QED
  BY <1>5, <1>6, <1>7, <1>8

LEMMA HandInit == Init => Hand
BY DEF Init, Hand, Idle, Effect

\* A step that takes the job in hand to another effect or to its failure.
LEMMA HandGoto ==
  ASSUME RunType, Hand, NEW j \in w.cur, NEW pc \in Effect \cup {"error", "reject"},
         Goto(pc), UNCHANGED queue,
         pc \in Effect => \/ w.pc \in Effect
                          \/ w.pc = "claimed" /\ j \notin Bad /\ j \notin queue["completed"]
  PROVE  Hand'
<1>1. w'.cur = w.cur /\ w'.todo = w.todo /\ w'.pc = pc
  BY DEF Goto, RunType
<1>2. w.cur = {j}
  BY DEF Hand
<1>3. pc \notin {"off", "recover", "jobs", "deliver", "claimed"}
  BY DEF Effect
<1>4. pc \in Effect => /\ w.cur \subseteq queue["processing"]
                       /\ w.cur \cap queue["completed"] = {} /\ w.cur \cap Bad = {}
  BY <1>2 DEF Hand
<1> QED
  BY <1>1, <1>2, <1>3, <1>4 DEF Hand

\* A step that is done with the job in hand, or that ends the run.
LEMMA HandDrop ==
  ASSUME RunType, Hand, NextJob \/ w' = Idle, queue["pending"] \subseteq queue'["pending"]
  PROVE  Hand'
<1>1. w'.cur = {} /\ w'.pc \in {"off", "jobs"} /\ w'.todo \subseteq queue'["pending"]
  <2>1. CASE NextJob
    BY <2>1 DEF NextJob, RunType, Hand
  <2>2. CASE w' = Idle
    BY <2>2 DEF Idle
  <2> QED
    BY <2>1, <2>2
<1> QED
  BY <1>1 DEF Hand, Effect

\* A step that leaves the run alone and keeps what it has in hand where it is.
LEMMA HandStays ==
  ASSUME Hand, UNCHANGED w, queue["pending"] \subseteq queue'["pending"],
         \/ w.cur = {}
         \/ queue'["completed"] = queue["completed"] /\ queue'["processing"] = queue["processing"]
  PROVE  Hand'
BY DEF Hand

LEMMA HandJob ==
  ASSUME TypeOK, Hand, NEW j \in Job,
         \/ RecoverJob(j) \/ Claim(j) \/ DropDuplicate(j) \/ Malformed(j) \/ OpenStore(j)
         \/ WritePage(j) \/ RebuildIndex(j) \/ AppendWikiLog(j) \/ CommitSnapshot(j)
         \/ Learn(j) \/ EnqueueMemory(j) \/ Complete(j)
         \/ CountCompleted(j) \/ WriteFailure(j) \/ RejectJob(j)
  PROVE  Hand'
<1>0. QueueType /\ RunType
  BY TypeSplit
<1>1. CASE RecoverJob(j)
  <2>1. w.cur = {} /\ UNCHANGED w
    BY <1>1 DEF RecoverJob, Hand
  <2>2. queue["pending"] \subseteq queue'["pending"]
    BY <1>0, <1>1 DEF RecoverJob, RecoverDirs, Move, SetAside, QueueType, JobDir
  <2> QED
    BY <2>1, <2>2, HandStays
<1>2. CASE Claim(j)
  <2>1. /\ w'.pc = "claimed" /\ w'.todo = w.todo \ {j} /\ w'.cur = {j}
    BY <1>0, <1>2 DEF Claim, RunType
  <2>2. /\ queue'["pending"] = queue["pending"] \ {j}
        /\ queue'["processing"] = queue["processing"] \cup {j}
    BY <1>0, <1>2 DEF Claim, Move, QueueType, JobDir
  <2> QED
    BY <2>1, <2>2 DEF Hand, Effect
<1>3. CASE DropDuplicate(j) \/ Complete(j) \/ RejectJob(j) \/ CountCompleted(j)
  <2>1. NextJob
    BY <1>3 DEF DropDuplicate, Complete, RejectJob, CountCompleted
  <2>2. queue["pending"] \subseteq queue'["pending"]
    BY <1>0, <1>3 DEF DropDuplicate, Complete, RejectJob, CountCompleted, Move, SetAside, QueueType, JobDir
  <2> QED
    BY <1>0, <2>1, <2>2, HandDrop
<1>4. CASE Malformed(j) \/ WriteFailure(j)
  <2>1. \E pc \in {"error", "reject"} : Goto(pc)
    BY <1>4 DEF Malformed, WriteFailure
  <2>2. j \in w.cur /\ UNCHANGED queue
    BY <1>4 DEF Malformed, WriteFailure, At
  <2> QED
    BY <1>0, <2>1, <2>2, HandGoto DEF Effect
<1>5. CASE OpenStore(j)
  <2>1. \E pc \in Effect : Goto(pc)
    BY <1>5 DEF OpenStore, Effect
  <2>2. /\ j \in w.cur /\ w.pc = "claimed" /\ UNCHANGED queue
        /\ j \notin Bad /\ j \notin queue["completed"]
    BY <1>5 DEF OpenStore, At, IsDuplicate
  <2> QED
    BY <1>0, <2>1, <2>2, HandGoto
<1>6. CASE \/ WritePage(j) \/ RebuildIndex(j) \/ AppendWikiLog(j) \/ CommitSnapshot(j)
           \/ Learn(j) \/ EnqueueMemory(j)
  <2> USE DEF WritePage, RebuildIndex, AppendWikiLog, CommitSnapshot, Learn, EnqueueMemory
  <2>1. \E pc \in Effect : Goto(pc)
    BY <1>6 DEF After, Effect
  <2>2. j \in w.cur /\ UNCHANGED queue /\ w.pc \in Effect
    BY <1>6 DEF At, Effect
  <2> QED
    BY <1>0, <2>1, <2>2, HandGoto
<1> QED
  BY <1>1, <1>2, <1>3, <1>4, <1>5, <1>6

LEMMA HandStep == TypeOK /\ Hand /\ [Next]_vars => Hand'
<1> SUFFICES ASSUME TypeOK, Hand, [Next]_vars PROVE Hand'
  OBVIOUS
<1>0. QueueType /\ RunType
  BY TypeSplit
<1>1. CASE BeginRun
  BY <1>0, <1>1 DEF BeginRun, RunType, Hand, Effect
<1>2. CASE ListJobs
  <2>1. w'.pc = "jobs" /\ w'.todo = queue["pending"] /\ w'.cur = w.cur /\ UNCHANGED queue
    BY <1>0, <1>2 DEF ListJobs, RunType
  <2> QED
    BY <1>2, <2>1 DEF ListJobs, Hand, Effect
<1>3. CASE JobsDone
  <2>1. w'.pc = "deliver" /\ w'.todo = w.todo /\ w'.cur = w.cur /\ UNCHANGED queue
    BY <1>0, <1>3 DEF JobsDone, Goto, RunType
  <2> QED
    BY <1>3, <2>1 DEF JobsDone, Hand, Effect
<1>4. CASE EndRun \/ Crash
  BY <1>0, <1>4, HandDrop DEF EndRun, Crash
<1>5. CASE Midnight \/ UNCHANGED vars
  BY <1>5, HandStays DEF Midnight, vars
<1>6. ASSUME NEW j \in Job, Publish(j) PROVE Hand'
  <2>1. /\ queue["pending"] \subseteq queue'["pending"]
        /\ queue'["completed"] = queue["completed"] /\ queue'["processing"] = queue["processing"]
    BY <1>0, <1>6 DEF Publish, QueueType, JobDir
  <2> QED
    BY <1>6, <2>1, HandStays DEF Publish
<1>7. ASSUME NEW j \in Job, Deliver(j) PROVE Hand'
  BY <1>7, HandStays DEF Deliver
<1>8. ASSUME NEW j \in Job, OperationFails(j) PROVE Hand'
  <2>1. w'.pc = "error" /\ w'.todo = w.todo /\ w'.cur = w.cur
    BY <1>0, <1>8 DEF OperationFails, Goto, RunType
  <2>2. queue'["pending"] = queue["pending"]
    BY <1>0, <1>8 DEF OperationFails, DoneDespiteError, Move, SetAside, QueueType, JobDir
  <2> QED
    BY <2>1, <2>2 DEF Hand, Effect
<1>9. ASSUME NEW j \in Job, ClaimFails(j) PROVE Hand'
  <2>1. CASE w' = Idle
    BY <1>0, <1>9, <2>1, HandDrop DEF ClaimFails
  <2>2. CASE w' = [w EXCEPT !.todo = @ \ {j}]
    BY <1>0, <1>9, <2>2 DEF ClaimFails, RunType, Hand, Effect
  <2> QED
    BY <1>9, <2>1, <2>2 DEF ClaimFails
<1> QED
  BY <1>1, <1>2, <1>3, <1>4, <1>5, <1>6, <1>7, <1>8, <1>9, HandJob DEF Next, WorkerStep

\* A step after which no job has got past its page.
LEMMA StagesQuiet ==
  ASSUME w'.cur = {} \/ w'.pc \notin Effect \ {"page"}
  PROVE  Stages'
BY DEF Stages, Effect

LEMMA StagesSame ==
  ASSUME TypeOK, [Next]_vars, Stages, UNCHANGED w
  PROVE  Stages'
<1>1. w.cur \subseteq Job
  BY TypeSplit DEF RunType
<1> QED
  BY <1>1, Grows DEF Stages

\* A step that takes the one job in hand, j, from its place to pc.
LEMMA StagesGoto ==
  ASSUME RunType, Hand, NEW j \in w.cur, NEW pc, Goto(pc),
         pc \in Effect \ {"page"} => HasPage(j)',
         pc \in {"learn", "memory", "complete"} => IsRecalled(j)',
         pc \in {"memory", "complete"} => IsLearned(j)',
         pc = "complete" => IsQueued(j)'
  PROVE  Stages'
<1>1. w'.cur = {j} /\ w'.pc = pc
  BY DEF Goto, RunType, Hand
<1> QED
  BY <1>1 DEF Stages

LEMMA StagesEffect ==
  ASSUME TypeOK, Hand, Stages, [Next]_vars, NEW j \in Job,
         \/ OpenStore(j) \/ WritePage(j) \/ RebuildIndex(j) \/ AppendWikiLog(j)
         \/ CommitSnapshot(j) \/ Learn(j) \/ EnqueueMemory(j)
  PROVE  Stages'
<1>0. RunType /\ WikiType /\ LogType /\ MemType /\ day \in Day
  BY TypeSplit DEF RestType
<1>1. CASE OpenStore(j)
  BY <1>0, <1>1, StagesGoto DEF OpenStore, At, HasPage, wiki
<1>2. CASE WritePage(j)
  <2>1. HasPage(j)'
    BY <1>0, <1>2 DEF WritePage, WikiType, HasPage
  <2> QED
    BY <1>0, <1>2, <2>1, StagesGoto DEF WritePage, At, After
<1>3. CASE RebuildIndex(j) \/ AppendWikiLog(j)
  <2>1. j \in w.cur /\ w.pc \in {"index", "log"} /\ \E pc \in {"log", "snapshot"} : Goto(pc)
    BY <1>3 DEF RebuildIndex, AppendWikiLog, At, After
  <2>2. HasPage(j)'
    BY <2>1, Grows DEF Stages, Effect
  <2> QED
    BY <1>0, <2>1, <2>2, StagesGoto
<1>4. CASE CommitSnapshot(j)
  <2>1. j \in w.cur /\ w.pc = "snapshot" /\ Goto("learn")
    BY <1>4 DEF CommitSnapshot, At, After
  <2>2. HasPage(j)
    BY <2>1 DEF Stages, Effect
  <2>3. HasPage(j)' /\ IsRecalled(j)'
    BY <1>4, <2>2 DEF CommitSnapshot, HasPage, IsRecalled, Readable
  <2> QED
    BY <1>0, <2>1, <2>3, StagesGoto
<1>5. CASE Learn(j)
  <2>1. j \in w.cur /\ w.pc = "learn" /\ Goto("memory")
    BY <1>5 DEF Learn, At, After
  <2>2. HasPage(j)' /\ IsRecalled(j)'
    BY <2>1, Grows DEF Stages, Effect
  <2>3. learned'[day][j] > 0
    <3>1. learned[day][j] \in Nat
      BY <1>0 DEF LogType
    <3>2. CASE AlreadyLearned(j)
      BY <1>5, <3>2 DEF Learn, AppendLearned, AlreadyLearned
    <3>3. CASE ~AlreadyLearned(j)
      BY <1>0, <1>5, <3>1, <3>3 DEF Learn, AppendLearned, LogType
    <3> QED
      BY <3>2, <3>3
  <2> QED
    BY <1>0, <2>1, <2>2, <2>3, StagesGoto DEF IsLearned
<1>6. CASE EnqueueMemory(j)
  <2>1. j \in w.cur /\ w.pc = "memory" /\ Goto("complete")
    BY <1>6 DEF EnqueueMemory, At, After
  <2>2. HasPage(j)' /\ IsRecalled(j)' /\ IsLearned(j)'
    BY <2>1, Grows DEF Stages, Effect
  <2>3. IsQueued(j)'
    BY <1>0, <1>6 DEF EnqueueMemory, QueueOperation, MemType, IsQueued
  <2> QED
    BY <1>0, <2>1, <2>2, <2>3, StagesGoto
<1> QED
  BY <1>1, <1>2, <1>3, <1>4, <1>5, <1>6

LEMMA StagesStep == TypeOK /\ Hand /\ Stages /\ [Next]_vars => Stages'
<1> SUFFICES ASSUME TypeOK, Hand, Stages, [Next]_vars PROVE Stages'
  OBVIOUS
<1>0. RunType
  BY TypeSplit
<1>1. CASE BeginRun \/ ListJobs \/ JobsDone \/ EndRun \/ Crash
  <2>1. w'.pc \notin Effect
    <3>1. CASE BeginRun \/ ListJobs \/ JobsDone
      BY <1>0, <3>1 DEF BeginRun, ListJobs, JobsDone, Goto, RunType, Effect
    <3>2. CASE EndRun \/ Crash
      BY <3>2 DEF EndRun, Crash, Idle, Effect
    <3> QED
      BY <1>1, <3>1, <3>2
  <2> QED
    BY <2>1, StagesQuiet
<1>2. CASE Midnight \/ UNCHANGED vars
  BY <1>2, StagesSame DEF Midnight, vars
<1>3. ASSUME NEW j \in Job, Publish(j) \/ Deliver(j) \/ RecoverJob(j) PROVE Stages'
  BY <1>3, StagesSame DEF Publish, Deliver, RecoverJob
<1>4. ASSUME NEW j \in Job, OperationFails(j) PROVE Stages'
  BY <1>0, <1>4, StagesQuiet DEF OperationFails, Goto, RunType, Effect
<1>5. ASSUME NEW j \in Job, ClaimFails(j) PROVE Stages'
  <2>1. w'.cur = {}
    BY <1>0, <1>5 DEF ClaimFails, RunType, Hand, Idle
  <2> QED
    BY <2>1, StagesQuiet
<1>6. ASSUME NEW j \in Job, Claim(j) PROVE Stages'
  BY <1>0, <1>6, StagesQuiet DEF Claim, RunType, Effect
<1>7. ASSUME NEW j \in Job, DropDuplicate(j) \/ Complete(j) \/ CountCompleted(j) \/ RejectJob(j)
      PROVE  Stages'
  BY <1>0, <1>7, StagesQuiet DEF DropDuplicate, Complete, CountCompleted, RejectJob, NextJob, RunType
<1>8. ASSUME NEW j \in Job, Malformed(j) \/ WriteFailure(j) PROVE Stages'
  BY <1>0, <1>8, StagesQuiet DEF Malformed, WriteFailure, Goto, RunType, Effect
<1> QED
  BY <1>1, <1>2, <1>3, <1>4, <1>5, <1>6, <1>7, <1>8, StagesEffect DEF Next, WorkerStep

LEMMA DoneStep ==
  TypeOK /\ Stages /\ CompletedMeansDone /\ [Next]_vars => CompletedMeansDone'
<1> SUFFICES ASSUME TypeOK, Stages, CompletedMeansDone, [Next]_vars PROVE CompletedMeansDone'
  OBVIOUS
<1>0. QueueType /\ RunType
  BY TypeSplit
<1>1. \/ queue'["completed"] = queue["completed"]
      \/ \E j \in w.cur : w.pc = "complete" /\ queue'["completed"] = queue["completed"] \cup {j}
  <2>1. ASSUME NEW j \in Job, OperationFails(j)
        PROVE  \/ queue'["completed"] = queue["completed"]
               \/ j \in w.cur /\ w.pc = "complete" /\ queue'["completed"] = queue["completed"] \cup {j}
    BY <1>0, <2>1 DEF OperationFails, DoneDespiteError, Move, SetAside, QueueType, JobDir
  <2>2. ASSUME NEW j \in Job, Complete(j)
        PROVE  j \in w.cur /\ w.pc = "complete" /\ queue'["completed"] = queue["completed"] \cup {j}
    BY <1>0, <2>2 DEF Complete, At, Move, QueueType, JobDir
  <2>3. ASSUME NEW j \in Job, \/ Publish(j) \/ RecoverJob(j) \/ Claim(j) \/ DropDuplicate(j)
                              \/ RejectJob(j)
        PROVE  queue'["completed"] = queue["completed"]
    BY <1>0, <2>3 DEF Publish, RecoverJob, RecoverDirs, Claim, DropDuplicate, RejectJob, Move, SetAside,
       QueueType, JobDir
  <2>4. ASSUME ~ \E j \in Job : \/ Publish(j) \/ RecoverJob(j) \/ Claim(j) \/ DropDuplicate(j)
                                \/ RejectJob(j) \/ Complete(j) \/ OperationFails(j)
        PROVE  UNCHANGED queue
    BY <2>4 DEF Next, WorkerStep, BeginRun, ListJobs, JobsDone, EndRun, Crash, Midnight, Deliver,
       ClaimFails, Malformed, OpenStore, WritePage, RebuildIndex, AppendWikiLog, CommitSnapshot,
       Learn, EnqueueMemory, CountCompleted, WriteFailure, vars
  <2> QED
    BY <2>1, <2>2, <2>3, <2>4
<1>2. \A j \in queue'["completed"] : j \in Job /\ IsRecalled(j) /\ IsLearned(j) /\ IsQueued(j)
  <2>1. \A j \in queue["completed"] : j \in Job /\ IsRecalled(j) /\ IsLearned(j) /\ IsQueued(j)
    BY <1>0 DEF QueueType, JobDir, CompletedMeansDone, IsRecalled, IsLearned, IsQueued
  <2>2. \A j \in w.cur : w.pc = "complete" => j \in Job /\ IsRecalled(j) /\ IsLearned(j) /\ IsQueued(j)
    BY <1>0 DEF RunType, Stages
  <2> QED
    BY <1>1, <2>1, <2>2
<1>3. \A j \in queue'["completed"] : IsRecalled(j)' /\ IsLearned(j)' /\ IsQueued(j)'
  BY <1>2, Grows
<1> QED
  BY <1>3 DEF CompletedMeansDone, IsRecalled, IsLearned, IsQueued

LEMMA StagesInit == Init => Stages /\ CompletedMeansDone
BY DEF Init, Idle, Stages, CompletedMeansDone, JobDir

\* A job is completed only when its page is on disk and recallable, the learning log
\* names it and its operation is queued, wherever earlier runs of it died.
THEOREM CompletesWhenDone == Spec => []CompletedMeansDone
BY TypeInit, HandInit, StagesInit, TypeStep, HandStep, StagesStep, DoneStep, PTL DEF Spec

-----------------------------------------------------------------------------
(* An operation under way is not queued again *)

\* A step that changes neither the queue nor the operations, after which the run
\* holds the same jobs.
LEMMA WaitingSame ==
  ASSUME TypeOK, Waiting, UNCHANGED <<mem, fails>>,
         w'.todo = w.todo, w'.cur = w.cur,
         w.pc \notin {"off", "recover"}, w'.pc \notin {"off", "recover"},
         w'.pc \in {"error", "reject"} => w.pc \in {"error", "reject"} \/ w.cur \subseteq Bad,
         queue'["completed"] = queue["completed"]
  PROVE  Waiting'
BY DEF Waiting

LEMMA WaitingJob ==
  ASSUME TypeOK, Hand, Waiting, NEW j \in Job,
         \/ RecoverJob(j) \/ Claim(j) \/ DropDuplicate(j) \/ Malformed(j) \/ OpenStore(j)
         \/ WritePage(j) \/ RebuildIndex(j) \/ AppendWikiLog(j) \/ CommitSnapshot(j)
         \/ Learn(j) \/ EnqueueMemory(j) \/ Complete(j)
         \/ CountCompleted(j) \/ WriteFailure(j) \/ RejectJob(j)
  PROVE  Waiting'
<1>0. QueueType /\ RunType /\ MemType
  BY TypeSplit
<1>1. CASE RecoverJob(j)
  <2>1. UNCHANGED <<w, mem, fails>> /\ w.pc = "recover"
    BY <1>1 DEF RecoverJob, env
  <2>2. /\ queue'["completed"] = queue["completed"]
        /\ queue["processing"] \cup queue["pending"] \subseteq queue'["processing"] \cup queue'["pending"]
    BY <1>0, <1>1 DEF RecoverJob, RecoverDirs, Move, SetAside, QueueType, JobDir
  <2> QED
    BY <2>1, <2>2 DEF Waiting
<1>2. CASE Claim(j)
  <2>1. w'.pc = "claimed" /\ w'.todo = w.todo \ {j} /\ w'.cur = {j} /\ w.cur = {}
    BY <1>0, <1>2 DEF Claim, RunType, Hand
  <2>2. w.pc = "jobs" /\ UNCHANGED <<mem, fails>> /\ queue'["completed"] = queue["completed"]
    BY <1>0, <1>2 DEF Claim, env, Move, QueueType, JobDir
  <2> QED
    BY <2>1, <2>2 DEF Waiting
<1>3. CASE DropDuplicate(j) \/ Complete(j) \/ RejectJob(j) \/ CountCompleted(j)
  <2>1. w'.pc = "jobs" /\ w'.todo = w.todo /\ w'.cur = {}
    BY <1>0, <1>3 DEF DropDuplicate, Complete, RejectJob, CountCompleted, NextJob, RunType
  <2>2. w.cur = {j} /\ w.pc \notin {"off", "recover"} /\ UNCHANGED <<mem, fails>>
    BY <1>3 DEF DropDuplicate, Complete, RejectJob, CountCompleted, At, Hand, env
  <2>3. queue["completed"] \subseteq queue'["completed"]
    BY <1>0, <1>3 DEF DropDuplicate, Complete, RejectJob, CountCompleted, Move, SetAside, QueueType, JobDir
  <2>4. j \in queue'["completed"] \/ (fails = 0 => j \in Bad)
    <3>1. CASE DropDuplicate(j) \/ Complete(j)
      BY <1>0, <3>1 DEF DropDuplicate, IsDuplicate, Complete, Move, SetAside, QueueType, JobDir
    <3>2. CASE RejectJob(j) \/ CountCompleted(j)
      BY <3>2 DEF RejectJob, CountCompleted, At, Waiting
    <3> QED
      BY <1>3, <3>1, <3>2
  <2> QED
    BY <2>1, <2>2, <2>3, <2>4 DEF Waiting
<1>4. CASE Malformed(j) \/ WriteFailure(j)
  <2>1. w'.pc \in {"error", "reject"} /\ w'.todo = w.todo /\ w'.cur = w.cur
    BY <1>0, <1>4 DEF Malformed, WriteFailure, Goto, RunType
  <2>2. j \in w.cur /\ (w.pc = "error" \/ (w.pc = "claimed" /\ j \in Bad))
    BY <1>4 DEF Malformed, WriteFailure, At
  <2>3. UNCHANGED <<queue, mem, fails>>
    BY <1>4 DEF Malformed, WriteFailure, env
  <2>4. w.cur = {j}
    BY <2>2 DEF Hand
  <2> QED
    BY <2>1, <2>2, <2>3, <2>4, WaitingSame
<1>5. CASE \/ OpenStore(j) \/ WritePage(j) \/ RebuildIndex(j) \/ AppendWikiLog(j)
           \/ CommitSnapshot(j) \/ Learn(j)
  <2> USE DEF OpenStore, WritePage, RebuildIndex, AppendWikiLog, CommitSnapshot, Learn
  <2>1. w'.pc \in Effect /\ w'.todo = w.todo /\ w'.cur = w.cur
    <3>1. \E pc \in Effect : Goto(pc)
      BY <1>5 DEF After, Effect
    <3> QED
      BY <1>0, <3>1 DEF Goto, RunType
  <2>2. w.pc \in Effect \cup {"claimed"} /\ UNCHANGED <<queue, mem, fails>>
    BY <1>5 DEF At, Effect, env
  <2> QED
    BY <2>1, <2>2, WaitingSame DEF Effect
<1>6. CASE EnqueueMemory(j)
  <2>1. w'.pc = "complete" /\ w'.todo = w.todo /\ w'.cur = w.cur /\ w.pc = "memory" /\ j \in w.cur
    BY <1>0, <1>6 DEF EnqueueMemory, After, At, Goto, RunType
  <2>2. UNCHANGED <<queue, fails>>
    BY <1>6 DEF EnqueueMemory, env
  <2>3. j \notin queue["completed"] /\ j \notin Bad
    BY <2>1 DEF Hand, Effect
  <2>4. mem' = mem \/ mem' = [mem EXCEPT ![j] = "pending"]
    BY <1>6 DEF EnqueueMemory, QueueOperation
  <2> QED
    BY <1>0, <2>1, <2>2, <2>3, <2>4 DEF Waiting, MemType
<1> QED
  BY <1>1, <1>2, <1>3, <1>4, <1>5, <1>6

LEMMA WaitingStep == TypeOK /\ Hand /\ Waiting /\ [Next]_vars => Waiting'
<1> SUFFICES ASSUME TypeOK, Hand, Waiting, [Next]_vars PROVE Waiting'
  OBVIOUS
<1>0. QueueType /\ RunType /\ MemType /\ fails \in Nat
  BY TypeSplit DEF RestType
<1>1. CASE BeginRun
  <2>1. w'.pc = "recover" /\ w.pc = "off" /\ UNCHANGED <<queue, mem, fails>>
    BY <1>0, <1>1 DEF BeginRun, RunType, env
  <2> QED
    BY <2>1 DEF Waiting
<1>2. CASE ListJobs
  <2>1. w'.pc = "jobs" /\ w'.todo = queue["pending"] /\ w.pc = "recover"
    BY <1>0, <1>2 DEF ListJobs, RunType
  <2>2. queue["processing"] = {} /\ UNCHANGED <<queue, mem, fails>>
    BY <1>2 DEF ListJobs, RecoverDirs, env
  <2> QED
    BY <2>1, <2>2 DEF Waiting
<1>3. CASE JobsDone
  <2>1. w'.pc = "deliver" /\ w'.todo = w.todo /\ w'.cur = w.cur /\ w.pc = "jobs"
    BY <1>0, <1>3 DEF JobsDone, Goto, RunType
  <2> QED
    BY <1>3, <2>1, WaitingSame DEF JobsDone, env
<1>4. CASE EndRun \/ Crash
  <2>1. w'.pc = "off" /\ w.pc # "off" /\ UNCHANGED <<queue, mem, fails>>
    BY <1>4 DEF EndRun, Crash, Idle, env
  <2>2. CASE w.pc = "recover"
    BY <2>1, <2>2 DEF Waiting
  <2>3. CASE w.pc \in {"error", "reject"}
    BY <2>1, <2>3 DEF Waiting, Hand
  <2>4. CASE w.pc \in {"jobs", "deliver"} \cup Effect \cup {"claimed"}
    BY <2>1, <2>4 DEF Waiting, Hand, Effect
  <2> QED
    BY <1>0, <2>1, <2>2, <2>3, <2>4 DEF RunType, PC
<1>5. CASE Midnight \/ UNCHANGED vars
  BY <1>5 DEF Midnight, vars, env, Waiting
<1>6. ASSUME NEW j \in Job, Publish(j) PROVE Waiting'
  <2>1. queue["pending"] \subseteq queue'["pending"] /\ UNCHANGED <<mem, fails, w>>
    BY <1>0, <1>6 DEF Publish, QueueType, JobDir
  <2>2. queue'["completed"] = queue["completed"] /\ queue'["processing"] = queue["processing"]
    BY <1>0, <1>6 DEF Publish, QueueType, JobDir
  <2> QED
    BY <2>1, <2>2 DEF Waiting
<1>7. ASSUME NEW j \in Job, Deliver(j) PROVE Waiting'
  <2>1. w.pc = "deliver" /\ UNCHANGED <<queue, fails, w>> /\ w.todo = {} /\ w.cur = {}
    BY <1>7 DEF Deliver, env, Hand
  <2>2. mem[j] # "none" /\ \A k \in Job : mem'[k] # "none" => mem[k] # "none"
    BY <1>0, <1>7 DEF Deliver, Forward, MemType
  <2> QED
    BY <2>1, <2>2 DEF Waiting
<1>8. ASSUME NEW j \in Job, OperationFails(j) \/ ClaimFails(j) PROVE Waiting'
  <2>1. fails' # 0
    BY <1>0, <1>8 DEF OperationFails, ClaimFails
  <2> QED
    BY <2>1 DEF Waiting
<1> QED
  BY <1>1, <1>2, <1>3, <1>4, <1>5, <1>6, <1>7, <1>8, WaitingJob DEF Next, WorkerStep

LEMMA EnqueueStep ==
  ASSUME TypeOK, Hand, Waiting, [Next]_vars, fails = 0, NEW j \in Job, mem[j] = "underway"
  PROVE  mem'[j] # "pending"
<1>1. \/ UNCHANGED mem
      \/ \E k \in w.cur : w.pc = "memory" /\ QueueOperation(k)
      \/ \E k \in Job : Forward(k)
  BY DEF Next, WorkerStep, BeginRun, ListJobs, JobsDone, EndRun, Crash, Midnight, Publish, Deliver,
         OperationFails, DoneDespiteError, ClaimFails, RecoverJob, Claim, DropDuplicate, Malformed,
         OpenStore, WritePage, RebuildIndex, AppendWikiLog, CommitSnapshot, Learn, EnqueueMemory,
         Complete, CountCompleted, WriteFailure, RejectJob, At, vars
<1>2. MemType
  BY TypeSplit
<1>3. ASSUME NEW k \in w.cur, w.pc = "memory", QueueOperation(k)
      PROVE  mem'[j] # "pending"
  <2>1. k # j
    BY <1>3 DEF Waiting, Hand, Effect
  <2> QED
    BY <1>2, <1>3, <2>1 DEF QueueOperation, MemType
<1> QED
  BY <1>1, <1>2, <1>3 DEF Forward, MemType

Enqueues == fails = 0 => \A j \in Job : mem[j] = "underway" => mem'[j] # "pending"

LEMMA WaitingInit == Init => Waiting
BY DEF Init, Idle, Waiting

\* Unless a file operation failed, a job run again after a crash does not queue an
\* operation that is on its way a second time (process_job, run_worker_locked).
THEOREM QueuesOnce == Spec => EnqueuedOnce
<1>1. TypeOK /\ Hand /\ Waiting /\ [Next]_vars => [Enqueues]_vars
  BY EnqueueStep DEF Enqueues
<1>2. [][Enqueues]_vars => EnqueuedOnce
  BY PTL DEF EnqueuedOnce, Enqueues
<1> QED
  BY <1>1, <1>2, TypeInit, HandInit, WaitingInit, TypeStep, HandStep, WaitingStep, PTL DEF Spec
=============================================================================
