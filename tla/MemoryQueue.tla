----------------------------- MODULE MemoryQueue -----------------------------
(***************************************************************************)
(* Durable delivery of memory operations by prometheus-learning-worker     *)
(* (pk-learning-worker/src/main.rs).  An operation is one JSON file, named *)
(* after its id, in a directory of memory/.  A worker run, holding         *)
(* worker.lock, reconciles every file with the remote ledger and moves it  *)
(* along pending -> submitting -> accepted -> completed | rejected.  The   *)
(* operator parks accepted operations in stalled and releases them, under  *)
(* the same lock.  `pk candidates accept` adds operations without taking   *)
(* the lock.  Any process may crash between two file operations.           *)
(***************************************************************************)
EXTENDS Naturals, Sequences, FiniteSets

CONSTANTS
  Op,            \* operation ids; their order is the order of the file names
  JobOp,         \* the ids queued by learning jobs, the others by accepted candidates
  Legacy,        \* ids whose record an older worker left in memory/retry
  Unreadable,    \* ids whose record read_operation refuses, wherever it is
  UnreadableDirs, \* the directories such records may be in to begin with
  Acceptor,      \* processes running `pk candidates accept`
  MaxEnqueue,    \* bound: how often each id is queued
  MaxCrash,      \* bound: crashes of the worker and of the operator's commands
  MaxCommand     \* bound: quarantine and release commands

ASSUME MemoryQueueAssumption ==
  /\ Op \subseteq Nat
  /\ JobOp \subseteq Op
  /\ Legacy \subseteq Op
  /\ Unreadable \subseteq Op
  /\ Legacy \cap Unreadable = {}
  /\ UnreadableDirs \subseteq {"pending", "submitting", "accepted", "stalled"}
  /\ MaxEnqueue \in Nat
  /\ MaxCrash \in Nat
  /\ MaxCommand \in Nat

\* memory/dead-letter and memory/manifests never hold an operation.
Dir == {"pending", "submitting", "accepted", "retry", "completed", "rejected", "stalled"}

\* The directories of one reconciliation pass, in the order of run_once.
Pass == <<"submitting", "accepted", "pending">>

\* The order in which queue_memory looks for an existing record.  (The code also looks
\* in dead-letter, before stalled: nothing puts a record there.)
MemoryStates ==
  <<"pending", "submitting", "accepted", "retry", "completed", "rejected", "stalled">>

\* Where locate_memory_operation looks once the listed path is gone.
LocateDirs == {"submitting", "accepted", "pending", "completed", "rejected", "stalled"}

\* The states of a receipt.  "accepted" and "processing" stand for the six
\* non-terminal ones (a change of state or of progress_seq); "none": no receipt.
Open     == {"accepted", "processing"}
Terminal == {"committed", "rejected"}
Receipt  == {"none"} \cup Open \cup Terminal

\* A record: its `state` field, its last receipt, and whether next_poll_at is
\* set to a time still to come.
LocalState == {"pending", "submitting", "accepted", "completed", "rejected", "stalled", "retry"}
Record     == [st : LocalState, rc : Receipt, hold : BOOLEAN]
Absent     == [st |-> "absent", rc |-> "none", hold |-> FALSE]
Fresh      == [st |-> "pending", rc |-> "none", hold |-> FALSE]

VARIABLES
  file,      \* file[d][o]: the record of o in directory d, or Absent
  lock,      \* who holds worker.lock
  w,         \* the worker run: its place and what it keeps in memory
  status,    \* the counters of the run, as sets of ids
  posts,     \* submissions on their way to the server
  ledger,    \* the server's ledger: state of each operation, or "none"
  cmd,       \* the operator's command under way
  listed,    \* ids ever listed in a quarantine manifest
  acc,       \* the `pk candidates accept` processes
  budget,    \* budget[o]: enqueues of o still allowed
  crashes, commands

others == <<posts, ledger, cmd, listed, acc, budget, crashes, commands>>
vars   == <<file, lock, w, status, others>>

-----------------------------------------------------------------------------
In(d, o)    == file[d][o] # Absent
Names(d)    == {o \in Op : In(d, o)}
Readable(o) == o \notin Unreadable
NoCounts    == [delivered |-> {}, inFlight |-> {}, deferred |-> {}, awaiting |-> {}]

\* The worker run: its program counter, the index in Pass of the directory
\* being reconciled, its listed names still to visit, the set `reconciled`,
\* the operation in hand (at most one), the directory of its file, its record
\* in memory, the receipt to apply, and whether the error at hand is a
\* transport failure.
NoRun == [pc |-> "off", phase |-> 1, todo |-> {}, seen |-> {}, cur |-> {},
          at |-> "pending", rec |-> Fresh, reply |-> "none", down |-> FALSE]

\* A command: the operations still to move and the one between its two steps.
NoCommand == [kind |-> "none", todo |-> {}, half |-> {}]

\* An accept process: step 0 idle, i looks in MemoryStates[i], 8 writes.
NoAccept == [step |-> 0, op |-> {}]

\* The queue starts empty, but for what an older worker left in memory/retry and
\* for records this worker cannot read, wherever they are.
Init ==
  /\ \E d \in UnreadableDirs \cup {"pending"} :
       /\ file = [e \in Dir |-> [o \in Op |->
                    IF e = "retry" /\ o \in Legacy THEN [Fresh EXCEPT !.st = "retry"]
                    ELSE IF e = d /\ o \in Unreadable THEN Fresh
                    ELSE Absent]]
       /\ ledger = [o \in Op |-> IF o \in Unreadable /\ d # "pending" THEN "accepted" ELSE "none"]
       /\ listed = IF d = "stalled" THEN Unreadable ELSE {}
  /\ lock = "free" /\ w = NoRun
  /\ status = NoCounts
  /\ posts = {}
  /\ cmd = NoCommand
  /\ acc = [a \in Acceptor |-> NoAccept]
  /\ budget = [o \in Op |-> IF o \in Unreadable THEN 0 ELSE MaxEnqueue]
  /\ crashes = 0 /\ commands = 0

-----------------------------------------------------------------------------
(* Moving files.  A durable_rename replaces the target. *)

Write(d, o, r)    == file' = [file EXCEPT ![d][o] = r]
\* A record leaves one directory and arrives, as r, in another.
Move(d, e, o, r)  == file' = [file EXCEPT ![d][o] = Absent, ![e][o] = r]
Rename(d, e, o)   == Move(d, e, o, file[d][o])
\* preserve_duplicate_in keeps the bytes under a name that no pass lists.
SetAside(d, o)    == Write(d, o, Absent)

\* The run ends and drops its memory; its counters stay in status.
EndRun == lock' = "free" /\ w' = NoRun

-----------------------------------------------------------------------------
(* The worker, up to the reconciliation pass *)

\* Take the lock; a second worker finds it taken and leaves without a step.
Begin ==
  /\ w.pc = "off" /\ lock = "free"
  /\ lock' = "worker" /\ w' = [w EXCEPT !.pc = "recover"] /\ status' = NoCounts
  /\ UNCHANGED <<file, others>>

\* A submission interrupted after its record was rewritten is put back to the
\* state "submitting"; it never goes back to pending.
RecoverSubmitting(o) ==
  /\ w.pc = "recover" /\ In("submitting", o) /\ Readable(o)
  /\ file["submitting"][o].st # "submitting"
  /\ Write("submitting", o, [file["submitting"][o] EXCEPT !.st = "submitting"])
  /\ UNCHANGED <<lock, w, status, others>>

\* One unreadable record ends the run with an error.
RecoverAborts ==
  /\ w.pc = "recover" /\ Names("submitting") \cap Unreadable # {}
  /\ EndRun
  /\ UNCHANGED <<file, status, others>>

RecoverDone ==
  /\ w.pc = "recover"
  /\ \A o \in Names("submitting") : Readable(o) /\ file["submitting"][o].st = "submitting"
  /\ w' = [w EXCEPT !.pc = "migrate"]
  /\ UNCHANGED <<file, lock, status, others>>

\* Records of an older worker join pending under the same id, unless one is
\* already there.  (Rewritten in place and then renamed; dying between the two
\* leaves a record that the next run migrates just the same.)
MigrateRetry(o) ==
  /\ w.pc = "migrate" /\ In("retry", o)
  /\ IF In("pending", o)
     THEN SetAside("retry", o)
     ELSE Move("retry", "pending", o, [file["retry"][o] EXCEPT !.st = "pending"])
  /\ UNCHANGED <<lock, w, status, others>>

MigrateDone ==
  /\ w.pc = "migrate" /\ Names("retry") = {}
  /\ w' = [w EXCEPT !.pc = "jobs"]
  /\ UNCHANGED <<file, lock, status, others>>

\* A learning job queues its operation, unless it is pending or completed.
\* (JobQueue has the job around this call.)
EnqueueFromJob(o) ==
  /\ w.pc = "jobs" /\ o \in JobOp /\ budget[o] > 0
  /\ budget' = [budget EXCEPT ![o] = @ - 1]
  /\ IF In("pending", o) \/ In("completed", o)
     THEN UNCHANGED file
     ELSE Write("pending", o, Fresh)
  /\ UNCHANGED <<lock, w, status, posts, ledger, cmd, listed, acc, crashes, commands>>

JobsDone ==
  /\ w.pc = "jobs"
  /\ w' = [w EXCEPT !.pc = "scan", !.todo = Names(Pass[1])]
  /\ UNCHANGED <<file, lock, status, others>>

-----------------------------------------------------------------------------
(* The reconciliation pass: three directories, each listed when its turn comes *)

NextInOrder(o) == o \in w.todo /\ \A p \in w.todo : o <= p

\* Mutant: a record is polled again when its new directory is listed.
NeverReconciled(o) == FALSE

\* Whether this run has already handled a record of that name.
AlreadyReconciled(o) == o \in w.seen

\* Mutant: the comparison with next_poll_at is reversed.
PollDeferredReversed(o) == /\ Pass[w.phase] = "accepted"
                           /\ Readable(o) /\ ~file["accepted"][o].hold

\* Whether the record's backoff window is still open.
PollDeferred(o) == /\ Pass[w.phase] = "accepted"
                   /\ Readable(o) /\ file["accepted"][o].hold

NextDirectory ==
  /\ w.pc = "scan" /\ w.todo = {} /\ w.phase < Len(Pass)
  /\ w' = [w EXCEPT !.phase = @ + 1, !.todo = Names(Pass[w.phase + 1])]
  /\ UNCHANGED <<file, lock, status, others>>

SkipReconciled(o) ==
  /\ w.pc = "scan" /\ NextInOrder(o) /\ AlreadyReconciled(o)
  /\ w' = [w EXCEPT !.todo = @ \ {o}]
  /\ UNCHANGED <<file, lock, status, others>>

Defer(o) ==
  /\ w.pc = "scan" /\ NextInOrder(o) /\ ~AlreadyReconciled(o) /\ PollDeferred(o)
  /\ w' = [w EXCEPT !.todo = @ \ {o}, !.seen = @ \cup {o}]
  /\ status' = [status EXCEPT !.deferred = @ \cup {o}]
  /\ UNCHANGED <<file, lock, others>>

\* Reading the record fails, and so does record_memory_error, which reads it
\* again: the run ends before status.json is written.
ReconcileAborts(o) ==
  /\ w.pc = "scan" /\ NextInOrder(o) /\ ~AlreadyReconciled(o) /\ ~Readable(o)
  /\ EndRun
  /\ UNCHANGED <<file, status, others>>

\* A pending record is marked in place before it moves to submitting; any other
\* record is looked up where it is.
Reconcile(o) ==
  /\ w.pc = "scan" /\ NextInOrder(o) /\ ~AlreadyReconciled(o) /\ ~PollDeferred(o) /\ Readable(o)
  /\ LET d == Pass[w.phase]
         r == file[d][o]
         take(pc, mem) == w' = [w EXCEPT !.pc = pc, !.cur = {o}, !.at = d, !.rec = mem,
                                         !.todo = @ \ {o}, !.seen = @ \cup {o}]
     IN IF r.st = "pending"
        THEN LET marked == [r EXCEPT !.st = "submitting"]
             IN Write(d, o, marked) /\ take("rename", marked)
        ELSE take("lookup", r) /\ UNCHANGED file
  /\ UNCHANGED <<lock, status, others>>

MoveToSubmitting(o) ==
  /\ w.pc = "rename" /\ o \in w.cur
  /\ Rename(w.at, "submitting", o)
  /\ w' = [w EXCEPT !.pc = "lookup", !.at = "submitting"]
  /\ UNCHANGED <<lock, status, others>>

-----------------------------------------------------------------------------
(* Talking to the ledger.  Any request may fail; `down` is a timeout or a     *)
(* refused connection, the other failures are an error status, a body that   *)
(* does not parse or a receipt that does not match the operation.            *)

Fail(isDown) == w' = [w EXCEPT !.pc = "error", !.down = isDown]

LookupFound(o) ==
  /\ w.pc = "lookup" /\ o \in w.cur /\ ledger[o] # "none"
  /\ w' = [w EXCEPT !.pc = "apply", !.reply = ledger[o]]
  /\ UNCHANGED <<file, lock, status, others>>

\* Mutant: an operation the server has only recorded counts as not found.
LookupNotFoundUnlessDecided(o) ==
  /\ w.pc = "lookup" /\ o \in w.cur /\ ledger[o] \in {"none", "accepted"}
  /\ w' = [w EXCEPT !.pc = "ready"]
  /\ UNCHANGED <<file, lock, status, others>>

LookupNotFound(o) ==
  /\ w.pc = "lookup" /\ o \in w.cur /\ ledger[o] = "none"
  /\ w' = [w EXCEPT !.pc = "ready"]
  /\ UNCHANGED <<file, lock, status, others>>

LedgerReady ==
  /\ w.pc = "ready"
  /\ w' = [w EXCEPT !.pc = "post"]
  /\ UNCHANGED <<file, lock, status, others>>

RequestFails(isDown) ==
  /\ w.pc \in {"lookup", "ready"}
  /\ Fail(isDown)
  /\ UNCHANGED <<file, lock, status, others>>

Submit(o) ==
  /\ w.pc = "post" /\ o \in w.cur
  /\ posts' = posts \cup {o}
  /\ w' = [w EXCEPT !.pc = "await"]
  /\ UNCHANGED <<file, lock, status, ledger, cmd, listed, acc, budget, crashes, commands>>

SubmitAnswered(o) ==
  /\ w.pc = "await" /\ o \in w.cur /\ o \notin posts /\ ledger[o] # "none"
  /\ w' = [w EXCEPT !.pc = "apply", !.reply = ledger[o]]
  /\ UNCHANGED <<file, lock, status, others>>

\* The answer never comes or is an error; the submission may be lost or may
\* still reach the server.
SubmitFails(o, isDown) ==
  /\ w.pc = "await" /\ o \in w.cur
  /\ Fail(isDown)
  /\ posts' \in {posts, posts \ {o}}
  /\ UNCHANGED <<file, lock, status, ledger, cmd, listed, acc, budget, crashes, commands>>

-----------------------------------------------------------------------------
(* apply_receipt rewrites the record in place, then moves it *)

\* Mutant: work in progress taken for work done.
DestinationEager(r) == CASE r \in {"committed", "processing"} -> "completed"
                         [] r = "rejected" -> "rejected"
                         [] OTHER          -> "accepted"

\* The directory a receipt leads to, and the local state of its records.
Destination(r) == CASE r = "committed" -> "completed"
                    [] r = "rejected"  -> "rejected"
                    [] OTHER           -> "accepted"

\* An unchanged receipt opens a backoff window, a changed one closes it.
Observed(old, r) == [st |-> Destination(r), rc |-> r, hold |-> old.rc = r]

\* Mutant: any change of the receipt counts as delivery.
TransitionedOnProgress(old, r) == old.rc # r

\* Counted as delivered: the receipt took the operation to a new local state.
Transitioned(old, r) == Destination(r) # old.st

\* Mutant: the record moves without being rewritten.
ApplyReceiptUnwritten(o) ==
  /\ w.pc = "apply" /\ o \in w.cur
  /\ w' = [w EXCEPT !.pc = "settle"]
  /\ UNCHANGED <<file, lock, status, others>>

ApplyReceipt(o) ==
  /\ w.pc = "apply" /\ o \in w.cur
  /\ Write(w.at, o, Observed(w.rec, w.reply))
  /\ w' = [w EXCEPT !.pc = "settle"]
  /\ UNCHANGED <<lock, status, others>>

\* Mutant: the check for a duplicate is reversed.
SettleFileReversed(o) ==
  LET target == Destination(w.reply)
  IN IF w.at = target THEN UNCHANGED file
     ELSE IF In(target, o) THEN Rename(w.at, target, o)
     ELSE SetAside(w.at, o)

SettleFile(o) ==
  LET target == Destination(w.reply)
  IN IF w.at = target THEN UNCHANGED file
     ELSE IF In(target, o) THEN SetAside(w.at, o)
     ELSE Rename(w.at, target, o)

Settle(o) ==
  /\ w.pc = "settle" /\ o \in w.cur
  /\ SettleFile(o)
  /\ status' = IF Transitioned(w.rec, w.reply)
               THEN [status EXCEPT !.delivered = @ \cup {o}]
               ELSE [status EXCEPT !.inFlight = @ \cup {o}]
  /\ w' = [w EXCEPT !.pc = "scan", !.cur = {}, !.at = "pending", !.rec = Fresh, !.reply = "none"]
  /\ UNCHANGED <<lock, others>>

\* locate_memory_operation: the listed path first, then every durable state.
Located(o) == In(Pass[w.phase], o) \/ \E d \in LocateDirs : In(d, o)

\* The error goes into the record's last_error; a transport failure ends the
\* pass.  A record that is nowhere would end the run.
RecordError(o) ==
  /\ w.pc = "error" /\ o \in w.cur /\ Located(o)
  /\ status' = [status EXCEPT !.awaiting = @ \cup {o}]
  /\ w' = [w EXCEPT !.pc = IF w.down THEN "finish" ELSE "scan", !.down = FALSE,
                    !.cur = {}, !.at = "pending", !.rec = Fresh]
  /\ UNCHANGED <<file, lock, others>>

\* Write status.json and release the lock.
Finish ==
  /\ \/ w.pc = "finish"
     \/ w.pc = "scan" /\ w.todo = {} /\ w.phase = Len(Pass)
  /\ EndRun
  /\ UNCHANGED <<file, status, others>>

\* The process dies anywhere; the system releases its lock.
CrashWorker ==
  /\ w.pc # "off" /\ crashes < MaxCrash
  /\ EndRun
  /\ crashes' = crashes + 1
  /\ UNCHANGED <<file, status, posts, ledger, cmd, listed, acc, budget, commands>>

-----------------------------------------------------------------------------
(* The operator: quarantine and release, under the worker's lock *)

\* The manifest, written before the first move.
RecordIntent(S) == listed' = listed \cup S

\* Quarantine takes the accepted operations that are stale.  Whether one is
\* depends on the time (ReceiptClock), so the selection is any set of readable
\* ones; nothing moves if one of them is already parked.
Quarantine(S) ==
  /\ lock = "free" /\ commands < MaxCommand
  /\ S # {} /\ S \subseteq Names("accepted") \ Unreadable
  /\ S \cap Names("stalled") = {}
  /\ lock' = "operator" /\ commands' = commands + 1
  /\ cmd' = [kind |-> "quarantine", todo |-> S, half |-> {}]
  /\ RecordIntent(S)
  /\ UNCHANGED <<file, w, status, posts, ledger, acc, budget, crashes>>

\* Rename first, then rewrite the state.
ParkMove(o) ==
  /\ cmd.kind = "quarantine" /\ cmd.half = {} /\ o \in cmd.todo
  /\ Rename("accepted", "stalled", o)
  /\ cmd' = [cmd EXCEPT !.todo = @ \ {o}, !.half = {o}]
  /\ UNCHANGED <<lock, w, status, posts, ledger, listed, acc, budget, crashes, commands>>

ParkMark(o) ==
  /\ cmd.kind = "quarantine" /\ o \in cmd.half
  /\ Write("stalled", o, [file["stalled"][o] EXCEPT !.st = "stalled"])
  /\ cmd' = [cmd EXCEPT !.half = {}]
  /\ UNCHANGED <<lock, w, status, posts, ledger, listed, acc, budget, crashes, commands>>

\* A record with a receipt goes back to accepted, one without to pending.
ReleaseTarget(r) == IF r.rc # "none" THEN "accepted" ELSE "pending"

\* Release refuses to move anything if a parked record is unreadable or if the
\* place of one of the operations is taken.
Release(S) ==
  /\ lock = "free" /\ commands < MaxCommand
  /\ Names("stalled") \cap Unreadable = {}
  /\ S # {} /\ S \subseteq Names("stalled")
  /\ \A o \in S : ~In(ReleaseTarget(file["stalled"][o]), o)
  /\ lock' = "operator" /\ commands' = commands + 1
  /\ cmd' = [kind |-> "release", todo |-> S, half |-> {}]
  /\ UNCHANGED <<file, w, status, posts, ledger, listed, acc, budget, crashes>>

\* Rewrite first, then rename.
ReleaseMark(o) ==
  /\ cmd.kind = "release" /\ cmd.half = {} /\ o \in cmd.todo
  /\ Write("stalled", o, [file["stalled"][o] EXCEPT !.st = ReleaseTarget(file["stalled"][o]),
                                                    !.hold = FALSE])
  /\ cmd' = [cmd EXCEPT !.todo = @ \ {o}, !.half = {o}]
  /\ UNCHANGED <<lock, w, status, posts, ledger, listed, acc, budget, crashes, commands>>

ReleaseMove(o) ==
  /\ cmd.kind = "release" /\ o \in cmd.half
  /\ Rename("stalled", ReleaseTarget(file["stalled"][o]), o)
  /\ cmd' = [cmd EXCEPT !.half = {}]
  /\ UNCHANGED <<lock, w, status, posts, ledger, listed, acc, budget, crashes, commands>>

CommandDone ==
  /\ cmd.kind # "none" /\ cmd.todo = {} /\ cmd.half = {}
  /\ lock' = "free" /\ cmd' = NoCommand
  /\ UNCHANGED <<file, w, status, posts, ledger, listed, acc, budget, crashes, commands>>

CrashCommand ==
  /\ cmd.kind # "none" /\ crashes < MaxCrash
  /\ lock' = "free" /\ cmd' = NoCommand /\ crashes' = crashes + 1
  /\ UNCHANGED <<file, w, status, posts, ledger, listed, acc, budget, commands>>

-----------------------------------------------------------------------------
(* `pk candidates accept`: queue_memory, without the lock.  The command may be *)
(* run again, by anyone, for a candidate that is still pending.              *)

StartAccept(a, o) ==
  /\ acc[a] = NoAccept /\ o \in Op \ JobOp /\ budget[o] > 0
  /\ acc' = [acc EXCEPT ![a] = [step |-> 1, op |-> {o}]]
  /\ budget' = [budget EXCEPT ![o] = @ - 1]
  /\ UNCHANGED <<file, lock, w, status, posts, ledger, cmd, listed, crashes, commands>>

\* Look in one directory; a record there ends the command.
ProbeState(a, o) ==
  /\ acc[a].step \in 1..Len(MemoryStates) /\ o \in acc[a].op
  /\ acc' = [acc EXCEPT ![a] = IF In(MemoryStates[acc[a].step], o) THEN NoAccept
                               ELSE [step |-> @.step + 1, op |-> @.op]]
  /\ UNCHANGED <<file, lock, w, status, posts, ledger, cmd, listed, budget, crashes, commands>>

WriteAccepted(a, o) ==
  /\ acc[a].step = Len(MemoryStates) + 1 /\ o \in acc[a].op
  /\ Write("pending", o, Fresh)
  /\ acc' = [acc EXCEPT ![a] = NoAccept]
  /\ UNCHANGED <<lock, w, status, posts, ledger, cmd, listed, budget, crashes, commands>>

-----------------------------------------------------------------------------
(* The server and the clock (external) *)

\* The ledger is keyed by operation id: a second submission changes nothing.
ServerRecords(o) ==
  /\ o \in posts
  /\ posts' = posts \ {o}
  /\ ledger' = [ledger EXCEPT ![o] = IF @ = "none" THEN "accepted" ELSE @]
  /\ UNCHANGED <<file, lock, w, status, cmd, listed, acc, budget, crashes, commands>>

ServerAdvances(o) ==
  /\ ledger[o] = "accepted"
  /\ ledger' = [ledger EXCEPT ![o] = "processing"]
  /\ UNCHANGED <<file, lock, w, status, posts, cmd, listed, acc, budget, crashes, commands>>

ServerDecides(o, r) ==
  /\ ledger[o] \in Open /\ r \in Terminal
  /\ ledger' = [ledger EXCEPT ![o] = r]
  /\ UNCHANGED <<file, lock, w, status, posts, cmd, listed, acc, budget, crashes, commands>>

\* next_poll_at of an accepted record is reached.
BackoffElapses(o) ==
  /\ file["accepted"][o].hold
  /\ Write("accepted", o, [file["accepted"][o] EXCEPT !.hold = FALSE])
  /\ UNCHANGED <<lock, w, status, others>>

-----------------------------------------------------------------------------
WorkerStep ==
  \/ RecoverAborts \/ RecoverDone \/ MigrateDone \/ JobsDone
  \/ NextDirectory \/ LedgerReady \/ Finish
  \/ \E isDown \in BOOLEAN : RequestFails(isDown)
  \/ \E o \in Op :
       \/ RecoverSubmitting(o) \/ MigrateRetry(o) \/ EnqueueFromJob(o)
       \/ SkipReconciled(o) \/ Defer(o) \/ ReconcileAborts(o) \/ Reconcile(o)
       \/ MoveToSubmitting(o) \/ LookupFound(o) \/ LookupNotFound(o)
       \/ Submit(o) \/ SubmitAnswered(o) \/ ApplyReceipt(o) \/ Settle(o) \/ RecordError(o)
       \/ \E isDown \in BOOLEAN : SubmitFails(o, isDown)

CommandStep ==
  \/ CommandDone
  \/ \E o \in Op : ParkMove(o) \/ ParkMark(o) \/ ReleaseMark(o) \/ ReleaseMove(o)

ServerStep ==
  \E o \in Op : ServerRecords(o) \/ ServerAdvances(o) \/ \E r \in Terminal : ServerDecides(o, r)

AcceptStep ==
  \E a \in Acceptor, o \in Op : StartAccept(a, o) \/ ProbeState(a, o) \/ WriteAccepted(a, o)

Next ==
  \/ Begin \/ WorkerStep \/ CrashWorker
  \/ \E S \in SUBSET Op : Quarantine(S) \/ Release(S)
  \/ CommandStep \/ CrashCommand
  \/ AcceptStep \/ ServerStep
  \/ \E o \in Op : BackoffElapses(o)

Spec == Init /\ [][Next]_vars

(***************************************************************************)
(* Fairness.  A scheduler outside the program starts the worker again and  *)
(* again; a process that runs keeps running unless it crashes; the server  *)
(* answers a request that is repeated for ever, and decides what it has    *)
(* recorded; time passes.  Nobody is obliged to run the operator's         *)
(* commands or to accept a candidate.                                      *)
(***************************************************************************)
Fairness ==
  /\ WF_vars(Begin) /\ WF_vars(WorkerStep) /\ WF_vars(CommandStep)
  /\ \A o \in Op :
       /\ SF_vars(LookupFound(o) \/ LookupNotFound(o))
       /\ SF_vars(SubmitAnswered(o)) /\ SF_vars(ServerRecords(o))
       /\ SF_vars(LedgerReady /\ o \in w.cur)
       /\ WF_vars(\E r \in Terminal : ServerDecides(o, r))
       /\ WF_vars(BackoffElapses(o))

FairSpec == Spec /\ Fairness

-----------------------------------------------------------------------------
(* Properties *)

PC == {"off", "recover", "migrate", "jobs", "scan", "rename", "lookup", "ready", "post",
       "await", "apply", "settle", "error", "finish"}
Run == [pc : PC, phase : 1..3, todo : SUBSET Op, seen : SUBSET Op, cur : SUBSET Op,
        at : {"pending", "submitting", "accepted"}, rec : Record \cup {Absent},
        reply : Receipt, down : BOOLEAN]
Counts == [delivered : SUBSET Op, inFlight : SUBSET Op,
           deferred : SUBSET Op, awaiting : SUBSET Op]

\* Type invariant.
TypeOK ==
  /\ file \in [Dir -> [Op -> Record \cup {Absent}]]
  /\ lock \in {"free", "worker", "operator"}
  /\ w \in Run
  /\ status \in Counts
  /\ posts \in SUBSET Op
  /\ ledger \in [Op -> Receipt]
  /\ cmd \in [kind : {"none", "quarantine", "release"}, todo : SUBSET Op, half : SUBSET Op]
  /\ listed \in SUBSET Op
  /\ acc \in [Acceptor -> [step : 0..8, op : SUBSET Op]]
  /\ budget \in [Op -> Nat]
  /\ crashes \in Nat /\ commands \in Nat

Known(o) == \E d \in Dir : In(d, o)

\* README "preserve every queue record": no step of any process, crashes
\* included, leaves an operation that has a record with none in a directory
\* that some pass lists.
KeepsEveryOperation == [][\A o \in Op : Known(o) => Known(o)']_vars

\* The directory of a record never says more than the server has recorded:
\* completed and rejected ones are decided so, accepted and stalled ones known.
LedgerAgreement ==
  \A o \in Op :
    /\ In("completed", o) => ledger[o] = "committed"
    /\ In("rejected", o) => ledger[o] = "rejected"
    /\ In("accepted", o) \/ In("stalled", o) => ledger[o] # "none"

\* Terminal evidence is never moved, rewritten or replaced (a duplicate that
\* arrives later is set aside).
TerminalIsFinal ==
  [][\A o \in Op : \A d \in {"completed", "rejected"} :
       In(d, o) => file'[d][o] = file[d][o]]_vars

\* One run counts an operation under one heading, although it lists three
\* directories and moves records from one to the next.
CountedOnce ==
  \A o \in Op : Cardinality({k \in DOMAIN status : o \in status[k]}) <= 1

\* A rename never replaces a record that carries anything: the checks made when
\* a name is taken in hand still hold when its file moves.  (A released record
\* without a receipt may replace a fresh one that an accept has just queued.)
RenamesReplaceNothing ==
  \A o \in Op :
    /\ w.pc = "rename" /\ o \in w.cur => ~In("submitting", o)
    /\ cmd.kind = "quarantine" /\ o \in cmd.todo => ~In("stalled", o)
    /\ cmd.kind = "release" /\ o \in cmd.todo \cup cmd.half
         => file[ReleaseTarget(file["stalled"][o])][o] \in {Absent, Fresh}

\* Every parked operation is listed in a manifest, even if the command died.
ParkedIsListed == \A o \in Op : In("stalled", o) => o \in listed

\* An operation with a receipt, in any of its records, is not submitted again.
ReceiptStopsSubmission ==
  \A o \in Op : w.pc = "post" /\ o \in w.cur => \A d \in Dir : file[d][o].rc = "none"

\* Without concurrent accepts, a readable record's receipt is the one its directory stands
\* for, whatever step a crash or a command interrupted.
ReceiptMatchesDirectory ==
  \A o \in Op \ Unreadable :
    /\ In("pending", o) /\ file["pending"][o].st = "pending" => file["pending"][o].rc = "none"
    /\ \A d \in {"accepted", "stalled"} : In(d, o) => file[d][o].rc # "none"
    /\ In("completed", o) => file["completed"][o].rc = "committed"
    /\ In("rejected", o) => file["rejected"][o].rc = "rejected"

\* README: memoryDelivered counts operations that moved to a new local state.
DeliveredMoved ==
  [][\A o \in Op : o \in status'.delivered \ status.delivered
       => \E d \in Dir : In(d, o) /\ ~In(d, o)']_vars

\* Every operation reaches a terminal directory unless the operator parks it.
Delivers ==
  \A o \in Op : Known(o) ~> (In("completed", o) \/ In("rejected", o) \/ In("stalled", o))
=============================================================================
