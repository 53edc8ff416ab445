------------------------------ MODULE Candidates ------------------------------
(***************************************************************************)
(* Promotion and skill candidates: the learning worker proposes them       *)
(* (propose and write_candidate of promotion.rs and skill_candidates.rs)   *)
(* and a person decides them with pk candidates accept | reject            *)
(* (pk-cli/src/candidates.rs).  The two share the directories pending,     *)
(* accepted and rejected and no lock, so every check, read, rewrite and    *)
(* rename of the one may fall between two of the other.  Both may die.     *)
(***************************************************************************)
EXTENDS Naturals, Sequences

CONSTANTS
  Candidate,
  Skill,       \* the skill candidates: accepting one has no effects
  Lesson,      \* evidence of a candidate
  User,        \* command invocations that may overlap
  MaxCommand,  \* bound: commands started
  MaxCrash     \* bound: crashes of worker and commands

ASSUME CandidatesAssumption ==
  Skill \subseteq Candidate /\ MaxCommand \in Nat /\ MaxCrash \in Nat

Decision == {"accepted", "rejected"}
File     == [evidence : SUBSET Lesson, state : Decision \cup {"pending"}]
Absent   == [evidence |-> {}, state |-> "absent"]
Proposal(evidence) == [evidence |-> evidence, state |-> "pending"]

\* Mutant: the places where an operation ends are looked at first.
MemoryStatesDecidedFirst ==
  <<"completed", "rejected", "accepted", "submitting", "pending", "stalled">>

\* The directories of the memory queue in the order of queue_memory's search.  (The code
\* also looks in retry and dead-letter: no operation of a candidate is put there.)
MemoryStates == <<"pending", "submitting", "accepted", "completed", "rejected", "stalled">>
MemoryState  == {MemoryStates[i] : i \in DOMAIN MemoryStates}

VARIABLES
  pending,   \* pending[c]: the file in pending, or Absent
  decided,   \* decided[d]: candidates with a file in directory d
  lessons,   \* lessons[c]: the recurring lessons the index holds for c
  worker,    \* the worker: its place, candidates to propose, the one in hand (at most
             \* one); history: was that one settled when the worker took it up
  user,      \* user[u]: place, candidate (at most one), decision, the file as read;
             \* and the directory its search has come to;
             \* history: no other command has been under way since it started, and
             \* the operation was moved back behind the search
  shared,    \* candidates with an entry in the shared wiki and its prompt snapshot
  mem,       \* mem[c]: the directories with a record of c's memory operation
  commands, crashes

vars == <<pending, decided, lessons, worker, user, shared, mem, commands, crashes>>

Off  == [at |-> "off", todo |-> {}, cur |-> {}, settled |-> FALSE]
Idle == [at |-> "idle", cur |-> {}, verdict |-> "accepted", copy |-> Absent,
         step |-> 1, lone |-> TRUE, overtaken |-> FALSE]

Init ==
  /\ pending = [c \in Candidate |-> Absent]
  /\ decided = [d \in Decision |-> {}]
  /\ lessons = [c \in Candidate |-> {}]
  /\ worker = Off
  /\ user = [u \in User |-> Idle]
  /\ shared = {}
  /\ mem = [c \in Candidate |-> {}]
  /\ commands = 0 /\ crashes = 0

Settled(c) == \E d \in Decision : c \in decided[d]

-----------------------------------------------------------------------------
(* The worker's pass *)

WorkerAt(c, place) == worker.at = place /\ c \in worker.cur
NextCandidate == worker' = [worker EXCEPT !.at = "next", !.cur = {}]
UnchangedByWorker == UNCHANGED <<decided, user, shared, mem, commands, crashes>>

\* The run's observations are appended to the index: at most one lesson here.
Record ==
  /\ worker.at = "off"
  /\ worker' = [worker EXCEPT !.at = "propose"]
  /\ \/ UNCHANGED lessons
     \/ \E c \in Candidate, l \in Lesson : lessons' = [lessons EXCEPT ![c] = @ \cup {l}]
  /\ UNCHANGED pending /\ UnchangedByWorker

\* Mutant: a candidate that is already pending is not looked at again.
ProposeNew ==
  /\ worker.at = "propose"
  /\ worker' = [worker EXCEPT !.at = "next",
                              !.todo = {c \in Candidate : lessons[c] # {} /\ pending[c] = Absent}]
  /\ UNCHANGED <<pending, lessons>> /\ UnchangedByWorker

\* All clusters of the index are proposed, those of earlier runs included.
Propose ==
  /\ worker.at = "propose"
  /\ worker' = [worker EXCEPT !.at = "next", !.todo = {c \in Candidate : lessons[c] # {}}]
  /\ UNCHANGED <<pending, lessons>> /\ UnchangedByWorker

Take(c) ==
  /\ worker.at = "next" /\ c \in worker.todo
  /\ worker' = [worker EXCEPT !.at = "accepted", !.todo = @ \ {c}, !.cur = {c},
                              !.settled = Settled(c)]
  /\ UNCHANGED <<pending, lessons>> /\ UnchangedByWorker

\* Mutant: only accepted candidates count as decided.
CheckDecidedAccepted(c, d, next) ==
  /\ WorkerAt(c, d)
  /\ IF d = "accepted" /\ c \in decided[d]
     THEN NextCandidate ELSE worker' = [worker EXCEPT !.at = next]
  /\ UNCHANGED <<pending, lessons>> /\ UnchangedByWorker

\* write_candidate looks in accepted, then in rejected.
CheckDecided(c, d, next) ==
  /\ WorkerAt(c, d)
  /\ IF c \in decided[d] THEN NextCandidate ELSE worker' = [worker EXCEPT !.at = next]
  /\ UNCHANGED <<pending, lessons>> /\ UnchangedByWorker

LookForPending(c) ==
  /\ WorkerAt(c, "look")
  /\ worker' = [worker EXCEPT !.at = IF pending[c] = Absent THEN "write" ELSE "read"]
  /\ UNCHANGED <<pending, lessons>> /\ UnchangedByWorker

\* Unchanged evidence is not written again.  A file that has gone since ends the
\* pass with an error.
ReadPending(c) ==
  /\ WorkerAt(c, "read")
  /\ CASE pending[c] = Absent                -> worker' = Off
       [] pending[c].evidence = lessons[c]   -> NextCandidate
       [] OTHER                              -> worker' = [worker EXCEPT !.at = "write"]
  /\ UNCHANGED <<pending, lessons>> /\ UnchangedByWorker

WritePending(c) ==
  /\ WorkerAt(c, "write")
  /\ pending' = [pending EXCEPT ![c] = Proposal(lessons[c])]
  /\ NextCandidate
  /\ UNCHANGED lessons /\ UnchangedByWorker

EndPass ==
  /\ worker.at = "next" /\ worker.todo = {}
  /\ worker' = Off
  /\ UNCHANGED <<pending, lessons>> /\ UnchangedByWorker

-----------------------------------------------------------------------------
(* pk candidates accept | reject *)

UserAt(u, place) == user[u].at = place
Of(u)            == CHOOSE c \in user[u].cur : TRUE
GoOn(u, place)   == user' = [user EXCEPT ![u].at = place]
UnchangedByUser  == UNCHANGED <<lessons, worker, crashes>>

\* pending_candidate: the file must be there, and is read.
Start(u, c, verdict) ==
  /\ UserAt(u, "idle") /\ commands < MaxCommand /\ pending[c] # Absent
  /\ commands' = commands + 1
  /\ LET busy == {v \in User : ~UserAt(v, "idle")}
         mine == [at |-> IF verdict = "accepted" /\ c \notin Skill THEN "share" ELSE "rewrite",
                  cur |-> {c}, verdict |-> verdict, copy |-> pending[c],
                  step |-> 1, lone |-> busy = {}, overtaken |-> FALSE]
     IN user' = [v \in User |-> IF v = u THEN mine
                                 ELSE [user[v] EXCEPT !.lone = @ /\ v \notin busy]]
  /\ UNCHANGED <<pending, decided, shared, mem>> /\ UnchangedByUser

\* Mutant: a candidate that has its entry is taken to have its operation.
ShareOnce(u) ==
  /\ UserAt(u, "share")
  /\ shared' = shared \cup user[u].cur
  /\ GoOn(u, IF Of(u) \in shared THEN "rewrite" ELSE "look")
  /\ UNCHANGED <<pending, decided, mem, commands>> /\ UnchangedByUser

\* upsert_shared: entry, index, log and snapshot.
Share(u) ==
  /\ UserAt(u, "share")
  /\ shared' = shared \cup user[u].cur
  /\ GoOn(u, "look")
  /\ UNCHANGED <<pending, decided, mem, commands>> /\ UnchangedByUser

Searches(u, c)     == UserAt(u, "look") /\ c \in user[u].cur
\* Whether u's search has already looked in d.
LookedIn(u, d)     == \E i \in 1..(user[u].step - 1) : MemoryStates[i] = d
LeaveSearch(u, to) == user' = [user EXCEPT ![u] = [@ EXCEPT !.at = to, !.step = 1]]

\* One of queue_memory's exists() calls: nothing keeps the record where it is until the
\* next.  The operation is queued if no directory had it when it was looked at.
LookForOperation(u) ==
  /\ UserAt(u, "look")
  /\ IF MemoryStates[user[u].step] \in mem[Of(u)] THEN LeaveSearch(u, "rewrite")
     ELSE IF user[u].step = Len(MemoryStates) THEN LeaveSearch(u, "queue")
     ELSE user' = [user EXCEPT ![u].step = @ + 1]
  /\ UNCHANGED <<pending, decided, shared, mem, commands>> /\ UnchangedByUser

\* A record that is in pending by now is replaced.
QueueOperation(u) ==
  /\ UserAt(u, "queue")
  /\ mem' = [mem EXCEPT ![Of(u)] = @ \cup {"pending"}]
  /\ GoOn(u, "rewrite")
  /\ UNCHANGED <<pending, decided, shared, commands>> /\ UnchangedByUser

\* The copy, with its decision, replaces whatever pending holds by now.
Rewrite(u) ==
  /\ UserAt(u, "rewrite")
  /\ pending' = [pending EXCEPT ![Of(u)] = [user[u].copy EXCEPT !.state = user[u].verdict]]
  /\ GoOn(u, "rename")
  /\ UNCHANGED <<decided, shared, mem, commands>> /\ UnchangedByUser

Decide(u) ==
  /\ UserAt(u, "rename") /\ pending[Of(u)] # Absent
  /\ pending' = [pending EXCEPT ![Of(u)] = Absent]
  /\ decided' = [decided EXCEPT ![user[u].verdict] = @ \cup user[u].cur]
  /\ user' = [user EXCEPT ![u] = Idle]
  /\ UNCHANGED <<shared, mem, commands>> /\ UnchangedByUser

\* Another command has renamed it: the rename fails, and the command with it.
DecideFails(u) ==
  /\ UserAt(u, "rename") /\ pending[Of(u)] = Absent
  /\ user' = [user EXCEPT ![u] = Idle]
  /\ UNCHANGED <<pending, decided, shared, mem, commands>> /\ UnchangedByUser

-----------------------------------------------------------------------------
(* The memory queue (MemoryQueue) moves records under the lock of the worker,  *)
(* which no command takes; one that is in the way is replaced or set aside.    *)

\* The worker takes a record from pending to its end, or the operator parks it.
Onward == [pending    |-> {"submitting", "accepted", "completed", "rejected"},
           submitting |-> {"accepted", "completed", "rejected"},
           accepted   |-> {"completed", "rejected", "stalled"},
           completed  |-> {}, rejected |-> {}, stalled |-> {}]

\* The operator releases a parked record, with a receipt or without (the place is free when
\* release looks, but a command may take it before the rename).  The worker submits a record
\* without a receipt: there is one in accepted if a command replaced the record in pending
\* that the worker was about to move there.
Backward == [stalled  |-> {"accepted", "pending"}, accepted |-> {"submitting"},
             pending  |-> {}, submitting |-> {}, completed |-> {}, rejected |-> {}]

MoveRecord(c, d, e) == mem' = [mem EXCEPT ![c] = (@ \ {d}) \cup {e}]
UnchangedByQueue == UNCHANGED <<pending, decided, lessons, worker, shared, commands, crashes>>

Deliver(c, d, e) ==
  /\ d \in mem[c] /\ e \in Onward[d]
  /\ MoveRecord(c, d, e)
  /\ UNCHANGED user /\ UnchangedByQueue

TakeBack(c, d, e) ==
  /\ d \in mem[c] /\ e \in Backward[d]
  /\ MoveRecord(c, d, e)
  /\ user' = [u \in User |-> [user[u] EXCEPT !.overtaken = @ \/ (Searches(u, c) /\ LookedIn(u, e))]]
  /\ UnchangedByQueue

-----------------------------------------------------------------------------
(* Crashes *)

Crash ==
  /\ crashes < MaxCrash /\ crashes' = crashes + 1
  /\ \/ worker.at # "off" /\ worker' = Off /\ UNCHANGED user
     \/ \E u \in User : ~UserAt(u, "idle") /\ user' = [user EXCEPT ![u] = Idle] /\ UNCHANGED worker
  /\ UNCHANGED <<pending, decided, lessons, shared, mem, commands>>

WorkerStep ==
  \/ Record \/ Propose \/ EndPass
  \/ \E c \in Candidate :
       \/ Take(c) \/ CheckDecided(c, "accepted", "rejected") \/ CheckDecided(c, "rejected", "look")
       \/ LookForPending(c) \/ ReadPending(c) \/ WritePending(c)

UserStep(u) ==
  \/ Share(u) \/ LookForOperation(u) \/ QueueOperation(u)
  \/ Rewrite(u) \/ Decide(u) \/ DecideFails(u)

Next ==
  \/ WorkerStep \/ Crash
  \/ \E c \in Candidate, d, e \in MemoryState : Deliver(c, d, e) \/ TakeBack(c, d, e)
  \/ \E u \in User :
       UserStep(u) \/ \E c \in Candidate, v \in Decision : Start(u, c, v)

Spec == Init /\ [][Next]_vars

\* The worker runs again and again and a command, once started, goes on; nobody
\* is obliged to decide.
Fairness == WF_vars(WorkerStep) /\ \A u \in User : WF_vars(UserStep(u))
FairSpec == Spec /\ Fairness

-----------------------------------------------------------------------------
(* Properties *)

\* Type invariant.
TypeOK ==
  /\ pending \in [Candidate -> File \cup {Absent}]
  /\ decided \in [Decision -> SUBSET Candidate]
  /\ lessons \in [Candidate -> SUBSET Lesson]
  /\ worker \in [at : {"off", "propose", "next", "accepted", "rejected", "look", "read", "write"},
                 todo : SUBSET Candidate, cur : SUBSET Candidate, settled : BOOLEAN]
  /\ user \in [User -> [at : {"idle", "share", "look", "queue", "rewrite", "rename"},
                        cur : SUBSET Candidate, verdict : Decision, copy : File \cup {Absent},
                        step : 1..Len(MemoryStates), lone : BOOLEAN, overtaken : BOOLEAN]]
  /\ shared \in SUBSET Candidate
  /\ mem \in [Candidate -> SUBSET MemoryState]
  /\ commands \in Nat /\ crashes \in Nat

\* An accepted promotion has its shared entry and its memory operation, whatever
\* crashed, was retried or ran at the same time.
AcceptedHasEffects ==
  \A c \in decided["accepted"] \ Skill : c \in shared /\ mem[c] # {}

\* A command that no other overlapped queues the operation only if no directory has a
\* record of it, although queue_memory looks in one after the other without a lock while
\* the worker and the operator move the record: the search goes the way records go.  What
\* it does not see is a record that is released, or submitted again, to a directory it
\* has left behind.
QueuedOnce ==
  \A u \in User :
    UserAt(u, "queue") /\ user[u].lone /\ ~user[u].overtaken => mem[Of(u)] = {}

\* A decided candidate comes back to pending only through a command on it, or a
\* worker that had taken it up before it was decided: no later pass reopens it.
NotReopened ==
  [][\A c \in Candidate :
       Settled(c) /\ pending[c] = Absent /\ pending'[c] # Absent
         => \/ WorkerAt(c, "write") /\ ~worker.settled
            \/ \E u \in User : UserAt(u, "rewrite") /\ c \in user[u].cur]_vars

\* What the index holds about a candidate gets into its pending file, unless the
\* candidate is decided: a command that died with an older copy is made good.
EvidenceArrives ==
  \A c \in Candidate, l \in Lesson :
    l \in lessons[c] ~> (l \in pending[c].evidence \/ Settled(c))
=============================================================================
