--------------------------- MODULE CandidatesProofs ---------------------------
(***************************************************************************)
(* Theorems about Candidates, for any candidates, lessons, users and       *)
(* bounds: type correctness, what an accepted candidate has, that a        *)
(* command alone queues nothing twice, and who may reopen a decision.      *)
(***************************************************************************)
EXTENDS Candidates, TLAPS

WorkerRecord == [at : {"off", "propose", "next", "accepted", "rejected", "look", "read", "write"},
                 todo : SUBSET Candidate, cur : SUBSET Candidate, settled : BOOLEAN]
UserRecord   == [at : {"idle", "share", "look", "queue", "rewrite", "rename"},
                 cur : SUBSET Candidate, verdict : Decision, copy : File \cup {Absent},
                 step : 1..Len(MemoryStates), lone : BOOLEAN, overtaken : BOOLEAN]

\* TypeOK, in parts that the actions change together.
FilesType  == pending \in [Candidate -> File \cup {Absent}] /\ decided \in [Decision -> SUBSET Candidate]
              /\ lessons \in [Candidate -> SUBSET Lesson]
WorkerType == worker \in WorkerRecord
UserType   == user \in [User -> UserRecord]
RestType   == /\ shared \in SUBSET Candidate
              /\ mem \in [Candidate -> SUBSET MemoryState]
              /\ commands \in Nat /\ crashes \in Nat

\* A command under way is about one candidate; so is the worker past its list.
OneEach ==
  /\ \A u \in User : user[u].at # "idle" => \E c \in Candidate : user[u].cur = {c}
  /\ worker.at \in {"accepted", "rejected", "look", "read", "write"} => \E c \in Candidate : worker.cur = {c}

LEMMA TypeSplit ==
  /\ TypeOK <=> FilesType /\ WorkerType /\ UserType /\ RestType
  /\ TypeOK' <=> FilesType' /\ WorkerType' /\ UserType' /\ RestType'
BY DEF TypeOK, FilesType, WorkerType, WorkerRecord, UserType, UserRecord, RestType

LEMMA OffType == Off \in WorkerRecord /\ Off.at = "off"
BY DEF Off, WorkerRecord

LEMMA SixStates ==
  /\ Len(MemoryStates) = 6
  /\ \A i \in 1..6 : MemoryStates[i] \in MemoryState
  /\ \A d \in MemoryState : \E i \in 1..6 : MemoryStates[i] = d
BY DEF MemoryStates, MemoryState

LEMMA IdleType == Idle \in UserRecord /\ Idle.at = "idle" /\ Idle.step = 1
BY SixStates DEF Idle, UserRecord, Decision

LEMMA OfCur ==
  ASSUME NEW u, NEW c, user[u].cur = {c}
  PROVE  Of(u) = c
BY DEF Of

LEMMA TypeInit == Init => TypeOK /\ OneEach
<1> SUFFICES ASSUME Init PROVE TypeOK /\ OneEach
  OBVIOUS
<1>1. FilesType /\ RestType
  BY DEF Init, FilesType, RestType
<1>2. WorkerType /\ UserType
  BY OffType, IdleType DEF Init, WorkerType, UserType
<1>3. OneEach
  BY OffType, IdleType DEF Init, OneEach
<1> QED
  BY <1>1, <1>2, <1>3, TypeSplit

\* The worker goes from its place to another with its candidate, lets it go, or ends.
LEMMA WorkerMoves ==
  ASSUME WorkerType, OneEach, UNCHANGED user,
         \/ NextCandidate
         \/ worker' = Off
         \/ /\ worker.at \in {"accepted", "rejected", "look", "read", "write"}
            /\ \E place \in {"rejected", "look", "read", "write"} : worker' = [worker EXCEPT !.at = place]
  PROVE  WorkerType' /\ OneEach'
<1>1. CASE NextCandidate
  <2>1. worker' \in WorkerRecord /\ worker'.at = "next"
    BY <1>1 DEF NextCandidate, WorkerType, WorkerRecord
  <2> QED
    BY <2>1 DEF WorkerType, OneEach
<1>2. CASE worker' = Off
  BY <1>2, OffType DEF WorkerType, OneEach
<1>3. ASSUME worker.at \in {"accepted", "rejected", "look", "read", "write"},
             NEW place \in {"rejected", "look", "read", "write"}, worker' = [worker EXCEPT !.at = place]
      PROVE  WorkerType' /\ OneEach'
  <2>1. worker' \in WorkerRecord /\ worker'.at = place /\ worker'.cur = worker.cur
    BY <1>3 DEF WorkerType, WorkerRecord
  <2> QED
    BY <1>3, <2>1 DEF WorkerType, OneEach
<1> QED
  BY <1>1, <1>2, <1>3

LEMMA WorkerStepType ==
  ASSUME TypeOK, OneEach, WorkerStep
  PROVE  TypeOK' /\ OneEach'
<1>0. FilesType /\ WorkerType /\ UserType /\ RestType
  BY TypeSplit
<1>1. UserType' /\ RestType' /\ UNCHANGED user
  BY <1>0 DEF WorkerStep, Record, Propose, EndPass, Take, CheckDecided, LookForPending, ReadPending, WritePending,
     UnchangedByWorker, UserType, RestType
<1>2. FilesType'
  <2>1. CASE Record
    BY <1>0, <2>1 DEF Record, UnchangedByWorker, FilesType
  <2>2. ASSUME NEW c \in Candidate, WritePending(c) PROVE FilesType'
    BY <1>0, <2>2 DEF WritePending, UnchangedByWorker, FilesType, Proposal, File
  <2>3. CASE UNCHANGED <<pending, decided, lessons>>
    BY <1>0, <2>3 DEF FilesType
  <2> QED
    BY <2>1, <2>2, <2>3 DEF WorkerStep, Propose, EndPass, Take, CheckDecided, LookForPending, ReadPending,
       UnchangedByWorker
<1>3. WorkerType' /\ OneEach'
  <2>1. CASE Record \/ Propose
    <3>1. worker' \in WorkerRecord /\ worker'.at \in {"propose", "next"}
      BY <1>0, <2>1 DEF Record, Propose, WorkerType, WorkerRecord
    <3> QED
      BY <1>1, <3>1 DEF WorkerType, OneEach
  <2>2. CASE EndPass
    BY <1>0, <1>1, <2>2, WorkerMoves DEF EndPass
  <2>3. ASSUME NEW c \in Candidate, Take(c) PROVE WorkerType' /\ OneEach'
    <3>1. Settled(c) \in BOOLEAN
      BY DEF Settled
    <3>2. worker' = [worker EXCEPT !.at = "accepted", !.todo = @ \ {c}, !.cur = {c}, !.settled = Settled(c)]
      BY <2>3 DEF Take
    <3>3. worker' \in WorkerRecord /\ worker'.at = "accepted" /\ worker'.cur = {c}
      BY <1>0, <3>1, <3>2 DEF WorkerType, WorkerRecord
    <3> QED
      BY <1>1, <3>3 DEF WorkerType, OneEach
  <2>4. ASSUME NEW c \in Candidate,
               \/ CheckDecided(c, "accepted", "rejected") \/ CheckDecided(c, "rejected", "look")
               \/ LookForPending(c) \/ ReadPending(c) \/ WritePending(c)
        PROVE  WorkerType' /\ OneEach'
    <3>1. worker.at \in {"accepted", "rejected", "look", "read", "write"}
      BY <2>4 DEF CheckDecided, LookForPending, ReadPending, WritePending, WorkerAt
    <3>2. \/ NextCandidate \/ worker' = Off
          \/ \E place \in {"rejected", "look", "read", "write"} : worker' = [worker EXCEPT !.at = place]
      BY <2>4, Zenon DEF CheckDecided, LookForPending, ReadPending, WritePending
    <3> QED
      BY <1>0, <1>1, <3>1, <3>2, WorkerMoves
  <2> QED
    BY <2>1, <2>2, <2>3, <2>4 DEF WorkerStep
<1> QED
  BY <1>1, <1>2, <1>3, TypeSplit

\* How a step of u's command changes its record.
Turned(u) ==
  \/ \E place \in {"look", "queue", "rewrite", "rename"} : GoOn(u, place)
  \/ \E place \in {"queue", "rewrite"} : LeaveSearch(u, place)
  \/ user[u].step # Len(MemoryStates) /\ user' = [user EXCEPT ![u].step = @ + 1]
  \/ user' = [user EXCEPT ![u] = Idle]

LEMMA UserTurns ==
  ASSUME NEW u \in User, UserStep(u)
  PROVE  Turned(u) /\ UNCHANGED worker /\ user[u].at # "idle"
<1>1. Turned(u)
  <2>1. CASE LookForOperation(u)
    BY <2>1, Zenon DEF LookForOperation, Turned
  <2> QED
    BY <2>1, Zenon DEF UserStep, Share, QueueOperation, Rewrite, Decide, DecideFails, Turned
<1>2. UNCHANGED worker /\ user[u].at # "idle"
  BY DEF UserStep, Share, LookForOperation, QueueOperation, Rewrite, Decide, DecideFails, UserAt, UnchangedByUser
<1> QED
  BY <1>1, <1>2

\* The other commands stay as they are; u's ends, or is about the same candidate.
LEMMA UserMoves ==
  ASSUME UserType, NEW u \in User, Turned(u)
  PROVE  /\ UserType'
         /\ \A v \in User \ {u} : user'[v] = user[v]
         /\ \/ user'[u] = Idle
            \/ /\ user'[u].cur = user[u].cur /\ user'[u].verdict = user[u].verdict
               /\ user'[u].lone = user[u].lone /\ user'[u].copy = user[u].copy
               /\ user'[u].overtaken = user[u].overtaken
<1> DEFINE Goal == /\ UserType'
                   /\ \A v \in User \ {u} : user'[v] = user[v]
                   /\ \/ user'[u] = Idle
                      \/ /\ user'[u].cur = user[u].cur /\ user'[u].verdict = user[u].verdict
                         /\ user'[u].lone = user[u].lone /\ user'[u].copy = user[u].copy
                         /\ user'[u].overtaken = user[u].overtaken
<1>0. user[u] \in UserRecord
  BY DEF UserType
<1>1. ASSUME NEW r \in UserRecord, user' = [user EXCEPT ![u] = r],
             r.cur = user[u].cur /\ r.verdict = user[u].verdict /\ r.lone = user[u].lone
             /\ r.copy = user[u].copy /\ r.overtaken = user[u].overtaken
      PROVE  Goal
  <2>1. user'[u] = r /\ \A v \in User \ {u} : user'[v] = user[v]
    BY <1>1 DEF UserType
  <2>2. UserType'
    BY <1>1 DEF UserType
  <2> QED
    BY <1>1, <2>1, <2>2
<1>2. ASSUME NEW place \in {"look", "queue", "rewrite", "rename"}, GoOn(u, place) PROVE Goal
  <2> DEFINE r == [user[u] EXCEPT !.at = place]
  <2>1. user' = [user EXCEPT ![u] = r]
    BY <1>2 DEF GoOn
  <2>2. r \in UserRecord /\ r.cur = user[u].cur /\ r.verdict = user[u].verdict /\ r.lone = user[u].lone
        /\ r.copy = user[u].copy /\ r.overtaken = user[u].overtaken
    BY <1>0 DEF UserRecord
  <2> HIDE DEF r
  <2> QED
    BY <1>1, <2>1, <2>2
<1>3. ASSUME NEW place \in {"queue", "rewrite"}, LeaveSearch(u, place) PROVE Goal
  <2> DEFINE r == [user[u] EXCEPT !.at = place, !.step = 1]
  <2>1. user' = [user EXCEPT ![u] = r]
    BY <1>3 DEF LeaveSearch
  <2>2. r \in UserRecord /\ r.cur = user[u].cur /\ r.verdict = user[u].verdict /\ r.lone = user[u].lone
        /\ r.copy = user[u].copy /\ r.overtaken = user[u].overtaken
    <3>1. 1 \in 1..Len(MemoryStates)
      BY SixStates
    <3>2. place \in {"idle", "share", "look", "queue", "rewrite", "rename"}
      OBVIOUS
    <3> QED
      BY <1>0, <3>1, <3>2 DEF UserRecord
  <2> HIDE DEF r
  <2> QED
    BY <1>1, <2>1, <2>2
<1>4. ASSUME user[u].step # Len(MemoryStates), user' = [user EXCEPT ![u].step = @ + 1] PROVE Goal
  <2> DEFINE next == user[u].step + 1
             r    == [user[u] EXCEPT !.step = next]
  <2>0. next \in 1..Len(MemoryStates)
    <3>1. user[u].step \in 1..Len(MemoryStates)
      BY <1>0 DEF UserRecord
    <3> QED
      BY <1>4, <3>1, SixStates
  <2> HIDE DEF next
  <2>1. user' = [user EXCEPT ![u] = r]
    BY <1>4 DEF next
  <2>2. r \in UserRecord /\ r.cur = user[u].cur /\ r.verdict = user[u].verdict /\ r.lone = user[u].lone
        /\ r.copy = user[u].copy /\ r.overtaken = user[u].overtaken
    BY <1>0, <2>0 DEF UserRecord
  <2> HIDE DEF r
  <2> QED
    BY <1>1, <2>1, <2>2
<1>5. CASE user' = [user EXCEPT ![u] = Idle]
  BY <1>5, IdleType DEF UserType
<1> QED
  BY <1>2, <1>3, <1>4, <1>5 DEF Turned

\* OneEach when every command is about what it was about, ends, or begins.
LEMMA OneEachKept ==
  ASSUME OneEach, UNCHANGED worker,
         \A v \in User : \/ user'[v].at = "idle"
                         \/ user[v].at # "idle" /\ user'[v].cur = user[v].cur
                         \/ user'[v] = user[v]
  PROVE  OneEach'
BY DEF OneEach

LEMMA UserStepType ==
  ASSUME TypeOK, OneEach, NEW u \in User, UserStep(u)
  PROVE  TypeOK' /\ OneEach'
<1>0. FilesType /\ WorkerType /\ UserType /\ RestType
  BY TypeSplit
<1>1. user[u].at # "idle" /\ user[u] \in UserRecord /\ \E c \in Candidate : user[u].cur = {c} /\ Of(u) = c
  BY <1>0, UserTurns, OfCur DEF OneEach, UserType
<1>2. UserType' /\ OneEach'
  BY <1>0, <1>1, UserTurns, UserMoves, OneEachKept, IdleType
<1>3. WorkerType' /\ UNCHANGED <<lessons, crashes>>
  BY <1>0 DEF UserStep, Share, LookForOperation, QueueOperation, Rewrite, Decide, DecideFails,
     UnchangedByUser, WorkerType
<1>4. FilesType'
  <2>1. CASE Rewrite(u)
    <3>1. user[u].copy \in File \cup {Absent} /\ user[u].verdict \in Decision
      BY <1>1 DEF UserRecord
    <3>2. [user[u].copy EXCEPT !.state = user[u].verdict] \in File
      BY <3>1 DEF File, Absent
    <3> QED
      BY <1>0, <1>1, <1>3, <2>1, <3>2 DEF Rewrite, FilesType
  <2>2. CASE Decide(u)
    BY <1>0, <1>1, <1>3, <2>2 DEF Decide, FilesType, UserRecord
  <2>3. CASE UNCHANGED <<pending, decided>>
    BY <1>0, <1>3, <2>3 DEF FilesType
  <2> QED
    BY <2>1, <2>2, <2>3 DEF UserStep, Share, LookForOperation, QueueOperation, DecideFails
<1>5. RestType'
  <2>1. shared' \in SUBSET Candidate /\ commands' \in Nat /\ crashes' \in Nat
    BY <1>0, <1>1, <1>3 DEF UserStep, Share, LookForOperation, QueueOperation, Rewrite, Decide, DecideFails, RestType
  <2>2. mem' \in [Candidate -> SUBSET MemoryState]
    <3>1. "pending" \in MemoryState
      BY SixStates DEF MemoryStates
    <3> QED
      BY <1>0, <1>1, <3>1 DEF UserStep, Share, LookForOperation, QueueOperation, Rewrite, Decide, DecideFails, RestType
  <2> QED
    BY <2>1, <2>2 DEF RestType
<1> QED
  BY <1>2, <1>3, <1>4, <1>5, TypeSplit

\* A command begins: the others go on, but are no longer alone.
LEMMA StartUser ==
  ASSUME UserType, FilesType, NEW u \in User, NEW c \in Candidate, NEW verdict \in Decision,
         Start(u, c, verdict)
  PROVE  /\ UserType'
         /\ user'[u].at \in {"share", "rewrite"} /\ user'[u].cur = {c} /\ user'[u].verdict = verdict
         /\ user'[u].at = "rewrite" => (verdict = "rejected" \/ c \in Skill)
         /\ user'[u].step = 1
         /\ user'[u].lone => \A v \in User : user[v].at = "idle"
         /\ \A v \in User \ {u} :
              /\ user'[v].at = user[v].at /\ user'[v].cur = user[v].cur /\ user'[v].verdict = user[v].verdict
              /\ user'[v].step = user[v].step
              /\ user'[v].lone => (user[v].lone /\ user[v].at = "idle")
<1> DEFINE busy == {v \in User : ~UserAt(v, "idle")}
           place == IF verdict = "accepted" /\ c \notin Skill THEN "share" ELSE "rewrite"
           alone == busy = {}
           mine == [at |-> place, cur |-> {c}, verdict |-> verdict, copy |-> pending[c],
                    step |-> 1, lone |-> alone, overtaken |-> FALSE]
           other(v) == [user[v] EXCEPT !.lone = @ /\ v \notin busy]
<1>1. user' = [v \in User |-> IF v = u THEN mine ELSE other(v)]
  BY DEF Start
<1>2. mine \in UserRecord
  <2>1. alone \in BOOLEAN /\ place \in {"share", "rewrite"} /\ pending[c] \in File \cup {Absent}
    BY DEF FilesType
  <2> HIDE DEF alone, place
  <2> QED
    BY <2>1, SixStates DEF UserRecord
<1>3. /\ mine.at = place /\ mine.cur = {c} /\ mine.verdict = verdict /\ mine.lone = alone /\ mine.step = 1
  OBVIOUS
<1>4. ASSUME NEW v \in User
      PROVE  /\ other(v) \in UserRecord
             /\ other(v).at = user[v].at /\ other(v).cur = user[v].cur /\ other(v).verdict = user[v].verdict
             /\ other(v).step = user[v].step
             /\ other(v).lone = (user[v].lone /\ v \notin busy)
  <2>1. user[v] \in UserRecord
    BY DEF UserType
  <2>2. (user[v].lone /\ v \notin busy) \in BOOLEAN
    OBVIOUS
  <2> HIDE DEF busy
  <2> QED
    BY <2>1, <2>2 DEF UserRecord
<1> HIDE DEF mine, other
<1>5. UserType'
  BY <1>1, <1>2, <1>4 DEF UserType
<1>6. user'[u] = mine /\ \A v \in User \ {u} : user'[v] = other(v)
  BY <1>1
<1>7. alone => \A v \in User : user[v].at = "idle"
  BY DEF UserAt
<1>8. \A v \in User : v \notin busy => user[v].at = "idle"
  BY DEF UserAt
<1>9. place \in {"share", "rewrite"} /\ (place = "rewrite" => (verdict = "rejected" \/ c \in Skill))
  BY DEF Decision
<1> HIDE DEF busy, alone, place
<1>10. /\ user'[u].at = place /\ user'[u].cur = {c} /\ user'[u].verdict = verdict /\ user'[u].step = 1
       /\ user'[u].lone => \A v \in User : user[v].at = "idle"
  BY <1>3, <1>6, <1>7, Zenon
<1>11. ASSUME NEW v \in User \ {u}
       PROVE  /\ user'[v].at = user[v].at /\ user'[v].cur = user[v].cur /\ user'[v].verdict = user[v].verdict
              /\ user'[v].step = user[v].step
              /\ user'[v].lone => (user[v].lone /\ user[v].at = "idle")
  BY <1>4, <1>6, <1>8, Zenon
<1> QED
  BY <1>5, <1>9, <1>10, <1>11, Zenon

\* What the queue's moves change: places of records, and what commands have missed.
LEMMA QueueMoves ==
  ASSUME TypeOK, NEW c \in Candidate, NEW d \in MemoryState, NEW e \in MemoryState,
         Deliver(c, d, e) \/ TakeBack(c, d, e)
  PROVE  /\ UserType' /\ RestType'
         /\ UNCHANGED <<pending, decided, lessons, worker, shared, commands, crashes>>
         /\ d \in mem[c] /\ mem' = [mem EXCEPT ![c] = (@ \ {d}) \cup {e}]
         /\ \A v \in User :
              /\ user'[v].at = user[v].at /\ user'[v].cur = user[v].cur /\ user'[v].verdict = user[v].verdict
              /\ user'[v].step = user[v].step /\ user'[v].lone = user[v].lone
<1>0. UserType /\ RestType
  BY TypeSplit
<1>1. /\ UNCHANGED <<pending, decided, lessons, worker, shared, commands, crashes>>
      /\ d \in mem[c] /\ mem' = [mem EXCEPT ![c] = (@ \ {d}) \cup {e}]
  BY DEF Deliver, TakeBack, MoveRecord, UnchangedByQueue
<1>2. RestType'
  BY <1>0, <1>1 DEF RestType
<1>3. CASE Deliver(c, d, e)
  BY <1>0, <1>1, <1>2, <1>3 DEF Deliver, UserType
<1>4. CASE TakeBack(c, d, e)
  <2> DEFINE missed(v) == user[v].overtaken \/ (Searches(v, c) /\ LookedIn(v, e))
             now(v)    == [user[v] EXCEPT !.overtaken = missed(v)]
  <2>1. user' = [v \in User |-> now(v)]
    BY <1>4 DEF TakeBack
  <2>2. ASSUME NEW v \in User
        PROVE  /\ now(v) \in UserRecord
               /\ now(v).at = user[v].at /\ now(v).cur = user[v].cur /\ now(v).verdict = user[v].verdict
               /\ now(v).step = user[v].step /\ now(v).lone = user[v].lone
    <3>1. user[v] \in UserRecord
      BY <1>0 DEF UserType
    <3>2. missed(v) \in BOOLEAN
      BY <3>1 DEF UserRecord, Searches, LookedIn
    <3> HIDE DEF missed
    <3> QED
      BY <3>1, <3>2 DEF UserRecord
  <2> HIDE DEF now
  <2>3. UserType'
    BY <2>1, <2>2 DEF UserType
  <2> QED
    BY <1>1, <1>2, <2>1, <2>2, <2>3
<1> QED
  BY <1>3, <1>4

LEMMA TypeStep == TypeOK /\ OneEach /\ [Next]_vars => TypeOK' /\ OneEach'
<1> SUFFICES ASSUME TypeOK, OneEach, [Next]_vars PROVE TypeOK' /\ OneEach'
  OBVIOUS
<1>0. FilesType /\ WorkerType /\ UserType /\ RestType
  BY TypeSplit
<1>1. ASSUME NEW c \in Candidate, NEW d \in MemoryState, NEW e \in MemoryState,
             Deliver(c, d, e) \/ TakeBack(c, d, e)
      PROVE  TypeOK' /\ OneEach'
  <2>1. UserType' /\ RestType' /\ UNCHANGED <<pending, decided, lessons, worker>>
    BY <1>1, QueueMoves
  <2>2. FilesType' /\ WorkerType'
    BY <1>0, <2>1 DEF FilesType, WorkerType
  <2>3. OneEach'
    BY <1>1, QueueMoves DEF OneEach
  <2> QED
    BY <2>1, <2>2, <2>3, TypeSplit
<1>2. CASE Crash
  <2>1. FilesType' /\ RestType'
    BY <1>0, <1>2 DEF Crash, FilesType, RestType
  <2>2. WorkerType' /\ UserType' /\ OneEach'
    <3>1. CASE worker' = Off /\ UNCHANGED user
      BY <1>0, <3>1, OffType DEF WorkerType, UserType, OneEach
    <3>2. ASSUME NEW u \in User, ~UserAt(u, "idle"), user' = [user EXCEPT ![u] = Idle], UNCHANGED worker
          PROVE  WorkerType' /\ UserType' /\ OneEach'
      <4>1. UserType' /\ user'[u] = Idle /\ \A v \in User \ {u} : user'[v] = user[v]
        BY <1>0, <3>2, IdleType DEF UserType
      <4> QED
        BY <1>0, <3>2, <4>1, OneEachKept, IdleType DEF WorkerType
    <3> QED
      BY <1>2, <3>1, <3>2 DEF Crash
  <2> QED
    BY <2>1, <2>2, TypeSplit
<1>3. ASSUME NEW u \in User, NEW c \in Candidate, NEW verdict \in Decision, Start(u, c, verdict)
      PROVE  TypeOK' /\ OneEach'
  <2>1. UNCHANGED <<pending, decided, shared, mem, lessons, worker, crashes>> /\ commands' = commands + 1
    BY <1>3 DEF Start, UnchangedByUser
  <2>2. FilesType' /\ WorkerType' /\ RestType'
    BY <1>0, <2>1 DEF FilesType, WorkerType, RestType
  <2>3. UserType' /\ OneEach'
    BY <1>0, <1>3, <2>1, StartUser DEF OneEach
  <2> QED
    BY <2>2, <2>3, TypeSplit
<1>4. CASE UNCHANGED vars
  BY <1>4 DEF vars, TypeOK, OneEach
<1> QED
  BY <1>1, <1>2, <1>3, <1>4, WorkerStepType, UserStepType DEF Next

\* Candidates and the commands on them keep their types.
THEOREM TypeCorrect == Spec => []TypeOK
BY TypeInit, TypeStep, PTL DEF Spec
-----------------------------------------------------------------------------
(* What an accepted candidate has *)

\* A promotion on its way to acceptance has its entry, and further on its operation.
Effects(u) ==
  /\ user[u].at \in {"look", "queue"} => user[u].cur \subseteq shared
  /\ (user[u].at \in {"rewrite", "rename"} /\ user[u].verdict = "accepted")
       => \A c \in user[u].cur \ Skill : c \in shared /\ mem[c] # {}

EffectsInv == AcceptedHasEffects /\ \A u \in User : Effects(u)

\* A command's step, whatever it is: the other commands stay as they are.
LEMMA UserFrame ==
  ASSUME TypeOK, OneEach, NEW u \in User, UserStep(u)
  PROVE  /\ user[u].at # "idle" /\ \E c \in Candidate : user[u].cur = {c} /\ Of(u) = c
         /\ \A v \in User \ {u} : user'[v] = user[v]
         /\ \/ user'[u] = Idle
            \/ /\ user'[u].cur = user[u].cur /\ user'[u].verdict = user[u].verdict
               /\ user'[u].lone = user[u].lone /\ user'[u].copy = user[u].copy
               /\ user'[u].overtaken = user[u].overtaken
         /\ UNCHANGED worker
<1>1. UserType /\ Turned(u) /\ user[u].at # "idle" /\ UNCHANGED worker
  BY UserTurns, TypeSplit
<1>2. \E c \in Candidate : user[u].cur = {c} /\ Of(u) = c
  BY <1>1, OfCur DEF OneEach
<1> QED
  BY <1>1, <1>2, UserMoves

\* GoOn is the place and nothing else.
LEMMA GoOnAt ==
  ASSUME UserType, NEW u \in User, NEW place, GoOn(u, place)
  PROVE  user'[u].at = place /\ user'[u].step = user[u].step
<1>1. user[u] \in UserRecord
  BY DEF UserType
<1> QED
  BY <1>1 DEF GoOn, UserType, UserRecord

\* One look: the record is there, or the search goes on, or it was the last directory.
LEMMA LookResult ==
  ASSUME UserType, NEW u \in User, NEW c, Of(u) = c, LookForOperation(u)
  PROVE  /\ user[u].at = "look" /\ UNCHANGED <<shared, mem>>
         /\ \/ /\ user'[u].at = "rewrite" /\ user'[u].step = 1
               /\ MemoryStates[user[u].step] \in mem[c]
            \/ /\ user'[u].at = "queue" /\ user'[u].step = 1 /\ user[u].step = Len(MemoryStates)
               /\ MemoryStates[user[u].step] \notin mem[c]
            \/ /\ user'[u].at = "look" /\ user'[u].step = user[u].step + 1
               /\ MemoryStates[user[u].step] \notin mem[c]
<1>0. user[u] \in UserRecord /\ user[u].at = "look"
  BY DEF UserType, LookForOperation, UserAt
<1>1. ASSUME NEW place, LeaveSearch(u, place) PROVE user'[u].at = place /\ user'[u].step = 1
  BY <1>0, <1>1 DEF LeaveSearch, UserType, UserRecord
<1>2. ASSUME user' = [user EXCEPT ![u].step = @ + 1]
      PROVE  user'[u].at = "look" /\ user'[u].step = user[u].step + 1
  <2> DEFINE next == user[u].step + 1
  <2>1. user' = [user EXCEPT ![u] = [user[u] EXCEPT !.step = next]]
    BY <1>2
  <2> HIDE DEF next
  <2>2. user'[u].at = "look" /\ user'[u].step = next
    BY <1>0, <2>1 DEF UserType, UserRecord
  <2> QED
    BY <2>2 DEF next
<1> QED
  BY <1>0, <1>1, <1>2 DEF LookForOperation

\* Entries stay, and so do operations: no step takes one back.
LEMMA EffectsStay ==
  ASSUME TypeOK, OneEach, Next
  PROVE  shared \subseteq shared' /\ \A c \in Candidate : mem[c] # {} => mem'[c] # {}
<1>0. RestType
  BY TypeSplit
<1>1. ASSUME NEW u \in User, UserStep(u)
      PROVE  shared \subseteq shared' /\ \A c \in Candidate : mem[c] # {} => mem'[c] # {}
  <2>1. \E c \in Candidate : Of(u) = c
    BY <1>1, UserFrame
  <2>2. shared \subseteq shared'
    BY <1>0, <1>1 DEF UserStep, Share, LookForOperation, QueueOperation, Rewrite, Decide, DecideFails
  <2>3. UNCHANGED mem \/ mem' = [mem EXCEPT ![Of(u)] = @ \cup {"pending"}]
    BY <1>1, Zenon DEF UserStep, Share, LookForOperation, QueueOperation, Rewrite, Decide, DecideFails
  <2> QED
    BY <1>0, <2>1, <2>2, <2>3 DEF RestType
<1>2. ASSUME NEW x \in Candidate, NEW d \in MemoryState, NEW e \in MemoryState,
             Deliver(x, d, e) \/ TakeBack(x, d, e)
      PROVE  shared \subseteq shared' /\ \A c \in Candidate : mem[c] # {} => mem'[c] # {}
  <2>1. UNCHANGED shared /\ mem' = [mem EXCEPT ![x] = (@ \ {d}) \cup {e}]
    BY <1>2, QueueMoves
  <2> QED
    BY <1>0, <2>1 DEF RestType
<1>3. CASE UNCHANGED <<shared, mem>>
  BY <1>3
<1> QED
  BY <1>1, <1>2, <1>3 DEF Next, WorkerStep, Crash, Start, Record, Propose, EndPass, Take, CheckDecided,
     LookForPending, ReadPending, WritePending, UnchangedByWorker

LEMMA EffectsInit == Init => EffectsInv
<1> SUFFICES ASSUME Init PROVE EffectsInv
  OBVIOUS
<1>1. AcceptedHasEffects
  BY DEF Init, AcceptedHasEffects, Decision
<1>2. \A u \in User : Effects(u)
  BY IdleType DEF Init, Effects
<1> QED
  BY <1>1, <1>2 DEF EffectsInv

\* The effects of a command whose record does not change stay.
LEMMA EffectsKept ==
  ASSUME TypeOK, OneEach, Next, NEW u \in User, Effects(u), user[u].cur \subseteq Candidate,
         user'[u].at = user[u].at, user'[u].cur = user[u].cur, user'[u].verdict = user[u].verdict
  PROVE  Effects(u)'
BY EffectsStay DEF Effects

LEMMA EffectsStep == TypeOK /\ OneEach /\ EffectsInv /\ [Next]_vars => EffectsInv'
<1> SUFFICES ASSUME TypeOK, OneEach, EffectsInv, Next PROVE EffectsInv'
  BY DEF vars, EffectsInv, AcceptedHasEffects, Effects
<1>0. FilesType /\ UserType /\ RestType /\ \A u \in User : user[u] \in UserRecord /\ user[u].cur \subseteq Candidate
  BY TypeSplit DEF UserType, UserRecord
<1>1. shared \subseteq shared' /\ \A c \in Candidate : mem[c] # {} => mem'[c] # {}
  BY EffectsStay
<1>2. AcceptedHasEffects'
  <2>1. ASSUME NEW u \in User, Decide(u) PROVE AcceptedHasEffects'
    <3>1. user[u].at = "rename" /\ user[u].verdict \in Decision /\ Effects(u)
      BY <1>0, <2>1 DEF Decide, UserAt, UserRecord, EffectsInv
    <3>2. \A c \in decided'["accepted"] : c \in decided["accepted"] \/ (user[u].verdict = "accepted" /\ c \in user[u].cur)
      BY <1>0, <2>1, <3>1 DEF Decide, FilesType, Decision
    <3>3. decided["accepted"] \subseteq Candidate
      BY <1>0 DEF FilesType, Decision
    <3> QED
      BY <1>0, <1>1, <3>1, <3>2, <3>3 DEF Effects, EffectsInv, AcceptedHasEffects
  <2>2. CASE UNCHANGED decided
    <3>1. decided["accepted"] \subseteq Candidate
      BY <1>0 DEF FilesType, Decision
    <3> QED
      BY <1>1, <2>2, <3>1 DEF EffectsInv, AcceptedHasEffects
  <2> QED
    BY <2>1, <2>2 DEF Next, WorkerStep, Crash, Start, Deliver, TakeBack, UnchangedByQueue, UserStep, Share, LookForOperation, QueueOperation,
       Rewrite, DecideFails, Record, Propose, EndPass, Take, CheckDecided, LookForPending, ReadPending,
       WritePending, UnchangedByWorker
<1>3. ASSUME NEW v \in User PROVE Effects(v)'
  <2>0. Effects(v)
    BY DEF EffectsInv
  <2>1. CASE UNCHANGED user
    BY <1>0, <2>0, <2>1, EffectsKept
  <2>2. CASE user'[v] = user[v]
    BY <1>0, <2>0, <2>2, EffectsKept
  <2>3. CASE user'[v] = Idle
    BY <2>3, IdleType DEF Effects
  <2>4. ASSUME NEW u \in User, NEW c \in Candidate, NEW verdict \in Decision, Start(u, c, verdict)
        PROVE  Effects(v)'
    <3>1. CASE v = u
      <4>1. /\ user'[v].at \in {"share", "rewrite"} /\ user'[v].cur = {c} /\ user'[v].verdict = verdict
            /\ user'[v].at = "rewrite" => (verdict = "rejected" \/ c \in Skill)
        BY <1>0, <2>4, <3>1, StartUser
      <4> QED
        BY <4>1 DEF Effects
    <3>2. CASE v # u
      <4>1. user'[v].at = user[v].at /\ user'[v].cur = user[v].cur /\ user'[v].verdict = user[v].verdict
        BY <1>0, <2>4, <3>2, StartUser
      <4> QED
        BY <1>0, <2>0, <4>1, EffectsKept
    <3> QED
      BY <3>1, <3>2
  <2>5. ASSUME UserStep(v), user'[v] # Idle PROVE Effects(v)'
    <3>1. PICK c \in Candidate : user[v].cur = {c} /\ Of(v) = c
      BY <2>5, UserFrame
    <3>2. user'[v].cur = {c} /\ user'[v].verdict = user[v].verdict
      BY <2>5, <3>1, UserFrame
    <3>3. ~Decide(v) /\ ~DecideFails(v)
      BY <1>0, <2>5 DEF Decide, DecideFails, UserType
    <3>4. CASE Share(v)
      <4>1. user'[v].at = "look" /\ shared' = shared \cup {c}
        BY <1>0, <3>1, <3>4, GoOnAt DEF Share
      <4> QED
        BY <3>2, <4>1 DEF Effects
    <3>5. CASE LookForOperation(v)
      <4>1. user[v].at = "look" /\ UNCHANGED <<shared, mem>>
        BY <1>0, <3>1, <3>5, LookResult
      <4>2. \/ user'[v].at = "rewrite" /\ mem[c] # {}
            \/ user'[v].at \in {"queue", "look"}
        BY <1>0, <3>1, <3>5, LookResult
      <4> QED
        BY <2>0, <3>1, <3>2, <4>1, <4>2 DEF Effects
    <3>6. CASE QueueOperation(v)
      <4>1. user[v].at = "queue" /\ UNCHANGED shared /\ mem' = [mem EXCEPT ![c] = @ \cup {"pending"}]
        BY <3>1, <3>6 DEF QueueOperation, UserAt
      <4>2. mem'[c] # {}
        BY <1>0, <4>1 DEF RestType
      <4>3. user'[v].at = "rewrite"
        BY <1>0, <3>6, GoOnAt DEF QueueOperation
      <4> QED
        BY <2>0, <3>1, <3>2, <4>1, <4>2, <4>3 DEF Effects
    <3>7. CASE Rewrite(v)
      <4>1. user[v].at = "rewrite" /\ UNCHANGED <<shared, mem>> /\ user'[v].at = "rename"
        BY <1>0, <3>7, GoOnAt DEF Rewrite, UserAt
      <4> QED
        BY <2>0, <3>1, <3>2, <4>1 DEF Effects
    <3> QED
      BY <2>5, <3>3, <3>4, <3>5, <3>6, <3>7 DEF UserStep
  <2>6. ASSUME NEW u \in User, UserStep(u) PROVE Effects(v)'
    BY <2>2, <2>3, <2>5, <2>6, UserFrame
  <2>7. ASSUME Crash PROVE Effects(v)'
    <3>1. UNCHANGED user \/ \E u \in User : user' = [user EXCEPT ![u] = Idle]
      BY <2>7 DEF Crash
    <3>2. user'[v] = user[v] \/ user'[v] = Idle
      BY <1>0, <3>1 DEF UserType
    <3> QED
      BY <2>2, <2>3, <3>2
  <2>8. ASSUME NEW c \in Candidate, NEW d \in MemoryState, NEW e \in MemoryState,
               Deliver(c, d, e) \/ TakeBack(c, d, e)
        PROVE  Effects(v)'
    <3>1. user'[v].at = user[v].at /\ user'[v].cur = user[v].cur /\ user'[v].verdict = user[v].verdict
      BY <2>8, QueueMoves
    <3> QED
      BY <1>0, <2>0, <3>1, EffectsKept
  <2>9. ASSUME WorkerStep PROVE UNCHANGED user
    BY <2>9 DEF WorkerStep, Record, Propose, EndPass, Take, CheckDecided, LookForPending, ReadPending,
       WritePending, UnchangedByWorker
  <2> QED
    BY <2>1, <2>4, <2>6, <2>7, <2>8, <2>9 DEF Next
<1> QED
  BY <1>2, <1>3 DEF EffectsInv

\* An accepted promotion has its shared entry and its memory operation, whatever crashed,
\* was retried or ran at the same time (accept makes the effects before the rename).
THEOREM EffectsBeforeAcceptance == Spec => []AcceptedHasEffects
<1>1. Init => TypeOK /\ OneEach /\ EffectsInv
  BY TypeInit, EffectsInit
<1>2. TypeOK /\ OneEach /\ EffectsInv /\ [Next]_vars => (TypeOK /\ OneEach /\ EffectsInv)'
  BY TypeStep, EffectsStep
<1>3. EffectsInv => AcceptedHasEffects
  BY DEF EffectsInv
<1> QED
  BY <1>1, <1>2, <1>3, PTL DEF Spec
-----------------------------------------------------------------------------
(* A command alone *)

\* While a command is the only one under way, the others have not begun.
Alone == \A u, v \in User : (u # v /\ user[u].lone /\ user[u].at # "idle") => user[v].at = "idle"

\* What a search that no other command overlapped, and that no record was put back behind,
\* has seen: the directories it has looked in do not have the record, and still will not.
Searched ==
  \A u \in User :
    /\ user[u].at # "look" => user[u].step = 1
    /\ user[u].lone /\ ~user[u].overtaken =>
         /\ user[u].at = "look" => \A d \in mem[Of(u)] : ~LookedIn(u, d)
         /\ user[u].at = "queue" => mem[Of(u)] = {}

LEMMA SearchedOnce == Searched => QueuedOnce
BY DEF Searched, QueuedOnce, UserAt

LEMMA AloneInit == Init => Alone /\ Searched
BY IdleType DEF Init, Alone, Searched

\* The search goes the way records go: a directory a record is moved on to comes later.
LEMMA OnwardIsLater ==
  ASSUME NEW i \in 1..6, NEW j \in 1..6, MemoryStates[j] \in Onward[MemoryStates[i]]
  PROVE  i < j
<1> USE DEF MemoryStates, Onward
<1>1. CASE i = 1
  BY <1>1
<1>2. CASE i = 2
  BY <1>2
<1>3. CASE i = 3
  BY <1>3
<1>4. CASE i \in {4, 5, 6}
  BY <1>4
<1> QED
  BY <1>1, <1>2, <1>3, <1>4

LEMMA StatesDiffer ==
  ASSUME NEW i \in 1..6, NEW j \in 1..6, MemoryStates[i] = MemoryStates[j]
  PROVE  i = j
BY DEF MemoryStates

LEMMA AloneStep == TypeOK /\ OneEach /\ Alone /\ [Next]_vars => Alone'
<1> SUFFICES ASSUME TypeOK, OneEach, Alone, [Next]_vars PROVE Alone'
  OBVIOUS
<1>0. FilesType /\ UserType
  BY TypeSplit
<1>1. CASE UNCHANGED user
  BY <1>1 DEF Alone
<1>2. ASSUME NEW u \in User, user[u].at # "idle", \A v \in User \ {u} : user'[v] = user[v],
             user'[u] = Idle \/ user'[u].lone = user[u].lone
      PROVE  Alone'
  BY <1>2, IdleType DEF Alone
<1>3. ASSUME NEW u \in User, UserStep(u) PROVE Alone'
  BY <1>2, <1>3, UserFrame
<1>4. CASE Crash
  <2>1. ASSUME NEW u \in User, ~UserAt(u, "idle"), user' = [user EXCEPT ![u] = Idle] PROVE Alone'
    <3>1. user[u].at # "idle" /\ user'[u] = Idle /\ \A v \in User \ {u} : user'[v] = user[v]
      BY <1>0, <2>1 DEF UserAt, UserType
    <3> QED
      BY <1>2, <3>1
  <2> QED
    BY <1>1, <1>4, <2>1 DEF Crash
<1>5. ASSUME NEW u \in User, NEW c \in Candidate, NEW verdict \in Decision, Start(u, c, verdict)
      PROVE  Alone'
  <2>1. user'[u].lone => \A v \in User : user[v].at = "idle"
    BY <1>0, <1>5, StartUser
  <2>2. \A v \in User \ {u} : /\ user'[v].at = user[v].at
                              /\ user'[v].lone => user[v].at = "idle"
    BY <1>0, <1>5, StartUser
  <2> QED
    BY <2>1, <2>2 DEF Alone
<1>6. ASSUME NEW c \in Candidate, NEW d \in MemoryState, NEW e \in MemoryState,
             Deliver(c, d, e) \/ TakeBack(c, d, e)
      PROVE  Alone'
  BY <1>6, QueueMoves DEF Alone
<1> QED
  BY <1>1, <1>3, <1>4, <1>5, <1>6 DEF Next, vars, WorkerStep, Record, Propose, EndPass, Take, CheckDecided,
     LookForPending, ReadPending, WritePending, UnchangedByWorker

\* u's own steps.
LEMMA SearchedByUser ==
  ASSUME TypeOK, OneEach, Searched, NEW u \in User, UserStep(u)
  PROVE  /\ user'[u].at # "look" => user'[u].step = 1
         /\ user'[u].lone /\ ~user'[u].overtaken =>
              /\ user'[u].at = "look" => \A d \in mem'[Of(u)'] : ~LookedIn(u, d)'
              /\ user'[u].at = "queue" => mem'[Of(u)'] = {}
<1>0. UserType /\ RestType /\ user[u] \in UserRecord
  BY TypeSplit DEF UserType
<1>1. CASE user'[u] = Idle
  BY <1>1, IdleType
<1>2. PICK c \in Candidate : user[u].cur = {c} /\ Of(u) = c
  BY UserFrame
<1>3. ASSUME user'[u] # Idle
      PROVE  /\ Of(u)' = c /\ user'[u].lone = user[u].lone /\ user'[u].overtaken = user[u].overtaken
  <2>1. /\ user'[u].cur = {c}
        /\ user'[u].lone = user[u].lone /\ user'[u].overtaken = user[u].overtaken
    BY <1>2, <1>3, UserFrame
  <2> QED
    BY <2>1 DEF Of
<1>4. CASE Share(u)
  <2>1. user[u].at = "share" /\ user'[u].at = "look" /\ user'[u].step = user[u].step
    BY <1>0, <1>4, GoOnAt DEF Share, UserAt
  <2>2. user'[u].step = 1
    BY <2>1 DEF Searched
  <2> QED
    BY <2>1, <2>2 DEF LookedIn
<1>5. CASE QueueOperation(u) \/ Rewrite(u)
  <2>1. user[u].at \in {"queue", "rewrite"} /\ user'[u].at \in {"rewrite", "rename"} /\ user'[u].step = user[u].step
    BY <1>0, <1>5, GoOnAt DEF QueueOperation, Rewrite, UserAt
  <2> QED
    BY <2>1 DEF Searched
<1>6. CASE LookForOperation(u) /\ user'[u] # Idle
  <2>1. user[u].at = "look" /\ UNCHANGED mem /\ Of(u)' = c
    BY <1>0, <1>2, <1>3, <1>6, LookResult
  <2>2. CASE user'[u].at = "rewrite" /\ user'[u].step = 1
    BY <2>2
  <2>3. ASSUME user[u].lone, ~user[u].overtaken
        PROVE  \A i \in 1..(user[u].step - 1) : MemoryStates[i] \notin mem[c]
    BY <1>2, <2>1, <2>3 DEF Searched, LookedIn
  <2>4. user[u].step \in 1..6
    BY <1>0, SixStates DEF UserRecord
  <2>5. CASE /\ user'[u].at = "queue" /\ user'[u].step = 1 /\ user[u].step = Len(MemoryStates)
             /\ MemoryStates[user[u].step] \notin mem[c]
    <3>1. ASSUME user[u].lone, ~user[u].overtaken PROVE mem[c] = {}
      <4>1. \A i \in 1..6 : MemoryStates[i] \notin mem[c]
        BY <2>3, <2>5, <3>1, SixStates
      <4>2. mem[c] \subseteq MemoryState
        BY <1>0 DEF RestType
      <4> QED
        BY <4>1, <4>2, SixStates
    <3> QED
      BY <1>3, <1>6, <2>1, <2>5, <3>1
  <2>6. CASE /\ user'[u].at = "look" /\ user'[u].step = user[u].step + 1
             /\ MemoryStates[user[u].step] \notin mem[c]
    <3>1. ASSUME user[u].lone, ~user[u].overtaken PROVE \A d \in mem[c] : ~LookedIn(u, d)'
      <4>1. \A i \in 1..(user'[u].step - 1) : MemoryStates[i] \notin mem[c]
        BY <2>3, <2>4, <2>6, <3>1
      <4> QED
        BY <4>1 DEF LookedIn
    <3> QED
      BY <1>3, <1>6, <2>1, <2>6, <3>1
  <2> QED
    BY <1>0, <1>2, <1>6, <2>2, <2>5, <2>6, LookResult
<1>7. Decide(u) \/ DecideFails(u) => user'[u] = Idle
  BY <1>0 DEF Decide, DecideFails, UserType
<1> QED
  BY <1>1, <1>4, <1>5, <1>6, <1>7 DEF UserStep

\* The queue's moves: on, never into what has been looked in; back, seen by the history.
LEMMA SearchedByQueue ==
  ASSUME TypeOK, OneEach, Searched, NEW u \in User, user'[u].lone, ~user'[u].overtaken,
         NEW c \in Candidate, NEW d \in MemoryState, NEW e \in MemoryState,
         Deliver(c, d, e) \/ TakeBack(c, d, e)
  PROVE  /\ user'[u].at = "look" => \A f \in mem'[Of(u)'] : ~LookedIn(u, f)'
         /\ user'[u].at = "queue" => mem'[Of(u)'] = {}
<1>0. UserType /\ RestType /\ user[u] \in UserRecord
  BY TypeSplit DEF UserType
<1>1. /\ user'[u].at = user[u].at /\ user'[u].cur = user[u].cur
      /\ user'[u].step = user[u].step /\ user'[u].lone = user[u].lone
      /\ d \in mem[c] /\ mem' = [mem EXCEPT ![c] = (@ \ {d}) \cup {e}]
  BY QueueMoves
<1>2. ~user[u].overtaken
  <2>1. CASE Deliver(c, d, e)
    BY <2>1 DEF Deliver
  <2>2. CASE TakeBack(c, d, e)
    <3> DEFINE missed == user[u].overtaken \/ (Searches(u, c) /\ LookedIn(u, e))
    <3>1. user'[u] = [user[u] EXCEPT !.overtaken = missed]
      BY <2>2 DEF TakeBack
    <3>2. missed \in BOOLEAN
      BY <1>0 DEF UserRecord, Searches, LookedIn
    <3> HIDE DEF missed
    <3>3. user'[u].overtaken = missed
      BY <1>0, <3>1, <3>2 DEF UserRecord
    <3> QED
      BY <3>3 DEF missed
  <2> QED
    BY <2>1, <2>2
<1>3. Of(u)' = Of(u) /\ \A f : LookedIn(u, f)' <=> LookedIn(u, f)
  BY <1>1 DEF Of, LookedIn
<1>4. ASSUME user[u].at \in {"look", "queue"} PROVE Of(u) \in Candidate /\ user[u].cur = {Of(u)}
  <2>1. PICK x \in Candidate : user[u].cur = {x}
    BY <1>4 DEF OneEach
  <2> QED
    BY <2>1, OfCur
<1>5. ASSUME user[u].at = "queue" PROVE mem'[Of(u)] = {}
  <2>1. mem[Of(u)] = {} /\ Of(u) # c
    BY <1>1, <1>2, <1>5 DEF Searched
  <2> QED
    BY <1>0, <1>1, <1>4, <1>5, <2>1 DEF RestType
<1>6. ASSUME user[u].at = "look" PROVE \A f \in mem'[Of(u)] : ~LookedIn(u, f)
  <2>1. \A f \in mem[Of(u)] : ~LookedIn(u, f)
    BY <1>1, <1>2, <1>6 DEF Searched
  <2>2. CASE Of(u) # c
    BY <1>0, <1>1, <1>4, <1>6, <2>1, <2>2 DEF RestType
  <2>3. CASE Of(u) = c
    <3>1. mem'[c] = (mem[c] \ {d}) \cup {e}
      BY <1>0, <1>1 DEF RestType
    <3>2. ~LookedIn(u, e)
      <4>1. CASE Deliver(c, d, e)
        <5>1. PICK i \in 1..6 : MemoryStates[i] = d
          BY SixStates
        <5>2. PICK j \in 1..6 : MemoryStates[j] = e
          BY SixStates
        <5>3. i < j
          BY <4>1, <5>1, <5>2, OnwardIsLater DEF Deliver
        <5>4. user[u].step \in 1..6
          BY <1>0, SixStates DEF UserRecord
        <5>5. ~LookedIn(u, d)
          BY <1>1, <2>1, <2>3
        <5>6. ~(i \in 1..(user[u].step - 1))
          BY <5>1, <5>5 DEF LookedIn
        <5>7. user[u].step <= i
          BY <5>4, <5>6
        <5>8. ASSUME NEW k \in 1..(user[u].step - 1), MemoryStates[k] = e PROVE FALSE
          <6>1. k \in 1..6
            BY <5>4
          <6>2. k = j
            BY <5>2, <5>8, <6>1, StatesDiffer
          <6> QED
            BY <5>3, <5>4, <5>7, <6>2
        <5> QED
          BY <5>8 DEF LookedIn
      <4>2. CASE TakeBack(c, d, e)
        <5> DEFINE missed == user[u].overtaken \/ (Searches(u, c) /\ LookedIn(u, e))
        <5>1. user'[u] = [user[u] EXCEPT !.overtaken = missed]
          BY <4>2 DEF TakeBack
        <5>2. missed \in BOOLEAN
          BY <1>0 DEF UserRecord, Searches, LookedIn
        <5> HIDE DEF missed
        <5>3. user'[u].overtaken = missed
          BY <1>0, <5>1, <5>2 DEF UserRecord
        <5>4. Searches(u, c)
          BY <1>4, <1>6, <2>3 DEF Searches, UserAt
        <5> QED
          BY <5>3, <5>4 DEF missed
      <4> QED
        BY <4>1, <4>2
    <3> QED
      BY <2>1, <2>3, <3>1, <3>2
  <2> QED
    BY <2>2, <2>3
<1> QED
  BY <1>1, <1>3, <1>5, <1>6

LEMMA SearchedStep == TypeOK /\ OneEach /\ Alone /\ Searched /\ [Next]_vars => Searched'
<1> SUFFICES ASSUME TypeOK, OneEach, Alone, Searched, [Next]_vars, NEW u \in User
             PROVE  /\ user'[u].at # "look" => user'[u].step = 1
                    /\ user'[u].lone /\ ~user'[u].overtaken =>
                         /\ user'[u].at = "look" => \A d \in mem'[Of(u)'] : ~LookedIn(u, d)'
                         /\ user'[u].at = "queue" => mem'[Of(u)'] = {}
  BY DEF Searched
<1> DEFINE Goal == /\ user'[u].at # "look" => user'[u].step = 1
                   /\ user'[u].lone /\ ~user'[u].overtaken =>
                        /\ user'[u].at = "look" => \A d \in mem'[Of(u)'] : ~LookedIn(u, d)'
                        /\ user'[u].at = "queue" => mem'[Of(u)'] = {}
<1>0. FilesType /\ UserType /\ RestType
  BY TypeSplit
<1>1. ASSUME user'[u] = user[u], UNCHANGED mem PROVE Goal
  BY <1>1 DEF Searched, Of, LookedIn
<1>2. ASSUME user'[u] = Idle PROVE Goal
  BY <1>2, IdleType
<1>3. ASSUME UserStep(u) PROVE Goal
  BY <1>3, SearchedByUser
<1>4. ASSUME NEW w \in User \ {u}, UserStep(w) PROVE Goal
  <2>1. user[w].at # "idle" /\ user'[u] = user[u]
    BY <1>4, UserFrame
  <2>2. user[u].lone => user[u].at = "idle"
    BY <1>4, <2>1 DEF Alone
  <2> QED
    BY <2>1, <2>2 DEF Searched
<1>5. ASSUME NEW w \in User, NEW c \in Candidate, NEW verdict \in Decision, Start(w, c, verdict) PROVE Goal
  <2>1. CASE w = u
    <3>1. user'[u].at \in {"share", "rewrite"} /\ user'[u].step = 1
      BY <1>0, <1>5, <2>1, StartUser
    <3> QED
      BY <3>1
  <2>2. CASE w # u
    <3>1. /\ user'[u].at = user[u].at /\ user'[u].step = user[u].step
          /\ user'[u].lone => user[u].at = "idle"
      BY <1>0, <1>5, <2>2, StartUser
    <3> QED
      BY <3>1 DEF Searched
  <2> QED
    BY <2>1, <2>2
<1>6. ASSUME Crash PROVE Goal
  <2>1. UNCHANGED user \/ \E w \in User : user' = [user EXCEPT ![w] = Idle]
    BY <1>6 DEF Crash
  <2>2. user'[u] = user[u] \/ user'[u] = Idle
    BY <1>0, <2>1 DEF UserType
  <2> QED
    BY <1>1, <1>2, <1>6, <2>2 DEF Crash
<1>7. ASSUME NEW c \in Candidate, NEW d \in MemoryState, NEW e \in MemoryState,
             Deliver(c, d, e) \/ TakeBack(c, d, e)
      PROVE  Goal
  <2>1. user'[u].at = user[u].at /\ user'[u].step = user[u].step
    BY <1>7, QueueMoves
  <2> QED
    BY <1>7, <2>1, SearchedByQueue DEF Searched
<1>8. ASSUME WorkerStep \/ UNCHANGED vars PROVE Goal
  <2>1. UNCHANGED <<user, mem>>
    BY <1>8 DEF vars, WorkerStep, Record, Propose, EndPass, Take, CheckDecided, LookForPending, ReadPending,
       WritePending, UnchangedByWorker
  <2> QED
    BY <1>1, <2>1
<1> QED
  BY <1>3, <1>4, <1>5, <1>6, <1>7, <1>8 DEF Next

\* A command that no other overlapped queues a memory operation only where no directory has a
\* record of it, however the worker and the operator move records between queue_memory's looks,
\* unless one was put back to a directory the search had left behind.
THEOREM AloneQueuesOnce == Spec => []QueuedOnce
<1>1. Init => TypeOK /\ OneEach /\ Alone /\ Searched
  BY TypeInit, AloneInit
<1>2. TypeOK /\ OneEach /\ Alone /\ Searched /\ [Next]_vars => (TypeOK /\ OneEach /\ Alone /\ Searched)'
  BY TypeStep, AloneStep, SearchedStep
<1> QED
  BY <1>1, <1>2, SearchedOnce, PTL DEF Spec

-----------------------------------------------------------------------------
(* Who reopens a decision *)

\* How far the worker gets with a candidate that was settled when it took it up.
Unsettled ==
  /\ worker.at \in {"look", "read", "write"} => ~worker.settled
  /\ (worker.at = "accepted" /\ worker.settled) => \A c \in worker.cur : Settled(c)
  /\ (worker.at = "rejected" /\ worker.settled) => worker.cur \subseteq decided["rejected"]

LEMMA UnsettledInit == Init => Unsettled
BY DEF Init, Unsettled, Off

\* A decision stays.
LEMMA DecidedStays ==
  ASSUME TypeOK, OneEach, [Next]_vars
  PROVE  \A d \in Decision : decided[d] \subseteq decided'[d]
<1>0. FilesType
  BY TypeSplit
<1>1. ASSUME NEW u \in User, Decide(u) PROVE \A d \in Decision : decided[d] \subseteq decided'[d]
  BY <1>0, <1>1 DEF Decide, FilesType
<1>2. UNCHANGED decided => \A d \in Decision : decided[d] \subseteq decided'[d]
  OBVIOUS
<1> QED
  BY <1>1, <1>2 DEF Next, vars, WorkerStep, Crash, Start, Deliver, TakeBack, UnchangedByQueue, UserStep, Share, LookForOperation,
     QueueOperation, Rewrite, DecideFails, Record, Propose, EndPass, Take, CheckDecided, LookForPending,
     ReadPending, WritePending, UnchangedByWorker

LEMMA UnsettledStep == TypeOK /\ OneEach /\ Unsettled /\ [Next]_vars => Unsettled'
<1> SUFFICES ASSUME TypeOK, OneEach, Unsettled, [Next]_vars PROVE Unsettled'
  OBVIOUS
<1>0. WorkerType
  BY TypeSplit
<1>1. \A d \in Decision : decided[d] \subseteq decided'[d]
  BY DecidedStays
<1>2. CASE UNCHANGED worker
  BY <1>1, <1>2 DEF Unsettled, Settled, Decision
<1>3. CASE worker' = Off
  BY <1>3, OffType DEF Unsettled
<1>4. CASE Record \/ Propose \/ NextCandidate
  <2>1. worker'.at \in {"propose", "next"}
    BY <1>0, <1>4 DEF Record, Propose, NextCandidate, WorkerType, WorkerRecord
  <2> QED
    BY <2>1 DEF Unsettled
<1>5. ASSUME NEW c \in Candidate, Take(c) PROVE Unsettled'
  <2>1. worker'.at = "accepted" /\ worker'.cur = {c} /\ worker'.settled = Settled(c)
    BY <1>0, <1>5 DEF Take, WorkerType, WorkerRecord
  <2>2. UNCHANGED decided
    BY <1>5 DEF Take, UnchangedByWorker
  <2> QED
    BY <2>1, <2>2, Zenon DEF Unsettled, Settled
<1>6. ASSUME NEW place, worker' = [worker EXCEPT !.at = place]
      PROVE  worker'.at = place /\ worker'.cur = worker.cur /\ worker'.settled = worker.settled
  BY <1>0, <1>6 DEF WorkerType, WorkerRecord
<1>7. ASSUME NEW c \in Candidate, CheckDecided(c, "accepted", "rejected"), ~NextCandidate PROVE Unsettled'
  <2>1. worker.at = "accepted" /\ c \notin decided["accepted"] /\ worker' = [worker EXCEPT !.at = "rejected"]
    BY <1>7 DEF CheckDecided, WorkerAt
  <2>2. worker.cur = {c}
    BY <1>7, <2>1 DEF CheckDecided, WorkerAt, OneEach
  <2>3. worker.settled => c \in decided["rejected"]
    BY <2>1, <2>2 DEF Unsettled, Settled, Decision
  <2>4. decided["rejected"] \subseteq decided'["rejected"]
    BY <1>1 DEF Decision
  <2>5. worker'.at = "rejected" /\ worker'.cur = {c} /\ worker'.settled = worker.settled
    BY <1>6, <2>1, <2>2
  <2> QED
    BY <2>3, <2>4, <2>5 DEF Unsettled
<1>8. ASSUME NEW c \in Candidate, CheckDecided(c, "rejected", "look"), ~NextCandidate PROVE Unsettled'
  <2>1. worker.at = "rejected" /\ c \in worker.cur /\ c \notin decided["rejected"]
        /\ worker' = [worker EXCEPT !.at = "look"]
    BY <1>8 DEF CheckDecided, WorkerAt
  <2>2. ~worker.settled
    BY <2>1 DEF Unsettled
  <2>3. worker'.at = "look" /\ worker'.settled = worker.settled
    BY <1>6, <2>1
  <2> QED
    BY <2>2, <2>3 DEF Unsettled
<1>9. ASSUME worker.at \in {"look", "read", "write"}, NEW place \in {"look", "read", "write"},
             worker' = [worker EXCEPT !.at = place]
      PROVE  Unsettled'
  BY <1>6, <1>9 DEF Unsettled
<1>10. ASSUME NEW c \in Candidate, LookForPending(c) \/ ReadPending(c) \/ WritePending(c) PROVE Unsettled'
  <2>1. worker.at \in {"look", "read", "write"}
    BY <1>10 DEF LookForPending, ReadPending, WritePending, WorkerAt
  <2>2. \/ NextCandidate \/ worker' = Off
        \/ \E place \in {"look", "read", "write"} : worker' = [worker EXCEPT !.at = place]
    BY <1>10, Zenon DEF LookForPending, ReadPending, WritePending
  <2> QED
    BY <1>3, <1>4, <1>9, <2>1, <2>2
<1>11. CASE WorkerStep
  BY <1>3, <1>4, <1>5, <1>7, <1>8, <1>10, <1>11 DEF WorkerStep, EndPass
<1>12. ASSUME NEW u \in User, UserStep(u) PROVE UNCHANGED worker
  BY <1>12, UserFrame
<1> QED
  BY <1>2, <1>3, <1>11, <1>12 DEF Next, vars, Crash, Deliver, TakeBack, UnchangedByQueue, Start, UnchangedByUser

\* NotReopened's action.
KeptClosed ==
  \A c \in Candidate :
    (Settled(c) /\ pending[c] = Absent /\ pending'[c] # Absent)
      => \/ WorkerAt(c, "write") /\ ~worker.settled
         \/ \E u \in User : UserAt(u, "rewrite") /\ c \in user[u].cur

LEMMA ClosedStep == TypeOK /\ OneEach /\ Unsettled /\ [Next]_vars => [KeptClosed]_vars
<1> SUFFICES ASSUME TypeOK, OneEach, Unsettled, Next,
                    NEW c \in Candidate, pending[c] = Absent, pending'[c] # Absent
             PROVE  \/ WorkerAt(c, "write") /\ ~worker.settled
                    \/ \E u \in User : UserAt(u, "rewrite") /\ c \in user[u].cur
  BY DEF KeptClosed
<1>0. FilesType
  BY TypeSplit
<1>1. ASSUME NEW d \in Candidate, WritePending(d) PROVE WorkerAt(c, "write") /\ ~worker.settled
  <2>1. c = d
    BY <1>0, <1>1 DEF WritePending, FilesType
  <2> QED
    BY <1>1, <2>1 DEF WritePending, WorkerAt, Unsettled
<1>2. ASSUME NEW u \in User, Rewrite(u) PROVE UserAt(u, "rewrite") /\ c \in user[u].cur
  <2>1. UserStep(u)
    BY <1>2 DEF UserStep
  <2>2. PICK d \in Candidate : user[u].cur = {d} /\ Of(u) = d
    BY <2>1, UserFrame
  <2>3. c = d
    BY <1>0, <1>2, <2>2 DEF Rewrite, FilesType
  <2> QED
    BY <1>2, <2>2, <2>3 DEF Rewrite
<1>3. ASSUME NEW u \in User, Decide(u) PROVE FALSE
  <2>1. pending'[c] = Absent
    BY <1>0, <1>3 DEF Decide, FilesType
  <2> QED
    BY <2>1
<1>4. pending' # pending
  OBVIOUS
<1> QED
  BY <1>1, <1>2, <1>3, <1>4 DEF Next, WorkerStep, Crash, Start, Deliver, TakeBack, UnchangedByQueue, UserStep, Share, LookForOperation,
     QueueOperation, DecideFails, Record, Propose, EndPass, Take, CheckDecided, LookForPending,
     ReadPending, UnchangedByWorker

\* A decided candidate comes back to pending only through a command on it, or a worker that took
\* it up before it was decided: write_candidate's two checks let no later pass reopen it.
THEOREM DecisionsStay == Spec => NotReopened
<1>1. Init => TypeOK /\ OneEach /\ Unsettled
  BY TypeInit, UnsettledInit
<1>2. TypeOK /\ OneEach /\ Unsettled /\ [Next]_vars => (TypeOK /\ OneEach /\ Unsettled)'
  BY TypeStep, UnsettledStep
<1>3. TypeOK /\ OneEach /\ Unsettled /\ [Next]_vars => [KeptClosed]_vars
  BY ClosedStep
<1>4. [][KeptClosed]_vars => NotReopened
  BY PTL DEF NotReopened, KeptClosed
<1> QED
  BY <1>1, <1>2, <1>3, <1>4, PTL DEF Spec
=============================================================================
