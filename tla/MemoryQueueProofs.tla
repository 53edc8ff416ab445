--------------------------- MODULE MemoryQueueProofs ---------------------------
(***************************************************************************)
(* Theorems about MemoryQueue, for any operations, bounds, crashes and     *)
(* commands.  For any number of accept processes: its types; what the      *)
(* directories claim, the ledger has recorded; no step loses an operation; *)
(* terminal evidence is final; what a run counts, submits and renames.     *)
(* While no accept overlaps: receipts match directories, what is counted   *)
(* as delivered has moved, and the queue implements DeliveryContract.      *)
(***************************************************************************)
EXTENDS MemoryQueueRefinement, FiniteSetTheorems, TLAPS

-----------------------------------------------------------------------------
(* Facts about the constants and helpers *)

LEMMA PassFacts ==
  /\ Len(Pass) = 3
  /\ \A i \in 1..3 : Pass[i] \in {"pending", "submitting", "accepted"}
BY DEF Pass

LEMMA FreshFacts == Fresh \in Record /\ Fresh.st = "pending" /\ Fresh # Absent
BY DEF Fresh, Record, LocalState, Receipt, Absent

LEMMA AbsentFacts == Absent \notin Record /\ Absent.st = "absent" /\ Absent.rc = "none" /\ Absent.hold = FALSE
BY DEF Absent, Record, LocalState

\* A receipt leads to one of three directories, and a decided one to its own.
LEMMA DestinationFacts ==
  ASSUME NEW r \in Receipt
  PROVE  /\ Destination(r) \in {"accepted", "completed", "rejected"}
         /\ Destination(r) = "completed" <=> r = "committed"
         /\ Destination(r) = "rejected" <=> r = "rejected"
BY DEF Destination, Receipt, Open, Terminal

LEMMA ObservedFacts ==
  ASSUME NEW r \in Receipt, NEW old
  PROVE  Observed(old, r) \in Record
BY DestinationFacts DEF Observed, Record, LocalState

LEMMA NoRunFacts == NoRun \in Run /\ NoRun.pc = "off" /\ NoRun.cur = {}
BY FreshFacts DEF NoRun, Run, PC, Receipt

-----------------------------------------------------------------------------
(* Type correctness *)

FileType == file \in [Dir -> [Op -> Record \cup {Absent}]]

\* What a place in a directory may hold, as a record.
LEMMA FiledFacts ==
  ASSUME FileType, NEW d \in Dir, NEW o \in Op
  PROVE  file[d][o] \in [st : LocalState \cup {"absent"}, rc : Receipt, hold : BOOLEAN]
<1>1. file[d][o] \in Record \cup {Absent}
  BY DEF FileType
<1>2. CASE file[d][o] \in Record
  BY <1>2 DEF Record
<1>3. CASE file[d][o] = Absent
  BY <1>3 DEF Absent, Receipt
<1> QED
  BY <1>1, <1>2, <1>3

\* Marking a parked record gives a record, even where there was none.
LEMMA MarkFacts ==
  ASSUME FileType, NEW o \in Op, "stalled" \in Dir
  PROVE  LET r == file["stalled"][o]
         IN  /\ [r EXCEPT !.st = "stalled"] \in Record
             /\ ReleaseTarget(r) \in {"accepted", "pending"}
             /\ [r EXCEPT !.st = ReleaseTarget(r), !.hold = FALSE] \in Record
<1> DEFINE r == file["stalled"][o]
<1>1. ReleaseTarget(r) \in {"accepted", "pending"} /\ ReleaseTarget(r) \in LocalState
  BY DEF ReleaseTarget, LocalState
<1>2. r \in [st : LocalState \cup {"absent"}, rc : Receipt, hold : BOOLEAN]
  BY FiledFacts
<1> HIDE DEF r
<1>3. [r EXCEPT !.st = "stalled"] \in Record
  BY <1>2 DEF Record, LocalState
<1>4. [r EXCEPT !.st = ReleaseTarget(r), !.hold = FALSE] \in Record
  BY <1>1, <1>2 DEF Record
<1> QED
  BY <1>1, <1>3, <1>4 DEF r

\* What the file operations do, record by record.
LEMMA WriteFacts ==
  ASSUME FileType, NEW d \in Dir, NEW o \in Op, NEW r \in Record \cup {Absent}, Write(d, o, r)
  PROVE  /\ FileType'
         /\ \A x \in Dir, p \in Op : file'[x][p] = IF x = d /\ p = o THEN r ELSE file[x][p]
BY DEF FileType, Write

LEMMA MoveFacts ==
  ASSUME FileType, NEW d \in Dir, NEW e \in Dir, NEW o \in Op, NEW r \in Record \cup {Absent},
         Move(d, e, o, r)
  PROVE  /\ FileType'
         /\ \A x \in Dir, p \in Op :
              file'[x][p] = IF x = e /\ p = o THEN r
                            ELSE IF x = d /\ p = o THEN Absent ELSE file[x][p]
<1> DEFINE mid == [file EXCEPT ![d] = [file[d] EXCEPT ![o] = Absent]]
<1>1. /\ mid \in [Dir -> [Op -> Record \cup {Absent}]]
      /\ \A x \in Dir, p \in Op : mid[x][p] = IF x = d /\ p = o THEN Absent ELSE file[x][p]
  BY DEF FileType
<1>2. file' = [mid EXCEPT ![e] = [mid[e] EXCEPT ![o] = r]]
  BY DEF Move
<1> HIDE DEF mid
<1> QED
  BY <1>1, <1>2 DEF FileType

LEMMA RenameFacts ==
  ASSUME FileType, NEW d \in Dir, NEW e \in Dir, NEW o \in Op, Rename(d, e, o)
  PROVE  /\ FileType'
         /\ \A x \in Dir, p \in Op :
              file'[x][p] = IF x = e /\ p = o THEN file[d][o]
                            ELSE IF x = d /\ p = o THEN Absent ELSE file[x][p]
<1>1. file[d][o] \in Record \cup {Absent}
  BY DEF FileType
<1> QED
  BY <1>1, MoveFacts DEF Rename

LEMMA SetAsideFacts ==
  ASSUME FileType, NEW d \in Dir, NEW o \in Op, SetAside(d, o)
  PROVE  /\ FileType'
         /\ \A x \in Dir, p \in Op : file'[x][p] = IF x = d /\ p = o THEN Absent ELSE file[x][p]
BY WriteFacts DEF SetAside

\* Everything but the files.
RestType ==
  /\ lock \in {"free", "worker", "operator"}
  /\ w \in Run
  /\ status \in Counts
  /\ posts \in SUBSET Op
  /\ ledger \in [Op -> Receipt]
  /\ cmd \in [kind : {"none", "quarantine", "release"}, todo : SUBSET Op, half : SUBSET Op]
  /\ listed \in SUBSET Op
  /\ acc \in [Acceptor -> [step : 0..8, op : SUBSET Op]]
  /\ budget \in [Op -> Nat]
  /\ crashes \in Nat /\ commands \in Nat

LEMMA TypeSplit ==
  /\ TypeOK <=> FileType /\ RestType
  /\ TypeOK' <=> FileType' /\ RestType'
BY DEF TypeOK, FileType, RestType

\* The names listed for a pass are operation ids.
LEMMA NamesType == \A d : Names(d) \in SUBSET Op
BY DEF Names

LEMMA InitType == Init => TypeOK
<1> SUFFICES ASSUME Init PROVE TypeOK
  OBVIOUS
<1>1. PICK d \in UnreadableDirs \cup {"pending"} :
        /\ file = [e \in Dir |-> [o \in Op |->
                     IF e = "retry" /\ o \in Legacy THEN [Fresh EXCEPT !.st = "retry"]
                     ELSE IF e = d /\ o \in Unreadable THEN Fresh
                     ELSE Absent]]
        /\ ledger = [o \in Op |-> IF o \in Unreadable /\ d # "pending" THEN "accepted" ELSE "none"]
        /\ listed = IF d = "stalled" THEN Unreadable ELSE {}
  BY DEF Init
<1>2. [Fresh EXCEPT !.st = "retry"] \in Record
  BY DEF Fresh, Record, LocalState, Receipt
<1>3. FileType
  BY <1>1, <1>2, FreshFacts DEF FileType
<1>4. ledger \in [Op -> Receipt] /\ listed \in SUBSET Op
  BY <1>1, MemoryQueueAssumption DEF Receipt, Open
<1>5. w \in Run
  BY NoRunFacts DEF Init
<1>6. status \in Counts /\ cmd \in [kind : {"none", "quarantine", "release"},
                                    todo : SUBSET Op, half : SUBSET Op]
  BY DEF Init, NoCounts, Counts, NoCommand
<1>7. acc \in [Acceptor -> [step : 0..8, op : SUBSET Op]]
  BY DEF Init, NoAccept
<1>8. budget \in [Op -> Nat]
  BY MemoryQueueAssumption DEF Init
<1>9. RestType
  BY <1>4, <1>5, <1>6, <1>7, <1>8 DEF RestType, Init
<1> QED
  BY <1>3, <1>9, TypeSplit

\* A run that ends leaves well-typed memory behind.
LEMMA EndRunType ==
  ASSUME EndRun
  PROVE  w' \in Run /\ lock' \in {"free", "worker", "operator"}
BY NoRunFacts DEF EndRun

\* A step that changes the worker's memory only.
LEMMA OnlyRun ==
  ASSUME TypeOK, w' \in Run, UNCHANGED <<file, lock, status, others>>
  PROVE  TypeOK'
BY TypeSplit DEF RestType, FileType, others

\* A step that changes the worker's memory and one file.
LEMMA RunAndFile ==
  ASSUME TypeOK, w' \in Run, FileType', UNCHANGED <<lock, status, others>>
  PROVE  TypeOK'
BY TypeSplit DEF RestType, others

LEMMA RunHasType == TypeOK => w \in Run
BY DEF TypeOK

\* Until reconciliation: taking the lock, recovery, migration and the jobs.
LEMMA PreludeType ==
  ASSUME TypeOK,
         \/ Begin \/ RecoverAborts \/ RecoverDone \/ MigrateDone \/ JobsDone
         \/ \E o \in Op : RecoverSubmitting(o) \/ MigrateRetry(o) \/ EnqueueFromJob(o)
  PROVE  TypeOK'
<1> USE TypeSplit DEF RestType, others
<1>1. CASE Begin
  BY <1>1 DEF Begin, Run, PC, NoCounts, Counts, FileType
<1>2. CASE RecoverAborts
  BY <1>2, EndRunType DEF RecoverAborts, FileType
<1>3. CASE RecoverDone
  BY <1>3 DEF RecoverDone, FileType, Run, PC
<1>4. CASE MigrateDone
  BY <1>4 DEF MigrateDone, FileType, Run, PC
<1>5. CASE JobsDone
  <2>1. Names(Pass[1]) \in SUBSET Op
    BY NamesType
  <2> QED
    BY <1>5, <2>1 DEF JobsDone, FileType, Run, PC
<1>6. ASSUME NEW o \in Op, RecoverSubmitting(o) PROVE TypeOK'
  <2>1. file["submitting"][o] \in Record
    BY <1>6 DEF RecoverSubmitting, In, FileType, Dir
  <2>2. [file["submitting"][o] EXCEPT !.st = "submitting"] \in Record
    BY <2>1 DEF Record, LocalState
  <2> QED
    BY <1>6, <2>2, WriteFacts DEF RecoverSubmitting, Dir
<1>7. ASSUME NEW o \in Op, MigrateRetry(o) PROVE TypeOK'
  <2>1. file["retry"][o] \in Record
    BY <1>7 DEF MigrateRetry, In, FileType, Dir
  <2>2. [file["retry"][o] EXCEPT !.st = "pending"] \in Record
    BY <2>1 DEF Record, LocalState
  <2>3. FileType'
    BY <1>7, <2>2, MoveFacts, SetAsideFacts DEF MigrateRetry, Dir
  <2> QED
    BY <1>7, <2>3 DEF MigrateRetry
<1>8. ASSUME NEW o \in Op, EnqueueFromJob(o) PROVE TypeOK'
  <2>1. FileType'
    BY <1>8, FreshFacts, WriteFacts DEF EnqueueFromJob, FileType, Dir
  <2> QED
    BY <1>8, <2>1 DEF EnqueueFromJob
<1> QED
  BY <1>1, <1>2, <1>3, <1>4, <1>5, <1>6, <1>7, <1>8

\* The pass and its requests.
LEMMA PassType ==
  ASSUME TypeOK,
         \/ NextDirectory \/ LedgerReady \/ Finish \/ CrashWorker
         \/ \E isDown \in BOOLEAN : RequestFails(isDown)
         \/ \E o \in Op : \/ SkipReconciled(o) \/ Defer(o) \/ ReconcileAborts(o)
                          \/ LookupFound(o) \/ LookupNotFound(o) \/ Submit(o) \/ SubmitAnswered(o)
                          \/ \E isDown \in BOOLEAN : SubmitFails(o, isDown)
  PROVE  TypeOK'
<1>0. w \in Run /\ ledger \in [Op -> Receipt] /\ posts \in SUBSET Op /\ status \in Counts
  BY DEF TypeOK
<1>1. CASE NextDirectory
  <2>1. Names(Pass[w.phase + 1]) \in SUBSET Op
    BY NamesType
  <2>2. w.phase \in 1..3 /\ w.phase + 1 \in 1..3
    BY <1>0, <1>1, PassFacts DEF NextDirectory, Run
  <2>3. w' = [w EXCEPT !.phase = w.phase + 1, !.todo = Names(Pass[w.phase + 1])]
    BY <1>1 DEF NextDirectory
  <2>4. w' \in Run
    BY <1>0, <2>1, <2>2, <2>3 DEF Run
  <2> QED
    BY <1>1, <2>4, OnlyRun DEF NextDirectory
<1>2. CASE LedgerReady
  <2>1. w' \in Run
    BY <1>0, <1>2 DEF LedgerReady, Run, PC
  <2> QED
    BY <1>2, <2>1, OnlyRun DEF LedgerReady
<1>3. CASE Finish
  BY <1>3, EndRunType, TypeSplit DEF Finish, FileType, RestType, others
<1>4. CASE CrashWorker
  BY <1>4, EndRunType, TypeSplit DEF CrashWorker, FileType, RestType
<1>5. ASSUME NEW isDown \in BOOLEAN, RequestFails(isDown) PROVE TypeOK'
  <2>1. w' \in Run
    BY <1>0, <1>5 DEF RequestFails, Fail, Run, PC
  <2> QED
    BY <1>5, <2>1, OnlyRun DEF RequestFails
<1>6. ASSUME NEW o \in Op, SkipReconciled(o) PROVE TypeOK'
  <2>1. w' \in Run
    BY <1>0, <1>6 DEF SkipReconciled, Run
  <2> QED
    BY <1>6, <2>1, OnlyRun DEF SkipReconciled
<1>7. ASSUME NEW o \in Op, Defer(o) PROVE TypeOK'
  <2>1. w' \in Run
    BY <1>0, <1>7 DEF Defer, Run
  <2>2. status' \in Counts
    BY <1>0, <1>7 DEF Defer, Counts
  <2> QED
    BY <1>7, <2>1, <2>2, TypeSplit DEF Defer, FileType, RestType, others
<1>8. ASSUME NEW o \in Op, ReconcileAborts(o) PROVE TypeOK'
  BY <1>8, EndRunType, TypeSplit DEF ReconcileAborts, FileType, RestType, others
<1>9. ASSUME NEW o \in Op, LookupFound(o) PROVE TypeOK'
  <2>1. w' \in Run
    BY <1>0, <1>9 DEF LookupFound, Run, PC
  <2> QED
    BY <1>9, <2>1, OnlyRun DEF LookupFound
<1>10. ASSUME NEW o \in Op, LookupNotFound(o) PROVE TypeOK'
  <2>1. w' \in Run
    BY <1>0, <1>10 DEF LookupNotFound, Run, PC
  <2> QED
    BY <1>10, <2>1, OnlyRun DEF LookupNotFound
<1>11. ASSUME NEW o \in Op, Submit(o) PROVE TypeOK'
  <2>1. w' \in Run
    BY <1>0, <1>11 DEF Submit, Run, PC
  <2>2. posts' \in SUBSET Op
    BY <1>0, <1>11 DEF Submit
  <2> QED
    BY <1>11, <2>1, <2>2, TypeSplit DEF Submit, FileType, RestType
<1>12. ASSUME NEW o \in Op, SubmitAnswered(o) PROVE TypeOK'
  <2>1. w' \in Run
    BY <1>0, <1>12 DEF SubmitAnswered, Run, PC
  <2> QED
    BY <1>12, <2>1, OnlyRun DEF SubmitAnswered
<1>13. ASSUME NEW o \in Op, NEW isDown \in BOOLEAN, SubmitFails(o, isDown) PROVE TypeOK'
  <2>1. w' \in Run
    BY <1>0, <1>13 DEF SubmitFails, Fail, Run, PC
  <2>2. posts' \in SUBSET Op
    BY <1>0, <1>13 DEF SubmitFails
  <2> QED
    BY <1>13, <2>1, <2>2, TypeSplit DEF SubmitFails, FileType, RestType
<1> QED
  BY <1>1, <1>2, <1>3, <1>4, <1>5, <1>6, <1>7, <1>8, <1>9, <1>10, <1>11, <1>12, <1>13

\* A record is taken in hand.
LEMMA ReconcileType ==
  ASSUME TypeOK, NEW o \in Op, Reconcile(o)
  PROVE  TypeOK'
<1>0. w \in Run /\ FileType
  BY DEF TypeOK, FileType
<1> DEFINE d == Pass[w.phase]
           r == file[d][o]
           marked == [r EXCEPT !.st = "submitting"]
<1>1. d \in {"pending", "submitting", "accepted"} /\ r \in Record \cup {Absent}
  BY <1>0, PassFacts DEF Run, FileType, Dir
<1>2. CASE r.st = "pending"
  <2>1. marked \in Record
    BY <1>1, <1>2, AbsentFacts DEF Record, LocalState
  <2>2. Write(d, o, marked)
        /\ w' = [w EXCEPT !.pc = "rename", !.cur = {o}, !.at = d, !.rec = marked,
                          !.todo = @ \ {o}, !.seen = @ \cup {o}]
    BY <1>2 DEF Reconcile
  <2>3. FileType'
    BY <1>0, <1>1, <2>1, <2>2, WriteFacts DEF Dir
  <2> HIDE DEF d, r, marked
  <2>4. w' \in Run
    BY <1>0, <1>1, <2>1, <2>2 DEF Run, PC
  <2> QED
    BY <2>3, <2>4, RunAndFile DEF Reconcile
<1>3. CASE r.st # "pending"
  <2>1. w' = [w EXCEPT !.pc = "lookup", !.cur = {o}, !.at = d, !.rec = r,
                       !.todo = @ \ {o}, !.seen = @ \cup {o}]
        /\ UNCHANGED file
    BY <1>3 DEF Reconcile
  <2> HIDE DEF d, r
  <2>2. w' \in Run
    BY <1>0, <1>1, <2>1 DEF Run, PC
  <2> QED
    BY <2>1, <2>2, OnlyRun DEF Reconcile
<1> QED
  BY <1>2, <1>3

\* A receipt is applied, or an error recorded.
LEMMA OutcomeType ==
  ASSUME TypeOK, NEW o \in Op,
         MoveToSubmitting(o) \/ ApplyReceipt(o) \/ Settle(o) \/ RecordError(o)
  PROVE  TypeOK'
<1>0. /\ w \in Run /\ FileType /\ status \in Counts
      /\ w.at \in {"pending", "submitting", "accepted"} /\ w.at \in Dir /\ w.reply \in Receipt
  BY DEF TypeOK, FileType, Run, Dir
<1>1. CASE MoveToSubmitting(o)
  <2>1. w' \in Run
    BY <1>0, <1>1 DEF MoveToSubmitting, Run, PC
  <2>2. FileType'
    BY <1>0, <1>1, RenameFacts DEF MoveToSubmitting, Dir
  <2> QED
    BY <1>1, <2>1, <2>2, RunAndFile DEF MoveToSubmitting
<1>2. CASE ApplyReceipt(o)
  <2>1. w' \in Run
    BY <1>0, <1>2 DEF ApplyReceipt, Run, PC
  <2>2. FileType'
    BY <1>0, <1>2, ObservedFacts, WriteFacts DEF ApplyReceipt
  <2> QED
    BY <1>2, <2>1, <2>2, RunAndFile DEF ApplyReceipt
<1>3. CASE Settle(o)
  <2>1. w' \in Run
    BY <1>0, <1>3, FreshFacts DEF Settle, Run, PC, Receipt
  <2>2. status' \in Counts
    BY <1>0, <1>3 DEF Settle, Counts
  <2>3. Destination(w.reply) \in Dir
    BY <1>0, DestinationFacts DEF Dir
  <2>4. FileType'
    BY <1>0, <1>3, <2>3, RenameFacts, SetAsideFacts DEF Settle, SettleFile, FileType
  <2> QED
    BY <1>3, <2>1, <2>2, <2>4, TypeSplit DEF Settle, RestType, others
<1>4. CASE RecordError(o)
  <2>1. w' \in Run
    BY <1>0, <1>4, FreshFacts DEF RecordError, Run, PC
  <2>2. status' \in Counts
    BY <1>0, <1>4 DEF RecordError, Counts
  <2> QED
    BY <1>4, <2>1, <2>2, TypeSplit DEF RecordError, FileType, RestType, others
<1> QED
  BY <1>1, <1>2, <1>3, <1>4

\* The operator's commands.
LEMMA CommandType ==
  ASSUME TypeOK,
         \/ CommandStep \/ CrashCommand
         \/ \E S \in SUBSET Op : Quarantine(S) \/ Release(S)
  PROVE  TypeOK'
<1> DEFINE Command == [kind : {"none", "quarantine", "release"}, todo : SUBSET Op, half : SUBSET Op]
<1>0. FileType /\ RestType /\ cmd \in Command
  BY TypeSplit DEF RestType
<1>1. ASSUME FileType', cmd' \in Command, crashes' \in Nat,
             lock' \in {"free", "worker", "operator"},
             UNCHANGED <<w, status, posts, ledger, listed, acc, budget, commands>>
      PROVE  TypeOK'
  BY <1>0, <1>1, TypeSplit DEF RestType
<1>2. CASE CommandDone
  BY <1>0, <1>1, <1>2 DEF CommandDone, NoCommand, FileType, RestType
<1>3. CASE CrashCommand
  BY <1>0, <1>1, <1>3 DEF CrashCommand, NoCommand, FileType, RestType
<1>4. ASSUME NEW S \in SUBSET Op, Quarantine(S) PROVE TypeOK'
  BY <1>0, <1>4, TypeSplit DEF Quarantine, RecordIntent, FileType, RestType
<1>5. ASSUME NEW S \in SUBSET Op, Release(S) PROVE TypeOK'
  BY <1>0, <1>5, TypeSplit DEF Release, FileType, RestType
<1>6. ASSUME NEW o \in Op, ParkMove(o) PROVE TypeOK'
  <2>1. FileType'
    BY <1>0, <1>6, RenameFacts DEF ParkMove, Dir
  <2> QED
    BY <1>0, <1>1, <1>6, <2>1 DEF ParkMove, RestType
<1>7. ASSUME NEW o \in Op, ParkMark(o) \/ ReleaseMark(o) PROVE TypeOK'
  <2>1. PICK r \in Record : Write("stalled", o, r)
    BY <1>0, <1>7, MarkFacts DEF ParkMark, ReleaseMark, Dir
  <2>2. FileType'
    BY <1>0, <2>1, WriteFacts DEF Dir
  <2>3. cmd' \in Command
    BY <1>0, <1>7 DEF ParkMark, ReleaseMark
  <2> QED
    BY <1>0, <1>1, <1>7, <2>2, <2>3 DEF ParkMark, ReleaseMark, RestType
<1>8. ASSUME NEW o \in Op, ReleaseMove(o) PROVE TypeOK'
  <2>1. ReleaseTarget(file["stalled"][o]) \in Dir /\ "stalled" \in Dir
    BY DEF ReleaseTarget, Dir
  <2>2. FileType'
    BY <1>0, <1>8, <2>1, RenameFacts DEF ReleaseMove
  <2> QED
    BY <1>0, <1>1, <1>8, <2>2 DEF ReleaseMove, RestType
<1> QED
  BY <1>2, <1>3, <1>4, <1>5, <1>6, <1>7, <1>8 DEF CommandStep

\* Accepted candidates, the server and the clock.
LEMMA EnvironmentType ==
  ASSUME TypeOK, AcceptStep \/ ServerStep \/ \E o \in Op : BackoffElapses(o)
  PROVE  TypeOK'
<1>0. FileType /\ RestType
  BY TypeSplit
<1>1. ASSUME NEW a \in Acceptor, NEW o \in Op, StartAccept(a, o) PROVE TypeOK'
  BY <1>0, <1>1, TypeSplit DEF StartAccept, FileType, RestType
<1>2. ASSUME NEW a \in Acceptor, NEW o \in Op, ProbeState(a, o) PROVE TypeOK'
  <2>1. Len(MemoryStates) = 7
    BY DEF MemoryStates
  <2>2. acc' \in [Acceptor -> [step : 0..8, op : SUBSET Op]]
    <3>1. acc[a] \in [step : 0..8, op : SUBSET Op] /\ acc[a].step \in 1..7
      BY <1>0, <1>2, <2>1 DEF ProbeState, RestType
    <3>2. [step |-> acc[a].step + 1, op |-> acc[a].op] \in [step : 0..8, op : SUBSET Op]
      BY <3>1
    <3>3. NoAccept \in [step : 0..8, op : SUBSET Op]
      BY DEF NoAccept
    <3>4. acc' = [acc EXCEPT ![a] = IF In(MemoryStates[acc[a].step], o) THEN NoAccept
                                    ELSE [step |-> acc[a].step + 1, op |-> acc[a].op]]
      BY <1>2 DEF ProbeState
    <3> QED
      BY <1>0, <3>2, <3>3, <3>4 DEF RestType
  <2> QED
    BY <1>0, <1>2, <2>2, TypeSplit DEF ProbeState, FileType, RestType
<1>3. ASSUME NEW a \in Acceptor, NEW o \in Op, WriteAccepted(a, o) PROVE TypeOK'
  <2>1. acc' \in [Acceptor -> [step : 0..8, op : SUBSET Op]]
    BY <1>0, <1>3 DEF WriteAccepted, RestType, NoAccept
  <2>2. FileType'
    BY <1>0, <1>3, FreshFacts, WriteFacts DEF WriteAccepted, Dir
  <2> QED
    BY <1>0, <1>3, <2>1, <2>2, TypeSplit DEF WriteAccepted, RestType
<1>4. ASSUME NEW o \in Op, ServerRecords(o) PROVE TypeOK'
  <2>1. ledger' \in [Op -> Receipt]
    BY <1>0, <1>4 DEF ServerRecords, RestType, Receipt, Open
  <2> QED
    BY <1>0, <1>4, <2>1, TypeSplit DEF ServerRecords, FileType, RestType
<1>5. ASSUME NEW o \in Op, ServerAdvances(o) PROVE TypeOK'
  <2>1. ledger' \in [Op -> Receipt]
    BY <1>0, <1>5 DEF ServerAdvances, RestType, Receipt, Open
  <2> QED
    BY <1>0, <1>5, <2>1, TypeSplit DEF ServerAdvances, FileType, RestType
<1>6. ASSUME NEW o \in Op, NEW r \in Terminal, ServerDecides(o, r) PROVE TypeOK'
  <2>1. ledger' \in [Op -> Receipt]
    BY <1>0, <1>6 DEF ServerDecides, RestType, Receipt
  <2> QED
    BY <1>0, <1>6, <2>1, TypeSplit DEF ServerDecides, FileType, RestType
<1>7. ASSUME NEW o \in Op, BackoffElapses(o) PROVE TypeOK'
  <2>1. [file["accepted"][o] EXCEPT !.hold = FALSE] \in Record
    <3>1. file["accepted"][o] \in Record
      BY <1>0, <1>7, AbsentFacts DEF BackoffElapses, FileType, Dir
    <3> QED
      BY <3>1 DEF Record
  <2>2. FileType'
    BY <1>0, <1>7, <2>1, WriteFacts DEF BackoffElapses, Dir
  <2> QED
    BY <1>0, <1>7, <2>2, TypeSplit DEF BackoffElapses, RestType, others
<1> QED
  BY <1>1, <1>2, <1>3, <1>4, <1>5, <1>6, <1>7 DEF AcceptStep, ServerStep

LEMMA NextType == TypeOK /\ [Next]_vars => TypeOK'
<1> SUFFICES ASSUME TypeOK, [Next]_vars PROVE TypeOK'
  OBVIOUS
<1>1. CASE UNCHANGED vars
  BY <1>1 DEF vars, others, TypeOK
<1>2. CASE Begin \/ WorkerStep \/ CrashWorker
  BY <1>2, PreludeType, PassType, ReconcileType, OutcomeType DEF WorkerStep
<1>3. CASE CommandStep \/ CrashCommand \/ \E S \in SUBSET Op : Quarantine(S) \/ Release(S)
  BY <1>3, CommandType
<1>4. CASE AcceptStep \/ ServerStep \/ \E o \in Op : BackoffElapses(o)
  BY <1>4, EnvironmentType
<1> QED
  BY <1>1, <1>2, <1>3, <1>4 DEF Next

\* Every variable keeps its type, whatever the number of operations, acceptors,
\* crashes and commands.
THEOREM TypeCorrect == Spec => []TypeOK
BY InitType, NextType, PTL DEF Spec

-----------------------------------------------------------------------------
(* What the directories claim *)

\* What must be true for operation o to have a record in directory d.
Supported(d, o) ==
  /\ d = "completed" => ledger[o] = "committed"
  /\ d = "rejected" => ledger[o] = "rejected"
  /\ d \in {"accepted", "stalled"} => ledger[o] # "none"
  /\ d = "stalled" => o \in listed

FilesSupported == \A d \in Dir, o \in Op : In(d, o) => Supported(d, o)

\* The worker has at most one operation in hand.
OneInHand == \A o, p \in w.cur : o = p

\* The receipt about to be applied is the ledger's word.
ReplyAgrees ==
  w.pc \in {"apply", "settle"} =>
    \A o \in w.cur : /\ w.reply # "none" /\ ledger[o] # "none"
                     /\ w.reply \in Terminal => ledger[o] = w.reply

\* The server knows what a command has taken, and a manifest lists it.
CommandKnown == \A o \in cmd.todo \cup cmd.half : ledger[o] # "none" /\ o \in listed

\* The worker and the commands exclude each other.
Exclusive ==
  /\ w.pc # "off" => lock = "worker"
  /\ cmd.kind # "none" => lock = "operator"

\* A file about to be renamed is there.
InHandPresent == w.pc = "rename" => \A o \in w.cur : In(w.at, o)

CommandPresent ==
  /\ cmd.kind = "quarantine" => \A o \in cmd.todo : In("accepted", o)
  /\ cmd.kind = "release" => \A o \in cmd.half : In("stalled", o)

EvidenceInv == FilesSupported /\ OneInHand /\ ReplyAgrees /\ CommandKnown
PresenceInv == Exclusive /\ InHandPresent /\ CommandPresent
-----------------------------------------------------------------------------
(* What file operations preserve *)

LEMMA SupportedFacts == TypeOK => (FilesSupported <=> LedgerAgreement /\ ParkedIsListed)
BY DEF FilesSupported, Supported, LedgerAgreement, ParkedIsListed, Dir

\* A write is harmless where a record is already, or where one is supported.
LEMMA WriteSupported ==
  ASSUME FileType, FilesSupported, UNCHANGED <<ledger, listed>>,
         NEW d \in Dir, NEW o \in Op, NEW r \in Record \cup {Absent}, Write(d, o, r),
         In(d, o) \/ r = Absent \/ Supported(d, o)
  PROVE  FilesSupported'
BY WriteFacts DEF FilesSupported, Supported, In

\* A move is harmless if what it brings is supported in its new place.
LEMMA MoveSupported ==
  ASSUME FileType, FilesSupported, UNCHANGED <<ledger, listed>>,
         NEW d \in Dir, NEW e \in Dir, NEW o \in Op, NEW r \in Record \cup {Absent},
         Move(d, e, o, r), r = Absent \/ Supported(e, o)
  PROVE  FilesSupported'
BY MoveFacts DEF FilesSupported, Supported, In

LEMMA RenameSupported ==
  ASSUME FileType, FilesSupported, UNCHANGED <<ledger, listed>>,
         NEW d \in Dir, NEW e \in Dir, NEW o \in Op,
         Rename(d, e, o), ~In(d, o) \/ Supported(e, o)
  PROVE  FilesSupported'
BY RenameFacts DEF FilesSupported, Supported, In

LEMMA SetAsideSupported ==
  ASSUME FileType, FilesSupported, UNCHANGED <<ledger, listed>>,
         NEW d \in Dir, NEW o \in Op, SetAside(d, o)
  PROVE  FilesSupported'
BY SetAsideFacts DEF FilesSupported, Supported, In

-----------------------------------------------------------------------------
(* The evidence invariant *)

LEMMA InitEvidence == Init => EvidenceInv
<1> SUFFICES ASSUME Init PROVE EvidenceInv
  OBVIOUS
<1>1. PICK d \in UnreadableDirs \cup {"pending"} :
        /\ file = [e \in Dir |-> [o \in Op |->
                     IF e = "retry" /\ o \in Legacy THEN [Fresh EXCEPT !.st = "retry"]
                     ELSE IF e = d /\ o \in Unreadable THEN Fresh
                     ELSE Absent]]
        /\ ledger = [o \in Op |-> IF o \in Unreadable /\ d # "pending" THEN "accepted" ELSE "none"]
        /\ listed = IF d = "stalled" THEN Unreadable ELSE {}
  BY DEF Init
<1>2. d \in {"pending", "submitting", "accepted", "stalled"}
  BY MemoryQueueAssumption
<1>3. FilesSupported
  <2> SUFFICES ASSUME NEW e \in Dir, NEW o \in Op, In(e, o) PROVE Supported(e, o)
    BY DEF FilesSupported
  <2>1. file[e][o] = IF e = "retry" /\ o \in Legacy THEN [Fresh EXCEPT !.st = "retry"]
                     ELSE IF e = d /\ o \in Unreadable THEN Fresh
                     ELSE Absent
    BY <1>1
  <2>2. e = "retry" \/ (e = d /\ o \in Unreadable)
    BY <2>1 DEF In
  <2> QED
    BY <1>1, <1>2, <2>2 DEF Supported
<1>4. OneInHand /\ ReplyAgrees /\ CommandKnown
  BY NoRunFacts DEF Init, OneInHand, ReplyAgrees, CommandKnown, NoCommand
<1> QED
  BY <1>3, <1>4 DEF EvidenceInv

\* Steps that change neither files nor ledger nor commands need only keep the
\* worker's own part.
LEMMA RunEvidence ==
  ASSUME EvidenceInv, UNCHANGED <<file, ledger, cmd, listed>>, OneInHand', ReplyAgrees'
  PROVE  EvidenceInv'
BY DEF EvidenceInv, FilesSupported, Supported, In, CommandKnown

\* A run that ends has nothing in hand.
LEMMA EndRunEvidence ==
  ASSUME EndRun
  PROVE  OneInHand' /\ ReplyAgrees'
BY NoRunFacts DEF EndRun, OneInHand, ReplyAgrees

LEMMA PreludeEvidence ==
  ASSUME TypeOK, EvidenceInv,
         \/ Begin \/ RecoverAborts \/ RecoverDone \/ MigrateDone \/ JobsDone
         \/ \E o \in Op : RecoverSubmitting(o) \/ MigrateRetry(o) \/ EnqueueFromJob(o)
  PROVE  EvidenceInv'
<1>0. FileType /\ w \in Run /\ FilesSupported /\ OneInHand /\ ReplyAgrees /\ CommandKnown
  BY TypeSplit DEF EvidenceInv, RestType
<1>1. CASE Begin \/ RecoverDone \/ MigrateDone \/ JobsDone
  <2>1. OneInHand' /\ ReplyAgrees'
    BY <1>0, <1>1 DEF Begin, RecoverDone, MigrateDone, JobsDone, OneInHand, ReplyAgrees, Run
  <2> QED
    BY <1>1, <2>1, RunEvidence DEF Begin, RecoverDone, MigrateDone, JobsDone, others
<1>2. CASE RecoverAborts
  BY <1>2, EndRunEvidence, RunEvidence DEF RecoverAborts, others
<1>3. ASSUME NEW o \in Op, RecoverSubmitting(o) \/ MigrateRetry(o) \/ EnqueueFromJob(o)
      PROVE  EvidenceInv'
  <2>1. UNCHANGED <<ledger, listed, cmd, w>>
    BY <1>3 DEF RecoverSubmitting, MigrateRetry, EnqueueFromJob, others
  <2>2. FilesSupported'
    <3>1. CASE RecoverSubmitting(o)
      <4>1. file["submitting"][o] \in Record
        BY <1>0, <3>1 DEF RecoverSubmitting, In, FileType, Dir
      <4>2. [file["submitting"][o] EXCEPT !.st = "submitting"] \in Record
        BY <4>1 DEF Record, LocalState
      <4> QED
        BY <1>0, <2>1, <3>1, <4>2, WriteSupported DEF RecoverSubmitting, Dir
    <3>2. CASE MigrateRetry(o)
      <4>1. file["retry"][o] \in Record
        BY <1>0, <3>2 DEF MigrateRetry, In, FileType, Dir
      <4>2. [file["retry"][o] EXCEPT !.st = "pending"] \in Record
        BY <4>1 DEF Record, LocalState
      <4>3. Supported("pending", o)
        BY DEF Supported
      <4> QED
        BY <1>0, <2>1, <3>2, <4>2, <4>3, MoveSupported, SetAsideSupported DEF MigrateRetry, Dir
    <3>3. CASE EnqueueFromJob(o)
      <4>1. Supported("pending", o)
        BY DEF Supported
      <4>2. CASE UNCHANGED file
        BY <1>0, <2>1, <4>2 DEF FilesSupported, Supported, In
      <4>3. CASE Write("pending", o, Fresh)
        BY <1>0, <2>1, <4>1, <4>3, FreshFacts, WriteSupported DEF Dir
      <4> QED
        BY <3>3, <4>2, <4>3 DEF EnqueueFromJob
    <3> QED
      BY <1>3, <3>1, <3>2, <3>3
  <2> QED
    BY <1>0, <2>1, <2>2 DEF EvidenceInv, OneInHand, ReplyAgrees, CommandKnown
<1> QED
  BY <1>1, <1>2, <1>3

LEMMA PassEvidence ==
  ASSUME TypeOK, EvidenceInv,
         \/ NextDirectory \/ LedgerReady \/ Finish \/ CrashWorker
         \/ \E isDown \in BOOLEAN : RequestFails(isDown)
         \/ \E o \in Op : \/ SkipReconciled(o) \/ Defer(o) \/ ReconcileAborts(o) \/ RecordError(o)
                          \/ LookupFound(o) \/ LookupNotFound(o) \/ Submit(o) \/ SubmitAnswered(o)
                          \/ \E isDown \in BOOLEAN : SubmitFails(o, isDown)
  PROVE  EvidenceInv'
<1>0. w \in Run /\ ledger \in [Op -> Receipt] /\ OneInHand
  BY DEF EvidenceInv, TypeOK
<1>1. CASE \/ NextDirectory \/ LedgerReady \/ \E isDown \in BOOLEAN : RequestFails(isDown)
           \/ \E o \in Op : \/ SkipReconciled(o) \/ Defer(o) \/ LookupNotFound(o) \/ Submit(o)
                            \/ \E isDown \in BOOLEAN : SubmitFails(o, isDown)
  <2>1. w'.cur = w.cur /\ w'.pc \notin {"apply", "settle"}
    BY <1>0, <1>1 DEF NextDirectory, LedgerReady, RequestFails, Fail, SkipReconciled, Defer,
                      LookupNotFound, Submit, SubmitFails, Run
  <2>2. OneInHand' /\ ReplyAgrees'
    BY <1>0, <2>1 DEF OneInHand, ReplyAgrees
  <2>3. UNCHANGED <<file, ledger, cmd, listed>>
    BY <1>1 DEF NextDirectory, LedgerReady, RequestFails, SkipReconciled, Defer,
                LookupNotFound, Submit, SubmitFails, others
  <2> QED
    BY <2>2, <2>3, RunEvidence
<1>2. CASE Finish \/ CrashWorker \/ \E o \in Op : ReconcileAborts(o)
  <2>1. UNCHANGED <<file, ledger, cmd, listed>>
    BY <1>2 DEF Finish, CrashWorker, ReconcileAborts, others
  <2> QED
    BY <1>2, <2>1, EndRunEvidence, RunEvidence DEF Finish, CrashWorker, ReconcileAborts
<1>3. ASSUME NEW o \in Op, LookupFound(o) \/ SubmitAnswered(o) PROVE EvidenceInv'
  <2>1. /\ w' = [w EXCEPT !.pc = "apply", !.reply = ledger[o]] /\ o \in w.cur /\ ledger[o] # "none"
        /\ UNCHANGED <<file, ledger, cmd, listed>>
    BY <1>3 DEF LookupFound, SubmitAnswered, others
  <2>2. w'.cur = w.cur /\ w'.reply = ledger[o]
    BY <1>0, <2>1 DEF Run
  <2>3. \A p \in w.cur : p = o
    BY <1>0, <2>1 DEF OneInHand
  <2>4. OneInHand' /\ ReplyAgrees'
    BY <1>0, <2>1, <2>2, <2>3 DEF OneInHand, ReplyAgrees
  <2> QED
    BY <2>1, <2>4, RunEvidence
<1>4. ASSUME NEW o \in Op, RecordError(o) PROVE EvidenceInv'
  <2>1. w'.cur = {} /\ UNCHANGED <<file, ledger, cmd, listed>>
    BY <1>0, <1>4 DEF RecordError, Run, others
  <2>2. OneInHand' /\ ReplyAgrees'
    BY <2>1 DEF OneInHand, ReplyAgrees
  <2> QED
    BY <2>1, <2>2, RunEvidence
<1> QED
  BY <1>1, <1>2, <1>3, <1>4

LEMMA OutcomeEvidence ==
  ASSUME TypeOK, EvidenceInv, NEW o \in Op,
         Reconcile(o) \/ MoveToSubmitting(o) \/ ApplyReceipt(o) \/ Settle(o)
  PROVE  EvidenceInv'
<1>0. /\ FileType /\ w \in Run /\ ledger \in [Op -> Receipt]
      /\ w.at \in {"pending", "submitting", "accepted"} /\ w.at \in Dir /\ w.reply \in Receipt
      /\ FilesSupported /\ OneInHand /\ ReplyAgrees /\ CommandKnown
  BY TypeSplit DEF EvidenceInv, RestType, Run, Dir
<1>1. UNCHANGED <<ledger, listed, cmd>>
  BY DEF Reconcile, MoveToSubmitting, ApplyReceipt, Settle, others
<1>2. CommandKnown'
  BY <1>0, <1>1 DEF CommandKnown
<1>3. CASE Reconcile(o)
  <2> DEFINE d == Pass[w.phase]
             r == file[d][o]
             marked == [r EXCEPT !.st = "submitting"]
  <2>1. d \in {"pending", "submitting", "accepted"} /\ d \in Dir /\ r \in Record \cup {Absent}
    BY <1>0, PassFacts DEF Run, FileType, Dir
  <2>2. w'.cur = {o} /\ w'.pc \in {"rename", "lookup"}
    BY <1>0, <1>3 DEF Reconcile, Run
  <2>3. OneInHand' /\ ReplyAgrees'
    BY <2>2 DEF OneInHand, ReplyAgrees
  <2>4. CASE r.st = "pending"
    <3>1. marked \in Record /\ In(d, o)
      BY <2>1, <2>4, AbsentFacts DEF Record, LocalState, In
    <3>2. Write(d, o, marked)
      BY <1>3, <2>4 DEF Reconcile
    <3> HIDE DEF d, r, marked
    <3> QED
      BY <1>0, <1>1, <1>2, <2>1, <2>3, <3>1, <3>2, WriteSupported DEF EvidenceInv
  <2>5. CASE r.st # "pending"
    <3>1. UNCHANGED file
      BY <1>3, <2>5 DEF Reconcile
    <3> QED
      BY <1>1, <2>3, <3>1, RunEvidence
  <2> QED
    BY <2>4, <2>5
<1>4. CASE MoveToSubmitting(o)
  <2>1. w'.cur = w.cur /\ w'.pc = "lookup" /\ Rename(w.at, "submitting", o)
    BY <1>0, <1>4 DEF MoveToSubmitting, Run
  <2>2. OneInHand' /\ ReplyAgrees'
    BY <1>0, <2>1 DEF OneInHand, ReplyAgrees
  <2>3. Supported("submitting", o) /\ "submitting" \in Dir
    BY DEF Supported, Dir
  <2>4. FilesSupported'
    BY <1>0, <1>1, <2>1, <2>3, RenameSupported
  <2> QED
    BY <1>2, <2>2, <2>4 DEF EvidenceInv
<1>5. CASE ApplyReceipt(o)
  <2>1. /\ w.pc = "apply" /\ o \in w.cur /\ Write(w.at, o, Observed(w.rec, w.reply))
        /\ w'.cur = w.cur /\ w'.reply = w.reply
    BY <1>0, <1>5 DEF ApplyReceipt, Run
  <2>2. OneInHand' /\ ReplyAgrees'
    BY <1>0, <1>1, <2>1 DEF OneInHand, ReplyAgrees
  <2>3. Supported(w.at, o)
    BY <1>0, <2>1 DEF ReplyAgrees, Supported
  <2>4. FilesSupported'
    BY <1>0, <1>1, <2>1, <2>3, ObservedFacts, WriteSupported
  <2> QED
    BY <1>2, <2>2, <2>4 DEF EvidenceInv
<1>6. CASE Settle(o)
  <2> DEFINE target == Destination(w.reply)
  <2>1. w.pc = "settle" /\ o \in w.cur /\ SettleFile(o) /\ w'.cur = {}
    BY <1>0, <1>6 DEF Settle, Run
  <2>2. OneInHand' /\ ReplyAgrees'
    BY <2>1 DEF OneInHand, ReplyAgrees
  <2>3. target \in Dir /\ Supported(target, o)
    <3>1. /\ w.reply # "none" /\ ledger[o] # "none"
          /\ w.reply \in Terminal => ledger[o] = w.reply
      BY <1>0, <2>1 DEF ReplyAgrees
    <3> QED
      BY <1>0, <3>1, DestinationFacts DEF Supported, Dir, Terminal
  <2>4. UNCHANGED file \/ SetAside(w.at, o) \/ Rename(w.at, target, o)
    BY <2>1 DEF SettleFile
  <2> HIDE DEF target
  <2>5. CASE UNCHANGED file
    BY <1>0, <1>1, <1>2, <2>2, <2>5, RunEvidence
  <2>6. CASE SetAside(w.at, o)
    BY <1>0, <1>1, <1>2, <2>2, <2>6, SetAsideSupported DEF EvidenceInv
  <2>7. CASE Rename(w.at, target, o)
    BY <1>0, <1>1, <1>2, <2>2, <2>3, <2>7, RenameSupported DEF EvidenceInv
  <2> QED
    BY <2>4, <2>5, <2>6, <2>7
<1> QED
  BY <1>3, <1>4, <1>5, <1>6
\* Steps of the commands, the acceptors, the server and the clock leave the
\* worker's memory alone.
LEMMA OtherEvidence ==
  ASSUME EvidenceInv, UNCHANGED <<w, ledger>>, FilesSupported', CommandKnown'
  PROVE  EvidenceInv'
BY DEF EvidenceInv, OneInHand, ReplyAgrees

LEMMA CommandEvidence ==
  ASSUME TypeOK, EvidenceInv,
         \/ CommandStep \/ CrashCommand
         \/ \E S \in SUBSET Op : Quarantine(S) \/ Release(S)
  PROVE  EvidenceInv'
<1>0. /\ FileType /\ FilesSupported /\ CommandKnown
      /\ cmd \in [kind : {"none", "quarantine", "release"}, todo : SUBSET Op, half : SUBSET Op]
  BY TypeSplit DEF EvidenceInv, RestType
<1>1. CASE CommandDone \/ CrashCommand
  <2>1. UNCHANGED <<w, ledger, file, listed>> /\ cmd' = NoCommand
    BY <1>1 DEF CommandDone, CrashCommand
  <2>2. CommandKnown' /\ FilesSupported'
    BY <1>0, <2>1 DEF NoCommand, CommandKnown, FilesSupported, Supported, In
  <2> QED
    BY <2>1, <2>2, OtherEvidence
<1>2. ASSUME NEW S \in SUBSET Op, Quarantine(S) PROVE EvidenceInv'
  <2>1. \A o \in S : In("accepted", o)
    BY <1>2 DEF Quarantine, Names
  <2>2. \A o \in S : ledger[o] # "none"
    BY <1>0, <2>1 DEF FilesSupported, Supported, Dir
  <2>3. UNCHANGED <<w, ledger, file>> /\ listed' = listed \cup S
    BY <1>2 DEF Quarantine, RecordIntent
  <2>4. cmd' = [kind |-> "quarantine", todo |-> S, half |-> {}]
    BY <1>2 DEF Quarantine
  <2>5. CommandKnown' /\ FilesSupported'
    BY <1>0, <2>2, <2>3, <2>4 DEF CommandKnown, FilesSupported, Supported, In
  <2> QED
    BY <2>3, <2>5, OtherEvidence
<1>3. ASSUME NEW S \in SUBSET Op, Release(S) PROVE EvidenceInv'
  <2>1. \A o \in S : In("stalled", o)
    BY <1>3 DEF Release, Names
  <2>2. \A o \in S : ledger[o] # "none" /\ o \in listed
    BY <1>0, <2>1 DEF FilesSupported, Supported, Dir
  <2>3. UNCHANGED <<w, ledger, file, listed>>
    BY <1>3 DEF Release
  <2>4. cmd' = [kind |-> "release", todo |-> S, half |-> {}]
    BY <1>3 DEF Release
  <2>5. CommandKnown' /\ FilesSupported'
    BY <1>0, <2>2, <2>3, <2>4 DEF CommandKnown, FilesSupported, Supported, In
  <2> QED
    BY <2>3, <2>5, OtherEvidence
<1>4. ASSUME NEW o \in Op, ParkMove(o) \/ ParkMark(o) \/ ReleaseMark(o) \/ ReleaseMove(o)
      PROVE  EvidenceInv'
  <2>1. UNCHANGED <<w, ledger, listed>>
    BY <1>4 DEF ParkMove, ParkMark, ReleaseMark, ReleaseMove
  <2>2. cmd'.todo \cup cmd'.half \subseteq cmd.todo \cup cmd.half
    BY <1>0, <1>4 DEF ParkMove, ParkMark, ReleaseMark, ReleaseMove
  <2>3. CommandKnown'
    BY <1>0, <2>1, <2>2 DEF CommandKnown
  <2>4. ledger[o] # "none" /\ o \in listed
    BY <1>0, <1>4 DEF ParkMove, ParkMark, ReleaseMark, ReleaseMove, CommandKnown
  <2>5. \A d \in {"accepted", "stalled", "pending"} : d \in Dir /\ Supported(d, o)
    BY <2>4 DEF Supported, Dir
  <2>6. CASE ParkMove(o)
    BY <1>0, <2>1, <2>3, <2>5, <2>6, RenameSupported, OtherEvidence DEF ParkMove
  <2>7. CASE ParkMark(o)
    <3>1. [file["stalled"][o] EXCEPT !.st = "stalled"] \in Record
      BY <1>0, <2>5, MarkFacts
    <3> QED
      BY <1>0, <2>1, <2>3, <2>5, <2>7, <3>1, WriteSupported, OtherEvidence DEF ParkMark
  <2>8. CASE ReleaseMark(o)
    <3> DEFINE r == file["stalled"][o]
    <3>1. [r EXCEPT !.st = ReleaseTarget(r), !.hold = FALSE] \in Record
      BY <1>0, <2>5, MarkFacts
    <3> QED
      BY <1>0, <2>1, <2>3, <2>5, <2>8, <3>1, WriteSupported, OtherEvidence DEF ReleaseMark
  <2>9. CASE ReleaseMove(o)
    <3>1. ReleaseTarget(file["stalled"][o]) \in {"accepted", "pending"}
      BY DEF ReleaseTarget
    <3> QED
      BY <1>0, <2>1, <2>3, <2>5, <2>9, <3>1, RenameSupported, OtherEvidence DEF ReleaseMove
  <2> QED
    BY <1>4, <2>6, <2>7, <2>8, <2>9
<1> QED
  BY <1>1, <1>2, <1>3, <1>4 DEF CommandStep

LEMMA EnvironmentEvidence ==
  ASSUME TypeOK, EvidenceInv, AcceptStep \/ ServerStep \/ \E o \in Op : BackoffElapses(o)
  PROVE  EvidenceInv'
<1>0. /\ FileType /\ FilesSupported /\ CommandKnown /\ OneInHand /\ ReplyAgrees
      /\ ledger \in [Op -> Receipt]
      /\ w.cur \in SUBSET Op /\ cmd.todo \in SUBSET Op /\ cmd.half \in SUBSET Op
  BY TypeSplit DEF EvidenceInv, RestType, Run
<1>1. ASSUME NEW a \in Acceptor, NEW o \in Op,
             StartAccept(a, o) \/ ProbeState(a, o) \/ WriteAccepted(a, o)
      PROVE  EvidenceInv'
  <2>1. UNCHANGED <<w, ledger, listed, cmd>>
    BY <1>1 DEF StartAccept, ProbeState, WriteAccepted
  <2>2. CommandKnown'
    BY <1>0, <2>1 DEF CommandKnown
  <2>3. UNCHANGED file \/ Write("pending", o, Fresh)
    BY <1>1 DEF StartAccept, ProbeState, WriteAccepted
  <2>4. Supported("pending", o) /\ "pending" \in Dir
    BY DEF Supported, Dir
  <2>5. CASE UNCHANGED file
    BY <1>0, <2>1, <2>2, <2>5, OtherEvidence DEF FilesSupported, Supported, In
  <2>6. CASE Write("pending", o, Fresh)
    BY <1>0, <2>1, <2>2, <2>4, <2>6, FreshFacts, WriteSupported, OtherEvidence
  <2> QED
    BY <2>3, <2>5, <2>6
<1>2. ASSUME NEW o \in Op,
             ServerRecords(o) \/ ServerAdvances(o) \/ \E r \in Terminal : ServerDecides(o, r)
      PROVE  EvidenceInv'
  <2>1. UNCHANGED <<w, file, listed, cmd>>
    BY <1>2 DEF ServerRecords, ServerAdvances, ServerDecides
  <2>2. /\ \A p \in Op : ledger[p] # "none" => ledger'[p] # "none"
        /\ \A p \in Op : ledger[p] \in Terminal => ledger'[p] = ledger[p]
    BY <1>0, <1>2 DEF ServerRecords, ServerAdvances, ServerDecides, Open, Terminal
  <2>3. FilesSupported'
    BY <1>0, <2>1, <2>2 DEF FilesSupported, Supported, In, Terminal
  <2>4. CommandKnown'
    BY <1>0, <2>1, <2>2 DEF CommandKnown
  <2>5. OneInHand' /\ ReplyAgrees'
    BY <1>0, <2>1, <2>2 DEF OneInHand, ReplyAgrees
  <2> QED
    BY <2>3, <2>4, <2>5 DEF EvidenceInv
<1>3. ASSUME NEW o \in Op, BackoffElapses(o) PROVE EvidenceInv'
  <2>1. file["accepted"][o] \in Record /\ In("accepted", o) /\ "accepted" \in Dir
    BY <1>0, <1>3, AbsentFacts DEF BackoffElapses, FileType, In, Dir
  <2>2. [file["accepted"][o] EXCEPT !.hold = FALSE] \in Record
    BY <2>1 DEF Record
  <2>3. UNCHANGED <<w, ledger, listed, cmd>>
    BY <1>3 DEF BackoffElapses, others
  <2>4. CommandKnown'
    BY <1>0, <2>3 DEF CommandKnown
  <2> QED
    BY <1>0, <1>3, <2>1, <2>2, <2>3, <2>4, WriteSupported, OtherEvidence DEF BackoffElapses
<1> QED
  BY <1>1, <1>2, <1>3 DEF AcceptStep, ServerStep

LEMMA NextEvidence == TypeOK /\ EvidenceInv /\ [Next]_vars => EvidenceInv'
<1> SUFFICES ASSUME TypeOK, EvidenceInv, [Next]_vars PROVE EvidenceInv'
  OBVIOUS
<1>1. CASE UNCHANGED vars
  BY <1>1 DEF vars, others, EvidenceInv, FilesSupported, Supported, In, OneInHand, ReplyAgrees,
              CommandKnown
<1>2. CASE Begin \/ WorkerStep \/ CrashWorker
  BY <1>2, PreludeEvidence, PassEvidence, OutcomeEvidence DEF WorkerStep
<1>3. CASE CommandStep \/ CrashCommand \/ \E S \in SUBSET Op : Quarantine(S) \/ Release(S)
  BY <1>3, CommandEvidence
<1>4. CASE AcceptStep \/ ServerStep \/ \E o \in Op : BackoffElapses(o)
  BY <1>4, EnvironmentEvidence
<1> QED
  BY <1>1, <1>2, <1>3, <1>4 DEF Next

\* The directory of a record never says more than the ledger has recorded: what
\* run_once files as completed is committed, as rejected is rejected, and what
\* is held or parked has reached the server.
THEOREM LedgerAgrees == Spec => []LedgerAgreement
<1>1. TypeOK /\ EvidenceInv => LedgerAgreement
  BY SupportedFacts DEF EvidenceInv
<1> QED
  BY <1>1, InitType, NextType, InitEvidence, NextEvidence, PTL DEF Spec

\* A manifest lists every parked operation, whatever step of a quarantine or of
\* a release a crash cut short.
THEOREM ParkedListed == Spec => []ParkedIsListed
<1>1. TypeOK /\ EvidenceInv => ParkedIsListed
  BY SupportedFacts DEF EvidenceInv
<1> QED
  BY <1>1, InitType, NextType, InitEvidence, NextEvidence, PTL DEF Spec
-----------------------------------------------------------------------------
(* The presence invariant: what is taken in hand is still there when its file *)
(* moves.  It rests on worker.lock alone: accepts only ever add records.      *)

\* No record of p leaves directory d.
Stays(d, p) == In(d, p) => In(d, p)'

LEMMA WriteStays ==
  ASSUME FileType, NEW d \in Dir, NEW o \in Op, NEW r \in Record, Write(d, o, r)
  PROVE  In(d, o)' /\ \A x \in Dir, p \in Op : Stays(x, p)
<1>1. r # Absent
  BY AbsentFacts
<1> QED
  BY <1>1, WriteFacts DEF In, Stays

LEMMA InitPresence == Init => PresenceInv
BY NoRunFacts DEF Init, PresenceInv, Exclusive, InHandPresent, CommandPresent, NoCommand

\* The worker holds the lock: no command runs.
LEMMA WorkerPresence ==
  ASSUME TypeOK, PresenceInv, Begin \/ WorkerStep \/ CrashWorker
  PROVE  PresenceInv'
<1>0. FileType /\ w \in Run /\ Exclusive /\ InHandPresent
  BY TypeSplit DEF PresenceInv, RestType
<1>1. UNCHANGED cmd /\ (w.pc # "off" \/ lock = "free")
  BY DEF Begin, WorkerStep, CrashWorker, RecoverAborts, RecoverDone, MigrateDone, JobsDone,
     NextDirectory, LedgerReady, Finish, RequestFails, RecoverSubmitting, MigrateRetry,
     EnqueueFromJob, SkipReconciled, Defer, ReconcileAborts, Reconcile, MoveToSubmitting,
     LookupFound, LookupNotFound, Submit, SubmitAnswered, SubmitFails, ApplyReceipt, Settle,
     RecordError, others
<1>2. cmd.kind = "none"
  BY <1>0, <1>1 DEF Exclusive
<1>3. CommandPresent'
  BY <1>1, <1>2 DEF CommandPresent
<1>4. Exclusive'
  BY <1>0, <1>1, <1>2, NoRunFacts
  DEF Exclusive, Begin, WorkerStep, CrashWorker, RecoverAborts, RecoverDone, MigrateDone, JobsDone,
      NextDirectory, LedgerReady, Finish, RequestFails, Fail, RecoverSubmitting, MigrateRetry,
      EnqueueFromJob, SkipReconciled, Defer, ReconcileAborts, Reconcile, MoveToSubmitting,
      LookupFound, LookupNotFound, Submit, SubmitAnswered, SubmitFails, ApplyReceipt, Settle,
      RecordError, EndRun, Run
<1>5. ASSUME NEW o \in Op, Reconcile(o) PROVE InHandPresent'
  <2> DEFINE d == Pass[w.phase]
             r == file[d][o]
             marked == [r EXCEPT !.st = "submitting"]
  <2>1. d \in {"pending", "submitting", "accepted"} /\ d \in Dir /\ r \in Record \cup {Absent}
    BY <1>0, PassFacts DEF Run, FileType, Dir
  <2>2. CASE r.st = "pending"
    <3>1. marked \in Record
      BY <2>1, <2>2, AbsentFacts DEF Record, LocalState
    <3>2. Write(d, o, marked) /\ w'.cur = {o} /\ w'.at = d
      BY <1>0, <1>5, <2>2 DEF Reconcile, Run
    <3> HIDE DEF d, r, marked
    <3> QED
      BY <1>0, <2>1, <3>1, <3>2, WriteStays DEF InHandPresent, In
  <2>3. CASE r.st # "pending"
    BY <1>0, <1>5, <2>3 DEF Reconcile, InHandPresent, Run
  <2> QED
    BY <2>2, <2>3
<1>6. ASSUME ~\E o \in Op : Reconcile(o) PROVE InHandPresent'
  <2>1. w'.pc # "rename"
    BY <1>0, <1>6, NoRunFacts
    DEF Begin, WorkerStep, CrashWorker, RecoverAborts, RecoverDone, MigrateDone, JobsDone,
        NextDirectory, LedgerReady, Finish, RequestFails, Fail, RecoverSubmitting, MigrateRetry,
        EnqueueFromJob, SkipReconciled, Defer, ReconcileAborts, MoveToSubmitting,
        LookupFound, LookupNotFound, Submit, SubmitAnswered, SubmitFails, ApplyReceipt, Settle,
        RecordError, EndRun, Run
  <2> QED
    BY <2>1 DEF InHandPresent
<1> QED
  BY <1>3, <1>4, <1>5, <1>6 DEF PresenceInv

LEMMA CommandPresence ==
  ASSUME TypeOK, PresenceInv,
         \/ CommandStep \/ CrashCommand
         \/ \E S \in SUBSET Op : Quarantine(S) \/ Release(S)
  PROVE  PresenceInv'
<1>0. /\ FileType /\ Exclusive /\ CommandPresent
      /\ cmd \in [kind : {"none", "quarantine", "release"}, todo : SUBSET Op, half : SUBSET Op]
  BY TypeSplit DEF PresenceInv, RestType
<1>1. UNCHANGED w /\ (cmd.kind # "none" \/ lock = "free")
  BY DEF CommandStep, CommandDone, CrashCommand, Quarantine, Release, ParkMove, ParkMark,
         ReleaseMark, ReleaseMove
<1>2. w.pc = "off"
  BY <1>0, <1>1 DEF Exclusive
<1>3. InHandPresent'
  BY <1>1, <1>2 DEF InHandPresent
<1>4. CASE CommandDone \/ CrashCommand
  BY <1>1, <1>2, <1>3, <1>4 DEF CommandDone, CrashCommand, NoCommand, PresenceInv, Exclusive,
                                CommandPresent
<1>5. ASSUME NEW S \in SUBSET Op, Quarantine(S) \/ Release(S) PROVE PresenceInv'
  BY <1>1, <1>2, <1>3, <1>5 DEF Quarantine, Release, PresenceInv, Exclusive, CommandPresent,
                                Names, In
<1>6. ASSUME NEW o \in Op, ParkMove(o) PROVE PresenceInv'
  <2>1. /\ cmd'.kind = "quarantine" /\ cmd'.todo = cmd.todo \ {o} /\ cmd'.half = {o}
        /\ lock' = lock /\ lock = "operator"
    BY <1>0, <1>6 DEF ParkMove, Exclusive
  <2>2. \A p \in cmd.todo \ {o} : In("accepted", p)'
    BY <1>0, <1>6, RenameFacts DEF ParkMove, CommandPresent, In, Dir
  <2> QED
    BY <1>1, <1>2, <1>3, <2>1, <2>2 DEF PresenceInv, Exclusive, CommandPresent
<1>7. ASSUME NEW o \in Op, ParkMark(o) PROVE PresenceInv'
  <2>1. /\ cmd'.kind = "quarantine" /\ cmd'.todo = cmd.todo
        /\ lock' = lock /\ lock = "operator"
    BY <1>0, <1>7 DEF ParkMark, Exclusive
  <2>2. PICK r \in Record : Write("stalled", o, r)
    BY <1>0, <1>7, MarkFacts DEF ParkMark, Dir
  <2>3. \A p \in Op : Stays("accepted", p)
    BY <1>0, <2>2, WriteStays DEF Dir
  <2>4. \A p \in cmd.todo : In("accepted", p)'
    BY <1>0, <1>7, <2>3 DEF ParkMark, CommandPresent, Stays
  <2> QED
    BY <1>1, <1>2, <1>3, <2>1, <2>4 DEF PresenceInv, Exclusive, CommandPresent
<1>8. ASSUME NEW o \in Op, ReleaseMark(o) PROVE PresenceInv'
  <2>1. /\ cmd'.kind = "release" /\ cmd'.half = {o}
        /\ lock' = lock /\ lock = "operator"
    BY <1>0, <1>8 DEF ReleaseMark, Exclusive
  <2>2. PICK r \in Record : Write("stalled", o, r)
    BY <1>0, <1>8, MarkFacts DEF ReleaseMark, Dir
  <2>3. In("stalled", o)'
    BY <1>0, <2>2, WriteStays DEF Dir
  <2> QED
    BY <1>1, <1>2, <1>3, <2>1, <2>3 DEF PresenceInv, Exclusive, CommandPresent
<1>9. ASSUME NEW o \in Op, ReleaseMove(o) PROVE PresenceInv'
  <2>1. /\ cmd'.kind = "release" /\ cmd'.half = {}
        /\ lock' = lock /\ lock = "operator"
    BY <1>0, <1>9 DEF ReleaseMove, Exclusive
  <2> QED
    BY <1>1, <1>2, <1>3, <2>1 DEF PresenceInv, Exclusive, CommandPresent
<1> QED
  BY <1>4, <1>5, <1>6, <1>7, <1>8, <1>9 DEF CommandStep

\* Accepts, the server and the clock remove no record.
LEMMA EnvironmentPresence ==
  ASSUME TypeOK, PresenceInv, AcceptStep \/ ServerStep \/ \E o \in Op : BackoffElapses(o)
  PROVE  PresenceInv' /\ \A d \in Dir, o \in Op : Stays(d, o)
<1>0. /\ FileType /\ Exclusive /\ InHandPresent /\ CommandPresent
      /\ w.cur \in SUBSET Op /\ w.at \in Dir /\ cmd.todo \in SUBSET Op /\ cmd.half \in SUBSET Op
  BY TypeSplit DEF PresenceInv, RestType, Run, Dir
<1>1. UNCHANGED <<w, lock, cmd>>
  BY DEF AcceptStep, ServerStep, StartAccept, ProbeState, WriteAccepted, ServerRecords,
         ServerAdvances, ServerDecides, BackoffElapses, others
<1>2. \A d \in Dir, o \in Op : Stays(d, o)
  <2>1. ASSUME UNCHANGED file PROVE \A d \in Dir, o \in Op : Stays(d, o)
    BY <2>1 DEF Stays, In
  <2>2. ASSUME NEW o \in Op, Write("pending", o, Fresh) PROVE \A d \in Dir, p \in Op : Stays(d, p)
    BY <1>0, <2>2, FreshFacts, WriteStays DEF Dir
  <2>3. ASSUME NEW o \in Op, BackoffElapses(o) PROVE \A d \in Dir, p \in Op : Stays(d, p)
    <3>1. file["accepted"][o] \in Record
      BY <1>0, <2>3, AbsentFacts DEF BackoffElapses, FileType, Dir
    <3>2. [file["accepted"][o] EXCEPT !.hold = FALSE] \in Record
      BY <3>1 DEF Record
    <3> QED
      BY <1>0, <2>3, <3>2, WriteStays DEF BackoffElapses, Dir
  <2> QED
    BY <2>1, <2>2, <2>3 DEF AcceptStep, ServerStep, StartAccept, ProbeState, WriteAccepted,
                            ServerRecords, ServerAdvances, ServerDecides
<1>3. Exclusive' /\ InHandPresent' /\ CommandPresent'
  BY <1>0, <1>1, <1>2 DEF Exclusive, InHandPresent, CommandPresent, Stays, In, Dir
<1> QED
  BY <1>2, <1>3 DEF PresenceInv

LEMMA NextPresence == TypeOK /\ PresenceInv /\ [Next]_vars => PresenceInv'
<1> SUFFICES ASSUME TypeOK, PresenceInv, [Next]_vars PROVE PresenceInv'
  OBVIOUS
<1>1. CASE UNCHANGED vars
  BY <1>1 DEF vars, others, PresenceInv, Exclusive, InHandPresent, CommandPresent, In
<1> QED
  BY <1>1, WorkerPresence, CommandPresence, EnvironmentPresence DEF Next
-----------------------------------------------------------------------------
(* No operation is lost *)

Keeps == \A o \in Op : Known(o) => Known(o)'

LEMMA SameFileKeeps == ASSUME UNCHANGED file PROVE Keeps
BY DEF Keeps, Known, In

LEMMA StaysKeeps == ASSUME \A d \in Dir, o \in Op : Stays(d, o) PROVE Keeps
BY DEF Keeps, Known, Stays

LEMMA WriteKeeps ==
  ASSUME FileType, NEW d \in Dir, NEW o \in Op, NEW r \in Record, Write(d, o, r)
  PROVE  Keeps
BY WriteStays, StaysKeeps

LEMMA MoveKeeps ==
  ASSUME FileType, NEW d \in Dir, NEW e \in Dir, NEW o \in Op, NEW r \in Record, Move(d, e, o, r)
  PROVE  Keeps
BY MoveFacts, AbsentFacts DEF Keeps, Known, In

\* A rename loses nothing if there is a file to rename or nothing to replace.
LEMMA RenameKeeps ==
  ASSUME FileType, NEW d \in Dir, NEW e \in Dir, NEW o \in Op, Rename(d, e, o),
         In(d, o) \/ ~In(e, o)
  PROVE  Keeps
BY RenameFacts DEF Keeps, Known, In

\* A record is set aside only when another stays.
LEMMA SetAsideKeeps ==
  ASSUME FileType, NEW d \in Dir, NEW e \in Dir, NEW o \in Op, SetAside(d, o), e # d, In(e, o)
  PROVE  Keeps
BY SetAsideFacts DEF Keeps, Known, In

LEMMA WorkerKeeps ==
  ASSUME TypeOK, PresenceInv, Begin \/ WorkerStep \/ CrashWorker
  PROVE  Keeps
<1>0. /\ FileType /\ w \in Run /\ InHandPresent
      /\ w.at \in {"pending", "submitting", "accepted"} /\ w.at \in Dir /\ w.reply \in Receipt
  BY TypeSplit DEF PresenceInv, RestType, Run, Dir
<1>1. ASSUME NEW o \in Op, RecoverSubmitting(o) PROVE Keeps
  <2>1. file["submitting"][o] \in Record
    BY <1>0, <1>1 DEF RecoverSubmitting, In, FileType, Dir
  <2>2. [file["submitting"][o] EXCEPT !.st = "submitting"] \in Record
    BY <2>1 DEF Record, LocalState
  <2> QED
    BY <1>0, <1>1, <2>2, WriteKeeps DEF RecoverSubmitting, Dir
<1>2. ASSUME NEW o \in Op, MigrateRetry(o) PROVE Keeps
  <2>1. file["retry"][o] \in Record
    BY <1>0, <1>2 DEF MigrateRetry, In, FileType, Dir
  <2>2. [file["retry"][o] EXCEPT !.st = "pending"] \in Record
    BY <2>1 DEF Record, LocalState
  <2> QED
    BY <1>0, <1>2, <2>2, MoveKeeps, SetAsideKeeps DEF MigrateRetry, Dir
<1>3. ASSUME NEW o \in Op, EnqueueFromJob(o) PROVE Keeps
  BY <1>0, <1>3, FreshFacts, WriteKeeps, SameFileKeeps DEF EnqueueFromJob, Dir
<1>4. ASSUME NEW o \in Op, Reconcile(o) PROVE Keeps
  <2> DEFINE d == Pass[w.phase]
             r == file[d][o]
             marked == [r EXCEPT !.st = "submitting"]
  <2>1. d \in {"pending", "submitting", "accepted"} /\ d \in Dir /\ r \in Record \cup {Absent}
    BY <1>0, PassFacts DEF Run, FileType, Dir
  <2>2. CASE r.st = "pending"
    <3>1. marked \in Record
      BY <2>1, <2>2, AbsentFacts DEF Record, LocalState
    <3>2. Write(d, o, marked)
      BY <1>4, <2>2 DEF Reconcile
    <3> HIDE DEF d, r, marked
    <3> QED
      BY <1>0, <2>1, <3>1, <3>2, WriteKeeps
  <2>3. CASE r.st # "pending"
    BY <1>4, <2>3, SameFileKeeps DEF Reconcile
  <2> QED
    BY <2>2, <2>3
<1>5. ASSUME NEW o \in Op, MoveToSubmitting(o) PROVE Keeps
  BY <1>0, <1>5, RenameKeeps DEF MoveToSubmitting, InHandPresent, Dir
<1>6. ASSUME NEW o \in Op, ApplyReceipt(o) PROVE Keeps
  BY <1>0, <1>6, ObservedFacts, WriteKeeps DEF ApplyReceipt
<1>7. ASSUME NEW o \in Op, Settle(o) PROVE Keeps
  <2> DEFINE target == Destination(w.reply)
  <2>1. target \in Dir
    BY <1>0, DestinationFacts DEF Dir
  <2>2. SettleFile(o)
    BY <1>7 DEF Settle
  <2> QED
    BY <1>0, <2>1, <2>2, RenameKeeps, SetAsideKeeps, SameFileKeeps DEF SettleFile
<1>8. CASE UNCHANGED file
  BY <1>8, SameFileKeeps
<1> QED
  BY <1>1, <1>2, <1>3, <1>4, <1>5, <1>6, <1>7, <1>8
  DEF Begin, WorkerStep, CrashWorker, RecoverAborts, RecoverDone, MigrateDone, JobsDone,
      NextDirectory, LedgerReady, Finish, RequestFails, SkipReconciled, Defer, ReconcileAborts,
      LookupFound, LookupNotFound, Submit, SubmitAnswered, SubmitFails, RecordError

LEMMA CommandKeeps ==
  ASSUME TypeOK, PresenceInv,
         \/ CommandStep \/ CrashCommand
         \/ \E S \in SUBSET Op : Quarantine(S) \/ Release(S)
  PROVE  Keeps
<1>0. FileType /\ CommandPresent /\ "stalled" \in Dir /\ "accepted" \in Dir
  BY TypeSplit DEF PresenceInv, Dir
<1>1. ASSUME NEW o \in Op, ParkMove(o) PROVE Keeps
  BY <1>0, <1>1, RenameKeeps DEF ParkMove, CommandPresent
<1>2. ASSUME NEW o \in Op, ParkMark(o) \/ ReleaseMark(o) PROVE Keeps
  <2>1. PICK r \in Record : Write("stalled", o, r)
    BY <1>0, <1>2, MarkFacts DEF ParkMark, ReleaseMark
  <2> QED
    BY <1>0, <2>1, WriteKeeps
<1>3. ASSUME NEW o \in Op, ReleaseMove(o) PROVE Keeps
  <2>1. ReleaseTarget(file["stalled"][o]) \in Dir
    BY DEF ReleaseTarget, Dir
  <2> QED
    BY <1>0, <1>3, <2>1, RenameKeeps DEF ReleaseMove, CommandPresent
<1>4. CASE UNCHANGED file
  BY <1>4, SameFileKeeps
<1> QED
  BY <1>1, <1>2, <1>3, <1>4 DEF CommandStep, CommandDone, CrashCommand, Quarantine, Release

\* README: every queue record is preserved.  No step of the worker, of a command,
\* of an accept or of a crash between two file operations leaves an operation
\* that has a record without one.
THEOREM NothingLost == Spec => KeepsEveryOperation
<1>1. TypeOK /\ PresenceInv /\ [Next]_vars => [Keeps]_vars
  BY WorkerKeeps, CommandKeeps, EnvironmentPresence, StaysKeeps DEF Next
<1>2. [][Keeps]_vars => KeepsEveryOperation
  BY PTL DEF KeepsEveryOperation, Keeps
<1> QED
  BY <1>1, <1>2, InitType, NextType, InitPresence, NextPresence, PTL DEF Spec

-----------------------------------------------------------------------------
(* Terminal evidence is final *)

Final == \A o \in Op : \A d \in {"completed", "rejected"} : In(d, o) => file'[d][o] = file[d][o]

LEMMA NextFinal ==
  ASSUME TypeOK, Next
  PROVE  Final
<1>0. /\ FileType /\ w \in Run
      /\ w.at \in {"pending", "submitting", "accepted"} /\ w.at \in Dir /\ w.reply \in Receipt
  BY TypeSplit DEF RestType, Run, Dir
<1>1. ASSUME NEW d \in Dir, d \notin {"completed", "rejected"}, NEW o \in Op,
             NEW r \in Record \cup {Absent}, Write(d, o, r)
      PROVE  Final
  BY <1>0, <1>1, WriteFacts DEF Final, Dir
<1>2. ASSUME NEW d \in Dir, d \notin {"completed", "rejected"}, NEW o \in Op,
             NEW e \in Dir, e \notin {"completed", "rejected"} \/ ~In(e, o),
             NEW r \in Record \cup {Absent}, Move(d, e, o, r)
      PROVE  Final
  BY <1>0, <1>2, MoveFacts DEF Final, In, Dir
<1>3. ASSUME NEW d \in Dir, d \notin {"completed", "rejected"}, NEW o \in Op,
             NEW e \in Dir, e \notin {"completed", "rejected"} \/ ~In(e, o), Rename(d, e, o)
      PROVE  Final
  BY <1>0, <1>3, RenameFacts DEF Final, In, Dir
<1>4. CASE UNCHANGED file
  BY <1>4 DEF Final
<1>5. ASSUME NEW o \in Op, RecoverSubmitting(o) \/ MigrateRetry(o) \/ EnqueueFromJob(o) PROVE Final
  <2>1. ASSUME NEW d \in Dir, In(d, o)
        PROVE  [file[d][o] EXCEPT !.st = "submitting"] \in Record
               /\ [file[d][o] EXCEPT !.st = "pending"] \in Record
    <3>1. file[d][o] \in Record
      BY <1>0, <2>1 DEF In, FileType
    <3> QED
      BY <3>1 DEF Record, LocalState
  <2> QED
    BY <1>1, <1>2, <1>4, <1>5, <2>1, FreshFacts
    DEF RecoverSubmitting, MigrateRetry, EnqueueFromJob, SetAside, Dir
<1>6. ASSUME NEW o \in Op, Reconcile(o) PROVE Final
  <2> DEFINE d == Pass[w.phase]
             r == file[d][o]
             marked == [r EXCEPT !.st = "submitting"]
  <2>1. d \in {"pending", "submitting", "accepted"} /\ d \in Dir /\ r \in Record \cup {Absent}
    BY <1>0, PassFacts DEF Run, FileType, Dir
  <2>2. CASE r.st = "pending"
    <3>1. marked \in Record
      BY <2>1, <2>2, AbsentFacts DEF Record, LocalState
    <3>2. Write(d, o, marked)
      BY <1>6, <2>2 DEF Reconcile
    <3> HIDE DEF d, r, marked
    <3> QED
      BY <1>1, <2>1, <3>1, <3>2
  <2>3. CASE r.st # "pending"
    BY <1>4, <1>6, <2>3 DEF Reconcile
  <2> QED
    BY <2>2, <2>3
<1>7. ASSUME NEW o \in Op, MoveToSubmitting(o) PROVE Final
  BY <1>0, <1>3, <1>7 DEF MoveToSubmitting, Dir
<1>8. ASSUME NEW o \in Op, ApplyReceipt(o) PROVE Final
  BY <1>0, <1>1, <1>8, ObservedFacts DEF ApplyReceipt
<1>9. ASSUME NEW o \in Op, Settle(o) PROVE Final
  <2> DEFINE target == Destination(w.reply)
  <2>1. target \in Dir
    BY <1>0, DestinationFacts DEF Dir
  <2>2. SettleFile(o)
    BY <1>9 DEF Settle
  <2> QED
    BY <1>0, <1>1, <1>3, <1>4, <2>1, <2>2 DEF SettleFile, SetAside
<1>10. ASSUME NEW o \in Op, ParkMove(o) \/ ReleaseMove(o) PROVE Final
  <2>1. ReleaseTarget(file["stalled"][o]) \in {"accepted", "pending"}
    BY DEF ReleaseTarget
  <2> QED
    BY <1>3, <1>10, <2>1 DEF ParkMove, ReleaseMove, Dir
<1>11. ASSUME NEW o \in Op, ParkMark(o) \/ ReleaseMark(o) PROVE Final
  <2>1. PICK r \in Record : Write("stalled", o, r)
    BY <1>0, <1>11, MarkFacts DEF ParkMark, ReleaseMark, Dir
  <2> QED
    BY <1>1, <2>1 DEF Dir
<1>12. ASSUME NEW a \in Acceptor, NEW o \in Op, WriteAccepted(a, o) PROVE Final
  BY <1>1, <1>12, FreshFacts DEF WriteAccepted, Dir
<1>13. ASSUME NEW o \in Op, BackoffElapses(o) PROVE Final
  <2>1. file["accepted"][o] \in Record
    BY <1>0, <1>13, AbsentFacts DEF BackoffElapses, FileType, Dir
  <2>2. [file["accepted"][o] EXCEPT !.hold = FALSE] \in Record
    BY <2>1 DEF Record
  <2> QED
    BY <1>1, <1>13, <2>2 DEF BackoffElapses, Dir
<1>14. CASE Begin \/ WorkerStep \/ CrashWorker
  BY <1>4, <1>5, <1>6, <1>7, <1>8, <1>9, <1>14
  DEF Begin, WorkerStep, CrashWorker, RecoverAborts, RecoverDone, MigrateDone, JobsDone,
      NextDirectory, LedgerReady, Finish, RequestFails, SkipReconciled, Defer, ReconcileAborts,
      LookupFound, LookupNotFound, Submit, SubmitAnswered, SubmitFails, RecordError
<1>15. CASE \/ CommandStep \/ CrashCommand
            \/ \E S \in SUBSET Op : Quarantine(S) \/ Release(S)
  BY <1>4, <1>10, <1>11, <1>15 DEF CommandStep, CommandDone, CrashCommand, Quarantine, Release
<1>16. CASE AcceptStep \/ ServerStep \/ \E o \in Op : BackoffElapses(o)
  BY <1>4, <1>12, <1>13, <1>16
  DEF AcceptStep, ServerStep, StartAccept, ProbeState, ServerRecords, ServerAdvances, ServerDecides
<1> QED
  BY <1>14, <1>15, <1>16 DEF Next

\* A completed or rejected record is never moved, rewritten or replaced, not even
\* by a duplicate that reaches the same receipt (apply_receipt, preserve_duplicate).
THEOREM TerminalFinal == Spec => TerminalIsFinal
<1>1. TypeOK /\ [Next]_vars => [Final]_vars
  BY NextFinal
<1>2. [][Final]_vars => TerminalIsFinal
  BY PTL DEF TerminalIsFinal, Final
<1> QED
  BY <1>1, <1>2, InitType, NextType, PTL DEF Spec

-----------------------------------------------------------------------------
(* The steps that change files, and how *)

LEMMA FileSteps ==
  ASSUME Next
  PROVE  \/ UNCHANGED file
         \/ \E o \in Op : \/ RecoverSubmitting(o) \/ MigrateRetry(o) \/ EnqueueFromJob(o) \/ Reconcile(o)
                          \/ MoveToSubmitting(o) \/ ApplyReceipt(o) \/ Settle(o)
                          \/ ParkMove(o) \/ ParkMark(o) \/ ReleaseMark(o) \/ ReleaseMove(o)
                          \/ BackoffElapses(o) \/ \E a \in Acceptor : WriteAccepted(a, o)
BY DEF Next, Begin, WorkerStep, CrashWorker, RecoverAborts, RecoverDone, MigrateDone, JobsDone, NextDirectory,
   LedgerReady, Finish, RequestFails, SkipReconciled, Defer, ReconcileAborts, LookupFound, LookupNotFound,
   Submit, SubmitAnswered, SubmitFails, RecordError, Quarantine, Release, CommandStep, CommandDone,
   CrashCommand, AcceptStep, StartAccept, ProbeState, ServerStep, ServerRecords, ServerAdvances, ServerDecides

LEMMA WorkerEffects ==
  ASSUME TypeOK, NEW o \in Op
  PROVE  /\ RecoverSubmitting(o) =>
              /\ In("submitting", o)
              /\ \E r \in Record : /\ Write("submitting", o, r) /\ r.rc = file["submitting"][o].rc
                                   /\ r.st = "submitting"
         /\ MigrateRetry(o) =>
              /\ In("retry", o)
              /\ \/ SetAside("retry", o) /\ In("pending", o)
                 \/ \E r \in Record : Move("retry", "pending", o, r) /\ r.rc = file["retry"][o].rc
         /\ EnqueueFromJob(o) => UNCHANGED file \/ Write("pending", o, Fresh)
         /\ Reconcile(o) =>
              LET d == Pass[w.phase]
              IN  \/ UNCHANGED file /\ file[d][o].st # "pending" /\ w' = [w EXCEPT !.pc = "lookup", !.cur = {o},
                       !.at = d, !.rec = file[d][o], !.todo = @ \ {o}, !.seen = @ \cup {o}]
                  \/ /\ In(d, o) /\ file[d][o].st = "pending"
                     /\ \E r \in Record : /\ Write(d, o, r) /\ r.rc = file[d][o].rc /\ r.st = "submitting"
                                          /\ w' = [w EXCEPT !.pc = "rename", !.cur = {o}, !.at = d,
                                                   !.rec = r, !.todo = @ \ {o}, !.seen = @ \cup {o}]
         /\ Settle(o) =>
              UNCHANGED file \/ SetAside(w.at, o) \/ Rename(w.at, Destination(w.reply), o)
<1>0. FileType /\ w \in Run
  BY TypeSplit DEF RestType
<1>1. RecoverSubmitting(o) =>
        /\ In("submitting", o)
        /\ \E r \in Record : /\ Write("submitting", o, r) /\ r.rc = file["submitting"][o].rc
                             /\ r.st = "submitting"
  <2> SUFFICES ASSUME RecoverSubmitting(o)
               PROVE  /\ In("submitting", o)
                      /\ \E r \in Record : /\ Write("submitting", o, r) /\ r.rc = file["submitting"][o].rc
                                           /\ r.st = "submitting"
    OBVIOUS
  <2>1. file["submitting"][o] \in Record /\ In("submitting", o)
    BY <1>0 DEF RecoverSubmitting, In, FileType, Dir
  <2> DEFINE r == [file["submitting"][o] EXCEPT !.st = "submitting"]
  <2>2. r \in Record /\ r.rc = file["submitting"][o].rc /\ r.st = "submitting"
    BY <2>1 DEF Record, LocalState
  <2> QED
    BY <2>1, <2>2 DEF RecoverSubmitting
<1>2. MigrateRetry(o) =>
        /\ In("retry", o)
        /\ \/ SetAside("retry", o) /\ In("pending", o)
           \/ \E r \in Record : Move("retry", "pending", o, r) /\ r.rc = file["retry"][o].rc
  <2> SUFFICES ASSUME MigrateRetry(o)
               PROVE  /\ In("retry", o)
                      /\ \/ SetAside("retry", o) /\ In("pending", o)
                         \/ \E r \in Record : Move("retry", "pending", o, r) /\ r.rc = file["retry"][o].rc
    OBVIOUS
  <2>1. file["retry"][o] \in Record /\ In("retry", o)
    BY <1>0 DEF MigrateRetry, In, FileType, Dir
  <2> DEFINE r == [file["retry"][o] EXCEPT !.st = "pending"]
  <2>2. r \in Record /\ r.rc = file["retry"][o].rc
    BY <2>1 DEF Record, LocalState
  <2> QED
    BY <2>1, <2>2 DEF MigrateRetry
<1>3. EnqueueFromJob(o) => UNCHANGED file \/ Write("pending", o, Fresh)
  BY DEF EnqueueFromJob
<1>4. Reconcile(o) =>
        LET d == Pass[w.phase]
        IN  \/ UNCHANGED file /\ file[d][o].st # "pending" /\ w' = [w EXCEPT !.pc = "lookup", !.cur = {o},
                 !.at = d, !.rec = file[d][o], !.todo = @ \ {o}, !.seen = @ \cup {o}]
            \/ /\ In(d, o) /\ file[d][o].st = "pending"
               /\ \E r \in Record : /\ Write(d, o, r) /\ r.rc = file[d][o].rc /\ r.st = "submitting"
                                    /\ w' = [w EXCEPT !.pc = "rename", !.cur = {o}, !.at = d,
                                             !.rec = r, !.todo = @ \ {o}, !.seen = @ \cup {o}]
  <2> SUFFICES ASSUME Reconcile(o), file[Pass[w.phase]][o].st = "pending"
               PROVE  LET d == Pass[w.phase]
                      IN  /\ In(d, o)
                          /\ \E r \in Record : /\ Write(d, o, r) /\ r.rc = file[d][o].rc /\ r.st = "submitting"
                                               /\ w' = [w EXCEPT !.pc = "rename", !.cur = {o}, !.at = d,
                                                        !.rec = r, !.todo = @ \ {o}, !.seen = @ \cup {o}]
    BY DEF Reconcile
  <2> DEFINE d == Pass[w.phase]
             r == [file[d][o] EXCEPT !.st = "submitting"]
  <2>1. d \in Dir
    BY <1>0, PassFacts DEF Run, Dir
  <2>2. file[d][o] \in Record /\ In(d, o)
    BY <1>0, <2>1, AbsentFacts DEF FileType, In
  <2>3. r \in Record /\ r.rc = file[d][o].rc /\ r.st = "submitting"
    BY <2>2 DEF Record, LocalState
  <2>4. Write(d, o, r) /\ w' = [w EXCEPT !.pc = "rename", !.cur = {o}, !.at = d,
                                !.rec = r, !.todo = @ \ {o}, !.seen = @ \cup {o}]
    BY DEF Reconcile
  <2> QED
    BY <2>2, <2>3, <2>4
<1>5. Settle(o) => UNCHANGED file \/ SetAside(w.at, o) \/ Rename(w.at, Destination(w.reply), o)
  BY DEF Settle, SettleFile
<1> QED
  BY <1>1, <1>2, <1>3, <1>4, <1>5

LEMMA CommandEffects ==
  ASSUME TypeOK, NEW o \in Op
  PROVE  /\ ParkMark(o) =>
              \E r \in Record : /\ Write("stalled", o, r) /\ r.rc = file["stalled"][o].rc /\ r.st = "stalled"
         /\ ReleaseMark(o) =>
              \E r \in Record : /\ Write("stalled", o, r) /\ r.rc = file["stalled"][o].rc
                                /\ r.st = ReleaseTarget(file["stalled"][o])
         /\ BackoffElapses(o) =>
              /\ file["accepted"][o] \in Record /\ file["accepted"][o].hold
              /\ \E r \in Record : /\ Write("accepted", o, r) /\ r.rc = file["accepted"][o].rc
                                   /\ r.st = file["accepted"][o].st
<1>0. FileType
  BY TypeSplit
<1> DEFINE s == file["stalled"][o]
           a == file["accepted"][o]
<1>1. s \in [st : LocalState \cup {"absent"}, rc : Receipt, hold : BOOLEAN]
  BY <1>0, FiledFacts DEF Dir
<1>2. /\ [s EXCEPT !.st = "stalled"] \in Record
      /\ [s EXCEPT !.st = ReleaseTarget(s), !.hold = FALSE] \in Record
  BY <1>0, MarkFacts DEF Dir
<1>3. ASSUME BackoffElapses(o)
      PROVE  /\ a \in Record /\ a.hold
             /\ \E r \in Record : Write("accepted", o, r) /\ r.rc = a.rc /\ r.st = a.st
  <2>1. a \in Record /\ a.hold
    BY <1>0, <1>3, AbsentFacts DEF BackoffElapses, FileType, Dir
  <2>2. [a EXCEPT !.hold = FALSE] \in Record /\ [a EXCEPT !.hold = FALSE].rc = a.rc /\ [a EXCEPT !.hold = FALSE].st = a.st
    BY <2>1 DEF Record
  <2> QED
    BY <1>3, <2>1, <2>2 DEF BackoffElapses
<1>4. /\ [s EXCEPT !.st = "stalled"].rc = s.rc /\ [s EXCEPT !.st = "stalled"].st = "stalled"
      /\ [s EXCEPT !.st = ReleaseTarget(s), !.hold = FALSE].rc = s.rc
      /\ [s EXCEPT !.st = ReleaseTarget(s), !.hold = FALSE].st = ReleaseTarget(s)
  <2> HIDE DEF s
  <2> QED
    BY <1>1
<1>5. ParkMark(o) => Write("stalled", o, [s EXCEPT !.st = "stalled"])
  BY DEF ParkMark
<1>6. ReleaseMark(o) => Write("stalled", o, [s EXCEPT !.st = ReleaseTarget(s), !.hold = FALSE])
  BY DEF ReleaseMark
<1> HIDE DEF s, a
<1>7. ParkMark(o) => \E r \in Record : Write("stalled", o, r) /\ r.rc = s.rc /\ r.st = "stalled"
  BY <1>2, <1>4, <1>5
<1>8. ReleaseMark(o) => \E r \in Record : Write("stalled", o, r) /\ r.rc = s.rc /\ r.st = ReleaseTarget(s)
  BY <1>2, <1>4, <1>6
<1> QED
  BY <1>3, <1>7, <1>8 DEF s, a
-----------------------------------------------------------------------------
(* An operation with a receipt is not submitted again *)

\* No record of p has a receipt.
NoReceipt(p) == \A d \in Dir : file[d][p].rc = "none"

\* A receipt came from the ledger, which keeps the operation; and what is being
\* submitted had none when it was looked up, nor has it got one since.
ReceiptsKnown == \A p \in Op : ~NoReceipt(p) => ledger[p] # "none"
Unreceipted   == w.pc \in {"ready", "post", "await"} => \A p \in w.cur : NoReceipt(p)

SubmissionInv == ReceiptsKnown /\ Unreceipted

LEMMA WriteReceipt ==
  ASSUME FileType, NEW d \in Dir, NEW o \in Op, NEW r \in Record \cup {Absent}, Write(d, o, r),
         r.rc \in {"none", file[d][o].rc}
  PROVE  \A p \in Op : NoReceipt(p) => NoReceipt(p)'
BY WriteFacts DEF NoReceipt

LEMMA MoveReceipt ==
  ASSUME FileType, NEW d \in Dir, NEW e \in Dir, NEW o \in Op, NEW r \in Record \cup {Absent},
         Move(d, e, o, r), r.rc = file[d][o].rc
  PROVE  \A p \in Op : NoReceipt(p) => NoReceipt(p)'
BY MoveFacts, AbsentFacts DEF NoReceipt

LEMMA RenameReceipt ==
  ASSUME FileType, NEW d \in Dir, NEW e \in Dir, NEW o \in Op, Rename(d, e, o)
  PROVE  \A p \in Op : NoReceipt(p) => NoReceipt(p)'
BY RenameFacts, AbsentFacts DEF NoReceipt

LEMMA SetAsideReceipt ==
  ASSUME FileType, NEW d \in Dir, NEW o \in Op, SetAside(d, o)
  PROVE  \A p \in Op : NoReceipt(p) => NoReceipt(p)'
BY SetAsideFacts, AbsentFacts DEF NoReceipt

\* Only apply_receipt gives an operation its first receipt.
LEMMA FirstReceipt ==
  ASSUME TypeOK, Next
  PROVE  \A p \in Op : NoReceipt(p) => (NoReceipt(p)' \/ ApplyReceipt(p))
<1>0. /\ FileType /\ w.at \in Dir /\ w.reply \in Receipt /\ Pass[w.phase] \in Dir
      /\ \A d \in {"pending", "submitting", "accepted", "retry", "stalled"} : d \in Dir
  BY TypeSplit, PassFacts DEF RestType, Run, Dir
<1>1. ASSUME UNCHANGED file PROVE \A p \in Op : NoReceipt(p) => NoReceipt(p)'
  BY <1>1 DEF NoReceipt
<1>2. ASSUME NEW o \in Op, Write("pending", o, Fresh) PROVE \A p \in Op : NoReceipt(p) => NoReceipt(p)'
  BY <1>0, <1>2, FreshFacts, WriteReceipt DEF Fresh
<1>3. ASSUME NEW o \in Op, RecoverSubmitting(o) \/ Reconcile(o) \/ ParkMark(o) \/ ReleaseMark(o) \/ BackoffElapses(o)
      PROVE  \A p \in Op : NoReceipt(p) => NoReceipt(p)'
  <2>1. UNCHANGED file \/ \E d \in Dir, r \in Record : Write(d, o, r) /\ r.rc = file[d][o].rc
    <3>1. CASE RecoverSubmitting(o)
      <4>1. \E r \in Record : Write("submitting", o, r) /\ r.rc = file["submitting"][o].rc
        BY <3>1, WorkerEffects
      <4> QED
        BY <1>0, <4>1
    <3>2. CASE Reconcile(o)
      <4>1. \/ UNCHANGED file
            \/ \E r \in Record : Write(Pass[w.phase], o, r) /\ r.rc = file[Pass[w.phase]][o].rc
        BY <3>2, WorkerEffects
      <4> QED
        BY <1>0, <4>1
    <3>3. CASE ParkMark(o) \/ ReleaseMark(o)
      BY <1>0, <3>3, CommandEffects
    <3>4. CASE BackoffElapses(o)
      BY <1>0, <3>4, CommandEffects
    <3> QED
      BY <1>3, <3>1, <3>2, <3>3, <3>4
  <2>2. ASSUME NEW d \in Dir, NEW r \in Record, Write(d, o, r), r.rc = file[d][o].rc
        PROVE  \A p \in Op : NoReceipt(p) => NoReceipt(p)'
    BY <1>0, <2>2, WriteReceipt
  <2> QED
    BY <1>1, <2>1, <2>2
<1>4. ASSUME NEW o \in Op, MigrateRetry(o) PROVE \A p \in Op : NoReceipt(p) => NoReceipt(p)'
  BY <1>0, <1>4, WorkerEffects, SetAsideReceipt, MoveReceipt
<1>5. ASSUME NEW o \in Op, Settle(o) PROVE \A p \in Op : NoReceipt(p) => NoReceipt(p)'
  <2>1. Destination(w.reply) \in Dir
    BY <1>0, DestinationFacts DEF Dir
  <2>2. UNCHANGED file \/ SetAside(w.at, o) \/ Rename(w.at, Destination(w.reply), o)
    BY <1>5, WorkerEffects
  <2> QED
    <3>1. ASSUME SetAside(w.at, o) PROVE \A p \in Op : NoReceipt(p) => NoReceipt(p)'
      BY <1>0, <3>1, SetAsideReceipt
    <3>2. ASSUME Rename(w.at, Destination(w.reply), o) PROVE \A p \in Op : NoReceipt(p) => NoReceipt(p)'
      BY <1>0, <2>1, <3>2, RenameReceipt
    <3> QED
      BY <1>1, <2>2, <3>1, <3>2
<1>6. ASSUME NEW o \in Op, MoveToSubmitting(o) \/ ParkMove(o) PROVE \A p \in Op : NoReceipt(p) => NoReceipt(p)'
  BY <1>0, <1>6, RenameReceipt DEF MoveToSubmitting, ParkMove
<1>7. ASSUME NEW o \in Op, ReleaseMove(o) PROVE \A p \in Op : NoReceipt(p) => NoReceipt(p)'
  BY <1>0, <1>7, RenameReceipt DEF ReleaseMove, ReleaseTarget
<1>8. ASSUME NEW o \in Op, ApplyReceipt(o), NEW p \in Op, p # o, NoReceipt(p) PROVE NoReceipt(p)'
  BY <1>0, <1>8, ObservedFacts, WriteFacts DEF ApplyReceipt, NoReceipt
<1>9. ASSUME NEW o \in Op, EnqueueFromJob(o) \/ \E a \in Acceptor : WriteAccepted(a, o)
      PROVE  UNCHANGED file \/ Write("pending", o, Fresh)
  BY <1>9 DEF EnqueueFromJob, WriteAccepted
<1> QED
  BY <1>1, <1>2, <1>3, <1>4, <1>5, <1>6, <1>7, <1>8, <1>9, FileSteps

\* The ledger forgets no operation.
LEMMA LedgerStays ==
  ASSUME TypeOK, Next
  PROVE  \A p \in Op : ledger[p] # "none" => ledger'[p] # "none"
<1>0. ledger \in [Op -> Receipt]
  BY DEF TypeOK
<1>1. CASE UNCHANGED ledger
  BY <1>1
<1>2. ASSUME NEW o \in Op, NEW r \in Receipt, r # "none", ledger' = [ledger EXCEPT ![o] = r]
      PROVE  \A p \in Op : ledger[p] # "none" => ledger'[p] # "none"
  BY <1>0, <1>2
<1>3. ASSUME ServerStep
      PROVE \E o \in Op, r \in Receipt \ {"none"} : ledger' = [ledger EXCEPT ![o] = r]
  <2>1. ASSUME NEW o \in Op, ServerRecords(o)
        PROVE  \E r \in Receipt \ {"none"} : ledger' = [ledger EXCEPT ![o] = r]
    <3>1. ledger' = [ledger EXCEPT ![o] = IF ledger[o] = "none" THEN "accepted" ELSE ledger[o]]
      BY <2>1 DEF ServerRecords
    <3>2. "accepted" \in Receipt \ {"none"} /\ ledger[o] \in Receipt
      BY <1>0 DEF Receipt, Open
    <3> QED
      BY <3>1, <3>2
  <2>2. ASSUME NEW o \in Op, ServerAdvances(o)
        PROVE  \E r \in Receipt \ {"none"} : ledger' = [ledger EXCEPT ![o] = r]
    BY <2>2 DEF ServerAdvances, Receipt, Open
  <2>3. ASSUME NEW o \in Op, NEW r \in Terminal, ServerDecides(o, r)
        PROVE  \E q \in Receipt \ {"none"} : ledger' = [ledger EXCEPT ![o] = q]
    BY <2>3 DEF ServerDecides, Receipt, Terminal
  <2> QED
    BY <1>3, <2>1, <2>2, <2>3 DEF ServerStep
<1>4. ServerStep \/ UNCHANGED ledger
  BY DEF Next, Begin, WorkerStep, CrashWorker, RecoverAborts, RecoverDone, MigrateDone, JobsDone, NextDirectory,
     LedgerReady, Finish, RequestFails, RecoverSubmitting, MigrateRetry, EnqueueFromJob, SkipReconciled, Defer,
     ReconcileAborts, Reconcile, MoveToSubmitting, LookupFound, LookupNotFound, Submit, SubmitAnswered,
     SubmitFails, ApplyReceipt, Settle, RecordError, Quarantine, Release, CommandStep, CommandDone, ParkMove,
     ParkMark, ReleaseMark, ReleaseMove, CrashCommand, AcceptStep, StartAccept, ProbeState, WriteAccepted,
     BackoffElapses, others
<1> QED
  BY <1>1, <1>2, <1>3, <1>4

LEMMA InitSubmission == Init => SubmissionInv
<1> SUFFICES ASSUME Init PROVE SubmissionInv
  OBVIOUS
<1>1. \A p \in Op : NoReceipt(p)
  BY DEF Init, NoReceipt, Fresh, Absent
<1> QED
  BY <1>1, NoRunFacts DEF Init, SubmissionInv, ReceiptsKnown, Unreceipted

LEMMA NextSubmission == TypeOK /\ EvidenceInv /\ SubmissionInv /\ [Next]_vars => SubmissionInv'
<1> SUFFICES ASSUME TypeOK, EvidenceInv, SubmissionInv, Next PROVE SubmissionInv'
  BY DEF vars, others, SubmissionInv, ReceiptsKnown, Unreceipted, NoReceipt
<1>0. w \in Run
  BY DEF TypeOK
<1>1. ReceiptsKnown'
  <2>1. ASSUME NEW p \in Op, ~NoReceipt(p)' PROVE ledger'[p] # "none"
    <3>1. CASE ~NoReceipt(p)
      BY <3>1, LedgerStays DEF SubmissionInv, ReceiptsKnown
    <3>2. CASE ApplyReceipt(p)
      BY <3>2, LedgerStays DEF ApplyReceipt, EvidenceInv, ReplyAgrees
    <3> QED
      BY <2>1, <3>1, <3>2, FirstReceipt
  <2> QED
    BY <2>1 DEF ReceiptsKnown
<1>2. Unreceipted'
  <2>1. ASSUME NEW o \in Op, LookupNotFound(o) PROVE Unreceipted'
    <3>1. NoReceipt(o) /\ \A p \in w.cur : p = o
      BY <2>1 DEF LookupNotFound, SubmissionInv, ReceiptsKnown, EvidenceInv, OneInHand
    <3>2. UNCHANGED file /\ w'.cur = w.cur
      BY <1>0, <2>1 DEF LookupNotFound, Run
    <3> QED
      BY <3>1, <3>2 DEF Unreceipted, NoReceipt
  <2>2. ASSUME LedgerReady \/ \E o \in Op : Submit(o) PROVE Unreceipted'
    <3>1. w.pc \in {"ready", "post"} /\ w'.cur = w.cur /\ UNCHANGED file
      BY <1>0, <2>2 DEF LedgerReady, Submit, Run
    <3> QED
      BY <3>1 DEF SubmissionInv, Unreceipted, NoReceipt
  <2>3. CASE UNCHANGED w
    <3>1. ASSUME NEW p \in w.cur, w.pc \in {"ready", "post", "await"} PROVE NoReceipt(p)'
      <4>1. p \in Op /\ NoReceipt(p) /\ ~ApplyReceipt(p)
        BY <1>0, <3>1 DEF Run, SubmissionInv, Unreceipted, ApplyReceipt
      <4> QED
        BY <4>1, FirstReceipt
    <3> QED
      BY <2>3, <3>1 DEF Unreceipted
  <2>4. \/ w'.pc \notin {"ready", "post", "await"} \/ UNCHANGED w
        \/ LedgerReady \/ \E o \in Op : LookupNotFound(o) \/ Submit(o)
    <3>1. ASSUME NEW o \in Op, Reconcile(o) PROVE w'.pc \notin {"ready", "post", "await"}
      <4>1. w'.pc \in {"lookup", "rename"}
        BY <1>0, <3>1 DEF Reconcile, Run
      <4> QED
        BY <4>1
    <3>2. ASSUME NEW o \in Op, RecordError(o) PROVE w'.pc \notin {"ready", "post", "await"}
      <4>1. w'.pc \in {"finish", "scan"}
        BY <1>0, <3>2 DEF RecordError, Run
      <4> QED
        BY <4>1
    <3>3. ASSUME RecoverAborts \/ Finish \/ CrashWorker \/ \E o \in Op : ReconcileAborts(o)
          PROVE  w'.pc \notin {"ready", "post", "await"}
      BY <3>3, NoRunFacts DEF RecoverAborts, Finish, CrashWorker, ReconcileAborts, EndRun
    <3>4. ASSUME Begin \/ RecoverDone \/ MigrateDone \/ JobsDone
          PROVE  w'.pc \notin {"ready", "post", "await"}
      BY <1>0, <3>4 DEF Begin, RecoverDone, MigrateDone, JobsDone, Run
    <3>5. ASSUME NEW o \in Op, MoveToSubmitting(o) \/ LookupFound(o) \/ SubmitAnswered(o) \/ ApplyReceipt(o)
                 \/ Settle(o)
          PROVE  w'.pc \notin {"ready", "post", "await"}
      BY <1>0, <3>5 DEF MoveToSubmitting, LookupFound, SubmitAnswered, ApplyReceipt, Settle, Run
    <3>6. ASSUME NextDirectory \/ \E o \in Op : SkipReconciled(o) \/ Defer(o)
          PROVE  w'.pc \notin {"ready", "post", "await"}
      BY <1>0, <3>6 DEF NextDirectory, SkipReconciled, Defer, Run
    <3>7. ASSUME NEW isDown \in BOOLEAN, RequestFails(isDown) \/ \E o \in Op : SubmitFails(o, isDown)
          PROVE  w'.pc \notin {"ready", "post", "await"}
      BY <1>0, <3>7 DEF RequestFails, SubmitFails, Fail, Run
    <3>8. WorkerStep \/ Begin \/ CrashWorker \/ UNCHANGED w
      BY DEF Next, Quarantine, Release, CommandStep, CommandDone, ParkMove, ParkMark, ReleaseMark, ReleaseMove,
         CrashCommand, AcceptStep, StartAccept, ProbeState, WriteAccepted, ServerStep, ServerRecords,
         ServerAdvances, ServerDecides, BackoffElapses, others
    <3>9. ASSUME NEW o \in Op, RecoverSubmitting(o) \/ MigrateRetry(o) \/ EnqueueFromJob(o) PROVE UNCHANGED w
      BY <3>9 DEF RecoverSubmitting, MigrateRetry, EnqueueFromJob
    <3> QED
      BY <3>1, <3>2, <3>3, <3>4, <3>5, <3>6, <3>7, <3>8, <3>9 DEF WorkerStep
  <2> QED
    BY <2>1, <2>2, <2>3, <2>4 DEF Unreceipted
<1> QED
  BY <1>1, <1>2 DEF SubmissionInv

\* An operation with a receipt, in any of its records, is not submitted again, even if
\* the server learns of it from an earlier submission while this one is prepared.
THEOREM NotSubmittedTwice == Spec => []ReceiptStopsSubmission
<1>1. SubmissionInv => ReceiptStopsSubmission
  BY DEF SubmissionInv, Unreceipted, NoReceipt, ReceiptStopsSubmission
<1> QED
  BY <1>1, InitType, NextType, InitEvidence, NextEvidence, InitSubmission, NextSubmission, PTL DEF Spec
-----------------------------------------------------------------------------
(* A run counts an operation once *)

Headings == {"delivered", "inFlight", "deferred", "awaiting"}
Counted(p) == \E k \in Headings : p \in status[k]

\* Nothing is under two headings; what the present run has counted it has seen and
\* let go, so that a record seen again, or in hand, cannot be counted again.
OneHeading  == \A p \in Op : \A k, l \in Headings : (p \in status[k] /\ p \in status[l]) => k = l
CountedSeen == w.pc # "off" => \A p \in Op : Counted(p) => (p \in w.seen /\ p \notin w.cur)
HandSeen    == w.cur \subseteq w.seen

CountInv == OneHeading /\ CountedSeen /\ HandSeen

LEMMA InitCount == Init => CountInv
BY DEF Init, CountInv, OneHeading, CountedSeen, HandSeen, Counted, Headings, NoCounts, NoRun

\* A step of the run that counts nothing and only adds to what it has seen.
LEMMA CountKept ==
  ASSUME TypeOK, CountInv, UNCHANGED status, w'.seen = w.seen, w'.cur = w.cur, w'.pc # "off" => w.pc # "off"
  PROVE  CountInv'
BY DEF CountInv, OneHeading, CountedSeen, HandSeen, Counted

LEMMA CountEnds ==
  ASSUME TypeOK, CountInv, UNCHANGED status, EndRun
  PROVE  CountInv'
BY DEF CountInv, OneHeading, CountedSeen, HandSeen, EndRun, NoRun

\* One more operation under one heading: it was under none.
LEMMA CountOne ==
  ASSUME TypeOK, CountInv, NEW o \in Op, ~Counted(o), NEW h \in Headings,
         status' = [status EXCEPT ![h] = @ \cup {o}],
         w'.seen = w.seen \cup {o}, w'.cur \subseteq w.cur \ {o}, w.pc # "off"
  PROVE  CountInv'
<1>1. status \in Counts
  BY DEF TypeOK
<1>2. \A k \in Headings, p \in Op : p \in status'[k] <=> (p \in status[k] \/ (k = h /\ p = o))
  BY <1>1 DEF Counts, Headings
<1>3. OneHeading'
  BY <1>2 DEF CountInv, OneHeading, Counted
<1>4. \A p \in Op : Counted(p)' => (Counted(p) \/ p = o)
  BY <1>2 DEF Counted
<1>5. CountedSeen' /\ HandSeen'
  BY <1>4 DEF CountInv, CountedSeen, HandSeen
<1> QED
  BY <1>3, <1>5 DEF CountInv

LEMMA NextCount == TypeOK /\ CountInv /\ [Next]_vars => CountInv'
<1> SUFFICES ASSUME TypeOK, CountInv, [Next]_vars PROVE CountInv'
  OBVIOUS
<1>0. w \in Run /\ status \in Counts
  BY DEF TypeOK
<1>1. CASE UNCHANGED <<w, status>>
  BY <1>1, CountKept
<1>2. CASE Begin
  <2>1. \A p \in Op, k \in Headings : p \notin status'[k]
    BY <1>2 DEF Begin, NoCounts, Headings
  <2>2. w'.cur = w.cur /\ w'.seen = w.seen
    BY <1>0, <1>2 DEF Begin, Run
  <2> QED
    BY <2>1, <2>2 DEF CountInv, OneHeading, CountedSeen, HandSeen, Counted
<1>3. CASE RecoverAborts \/ Finish \/ CrashWorker \/ \E o \in Op : ReconcileAborts(o)
  BY <1>3, CountEnds DEF RecoverAborts, Finish, CrashWorker, ReconcileAborts
<1>4. ASSUME \/ RecoverDone \/ MigrateDone \/ JobsDone \/ NextDirectory \/ LedgerReady
             \/ \E isDown \in BOOLEAN : RequestFails(isDown) \/ \E o \in Op : SubmitFails(o, isDown)
             \/ \E o \in Op : \/ SkipReconciled(o) \/ MoveToSubmitting(o) \/ LookupFound(o) \/ LookupNotFound(o)
                              \/ Submit(o) \/ SubmitAnswered(o) \/ ApplyReceipt(o)
      PROVE  CountInv'
  <2>1. w'.seen = w.seen /\ w'.cur = w.cur /\ w.pc # "off"
    BY <1>0, <1>4
    DEF RecoverDone, MigrateDone, JobsDone, NextDirectory, LedgerReady, RequestFails, Fail, SubmitFails,
        SkipReconciled, MoveToSubmitting, LookupFound, LookupNotFound, Submit, SubmitAnswered, ApplyReceipt, Run
  <2>2. UNCHANGED status
    BY <1>4
    DEF RecoverDone, MigrateDone, JobsDone, NextDirectory, LedgerReady, RequestFails, Fail, SubmitFails,
        SkipReconciled, MoveToSubmitting, LookupFound, LookupNotFound, Submit, SubmitAnswered, ApplyReceipt
  <2> QED
    BY <2>1, <2>2, CountKept
<1>5. ASSUME NEW o \in Op, Defer(o) PROVE CountInv'
  <2>1. o \notin w.seen /\ w.pc # "off"
    BY <1>5 DEF Defer, AlreadyReconciled
  <2>2. ~Counted(o) /\ o \notin w.cur
    BY <2>1 DEF CountInv, CountedSeen, HandSeen
  <2>3. /\ w'.seen = w.seen \cup {o} /\ w'.cur = w.cur
        /\ status' = [status EXCEPT !["deferred"] = @ \cup {o}]
    BY <1>0, <1>5 DEF Defer, Run
  <2> QED
    BY <2>1, <2>2, <2>3, CountOne DEF Headings
<1>6. ASSUME NEW o \in Op, Reconcile(o) PROVE CountInv'
  <2>1. o \notin w.seen /\ w.pc # "off" /\ UNCHANGED status
    BY <1>6 DEF Reconcile, AlreadyReconciled
  <2>2. w'.seen = w.seen \cup {o} /\ w'.cur = {o}
    BY <1>0, <1>6 DEF Reconcile, Run
  <2> QED
    BY <2>1, <2>2 DEF CountInv, OneHeading, CountedSeen, HandSeen, Counted
<1>7. ASSUME NEW o \in Op, Settle(o) \/ RecordError(o) PROVE CountInv'
  <2>1. o \in w.cur /\ o \in w.seen /\ ~Counted(o) /\ w.pc # "off"
    BY <1>7 DEF Settle, RecordError, CountInv, CountedSeen, HandSeen
  <2>2. w'.seen = w.seen /\ w'.cur = {}
    BY <1>0, <1>7 DEF Settle, RecordError, Run
  <2>3. \E h \in Headings : status' = [status EXCEPT ![h] = @ \cup {o}]
    BY <1>7 DEF Settle, RecordError, Headings
  <2> QED
    BY <2>1, <2>2, <2>3, CountOne
<1>8. ASSUME NEW o \in Op, RecoverSubmitting(o) \/ MigrateRetry(o) \/ EnqueueFromJob(o) PROVE CountInv'
  BY <1>1, <1>8 DEF RecoverSubmitting, MigrateRetry, EnqueueFromJob
<1>9. CASE \/ CommandStep \/ CrashCommand \/ AcceptStep \/ ServerStep \/ \E o \in Op : BackoffElapses(o)
           \/ (\E S \in SUBSET Op : Quarantine(S) \/ Release(S)) \/ UNCHANGED vars
  BY <1>1, <1>9 DEF CommandStep, CommandDone, ParkMove, ParkMark, ReleaseMark, ReleaseMove, CrashCommand,
     AcceptStep, StartAccept, ProbeState, WriteAccepted, ServerStep, ServerRecords, ServerAdvances,
     ServerDecides, BackoffElapses, Quarantine, Release, others, vars
<1> QED
  BY <1>2, <1>3, <1>4, <1>5, <1>6, <1>7, <1>8, <1>9 DEF Next, WorkerStep

\* One run counts an operation under one heading, although it lists three directories and
\* moves records from one to the next (the set `reconciled` of run_once).
THEOREM RunsCountOnce == Spec => []CountedOnce
<1>1. TypeOK /\ CountInv => CountedOnce
  <2> SUFFICES ASSUME TypeOK, CountInv, NEW o \in Op
               PROVE  Cardinality({k \in DOMAIN status : o \in status[k]}) <= 1
    BY DEF CountedOnce
  <2> DEFINE K == {k \in DOMAIN status : o \in status[k]}
  <2>1. DOMAIN status = Headings
    BY DEF TypeOK, Counts, Headings
  <2>2. \A k, l \in K : k = l
    BY <2>1 DEF CountInv, OneHeading
  <2> HIDE DEF K
  <2>3. K = {} => Cardinality(K) <= 1
    BY FS_EmptySet
  <2>4. ASSUME NEW k, K = {k} PROVE Cardinality(K) <= 1
    <3>1. Cardinality({k}) = 1
      BY FS_Singleton, Zenon
    <3> QED
      BY <2>4, <3>1
  <2>5. Cardinality(K) <= 1
    <3>1. ASSUME NEW k \in K PROVE K = {k}
      BY <2>2
    <3> QED
      BY <2>3, <2>4, <3>1, Zenon
  <2> QED
    BY <2>5 DEF K
<1> QED
  BY <1>1, InitType, NextType, InitCount, NextCount, PTL DEF Spec
-----------------------------------------------------------------------------
(* A rename replaces nothing *)

Early == {"off", "recover", "migrate", "jobs"}

\* The pass begins with submitting: until then all it holds has the state "submitting",
\* and from then on what it holds is listed or has been seen.
Visited(p) ==
  In("submitting", p) =>
    \/ p \in w.seen
    \/ /\ file["submitting"][p].st = "submitting"
       /\ w.pc \in {"migrate", "jobs"} \/ (w.phase = 1 /\ p \in w.todo)

SubmittingVisited == w.pc \notin {"off", "recover"} => \A p \in Op : Visited(p)
PhaseOne          == w.pc \in Early => w.phase = 1
TargetFree        == w.pc = "rename" => \A p \in w.cur : ~In("submitting", p)

VisitInv == SubmittingVisited /\ PhaseOne /\ TargetFree

\* An operation is between its two steps, or still to move.
OneHalf    == \A p, q \in cmd.half : p = q
HalfOut    == cmd.half \cap cmd.todo = {}
ParkFree   == cmd.kind = "quarantine" => \A p \in cmd.todo : ~In("stalled", p)
\* The place p is released to is free, but for what an accept has just queued.
PlaceFree(p) == file[ReleaseTarget(file["stalled"][p])][p] \in {Absent, Fresh}
ReturnFree == cmd.kind = "release" => \A p \in cmd.todo \cup cmd.half : PlaceFree(p)

CommandInv == OneHalf /\ HalfOut /\ ParkFree /\ ReturnFree

LEMMA InitRename == Init => VisitInv /\ CommandInv
BY NoRunFacts
DEF Init, VisitInv, SubmittingVisited, PhaseOne, TargetFree, CommandInv, OneHalf, HalfOut, ParkFree, ReturnFree,
    NoRun, NoCommand

\* The submitting directory and the run stay as they are.
LEMMA VisitKept ==
  ASSUME VisitInv, UNCHANGED w, \A p \in Op : file'["submitting"][p] = file["submitting"][p], w.cur \subseteq Op
  PROVE  VisitInv'
BY DEF VisitInv, SubmittingVisited, PhaseOne, TargetFree, Visited, In

\* A step of the pass after the records were listed.
LEMMA VisitStep ==
  ASSUME VisitInv, HandSeen, UNCHANGED file, w.cur \subseteq Op, w'.seen = w.seen, w'.phase = w.phase, w'.todo = w.todo,
         w.pc \notin Early, w'.pc \notin Early, w'.pc # "rename"
  PROVE  VisitInv'
BY DEF VisitInv, SubmittingVisited, PhaseOne, TargetFree, Visited, In, Early

LEMMA VisitOff == ASSUME EndRun PROVE VisitInv'
BY DEF EndRun, NoRun, VisitInv, SubmittingVisited, PhaseOne, TargetFree

LEMMA PreludeVisit ==
  ASSUME TypeOK, VisitInv,
         \/ Begin \/ RecoverDone \/ MigrateDone \/ JobsDone
         \/ \E o \in Op : RecoverSubmitting(o) \/ MigrateRetry(o) \/ EnqueueFromJob(o)
  PROVE  VisitInv'
<1>0. FileType /\ w \in Run /\ w.cur \subseteq Op /\ "submitting" \in Dir /\ "pending" \in Dir /\ "retry" \in Dir
  BY TypeSplit DEF RestType, Run, Dir
<1>1. CASE Begin
  <2>1. w'.pc = "recover" /\ w'.phase = w.phase /\ w.pc = "off"
    BY <1>0, <1>1 DEF Begin, Run
  <2> QED
    BY <2>1 DEF VisitInv, SubmittingVisited, PhaseOne, TargetFree, Early
<1>2. CASE RecoverDone
  <2>1. w'.pc = "migrate" /\ w'.phase = w.phase /\ w.pc = "recover" /\ UNCHANGED file
    BY <1>0, <1>2 DEF RecoverDone, Run
  <2>2. \A p \in Op : In("submitting", p) => file["submitting"][p].st = "submitting"
    BY <1>2 DEF RecoverDone, Names
  <2> QED
    BY <2>1, <2>2 DEF VisitInv, SubmittingVisited, PhaseOne, TargetFree, Early, Visited, In
<1>3. CASE MigrateDone
  <2>1. w'.pc = "jobs" /\ w'.phase = w.phase /\ w'.seen = w.seen /\ w'.todo = w.todo /\ w.pc = "migrate" /\ UNCHANGED file
    BY <1>0, <1>3 DEF MigrateDone, Run
  <2> QED
    BY <2>1 DEF VisitInv, SubmittingVisited, PhaseOne, TargetFree, Early, Visited, In
<1>4. CASE JobsDone
  <2>1. /\ w'.pc = "scan" /\ w'.phase = w.phase /\ w'.seen = w.seen /\ w'.todo = Names("submitting")
        /\ w.pc = "jobs" /\ UNCHANGED file
    BY <1>0, <1>4 DEF JobsDone, Run, Pass
  <2>2. w.phase = 1
    BY <2>1 DEF VisitInv, PhaseOne, Early
  <2> QED
    BY <2>1, <2>2 DEF VisitInv, SubmittingVisited, PhaseOne, TargetFree, Early, Visited, In, Names
<1>5. ASSUME NEW o \in Op, RecoverSubmitting(o) PROVE VisitInv'
  BY <1>5 DEF RecoverSubmitting, VisitInv, SubmittingVisited, PhaseOne, TargetFree
<1>6. ASSUME NEW o \in Op, MigrateRetry(o) \/ EnqueueFromJob(o) PROVE VisitInv'
  <2>1. \A p \in Op : file'["submitting"][p] = file["submitting"][p]
    <3>1. CASE MigrateRetry(o)
      <4>1. SetAside("retry", o) \/ \E r \in Record : Move("retry", "pending", o, r)
        BY <3>1, WorkerEffects
      <4>2. ASSUME SetAside("retry", o) PROVE \A p \in Op : file'["submitting"][p] = file["submitting"][p]
        BY <1>0, <4>2, SetAsideFacts
      <4>3. ASSUME NEW r \in Record, Move("retry", "pending", o, r)
            PROVE  \A p \in Op : file'["submitting"][p] = file["submitting"][p]
        BY <1>0, <4>3, MoveFacts
      <4> QED
        BY <4>1, <4>2, <4>3
    <3>2. CASE EnqueueFromJob(o)
      <4>1. UNCHANGED file \/ Write("pending", o, Fresh)
        BY <3>2, WorkerEffects
      <4>2. ASSUME Write("pending", o, Fresh) PROVE \A p \in Op : file'["submitting"][p] = file["submitting"][p]
        BY <1>0, <4>2, FreshFacts, WriteFacts
      <4> QED
        BY <4>1, <4>2
    <3> QED
      BY <1>6, <3>1, <3>2
  <2>2. UNCHANGED w
    BY <1>6 DEF MigrateRetry, EnqueueFromJob
  <2> QED
    BY <1>0, <2>1, <2>2, VisitKept
<1> QED
  BY <1>1, <1>2, <1>3, <1>4, <1>5, <1>6

LEMMA PassVisit ==
  ASSUME TypeOK, VisitInv, HandSeen, OneInHand, WorkerStep \/ CrashWorker
  PROVE  VisitInv'
<1>0. /\ FileType /\ w \in Run /\ w.cur \subseteq Op /\ w.at \in Dir /\ w.reply \in Receipt
      /\ "submitting" \in Dir
  BY TypeSplit DEF RestType, Run, Dir
<1>1. CASE RecoverAborts \/ Finish \/ CrashWorker \/ \E o \in Op : ReconcileAborts(o)
  BY <1>1, VisitOff DEF RecoverAborts, Finish, CrashWorker, ReconcileAborts
<1>2. ASSUME \/ LedgerReady \/ \E isDown \in BOOLEAN : RequestFails(isDown) \/ \E o \in Op : SubmitFails(o, isDown)
             \/ \E o \in Op : \/ LookupFound(o) \/ LookupNotFound(o) \/ Submit(o) \/ SubmitAnswered(o)
                              \/ RecordError(o)
      PROVE  VisitInv'
  <2>1. /\ w'.seen = w.seen /\ w'.phase = w.phase /\ w'.todo = w.todo /\ UNCHANGED file
        /\ w.pc \in {"lookup", "ready", "post", "await", "error"}
        /\ w'.pc \in {"post", "error", "apply", "ready", "await", "finish", "scan"}
    <3>1. ASSUME NEW o \in Op, RecordError(o)
          PROVE  /\ w'.seen = w.seen /\ w'.phase = w.phase /\ w'.todo = w.todo /\ UNCHANGED file
                 /\ w.pc = "error" /\ w'.pc \in {"finish", "scan"}
      BY <1>0, <3>1 DEF RecordError, Run
    <3>2. ASSUME \/ LedgerReady \/ \E isDown \in BOOLEAN : RequestFails(isDown) \/ \E o \in Op : SubmitFails(o, isDown)
          PROVE  /\ w'.seen = w.seen /\ w'.phase = w.phase /\ w'.todo = w.todo /\ UNCHANGED file
                 /\ w.pc \in {"lookup", "ready", "await"} /\ w'.pc \in {"post", "error"}
      BY <1>0, <3>2 DEF LedgerReady, RequestFails, SubmitFails, Fail, Run
    <3>3. ASSUME NEW o \in Op, \/ LookupFound(o) \/ LookupNotFound(o) \/ Submit(o) \/ SubmitAnswered(o)
          PROVE  /\ w'.seen = w.seen /\ w'.phase = w.phase /\ w'.todo = w.todo /\ UNCHANGED file
                 /\ w.pc \in {"lookup", "post", "await"} /\ w'.pc \in {"apply", "ready", "await"}
      BY <1>0, <3>3 DEF LookupFound, LookupNotFound, Submit, SubmitAnswered, Run
    <3> QED
      BY <1>2, <3>1, <3>2, <3>3
  <2> QED
    BY <1>0, <2>1, VisitStep DEF Early
<1>3. CASE NextDirectory
  <2>1. w.pc = "scan" /\ w.todo = {} /\ w'.pc = "scan" /\ w'.seen = w.seen /\ UNCHANGED file
    BY <1>0, <1>3 DEF NextDirectory, Run
  <2>2. \A p \in Op : In("submitting", p) => p \in w.seen
    BY <2>1 DEF VisitInv, SubmittingVisited, Visited
  <2> QED
    BY <2>1, <2>2 DEF VisitInv, SubmittingVisited, PhaseOne, TargetFree, Visited, In, Early
<1>4. ASSUME NEW o \in Op, SkipReconciled(o) \/ Defer(o) PROVE VisitInv'
  <2>1. /\ w.pc = "scan" /\ w'.pc = "scan" /\ w'.phase = w.phase /\ w'.todo = w.todo \ {o}
        /\ w'.seen = w.seen \cup {o} /\ UNCHANGED file
    BY <1>0, <1>4 DEF SkipReconciled, Defer, AlreadyReconciled, Run
  <2> QED
    BY <2>1 DEF VisitInv, SubmittingVisited, PhaseOne, TargetFree, Visited, In, Early
<1>5. ASSUME NEW o \in Op, Reconcile(o) PROVE VisitInv'
  <2> DEFINE d == Pass[w.phase]
  <2>1. w.pc = "scan" /\ o \in w.todo /\ o \notin w.seen
    BY <1>5 DEF Reconcile, NextInOrder, AlreadyReconciled
  <2>2. d \in Dir
    BY <1>0, PassFacts DEF Run, Dir
  <2>3. w'.phase = w.phase /\ w'.todo = w.todo \ {o} /\ w'.seen = w.seen \cup {o} /\ w'.cur = {o}
        /\ w'.pc \in {"rename", "lookup"}
    BY <1>0, <1>5 DEF Reconcile, Run
  <2>4. \A p \in Op : p # o => file'["submitting"][p] = file["submitting"][p]
    <3>1. UNCHANGED file \/ \E r \in Record : Write(d, o, r)
      BY <1>5, WorkerEffects
    <3>2. ASSUME NEW r \in Record, Write(d, o, r)
          PROVE  \A p \in Op : p # o => file'["submitting"][p] = file["submitting"][p]
      <4> HIDE DEF d
      <4> QED
        BY <1>0, <2>2, <3>2, WriteFacts
    <3> QED
      BY <3>1, <3>2
  <2>5. SubmittingVisited' /\ PhaseOne'
    BY <2>1, <2>3, <2>4 DEF VisitInv, SubmittingVisited, PhaseOne, Visited, In, Early
  <2>6. w'.pc = "rename" => ~In("submitting", o)'
    <3> SUFFICES ASSUME w'.pc = "rename" PROVE ~In("submitting", o)'
      OBVIOUS
    <3>1. PICK r \in Record : file[d][o].st = "pending" /\ Write(d, o, r)
      BY <1>0, <1>5, WorkerEffects DEF Run
    <3>2. ~In("submitting", o)
      <4> SUFFICES ASSUME In("submitting", o) PROVE FALSE
        OBVIOUS
      <4>1. Visited(o)
        BY <2>1 DEF VisitInv, SubmittingVisited
      <4>2. file["submitting"][o].st = "submitting" /\ w.phase = 1
        BY <2>1, <4>1 DEF Visited
      <4> QED
        BY <3>1, <4>2 DEF Pass
    <3>3. d # "submitting"
      BY <3>1, <3>2, AbsentFacts DEF In
    <3> QED
      BY <1>0, <2>2, <3>1, <3>2, <3>3, WriteFacts DEF In
  <2> QED
    BY <2>3, <2>5, <2>6 DEF VisitInv, TargetFree
<1>6. ASSUME NEW o \in Op, MoveToSubmitting(o) \/ ApplyReceipt(o) \/ Settle(o) PROVE VisitInv'
  <2>1. /\ o \in w.cur /\ o \in w.seen /\ w.pc \notin Early /\ w'.pc \in {"lookup", "settle", "scan"}
        /\ w'.seen = w.seen /\ w'.phase = w.phase /\ w'.todo = w.todo
    BY <1>0, <1>6 DEF MoveToSubmitting, ApplyReceipt, Settle, Run, Early, HandSeen
  <2>2. \A p \in Op : p # o => file'["submitting"][p] = file["submitting"][p]
    <3>1. CASE MoveToSubmitting(o)
      BY <1>0, <3>1, RenameFacts DEF MoveToSubmitting
    <3>2. CASE ApplyReceipt(o)
      BY <1>0, <3>2, ObservedFacts, WriteFacts DEF ApplyReceipt
    <3>3. CASE Settle(o)
      <4>1. Destination(w.reply) \in Dir
        BY <1>0, DestinationFacts DEF Dir
      <4> QED
        <5>1. UNCHANGED file \/ SetAside(w.at, o) \/ Rename(w.at, Destination(w.reply), o)
          BY <3>3, WorkerEffects
        <5>2. ASSUME SetAside(w.at, o)
              PROVE  \A p \in Op : p # o => file'["submitting"][p] = file["submitting"][p]
          BY <1>0, <5>2, SetAsideFacts
        <5>3. ASSUME Rename(w.at, Destination(w.reply), o)
              PROVE  \A p \in Op : p # o => file'["submitting"][p] = file["submitting"][p]
          BY <1>0, <4>1, <5>3, RenameFacts
        <5> QED
          BY <5>1, <5>2, <5>3
    <3> QED
      BY <1>6, <3>1, <3>2, <3>3
  <2> QED
    BY <2>1, <2>2 DEF VisitInv, SubmittingVisited, PhaseOne, TargetFree, Visited, In, Early
<1> QED
  BY <1>1, <1>2, <1>3, <1>4, <1>5, <1>6, PreludeVisit DEF WorkerStep
\* While a command runs no worker does; accepts write in pending, the clock in accepted.
LEMMA OthersVisit ==
  ASSUME TypeOK, VisitInv, Exclusive,
         \/ CommandStep \/ CrashCommand \/ AcceptStep \/ ServerStep \/ \E o \in Op : BackoffElapses(o)
         \/ \E S \in SUBSET Op : Quarantine(S) \/ Release(S)
  PROVE  VisitInv'
<1>0. FileType /\ w \in Run /\ w.cur \subseteq Op /\ {"submitting", "pending", "accepted"} \subseteq Dir
  BY TypeSplit DEF RestType, Run, Dir
<1>1. CASE \/ CommandStep \/ CrashCommand \/ \E S \in SUBSET Op : Quarantine(S) \/ Release(S)
  <2>1. UNCHANGED w /\ (cmd.kind # "none" \/ lock = "free")
    BY <1>1 DEF CommandStep, CommandDone, CrashCommand, Quarantine, Release, ParkMove, ParkMark, ReleaseMark, ReleaseMove
  <2>2. w.pc = "off"
    BY <2>1 DEF Exclusive
  <2> QED
    BY <2>1, <2>2 DEF VisitInv, SubmittingVisited, PhaseOne, TargetFree
<1>2. CASE AcceptStep \/ ServerStep \/ \E o \in Op : BackoffElapses(o)
  <2>1. UNCHANGED w
    BY <1>2 DEF AcceptStep, StartAccept, ProbeState, WriteAccepted, ServerStep, ServerRecords, ServerAdvances,
       ServerDecides, BackoffElapses
  <2>2. \A p \in Op : file'["submitting"][p] = file["submitting"][p]
    <3>1. ASSUME NEW o \in Op, Write("pending", o, Fresh)
          PROVE  \A p \in Op : file'["submitting"][p] = file["submitting"][p]
      BY <1>0, <3>1, FreshFacts, WriteFacts
    <3>2. ASSUME NEW o \in Op, NEW r \in Record, Write("accepted", o, r)
          PROVE  \A p \in Op : file'["submitting"][p] = file["submitting"][p]
      BY <1>0, <3>2, WriteFacts
    <3>3. \/ UNCHANGED file \/ \E o \in Op : Write("pending", o, Fresh)
          \/ \E o \in Op : BackoffElapses(o)
      BY <1>2 DEF AcceptStep, StartAccept, ProbeState, WriteAccepted, ServerStep, ServerRecords, ServerAdvances,
         ServerDecides
    <3> QED
      BY <3>1, <3>2, <3>3, CommandEffects
  <2> QED
    BY <1>0, <2>1, <2>2, VisitKept
<1> QED
  BY <1>1, <1>2

LEMMA NextVisit ==
  TypeOK /\ EvidenceInv /\ PresenceInv /\ CountInv /\ VisitInv /\ [Next]_vars => VisitInv'
<1> SUFFICES ASSUME TypeOK, EvidenceInv, PresenceInv, CountInv, VisitInv, [Next]_vars PROVE VisitInv'
  OBVIOUS
<1>1. HandSeen /\ OneInHand /\ Exclusive
  BY DEF CountInv, EvidenceInv, PresenceInv
<1>2. CASE UNCHANGED vars
  BY <1>2 DEF vars, VisitInv, SubmittingVisited, PhaseOne, TargetFree, Visited, In
<1> QED
  BY <1>1, <1>2, PreludeVisit, PassVisit, OthersVisit DEF Next

\* Where an operation goes when it is released is told by its parked record's receipt.
LEMMA PlaceKept ==
  ASSUME NEW p \in Op, PlaceFree(p), file'["stalled"][p].rc = file["stalled"][p].rc,
         \A d \in {"accepted", "pending"} : file'[d][p] = file[d][p] \/ file'[d][p] \in {Absent, Fresh}
  PROVE  PlaceFree(p)'
BY DEF PlaceFree, ReleaseTarget

LEMMA NextCommand == TypeOK /\ PresenceInv /\ CommandInv /\ [Next]_vars => CommandInv'
<1> SUFFICES ASSUME TypeOK, PresenceInv, CommandInv, [Next]_vars PROVE CommandInv'
  OBVIOUS
<1>0. /\ FileType /\ {"stalled", "pending", "accepted"} \subseteq Dir
      /\ cmd \in [kind : {"none", "quarantine", "release"}, todo : SUBSET Op, half : SUBSET Op]
      /\ cmd.todo \subseteq Op /\ cmd.half \subseteq Op /\ Exclusive
  BY TypeSplit DEF RestType, Dir, PresenceInv
<1>1. CASE UNCHANGED vars
  BY <1>1 DEF vars, others, CommandInv, OneHalf, HalfOut, ParkFree, ReturnFree, PlaceFree, In
<1>2. ASSUME Begin \/ WorkerStep \/ CrashWorker PROVE CommandInv'
  <2>1. UNCHANGED cmd /\ (w.pc # "off" \/ lock = "free")
    BY <1>2 DEF Begin, WorkerStep, CrashWorker, RecoverAborts, RecoverDone, MigrateDone, JobsDone,
       NextDirectory, LedgerReady, Finish, RequestFails, RecoverSubmitting, MigrateRetry,
       EnqueueFromJob, SkipReconciled, Defer, ReconcileAborts, Reconcile, MoveToSubmitting,
       LookupFound, LookupNotFound, Submit, SubmitAnswered, SubmitFails, ApplyReceipt, Settle,
       RecordError, others
  <2>2. cmd.kind = "none"
    BY <1>0, <2>1 DEF Exclusive
  <2> QED
    BY <2>1, <2>2 DEF CommandInv, OneHalf, HalfOut, ParkFree, ReturnFree
<1>3. ASSUME CommandDone \/ CrashCommand PROVE CommandInv'
  <2>1. cmd' = NoCommand
    BY <1>3 DEF CommandDone, CrashCommand
  <2> QED
    BY <2>1 DEF NoCommand, CommandInv, OneHalf, HalfOut, ParkFree, ReturnFree
<1>4. ASSUME NEW S \in SUBSET Op, Quarantine(S) \/ Release(S) PROVE CommandInv'
  <2>1. UNCHANGED file /\ cmd'.todo = S /\ cmd'.half = {}
    BY <1>4 DEF Quarantine, Release
  <2>2. cmd'.kind = "quarantine" => \A p \in S : ~In("stalled", p)
    BY <1>4 DEF Quarantine, Release, Names
  <2>3. cmd'.kind = "release" => \A p \in S : PlaceFree(p)
    BY <1>4 DEF Quarantine, Release, PlaceFree, In
  <2> QED
    BY <2>1, <2>2, <2>3 DEF CommandInv, OneHalf, HalfOut, ParkFree, ReturnFree, PlaceFree, In
<1>5. ASSUME NEW o \in Op, ParkMove(o) PROVE CommandInv'
  <2>1. cmd'.kind = "quarantine" /\ cmd'.todo = cmd.todo \ {o} /\ cmd'.half = {o} /\ cmd.kind = "quarantine"
    BY <1>0, <1>5 DEF ParkMove
  <2>2. \A p \in Op : p # o => file'["stalled"][p] = file["stalled"][p]
    BY <1>0, <1>5, RenameFacts DEF ParkMove
  <2> QED
    BY <1>0, <2>1, <2>2 DEF CommandInv, OneHalf, HalfOut, ParkFree, ReturnFree, In
<1>6. ASSUME NEW o \in Op, ParkMark(o) PROVE CommandInv'
  <2>1. /\ cmd'.kind = "quarantine" /\ cmd'.todo = cmd.todo /\ cmd'.half = {} /\ cmd.kind = "quarantine"
        /\ o \notin cmd.todo
    BY <1>0, <1>6 DEF ParkMark, CommandInv, HalfOut
  <2>2. \A p \in Op : p # o => file'["stalled"][p] = file["stalled"][p]
    <3>1. PICK r \in Record : Write("stalled", o, r)
      BY <1>6, CommandEffects
    <3> QED
      BY <1>0, <3>1, WriteFacts
  <2> QED
    BY <1>0, <2>1, <2>2 DEF CommandInv, OneHalf, HalfOut, ParkFree, ReturnFree, In
<1>7. ASSUME NEW o \in Op, ReleaseMark(o) PROVE CommandInv'
  <2>1. /\ cmd'.kind = "release" /\ cmd'.todo = cmd.todo \ {o} /\ cmd'.half = {o} /\ cmd.kind = "release"
        /\ o \in cmd.todo
    BY <1>0, <1>7 DEF ReleaseMark
  <2>2. PICK r \in Record : Write("stalled", o, r) /\ r.rc = file["stalled"][o].rc
    BY <1>7, CommandEffects
  <2>3. \A p \in Op : /\ file'["stalled"][p].rc = file["stalled"][p].rc
                      /\ file'["accepted"][p] = file["accepted"][p] /\ file'["pending"][p] = file["pending"][p]
    BY <1>0, <2>2, WriteFacts
  <2>4. \A p \in cmd.todo : PlaceFree(p)'
    BY <1>0, <2>1, <2>3, PlaceKept DEF CommandInv, ReturnFree
  <2> QED
    BY <1>0, <2>1, <2>4 DEF CommandInv, OneHalf, HalfOut, ParkFree, ReturnFree
<1>8. ASSUME NEW o \in Op, ReleaseMove(o) PROVE CommandInv'
  <2>1. /\ cmd'.kind = "release" /\ cmd'.todo = cmd.todo /\ cmd'.half = {} /\ cmd.kind = "release"
        /\ o \notin cmd.todo
    BY <1>0, <1>8 DEF ReleaseMove, CommandInv, HalfOut
  <2>2. \A p \in Op : p # o => \A d \in Dir : file'[d][p] = file[d][p]
    BY <1>0, <1>8, RenameFacts DEF ReleaseMove, ReleaseTarget
  <2>3. \A p \in cmd.todo : PlaceFree(p)'
    BY <1>0, <2>1, <2>2, PlaceKept DEF CommandInv, ReturnFree
  <2> QED
    BY <1>0, <2>1, <2>3 DEF CommandInv, OneHalf, HalfOut, ParkFree, ReturnFree
<1>9. ASSUME AcceptStep \/ ServerStep \/ \E o \in Op : BackoffElapses(o) PROVE CommandInv'
  <2>1. UNCHANGED cmd
    BY <1>9 DEF AcceptStep, StartAccept, ProbeState, WriteAccepted, ServerStep, ServerRecords, ServerAdvances,
       ServerDecides, BackoffElapses, others
  <2>2. \A p \in Op : /\ file'["stalled"][p] = file["stalled"][p]
                      /\ PlaceFree(p) => PlaceFree(p)'
    <3>1. ASSUME UNCHANGED file
          PROVE  \A p \in Op : file'["stalled"][p] = file["stalled"][p] /\ (PlaceFree(p) => PlaceFree(p)')
      BY <3>1 DEF PlaceFree
    <3>2. ASSUME NEW o \in Op, Write("pending", o, Fresh)
          PROVE  \A p \in Op : file'["stalled"][p] = file["stalled"][p] /\ (PlaceFree(p) => PlaceFree(p)')
      <4>1. \A p \in Op : /\ file'["stalled"][p] = file["stalled"][p] /\ file'["accepted"][p] = file["accepted"][p]
                          /\ file'["pending"][p] = file["pending"][p] \/ file'["pending"][p] = Fresh
        BY <1>0, <3>2, FreshFacts, WriteFacts
      <4> QED
        BY <4>1, PlaceKept
    <3>3. ASSUME NEW o \in Op, BackoffElapses(o)
          PROVE  \A p \in Op : file'["stalled"][p] = file["stalled"][p] /\ (PlaceFree(p) => PlaceFree(p)')
      <4>1. PICK r \in Record : Write("accepted", o, r)
        BY <3>3, CommandEffects
      <4>2. file["accepted"][o] \notin {Absent, Fresh}
        <5>1. file["accepted"][o].hold /\ Absent.hold = FALSE /\ Fresh.hold = FALSE
          BY <3>3, CommandEffects DEF Absent, Fresh
        <5> QED
          BY <5>1
      <4>3. \A d \in Dir, p \in Op : file'[d][p] = IF d = "accepted" /\ p = o THEN r ELSE file[d][p]
        BY <1>0, <4>1, WriteFacts
      <4>4. ASSUME NEW p \in Op, PlaceFree(p) PROVE PlaceFree(p)'
        <5>1. file'["stalled"][p] = file["stalled"][p] /\ file'["pending"][p] = file["pending"][p]
          BY <1>0, <4>3
        <5>2. CASE p # o
          BY <1>0, <4>3, <4>4, <5>1, <5>2, PlaceKept
        <5>3. CASE p = o
          BY <4>2, <4>4, <5>1, <5>3 DEF PlaceFree, ReleaseTarget
        <5> QED
          BY <5>2, <5>3
      <4> QED
        BY <1>0, <4>3, <4>4
    <3>4. \/ UNCHANGED file \/ \E o \in Op : Write("pending", o, Fresh)
          \/ \E o \in Op : BackoffElapses(o)
      BY <1>9 DEF AcceptStep, StartAccept, ProbeState, WriteAccepted, ServerStep, ServerRecords, ServerAdvances,
         ServerDecides
    <3> QED
      BY <3>1, <3>2, <3>3, <3>4
  <2> QED
    BY <1>0, <2>1, <2>2 DEF CommandInv, OneHalf, HalfOut, ParkFree, ReturnFree, In
<1> QED
  BY <1>1, <1>2, <1>3, <1>4, <1>5, <1>6, <1>7, <1>8, <1>9 DEF Next, CommandStep

\* A rename never replaces a record that carries anything: the checks made when a name is
\* taken in hand still hold when its file moves, whatever accepts overlap.
THEOREM NothingReplaced == Spec => []RenamesReplaceNothing
<1>1. TypeOK /\ VisitInv /\ CommandInv => RenamesReplaceNothing
  BY DEF VisitInv, TargetFree, CommandInv, ParkFree, ReturnFree, PlaceFree, RenamesReplaceNothing
<1>2. Init => TypeOK /\ EvidenceInv /\ PresenceInv /\ CountInv /\ VisitInv /\ CommandInv
  BY InitType, InitEvidence, InitPresence, InitCount, InitRename
<1>3. TypeOK /\ EvidenceInv /\ PresenceInv /\ CountInv /\ VisitInv /\ CommandInv /\ [Next]_vars
        => (TypeOK /\ EvidenceInv /\ PresenceInv /\ CountInv /\ VisitInv /\ CommandInv)'
  BY NextType, NextEvidence, NextPresence, NextCount, NextVisit, NextCommand
<1> QED
  BY <1>1, <1>2, <1>3, PTL DEF Spec
-----------------------------------------------------------------------------
(* Receipts and directories, while no accept overlaps *)

\* What record r must say to be in directory d.
Sound(d, r) ==
  /\ d = "retry" => r.rc = "none"
  /\ (d = "pending" /\ r.st = "pending") => r.rc = "none"
  /\ d \in {"accepted", "stalled"} => (r.rc # "none" /\ r.st # "pending")
  /\ d = "completed" => r.rc = "committed"
  /\ d = "rejected" => r.rc = "rejected"

RecordsSound == \A d \in Dir, p \in Op \ Unreadable : In(d, p) => Sound(d, file[d][p])

\* What is in hand is readable and where the run takes it to be; what is listed and
\* not yet seen is still there; apply_receipt has written what settle moves.
HandHeld   == \A p \in w.cur : p \notin Unreadable /\ In(w.at, p)
Listed     == \A p \in w.todo : p \notin w.seen => In(Pass[w.phase], p)
EarlyEmpty == w.pc \in Early => w.todo = {} /\ w.cur = {}
MovesOn    == w.pc = "rename" => w.at # "accepted"
Written    == w.pc = "settle" => \A p \in w.cur : /\ file[w.at][p].rc = w.reply
                                                  /\ file[w.at][p].st = Destination(w.reply)

\* What a command has taken is readable, and parked where the command left it.
CommandHeld ==
  /\ \A p \in cmd.todo \cup cmd.half : p \notin Unreadable
  /\ cmd.kind = "release" => \A p \in cmd.todo \cup cmd.half : In("stalled", p)
  /\ cmd.kind = "quarantine" => \A p \in cmd.half : In("stalled", p)

\* A submission on its way is of an operation the queue has a record of.
PostsKnown == \A p \in posts : Known(p)

BookInv == RecordsSound /\ HandHeld /\ Listed /\ EarlyEmpty /\ MovesOn /\ Written /\ CommandHeld /\ PostsKnown

\* The invariants of the theorems above that the next ones rest on.
BaseInv == TypeOK /\ EvidenceInv /\ PresenceInv /\ CountInv /\ VisitInv /\ CommandInv

LEMMA InitBase == Init => BaseInv
BY InitType, InitEvidence, InitPresence, InitCount, InitRename DEF BaseInv

LEMMA NextBase == BaseInv /\ [Next]_vars => BaseInv'
BY NextType, NextEvidence, NextPresence, NextCount, NextVisit, NextCommand DEF BaseInv

LEMMA InitBook == Init => BookInv
<1> SUFFICES ASSUME Init PROVE BookInv
  OBVIOUS
<1>1. PICK d \in UnreadableDirs \cup {"pending"} :
        file = [e \in Dir |-> [o \in Op |->
                  IF e = "retry" /\ o \in Legacy THEN [Fresh EXCEPT !.st = "retry"]
                  ELSE IF e = d /\ o \in Unreadable THEN Fresh
                  ELSE Absent]]
  BY DEF Init
<1>2. RecordsSound
  <2> SUFFICES ASSUME NEW e \in Dir, NEW p \in Op \ Unreadable, In(e, p) PROVE Sound(e, file[e][p])
    BY DEF RecordsSound
  <2>1. file[e][p] = IF e = "retry" /\ p \in Legacy THEN [Fresh EXCEPT !.st = "retry"] ELSE Absent
    BY <1>1
  <2>2. e = "retry" /\ file[e][p].rc = "none"
    BY <2>1 DEF In, Fresh
  <2> QED
    BY <2>2 DEF Sound
<1>3. HandHeld /\ Listed /\ EarlyEmpty /\ MovesOn /\ Written
  BY DEF Init, NoRun, HandHeld, Listed, EarlyEmpty, MovesOn, Written
<1>4. CommandHeld /\ PostsKnown
  BY DEF Init, NoCommand, CommandHeld, PostsKnown
<1> QED
  BY <1>2, <1>3, <1>4 DEF BookInv

LEMMA WriteSound ==
  ASSUME FileType, RecordsSound, NEW d \in Dir, NEW o \in Op, NEW r \in Record, Write(d, o, r),
         o \in Unreadable \/ Sound(d, r)
  PROVE  RecordsSound'
BY WriteFacts DEF RecordsSound, In

LEMMA MoveSound ==
  ASSUME FileType, RecordsSound, NEW d \in Dir, NEW e \in Dir, NEW o \in Op, NEW r \in Record,
         Move(d, e, o, r), o \in Unreadable \/ Sound(e, r)
  PROVE  RecordsSound'
BY MoveFacts DEF RecordsSound, In

LEMMA RenameSound ==
  ASSUME FileType, RecordsSound, NEW d \in Dir, NEW e \in Dir, NEW o \in Op, Rename(d, e, o),
         Sound(e, file[d][o])
  PROVE  RecordsSound'
BY RenameFacts DEF RecordsSound, In

LEMMA SetAsideSound ==
  ASSUME FileType, RecordsSound, NEW d \in Dir, NEW o \in Op, SetAside(d, o)
  PROVE  RecordsSound'
BY SetAsideFacts DEF RecordsSound, In

\* Facts about the run that the steps below use.
LEMMA RunFacts ==
  ASSUME BaseInv
  PROVE  /\ FileType /\ w \in Run /\ w.cur \subseteq Op /\ w.todo \subseteq Op /\ w.reply \in Receipt
         /\ w.at \in {"pending", "submitting", "accepted"} /\ w.at \in Dir
         /\ Pass[w.phase] \in {"pending", "submitting", "accepted"} /\ Pass[w.phase] \in Dir
         /\ {"pending", "submitting", "accepted", "retry", "stalled", "completed", "rejected"} = Dir
         /\ cmd.todo \subseteq Op /\ cmd.half \subseteq Op
         /\ HandSeen /\ OneInHand /\ ReplyAgrees /\ Exclusive /\ CommandPresent /\ HalfOut /\ OneHalf
         /\ LedgerAgreement /\ ledger \in [Op -> Receipt]
<1>1. FileType /\ RestType
  BY TypeSplit DEF BaseInv
<1>2. w \in Run /\ w.cur \subseteq Op /\ w.todo \subseteq Op /\ w.reply \in Receipt /\ w.phase \in 1..3
      /\ w.at \in {"pending", "submitting", "accepted"}
  BY <1>1 DEF RestType, Run
<1>3. Pass[w.phase] \in {"pending", "submitting", "accepted"}
  BY <1>2, PassFacts
<1>4. {"pending", "submitting", "accepted", "retry", "stalled", "completed", "rejected"} = Dir
  BY DEF Dir
<1>5. cmd.todo \subseteq Op /\ cmd.half \subseteq Op /\ ledger \in [Op -> Receipt]
  BY <1>1 DEF RestType
<1>6. HandSeen /\ OneInHand /\ ReplyAgrees /\ Exclusive /\ CommandPresent /\ HalfOut /\ OneHalf
  BY DEF BaseInv, CountInv, EvidenceInv, PresenceInv, CommandInv
<1>7. LedgerAgreement
  BY SupportedFacts DEF BaseInv, EvidenceInv
<1> QED
  BY <1>1, <1>2, <1>3, <1>4, <1>5, <1>6, <1>7

\* The receipt being applied: where it leads, and that it is one.
LEMMA AppliedFacts ==
  ASSUME BaseInv, NEW o \in Op, w.pc \in {"apply", "settle"}, o \in w.cur
  PROVE  /\ w.reply \in Receipt /\ w.reply # "none" /\ ledger[o] # "none"
         /\ Destination(w.reply) \in {"accepted", "completed", "rejected"}
         /\ Destination(w.reply) = "completed" => (w.reply = "committed" /\ ledger[o] = "committed")
         /\ Destination(w.reply) = "rejected" => (w.reply = "rejected" /\ ledger[o] = "rejected")
BY RunFacts, DestinationFacts DEF ReplyAgrees, Terminal

LEMMA NextSound ==
  ASSUME BaseInv, BookInv, [Next]_vars, Acceptor = {}
  PROVE  RecordsSound'
<1>0. FileType /\ RecordsSound /\ w.at \in Dir /\ Pass[w.phase] \in Dir
  BY RunFacts DEF BookInv
<1>1. CASE UNCHANGED file
  BY <1>0, <1>1 DEF RecordsSound, In
<1>2. ASSUME NEW o \in Op, RecoverSubmitting(o) PROVE RecordsSound'
  <2>1. PICK r \in Record : Write("submitting", o, r)
    BY <1>2, WorkerEffects DEF BaseInv
  <2> QED
    BY <1>0, <2>1, WriteSound DEF Sound, Dir
<1>3. ASSUME NEW o \in Op, MigrateRetry(o) PROVE RecordsSound'
  <2>1. In("retry", o) /\ (SetAside("retry", o)
          \/ \E r \in Record : Move("retry", "pending", o, r) /\ r.rc = file["retry"][o].rc)
    BY <1>3, WorkerEffects DEF BaseInv
  <2>2. CASE SetAside("retry", o)
    BY <1>0, <2>2, SetAsideSound DEF Dir
  <2>3. ASSUME NEW r \in Record, Move("retry", "pending", o, r), r.rc = file["retry"][o].rc
        PROVE  RecordsSound'
    <3>1. o \in Unreadable \/ Sound("pending", r)
      BY <1>0, <2>1, <2>3 DEF RecordsSound, Sound, Dir
    <3> QED
      BY <1>0, <2>3, <3>1, MoveSound DEF Dir
  <2> QED
    BY <2>1, <2>2, <2>3
<1>4. ASSUME NEW o \in Op, EnqueueFromJob(o) PROVE RecordsSound'
  <2>1. Sound("pending", Fresh)
    BY DEF Sound, Fresh
  <2> QED
    BY <1>0, <1>1, <1>4, <2>1, FreshFacts, WriteSound DEF EnqueueFromJob, Dir
<1>5. ASSUME NEW o \in Op, Reconcile(o), ~UNCHANGED file PROVE RecordsSound'
  <2> DEFINE d == Pass[w.phase]
  <2>1. o \notin Unreadable
    BY <1>5 DEF Reconcile, Readable
  <2>2. In(d, o) /\ file[d][o].st = "pending"
        /\ \E r \in Record : Write(d, o, r) /\ r.rc = file[d][o].rc /\ r.st = "submitting"
    BY <1>5, WorkerEffects DEF BaseInv
  <2>3. Sound(d, file[d][o])
    BY <1>0, <2>1, <2>2 DEF RecordsSound
  <2>4. d \in {"pending", "submitting", "accepted"} /\ d \in Dir
    BY RunFacts
  <2> HIDE DEF d
  <2>5. PICK r \in Record : Write(d, o, r) /\ r.rc = file[d][o].rc /\ r.st = "submitting"
    BY <2>2
  <2>6. Sound(d, r)
    BY <2>3, <2>4, <2>5 DEF Sound
  <2> QED
    BY <1>0, <2>4, <2>5, <2>6, WriteSound
<1>6. ASSUME NEW o \in Op, MoveToSubmitting(o) PROVE RecordsSound'
  <2>1. Sound("submitting", file[w.at][o])
    BY DEF Sound
  <2> QED
    BY <1>0, <1>6, <2>1, RenameSound DEF MoveToSubmitting, Dir
<1>7. ASSUME NEW o \in Op, ApplyReceipt(o) PROVE RecordsSound'
  <2> DEFINE r == Observed(w.rec, w.reply)
  <2>1. r \in Record /\ r.rc = w.reply /\ r.st = Destination(w.reply)
    BY RunFacts, ObservedFacts DEF Observed
  <2>2. w.reply # "none" /\ r.st \in {"accepted", "completed", "rejected"}
    BY <1>7, <2>1, AppliedFacts DEF ApplyReceipt
  <2>3. w.at \in {"pending", "submitting", "accepted"} /\ Write(w.at, o, r)
    BY <1>7, RunFacts DEF ApplyReceipt
  <2> HIDE DEF r
  <2>4. Sound(w.at, r)
    BY <2>1, <2>2, <2>3 DEF Sound
  <2> QED
    BY <1>0, <2>1, <2>3, <2>4, WriteSound
<1>8. ASSUME NEW o \in Op, Settle(o) PROVE RecordsSound'
  <2> DEFINE target == Destination(w.reply)
  <2>1. UNCHANGED file \/ SetAside(w.at, o) \/ Rename(w.at, target, o)
    BY <1>8, WorkerEffects DEF BaseInv
  <2>2. w.pc = "settle" /\ o \in w.cur
    BY <1>8 DEF Settle
  <2>3. file[w.at][o].rc = w.reply /\ file[w.at][o].st = target
    BY <2>2 DEF BookInv, Written
  <2>4. /\ w.reply # "none" /\ target \in {"accepted", "completed", "rejected"}
        /\ target = "completed" => w.reply = "committed"
        /\ target = "rejected" => w.reply = "rejected"
    BY <2>2, AppliedFacts
  <2> HIDE DEF target
  <2>5. Sound(target, file[w.at][o]) /\ target \in Dir
    BY <2>3, <2>4 DEF Sound, Dir
  <2>6. CASE SetAside(w.at, o)
    BY <1>0, <2>6, SetAsideSound
  <2>7. CASE Rename(w.at, target, o)
    BY <1>0, <2>5, <2>7, RenameSound
  <2> QED
    BY <1>1, <2>1, <2>6, <2>7
<1>9. ASSUME NEW o \in Op, ParkMove(o) PROVE RecordsSound'
  <2>1. In("accepted", o) /\ o \notin Unreadable
    BY <1>9, RunFacts DEF ParkMove, CommandPresent, BookInv, CommandHeld
  <2>2. Sound("accepted", file["accepted"][o])
    BY <1>0, <2>1 DEF RecordsSound, Dir
  <2>3. Sound("stalled", file["accepted"][o])
    BY <2>2 DEF Sound
  <2> QED
    BY <1>0, <1>9, <2>3, RenameSound DEF ParkMove, Dir
<1>10. ASSUME NEW o \in Op, ParkMark(o) \/ ReleaseMark(o) PROVE RecordsSound'
  <2>1. In("stalled", o) /\ o \notin Unreadable
    BY <1>10 DEF ParkMark, ReleaseMark, BookInv, CommandHeld
  <2>2. Sound("stalled", file["stalled"][o])
    BY <1>0, <2>1 DEF RecordsSound, Dir
  <2>3. PICK r \in Record : /\ Write("stalled", o, r) /\ r.rc = file["stalled"][o].rc
                            /\ r.st \in {"stalled", ReleaseTarget(file["stalled"][o])}
    BY <1>10, CommandEffects DEF BaseInv
  <2>4. Sound("stalled", r)
    BY <2>2, <2>3 DEF Sound, ReleaseTarget
  <2> QED
    BY <1>0, <2>3, <2>4, WriteSound DEF Dir
<1>11. ASSUME NEW o \in Op, ReleaseMove(o) PROVE RecordsSound'
  <2>1. In("stalled", o) /\ o \notin Unreadable
    BY <1>11 DEF ReleaseMove, BookInv, CommandHeld
  <2>2. Sound("stalled", file["stalled"][o])
    BY <1>0, <2>1 DEF RecordsSound, Dir
  <2>3. ReleaseTarget(file["stalled"][o]) = "accepted" /\ Sound("accepted", file["stalled"][o])
    BY <2>2 DEF Sound, ReleaseTarget
  <2>4. Rename("stalled", "accepted", o)
    BY <1>11, <2>3 DEF ReleaseMove
  <2> QED
    BY <1>0, <2>3, <2>4, RenameSound DEF Dir
<1>12. ASSUME NEW o \in Op, BackoffElapses(o) PROVE RecordsSound'
  <2>1. file["accepted"][o] \in Record
    BY <1>12, CommandEffects DEF BaseInv
  <2>2. PICK r \in Record : Write("accepted", o, r) /\ r.rc = file["accepted"][o].rc /\ r.st = file["accepted"][o].st
    BY <1>12, CommandEffects DEF BaseInv
  <2>3. In("accepted", o)
    BY <2>1, AbsentFacts DEF In
  <2>4. o \in Unreadable \/ Sound("accepted", file["accepted"][o])
    BY <1>0, <2>3 DEF RecordsSound, Dir
  <2>5. o \in Unreadable \/ Sound("accepted", r)
    BY <2>2, <2>4 DEF Sound
  <2> QED
    BY <1>0, <2>2, <2>5, WriteSound DEF Dir
<1>13. UNCHANGED vars => UNCHANGED file
  BY DEF vars
<1> QED
  BY <1>1, <1>2, <1>3, <1>4, <1>5, <1>6, <1>7, <1>8, <1>9, <1>10, <1>11, <1>12, <1>13, FileSteps
\* The run's own part: what is in hand and listed, and what settle will move.
RunBook == HandHeld /\ Listed /\ EarlyEmpty /\ MovesOn /\ Written

LEMMA BookOff == ASSUME EndRun PROVE RunBook'
BY DEF EndRun, NoRun, RunBook, HandHeld, Listed, EarlyEmpty, MovesOn, Written

\* Steps that leave all records in place, and the run's lists and hand.
LEMMA BookKept ==
  ASSUME RunBook, \A d \in Dir, p \in Op : Stays(d, p), w.cur \subseteq Op, w.todo \subseteq Op,
         w.at \in Dir, Pass[w.phase] \in Dir,
         w'.cur = w.cur, w'.at = w.at, w'.todo = w.todo, w'.seen = w.seen, w'.phase = w.phase,
         w'.pc \in Early => w.pc \in Early, w'.pc \notin {"rename", "settle"}
  PROVE  RunBook'
BY DEF RunBook, HandHeld, Listed, EarlyEmpty, MovesOn, Written, Stays

LEMMA SameStays == ASSUME UNCHANGED file PROVE \A d \in Dir, p \in Op : Stays(d, p)
BY DEF Stays, In

\* A write of a record, or no change, removes nothing.
LEMMA PreludeStays ==
  ASSUME BaseInv, NEW o \in Op, RecoverSubmitting(o) \/ EnqueueFromJob(o) \/ Reconcile(o) \/ ApplyReceipt(o)
  PROVE  \A d \in Dir, p \in Op : Stays(d, p)
<1>0. FileType /\ w.at \in Dir /\ Pass[w.phase] \in Dir /\ w.reply \in Receipt /\ {"submitting", "pending"} \subseteq Dir
  BY RunFacts
<1>1. UNCHANGED file \/ \E d \in Dir, r \in Record : Write(d, o, r)
  <2>1. CASE RecoverSubmitting(o)
    BY <1>0, <2>1, WorkerEffects DEF BaseInv
  <2>2. CASE EnqueueFromJob(o)
    BY <1>0, <2>2, FreshFacts DEF EnqueueFromJob
  <2>3. CASE Reconcile(o)
    BY <1>0, <2>3, WorkerEffects DEF BaseInv
  <2>4. CASE ApplyReceipt(o)
    BY <1>0, <2>4, ObservedFacts DEF ApplyReceipt
  <2> QED
    BY <2>1, <2>2, <2>3, <2>4
<1>2. ASSUME NEW d \in Dir, NEW r \in Record, Write(d, o, r) PROVE \A x \in Dir, p \in Op : Stays(x, p)
  BY <1>0, <1>2, WriteStays
<1> QED
  BY <1>1, <1>2, SameStays

LEMMA EarlyBook ==
  ASSUME BaseInv, RunBook,
         \/ Begin \/ RecoverDone \/ MigrateDone \/ JobsDone
         \/ \E o \in Op : RecoverSubmitting(o) \/ MigrateRetry(o) \/ EnqueueFromJob(o)
  PROVE  RunBook'
<1>0. w \in Run /\ w.cur \subseteq Op /\ w.at \in Dir /\ w.phase \in 1..3 /\ Pass[w.phase] \in Dir
  BY RunFacts DEF Run
<1>1. w.pc \in Early /\ w.cur = {} /\ w.todo = {}
  BY DEF Begin, RecoverDone, MigrateDone, JobsDone, RecoverSubmitting, MigrateRetry, EnqueueFromJob, Early,
     RunBook, EarlyEmpty
<1>2. CASE Begin \/ RecoverDone \/ MigrateDone
  <2>1. w'.cur = {} /\ w'.todo = {} /\ w'.pc \in Early
    BY <1>0, <1>1, <1>2 DEF Begin, RecoverDone, MigrateDone, Run, Early
  <2> QED
    BY <2>1 DEF RunBook, HandHeld, Listed, EarlyEmpty, MovesOn, Written, Early
<1>3. CASE JobsDone
  <2>1. /\ w'.cur = {} /\ w'.pc = "scan" /\ w'.todo = Names(Pass[1]) /\ w'.phase = w.phase /\ UNCHANGED file
    BY <1>0, <1>1, <1>3 DEF JobsDone, Run
  <2>2. w.phase = 1
    BY <1>1 DEF BaseInv, VisitInv, PhaseOne
  <2>3. \A p \in w'.todo : p \notin w'.seen => In(Pass[1], p)
    BY <2>1 DEF Names
  <2> QED
    BY <2>1, <2>2, <2>3 DEF RunBook, HandHeld, Listed, EarlyEmpty, MovesOn, Written, Early, In
<1>4. ASSUME NEW o \in Op, RecoverSubmitting(o) \/ MigrateRetry(o) \/ EnqueueFromJob(o) PROVE RunBook'
  <2>1. UNCHANGED w
    BY <1>4 DEF RecoverSubmitting, MigrateRetry, EnqueueFromJob
  <2> QED
    BY <1>1, <2>1 DEF RunBook, HandHeld, Listed, EarlyEmpty, MovesOn, Written, Early
<1> QED
  BY <1>2, <1>3, <1>4

LEMMA TalkBook ==
  ASSUME BaseInv, RunBook,
         \/ LedgerReady \/ \E isDown \in BOOLEAN : RequestFails(isDown) \/ \E o \in Op : SubmitFails(o, isDown)
         \/ \E o \in Op : LookupFound(o) \/ LookupNotFound(o) \/ Submit(o) \/ SubmitAnswered(o)
  PROVE  RunBook'
<1>0. w \in Run /\ w.cur \subseteq Op /\ w.todo \subseteq Op /\ w.at \in Dir /\ Pass[w.phase] \in Dir
  BY RunFacts
<1>1. /\ w'.cur = w.cur /\ w'.at = w.at /\ w'.todo = w.todo /\ w'.seen = w.seen /\ w'.phase = w.phase
      /\ w'.pc \in {"post", "error", "apply", "ready", "await"} /\ UNCHANGED file
  <2>1. ASSUME \/ LedgerReady \/ \E isDown \in BOOLEAN : RequestFails(isDown) \/ \E o \in Op : SubmitFails(o, isDown)
        PROVE  /\ w'.cur = w.cur /\ w'.at = w.at /\ w'.todo = w.todo /\ w'.seen = w.seen /\ w'.phase = w.phase
               /\ w'.pc \in {"post", "error"} /\ UNCHANGED file
    BY <1>0, <2>1 DEF LedgerReady, RequestFails, SubmitFails, Fail, Run
  <2>2. ASSUME NEW o \in Op, LookupFound(o) \/ LookupNotFound(o) \/ Submit(o) \/ SubmitAnswered(o)
        PROVE  /\ w'.cur = w.cur /\ w'.at = w.at /\ w'.todo = w.todo /\ w'.seen = w.seen /\ w'.phase = w.phase
               /\ w'.pc \in {"apply", "ready", "await"} /\ UNCHANGED file
    BY <1>0, <2>2 DEF LookupFound, LookupNotFound, Submit, SubmitAnswered, Run
  <2> QED
    BY <2>1, <2>2
<1>2. w'.pc \notin Early /\ w'.pc \notin {"rename", "settle"}
  BY <1>1 DEF Early
<1> QED
  BY <1>0, <1>1, <1>2, SameStays, BookKept

LEMMA ScanBook ==
  ASSUME BaseInv, RunBook, RecordsSound, NEW o,
         NextDirectory \/ SkipReconciled(o) \/ Defer(o) \/ Reconcile(o)
  PROVE  RunBook'
<1>0. /\ FileType /\ w \in Run /\ w.cur \subseteq Op /\ w.todo \subseteq Op /\ w.at \in Dir /\ Pass[w.phase] \in Dir
      /\ HandSeen /\ w.pc = "scan"
  BY RunFacts DEF NextDirectory, SkipReconciled, Defer, Reconcile
<1>1. CASE NextDirectory
  <2>1. /\ w'.pc = "scan" /\ w'.cur = w.cur /\ w'.at = w.at /\ w'.phase = w.phase + 1
        /\ w'.todo = Names(Pass[w.phase + 1]) /\ UNCHANGED file
    BY <1>0, <1>1 DEF NextDirectory, Run
  <2> QED
    BY <2>1 DEF RunBook, HandHeld, Listed, EarlyEmpty, MovesOn, Written, Early, In, Names
<1>2. CASE SkipReconciled(o) \/ Defer(o)
  <2>1. /\ w'.pc = "scan" /\ w'.cur = w.cur /\ w'.at = w.at /\ w'.phase = w.phase
        /\ w'.todo = w.todo \ {o} /\ w.seen \subseteq w'.seen /\ UNCHANGED file
    BY <1>0, <1>2 DEF SkipReconciled, Defer, Run
  <2> QED
    BY <2>1 DEF RunBook, HandHeld, Listed, EarlyEmpty, MovesOn, Written, Early, In
<1>3. CASE Reconcile(o)
  <2> DEFINE d == Pass[w.phase]
  <2>1. o \in w.todo /\ o \notin w.seen /\ o \notin Unreadable /\ o \in Op
    BY <1>0, <1>3 DEF Reconcile, NextInOrder, AlreadyReconciled, Readable
  <2>2. /\ w'.cur = {o} /\ w'.at = d /\ w'.phase = w.phase /\ w'.todo = w.todo \ {o} /\ w'.seen = w.seen \cup {o}
        /\ w'.pc \in {"rename", "lookup"}
    BY <1>0, <1>3 DEF Reconcile, Run
  <2>3. \A x \in Dir, p \in Op : Stays(x, p)
    BY <1>3, <2>1, PreludeStays
  <2>4. In(d, o)
    BY <2>1 DEF RunBook, Listed
  <2>5. file'[d][o] # Absent
    BY <1>0, <2>1, <2>3, <2>4 DEF Stays, In
  <2>6. w'.pc = "rename" => d # "accepted"
    <3> SUFFICES ASSUME w'.pc = "rename", d = "accepted" PROVE FALSE
      OBVIOUS
    <3>1. file[d][o].st = "pending"
      BY <1>0, <1>3, <2>1, WorkerEffects DEF BaseInv, Run
    <3>2. Sound(d, file[d][o])
      BY <1>0, <2>1, <2>4 DEF RecordsSound
    <3> QED
      BY <3>1, <3>2 DEF Sound
  <2>7. \A p \in w'.todo : p \notin w'.seen => In(d, p)'
    BY <1>0, <2>2, <2>3 DEF RunBook, Listed, Stays
  <2> HIDE DEF d
  <2>8. HandHeld'
    BY <2>1, <2>2, <2>5 DEF HandHeld, In
  <2>9. Listed'
    BY <2>2, <2>7 DEF d, Listed, In
  <2> QED
    BY <2>2, <2>6, <2>8, <2>9 DEF RunBook, EarlyEmpty, MovesOn, Written, Early
<1> QED
  BY <1>1, <1>2, <1>3

LEMMA OutcomeBook ==
  ASSUME BaseInv, RunBook, NEW o \in Op,
         MoveToSubmitting(o) \/ ApplyReceipt(o) \/ Settle(o) \/ RecordError(o)
  PROVE  RunBook'
<1>0. /\ FileType /\ w \in Run /\ w.cur \subseteq Op /\ w.todo \subseteq Op /\ w.at \in Dir /\ Pass[w.phase] \in Dir
      /\ "submitting" \in Dir /\ w.reply \in Receipt
  BY RunFacts
<1>1. w.cur = {o} /\ o \in w.seen /\ In(w.at, o) /\ o \notin Unreadable
  BY RunFacts DEF MoveToSubmitting, ApplyReceipt, Settle, RecordError, OneInHand, HandSeen, RunBook, HandHeld
<1>2. w'.todo = w.todo /\ w'.seen = w.seen /\ w'.phase = w.phase /\ w'.pc \in {"lookup", "settle", "scan", "finish"}
  BY <1>0 DEF MoveToSubmitting, ApplyReceipt, Settle, RecordError, Run
<1>3. \A p \in Op : p # o => \A d \in Dir : file'[d][p] = file[d][p]
  <2>1. CASE MoveToSubmitting(o)
    BY <1>0, <2>1, RenameFacts DEF MoveToSubmitting
  <2>2. CASE ApplyReceipt(o)
    BY <1>0, <2>2, ObservedFacts, WriteFacts DEF ApplyReceipt
  <2>3. CASE Settle(o)
    <3>1. Destination(w.reply) \in Dir
      BY <1>0, DestinationFacts DEF Dir
    <3>2. UNCHANGED file \/ SetAside(w.at, o) \/ Rename(w.at, Destination(w.reply), o)
      BY <2>3, WorkerEffects DEF BaseInv
    <3>3. ASSUME SetAside(w.at, o) PROVE \A p \in Op : p # o => \A d \in Dir : file'[d][p] = file[d][p]
      BY <1>0, <3>3, SetAsideFacts
    <3>4. ASSUME Rename(w.at, Destination(w.reply), o)
          PROVE  \A p \in Op : p # o => \A d \in Dir : file'[d][p] = file[d][p]
      BY <1>0, <3>1, <3>4, RenameFacts
    <3> QED
      BY <3>2, <3>3, <3>4
  <2>4. CASE RecordError(o)
    BY <2>4 DEF RecordError
  <2> QED
    BY <2>1, <2>2, <2>3, <2>4
<1>4. Listed' /\ EarlyEmpty' /\ MovesOn'
  BY <1>0, <1>1, <1>2, <1>3 DEF RunBook, Listed, EarlyEmpty, MovesOn, Early, In
<1>5. HandHeld' /\ Written'
  <2>1. CASE MoveToSubmitting(o)
    <3>1. w'.cur = {o} /\ w'.at = "submitting" /\ w'.pc = "lookup"
      BY <1>0, <1>1, <2>1 DEF MoveToSubmitting, Run
    <3>2. In("submitting", o)'
      BY <1>0, <1>1, <2>1, RenameFacts DEF MoveToSubmitting, In
    <3> QED
      BY <1>1, <3>1, <3>2 DEF HandHeld, Written, In
  <2>2. CASE ApplyReceipt(o)
    <3>1. w'.cur = {o} /\ w'.at = w.at /\ w'.pc = "settle" /\ w'.reply = w.reply
      BY <1>0, <1>1, <2>2 DEF ApplyReceipt, Run
    <3>2. file'[w.at][o] = Observed(w.rec, w.reply) /\ Observed(w.rec, w.reply) \in Record
      BY <1>0, <2>2, ObservedFacts, WriteFacts DEF ApplyReceipt
    <3>3. file'[w.at][o].rc = w.reply /\ file'[w.at][o].st = Destination(w.reply) /\ file'[w.at][o] # Absent
      BY <3>2, AbsentFacts DEF Observed
    <3> QED
      BY <1>1, <3>1, <3>3 DEF HandHeld, Written, In
  <2>3. CASE Settle(o) \/ RecordError(o)
    <3>1. w'.cur = {}
      BY <1>0, <2>3 DEF Settle, RecordError, Run
    <3> QED
      BY <3>1 DEF HandHeld, Written
  <2> QED
    BY <2>1, <2>2, <2>3
<1> QED
  BY <1>4, <1>5 DEF RunBook

\* While a command runs no worker does; the server and the clock remove nothing, and what
\* the clock changes of a record is not its state or receipt.
LEMMA OthersBook ==
  ASSUME BaseInv, RunBook, Acceptor = {},
         \/ CommandStep \/ CrashCommand \/ AcceptStep \/ ServerStep \/ \E o \in Op : BackoffElapses(o)
         \/ \E S \in SUBSET Op : Quarantine(S) \/ Release(S)
  PROVE  RunBook'
<1>0. FileType /\ w.cur \subseteq Op /\ w.todo \subseteq Op /\ w.at \in Dir /\ Pass[w.phase] \in Dir /\ "accepted" \in Dir
  BY RunFacts
<1>1. CASE \/ CommandStep \/ CrashCommand \/ \E S \in SUBSET Op : Quarantine(S) \/ Release(S)
  <2>1. UNCHANGED w /\ (cmd.kind # "none" \/ lock = "free")
    BY <1>1 DEF CommandStep, CommandDone, CrashCommand, Quarantine, Release, ParkMove, ParkMark, ReleaseMark, ReleaseMove
  <2>2. w.pc = "off"
    BY <2>1, RunFacts DEF Exclusive
  <2>3. w.cur = {} /\ w.todo = {}
    BY <2>2 DEF RunBook, EarlyEmpty, Early
  <2> QED
    BY <2>1, <2>2, <2>3 DEF RunBook, HandHeld, Listed, EarlyEmpty, MovesOn, Written
<1>2. ASSUME UNCHANGED <<w, file>> PROVE RunBook'
  BY <1>2 DEF RunBook, HandHeld, Listed, EarlyEmpty, MovesOn, Written, In
<1>3. ASSUME NEW o \in Op, BackoffElapses(o) PROVE RunBook'
  <2>1. UNCHANGED w
    BY <1>3 DEF BackoffElapses
  <2>2. PICK r \in Record : Write("accepted", o, r) /\ r.rc = file["accepted"][o].rc /\ r.st = file["accepted"][o].st
    BY <1>3, CommandEffects DEF BaseInv
  <2>3. \A d \in Dir, p \in Op : file'[d][p].rc = file[d][p].rc /\ file'[d][p].st = file[d][p].st
    BY <1>0, <2>2, WriteFacts
  <2>4. \A d \in Dir, p \in Op : Stays(d, p)
    BY <1>0, <2>2, WriteStays
  <2> QED
    BY <1>0, <2>1, <2>3, <2>4 DEF RunBook, HandHeld, Listed, EarlyEmpty, MovesOn, Written, Stays
<1>4. AcceptStep \/ ServerStep => UNCHANGED <<w, file>>
  BY DEF AcceptStep, ServerStep, ServerRecords, ServerAdvances, ServerDecides
<1> QED
  BY <1>1, <1>2, <1>3, <1>4

LEMMA NextRunBook ==
  ASSUME BaseInv, BookInv, [Next]_vars, Acceptor = {}
  PROVE  RunBook'
<1>0. RunBook /\ RecordsSound
  BY DEF BookInv, RunBook
<1>1. CASE UNCHANGED vars
  BY <1>0, <1>1 DEF vars, RunBook, HandHeld, Listed, EarlyEmpty, MovesOn, Written, In
<1>2. CASE RecoverAborts \/ Finish \/ CrashWorker \/ \E o \in Op : ReconcileAborts(o)
  BY <1>2, BookOff DEF RecoverAborts, Finish, CrashWorker, ReconcileAborts
<1>3. ASSUME WorkerStep PROVE RunBook'
  <2>1. ASSUME RecoverDone \/ MigrateDone \/ JobsDone PROVE RunBook'
    BY <1>0, <2>1, EarlyBook
  <2>2. ASSUME LedgerReady \/ \E isDown \in BOOLEAN : RequestFails(isDown) PROVE RunBook'
    BY <1>0, <2>2, TalkBook
  <2>3. ASSUME NextDirectory PROVE RunBook'
    BY <1>0, <2>3, ScanBook
  <2>4. ASSUME NEW o \in Op, RecoverSubmitting(o) \/ MigrateRetry(o) \/ EnqueueFromJob(o) PROVE RunBook'
    BY <1>0, <2>4, EarlyBook
  <2>5. ASSUME NEW o \in Op, SkipReconciled(o) \/ Defer(o) \/ Reconcile(o) PROVE RunBook'
    BY <1>0, <2>5, ScanBook
  <2>6. ASSUME NEW o \in Op, MoveToSubmitting(o) \/ ApplyReceipt(o) \/ Settle(o) \/ RecordError(o) PROVE RunBook'
    BY <1>0, <2>6, OutcomeBook
  <2>7. ASSUME NEW o \in Op, \/ LookupFound(o) \/ LookupNotFound(o) \/ Submit(o) \/ SubmitAnswered(o)
                             \/ \E isDown \in BOOLEAN : SubmitFails(o, isDown)
        PROVE  RunBook'
    BY <1>0, <2>7, TalkBook
  <2> QED
    BY <1>2, <1>3, <2>1, <2>2, <2>3, <2>4, <2>5, <2>6, <2>7 DEF WorkerStep
<1>4. CASE Begin
  BY <1>0, <1>4, EarlyBook
<1> QED
  BY <1>0, <1>1, <1>2, <1>3, <1>4, OthersBook DEF Next
LEMMA NextHeld ==
  ASSUME BaseInv, BookInv, [Next]_vars, Acceptor = {}
  PROVE  CommandHeld'
<1>0. /\ FileType /\ {"stalled", "accepted", "pending"} \subseteq Dir /\ cmd.todo \subseteq Op /\ cmd.half \subseteq Op
      /\ CommandHeld /\ Exclusive /\ HalfOut /\ CommandPresent /\ RecordsSound
      /\ cmd \in [kind : {"none", "quarantine", "release"}, todo : SUBSET Op, half : SUBSET Op]
  BY RunFacts DEF BookInv, BaseInv, TypeOK
<1>1. ASSUME UNCHANGED cmd, \A p \in Op : In("stalled", p) => In("stalled", p)' PROVE CommandHeld'
  BY <1>0, <1>1 DEF CommandHeld
<1>2. ASSUME Begin \/ WorkerStep \/ CrashWorker PROVE CommandHeld'
  <2>1. UNCHANGED cmd /\ (w.pc # "off" \/ lock = "free")
    BY <1>2 DEF Begin, WorkerStep, CrashWorker, RecoverAborts, RecoverDone, MigrateDone, JobsDone,
       NextDirectory, LedgerReady, Finish, RequestFails, RecoverSubmitting, MigrateRetry,
       EnqueueFromJob, SkipReconciled, Defer, ReconcileAborts, Reconcile, MoveToSubmitting,
       LookupFound, LookupNotFound, Submit, SubmitAnswered, SubmitFails, ApplyReceipt, Settle,
       RecordError, others
  <2>2. cmd.kind = "none"
    BY <1>0, <2>1 DEF Exclusive
  <2> QED
    BY <1>0, <2>1, <2>2 DEF CommandHeld
<1>3. ASSUME CommandDone \/ CrashCommand PROVE CommandHeld'
  BY <1>3 DEF CommandDone, CrashCommand, NoCommand, CommandHeld
<1>4. ASSUME NEW S \in SUBSET Op, Quarantine(S) PROVE CommandHeld'
  <2>1. cmd'.kind = "quarantine" /\ cmd'.todo = S /\ cmd'.half = {} /\ S \cap Unreadable = {}
    BY <1>4 DEF Quarantine
  <2> QED
    BY <2>1 DEF CommandHeld
<1>5. ASSUME NEW S \in SUBSET Op, Release(S) PROVE CommandHeld'
  <2>1. cmd'.kind = "release" /\ cmd'.todo = S /\ cmd'.half = {} /\ UNCHANGED file
    BY <1>5 DEF Release
  <2>2. \A p \in S : p \notin Unreadable /\ In("stalled", p)
    BY <1>5 DEF Release, Names
  <2> QED
    BY <2>1, <2>2 DEF CommandHeld, In
<1>6. ASSUME NEW o \in Op, ParkMove(o) PROVE CommandHeld'
  <2>1. /\ cmd'.kind = "quarantine" /\ cmd'.todo = cmd.todo \ {o} /\ cmd'.half = {o}
        /\ o \in cmd.todo /\ In("accepted", o)
    BY <1>0, <1>6 DEF ParkMove, CommandPresent
  <2>2. In("stalled", o)'
    BY <1>0, <1>6, <2>1, RenameFacts DEF ParkMove, In
  <2> QED
    BY <1>0, <2>1, <2>2 DEF CommandHeld
<1>7. ASSUME NEW o \in Op, ParkMark(o) PROVE CommandHeld'
  <2>1. cmd'.kind = "quarantine" /\ cmd'.todo = cmd.todo /\ cmd'.half = {}
    BY <1>0, <1>7 DEF ParkMark
  <2> QED
    BY <1>0, <2>1 DEF CommandHeld
<1>8. ASSUME NEW o \in Op, ReleaseMark(o) PROVE CommandHeld'
  <2>1. cmd'.kind = "release" /\ cmd'.todo = cmd.todo \ {o} /\ cmd'.half = {o} /\ cmd.kind = "release" /\ o \in cmd.todo
    BY <1>0, <1>8 DEF ReleaseMark
  <2>2. PICK r \in Record : Write("stalled", o, r)
    BY <1>8, CommandEffects DEF BaseInv
  <2>3. \A p \in Op : In("stalled", p) => In("stalled", p)'
    BY <1>0, <2>2, WriteStays DEF Stays
  <2> QED
    BY <1>0, <2>1, <2>3 DEF CommandHeld
<1>9. ASSUME NEW o \in Op, ReleaseMove(o) PROVE CommandHeld'
  <2>1. /\ cmd'.kind = "release" /\ cmd'.todo = cmd.todo /\ cmd'.half = {} /\ cmd.kind = "release"
        /\ o \notin cmd.todo
    BY <1>0, <1>9 DEF ReleaseMove, HalfOut
  <2>2. \A p \in Op : p # o => file'["stalled"][p] = file["stalled"][p]
    BY <1>0, <1>9, RenameFacts DEF ReleaseMove, ReleaseTarget
  <2> QED
    BY <1>0, <2>1, <2>2 DEF CommandHeld, In
<1>10. ASSUME NEW o \in Op, BackoffElapses(o) PROVE CommandHeld'
  <2>1. PICK r \in Record : Write("accepted", o, r)
    BY <1>10, CommandEffects DEF BaseInv
  <2>2. \A p \in Op : In("stalled", p) => In("stalled", p)'
    BY <1>0, <2>1, WriteStays DEF Stays
  <2>3. UNCHANGED cmd
    BY <1>10 DEF BackoffElapses, others
  <2> QED
    BY <1>1, <2>2, <2>3
<1>11. ASSUME UNCHANGED <<cmd, file>> PROVE CommandHeld'
  BY <1>1, <1>11 DEF In
<1>12. AcceptStep \/ ServerStep \/ UNCHANGED vars => UNCHANGED <<cmd, file>>
  BY DEF AcceptStep, ServerStep, ServerRecords, ServerAdvances, ServerDecides, vars, others
<1> QED
  BY <1>2, <1>3, <1>4, <1>5, <1>6, <1>7, <1>8, <1>9, <1>10, <1>11, <1>12 DEF Next, CommandStep

LEMMA NextKeeps == ASSUME BaseInv, [Next]_vars PROVE Keeps
<1>1. UNCHANGED vars => Keeps
  BY SameFileKeeps DEF vars
<1> QED
  BY <1>1, WorkerKeeps, CommandKeeps, EnvironmentPresence, StaysKeeps DEF Next, BaseInv

LEMMA NextPosts ==
  ASSUME BaseInv, BookInv, [Next]_vars
  PROVE  PostsKnown'
<1>1. \A p \in Op : Known(p) => Known(p)'
  BY NextKeeps DEF Keeps
<1>2. ASSUME NEW o \in Op, Submit(o) PROVE posts' = posts \cup {o} /\ Known(o)
  BY <1>2, RunFacts DEF Submit, BookInv, HandHeld, Known
<1>3. posts \subseteq Op
  BY DEF BaseInv, TypeOK
<1>4. ASSUME posts' \subseteq posts PROVE PostsKnown'
  BY <1>1, <1>3, <1>4 DEF BookInv, PostsKnown
<1>5. posts' \subseteq posts \/ \E o \in Op : Submit(o)
  BY DEF Next, vars, Begin, WorkerStep, CrashWorker, RecoverAborts, RecoverDone, MigrateDone, JobsDone, NextDirectory,
     LedgerReady, Finish, RequestFails, RecoverSubmitting, MigrateRetry, EnqueueFromJob, SkipReconciled, Defer,
     ReconcileAborts, Reconcile, MoveToSubmitting, LookupFound, LookupNotFound, SubmitAnswered,
     SubmitFails, ApplyReceipt, Settle, RecordError, Quarantine, Release, CommandStep, CommandDone, ParkMove,
     ParkMark, ReleaseMark, ReleaseMove, CrashCommand, AcceptStep, StartAccept, ProbeState, WriteAccepted,
     ServerStep, ServerRecords, ServerAdvances, ServerDecides, BackoffElapses, others
<1>6. ASSUME NEW o \in Op, Submit(o) PROVE PostsKnown'
  BY <1>1, <1>2, <1>3, <1>6 DEF BookInv, PostsKnown
<1> QED
  BY <1>4, <1>5, <1>6

LEMMA NextBook == ASSUME Acceptor = {} PROVE BaseInv /\ BookInv /\ [Next]_vars => BookInv'
BY NextSound, NextRunBook, NextHeld, NextPosts DEF BookInv, RunBook

\* While no accept overlaps, a readable record's receipt is the one its directory stands for,
\* whatever step of apply_receipt, quarantine or release a crash cut short.
THEOREM ReceiptsMatch == ASSUME Acceptor = {} PROVE Spec => []ReceiptMatchesDirectory
<1>1. BookInv => ReceiptMatchesDirectory
  BY DEF BookInv, RecordsSound, Sound, ReceiptMatchesDirectory, Dir
<1>2. BaseInv /\ BookInv /\ [Next]_vars => BaseInv' /\ BookInv'
  BY NextBase, NextBook
<1> QED
  BY <1>1, <1>2, InitBase, InitBook, PTL DEF Spec
-----------------------------------------------------------------------------
(* The refinement: every step of the queue is one of the contract, or none *)

Places == {"absent", "queued", "held", "parked", "completed", "rejected"}

\* The place of an operation, by what directories have a record of it.
LEMMA PlaceIs ==
  ASSUME NEW p
  PROVE  /\ In("completed", p) => Place(p) = "completed"
         /\ (In("rejected", p) /\ ~In("completed", p)) => Place(p) = "rejected"
         /\ (In("accepted", p) /\ ~In("completed", p) /\ ~In("rejected", p)) => Place(p) = "held"
         /\ (In("stalled", p) /\ ~In("completed", p) /\ ~In("rejected", p) /\ ~In("accepted", p)) => Place(p) = "parked"
         /\ (/\ ~In("completed", p) /\ ~In("rejected", p) /\ ~In("accepted", p) /\ ~In("stalled", p)
             /\ In("pending", p) \/ In("submitting", p) \/ In("retry", p)) => Place(p) = "queued"
         /\ (\A d \in Dir : ~In(d, p)) => Place(p) = "absent"
<1>1. \A d \in {"pending", "submitting", "accepted", "retry", "completed", "rejected", "stalled"} : d \in Dir
  BY DEF Dir
<1> QED
  BY <1>1 DEF Place

\* What a place says of the directories.
LEMMA PlaceOf ==
  ASSUME NEW p
  PROVE  /\ Place(p) = "completed" <=> In("completed", p)
         /\ Place(p) = "rejected" <=> (In("rejected", p) /\ ~In("completed", p))
         /\ Place(p) = "held" <=> (In("accepted", p) /\ ~In("completed", p) /\ ~In("rejected", p))
         /\ Place(p) = "absent" <=> ~Known(p)
         /\ Place(p) \in Places
<1>1. Known(p) <=> \/ In("pending", p) \/ In("submitting", p) \/ In("accepted", p) \/ In("retry", p)
                   \/ In("completed", p) \/ In("rejected", p) \/ In("stalled", p)
  BY DEF Known, Dir
<1>2. (\A d \in Dir : ~In(d, p)) <=> ~Known(p)
  BY DEF Known
<1> QED
  BY <1>1, <1>2, PlaceIs DEF Places

\* The same operators after the step.
LEMMA PlaceNext ==
  ASSUME NEW p
  PROVE  /\ In("completed", p)' => Place(p)' = "completed"
         /\ (In("rejected", p)' /\ ~In("completed", p)') => Place(p)' = "rejected"
         /\ (In("accepted", p)' /\ ~In("completed", p)' /\ ~In("rejected", p)') => Place(p)' = "held"
         /\ (In("stalled", p)' /\ ~In("completed", p)' /\ ~In("rejected", p)' /\ ~In("accepted", p)')
              => Place(p)' = "parked"
         /\ (/\ ~In("completed", p)' /\ ~In("rejected", p)' /\ ~In("accepted", p)' /\ ~In("stalled", p)'
             /\ In("pending", p)' \/ In("submitting", p)' \/ In("retry", p)') => Place(p)' = "queued"
BY DEF Place

\* A place changes only with the directories that have a record.
LEMMA PlaceSame ==
  ASSUME NEW p, \A d \in Dir : In(d, p)' <=> In(d, p)
  PROVE  Place(p)' = Place(p)
<1>1. \A d \in {"pending", "submitting", "accepted", "retry", "completed", "rejected", "stalled"} : In(d, p)' <=> In(d, p)
  BY DEF Dir
<1> QED
  BY <1>1 DEF Place

\* The moves the contract allows one operation, given the ledger.
Allowed(from, to, word) ==
  \/ from = to
  \/ from = "absent" /\ to = "queued"
  \/ from = "queued" /\ to = "held" /\ word # "none"
  \/ from = "held" /\ to = "parked"
  \/ from = "parked" /\ to = "held"
  \/ from \in {"queued", "held", "parked"} /\ to = "completed" /\ word = "committed"
  \/ from \in {"queued", "held", "parked"} /\ to = "rejected" /\ word = "rejected"

LEMMA OneMoves ==
  ASSUME NEW o \in Op, UNCHANGED ledger, \A p \in Op : p # o => Place(p)' = Place(p),
         Allowed(Place(o), Place(o)', ledger[o])
  PROVE  [Contract!Next]_(Contract!vars)
<1> DEFINE m == [p \in Op |-> Place(p)]
           n == [p \in Op |-> Place(p)']
<1>1. n = [m EXCEPT ![o] = Place(o)'] /\ m[o] = Place(o)
  OBVIOUS
<1>2. m' = n
  OBVIOUS
<1>3. CASE Place(o) = Place(o)'
  <2>1. n = m
    BY <1>3
  <2> QED
    BY <1>2, <2>1 DEF Contract!vars
<1>4. CASE Place(o) # Place(o)'
  <2>1. \/ Place(o) = "absent" /\ Place(o)' = "queued"
        \/ Place(o) = "queued" /\ Place(o)' = "held" /\ ledger[o] # "none"
        \/ Place(o) = "held" /\ Place(o)' = "parked"
        \/ Place(o) = "parked" /\ Place(o)' = "held"
        \/ Place(o) \in {"queued", "held", "parked"} /\ Place(o)' = "completed" /\ ledger[o] = "committed"
        \/ Place(o) \in {"queued", "held", "parked"} /\ Place(o)' = "rejected" /\ ledger[o] = "rejected"
    BY <1>4 DEF Allowed
  <2> HIDE DEF n
  <2>2. \/ Contract!Queue(o) \/ Contract!Acknowledge(o) \/ Contract!Deliver(o) \/ Contract!Refuse(o)
        \/ Contract!Park(o) \/ Contract!Unpark(o)
    BY <1>1, <1>2, <2>1 DEF Contract!Queue, Contract!Acknowledge, Contract!Deliver, Contract!Refuse,
                        Contract!Park, Contract!Unpark
  <2> QED
    BY <2>2 DEF Contract!Next
<1> QED
  BY <1>3, <1>4

\* Steps that add and remove no record.
LEMMA NoneMoves ==
  ASSUME UNCHANGED ledger, \A d \in Dir, p \in Op : In(d, p)' <=> In(d, p)
  PROVE  [Contract!Next]_(Contract!vars)
<1>1. \A p \in Op : Place(p)' = Place(p)
  BY PlaceSame
<1>2. [p \in Op |-> Place(p)]' = [p \in Op |-> Place(p)]
  BY <1>1
<1> QED
  BY <1>2 DEF Contract!vars

\* A record is added to or removed from the directories of one operation only.
LEMMA WriteOne ==
  ASSUME FileType, NEW d \in Dir, NEW o \in Op, NEW r \in Record, Write(d, o, r)
  PROVE  /\ \A x \in Dir, p \in Op : p # o => (In(x, p)' <=> In(x, p))
         /\ \A x \in Dir : In(x, o)' <=> (x = d \/ In(x, o))
<1>1. r # Absent
  BY AbsentFacts
<1> QED
  BY <1>1, WriteFacts DEF In

LEMMA MoveOne ==
  ASSUME FileType, NEW d \in Dir, NEW e \in Dir, NEW o \in Op, NEW r \in Record, Move(d, e, o, r)
  PROVE  /\ \A x \in Dir, p \in Op : p # o => (In(x, p)' <=> In(x, p))
         /\ \A x \in Dir : In(x, o)' <=> (x = e \/ (x # d /\ In(x, o)))
<1>1. r # Absent
  BY AbsentFacts
<1> QED
  BY <1>1, MoveFacts DEF In

LEMMA RenameOne ==
  ASSUME FileType, NEW d \in Dir, NEW e \in Dir, NEW o \in Op, Rename(d, e, o), In(d, o)
  PROVE  /\ \A x \in Dir, p \in Op : p # o => (In(x, p)' <=> In(x, p))
         /\ \A x \in Dir : In(x, o)' <=> (x = e \/ (x # d /\ In(x, o)))
BY RenameFacts DEF In

LEMMA SetAsideOne ==
  ASSUME FileType, NEW d \in Dir, NEW o \in Op, SetAside(d, o)
  PROVE  /\ \A x \in Dir, p \in Op : p # o => (In(x, p)' <=> In(x, p))
         /\ \A x \in Dir : In(x, o)' <=> (x # d /\ In(x, o))
BY SetAsideFacts DEF In

\* An operation's own directories, when it alone changes.
LEMMA OwnMoves ==
  ASSUME NEW o \in Op, UNCHANGED ledger, \A x \in Dir, p \in Op : p # o => (In(x, p)' <=> In(x, p)),
         Allowed(Place(o), Place(o)', ledger[o])
  PROVE  [Contract!Next]_(Contract!vars)
<1>1. \A p \in Op : p # o => Place(p)' = Place(p)
  BY PlaceSame
<1> QED
  BY <1>1, OneMoves
LEMMA InitContract == Init => Contract!Init
<1> SUFFICES ASSUME Init PROVE Contract!Init
  OBVIOUS
<1>1. PICK d \in UnreadableDirs \cup {"pending"} :
        /\ file = [e \in Dir |-> [o \in Op |->
                    IF e = "retry" /\ o \in Legacy THEN [Fresh EXCEPT !.st = "retry"]
                    ELSE IF e = d /\ o \in Unreadable THEN Fresh
                    ELSE Absent]]
        /\ ledger = [o \in Op |-> IF o \in Unreadable /\ d # "pending" THEN "accepted" ELSE "none"]
  BY DEF Init
<1>2. d \in {"pending", "submitting", "accepted", "stalled"} /\ Legacy \cap Unreadable = {}
  BY MemoryQueueAssumption
<1>3. [Fresh EXCEPT !.st = "retry"] # Absent /\ Fresh # Absent
  BY DEF Fresh, Absent
<1>4. ASSUME NEW p \in Op
      PROVE  /\ Place(p) \in {"absent", "queued", "held", "parked"}
             /\ ledger[p] \in {"none", "accepted"}
             /\ Place(p) \in {"held", "parked"} => ledger[p] = "accepted"
             /\ Place(p) = "absent" => ledger[p] = "none"
  <2>1. CASE p \in Unreadable
    <3>1. \A e \in Dir : In(e, p) <=> e = d
      BY <1>1, <1>2, <1>3, <2>1 DEF In
    <3>2. ledger[p] = IF d # "pending" THEN "accepted" ELSE "none"
      BY <1>1, <2>1
    <3>3. \A e \in {"pending", "submitting", "accepted", "retry", "completed", "rejected", "stalled"} : In(e, p) <=> e = d
      BY <3>1 DEF Dir
    <3> QED
      BY <1>2, <3>2, <3>3, PlaceIs
  <2>2. CASE p \in Legacy
    <3>1. \A e \in Dir : In(e, p) <=> e = "retry"
      BY <1>1, <1>2, <1>3, <2>2 DEF In
    <3>2. ledger[p] = "none"
      BY <1>1, <1>2, <2>2
    <3>3. \A e \in {"pending", "submitting", "accepted", "retry", "completed", "rejected", "stalled"} :
            In(e, p) <=> e = "retry"
      BY <3>1 DEF Dir
    <3> QED
      BY <3>2, <3>3, PlaceIs
  <2>3. CASE p \notin Unreadable /\ p \notin Legacy
    <3>1. \A e \in Dir : ~In(e, p)
      BY <1>1, <2>3 DEF In
    <3>2. ledger[p] = "none"
      BY <1>1, <2>3
    <3> QED
      BY <3>1, <3>2, PlaceIs
  <2> QED
    BY <2>1, <2>2, <2>3
<1>5. [o \in Op |-> Place(o)] \in [Op -> {"absent", "queued", "held", "parked"}]
  BY <1>4
<1>6. ledger \in [Op -> {"none", "accepted"}]
  BY <1>1
<1> QED
  BY <1>4, <1>5, <1>6 DEF Contract!Init

\* A record that is rewritten where it is.
LEMMA WriteStutters ==
  ASSUME FileType, UNCHANGED ledger, NEW d \in Dir, NEW o \in Op, NEW r \in Record, Write(d, o, r), In(d, o)
  PROVE  [Contract!Next]_(Contract!vars)
BY WriteOne, NoneMoves

LEMMA SameFileStutters == ASSUME UNCHANGED <<file, ledger>> PROVE [Contract!Next]_(Contract!vars)
BY NoneMoves DEF In

\* A job's operation is queued beside what is there already.
LEMMA QueueContract ==
  ASSUME FileType, UNCHANGED ledger, NEW o \in Op, Write("pending", o, Fresh)
  PROVE  [Contract!Next]_(Contract!vars)
<1>1. /\ \A x \in Dir, p \in Op : p # o => (In(x, p)' <=> In(x, p))
      /\ \A x \in Dir : In(x, o)' <=> (x = "pending" \/ In(x, o))
  BY FreshFacts, WriteOne DEF Dir
<1>2. /\ In("pending", o)'
      /\ \A x \in {"submitting", "accepted", "retry", "completed", "rejected", "stalled"} : In(x, o)' <=> In(x, o)
  BY <1>1 DEF Dir
<1>3. CASE \E x \in {"completed", "rejected", "accepted", "stalled"} : In(x, o)
  <2>1. Place(o)' = Place(o)
    BY <1>2, <1>3, PlaceIs, PlaceNext
  <2> QED
    BY <1>1, <2>1, OwnMoves DEF Allowed
<1>4. CASE ~\E x \in {"completed", "rejected", "accepted", "stalled"} : In(x, o)
  <2>1. Place(o)' = "queued"
    BY <1>2, <1>4, PlaceNext
  <2>2. Place(o) \in {"queued", "absent"}
    BY <1>4 DEF Place
  <2> QED
    BY <1>1, <2>1, <2>2, OwnMoves DEF Allowed
<1> QED
  BY <1>3, <1>4

LEMMA MigrateContract ==
  ASSUME BaseInv, NEW o \in Op, MigrateRetry(o)
  PROVE  [Contract!Next]_(Contract!vars)
<1>0. FileType /\ "retry" \in Dir /\ "pending" \in Dir /\ TypeOK /\ UNCHANGED ledger
  BY RunFacts DEF Dir, BaseInv, MigrateRetry, others
<1>1. In("retry", o) /\ \/ SetAside("retry", o) /\ In("pending", o)
                        \/ \E r \in Record : Move("retry", "pending", o, r)
  BY <1>0, WorkerEffects
<1>2. /\ \A x \in Dir, p \in Op : p # o => (In(x, p)' <=> In(x, p))
      /\ \A x \in Dir : In(x, o)' <=> (x = "pending" \/ (x # "retry" /\ In(x, o)))
  <2>1. CASE SetAside("retry", o) /\ In("pending", o)
    BY <1>0, <2>1, SetAsideOne
  <2>2. ASSUME NEW r \in Record, Move("retry", "pending", o, r)
        PROVE  /\ \A x \in Dir, p \in Op : p # o => (In(x, p)' <=> In(x, p))
               /\ \A x \in Dir : In(x, o)' <=> (x = "pending" \/ (x # "retry" /\ In(x, o)))
    BY <1>0, <2>2, MoveOne
  <2> QED
    BY <1>1, <2>1, <2>2
<1>3. /\ In("pending", o)'
      /\ \A x \in {"submitting", "accepted", "completed", "rejected", "stalled"} : In(x, o)' <=> In(x, o)
  BY <1>2 DEF Dir
<1>4. Place(o)' = Place(o)
  BY <1>1, <1>3 DEF Place
<1> QED
  BY <1>0, <1>2, <1>4, OwnMoves DEF Allowed

LEMMA SubmitContract ==
  ASSUME BaseInv, BookInv, NEW o \in Op, MoveToSubmitting(o)
  PROVE  [Contract!Next]_(Contract!vars)
<1>0. /\ FileType /\ "submitting" \in Dir /\ w.at \in {"pending", "submitting"} /\ w.at \in Dir /\ UNCHANGED ledger
      /\ In(w.at, o) /\ Rename(w.at, "submitting", o)
  BY RunFacts DEF Dir, BookInv, MovesOn, HandHeld, MoveToSubmitting, others
<1> DEFINE d == w.at
<1> HIDE DEF d
<1>1. /\ \A x \in Dir, p \in Op : p # o => (In(x, p)' <=> In(x, p))
      /\ \A x \in Dir : In(x, o)' <=> (x = "submitting" \/ (x # d /\ In(x, o)))
  BY <1>0, RenameOne DEF d
<1>2. /\ In("submitting", o)' /\ In(d, o) /\ d \in {"pending", "submitting"}
      /\ \A x \in {"accepted", "completed", "rejected", "stalled"} : In(x, o)' <=> In(x, o)
  BY <1>0, <1>1 DEF Dir, d
<1>3. Place(o)' = Place(o)
  BY <1>2 DEF Place
<1> QED
  BY <1>0, <1>1, <1>3, OwnMoves DEF Allowed
\* The record in hand goes where the ledger's word takes it.
LEMMA SettleContract ==
  ASSUME BaseInv, BookInv, NEW o \in Op, Settle(o)
  PROVE  [Contract!Next]_(Contract!vars)
<1>a. PICK d \in Dir, t \in Dir : d = w.at /\ t = Destination(w.reply)
  BY RunFacts, DestinationFacts DEF Dir
<1>0. /\ FileType /\ d \in {"pending", "submitting", "accepted"} /\ UNCHANGED ledger /\ In(d, o)
      /\ w.pc = "settle" /\ o \in w.cur
  BY <1>a, RunFacts DEF BookInv, HandHeld, Settle, others
<1>1. /\ t \in {"accepted", "completed", "rejected"} /\ ledger[o] # "none"
      /\ t = "completed" => ledger[o] = "committed"
      /\ t = "rejected" => ledger[o] = "rejected"
  BY <1>a, <1>0, AppliedFacts
<1>2. /\ In("completed", o) => ledger[o] = "committed"
      /\ In("rejected", o) => ledger[o] = "rejected"
  BY RunFacts DEF LedgerAgreement
<1>3. \/ d = t /\ UNCHANGED file
      \/ d # t /\ In(t, o) /\ SetAside(d, o)
      \/ d # t /\ ~In(t, o) /\ Rename(d, t, o)
  BY <1>a DEF Settle, SettleFile
<1>4. CASE UNCHANGED file
  BY <1>0, <1>4, SameFileStutters
<1>5. CASE d # t /\ ((In(t, o) /\ SetAside(d, o)) \/ Rename(d, t, o))
  <2>1. /\ \A x \in Dir, p \in Op : p # o => (In(x, p)' <=> In(x, p))
        /\ \A x \in Dir : In(x, o)' <=> (x = t \/ (x # d /\ In(x, o)))
    <3>1. CASE In(t, o) /\ SetAside(d, o)
      BY <1>0, <1>1, <1>5, <3>1, SetAsideOne
    <3>2. CASE Rename(d, t, o)
      BY <1>0, <1>1, <3>2, RenameOne
    <3> QED
      BY <1>5, <3>1, <3>2
  <2>2. /\ In(t, o)'
        /\ \A x \in {"completed", "rejected"} : In(x, o)' <=> (x = t \/ In(x, o))
        /\ In("accepted", o)' <=> ("accepted" = t \/ ("accepted" # d /\ In("accepted", o)))
    <3>1. "completed" \in Dir /\ "rejected" \in Dir /\ "accepted" \in Dir /\ d # "completed" /\ d # "rejected"
      BY <1>0 DEF Dir
    <3>2. In(t, o)'
      BY <1>1, <2>1
    <3>3. In("completed", o)' <=> ("completed" = t \/ In("completed", o))
      BY <2>1, <3>1
    <3>4. In("rejected", o)' <=> ("rejected" = t \/ In("rejected", o))
      BY <2>1, <3>1
    <3>5. In("accepted", o)' <=> ("accepted" = t \/ ("accepted" # d /\ In("accepted", o)))
      BY <2>1, <3>1
    <3> QED
      BY <3>2, <3>3, <3>4, <3>5
  <2>3. Place(o) \in {"queued", "held", "parked", "completed", "rejected"}
    <3>1. Known(o)
      BY <1>0 DEF Known
    <3> QED
      BY <3>1, PlaceOf DEF Places
  <2>4. CASE In("completed", o)'
    <3>1. Place(o)' = "completed" /\ ledger[o] = "committed"
      BY <1>1, <1>2, <2>2, <2>4, PlaceNext
    <3>2. Place(o) # "rejected"
      BY <1>2, <3>1, PlaceOf
    <3> QED
      BY <1>0, <2>1, <2>3, <3>1, <3>2, OwnMoves DEF Allowed
  <2>5. CASE In("rejected", o)' /\ ~In("completed", o)'
    <3>1. Place(o)' = "rejected" /\ ledger[o] = "rejected"
      BY <1>1, <1>2, <2>2, <2>5, PlaceNext
    <3>2. Place(o) # "completed"
      BY <1>2, <3>1, PlaceOf
    <3> QED
      BY <1>0, <2>1, <2>3, <3>1, <3>2, OwnMoves DEF Allowed
  <2>6. CASE ~In("completed", o)' /\ ~In("rejected", o)'
    <3>1. ~In("completed", o) /\ ~In("rejected", o) /\ t = "accepted" /\ In("accepted", o)'
      BY <1>1, <2>2, <2>6
    <3>2. Place(o)' = "held"
      BY <2>6, <3>1, PlaceNext
    <3>3. Place(o) \notin {"completed", "rejected"}
      BY <3>1, PlaceOf
    <3> QED
      BY <1>0, <1>1, <2>1, <2>3, <3>2, <3>3, OwnMoves DEF Allowed
  <2> QED
    BY <2>4, <2>5, <2>6
<1> QED
  BY <1>3, <1>4, <1>5

\* Quarantine and release move between held and parked, once they are not decided.
LEMMA ParkContract ==
  ASSUME BaseInv, BookInv, NEW o \in Op, ParkMove(o) \/ ReleaseMove(o)
  PROVE  [Contract!Next]_(Contract!vars)
<1>0. FileType /\ "accepted" \in Dir /\ "stalled" \in Dir /\ UNCHANGED ledger /\ cmd.todo \subseteq Op
  BY RunFacts DEF Dir, ParkMove, ReleaseMove
<1> DEFINE swap(d, e) == /\ \A x \in Dir, p \in Op : p # o => (In(x, p)' <=> In(x, p))
                         /\ \A x \in Dir : In(x, o)' <=> (x = e \/ (x # d /\ In(x, o)))
<1>1. CASE ParkMove(o)
  <2>1. In("accepted", o) /\ Rename("accepted", "stalled", o)
    BY <1>1, RunFacts DEF CommandPresent, ParkMove
  <2>2. swap("accepted", "stalled")
    BY <1>0, <2>1, RenameOne
  <2>3. /\ In("stalled", o)' /\ ~In("accepted", o)'
        /\ \A x \in {"completed", "rejected"} : In(x, o)' <=> In(x, o)
    BY <2>2 DEF Dir
  <2>4. Allowed(Place(o), Place(o)', ledger[o])
    BY <2>1, <2>3 DEF Allowed, Place
  <2> QED
    BY <1>0, <2>2, <2>4, OwnMoves
<1>2. CASE ReleaseMove(o)
  <2>1. In("stalled", o) /\ o \notin Unreadable /\ Rename("stalled", ReleaseTarget(file["stalled"][o]), o)
    BY <1>2 DEF ReleaseMove, BookInv, CommandHeld
  <2>2. file["stalled"][o].rc # "none"
    BY <1>0, <2>1 DEF BookInv, RecordsSound, Sound
  <2>3. Rename("stalled", "accepted", o)
    BY <2>1, <2>2 DEF ReleaseTarget
  <2>4. swap("stalled", "accepted")
    BY <1>0, <2>1, <2>3, RenameOne
  <2>5. /\ In("accepted", o)'
        /\ \A x \in {"completed", "rejected"} : In(x, o)' <=> In(x, o)
    BY <2>4 DEF Dir
  <2>6. Allowed(Place(o), Place(o)', ledger[o])
    BY <2>1, <2>5 DEF Allowed, Place
  <2> QED
    BY <1>0, <2>4, <2>6, OwnMoves
<1> QED
  BY <1>1, <1>2

\* Records rewritten in place change no directory.
LEMMA RewriteContract ==
  ASSUME BaseInv, BookInv, NEW o \in Op,
         \/ RecoverSubmitting(o) \/ Reconcile(o) \/ ApplyReceipt(o)
         \/ ParkMark(o) \/ ReleaseMark(o) \/ BackoffElapses(o)
  PROVE  [Contract!Next]_(Contract!vars)
<1>0. /\ FileType /\ TypeOK /\ {"submitting", "accepted", "stalled"} \subseteq Dir /\ w.at \in Dir
      /\ Pass[w.phase] \in Dir /\ UNCHANGED ledger
  BY RunFacts DEF Dir, BaseInv, RecoverSubmitting, Reconcile, ApplyReceipt, ParkMark, ReleaseMark, BackoffElapses, others
<1>1. UNCHANGED file \/ \E d \in Dir, r \in Record : Write(d, o, r) /\ In(d, o)
  <2>1. CASE RecoverSubmitting(o)
    BY <1>0, <2>1, WorkerEffects
  <2>2. CASE Reconcile(o)
    BY <1>0, <2>2, WorkerEffects
  <2>3. CASE ApplyReceipt(o)
    <3>1. In(w.at, o) /\ Write(w.at, o, Observed(w.rec, w.reply))
      BY <2>3 DEF ApplyReceipt, BookInv, HandHeld
    <3>2. Observed(w.rec, w.reply) \in Record
      BY RunFacts, ObservedFacts
    <3> QED
      BY <1>0, <3>1, <3>2
  <2>4. CASE ParkMark(o) \/ ReleaseMark(o)
    <3>1. In("stalled", o)
      BY <2>4 DEF ParkMark, ReleaseMark, BookInv, CommandHeld
    <3>2. \E r \in Record : Write("stalled", o, r)
      BY <1>0, <2>4, CommandEffects
    <3> QED
      BY <1>0, <3>1, <3>2
  <2>5. CASE BackoffElapses(o)
    <3>1. file["accepted"][o] \in Record /\ \E r \in Record : Write("accepted", o, r)
      BY <1>0, <2>5, CommandEffects
    <3>2. In("accepted", o)
      BY <3>1, AbsentFacts DEF In
    <3> QED
      BY <1>0, <3>1, <3>2
  <2> QED
    BY <2>1, <2>2, <2>3, <2>4, <2>5
<1> QED
  BY <1>0, <1>1, WriteStutters, SameFileStutters

\* The server's own steps are the contract's: what it records is queued.
LEMMA ServerContract ==
  ASSUME BaseInv, BookInv, ServerStep
  PROVE  [Contract!Next]_(Contract!vars)
<1>0. ledger \in [Op -> Receipt] /\ UNCHANGED file
  BY RunFacts DEF ServerStep, ServerRecords, ServerAdvances, ServerDecides
<1>1. [p \in Op |-> Place(p)]' = [p \in Op |-> Place(p)]
  BY <1>0, PlaceSame DEF In
<1> DEFINE m == [p \in Op |-> Place(p)]
<1>2. \A p \in Op : m[p] = Place(p)
  OBVIOUS
<1>3. UNCHANGED m
  BY <1>1
<1> HIDE DEF m
<1>4. ASSUME NEW o \in Op, ServerRecords(o) PROVE [Contract!Next]_(Contract!vars)
  <2>1. CASE ledger[o] # "none"
    <3>1. UNCHANGED ledger
      BY <1>0, <1>4, <2>1 DEF ServerRecords
    <3> QED
      BY <1>0, <3>1, SameFileStutters
  <2>2. CASE ledger[o] = "none"
    <3>1. ~In("completed", o) /\ ~In("rejected", o) /\ ~In("accepted", o) /\ ~In("stalled", o)
      BY <2>2, RunFacts DEF LedgerAgreement
    <3>2. Known(o)
      BY <1>4 DEF ServerRecords, BookInv, PostsKnown
    <3>3. Place(o) = "queued"
      BY <3>1, <3>2 DEF Place, Known, Dir
    <3>4. ledger' = [ledger EXCEPT ![o] = "accepted"]
      BY <1>4, <2>2 DEF ServerRecords
    <3>5. Contract!Record(o)
      BY <1>2, <1>3, <2>2, <3>3, <3>4 DEF Contract!Record, m
    <3> QED
      BY <3>5 DEF Contract!Next
  <2> QED
    BY <2>1, <2>2
<1>5. ASSUME NEW o \in Op, ServerAdvances(o) PROVE [Contract!Next]_(Contract!vars)
  <2>1. Contract!Advance(o)
    BY <1>3, <1>5 DEF ServerAdvances, Contract!Advance, m
  <2> QED
    BY <2>1 DEF Contract!Next
<1>6. ASSUME NEW o \in Op, NEW r \in Terminal, ServerDecides(o, r) PROVE [Contract!Next]_(Contract!vars)
  <2>1. Contract!Decide(o, r) /\ r \in Contract!Decided
    BY <1>3, <1>6 DEF ServerDecides, Contract!Decide, Contract!Undecided, Contract!Decided, Open, Terminal, m
  <2> QED
    BY <2>1 DEF Contract!Next
<1> QED
  BY <1>4, <1>5, <1>6 DEF ServerStep

\* Every step of the queue is a step of the contract, or changes nothing it speaks of.
LEMMA NextContract ==
  ASSUME BaseInv, BookInv, [Next]_vars, Acceptor = {}
  PROVE  [Contract!Next]_(Contract!vars)
<1>1. CASE ServerStep
  BY <1>1, ServerContract
<1>2. ASSUME UNCHANGED file, ~ServerStep PROVE [Contract!Next]_(Contract!vars)
  <2>1. UNCHANGED ledger
    BY <1>2 DEF Next, vars, Begin, WorkerStep, CrashWorker, RecoverAborts, RecoverDone, MigrateDone, JobsDone,
     NextDirectory, LedgerReady, Finish, RequestFails, RecoverSubmitting, MigrateRetry, EnqueueFromJob,
     SkipReconciled, Defer, ReconcileAborts, Reconcile, MoveToSubmitting, LookupFound, LookupNotFound, Submit,
     SubmitAnswered, SubmitFails, ApplyReceipt, Settle, RecordError, Quarantine, Release, CommandStep,
     CommandDone, ParkMove, ParkMark, ReleaseMark, ReleaseMove, CrashCommand, AcceptStep, StartAccept,
     ProbeState, WriteAccepted, BackoffElapses, others
  <2> QED
    BY <1>2, <2>1, SameFileStutters
<1>3. ASSUME NEW o \in Op,
             \/ RecoverSubmitting(o) \/ Reconcile(o) \/ ApplyReceipt(o)
             \/ ParkMark(o) \/ ReleaseMark(o) \/ BackoffElapses(o)
      PROVE  [Contract!Next]_(Contract!vars)
  BY <1>3, RewriteContract
<1>4. ASSUME NEW o \in Op, EnqueueFromJob(o) PROVE [Contract!Next]_(Contract!vars)
  <2>1. UNCHANGED ledger /\ (UNCHANGED file \/ Write("pending", o, Fresh)) /\ FileType
    BY <1>4, RunFacts DEF EnqueueFromJob
  <2> QED
    BY <2>1, QueueContract, SameFileStutters
<1>5. ASSUME NEW o \in Op, MigrateRetry(o) PROVE [Contract!Next]_(Contract!vars)
  BY <1>5, MigrateContract
<1>6. ASSUME NEW o \in Op, MoveToSubmitting(o) PROVE [Contract!Next]_(Contract!vars)
  BY <1>6, SubmitContract
<1>7. ASSUME NEW o \in Op, Settle(o) PROVE [Contract!Next]_(Contract!vars)
  BY <1>7, SettleContract
<1>8. ASSUME NEW o \in Op, ParkMove(o) \/ ReleaseMove(o) PROVE [Contract!Next]_(Contract!vars)
  BY <1>8, ParkContract
<1>9. CASE UNCHANGED vars
  BY <1>9, SameFileStutters DEF vars, others
<1> QED
  BY <1>1, <1>2, <1>3, <1>4, <1>5, <1>6, <1>7, <1>8, <1>9, FileSteps

\* While no accept overlaps, whatever crashes and commands do, the queue is an
\* implementation of DeliveryContract (run_once, quarantine, release).
THEOREM Implements == ASSUME Acceptor = {} PROVE Spec => ImplementsContract
<1>1. BaseInv /\ BookInv /\ [Next]_vars => BaseInv' /\ BookInv'
  BY NextBase, NextBook
<1>2. BaseInv /\ BookInv /\ [Next]_vars => [Contract!Next]_(Contract!vars)
  BY NextContract
<1> QED
  BY <1>1, <1>2, InitBase, InitBook, InitContract, PTL DEF Spec, ImplementsContract, Contract!Spec
-----------------------------------------------------------------------------
(* Counted as delivered is moved, while no accept overlaps *)

\* A local state that a record in accepted may show, when s is the word of the server.
Marked(r, s) ==
  /\ r.st \in {"accepted", "completed", "rejected"}
  /\ r.st = "completed" => s = "committed"
  /\ r.st = "rejected" => s = "rejected"

\* An accepted record says so, or shows the decision that apply_receipt was about to file;
\* release has written what it is about to move; what was taken in hand from accepted showed
\* no decision that the receipt to apply could contradict.
MarksTrue == \A p \in Op \ Unreadable : In("accepted", p) => Marked(file["accepted"][p], ledger[p])
ReleaseMarked ==
  cmd.kind = "release" =>
    \A p \in cmd.half : file["stalled"][p].st = ReleaseTarget(file["stalled"][p])
HandMarked ==
  w.at = "accepted" =>
    \A p \in w.cur : /\ Marked(w.rec, ledger[p])
                     /\ w.pc \in {"apply", "settle"} => Marked(w.rec, w.reply)

MarkInv == MarksTrue /\ ReleaseMarked /\ HandMarked

LEMMA InitMark == Init => MarkInv
<1> SUFFICES ASSUME Init PROVE MarkInv
  OBVIOUS
<1>1. PICK d \in UnreadableDirs \cup {"pending"} :
        file = [e \in Dir |-> [o \in Op |->
                  IF e = "retry" /\ o \in Legacy THEN [Fresh EXCEPT !.st = "retry"]
                  ELSE IF e = d /\ o \in Unreadable THEN Fresh
                  ELSE Absent]]
  BY DEF Init
<1>2. \A p \in Op \ Unreadable : file["accepted"][p] = Absent
  BY <1>1 DEF Dir
<1>3. w.cur = {} /\ cmd.kind = "none"
  BY DEF Init, NoRun, NoCommand
<1> QED
  BY <1>2, <1>3 DEF MarkInv, MarksTrue, ReleaseMarked, HandMarked, In

\* The ledger keeps its decisions.
LEMMA DecisionStays ==
  ASSUME TypeOK, [Next]_vars
  PROVE  \A p \in Op : ledger[p] \in Terminal => ledger'[p] = ledger[p]
<1>0. ledger \in [Op -> Receipt]
  BY DEF TypeOK
<1>1. CASE UNCHANGED ledger
  BY <1>1
<1>2. ASSUME NEW o \in Op, ServerRecords(o) PROVE \A p \in Op : ledger[p] \in Terminal => ledger'[p] = ledger[p]
  BY <1>0, <1>2 DEF ServerRecords, Terminal
<1>3. ASSUME NEW o \in Op, ServerAdvances(o) PROVE \A p \in Op : ledger[p] \in Terminal => ledger'[p] = ledger[p]
  BY <1>0, <1>3 DEF ServerAdvances, Terminal
<1>4. ASSUME NEW o \in Op, NEW r \in Terminal, ServerDecides(o, r)
      PROVE  \A p \in Op : ledger[p] \in Terminal => ledger'[p] = ledger[p]
  BY <1>0, <1>4 DEF ServerDecides, Terminal, Open
<1>5. ServerStep \/ UNCHANGED ledger
  BY DEF Next, vars, Begin, WorkerStep, CrashWorker, RecoverAborts, RecoverDone, MigrateDone, JobsDone, NextDirectory,
     LedgerReady, Finish, RequestFails, RecoverSubmitting, MigrateRetry, EnqueueFromJob, SkipReconciled, Defer,
     ReconcileAborts, Reconcile, MoveToSubmitting, LookupFound, LookupNotFound, Submit, SubmitAnswered,
     SubmitFails, ApplyReceipt, Settle, RecordError, Quarantine, Release, CommandStep, CommandDone, ParkMove,
     ParkMark, ReleaseMark, ReleaseMove, CrashCommand, AcceptStep, StartAccept, ProbeState, WriteAccepted,
     BackoffElapses, others
<1> QED
  BY <1>1, <1>2, <1>3, <1>4, <1>5 DEF ServerStep

LEMMA MarkedStays ==
  ASSUME TypeOK, [Next]_vars, NEW p \in Op, NEW r, Marked(r, ledger[p])
  PROVE  Marked(r, ledger'[p])
BY DecisionStays DEF Marked, Terminal

\* Records of accepted: those left alone, and those a step writes there.
LEMMA MarksKept ==
  ASSUME BaseInv, MarksTrue, [Next]_vars,
         \A p \in Op \ Unreadable : \/ file'["accepted"][p] = file["accepted"][p]
                                    \/ file'["accepted"][p] = Absent
                                    \/ file'["accepted"][p].st = "accepted"
                                    \/ Marked(file'["accepted"][p], ledger'[p])
                                    \/ In("accepted", p) /\ file'["accepted"][p].st = file["accepted"][p].st
  PROVE  MarksTrue'
<1>1. TypeOK
  BY DEF BaseInv
<1> SUFFICES ASSUME NEW p \in Op \ Unreadable, file'["accepted"][p] # Absent
             PROVE  Marked(file'["accepted"][p], ledger'[p])
  BY DEF MarksTrue, In
<1>2. CASE In("accepted", p) /\ file'["accepted"][p].st = file["accepted"][p].st
  <2>1. Marked(file["accepted"][p], ledger'[p])
    BY <1>1, <1>2, MarkedStays DEF MarksTrue
  <2> QED
    BY <1>2, <2>1 DEF Marked
<1>3. CASE file'["accepted"][p].st = "accepted"
  BY <1>3 DEF Marked
<1> QED
  BY <1>2, <1>3 DEF In

LEMMA NextMarks ==
  ASSUME BaseInv, BookInv, MarkInv, [Next]_vars, Acceptor = {}
  PROVE  MarksTrue'
<1>0. /\ FileType /\ w.at \in Dir /\ Pass[w.phase] \in Dir /\ MarksTrue /\ TypeOK
      /\ {"accepted", "submitting", "retry", "pending", "stalled"} \subseteq Dir
  BY RunFacts DEF MarkInv, BaseInv
<1>1. CASE UNCHANGED file
  BY <1>0, <1>1, MarksKept
<1>2. ASSUME NEW d \in Dir, d # "accepted", NEW o \in Op, NEW r \in Record \cup {Absent}, Write(d, o, r) PROVE MarksTrue'
  BY <1>0, <1>2, WriteFacts, MarksKept
<1>3. ASSUME NEW o \in Op, RecoverSubmitting(o) \/ ParkMark(o) \/ ReleaseMark(o) \/ EnqueueFromJob(o) PROVE MarksTrue'
  <2>1. UNCHANGED file \/ \E d \in {"submitting", "stalled", "pending"}, r \in Record : Write(d, o, r)
    BY <1>0, <1>3, WorkerEffects, CommandEffects, FreshFacts
  <2> QED
    BY <1>0, <1>1, <1>2, <2>1
<1>4. ASSUME NEW o \in Op, MigrateRetry(o) PROVE MarksTrue'
  <2>1. SetAside("retry", o) \/ \E r \in Record : Move("retry", "pending", o, r)
    BY <1>0, <1>4, WorkerEffects
  <2>2. \A p \in Op : file'["accepted"][p] = file["accepted"][p]
    BY <1>0, <2>1, SetAsideFacts, MoveFacts
  <2> QED
    BY <1>0, <2>2, MarksKept
<1>5. ASSUME NEW o \in Op, Reconcile(o), ~UNCHANGED file PROVE MarksTrue'
  <2> DEFINE d == Pass[w.phase]
  <2>1. o \notin Unreadable
    BY <1>5 DEF Reconcile, Readable
  <2>2. In(d, o) /\ file[d][o].st = "pending" /\ \E r \in Record : Write(d, o, r)
    BY <1>0, <1>5, WorkerEffects
  <2>3. d \in Dir
    BY <1>0
  <2> HIDE DEF d
  <2>4. d # "accepted"
    BY <1>0, <2>1, <2>2 DEF MarksTrue, Marked
  <2> QED
    BY <1>2, <2>2, <2>3, <2>4
<1>6. ASSUME NEW o \in Op, MoveToSubmitting(o) PROVE MarksTrue'
  <2>1. Rename(w.at, "submitting", o)
    BY <1>6 DEF MoveToSubmitting
  <2>2. \A p \in Op : file'["accepted"][p] \in {file["accepted"][p], Absent}
    BY <1>0, <2>1, RenameFacts
  <2> QED
    BY <1>0, <2>2, MarksKept
<1>7. ASSUME NEW o \in Op, ApplyReceipt(o) PROVE MarksTrue'
  <2> DEFINE r == Observed(w.rec, w.reply)
  <2>1. r \in Record /\ r.st = Destination(w.reply)
    BY RunFacts, ObservedFacts DEF Observed
  <2>2. Marked(r, ledger[o])
    BY <1>7, <2>1, AppliedFacts DEF ApplyReceipt, Marked
  <2>3. Write(w.at, o, r)
    BY <1>7 DEF ApplyReceipt
  <2> HIDE DEF r
  <2>4. Marked(r, ledger'[o])
    BY <1>0, <2>2, MarkedStays
  <2>5. \A p \in Op : file'["accepted"][p] = file["accepted"][p] \/ (p = o /\ file'["accepted"][p] = r)
    BY <1>0, <2>1, <2>3, WriteFacts
  <2> QED
    BY <1>0, <2>4, <2>5, MarksKept
<1>8. ASSUME NEW o \in Op, Settle(o) PROVE MarksTrue'
  <2> DEFINE target == Destination(w.reply)
  <2>1. UNCHANGED file \/ SetAside(w.at, o) \/ Rename(w.at, target, o)
    BY <1>8, WorkerEffects DEF BaseInv
  <2>2. w.pc = "settle" /\ o \in w.cur
    BY <1>8 DEF Settle
  <2>3. file[w.at][o].st = target
    BY <2>2 DEF BookInv, Written
  <2>4. target \in Dir
    BY <2>2, AppliedFacts DEF Dir
  <2> HIDE DEF target
  <2>5. CASE SetAside(w.at, o)
    <3>1. \A p \in Op : file'["accepted"][p] \in {file["accepted"][p], Absent}
      BY <1>0, <2>5, SetAsideFacts
    <3> QED
      BY <1>0, <3>1, MarksKept
  <2>6. CASE Rename(w.at, target, o)
    <3>1. \A p \in Op : \/ file'["accepted"][p] \in {file["accepted"][p], Absent}
                        \/ p = o /\ target = "accepted" /\ file'["accepted"][p] = file[w.at][o]
      BY <1>0, <2>4, <2>6, RenameFacts
    <3>2. \A p \in Op : \/ file'["accepted"][p] \in {file["accepted"][p], Absent}
                        \/ file'["accepted"][p].st = "accepted"
      BY <2>3, <3>1
    <3> QED
      BY <1>0, <3>2, MarksKept
  <2> QED
    BY <1>1, <2>1, <2>5, <2>6
<1>9. ASSUME NEW o \in Op, ParkMove(o) PROVE MarksTrue'
  <2>1. \A p \in Op : file'["accepted"][p] \in {file["accepted"][p], Absent}
    BY <1>0, <1>9, RenameFacts DEF ParkMove
  <2> QED
    BY <1>0, <2>1, MarksKept
<1>10. ASSUME NEW o \in Op, ReleaseMove(o) PROVE MarksTrue'
  <2> DEFINE t == ReleaseTarget(file["stalled"][o])
  <2>1. file["stalled"][o].st = t /\ t \in {"accepted", "pending"} /\ Rename("stalled", t, o)
    BY <1>10 DEF ReleaseMove, MarkInv, ReleaseMarked, ReleaseTarget
  <2> HIDE DEF t
  <2>2. \A p \in Op : \/ file'["accepted"][p] = file["accepted"][p]
                      \/ t = "accepted" /\ file'["accepted"][p] = file["stalled"][o]
    BY <1>0, <2>1, RenameFacts
  <2>3. \A p \in Op : file'["accepted"][p] = file["accepted"][p] \/ file'["accepted"][p].st = "accepted"
    BY <2>1, <2>2
  <2> QED
    BY <1>0, <2>3, MarksKept
<1>11. ASSUME NEW o \in Op, BackoffElapses(o) PROVE MarksTrue'
  <2>1. file["accepted"][o] # Absent
    BY <1>0, <1>11, CommandEffects, AbsentFacts
  <2>2. PICK r \in Record : Write("accepted", o, r) /\ r.st = file["accepted"][o].st
    BY <1>0, <1>11, CommandEffects
  <2>3. \A p \in Op : file'["accepted"][p] = file["accepted"][p] \/ (p = o /\ file'["accepted"][p] = r)
    BY <1>0, <2>2, WriteFacts
  <2> QED
    BY <1>0, <2>1, <2>2, <2>3, MarksKept DEF In
<1>12. UNCHANGED vars => UNCHANGED file
  BY DEF vars
<1> QED
  BY <1>1, <1>3, <1>4, <1>5, <1>6, <1>7, <1>8, <1>9, <1>10, <1>11, <1>12, FileSteps

\* Only the command moves what is parked, and it marks before it moves.
LEMMA NextReleaseMarked ==
  ASSUME BaseInv, BookInv, MarkInv, [Next]_vars, Acceptor = {}
  PROVE  ReleaseMarked'
<1>0. /\ FileType /\ {"stalled", "accepted"} \subseteq Dir /\ cmd.half \subseteq Op /\ Exclusive /\ ReleaseMarked /\ TypeOK
      /\ cmd \in [kind : {"none", "quarantine", "release"}, todo : SUBSET Op, half : SUBSET Op]
  BY RunFacts DEF MarkInv, BaseInv, TypeOK
<1>1. CASE Begin \/ WorkerStep \/ CrashWorker
  <2>1. UNCHANGED cmd /\ (w.pc # "off" \/ lock = "free")
    BY <1>1 DEF Begin, WorkerStep, CrashWorker, RecoverAborts, RecoverDone, MigrateDone, JobsDone,
       NextDirectory, LedgerReady, Finish, RequestFails, RecoverSubmitting, MigrateRetry,
       EnqueueFromJob, SkipReconciled, Defer, ReconcileAborts, Reconcile, MoveToSubmitting,
       LookupFound, LookupNotFound, Submit, SubmitAnswered, SubmitFails, ApplyReceipt, Settle,
       RecordError, others
  <2>2. cmd'.kind = "none"
    BY <1>0, <2>1 DEF Exclusive
  <2> QED
    BY <2>2 DEF ReleaseMarked
<1>2. CASE CommandDone \/ CrashCommand \/ \E S \in SUBSET Op : Quarantine(S) \/ Release(S)
  <2>1. cmd'.half = {}
    BY <1>2 DEF CommandDone, CrashCommand, NoCommand, Quarantine, Release
  <2> QED
    BY <2>1 DEF ReleaseMarked
<1>3. ASSUME NEW o \in Op, ParkMove(o) \/ ParkMark(o) PROVE ReleaseMarked'
  <2>1. cmd'.kind = "quarantine"
    BY <1>0, <1>3 DEF ParkMove, ParkMark
  <2> QED
    BY <2>1 DEF ReleaseMarked
<1>4. ASSUME NEW o \in Op, ReleaseMark(o) PROVE ReleaseMarked'
  <2>1. cmd'.half = {o}
    BY <1>0, <1>4 DEF ReleaseMark
  <2>2. PICK r \in Record : /\ Write("stalled", o, r) /\ r.rc = file["stalled"][o].rc
                            /\ r.st = ReleaseTarget(file["stalled"][o])
    BY <1>0, <1>4, CommandEffects
  <2>3. file'["stalled"][o] = r
    BY <1>0, <2>2, WriteFacts
  <2>4. r.st = ReleaseTarget(r)
    BY <2>2 DEF ReleaseTarget
  <2> QED
    BY <2>1, <2>3, <2>4 DEF ReleaseMarked, ReleaseTarget
<1>5. ASSUME NEW o \in Op, ReleaseMove(o) PROVE ReleaseMarked'
  <2>1. cmd'.half = {}
    BY <1>0, <1>5 DEF ReleaseMove
  <2> QED
    BY <2>1 DEF ReleaseMarked
<1>6. ASSUME NEW o \in Op, BackoffElapses(o) PROVE ReleaseMarked'
  <2>1. PICK r \in Record : Write("accepted", o, r)
    BY <1>0, <1>6, CommandEffects
  <2>2. \A p \in Op : file'["stalled"][p] = file["stalled"][p]
    BY <1>0, <2>1, WriteFacts
  <2>3. UNCHANGED cmd
    BY <1>6 DEF BackoffElapses, others
  <2> QED
    BY <1>0, <2>2, <2>3 DEF ReleaseMarked, ReleaseTarget
<1>7. CASE UNCHANGED <<cmd, file>>
  BY <1>0, <1>7 DEF ReleaseMarked, ReleaseTarget
<1>8. AcceptStep \/ ServerStep \/ UNCHANGED vars => UNCHANGED <<cmd, file>>
  BY DEF AcceptStep, ServerStep, ServerRecords, ServerAdvances, ServerDecides, vars, others
<1> QED
  BY <1>1, <1>2, <1>3, <1>4, <1>5, <1>6, <1>7, <1>8 DEF Next, CommandStep

\* The hand is filled from the record of accepted, and the receipt is the ledger's word.
LEMMA NextHandMarked ==
  ASSUME BaseInv, BookInv, MarkInv, [Next]_vars, Acceptor = {}
  PROVE  HandMarked'
<1>0. /\ FileType /\ w \in Run /\ w.cur \subseteq Op /\ w.todo \subseteq Op /\ TypeOK /\ HandMarked /\ MarksTrue
      /\ Pass[w.phase] \in Dir /\ OneInHand
  BY RunFacts DEF MarkInv, BaseInv
<1>1. ASSUME w'.cur = {} \/ w'.at = "submitting" PROVE HandMarked'
  BY <1>1 DEF HandMarked
<1>2. ASSUME w'.cur = w.cur, w'.at = w.at, w'.rec = w.rec, w'.reply = w.reply,
             w'.pc \in {"apply", "settle"} => w.pc \in {"apply", "settle"}
      PROVE  HandMarked'
  BY <1>0, <1>2, MarkedStays DEF HandMarked
<1>3. ASSUME NEW o \in Op, Reconcile(o) PROVE HandMarked'
  <2> DEFINE d == Pass[w.phase]
  <2>1. o \in w.todo /\ o \notin w.seen /\ o \notin Unreadable
    BY <1>3 DEF Reconcile, NextInOrder, AlreadyReconciled, Readable
  <2>2. In(d, o)
    BY <2>1 DEF BookInv, Listed
  <2>3. w'.cur = {o} /\ w'.at = d /\ w'.pc \in {"rename", "lookup"}
    BY <1>0, <1>3 DEF Reconcile, Run
  <2>4. file[d][o].st # "pending" => w'.rec = file[d][o]
    BY <1>0, <1>3 DEF Reconcile, Run
  <2> HIDE DEF d
  <2>5. CASE d = "accepted"
    <3>1. Marked(file[d][o], ledger[o])
      BY <1>0, <2>1, <2>2, <2>5 DEF MarksTrue
    <3>2. w'.rec = file[d][o]
      BY <2>4, <3>1 DEF Marked
    <3>3. Marked(w'.rec, ledger'[o])
      BY <1>0, <3>1, <3>2, MarkedStays
    <3> QED
      BY <2>3, <3>3 DEF HandMarked
  <2> QED
    BY <2>3, <2>5 DEF HandMarked
<1>4. ASSUME NEW o \in Op, LookupFound(o) \/ SubmitAnswered(o) PROVE HandMarked'
  <2>1. o \in w.cur /\ w'.cur = w.cur /\ w'.at = w.at /\ w'.rec = w.rec /\ w'.reply = ledger[o] /\ UNCHANGED ledger
    BY <1>0, <1>4 DEF LookupFound, SubmitAnswered, Run, others
  <2> QED
    BY <1>0, <2>1 DEF HandMarked, OneInHand
<1>5. ASSUME NEW o \in Op, MoveToSubmitting(o) \/ Settle(o) \/ RecordError(o) PROVE HandMarked'
  <2>1. w'.cur = {} \/ w'.at = "submitting"
    BY <1>0, <1>5 DEF MoveToSubmitting, Settle, RecordError, Run
  <2> QED
    BY <1>1, <2>1
<1>6. CASE Begin \/ RecoverDone \/ MigrateDone \/ JobsDone \/ NextDirectory \/ LedgerReady
           \/ (\E isDown \in BOOLEAN : RequestFails(isDown))
           \/ \E o \in Op : SkipReconciled(o) \/ Defer(o) \/ LookupNotFound(o) \/ Submit(o) \/ ApplyReceipt(o)
                            \/ \E isDown \in BOOLEAN : SubmitFails(o, isDown)
  <2>1. /\ w'.cur = w.cur /\ w'.at = w.at /\ w'.rec = w.rec /\ w'.reply = w.reply
        /\ w'.pc \in {"apply", "settle"} => w.pc \in {"apply", "settle"}
    BY <1>0, <1>6 DEF Begin, RecoverDone, MigrateDone, JobsDone, NextDirectory, LedgerReady, RequestFails, Fail,
       SkipReconciled, Defer, LookupNotFound, Submit, ApplyReceipt, SubmitFails, Run
  <2> QED
    BY <1>2, <2>1
<1>7. CASE RecoverAborts \/ Finish \/ CrashWorker \/ \E o \in Op : ReconcileAborts(o)
  <2>1. w'.cur = {}
    BY <1>7 DEF RecoverAborts, Finish, CrashWorker, ReconcileAborts, EndRun, NoRun
  <2> QED
    BY <1>1, <2>1
<1>8. CASE UNCHANGED w
  BY <1>2, <1>8
<1>9. ASSUME NEW o \in Op, RecoverSubmitting(o) \/ MigrateRetry(o) \/ EnqueueFromJob(o) \/ BackoffElapses(o)
      PROVE  UNCHANGED w
  BY <1>9 DEF RecoverSubmitting, MigrateRetry, EnqueueFromJob, BackoffElapses
<1>10. ASSUME \/ CommandStep \/ CrashCommand \/ AcceptStep \/ ServerStep \/ UNCHANGED vars
              \/ \E S \in SUBSET Op : Quarantine(S) \/ Release(S)
       PROVE  UNCHANGED w
  BY <1>10 DEF CommandStep, CommandDone, ParkMove, ParkMark, ReleaseMark, ReleaseMove, CrashCommand, AcceptStep,
     StartAccept, ProbeState, WriteAccepted, ServerStep, ServerRecords, ServerAdvances, ServerDecides,
     Quarantine, Release, vars
<1> QED
  BY <1>3, <1>4, <1>5, <1>6, <1>7, <1>8, <1>9, <1>10 DEF Next, WorkerStep

LEMMA NextMark == ASSUME Acceptor = {} PROVE BaseInv /\ BookInv /\ MarkInv /\ [Next]_vars => MarkInv'
BY NextMarks, NextReleaseMarked, NextHandMarked DEF MarkInv

\* Only settling counts a delivery; a receipt that leads to another local state than the
\* record's leads out of the directory the record is in.
LEMMA SettleMoves ==
  ASSUME BaseInv, BookInv, MarkInv, NEW o \in Op, Settle(o), Transitioned(w.rec, w.reply)
  PROVE  \E d \in Dir : In(d, o) /\ ~In(d, o)'
<1>a. PICK d \in Dir, t \in Dir : d = w.at /\ t = Destination(w.reply)
  BY RunFacts, DestinationFacts DEF Dir
<1>0. FileType /\ d \in {"pending", "submitting", "accepted"} /\ In(d, o) /\ w.pc = "settle" /\ o \in w.cur
  BY <1>a, RunFacts DEF BookInv, HandHeld, Settle
<1>1. t \in {"accepted", "completed", "rejected"} /\ t # w.rec.st
  BY <1>a, <1>0, AppliedFacts DEF Transitioned
<1>2. d # t
  <2> SUFFICES ASSUME d = "accepted", t = "accepted" PROVE FALSE
    BY <1>0, <1>1
  <2>1. Marked(w.rec, w.reply)
    BY <1>a, <1>0 DEF MarkInv, HandMarked
  <2>2. w.reply \notin {"committed", "rejected"}
    BY <1>a DEF Destination
  <2> QED
    BY <1>1, <2>1, <2>2 DEF Marked
<1>3. SetAside(d, o) \/ Rename(d, t, o)
  BY <1>a, <1>2 DEF Settle, SettleFile
<1>4. ~In(d, o)'
  BY <1>0, <1>2, <1>3, SetAsideFacts, RenameFacts DEF In
<1> QED
  BY <1>0, <1>4

Moved == \A o \in Op : o \in status'.delivered \ status.delivered => \E d \in Dir : In(d, o) /\ ~In(d, o)'

LEMMA NextMoved == ASSUME BaseInv, BookInv, MarkInv, [Next]_vars PROVE Moved
<1>0. status \in Counts
  BY DEF BaseInv, TypeOK
<1>1. ASSUME status'.delivered \subseteq status.delivered PROVE Moved
  BY <1>1 DEF Moved
<1>2. ASSUME NEW o \in Op, Settle(o) PROVE Moved
  <2>1. CASE Transitioned(w.rec, w.reply)
    <3>1. status'.delivered = status.delivered \cup {o}
      BY <1>0, <1>2, <2>1 DEF Settle, Counts
    <3> QED
      BY <1>2, <2>1, <3>1, SettleMoves DEF Moved
  <2>2. CASE ~Transitioned(w.rec, w.reply)
    <3>1. status'.delivered = status.delivered
      BY <1>0, <1>2, <2>2 DEF Settle, Counts
    <3> QED
      BY <1>1, <3>1
  <2> QED
    BY <2>1, <2>2
<1>3. CASE Begin
  <2>1. status'.delivered = {}
    BY <1>3 DEF Begin, NoCounts
  <2> QED
    BY <1>1, <2>1
<1>4. ASSUME NEW o \in Op, Defer(o) \/ RecordError(o) PROVE Moved
  <2>1. status'.delivered = status.delivered
    BY <1>0, <1>4 DEF Defer, RecordError, Counts
  <2> QED
    BY <1>1, <2>1
<1>5. \/ UNCHANGED status \/ Begin \/ \E o \in Op : Defer(o) \/ RecordError(o) \/ Settle(o)
  BY DEF Next, vars, WorkerStep, CrashWorker, RecoverAborts, RecoverDone, MigrateDone, JobsDone, NextDirectory,
     LedgerReady, Finish, RequestFails, RecoverSubmitting, MigrateRetry, EnqueueFromJob, SkipReconciled,
     ReconcileAborts, Reconcile, MoveToSubmitting, LookupFound, LookupNotFound, Submit, SubmitAnswered,
     SubmitFails, ApplyReceipt, Quarantine, Release, CommandStep, CommandDone, ParkMove,
     ParkMark, ReleaseMark, ReleaseMove, CrashCommand, AcceptStep, StartAccept, ProbeState, WriteAccepted,
     ServerStep, ServerRecords, ServerAdvances, ServerDecides, BackoffElapses, others
<1> QED
  BY <1>1, <1>2, <1>3, <1>4, <1>5

\* While no accept overlaps, what status.json counts as delivered has left a directory
\* (memoryDelivered, as the README describes it).
THEOREM DeliveredIsMoved == ASSUME Acceptor = {} PROVE Spec => DeliveredMoved
<1>1. BaseInv /\ BookInv /\ MarkInv /\ [Next]_vars => BaseInv' /\ BookInv' /\ MarkInv'
  BY NextBase, NextBook, NextMark
<1>2. BaseInv /\ BookInv /\ MarkInv /\ [Next]_vars => [Moved]_vars
  BY NextMoved
<1>3. DeliveredMoved <=> [][Moved]_vars
  BY DEF DeliveredMoved, Moved
<1> QED
  BY <1>1, <1>2, <1>3, InitBase, InitBook, InitMark, PTL DEF Spec
=============================================================================
