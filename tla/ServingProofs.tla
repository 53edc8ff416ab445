----------------------------- MODULE ServingProofs -----------------------------
(***************************************************************************)
(* Theorems of PromptSnapshot and of Bridge: what pk context reads, and    *)
(* the server that serves and publishes it, for any number of committers,  *)
(* readers and pages.                                                      *)
(***************************************************************************)
EXTENDS PromptSnapshot, Bridge, FiniteSetTheorems, WellFoundedInduction, TLAPS

-----------------------------------------------------------------------------
(* Prompt snapshots: the inductive invariant adds two facts to the type of the state.  A
   process that writes or publishes a generation has its file on disk, and, as long as
   nothing failed, a torn file has a writer. *)

FileInHand ==
  \A c \in Committer :
    proc[c].at \in {"write", "publish"} => gens[ViewOf(c)] # "none"

TornHasWriter ==
  fails = 0 => \A v \in View :
    gens[v] = "torn" => \E c \in Committer : At(c, "write") /\ ViewOf(c) = v

Inv == TypeOK /\ Findable /\ FileInHand /\ TornHasWriter

LEMMA InitInv == Init => Inv
<1> SUFFICES ASSUME Init PROVE Inv
  OBVIOUS
<1> USE DEF Init
<1>1. TypeOK
  BY DEF TypeOK, View, NoPage
<1>2. Findable
  BY DEF Findable
<1>3. FileInHand
  BY DEF FileInHand
<1>4. TornHasWriter
  BY DEF TornHasWriter
<1> QED BY <1>1, <1>2, <1>3, <1>4 DEF Inv

\* Each action keeps the type of the state.
LEMMA NextType == TypeOK /\ [Next]_vars => TypeOK'
<1> SUFFICES ASSUME TypeOK, [Next]_vars PROVE TypeOK'
  OBVIOUS
<1> USE DEF TypeOK, View, stored, At, Goto, ViewOf
<1>1. ASSUME NEW c \in Committer, OpenStore(c) PROVE TypeOK'
  <2>1. PICK new \in {NoPage} \cup {{p} : p \in WikiPage} :
          proc' = [proc EXCEPT ![c] = [at   |-> IF new \subseteq wiki THEN "probe" ELSE "add",
                                       page |-> new, view |-> wiki, runs |-> proc[c].runs + 1]]
    BY <1>1 DEF OpenStore
  <2>2. new \in SUBSET WikiPage
    BY DEF NoPage
  <2> QED BY <1>1, <2>1, <2>2 DEF OpenStore
<1>2. ASSUME NEW c \in Committer, Upsert(c) PROVE TypeOK'
  <2>1. proc[c].page \cup proc[c].view \in SUBSET WikiPage /\ wiki \cup proc[c].page \in SUBSET WikiPage
    OBVIOUS
  <2>2. proc' = [proc EXCEPT ![c] = [proc[c] EXCEPT !.at = "probe",
                                                   !.view = @ \cup proc[c].page]]
    BY <1>2 DEF Upsert
  <2>3. proc'[c] = [at |-> "probe", page |-> proc[c].page,
                    view |-> proc[c].view \cup proc[c].page, runs |-> proc[c].runs]
    BY <2>2
  <2>4. \A d \in Committer : d # c => proc'[d] = proc[d]
    BY <2>2
  <2>5. DOMAIN proc' = Committer /\ proc' = [d \in Committer |-> proc'[d]]
    BY <2>2
  <2>6. proc' \in [Committer -> [at : {"idle", "add", "probe", "create", "write", "publish"},
                                page : SUBSET WikiPage, view : SUBSET WikiPage, runs : Nat]]
    BY <2>1, <2>3, <2>4, <2>5
  <2> QED BY <1>2, <2>1, <2>6 DEF Upsert
<1>3. ASSUME NEW c \in Committer, Probe(c) PROVE TypeOK'
  BY <1>3 DEF Probe
<1>4. ASSUME NEW c \in Committer, Create(c) PROVE TypeOK'
  BY <1>4 DEF Create
<1>5. ASSUME NEW c \in Committer, CreateFails(c) PROVE TypeOK'
  BY <1>5 DEF CreateFails
<1>6. ASSUME NEW c \in Committer, WriteGeneration(c) PROVE TypeOK'
  BY <1>6 DEF WriteGeneration
<1>7. ASSUME NEW c \in Committer, Publish(c) PROVE TypeOK'
  BY <1>7 DEF Publish
<1>8. ASSUME NEW c \in Committer, Fail(c) PROVE TypeOK'
  BY <1>8 DEF Fail
<1>9. ASSUME NEW r \in Reader, ReadPointer(r) PROVE TypeOK'
  BY <1>9 DEF ReadPointer
<1>10. ASSUME NEW r \in Reader, ReadGeneration(r) PROVE TypeOK'
  BY <1>10 DEF ReadGeneration
<1>11. CASE UNCHANGED vars
  BY <1>11 DEF vars
<1> QED
  BY <1>1, <1>2, <1>3, <1>4, <1>5, <1>6, <1>7, <1>8, <1>9, <1>10, <1>11 DEF Next, Commit

\* A generation's file is never removed, and never written once it is whole.
LEMMA GenerationsGrow ==
  ASSUME TypeOK, [Next]_vars, NEW v \in View
  PROVE  /\ gens[v] # "none" => gens'[v] # "none"
         /\ gens[v] = "whole" /\ FileInHand => gens'[v] = "whole"
<1> USE DEF TypeOK, stored, At, ViewOf
<1>1. ASSUME NEW c \in Committer, Create(c)
      PROVE  gens[v] # "none" => gens'[v] = gens[v]
  BY <1>1 DEF Create
<1>2. ASSUME NEW c \in Committer, WriteGeneration(c)
      PROVE  gens'[v] = gens[v] \/ gens'[v] = "whole"
  BY <1>2 DEF WriteGeneration
<1>3. CASE gens' = gens
  BY <1>3
<1> QED
  BY <1>1, <1>2, <1>3
  DEF Next, Commit, vars, OpenStore, Upsert, Probe, CreateFails, Publish, Fail,
      ReadPointer, ReadGeneration

LEMMA NextFindable == Inv /\ [Next]_vars => (Findable /\ FileInHand)'
<1> SUFFICES ASSUME Inv, [Next]_vars PROVE (Findable /\ FileInHand)'
  OBVIOUS
<1>a. TypeOK /\ Findable /\ FileInHand
  BY DEF Inv
<1>b. TypeOK'
  BY <1>a, NextType
<1>c. \A v \in View : gens[v] # "none" => gens'[v] # "none"
  BY <1>a, GenerationsGrow
<1>1. Findable'
  <2>1. ASSUME NEW c \in Committer, Publish(c) PROVE Findable'
    BY <1>a, <1>c, <2>1 DEF Publish, Findable, FileInHand, TypeOK, At, ViewOf
  <2>2. ASSUME NEW r \in Reader, ReadPointer(r) PROVE Findable'
    BY <1>a, <1>c, <2>2 DEF ReadPointer, Findable, TypeOK, stored
  <2>3. ASSUME NEW r \in Reader, ReadGeneration(r) PROVE Findable'
    BY <1>a, <1>c, <2>3 DEF ReadGeneration, Findable, TypeOK, stored
  <2>4. CASE UNCHANGED <<current, read>>
    BY <1>a, <1>c, <2>4 DEF Findable, TypeOK
  <2> QED
    BY <2>1, <2>2, <2>3, <2>4
    DEF Next, Commit, vars, stored, OpenStore, Upsert, Probe, Create, CreateFails,
        WriteGeneration, Fail
<1>2. FileInHand'
  <2> SUFFICES ASSUME NEW d \in Committer, proc'[d].at \in {"write", "publish"}
               PROVE  gens'[proc'[d].view] # "none"
    BY DEF FileInHand, ViewOf
  <2> USE <1>a, <1>b, <1>c DEF TypeOK, At, Goto, ViewOf, stored
  <2>1. ASSUME NEW c \in Committer, OpenStore(c) PROVE gens'[proc'[d].view] # "none"
    <3>1. proc'[d] = proc[d]
      BY <2>1 DEF OpenStore
    <3> QED BY <2>1, <3>1 DEF FileInHand
  <2>2. ASSUME NEW c \in Committer, Upsert(c) PROVE gens'[proc'[d].view] # "none"
    BY <2>2 DEF Upsert, FileInHand
  <2>3. ASSUME NEW c \in Committer, Probe(c) PROVE gens'[proc'[d].view] # "none"
    BY <2>3 DEF Probe, FileInHand
  <2>4. ASSUME NEW c \in Committer, Create(c) PROVE gens'[proc'[d].view] # "none"
    BY <2>4 DEF Create, FileInHand
  <2>5. ASSUME NEW c \in Committer, CreateFails(c) PROVE gens'[proc'[d].view] # "none"
    BY <2>5 DEF CreateFails, FileInHand
  <2>6. ASSUME NEW c \in Committer, WriteGeneration(c) PROVE gens'[proc'[d].view] # "none"
    BY <2>6 DEF WriteGeneration, FileInHand
  <2>7. ASSUME NEW c \in Committer, Publish(c) PROVE gens'[proc'[d].view] # "none"
    BY <2>7 DEF Publish, FileInHand
  <2>8. ASSUME NEW c \in Committer, Fail(c) PROVE gens'[proc'[d].view] # "none"
    BY <2>8 DEF Fail, FileInHand
  <2>9. CASE UNCHANGED proc
    BY <2>9 DEF FileInHand
  <2> QED
    BY <2>1, <2>2, <2>3, <2>4, <2>5, <2>6, <2>7, <2>8, <2>9
    DEF Next, Commit, vars, ReadPointer, ReadGeneration
<1> QED BY <1>1, <1>2

LEMMA NextTorn == Inv /\ [Next]_vars => TornHasWriter'
<1> SUFFICES ASSUME Inv, [Next]_vars, fails' = 0, NEW v \in View, gens'[v] = "torn"
             PROVE  \E c \in Committer : proc'[c].at = "write" /\ proc'[c].view = v
  BY DEF TornHasWriter, At, ViewOf
<1> USE DEF Inv, TypeOK, At, Goto, ViewOf, stored
<1>1. ASSUME NEW c \in Committer, Create(c)
      PROVE  \E d \in Committer : proc'[d].at = "write" /\ proc'[d].view = v
  <2>1. CASE v = proc[c].view
    BY <1>1, <2>1 DEF Create
  <2>2. CASE v # proc[c].view
    <3>1. PICK d \in Committer : proc[d].at = "write" /\ proc[d].view = v
      BY <1>1, <2>2 DEF Create, TornHasWriter
    <3>2. proc'[d] = proc[d]
      BY <1>1, <2>2, <3>1 DEF Create
    <3> QED BY <3>1, <3>2
  <2> QED BY <2>1, <2>2
<1>2. ASSUME NEW c \in Committer, WriteGeneration(c)
      PROVE  \E d \in Committer : proc'[d].at = "write" /\ proc'[d].view = v
  <2>1. v # proc[c].view /\ gens[v] = "torn"
    BY <1>2 DEF WriteGeneration
  <2>2. PICK d \in Committer : proc[d].at = "write" /\ proc[d].view = v
    BY <1>2, <2>1 DEF WriteGeneration, TornHasWriter
  <2>3. proc'[d] = proc[d]
    BY <1>2, <2>1, <2>2 DEF WriteGeneration
  <2> QED BY <2>2, <2>3
<1>3. ASSUME NEW c \in Committer, Fail(c) PROVE FALSE
  BY <1>3 DEF Fail
<1>4. ASSUME UNCHANGED <<gens, fails>>,
             \A d \in Committer : proc[d].at = "write" => proc'[d] = proc[d]
      PROVE  \E d \in Committer : proc'[d].at = "write" /\ proc'[d].view = v
  BY <1>4 DEF TornHasWriter
<1>5. ASSUME NEW c \in Committer, OpenStore(c) PROVE
        \A d \in Committer : proc[d].at = "write" => proc'[d] = proc[d]
  BY <1>5 DEF OpenStore
<1>6. ASSUME NEW c \in Committer, Upsert(c) PROVE
        \A d \in Committer : proc[d].at = "write" => proc'[d] = proc[d]
  BY <1>6 DEF Upsert
<1>7. ASSUME NEW c \in Committer, Probe(c) \/ CreateFails(c) \/ Publish(c) PROVE
        \A d \in Committer : proc[d].at = "write" => proc'[d] = proc[d]
  BY <1>7 DEF Probe, CreateFails, Publish
<1>8. ASSUME UNCHANGED proc PROVE
        \A d \in Committer : proc[d].at = "write" => proc'[d] = proc[d]
  BY <1>8
<1>9. \/ UNCHANGED <<gens, fails>>
      \/ \E c \in Committer : Create(c) \/ WriteGeneration(c) \/ Fail(c)
  BY DEF Next, Commit, vars, OpenStore, Upsert, Probe, CreateFails, Publish, ReadPointer,
         ReadGeneration
<1> QED
  BY <1>1, <1>2, <1>3, <1>4, <1>5, <1>6, <1>7, <1>8, <1>9
  DEF Next, Commit, vars, ReadPointer, ReadGeneration

LEMMA NextInv == Inv /\ [Next]_vars => Inv'
BY NextType, NextFindable, NextTorn DEF Inv

LEMMA Invariant == Spec => []Inv
BY InitInv, NextInv, PTL DEF Spec

\* The snapshots of one scope keep their types, however many processes commit.
THEOREM TypeCorrect == Spec => []TypeOK
<1>1. Inv => TypeOK
  BY DEF Inv
<1> QED BY <1>1, Invariant, PTL

\* However commits interleave, die or fail, the pointer never names a generation
\* that is not on disk, and neither does the pointer a reader still follows.
THEOREM PointerFindable == Spec => []Findable
<1>1. Inv => Findable
  BY DEF Inv
<1> QED BY <1>1, Invariant, PTL

\* A whole generation is never written again, however many processes commit the
\* same entries.
THEOREM GenerationsImmutable == Spec => Immutable
<1>1. Inv /\ [Next]_vars => [\A v \in View : gens[v] = "whole" => gens'[v] = "whole"]_vars
  BY GenerationsGrow DEF Inv
<1> QED BY <1>1, Invariant, PTL DEF Spec, Immutable

\* Before anything fails, the pointer names a generation that is whole or that a
\* process is still writing.
THEOREM PointerWholeOrInWriting == Spec => []WholeOrInWriting
<1>1. Inv => WholeOrInWriting
  BY DEF Inv, TypeOK, Findable, TornHasWriter, WholeOrInWriting
<1> QED BY <1>1, Invariant, PTL

-----------------------------------------------------------------------------
(* The server.  As long as no change was announced to nobody, either a page does not parse,
   or the readiness shows a failure, or a change is still announced, or the snapshot about
   to be published comes with a true report, or what is served is what is on disk unless
   the counts say that it is not.  Why the counts can say so: a page that is as it was at
   the last scan is in memory as it is on disk, for a version never comes back, but a page
   that the server wrote itself, and that is gone, may be left. *)

ServerType ==
  /\ disk \in [Page -> Nat] /\ mem \in [Page -> Nat] /\ source \in [Page -> Nat] /\ torn \in SUBSET Page
  /\ raised \in Seq({"changed", "failed"}) /\ wikiEvents \in Seq({"changed", "failed", "started"})
  /\ task = [at |-> task.at, report |-> task.report]
  /\ readiness = [fresh |-> readiness.fresh, watcher |-> readiness.watcher]
  /\ events \in Nat

Versions ==
  /\ \A p \in Page : disk[p] <= events /\ source[p] <= events
  /\ \A p \in Page : disk[p] = source[p] /\ disk[p] # 0 /\ p \notin torn => mem[p] = disk[p]

Holds(queue, event) == \E i \in DOMAIN queue : queue[i] = event
Announced == Holds(raised, "changed") \/ Holds(wikiEvents, "changed") \/ TaskAt("debounce") \/ TaskAt("scan")
Failing   == readiness.watcher \notin {"initializing", "active"}
Reported  == TaskAt("publish") /\ (Fresh(task.report) => mem = disk)
Serving   == TaskAt("recv") /\ (readiness.fresh => mem = disk /\ published = disk)

CaughtUp == forgotten \/ torn # {} \/ Failing \/ Announced \/ Reported \/ Serving

ServingInv == ServerType /\ Versions /\ CaughtUp

\* Queues: what is put in and what is taken out.
LEMMA PutIn ==
  ASSUME NEW S, NEW q \in Seq(S), NEW e \in S
  PROVE  /\ Append(q, e) \in Seq(S) /\ Holds(Append(q, e), e)
         /\ \A d : Holds(q, d) => Holds(Append(q, e), d)
<1>1. Len(q) \in Nat /\ DOMAIN q = 1 .. Len(q)
  OBVIOUS
<1>2. /\ Append(q, e) \in Seq(S) /\ DOMAIN Append(q, e) = 1 .. Len(q) + 1
      /\ Append(q, e)[Len(q) + 1] = e /\ \A i \in 1 .. Len(q) : Append(q, e)[i] = q[i]
  OBVIOUS
<1>3. Len(q) + 1 \in 1 .. Len(q) + 1 /\ 1 .. Len(q) \subseteq 1 .. Len(q) + 1
  BY <1>1
<1> QED
  BY <1>1, <1>2, <1>3 DEF Holds

LEMMA TakenOut ==
  ASSUME NEW S, NEW q \in Seq(S), q # <<>>
  PROVE  /\ Head(q) \in S /\ Tail(q) \in Seq(S)
         /\ \A d : Holds(q, d) => d = Head(q) \/ Holds(Tail(q), d)
<1>1. Len(q) \in Nat /\ Len(q) > 0 /\ DOMAIN q = 1 .. Len(q) /\ Head(q) = q[1]
  OBVIOUS
<1>2. /\ Tail(q) \in Seq(S) /\ DOMAIN Tail(q) = 1 .. Len(q) - 1
      /\ \A i \in 1 .. Len(q) - 1 : Tail(q)[i] = q[i + 1]
  OBVIOUS
<1>3. ASSUME NEW d, NEW i \in 1 .. Len(q), q[i] = d, d # Head(q) PROVE Holds(Tail(q), d)
  <2>1. i - 1 \in 1 .. Len(q) - 1 /\ i - 1 + 1 = i
    BY <1>1, <1>3
  <2>2. Tail(q)[i - 1] = d
    BY <1>2, <1>3, <2>1
  <2> QED
    BY <1>2, <2>1, <2>2 DEF Holds
<1> QED
  BY <1>1, <1>2, <1>3 DEF Holds

\* The first of some places of a list.
LEMMA FirstPlace ==
  ASSUME NEW n \in Nat, NEW A \in SUBSET (1 .. n), A # {}
  PROVE  (CHOOSE i \in A : \A j \in A : i <= j) \in 1 .. n
<1>1. A \subseteq Nat
  OBVIOUS
<1>2. PICK i \in A : \A k \in A : ~(<<k, i>> \in OpToRel(<, Nat))
  BY <1>1, NatLessThanWellFounded, WFMin
<1>3. \A k \in A : ~(k < i)
  BY <1>1, <1>2 DEF OpToRel
<1>4. \A k \in A : i <= k
  BY <1>1, <1>3
<1> QED
  BY <1>4

\* The counts of a scan add up only if memory holds the pages on disk.
LEMMA CountsTell ==
  ASSUME ServerType, Versions, torn = {}, disk = source,
         Fresh(Report(Cardinality(Present(mem)), Cardinality(Present(disk)), 0))
  PROVE  mem = disk
<1>1. IsFiniteSet(Page) /\ Present(mem) \in SUBSET Page /\ Present(disk) \in SUBSET Page
  BY BridgeAssumption DEF Present
<1>2. IsFiniteSet(Present(mem)) /\ IsFiniteSet(Present(disk))
  BY <1>1, FS_Subset
<1>3. \A p \in Page : disk[p] # 0 => mem[p] = disk[p]
  BY DEF Versions
<1>4. Present(disk) \subseteq Present(mem)
  BY <1>3 DEF Present
<1>5. Cardinality(Present(mem)) \in Nat /\ Cardinality(Present(disk)) \in Nat
  BY <1>2, FS_CardinalityType
<1>6. Cardinality(Present(mem)) + 0 = Cardinality(Present(disk))
  BY DEF Fresh, Report
<1>7. Cardinality(Present(mem)) = Cardinality(Present(disk))
  BY <1>5, <1>6
<1>8. Present(disk) = Present(mem)
  BY <1>2, <1>4, <1>7, FS_Subset
<1>9. \A p \in Page : mem[p] = disk[p]
  BY <1>3, <1>8 DEF Present
<1> QED
  BY <1>9 DEF ServerType

\* A change is put into the queue, or it is announced to nobody.
LEMMA NotifyPutsIn ==
  ASSUME ServerType, Notify
  PROVE  /\ raised' \in Seq({"changed", "failed"})
         /\ forgotten' \/ Holds(raised', "changed")
         /\ forgotten => forgotten'
<1>1. CASE watcher \in {"watching", "active"}
  <2>1. raised' = Append(raised, "changed") /\ forgotten' = forgotten
    BY <1>1 DEF Notify
  <2> QED
    BY <2>1, PutIn DEF ServerType
<1>2. CASE watcher \notin {"watching", "active"}
  BY <1>2 DEF Notify, ServerType
<1> QED
  BY <1>1, <1>2

LEMMA ServerTypeStep ==
  ASSUME ServerType, [BridgeNext]_bridgeVars
  PROVE  ServerType'
<1> DEFINE Pages  == disk \in [Page -> Nat] /\ mem \in [Page -> Nat] /\ source \in [Page -> Nat] /\ torn \in SUBSET Page
           Queues == raised \in Seq({"changed", "failed"}) /\ wikiEvents \in Seq({"changed", "failed", "started"})
           Told   == /\ task = [at |-> task.at, report |-> task.report]
                     /\ readiness = [fresh |-> readiness.fresh, watcher |-> readiness.watcher]
<1>1. ServerType <=> Pages /\ Queues /\ Told /\ events \in Nat
  BY DEF ServerType
<1>2. ServerType' <=> Pages' /\ Queues' /\ Told' /\ events' \in Nat
  BY DEF ServerType
<1>3. ASSUME UNCHANGED <<disk, mem, source, torn>> PROVE Pages'
  BY <1>1, <1>3
<1>4. ASSUME UNCHANGED <<raised, wikiEvents>> PROVE Queues'
  BY <1>1, <1>4
<1>5. ASSUME UNCHANGED <<task, readiness>> PROVE Told'
  BY <1>1, <1>5
<1>6. ASSUME Event PROVE events' \in Nat /\ events' = events + 1
  BY <1>1, <1>6 DEF Event
<1> HIDE DEF Pages, Queues, Told
<1>7. ASSUME NEW p \in Page, NEW version \in {0, events + 1}, NEW parses \in BOOLEAN, Outside(p, version, parses)
      PROVE  ServerType'
  <2>1. version \in Nat
    BY <1>1
  <2>2. Pages'
    BY <1>1, <1>7, <2>1 DEF Outside, Pages
  <2>3. Queues'
    BY <1>1, <1>7, NotifyPutsIn DEF Outside, Queues
  <2> QED
    BY <1>2, <1>5, <1>6, <1>7, <2>2, <2>3 DEF Outside, serving
<1>8. ASSUME NEW d \in compiles, NEW p \in Page, Compile(d, p) PROVE ServerType'
  <2>1. Pages'
    BY <1>1, <1>8 DEF Compile, Pages
  <2>2. Queues'
    BY <1>1, <1>8, NotifyPutsIn DEF Compile, Queues
  <2> QED
    BY <1>2, <1>5, <1>6, <1>8, <2>1, <2>2 DEF Compile, serving
<1>9. ASSUME StartWatching \/ (\E d \in compiles : CompileFails(d)) \/ (\E f \in File : DropFile(f) \/ FillFile(f))
             \/ Inbox \/ UNCHANGED bridgeVars
      PROVE  ServerType'
  <2>1. UNCHANGED <<disk, mem, source, torn, raised, wikiEvents, task, readiness, events>>
    BY <1>9 DEF StartWatching, CompileFails, DropFile, FillFile, Inbox, PassPath, ReadRaw, SendDoc, StartCompile,
       bridgeVars, store, watch, serving, inbox
  <2> QED
    BY <1>1, <1>2, <1>3, <1>4, <1>5, <2>1
<1>10. CASE WatchFails \/ SayStarted \/ PassOn \/ WatcherErrs \/ Overflow
  <2>1. UNCHANGED <<disk, mem, source, torn, task, readiness>> /\ events' \in Nat
    BY <1>1, <1>6, <1>10 DEF WatchFails, SayStarted, PassOn, WatcherErrs, Overflow, store, serving
  <2>2. Queues'
    <3>1. CASE WatchFails
      BY <1>1, <3>1, PutIn DEF WatchFails, Queues
    <3>2. CASE SayStarted
      BY <1>1, <3>2, PutIn DEF SayStarted, Queues
    <3>3. CASE PassOn
      <4>1. Head(raised) \in {"changed", "failed", "started"} /\ Tail(raised) \in Seq({"changed", "failed"})
        BY <1>1, <3>3, TakenOut DEF PassOn, Queues
      <4> QED
        BY <1>1, <3>3, <4>1, PutIn DEF PassOn, Queues
    <3>4. CASE WatcherErrs
      BY <1>1, <3>4, PutIn DEF WatcherErrs, Queues
    <3>5. CASE Overflow
      BY <1>1, <3>5 DEF Overflow, Queues
    <3> QED
      BY <1>10, <3>1, <3>2, <3>3, <3>4, <3>5
  <2> QED
    BY <1>2, <1>3, <1>5, <2>1, <2>2
<1>11. CASE Receive
  <2>1. UNCHANGED <<disk, mem, source, torn, raised, events>> /\ wikiEvents # <<>> /\ wikiEvents' = Tail(wikiEvents)
    BY <1>11 DEF Receive, store
  <2>2. Queues'
    BY <1>1, <2>1, TakenOut DEF Queues
  <2>3. Head(wikiEvents) \in {"changed", "failed", "started"}
    BY <1>1, <2>1, TakenOut DEF Queues
  <2>4. Told'
    <3>1. CASE Head(wikiEvents) = "started"
      BY <1>1, <1>11, <3>1 DEF Receive, SetWatcher, Told
    <3>2. CASE Head(wikiEvents) = "failed"
      BY <1>1, <1>11, <3>2 DEF Receive, SetWatcher, Told
    <3>3. CASE Head(wikiEvents) = "changed"
      BY <1>1, <1>11, <3>3 DEF Receive, Told
    <3> QED
      BY <2>3, <3>1, <3>2, <3>3
  <2> QED
    BY <1>1, <1>2, <1>3, <2>1, <2>2, <2>4
<1>12. CASE Drain
  <2> DEFINE others == {i \in DOMAIN wikiEvents : wikiEvents[i] # "changed"}
             k == CHOOSE i \in others : \A j \in others : i <= j
             n == Len(wikiEvents)
  <2>1. /\ wikiEvents' = IF others = {} THEN <<>> ELSE SubSeq(wikiEvents, k + 1, Len(wikiEvents))
        /\ UNCHANGED <<disk, mem, source, torn, raised, readiness, events>> /\ task' = [task EXCEPT !.at = "scan"]
    BY <1>12 DEF Drain, store
  <2>2. n \in Nat /\ DOMAIN wikiEvents = 1 .. n /\ wikiEvents \in Seq({"changed", "failed", "started"})
    BY <1>1 DEF Queues
  <2>3. others # {} => k \in 1 .. n
    <3>1. others \in SUBSET (1 .. n)
      BY <2>2
    <3> HIDE DEF others, n
    <3> QED
      BY <2>2, <3>1, FirstPlace
  <2> HIDE DEF others, k
  <2>4. wikiEvents' \in Seq({"changed", "failed", "started"})
    <3>1. CASE others = {}
      BY <2>1, <3>1
    <3>2. CASE others # {}
      BY <2>1, <2>2, <2>3, <3>2
    <3> QED
      BY <3>1, <3>2
  <2>5. Queues' /\ Told'
    BY <1>1, <2>1, <2>4 DEF Queues, Told
  <2> QED
    BY <1>1, <1>2, <1>3, <2>1, <2>5
<1>13. CASE Reconcile
  <2>1. Pages'
    BY <1>1, <1>13 DEF Reconcile, Pages
  <2>2. Told'
    BY <1>1, <1>13 DEF Reconcile, Told
  <2> QED
    BY <1>1, <1>2, <1>4, <1>13, <2>1, <2>2 DEF Reconcile, watch
<1>14. CASE ReconcileTorn \/ ReconcileFails \/ PublishSnapshot \/ PublishFails
  <2>1. Told'
    BY <1>1, <1>14 DEF ReconcileTorn, ReconcileFails, PublishSnapshot, PublishFails, SetWatcher, UpdateStore, Waiting, Told
  <2>2. UNCHANGED <<disk, mem, source, torn, raised, wikiEvents>> /\ events' \in Nat
    BY <1>1, <1>6, <1>14 DEF ReconcileTorn, ReconcileFails, PublishSnapshot, PublishFails, store, watch
  <2> QED
    BY <1>2, <1>3, <1>4, <2>1, <2>2
<1> QED
  BY <1>7, <1>8, <1>9, <1>10, <1>11, <1>12, <1>13, <1>14 DEF BridgeNext, Wiki, Serve, EndCompile

\* Versions do not come back: a page written is not as it was at the last scan.
LEMMA VersionsStep ==
  ASSUME ServerType, Versions, [BridgeNext]_bridgeVars
  PROVE  Versions'
<1>1. /\ \A p \in Page : disk[p] \in Nat /\ source[p] \in Nat /\ mem[p] \in Nat
      /\ events \in Nat
  BY DEF ServerType
<1>2. ASSUME UNCHANGED <<disk, mem, source, torn>>, events' \in Nat, events <= events' PROVE Versions'
  BY <1>1, <1>2 DEF Versions
<1>3. ASSUME Event PROVE events' \in Nat /\ events' = events + 1
  BY <1>1, <1>3 DEF Event
<1>4. ASSUME NEW p \in Page, NEW version \in {0, events + 1}, NEW parses \in BOOLEAN, Outside(p, version, parses)
      PROVE  Versions'
  <2>1. /\ disk' = [disk EXCEPT ![p] = version] /\ version # disk[p] /\ UNCHANGED <<mem, source>>
        /\ torn' = IF parses \/ version = 0 THEN torn \ {p} ELSE torn \cup {p}
        /\ events' = events + 1
    BY <1>3, <1>4 DEF Outside
  <2>2. ASSUME NEW q \in Page
        PROVE  /\ disk'[q] <= events' /\ source'[q] <= events'
               /\ disk'[q] = source'[q] /\ disk'[q] # 0 /\ q \notin torn' => mem'[q] = disk'[q]
    <3>1. disk[q] <= events /\ source[q] <= events
      BY DEF Versions
    <3>2. CASE q = p
      <4>1. disk'[q] = version
        BY <2>1, <3>2 DEF ServerType
      <4> QED
        BY <1>1, <2>1, <3>1, <4>1
    <3>3. CASE q # p
      <4>1. disk'[q] = disk[q] /\ (q \notin torn' => q \notin torn)
        BY <2>1, <3>3 DEF ServerType
      <4>2. disk[q] = source[q] /\ disk[q] # 0 /\ q \notin torn => mem[q] = disk[q]
        BY DEF Versions
      <4>3. disk'[q] <= events' /\ source'[q] <= events'
        BY <1>1, <2>1, <3>1, <4>1
      <4> QED
        BY <2>1, <4>1, <4>2, <4>3
    <3> QED
      BY <3>2, <3>3
  <2> QED
    BY <2>2 DEF Versions
<1>5. ASSUME NEW d \in compiles, NEW p \in Page, Compile(d, p) PROVE Versions'
  <2>1. /\ disk' = [disk EXCEPT ![p] = events + 1] /\ mem' = [mem EXCEPT ![p] = events + 1]
        /\ source' = source /\ torn' = torn \ {p} /\ events' = events + 1
    BY <1>3, <1>5 DEF Compile
  <2>2. ASSUME NEW q \in Page
        PROVE  /\ disk'[q] <= events' /\ source'[q] <= events'
               /\ disk'[q] = source'[q] /\ disk'[q] # 0 /\ q \notin torn' => mem'[q] = disk'[q]
    <3>1. disk[q] <= events /\ source[q] <= events
      BY DEF Versions
    <3>2. CASE q = p
      <4>1. disk'[q] = events + 1 /\ mem'[q] = events + 1
        BY <2>1, <3>2 DEF ServerType
      <4> QED
        BY <1>1, <2>1, <3>1, <4>1
    <3>3. CASE q # p
      <4>1. disk'[q] = disk[q] /\ mem'[q] = mem[q] /\ (q \notin torn' => q \notin torn)
        BY <2>1, <3>3 DEF ServerType
      <4>2. disk[q] = source[q] /\ disk[q] # 0 /\ q \notin torn => mem[q] = disk[q]
        BY DEF Versions
      <4>3. disk'[q] <= events' /\ source'[q] <= events'
        BY <1>1, <2>1, <3>1, <4>1
      <4> QED
        BY <2>1, <4>1, <4>2, <4>3
    <3> QED
      BY <3>2, <3>3
  <2> QED
    BY <2>2 DEF Versions
<1>6. CASE Reconcile
  <2>1. /\ source' = disk /\ UNCHANGED <<disk, torn, events>> /\ torn = {}
        /\ mem' = IF disk = source THEN mem ELSE disk
    BY <1>6 DEF Reconcile
  <2>2. ASSUME NEW q \in Page
        PROVE  /\ disk'[q] <= events' /\ source'[q] <= events'
               /\ disk'[q] # 0 => mem'[q] = disk'[q]
    <3>1. disk[q] <= events /\ (disk[q] = source[q] /\ disk[q] # 0 /\ q \notin torn => mem[q] = disk[q])
      BY DEF Versions
    <3> QED
      BY <2>1, <3>1
  <2> QED
    BY <2>2 DEF Versions
<1>7. CASE UNCHANGED <<disk, mem, source, torn, events>>
  BY <1>1, <1>2, <1>7
<1>8. CASE WatchFails \/ WatcherErrs \/ Overflow \/ ReconcileFails \/ PublishFails
  <2>1. UNCHANGED <<disk, mem, source, torn>> /\ events' = events + 1
    BY <1>3, <1>8 DEF WatchFails, WatcherErrs, Overflow, ReconcileFails, PublishFails, store
  <2> QED
    BY <1>1, <1>2, <2>1
<1>9. \/ UNCHANGED <<disk, mem, source, torn, events>> \/ Reconcile
      \/ WatchFails \/ WatcherErrs \/ Overflow \/ ReconcileFails \/ PublishFails
      \/ \E p \in Page, version \in {0, events + 1}, parses \in BOOLEAN : Outside(p, version, parses)
      \/ \E d \in compiles : \E p \in Page : Compile(d, p)
  BY DEF BridgeNext, Wiki, Serve, Inbox, EndCompile, StartWatching, SayStarted, PassOn, Receive, Drain, ReconcileTorn,
     PublishSnapshot, DropFile, FillFile, PassPath, ReadRaw, SendDoc, StartCompile, CompileFails, bridgeVars,
     store, watch, serving, inbox
<1> QED
  BY <1>4, <1>5, <1>6, <1>7, <1>8, <1>9

\* What is announced stays announced until it has been taken in.
LEMMA AnnouncedStays ==
  ASSUME ServerType, Announced, UNCHANGED task, UNCHANGED raised, UNCHANGED wikiEvents
  PROVE  Announced'
BY DEF Announced, TaskAt, Holds

LEMMA CaughtUpStep ==
  ASSUME ServerType, Versions, CaughtUp, [BridgeNext]_bridgeVars
  PROVE  CaughtUp'
<1>1. ServerType'
  BY ServerTypeStep
<1>2. /\ raised \in Seq({"changed", "failed"}) /\ wikiEvents \in Seq({"changed", "failed", "started"})
      /\ task = [at |-> task.at, report |-> task.report]
      /\ readiness = [fresh |-> readiness.fresh, watcher |-> readiness.watcher]
  BY DEF ServerType
\* A step after which a change is announced, or nothing was announced at all.
<1>3. ASSUME forgotten' \/ Holds(raised', "changed") PROVE CaughtUp'
  BY <1>3 DEF CaughtUp, Announced
\* A step that changes nothing but queues, and takes no change out of them.
<1>4. ASSUME UNCHANGED <<disk, mem, published, torn, task, readiness>>, forgotten => forgotten',
             Holds(raised, "changed") \/ Holds(wikiEvents, "changed") =>
               forgotten' \/ Holds(raised', "changed") \/ Holds(wikiEvents', "changed")
      PROVE  CaughtUp'
  <2>1. Announced => forgotten' \/ Announced'
    BY <1>4 DEF Announced, TaskAt
  <2>2. /\ Failing => Failing'
        /\ Reported => Reported'
        /\ Serving => Serving'
    BY <1>4 DEF Failing, Reported, TaskAt, Fresh, Serving
  <2> QED
    BY <1>4, <2>1, <2>2 DEF CaughtUp
<1>5. ASSUME NEW p \in Page, NEW version \in {0, events + 1}, NEW parses \in BOOLEAN, Outside(p, version, parses)
      PROVE  CaughtUp'
  BY <1>3, <1>5, NotifyPutsIn DEF Outside
<1>6. ASSUME NEW d \in compiles, NEW p \in Page, Compile(d, p) PROVE CaughtUp'
  BY <1>3, <1>6, NotifyPutsIn DEF Compile
<1>7. ASSUME StartWatching \/ (\E d \in compiles : CompileFails(d)) \/ (\E f \in File : DropFile(f) \/ FillFile(f))
             \/ Inbox \/ UNCHANGED bridgeVars
      PROVE  CaughtUp'
  <2>1. UNCHANGED <<disk, mem, published, torn, raised, wikiEvents, task, readiness, forgotten>>
    BY <1>7 DEF StartWatching, CompileFails, DropFile, FillFile, Inbox, PassPath, ReadRaw, SendDoc, StartCompile,
       bridgeVars, store, watch, serving, inbox
  <2> QED
    BY <1>4, <2>1
<1>8. CASE WatchFails \/ SayStarted \/ PassOn \/ WatcherErrs \/ Overflow
  <2>1. UNCHANGED <<disk, mem, published, torn, task, readiness>> /\ (forgotten => forgotten')
    BY <1>8 DEF WatchFails, SayStarted, PassOn, WatcherErrs, Overflow, store, serving
  <2>2. ASSUME Holds(raised, "changed") \/ Holds(wikiEvents, "changed")
        PROVE  forgotten' \/ Holds(raised', "changed") \/ Holds(wikiEvents', "changed")
    <3>1. CASE WatchFails
      BY <1>2, <2>2, <3>1, PutIn DEF WatchFails
    <3>2. CASE SayStarted
      BY <1>2, <2>2, <3>2, PutIn DEF SayStarted
    <3>3. CASE PassOn
      <4>1. /\ Head(raised) \in {"changed", "failed", "started"}
            /\ raised' = Tail(raised) /\ wikiEvents' = Append(wikiEvents, Head(raised))
            /\ Holds(raised, "changed") => "changed" = Head(raised) \/ Holds(Tail(raised), "changed")
        BY <1>2, <3>3, TakenOut DEF PassOn
      <4>2. /\ Holds(Append(wikiEvents, Head(raised)), Head(raised))
            /\ Holds(wikiEvents, "changed") => Holds(Append(wikiEvents, Head(raised)), "changed")
        BY <1>2, <4>1, PutIn
      <4> QED
        BY <2>2, <4>1, <4>2
    <3>4. CASE WatcherErrs
      BY <1>2, <2>2, <3>4, PutIn DEF WatcherErrs
    <3>5. CASE Overflow
      BY <3>5 DEF Overflow
    <3> QED
      BY <1>8, <3>1, <3>2, <3>3, <3>4, <3>5
  <2> QED
    BY <1>4, <2>1, <2>2
<1>9. CASE Receive
  <2>1. /\ UNCHANGED <<disk, mem, published, torn, raised>> /\ wikiEvents # <<>> /\ wikiEvents' = Tail(wikiEvents)
        /\ task.at = "recv" /\ (forgotten => forgotten')
    BY <1>9 DEF Receive, store, TaskAt
  <2>2. /\ Head(wikiEvents) \in {"changed", "failed", "started"}
        /\ Holds(wikiEvents, "changed") => "changed" = Head(wikiEvents) \/ Holds(wikiEvents', "changed")
    BY <1>2, <2>1, TakenOut
  <2>3. CASE Head(wikiEvents) = "changed"
    <3>1. task'.at = "debounce"
      BY <1>2, <1>9, <2>3 DEF Receive
    <3> QED
      BY <3>1 DEF CaughtUp, Announced, TaskAt
  <2>4. CASE Head(wikiEvents) = "failed"
    <3>1. readiness'.watcher = "failed"
      BY <1>2, <1>9, <2>4 DEF Receive, SetWatcher
    <3> QED
      BY <3>1 DEF CaughtUp, Failing
  <2>5. CASE Head(wikiEvents) = "started"
    <3>1. /\ readiness'.watcher = "active" /\ readiness'.fresh = readiness.fresh /\ task' = task
          /\ readiness.watcher # "initializing" => forgotten'
      BY <1>2, <1>9, <2>5 DEF Receive, SetWatcher
    <3>2. Announced => Announced'
      BY <2>1, <2>2, <2>5, <3>1 DEF Announced, TaskAt, Holds
    <3>3. Failing => forgotten'
      BY <3>1 DEF Failing
    <3>4. ~Reported /\ (Serving => Serving')
      BY <2>1, <3>1 DEF Reported, TaskAt, Serving
    <3> QED
      BY <2>1, <3>2, <3>3, <3>4 DEF CaughtUp
  <2> QED
    BY <2>2, <2>3, <2>4, <2>5
<1>10. CASE Drain
  <2>1. task'.at = "scan"
    BY <1>2, <1>10 DEF Drain
  <2> QED
    BY <2>1 DEF CaughtUp, Announced, TaskAt
<1>11. CASE Reconcile
  <2> DEFINE report == Report(Cardinality(Present(mem')), Cardinality(Present(disk)), 0)
  <2>1. /\ torn = {} /\ mem' = (IF disk = source THEN mem ELSE disk) /\ disk' = disk
        /\ task' = [at |-> "publish", report |-> report]
    BY <1>11 DEF Reconcile
  <2>2. Fresh(report) => mem' = disk
    <3>1. CASE disk = source
      <4>1. mem' = mem
        BY <2>1, <3>1
      <4>2. Fresh(Report(Cardinality(Present(mem)), Cardinality(Present(disk)), 0)) => mem = disk
        BY <2>1, <3>1, CountsTell
      <4> QED
        BY <4>1, <4>2
    <3>2. CASE disk # source
      BY <2>1, <3>2
    <3> QED
      BY <3>1, <3>2
  <2> HIDE DEF report
  <2>3. task'.at = "publish" /\ task'.report = report
    BY <2>1
  <2>4. Reported'
    BY <2>1, <2>2, <2>3 DEF Reported, TaskAt, Fresh
  <2> QED
    BY <2>4 DEF CaughtUp
<1>12. CASE ReconcileTorn
  BY <1>12 DEF ReconcileTorn, CaughtUp, store
<1>13. CASE ReconcileFails \/ PublishFails
  <2>1. readiness'.watcher \in {"reconcile_failed", "snapshot_publish_failed"}
    BY <1>2, <1>13 DEF ReconcileFails, PublishFails, SetWatcher
  <2> QED
    BY <2>1 DEF CaughtUp, Failing
<1>14. CASE PublishSnapshot
  <2>1. /\ task.at = "publish" /\ published' = mem /\ UNCHANGED <<disk, mem, torn, raised, wikiEvents, forgotten>>
        /\ readiness'.fresh = Fresh(task.report) /\ readiness'.watcher = readiness.watcher
    BY <1>2, <1>14 DEF PublishSnapshot, UpdateStore, TaskAt, watch
  <2>2. Announced => Announced'
    BY <2>1 DEF Announced, TaskAt, Holds
  <2>3. Failing => Failing'
    BY <2>1 DEF Failing
  <2>6. task'.at = "recv"
    BY <1>14 DEF PublishSnapshot, Waiting
  <2>4. Reported => Serving'
    BY <2>1, <2>6 DEF Reported, Serving, TaskAt
  <2>5. ~Serving
    BY <2>1 DEF Serving, TaskAt
  <2> QED
    BY <2>1, <2>2, <2>3, <2>4, <2>5 DEF CaughtUp
<1> QED
  BY <1>5, <1>6, <1>7, <1>8, <1>9, <1>10, <1>11, <1>12, <1>13, <1>14 DEF BridgeNext, Wiki, Serve, EndCompile

LEMMA ServingStart == BridgeInit => ServingInv
<1> SUFFICES ASSUME BridgeInit PROVE ServingInv
  OBVIOUS
<1>1. /\ disk \in [Page -> {0, 1}] /\ torn \subseteq Page /\ source = disk
      /\ mem = [p \in Page |-> IF p \in torn THEN 0 ELSE disk[p]]
      /\ torn = {} => published = mem
      /\ raised = <<>> /\ wikiEvents = <<>> /\ events = 1
      /\ task.at = "recv" /\ task = [at |-> task.at, report |-> task.report]
      /\ readiness = [fresh |-> readiness.fresh, watcher |-> readiness.watcher]
  BY DEF BridgeInit, Present, Waiting
<1>2. ServerType
  BY <1>1 DEF ServerType
<1>3. Versions
  BY <1>1 DEF Versions
<1>4. ASSUME torn = {} PROVE mem = disk /\ published = disk
  <2>1. \A p \in Page : mem[p] = disk[p]
    BY <1>1, <1>4
  <2> QED
    BY <1>1, <1>4, <2>1
<1>5. CaughtUp
  BY <1>1, <1>4 DEF CaughtUp, Serving, TaskAt
<1> QED
  BY <1>2, <1>3, <1>5 DEF ServingInv

\* When the server says ready, nothing waits to be seen, every change was announced and every
\* page parses, then what it serves and what pk context reads are the pages on disk, for any
\* pages, any capacity of the channels and any failures on the way.
THEOREM ReadyMeansServed == BridgeSpec => []ReadyServesDisk
<1>1. ServingInv /\ [BridgeNext]_bridgeVars => ServingInv'
  BY ServerTypeStep, VersionsStep, CaughtUpStep DEF ServingInv
<1>2. ServingInv => ReadyServesDisk
  <2> SUFFICES ASSUME ServingInv, Ready, AtRest, ~forgotten, torn = {} PROVE mem = disk /\ published = disk
    BY DEF ReadyServesDisk
  <2>1. raised = <<>> /\ wikiEvents = <<>> /\ task.at = "recv" /\ readiness.fresh /\ readiness.watcher = "active"
    BY DEF AtRest, TaskAt, Ready
  <2>2. ~Holds(raised, "changed") /\ ~Holds(wikiEvents, "changed")
    BY <2>1 DEF Holds
  <2>3. ~Announced /\ ~Failing /\ ~Reported
    BY <2>1, <2>2 DEF Announced, Failing, Reported, TaskAt
  <2> QED
    BY <2>1, <2>3 DEF ServingInv, CaughtUp, Serving
<1> QED
  BY <1>1, <1>2, ServingStart, PTL DEF BridgeSpec
=============================================================================
