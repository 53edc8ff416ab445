------------------------- MODULE KnowledgeStoreProofs -------------------------
(***************************************************************************)
(* Theorems about KnowledgeStore, for any sets of ids, contents and        *)
(* compiles and any bounds: type correctness, that the content-hash index  *)
(* is never stale, that a page which does not parse costs no entry, that   *)
(* no wake-up is lost (an invariant says where a change is that memory and *)
(* the snapshot do not have yet), and that a content has one page.         *)
(***************************************************************************)
EXTENDS KnowledgeStore, FiniteSetTheorems, TLAPS

Place == {"down", "open", "unwatched", "wait", "scan", "publish"}
Step  == {"idle", "ask", "upsert", "flush", "fill"}
Loop  == [at : Place, todo : SUBSET Id, seen : [Id -> OnDisk]]
Job   == [at : Step, doc : Doc \cup {NoDoc}, id : Id \cup {NoId}, page : Indexed]

\* TypeOK, in parts that the actions change together.
DiskType  == disk \in [Id -> OnDisk] /\ dirty \in BOOLEAN /\ missed \in BOOLEAN
StoreType == /\ mem \in [Id -> Indexed] /\ hashes \in [Doc -> Id \cup {NoId}]
             /\ source \in [Id -> OnDisk]
LoopType  == loop \in Loop
TaskType  == task \in [Task -> Job] /\ \A t \in Task : Formed(task[t])
RestType  == /\ published \in [Id -> Indexed] /\ outside \in SUBSET (Id \X Page)
             /\ foreign \in BOOLEAN /\ raced \in BOOLEAN /\ failed \in SUBSET Id
             /\ stamps \in Nat /\ ingests \in Nat /\ outsides \in Nat /\ faults \in Nat

LEMMA TypeSplit ==
  /\ TypeOK <=> DiskType /\ StoreType /\ LoopType /\ TaskType /\ RestType
  /\ TypeOK' <=> DiskType' /\ StoreType' /\ LoopType' /\ TaskType' /\ RestType'
BY DEF TypeOK, DiskType, StoreType, LoopType, TaskType, RestType, Loop, Job, Place, Step,
       Formed

LEMMA Pages ==
  /\ Absent \in Indexed /\ Absent \in OnDisk /\ Torn \in OnDisk /\ Torn \notin Indexed
  /\ Indexed \subseteq OnDisk /\ Page \subseteq Indexed /\ OnDisk = Indexed \cup {Torn}
  /\ Absent \notin Page
BY DEF Page, Absent, Torn, OnDisk, Indexed

LEMMA PutType ==
  ASSUME DiskType, NEW i \in Id, NEW content \in OnDisk, Put(i, content)
  PROVE  DiskType'
BY DEF DiskType, Put, Announce

LEMMA FillType ==
  ASSUME DiskType, stamps \in Nat, NEW i \in Id, NEW p \in Page, FillFile(i, p)
  PROVE  DiskType' /\ stamps' \in Nat
<1>1. CASE disk[i] = Absent /\ UNCHANGED <<disk, dirty, missed, stamps>>
  BY <1>1 DEF DiskType
<1>2. CASE disk[i] # Absent /\ Put(i, p) /\ UNCHANGED stamps
  BY <1>2, PutType, Pages
<1>3. CASE /\ disk[i] \notin {Absent, Torn} /\ Put(i, [p EXCEPT !.stamp = stamps])
           /\ stamps' = stamps + 1
  <2>1. [p EXCEPT !.stamp = stamps] \in Page
    BY DEF Page
  <2> QED
    BY <1>3, <2>1, PutType, Pages
<1> QED
  BY <1>1, <1>2, <1>3 DEF FillFile

LEMMA ScanType ==
  ASSUME TypeOK, NEW place \in {"open", "scan"}, StartScan(place)
  PROVE  LoopType' /\ missed' \in BOOLEAN /\ foreign' \in BOOLEAN /\ raced' \in BOOLEAN
BY Pages DEF TypeOK, StartScan, LoopType, Loop, NoPage, Place

LEMMA ParsedType ==
  ASSUME NEW files \in [Id -> OnDisk]
  PROVE  /\ Parsed(files) \in [Id -> Indexed]
         /\ Failures(files) = {} => files \in [Id -> Indexed]
BY Pages DEF Parsed, Failures

LEMMA SwapType ==
  ASSUME LoopType, NEW entries \in [Id -> Indexed], SwapIn(entries)
  PROVE  StoreType'
BY DEF SwapIn, StoreType, LoopType, Loop

LEMMA DownType == Down \in Loop /\ \A place \in Place : [Down EXCEPT !.at = place] \in Loop
BY Pages DEF Down, Loop, Place

LEMMA IdleType == Idle \in Job /\ Formed(Idle)
BY Pages DEF Idle, Job, Step, Formed

\* One compile moves on.
LEMMA TaskMoves ==
  ASSUME TaskType, NEW t \in Task, NEW x \in Job, Formed(x), task' = [task EXCEPT ![t] = x]
  PROVE  TaskType'
BY DEF TaskType

LEMMA NewRevisionType == \A i : NewRevision(i) \in Nat
BY DEF NewRevision

-----------------------------------------------------------------------------
(* Type correctness *)

LEMMA TypeInit == Init => TypeOK
<1> SUFFICES ASSUME Init PROVE TypeOK
  OBVIOUS
<1>1. DiskType /\ StoreType
  BY Pages DEF Init, NoPage, DiskType, StoreType
<1>2. LoopType
  BY DownType DEF Init, LoopType
<1>3. TaskType
  BY IdleType DEF Init, TaskType
<1>4. RestType
  BY Pages DEF Init, NoPage, RestType
<1> QED
  BY <1>1, <1>2, <1>3, <1>4, TypeSplit

\* The server's own steps.
LEMMA ServerType ==
  ASSUME TypeOK,
         Open \/ Opened \/ StartWatching \/ Reconcile \/ Swap \/ Publish \/ Crash
           \/ \E i \in Id : ReadFile(i)
  PROVE  TypeOK'
<1> USE TypeSplit
<1>1. CASE Open
  BY <1>1, ScanType DEF Open, DiskType, StoreType, TaskType, RestType, counters
<1>2. CASE Reconcile
  BY <1>2, ScanType DEF Reconcile, DiskType, StoreType, TaskType, RestType, counters
<1>3. ASSUME NEW i \in Id, ReadFile(i)
      PROVE  TypeOK'
  <2>1. LoopType'
    BY <1>3 DEF ReadFile, LoopType, Loop, DiskType
  <2> QED
    BY <1>3, <2>1 DEF ReadFile, DiskType, StoreType, TaskType, RestType, history, counters
<1>4. CASE Opened
  <2>1. StoreType'
    BY <1>4, SwapType, ParsedType DEF Opened, LoopType, Loop
  <2>2. LoopType'
    BY <1>4, DownType DEF Opened, LoopType, Place
  <2>3. published' \in [Id -> Indexed]
    BY <1>4, ParsedType DEF Opened, RestType, LoopType, Loop
  <2> QED
    BY <1>4, <2>1, <2>2, <2>3 DEF Opened, DiskType, TaskType, RestType, history, counters
<1>5. CASE StartWatching
  <2>1. LoopType'
    BY <1>5 DEF StartWatching, LoopType, Loop, Place
  <2> QED
    BY <1>5, <2>1 DEF StartWatching, DiskType, StoreType, TaskType, RestType, history, counters
<1>6. CASE Swap
  <2>1. StoreType'
    <3>1. CASE Failures(loop.seen) = {} /\ loop.seen # source
      BY <1>6, <3>1, SwapType, ParsedType DEF Swap, LoopType, Loop
    <3>2. CASE ~(Failures(loop.seen) = {} /\ loop.seen # source)
      BY <1>6, <3>2 DEF Swap, StoreType
    <3> QED
      BY <3>1, <3>2
  <2>2. LoopType'
    BY <1>6, DownType DEF Swap, LoopType, Place
  <2> QED
    BY <1>6, <2>1, <2>2 DEF Swap, DiskType, TaskType, RestType, history, counters
<1>7. CASE Publish
  <2>1. LoopType'
    BY <1>7 DEF Publish, LoopType, Loop, Place
  <2> QED
    BY <1>7, <2>1 DEF Publish, DiskType, StoreType, TaskType, RestType, history, counters
<1>8. CASE Crash
  <2>1. StoreType'
    BY <1>8, Pages DEF Crash, StoreType, NoPage
  <2>2. LoopType' /\ TaskType'
    BY <1>8, DownType, IdleType DEF Crash, LoopType, TaskType
  <2>3. faults' \in Nat
    BY <1>8 DEF Crash, RestType
  <2> QED
    BY <1>8, <2>1, <2>2, <2>3 DEF Crash, DiskType, RestType
<1> QED
  BY <1>1, <1>2, <1>3, <1>4, <1>5, <1>6, <1>7, <1>8

\* The steps of a compile.
LEMMA CompileType ==
  ASSUME TypeOK, NEW t \in Task,
         \/ Identify(t) \/ ModelFails(t) \/ Upsert(t) \/ Truncate(t) \/ Fill(t) \/ FlushFails(t)
         \/ \E d \in Doc : Ingest(t, d)
  PROVE  TypeOK'
<1> USE TypeSplit
<1>0. task[t] \in Job /\ Formed(task[t])
  BY DEF TaskType
<1>1. ASSUME NEW d \in Doc, Ingest(t, d)
      PROVE  TypeOK'
  <2>1. PICK near \in {NoId} \cup {i \in Id : mem[i] # Absent} :
          task' = [task EXCEPT ![t] = [at |-> "ask", doc |-> d, id |-> near, page |-> Absent]]
    BY <1>1 DEF Ingest
  <2>2. TaskType'
    BY <2>1, TaskMoves, Pages, KnowledgeStoreAssumption DEF Job, Step, Formed
  <2> QED
    BY <1>1, <2>2 DEF Ingest, DiskType, StoreType, LoopType, RestType
<1>2. CASE Identify(t)
  <2>1. PICK title \in Id :
          task' = [task EXCEPT ![t].at = "upsert",
                               ![t].id = IF FindDuplicate(t) # NoId THEN FindDuplicate(t) ELSE title]
    BY <1>2 DEF Identify
  <2>2. FindDuplicate(t) \in Id \cup {NoId}
    BY <1>0, <1>2 DEF FindDuplicate, StoreType, Job, Identify, TaskAt, Formed
  <2> DEFINE found == IF FindDuplicate(t) # NoId THEN FindDuplicate(t) ELSE title
             x     == [task[t] EXCEPT !.at = "upsert", !.id = found]
  <2>3. found \in Id /\ task[t].at = "ask"
    BY <1>2, <2>2 DEF Identify, TaskAt
  <2>4. x \in Job /\ Formed(x)
    BY <1>0, <2>3, KnowledgeStoreAssumption DEF Job, Step, Formed
  <2>5. task' = [task EXCEPT ![t] = x]
    BY <2>1 DEF TaskType
  <2>6. TaskType'
    BY <2>4, <2>5, TaskMoves
  <2> QED
    BY <1>2, <2>6 DEF Identify, DiskType, StoreType, LoopType, RestType, history, counters
<1>3. CASE ModelFails(t)
  BY <1>3, TaskMoves, IdleType DEF ModelFails, DiskType, StoreType, LoopType, RestType, history, counters
<1>4. CASE Upsert(t)
  <2> DEFINE i == task[t].id
             p == [kind |-> "page", doc |-> task[t].doc, rev |-> NewRevision(i), stamp |-> stamps]
             x == [task[t] EXCEPT !.at = "flush", !.page = p]
  <2>1. i \in Id /\ task[t].at = "upsert"
    BY <1>0, <1>4 DEF Upsert, TaskAt, Formed, Job
  <2>2. p \in Page
    BY <1>0, NewRevisionType DEF Page, Job, RestType
  <2>3. x \in Job /\ Formed(x)
    BY <1>0, <2>1, <2>2, Pages, KnowledgeStoreAssumption DEF Job, Step, Formed
  <2>4. task' = [task EXCEPT ![t] = x]
    BY <1>4 DEF Upsert, TaskType
  <2>5. StoreType'
    BY <1>4, <2>1, <2>2, Pages DEF Upsert, Rehash, StoreType
  <2>6. TaskType'
    BY <2>3, <2>4, TaskMoves
  <2> QED
    BY <1>4, <2>5, <2>6 DEF Upsert, DiskType, LoopType, RestType, history, counters
<1>5. CASE Truncate(t)
  <2> DEFINE x == [task[t] EXCEPT !.at = "fill"]
  <2>1. task[t].id \in Id /\ task[t].at = "flush"
    BY <1>0, <1>5 DEF Truncate, TaskAt, Formed, Job
  <2>2. DiskType'
    BY <1>5, <2>1, PutType, Pages DEF Truncate
  <2>3. x \in Job /\ Formed(x)
    BY <1>0, <2>1, KnowledgeStoreAssumption DEF Job, Step, Formed
  <2>4. TaskType'
    BY <1>5, <2>3, TaskMoves DEF Truncate, Goto, TaskType
  <2> QED
    BY <1>5, <2>2, <2>4 DEF Truncate, StoreType, LoopType, RestType, history, counters
<1>6. CASE Fill(t)
  <2>1. task[t].id \in Id /\ task[t].page \in Page
    BY <1>0, <1>6, Pages DEF Indexed, Fill, TaskAt, Formed, Job
  <2>2. DiskType' /\ stamps' \in Nat
    BY <1>6, <2>1, FillType DEF Fill, RestType
  <2> QED
    BY <1>6, <2>2, TaskMoves, IdleType DEF Fill, StoreType, LoopType, RestType, history, counters
<1>7. CASE FlushFails(t)
  <2>1. task[t].id \in Id
    BY <1>0, <1>7 DEF FlushFails, Formed, Job
  <2>2. faults' \in Nat
    BY <1>7 DEF FlushFails, RestType
  <2>3. TaskType'
    BY <1>7, TaskMoves, IdleType DEF FlushFails
  <2> QED
    BY <1>7, <2>1, <2>2, <2>3 DEF FlushFails, DiskType, StoreType, LoopType, RestType
<1> QED
  BY <1>1, <1>2, <1>3, <1>4, <1>5, <1>6, <1>7

\* The steps of other processes.
LEMMA OutsideType ==
  ASSUME TypeOK,
         OutsideDies \/ \E i \in Id : OutsideOpens(i) \/ OutsideWrites(i) \/ OutsideRemoves(i)
  PROVE  TypeOK'
<1> USE TypeSplit
<1>1. CASE OutsideDies
  <2>1. faults' \in Nat
    BY <1>1 DEF OutsideDies, RestType
  <2> QED
    BY <1>1, <2>1 DEF OutsideDies, DiskType, StoreType, LoopType, TaskType, RestType, history
<1>2. ASSUME NEW i \in Id, OutsideOpens(i)
      PROVE  TypeOK'
  <2>1. PICK d \in {NoDoc} \cup {p.doc : p \in {disk[i]} \ {Absent, Torn}} :
          outside' = {<<i, [kind |-> "page", doc |-> d, rev |-> 1, stamp |-> stamps]>>}
    BY <1>2 DEF OutsideOpens
  <2>2. d \in Doc \cup {NoDoc}
    BY <2>1 DEF DiskType, OnDisk, Page
  <2>3. outside' \in SUBSET (Id \X Page)
    BY <2>1, <2>2 DEF Page, RestType
  <2>4. DiskType'
    BY <1>2, PutType, Pages DEF OutsideOpens
  <2>5. outsides' \in Nat /\ stamps' \in Nat
    BY <1>2 DEF OutsideOpens, RestType
  <2> QED
    BY <1>2, <2>3, <2>4, <2>5 DEF OutsideOpens, StoreType, LoopType, TaskType, RestType
<1>3. ASSUME NEW i \in Id, OutsideWrites(i)
      PROVE  TypeOK'
  <2>1. PICK x \in outside : x[1] = i /\ FillFile(i, x[2])
    BY <1>3 DEF OutsideWrites
  <2>2. x[2] \in Page
    BY <2>1 DEF RestType
  <2>3. DiskType' /\ stamps' \in Nat
    BY <2>1, <2>2, FillType DEF RestType
  <2> QED
    BY <1>3, <2>3 DEF OutsideWrites, StoreType, LoopType, TaskType, RestType, history, counters
<1>4. ASSUME NEW i \in Id, OutsideRemoves(i)
      PROVE  TypeOK'
  <2>1. DiskType'
    BY <1>4, PutType, Pages DEF OutsideRemoves
  <2>2. outsides' \in Nat
    BY <1>4 DEF OutsideRemoves, RestType
  <2> QED
    BY <1>4, <2>1, <2>2 DEF OutsideRemoves, StoreType, LoopType, TaskType, RestType, history
<1> QED
  BY <1>1, <1>2, <1>3, <1>4

LEMMA TypeStutter == TypeOK /\ UNCHANGED vars => TypeOK'
BY DEF TypeOK, vars, history, counters

\* The store keeps its types, for any ids, contents, compiles and bounds.
THEOREM TypeCorrect == Spec => []TypeOK
<1>1. TypeOK /\ [Next]_vars => TypeOK'
  BY ServerType, CompileType, OutsideType, TypeStutter DEF Next
<1> QED
  BY TypeInit, <1>1, PTL DEF Spec

-----------------------------------------------------------------------------
(* The content-hash index *)

\* An index built from the entries names entries that carry the hash.
LEMMA SwapSound ==
  ASSUME KnowledgeStoreAssumption, NEW entries \in [Id -> Indexed], SwapIn(entries)
  PROVE  HashIndexSound'
<1> SUFFICES ASSUME NEW d \in Doc, hashes'[d] # NoId
             PROVE  mem'[hashes'[d]] # Absent /\ mem'[hashes'[d]].doc = d
  BY DEF HashIndexSound
<1> DEFINE pages == {i \in Id : entries[i] # Absent /\ entries[i].doc = d}
<1>1. IF pages = {} THEN hashes'[d] = NoId ELSE hashes'[d] \in pages
  BY DEF SwapIn, IsHashIndex
<1>2. hashes'[d] \in pages
  BY <1>1
<1> QED
  BY <1>2 DEF SwapIn

\* An upsert takes the replaced entry's hash out of the index and puts the new
\* one in; no other hash named that entry, because the index was sound.
LEMMA RehashSound ==
  ASSUME TypeOK, HashIndexSound, NEW i \in Id, NEW doc \in Doc, NEW p, p.doc = doc, p # Absent,
         Rehash(i, doc), mem' = [mem EXCEPT ![i] = p]
  PROVE  HashIndexSound'
<1> SUFFICES ASSUME NEW e \in Doc, hashes'[e] # NoId
             PROVE  mem'[hashes'[e]] # Absent /\ mem'[hashes'[e]].doc = e
  BY DEF HashIndexSound
<1>0. mem \in [Id -> Indexed] /\ hashes \in [Doc -> Id \cup {NoId}]
  BY DEF TypeOK
<1>1. CASE e = doc
  BY <1>0, <1>1 DEF Rehash
<1>2. CASE e # doc
  <2>1. /\ hashes'[e] = hashes[e]
        /\ ~(mem[i] # Absent /\ mem[i].doc = e)
    BY <1>2 DEF Rehash
  <2>2. mem[hashes[e]] # Absent /\ mem[hashes[e]].doc = e
    BY <2>1 DEF HashIndexSound
  <2> QED
    BY <1>0, <2>1, <2>2
<1> QED
  BY <1>1, <1>2

LEMMA SoundStep == TypeOK /\ HashIndexSound /\ [Next]_vars => HashIndexSound'
<1> SUFFICES ASSUME TypeOK, HashIndexSound, [Next]_vars
             PROVE  HashIndexSound'
  OBVIOUS
<1>0. LoopType /\ TaskType
  BY TypeSplit
<1>1. CASE UNCHANGED <<mem, hashes>>
  BY <1>1 DEF HashIndexSound
<1>2. CASE Opened
  BY <1>0, <1>2, SwapSound, ParsedType, KnowledgeStoreAssumption DEF Opened, LoopType, Loop
<1>3. CASE Swap
  BY <1>0, <1>1, <1>3, SwapSound, ParsedType, KnowledgeStoreAssumption DEF Swap, LoopType, Loop
<1>4. CASE Crash
  BY <1>4 DEF Crash, HashIndexSound
<1>5. ASSUME NEW t \in Task, Upsert(t)
      PROVE  HashIndexSound'
  <2> DEFINE i == task[t].id
             p == [kind |-> "page", doc |-> task[t].doc, rev |-> NewRevision(i), stamp |-> stamps]
  <2>1. i \in Id /\ task[t].doc \in Doc
    BY <1>0, <1>5 DEF TaskType, Upsert, TaskAt, Formed, Job
  <2>2. p # Absent /\ p.doc = task[t].doc
    BY DEF Absent
  <2>3. Rehash(i, task[t].doc) /\ mem' = [mem EXCEPT ![i] = p]
    BY <1>5 DEF Upsert
  <2> HIDE DEF i, p
  <2> QED
    BY <2>1, <2>2, <2>3, RehashSound
<1> QED
  BY <1>1, <1>2, <1>3, <1>4, <1>5
  DEF Next, vars, Open, StartWatching, Reconcile, ReadFile, Publish, Ingest, Identify, ModelFails,
      Truncate, Fill, FlushFails, OutsideOpens, OutsideWrites, OutsideDies, OutsideRemoves

\* The index never names an entry that is gone or carries another content, through
\* every overlap of upserts, scans, swaps and crashes (MarkdownStore).
THEOREM HashIndexNeverStale == Spec => []HashIndexSound
<1>1. Init => HashIndexSound
  BY DEF Init, HashIndexSound
<1> QED
  BY <1>1, SoundStep, TypeCorrect, PTL DEF Spec

-----------------------------------------------------------------------------
(* Pages that do not parse *)

\* One step of a server that keeps running drops an entry only for a scan that
\* found no file.
EntryDropped(i) == Serving /\ Serving' /\ mem[i] # Absent /\ mem'[i] = Absent

LEMMA DropStep ==
  ASSUME TypeOK, [Next]_vars, NEW i \in Id, EntryDropped(i)
  PROVE  LoopAt("scan") /\ loop.seen[i] = Absent
<1>0. mem \in [Id -> Indexed]
  BY DEF TypeOK
<1>1. CASE UNCHANGED mem
  BY <1>1 DEF EntryDropped
<1>2. CASE Opened
  BY <1>2 DEF Opened, EntryDropped, Serving, LoopAt
<1>3. CASE Swap
  BY <1>1, <1>3 DEF Swap, SwapIn, EntryDropped
<1>4. CASE Crash
  BY <1>4 DEF Crash, EntryDropped, Serving, Down
<1>5. ASSUME NEW t \in Task, Upsert(t)
      PROVE  LoopAt("scan") /\ loop.seen[i] = Absent
  <2> DEFINE p == [kind |-> "page", doc |-> task[t].doc, rev |-> NewRevision(task[t].id), stamp |-> stamps]
  <2>1. p # Absent
    BY DEF Absent
  <2>2. mem' = [mem EXCEPT ![task[t].id] = p]
    BY <1>5 DEF Upsert
  <2> HIDE DEF p
  <2> QED
    BY <1>0, <2>1, <2>2 DEF EntryDropped
<1> QED
  BY <1>1, <1>2, <1>3, <1>4, <1>5
  DEF Next, vars, Open, StartWatching, Reconcile, ReadFile, Publish, Ingest, Identify, ModelFails,
      Truncate, Fill, FlushFails, OutsideOpens, OutsideWrites, OutsideDies, OutsideRemoves

\* As long as the server runs, an entry goes only because a scan found no file for
\* it: neither its own torn page nor another's costs it (reconcile_from_disk).
THEOREM TornPagesKeepEntries == Spec => TornKeepsEntry
<1>1. TypeOK /\ [Next]_vars =>
        [\A i \in Id :
           Serving /\ Serving' /\ mem[i] # Absent /\ mem'[i] = Absent
             => LoopAt("scan") /\ loop.seen[i] = Absent]_vars
  BY DropStep DEF EntryDropped
<1> QED
  BY <1>1, TypeCorrect, PTL DEF Spec, TornKeepsEntry
-----------------------------------------------------------------------------
(* The way of a change from a file to memory and to the snapshot *)

Writing    == {t \in Task : task[t].at \in {"flush", "fill"}}
FlushOf(i) == \E t \in Task : task[t].at = "flush" /\ task[t].id = i
Settled    == loop.at \in {"unwatched", "wait", "publish"}
NoneTorn   == \A j \in Id : disk[j] # Torn

\* What is about to be written has never been on disk.
Below(c) == c \in Page => c.stamp < stamps
Other(c, p) == c \in Page => c.stamp # p.stamp
Unwritten(p) ==
  /\ p.stamp < stamps
  /\ \A i \in Id : Other(disk[i], p) /\ Other(source[i], p) /\ Other(loop.seen[i], p)

StampInv ==
  /\ \A i \in Id : Below(disk[i]) /\ Below(source[i]) /\ Below(loop.seen[i])
  /\ \A t \in Writing : Unwritten(task[t].page)
  /\ \A x \in outside : Unwritten(x[2])
  /\ \A t, u \in Writing : t # u => task[t].page.stamp # task[u].page.stamp
  /\ \A t \in Writing : \A x \in outside : task[t].page.stamp # x[2].stamp

\* What the last scan read is what is on disk, unless an event waits, a change
\* was missed, or a page was torn.
ReadInv ==
  ~dirty /\ ~missed =>
    /\ Scanning => \A i \in Id \ loop.todo : loop.seen[i] = disk[i]
    /\ Settled  => source = disk \/ ~NoneTorn

\* Memory has what the last scan swapped in, except for an entry whose upsert has
\* not reached the disk, or has changed it since.
MemInv ==
  Serving =>
    \A i \in Id \ failed :
      mem[i] = Parsed(source)[i] \/ FlushOf(i) \/ disk[i] \in {Absent, Torn} \/ disk[i] # source[i]

PublishedInv ==
  loop.at \in {"unwatched", "wait"} /\ ~dirty /\ ~missed /\ NoneTorn =>
    \A i \in Id \ failed : published[i] = mem[i] \/ FlushOf(i)

ServeInv == StampInv /\ ReadInv /\ MemInv /\ PublishedInv

\* A content that some file, or some scan, has already.
Shown(c) == c \notin Page \/ \E i \in Id : c = disk[i] \/ c = source[i] \/ c = loop.seen[i]

LEMMA WritingPages == TypeOK => \A t \in Writing : task[t].page \in Page /\ task[t].id \in Id /\ t \in Task
BY TypeSplit, Pages DEF TaskType, Formed, Writing, Job, Indexed

\* Nothing new is shown, and nobody has more to write.
LEMMA StampKeeps ==
  ASSUME StampInv, UNCHANGED stamps,
         \A i \in Id : Shown(disk'[i]) /\ Shown(source'[i]) /\ Shown(loop'.seen[i]),
         \A t \in Writing' : t \in Writing /\ task'[t].page = task[t].page,
         outside' \subseteq outside
  PROVE  StampInv'
<1>1. \A c : Shown(c) => Below(c) /\ Below(c)'
  BY DEF StampInv, Below, Shown
<1>2. \A c, p : Shown(c) /\ Unwritten(p) => Other(c, p)
  BY DEF Shown, Unwritten, Other
<1>3. \A p : Unwritten(p) => Unwritten(p)'
  BY <1>2 DEF Unwritten, Other
<1>4. \A i \in Id : Below(disk[i])' /\ Below(source[i])' /\ Below(loop.seen[i])'
  BY <1>1 DEF Below
<1> QED
  BY <1>3, <1>4 DEF StampInv

\* A page nobody has seen yet is handed to a writer.
LEMMA StampNew ==
  ASSUME TypeOK, StampInv, stamps' = stamps + 1, UNCHANGED <<source, loop>>,
         \A i \in Id : disk'[i] = disk[i] \/ disk'[i] \notin Page,
         NEW p, p.stamp = stamps,
         \/ /\ outside' = outside
            /\ \E u \in Task : /\ task'[u].page = p /\ u \notin Writing
                               /\ \A t \in Writing' : t = u \/ (t \in Writing /\ task'[t].page = task[t].page)
         \/ /\ \A x \in outside' : x[2] = p
            /\ UNCHANGED task
  PROVE  StampInv'
<1>0. stamps \in Nat
  BY DEF TypeOK
<1>1. \A c : Below(c) => Below(c)' /\ Other(c, p)
  <2>1. \A n : n \in Nat /\ n < stamps => n < stamps' /\ n # stamps
    BY <1>0
  <2>2. \A c \in Page : c.stamp \in Nat
    BY DEF Page
  <2> QED
    BY <2>1, <2>2 DEF Below, Other
<1>2. \A q \in Page : Unwritten(q) => q.stamp < stamps' /\ q.stamp # p.stamp
  <2>1. \A n \in Nat : n < stamps => n < stamps' /\ n # stamps
    BY <1>0
  <2> QED
    BY <2>1 DEF Page, Unwritten
<1>3. \A q \in Page : Unwritten(q) => Unwritten(q)'
  BY <1>2 DEF Unwritten, Other
<1>4. p.stamp < stamps'
  BY <1>0
<1>5. Unwritten(p)'
  BY <1>1, <1>4 DEF Unwritten, Other, StampInv
<1>6. \A i \in Id : Below(disk[i])' /\ Below(source[i])' /\ Below(loop.seen[i])'
  BY <1>1 DEF Below, StampInv
<1>7. /\ \A t \in Writing : task[t].page \in Page /\ Unwritten(task[t].page)
      /\ \A x \in outside : x[2] \in Page /\ Unwritten(x[2])
  BY WritingPages, TypeSplit DEF StampInv, RestType
<1>8. CASE /\ outside' = outside
           /\ \E u \in Task : /\ task'[u].page = p /\ u \notin Writing
                              /\ \A t \in Writing' : t = u \/ (t \in Writing /\ task'[t].page = task[t].page)
  <2>1. PICK u \in Task : /\ task'[u].page = p
                         /\ \A t \in Writing' : t = u \/ (t \in Writing /\ task'[t].page = task[t].page)
    BY <1>8
  <2>2. \A t \in Writing' : Unwritten(task[t].page)'
    BY <1>3, <1>5, <1>7, <2>1
  <2>3. \A x \in outside' : Unwritten(x[2])'
    BY <1>3, <1>7, <1>8
  <2>4. \A t \in Writing' : t # u => task'[t].page.stamp # p.stamp
    BY <1>2, <1>7, <2>1
  <2>5. \A t, v \in Writing' : t # v => task'[t].page.stamp # task'[v].page.stamp
    BY <2>1, <2>4 DEF StampInv
  <2>6. \A t \in Writing' : \A x \in outside' : task'[t].page.stamp # x[2].stamp
    BY <1>2, <1>7, <1>8, <2>1 DEF StampInv
  <2> QED
    BY <1>6, <2>2, <2>3, <2>5, <2>6 DEF StampInv
<1>9. CASE (\A x \in outside' : x[2] = p) /\ UNCHANGED task
  <2>1. Writing' = Writing
    BY <1>9 DEF Writing
  <2>2. \A t \in Writing' : Unwritten(task[t].page)' /\ task'[t].page.stamp # p.stamp
    BY <1>2, <1>3, <1>7, <1>9, <2>1
  <2> QED
    BY <1>5, <1>6, <1>9, <2>1, <2>2 DEF StampInv
<1> QED
  BY <1>8, <1>9

\* A writer fills its file and is done.
LEMMA StampFill ==
  ASSUME TypeOK, StampInv, NEW i \in Id, NEW p \in Page, Unwritten(p), FillFile(i, p),
         UNCHANGED <<source, loop>>,
         \A t \in Writing' :
           t \in Writing /\ task'[t].page = task[t].page /\ task[t].page.stamp # p.stamp,
         \A x \in outside' : x \in outside /\ x[2].stamp # p.stamp
  PROVE  StampInv'
<1>0. stamps \in Nat /\ disk \in [Id -> OnDisk]
  BY DEF TypeOK
<1>1. \E c : /\ c.stamp < stamps' /\ (c.stamp = p.stamp \/ c.stamp = stamps)
             /\ \A j \in Id : disk'[j] = disk[j] \/ disk'[j] = c
  <2>1. CASE UNCHANGED <<disk, stamps>>
    BY <2>1 DEF Unwritten
  <2>2. CASE Put(i, p) /\ UNCHANGED stamps
    BY <1>0, <2>2 DEF Unwritten, Put
  <2>3. CASE Put(i, [p EXCEPT !.stamp = stamps]) /\ stamps' = stamps + 1
    <3> DEFINE c == [p EXCEPT !.stamp = stamps]
    <3>1. c.stamp = stamps
      BY DEF Page
    <3>2. \A j \in Id : disk'[j] = disk[j] \/ disk'[j] = c
      BY <1>0, <2>3 DEF Put
    <3> HIDE DEF c
    <3>3. c.stamp < stamps'
      BY <1>0, <2>3, <3>1
    <3> QED
      BY <3>1, <3>2, <3>3
  <2> QED
    BY <2>1, <2>2, <2>3 DEF FillFile
<1>2. PICK c : /\ c.stamp < stamps' /\ (c.stamp = p.stamp \/ c.stamp = stamps)
               /\ \A j \in Id : disk'[j] = disk[j] \/ disk'[j] = c
  BY <1>1
<1>3. \A n \in Nat : n < stamps => n < stamps' /\ n # stamps
  <2>1. stamps' = stamps \/ stamps' = stamps + 1
    BY DEF FillFile
  <2> QED
    BY <1>0, <2>1
<1>4. \A q \in Page : q.stamp \in Nat
  BY DEF Page
<1>5. \A q \in Page : Unwritten(q) /\ q.stamp # p.stamp => Unwritten(q)'
  <2>1. \A q \in Page : Unwritten(q) /\ q.stamp # p.stamp => q.stamp < stamps' /\ q.stamp # c.stamp
    BY <1>2, <1>3, <1>4 DEF Unwritten
  <2> QED
    BY <1>2, <2>1 DEF Unwritten, Other
<1>6. \A j \in Id : Below(disk[j])' /\ Below(source[j])' /\ Below(loop.seen[j])'
  <2>1. \A d : Below(d) => Below(d)'
    BY <1>3, <1>4 DEF Below
  <2> QED
    BY <1>2, <2>1 DEF Below, StampInv
<1>7. /\ \A t \in Writing : task[t].page \in Page /\ Unwritten(task[t].page)
      /\ \A x \in outside : x[2] \in Page /\ Unwritten(x[2])
  BY WritingPages, TypeSplit DEF StampInv, RestType
<1>8. \A t \in Writing' : Unwritten(task[t].page)'
  BY <1>5, <1>7
<1>9. \A x \in outside' : Unwritten(x[2])'
  BY <1>5, <1>7
<1> QED
  BY <1>6, <1>8, <1>9 DEF StampInv

\* The same files, the same pages to write.
LEMMA StampSame ==
  ASSUME StampInv, UNCHANGED <<disk, source, stamps>>,
         \A i \in Id : loop'.seen[i] \in {Absent, loop.seen[i], disk[i]},
         UNCHANGED task \/ (Writing' = {}),
         outside' \subseteq outside
  PROVE  StampInv'
<1>1. \A t \in Writing' : t \in Writing /\ task'[t].page = task[t].page
  BY DEF Writing
<1>2. \A i \in Id : Shown(disk'[i]) /\ Shown(source'[i]) /\ Shown(loop'.seen[i])
  BY Pages DEF Shown
<1> QED
  BY <1>1, <1>2, StampKeeps

LEMMA StampServer ==
  ASSUME TypeOK, StampInv,
         Open \/ Opened \/ StartWatching \/ Reconcile \/ Swap \/ Publish \/ Crash
           \/ \E i \in Id : ReadFile(i)
  PROVE  StampInv'
<1>0. /\ loop \in Loop /\ disk \in [Id -> OnDisk] /\ source \in [Id -> OnDisk]
      /\ \A place \in Place : [Down EXCEPT !.at = place].seen = NoPage
  BY TypeSplit DEF LoopType, DiskType, StoreType, Down, NoPage
<1>1. CASE Open \/ Reconcile
  BY <1>1, StampSame DEF Open, Reconcile, StartScan, NoPage
<1>2. CASE StartWatching \/ Publish
  BY <1>0, <1>2, StampSame DEF StartWatching, Publish, Loop
<1>3. ASSUME NEW i \in Id, ReadFile(i)
      PROVE  StampInv'
  <2>1. \A j \in Id : loop'.seen[j] = loop.seen[j] \/ (j = i /\ loop'.seen[j] = disk[j])
    BY <1>0, <1>3 DEF ReadFile, Loop
  <2> QED
    BY <1>3, <2>1, StampSame DEF ReadFile
<1>4. CASE Opened \/ Swap
  <2>1. loop'.seen = NoPage
    BY <1>0, <1>4 DEF Opened, Swap, Place
  <2>2. source' = source \/ source' = loop.seen
    BY <1>4 DEF Opened, Swap, SwapIn
  <2>3. \A i \in Id : Shown(disk'[i]) /\ Shown(source'[i]) /\ Shown(loop'.seen[i])
    BY <1>4, <2>1, <2>2, Pages DEF Shown, NoPage, Opened, Swap
  <2>4. Writing' = Writing
    BY <1>4 DEF Writing, Opened, Swap
  <2> QED
    BY <1>4, <2>3, <2>4, StampKeeps DEF Opened, Swap
<1>5. CASE Crash
  <2>1. \A i \in Id : source'[i] = Absent /\ loop'.seen[i] = Absent
    BY <1>5 DEF Crash, NoPage, Down
  <2>2. \A i \in Id : Shown(disk'[i]) /\ Shown(source'[i]) /\ Shown(loop'.seen[i])
    BY <1>5, <2>1, Pages DEF Shown, Crash
  <2>3. Writing' = {}
    BY <1>5 DEF Writing, Crash, Idle
  <2> QED
    BY <1>5, <2>2, <2>3, StampKeeps DEF Crash
<1> QED
  BY <1>1, <1>2, <1>3, <1>4, <1>5

\* A compile that moves to a place where it writes nothing, or stays a writer.
LEMMA WritingMoves ==
  ASSUME TaskType, NEW t \in Task, NEW x, task' = [task EXCEPT ![t] = x],
         x.at \notin {"flush", "fill"} \/ (t \in Writing /\ x.page = task[t].page)
  PROVE  /\ \A u \in Writing' : u \in Writing /\ task'[u].page = task[u].page
         /\ x.at \notin {"flush", "fill"} => t \notin Writing'
BY DEF TaskType, Writing

LEMMA StampCompile ==
  ASSUME TypeOK, StampInv, NEW t \in Task,
         \/ Identify(t) \/ ModelFails(t) \/ Upsert(t) \/ Truncate(t) \/ Fill(t) \/ FlushFails(t)
         \/ \E d \in Doc : Ingest(t, d)
  PROVE  StampInv'
<1>0. /\ TaskType /\ disk \in [Id -> OnDisk] /\ task[t] \in Job /\ Idle.at = "idle"
      /\ \A i \in Id : Shown(disk[i]) /\ Shown(source[i]) /\ Shown(loop.seen[i])
  BY TypeSplit DEF TaskType, DiskType, Shown, Idle
<1>1. ASSUME NEW x, task' = [task EXCEPT ![t] = x],
             x.at \notin {"flush", "fill"} \/ (t \in Writing /\ x.page = task[t].page),
             UNCHANGED <<source, loop, outside, stamps>>,
             \A i \in Id : disk'[i] = disk[i] \/ disk'[i] = Torn
      PROVE  StampInv'
  <2>1. \A i \in Id : Shown(disk'[i])
    BY <1>0, <1>1, Pages DEF Shown
  <2> QED
    BY <1>0, <1>1, <2>1, WritingMoves, StampKeeps
<1>2. ASSUME NEW d \in Doc, Ingest(t, d)
      PROVE  StampInv'
  <2>1. PICK near : task' = [task EXCEPT ![t] = [at |-> "ask", doc |-> d, id |-> near, page |-> Absent]]
    BY <1>2 DEF Ingest
  <2> QED
    BY <1>1, <1>2, <2>1 DEF Ingest
<1>3. CASE Identify(t)
  <2>1. PICK title \in Id :
          task' = [task EXCEPT ![t].at = "upsert",
                               ![t].id = IF FindDuplicate(t) # NoId THEN FindDuplicate(t) ELSE title]
    BY <1>3 DEF Identify
  <2> DEFINE x == [task[t] EXCEPT !.at = "upsert",
                                  !.id = IF FindDuplicate(t) # NoId THEN FindDuplicate(t) ELSE title]
  <2>2. task' = [task EXCEPT ![t] = x] /\ x.at = "upsert"
    BY <1>0, <2>1 DEF TaskType, Job
  <2> HIDE DEF x
  <2> QED
    BY <1>1, <1>3, <2>2 DEF Identify
<1>4. CASE ModelFails(t) \/ FlushFails(t)
  BY <1>0, <1>1, <1>4 DEF ModelFails, FlushFails
<1>5. CASE Upsert(t)
  <2> DEFINE p == [kind |-> "page", doc |-> task[t].doc, rev |-> NewRevision(task[t].id), stamp |-> stamps]
  <2>1. p.stamp = stamps
    OBVIOUS
  <2>2. task'[t].page = p /\ t \notin Writing /\ \A u \in Task : u # t => task'[u] = task[u]
    BY <1>0, <1>5 DEF Upsert, TaskType, Writing, TaskAt, Job
  <2> HIDE DEF p
  <2>3. \A u \in Writing' : u = t \/ (u \in Writing /\ task'[u].page = task[u].page)
    BY <2>2 DEF Writing
  <2>4. stamps' = stamps + 1 /\ UNCHANGED <<disk, source, loop, outside>>
    BY <1>5 DEF Upsert
  <2> QED
    BY <2>1, <2>2, <2>3, <2>4, StampNew
<1>6. CASE Truncate(t)
  <2> DEFINE x == [task[t] EXCEPT !.at = "fill"]
  <2>1. task' = [task EXCEPT ![t] = x] /\ x.page = task[t].page /\ t \in Writing
    BY <1>0, <1>6 DEF Truncate, Goto, TaskAt, TaskType, Job, Writing
  <2> HIDE DEF x
  <2>2. \A i \in Id : disk'[i] = disk[i] \/ disk'[i] = Torn
    BY <1>0, <1>6 DEF Truncate, Put
  <2>3. UNCHANGED <<source, loop, outside, stamps>>
    BY <1>6 DEF Truncate
  <2> QED
    BY <1>1, <2>1, <2>2, <2>3
<1>7. CASE Fill(t)
  <2>1. t \in Writing /\ task[t].page \in Page /\ task[t].id \in Id
    BY <1>7, WritingPages DEF Fill, TaskAt, Writing
  <2>2. \A u \in Writing' : u \in Writing /\ task'[u].page = task[u].page /\ u # t
    BY <1>0, <1>7, WritingMoves DEF Fill
  <2>3. \A u \in Writing' : task[u].page.stamp # task[t].page.stamp
    BY <2>1, <2>2 DEF StampInv
  <2>4. \A x \in outside : x[2].stamp # task[t].page.stamp
    BY <2>1 DEF StampInv
  <2>5. Unwritten(task[t].page)
    BY <2>1 DEF StampInv
  <2>6. FillFile(task[t].id, task[t].page) /\ UNCHANGED <<source, loop, outside>>
    BY <1>7 DEF Fill
  <2> QED
    BY <2>1, <2>2, <2>3, <2>4, <2>5, <2>6, StampFill
<1> QED
  BY <1>2, <1>3, <1>4, <1>5, <1>6, <1>7

LEMMA StampOutside ==
  ASSUME TypeOK, StampInv,
         OutsideDies \/ \E i \in Id : OutsideOpens(i) \/ OutsideWrites(i) \/ OutsideRemoves(i)
  PROVE  StampInv'
<1>0. disk \in [Id -> OnDisk] /\ outside \in SUBSET (Id \X Page)
  BY DEF TypeOK
<1>1. CASE OutsideDies
  BY <1>1, StampSame DEF OutsideDies
<1>2. ASSUME NEW i \in Id, OutsideOpens(i)
      PROVE  StampInv'
  <2>1. PICK d : outside' = {<<i, [kind |-> "page", doc |-> d, rev |-> 1, stamp |-> stamps]>>}
    BY <1>2 DEF OutsideOpens
  <2> DEFINE p == [kind |-> "page", doc |-> d, rev |-> 1, stamp |-> stamps]
  <2>2. p.stamp = stamps /\ \A x \in outside' : x[2] = p
    BY <2>1
  <2> HIDE DEF p
  <2>3. \A j \in Id : disk'[j] = disk[j] \/ disk'[j] \notin Page
    BY <1>0, <1>2, Pages DEF OutsideOpens, Put, Page, Torn
  <2>4. stamps' = stamps + 1 /\ UNCHANGED <<source, loop, task>>
    BY <1>2 DEF OutsideOpens
  <2> QED
    BY <2>2, <2>3, <2>4, StampNew
<1>3. ASSUME NEW i \in Id, OutsideWrites(i)
      PROVE  StampInv'
  <2>1. PICK x \in outside : x[1] = i /\ FillFile(i, x[2])
    BY <1>3 DEF OutsideWrites
  <2>2. x[2] \in Page /\ Unwritten(x[2])
    BY <1>0, <2>1 DEF StampInv
  <2>3. Writing' = Writing /\ UNCHANGED <<source, loop, task>> /\ outside' = {}
    BY <1>3 DEF OutsideWrites, Writing
  <2>4. \A t \in Writing' : t \in Writing /\ task'[t].page = task[t].page /\ task[t].page.stamp # x[2].stamp
    BY <2>1, <2>3 DEF StampInv
  <2> QED
    BY <2>1, <2>2, <2>3, <2>4, StampFill
<1>4. ASSUME NEW i \in Id, OutsideRemoves(i)
      PROVE  StampInv'
  <2>1. \A j \in Id : Shown(disk'[j]) /\ Shown(source'[j]) /\ Shown(loop'.seen[j])
    BY <1>0, <1>4, Pages DEF OutsideRemoves, Put, Shown
  <2>2. Writing' = Writing
    BY <1>4 DEF OutsideRemoves, Writing
  <2> QED
    BY <1>4, <2>1, <2>2, StampKeeps DEF OutsideRemoves
<1> QED
  BY <1>1, <1>2, <1>3, <1>4

\* A change of a file is announced, or comes while the server is down.
LEMMA PutAnnounced ==
  ASSUME LoopType, NEW i, NEW c, Put(i, c)
  PROVE  loop.at = "down" \/ dirty' \/ missed'
BY DEF Put, Announce, Watching, LoopType, Loop, Place

\* A file changes, and what it gets is not what the last scan found there.
LEMMA FileServes ==
  ASSUME TypeOK, ServeInv, StampInv', UNCHANGED <<mem, source, published, loop, failed>>,
         NEW i \in Id, NEW c \in OnDisk, Put(i, c), c \in {Absent, Torn} \/ c # source[i],
         \A j \in Id \ {i} : FlushOf(j) => FlushOf(j)'
  PROVE  ServeInv'
<1>0. LoopType /\ disk \in [Id -> OnDisk]
  BY TypeSplit DEF DiskType
<1>1. loop'.at = "down" \/ dirty' \/ missed'
  BY <1>0, PutAnnounced
<1>2. ReadInv' /\ PublishedInv'
  BY <1>1 DEF ReadInv, PublishedInv, Scanning, Settled
<1>3. \A j \in Id : disk'[j] = IF j = i THEN c ELSE disk[j]
  BY <1>0 DEF Put
<1>4. MemInv'
  BY <1>3 DEF ServeInv, MemInv, Serving, Parsed
<1> QED
  BY <1>2, <1>4 DEF ServeInv

\* Nothing that the invariant is about changes, but for failures and upserts that end.
LEMMA SameServes ==
  ASSUME ServeInv, StampInv', UNCHANGED <<disk, mem, source, published, loop, dirty, missed>>,
         failed \subseteq failed', \A j \in Id \ failed' : FlushOf(j) => FlushOf(j)'
  PROVE  ServeInv'
<1>1. ReadInv'
  BY DEF ServeInv, ReadInv, Scanning, Settled, NoneTorn
<1>2. MemInv'
  BY DEF ServeInv, MemInv, Serving, Parsed
<1>3. PublishedInv'
  BY DEF ServeInv, PublishedInv, NoneTorn
<1> QED
  BY <1>1, <1>2, <1>3 DEF ServeInv

\* A file is filled, if it is still there, with what no scan has found.
LEMMA FillServes ==
  ASSUME TypeOK, ServeInv, StampInv', UNCHANGED <<mem, source, published, loop, failed>>,
         NEW i \in Id, NEW p \in Page, Unwritten(p), FillFile(i, p),
         \A j \in Id : FlushOf(j) => FlushOf(j)'
  PROVE  ServeInv'
<1>0. source[i] \in OnDisk /\ stamps \in Nat
  BY DEF TypeOK
<1>1. CASE UNCHANGED <<disk, dirty, missed, stamps>>
  BY <1>1, SameServes
<1>2. CASE Put(i, p)
  <2>1. p # source[i]
    BY DEF Unwritten, Other
  <2> QED
    BY <1>2, <2>1, Pages, FileServes
<1>3. CASE Put(i, [p EXCEPT !.stamp = stamps])
  <2> DEFINE c == [p EXCEPT !.stamp = stamps]
  <2>1. c \in Page /\ c.stamp = stamps
    BY <1>0 DEF Page
  <2> HIDE DEF c
  <2>2. source[i] \in Page => source[i].stamp < stamps
    BY DEF ServeInv, StampInv, Below
  <2>3. \A q \in Page : q.stamp < stamps => q.stamp # stamps
    BY <1>0 DEF Page
  <2>4. c # source[i]
    BY <2>1, <2>2, <2>3
  <2>5. Put(i, c)
    BY <1>3 DEF c
  <2> QED
    BY <2>1, <2>4, <2>5, Pages, FileServes
<1> QED
  BY <1>1, <1>2, <1>3 DEF FillFile

LEMMA FlushMoves ==
  ASSUME TaskType, NEW t \in Task, NEW x, task' = [task EXCEPT ![t] = x]
  PROVE  /\ \A j : FlushOf(j) /\ (task[t].at # "flush" \/ task[t].id # j) => FlushOf(j)'
         /\ x.at = "flush" => FlushOf(x.id)'
BY DEF TaskType, FlushOf

LEMMA ServeServer ==
  ASSUME TypeOK, ServeInv, StampInv',
         Open \/ Opened \/ StartWatching \/ Reconcile \/ Swap \/ Publish \/ Crash
           \/ \E i \in Id : ReadFile(i)
  PROVE  ServeInv'
<1>0. /\ loop \in Loop /\ disk \in [Id -> OnDisk] /\ source \in [Id -> OnDisk]
      /\ \A place \in Place : [Down EXCEPT !.at = place].at = place
  BY TypeSplit DEF LoopType, DiskType, StoreType, Down
<1>1. CASE Open \/ Reconcile
  <2>1. loop'.at \in {"open", "scan"} /\ loop'.todo = Id
    BY <1>1 DEF Open, Reconcile, StartScan
  <2>2. ReadInv' /\ PublishedInv'
    BY <2>1 DEF ReadInv, PublishedInv, Settled
  <2>3. MemInv'
    BY <1>1, <2>1 DEF Open, Reconcile, StartScan, ServeInv, MemInv, Serving, LoopAt, FlushOf, Parsed
  <2> QED
    BY <2>2, <2>3 DEF ServeInv
<1>2. CASE StartWatching
  <2>1. loop.at = "unwatched" /\ loop'.at = "wait"
    BY <1>0, <1>2 DEF StartWatching, LoopAt, Loop
  <2>2. ReadInv' /\ PublishedInv' /\ MemInv'
    BY <1>2, <2>1 DEF StartWatching, ReadInv, PublishedInv, MemInv, ServeInv, Settled, Scanning,
                      Serving, NoneTorn, FlushOf, Parsed, history
  <2> QED
    BY <2>2 DEF ServeInv
<1>3. ASSUME NEW i \in Id, ReadFile(i)
      PROVE  ServeInv'
  <2>1. /\ loop'.at = loop.at /\ loop.at \in {"open", "scan"} /\ loop'.todo = loop.todo \ {i}
        /\ \A j \in Id : loop'.seen[j] = IF j = i THEN disk[j] ELSE loop.seen[j]
    BY <1>0, <1>3 DEF ReadFile, Loop, Scanning
  <2>2. ReadInv'
    BY <1>3, <2>1 DEF ReadFile, ReadInv, ServeInv, Scanning, Settled
  <2>3. PublishedInv'
    BY <2>1 DEF PublishedInv
  <2>4. UNCHANGED <<disk, mem, source, task, failed>>
    BY <1>3 DEF ReadFile, history
  <2>5. MemInv'
    BY <2>1, <2>4 DEF MemInv, ServeInv, Serving, FlushOf, Parsed
  <2> QED
    BY <2>2, <2>3, <2>5 DEF ServeInv
<1>4. CASE Opened
  <2>1. /\ loop'.at = "unwatched" /\ source' = loop.seen /\ mem' = Parsed(loop.seen)
        /\ UNCHANGED <<disk, dirty, missed>>
    BY <1>0, <1>4 DEF Opened, SwapIn, Place
  <2>2. ~dirty /\ ~missed => loop.seen = disk
    <3>1. ~dirty /\ ~missed => \A i \in Id : loop.seen[i] = disk[i]
      BY <1>4 DEF Opened, LoopAt, ServeInv, ReadInv, Scanning
    <3> QED
      BY <1>0, <3>1 DEF Loop
  <2>3. ReadInv'
    BY <2>1, <2>2 DEF ReadInv, Scanning
  <2>4. MemInv'
    BY <2>1 DEF MemInv, Parsed
  <2>5. NoneTorn /\ loop.seen = disk => Failures(loop.seen) = {} /\ Parsed(loop.seen) = loop.seen
    BY <1>0 DEF NoneTorn, Failures, Parsed
  <2>6. PublishedInv'
    BY <1>4, <2>1, <2>2, <2>5 DEF PublishedInv, Opened, NoneTorn
  <2> QED
    BY <2>3, <2>4, <2>6 DEF ServeInv
<1>5. CASE Swap
  <2>0. loop.at = "scan" /\ loop.todo = {} /\ loop.seen \in [Id -> OnDisk]
    BY <1>0, <1>5 DEF Swap, LoopAt, Loop
  <2>1. /\ loop'.at = IF Failures(loop.seen) = {} THEN "publish" ELSE "wait"
        /\ UNCHANGED <<disk, dirty, missed, published, task, failed>>
    BY <1>0, <1>5 DEF Swap, Place, history
  <2>2. ~dirty /\ ~missed => loop.seen = disk
    <3>1. ~dirty /\ ~missed => \A i \in Id : loop.seen[i] = disk[i]
      BY <2>0 DEF ServeInv, ReadInv, Scanning
    <3> QED
      BY <1>0, <2>0, <3>1
  <2>3. NoneTorn /\ loop.seen = disk => Failures(loop.seen) = {}
    BY DEF NoneTorn, Failures
  <2>4. Failures(loop.seen) = {} => source' = loop.seen
    BY <1>5 DEF Swap, SwapIn
  <2>5. ReadInv'
    BY <2>1, <2>2, <2>3, <2>4 DEF ReadInv, Scanning, NoneTorn
  <2>6. MemInv'
    <3>1. CASE Failures(loop.seen) = {} /\ loop.seen # source
      <4>1. mem' = loop.seen /\ source' = loop.seen
        BY <1>5, <3>1 DEF Swap, SwapIn
      <4>2. Parsed(loop.seen) = loop.seen
        BY <2>0, <3>1 DEF Parsed, Failures
      <4> QED
        BY <4>1, <4>2 DEF MemInv, Parsed
    <3>2. CASE UNCHANGED <<mem, source>>
      BY <2>0, <2>1, <3>2 DEF MemInv, ServeInv, Serving, FlushOf, Parsed
    <3> QED
      BY <1>5, <3>1, <3>2 DEF Swap
  <2>7. PublishedInv'
    BY <2>1, <2>2, <2>3 DEF PublishedInv, NoneTorn
  <2> QED
    BY <2>5, <2>6, <2>7 DEF ServeInv
<1>6. CASE Publish
  <2>1. loop.at = "publish" /\ loop'.at = "wait" /\ published' = mem
    BY <1>0, <1>6 DEF Publish, LoopAt, Loop
  <2>2. ReadInv' /\ PublishedInv' /\ MemInv'
    BY <1>6, <2>1 DEF Publish, ReadInv, PublishedInv, MemInv, ServeInv, Settled, Scanning,
                      Serving, NoneTorn, FlushOf, Parsed, history
  <2> QED
    BY <2>2 DEF ServeInv
<1>7. CASE Crash
  BY <1>7 DEF Crash, Down, ServeInv, ReadInv, MemInv, PublishedInv, Scanning, Settled, Serving
<1> QED
  BY <1>1, <1>2, <1>3, <1>4, <1>5, <1>6, <1>7

LEMMA ServeCompile ==
  ASSUME TypeOK, ServeInv, StampInv', NEW t \in Task,
         \/ Identify(t) \/ ModelFails(t) \/ Upsert(t) \/ Truncate(t) \/ Fill(t) \/ FlushFails(t)
         \/ \E d \in Doc : Ingest(t, d)
  PROVE  ServeInv'
<1>0. TaskType /\ task[t] \in Job /\ mem \in [Id -> Indexed]
  BY TypeSplit DEF TaskType, StoreType
<1>1. ASSUME Identify(t) \/ ModelFails(t) \/ \E d \in Doc : Ingest(t, d)
      PROVE  ServeInv'
  <2>1. task[t].at # "flush" /\ \A u \in Task : u # t => task'[u] = task[u]
    BY <1>0, <1>1 DEF Identify, ModelFails, Ingest, TaskAt, TaskType
  <2>2. \A j : FlushOf(j) => FlushOf(j)'
    BY <2>1 DEF FlushOf
  <2> QED
    BY <1>1, <2>2, SameServes DEF Identify, ModelFails, Ingest, history
<1>2. CASE FlushFails(t)
  <2>1. failed' = failed \cup {task[t].id}
    BY <1>2 DEF FlushFails
  <2>2. \A j \in Id \ failed' : FlushOf(j) => FlushOf(j)'
    BY <1>0, <1>2, <2>1, FlushMoves DEF FlushFails
  <2> QED
    BY <1>2, <2>1, <2>2, SameServes DEF FlushFails
<1>3. CASE Upsert(t)
  <2>id. PICK i : i = task[t].id
    OBVIOUS
  <2>1. /\ \A j : (FlushOf(j) => FlushOf(j)')
        /\ FlushOf(i)'
    BY <1>0, <1>3, <2>id DEF Upsert, FlushOf, TaskAt, TaskType, Job
  <2>2. \A j \in Id : j # i => mem'[j] = mem[j]
    BY <1>0, <1>3, <2>id DEF Upsert
  <2>0. UNCHANGED <<disk, source, published, loop, dirty, missed, failed>>
    BY <1>3 DEF Upsert, history
  <2>3. ReadInv'
    BY <2>0 DEF ServeInv, ReadInv, Scanning, Settled, NoneTorn
  <2>4. MemInv'
    <3> SUFFICES ASSUME Serving', NEW j \in Id \ failed'
                 PROVE  \/ mem'[j] = Parsed(source)'[j] \/ FlushOf(j)'
                        \/ disk'[j] \in {Absent, Torn} \/ disk'[j] # source'[j]
      BY DEF MemInv
    <3>1. \/ mem[j] = Parsed(source)[j] \/ FlushOf(j)
          \/ disk[j] \in {Absent, Torn} \/ disk[j] # source[j]
      BY <2>0 DEF ServeInv, MemInv, Serving
    <3>2. Parsed(source)' = Parsed(source)
      BY <2>0 DEF Parsed
    <3> QED
      BY <2>0, <2>1, <2>2, <3>1, <3>2
  <2>5. PublishedInv'
    <3> SUFFICES ASSUME PublishedInv, loop.at \in {"unwatched", "wait"} /\ ~dirty /\ ~missed /\ NoneTorn,
                        NEW j \in Id \ failed
                 PROVE  published[j] = mem'[j] \/ FlushOf(j)'
      BY <2>0 DEF PublishedInv, NoneTorn, ServeInv
    <3> QED
      BY <2>1, <2>2 DEF PublishedInv
  <2> QED
    BY <2>3, <2>4, <2>5 DEF ServeInv
<1>4. CASE Truncate(t)
  <2>1. task[t].id \in Id
    BY <1>0, <1>4 DEF Truncate, TaskAt, TaskType, Formed, Job
  <2>2. \A j \in Id \ {task[t].id} : FlushOf(j) => FlushOf(j)'
    BY <1>0, <1>4 DEF Truncate, Goto, FlushOf, TaskType
  <2> QED
    BY <1>4, <2>1, <2>2, FileServes, Pages DEF Truncate, history
<1>5. CASE Fill(t)
  <2>1. t \in Writing /\ task[t].page \in Page /\ task[t].id \in Id
    BY <1>5, WritingPages DEF Fill, TaskAt, Writing
  <2>2. Unwritten(task[t].page)
    BY <2>1 DEF ServeInv, StampInv
  <2>3. \A j \in Id : FlushOf(j) => FlushOf(j)'
    BY <1>0, <1>5 DEF Fill, TaskAt, FlushOf, TaskType
  <2> QED
    BY <1>5, <2>1, <2>2, <2>3, FillServes DEF Fill, history
<1> QED
  BY <1>1, <1>2, <1>3, <1>4, <1>5

LEMMA ServeOutside ==
  ASSUME TypeOK, ServeInv, StampInv',
         OutsideDies \/ \E i \in Id : OutsideOpens(i) \/ OutsideWrites(i) \/ OutsideRemoves(i)
  PROVE  ServeInv'
<1>1. UNCHANGED task => \A j : FlushOf(j) => FlushOf(j)'
  BY DEF FlushOf
<1>2. CASE OutsideDies
  BY <1>1, <1>2, SameServes DEF OutsideDies, history
<1>3. ASSUME NEW i \in Id, OutsideOpens(i)
      PROVE  ServeInv'
  BY <1>1, <1>3, FileServes, Pages DEF OutsideOpens
<1>4. ASSUME NEW i \in Id, OutsideWrites(i)
      PROVE  ServeInv'
  <2>1. PICK x \in outside : x[1] = i /\ FillFile(i, x[2])
    BY <1>4 DEF OutsideWrites
  <2>2. x[2] \in Page /\ Unwritten(x[2])
    BY <2>1, TypeSplit DEF ServeInv, StampInv, RestType
  <2> QED
    BY <1>1, <1>4, <2>1, <2>2, FillServes DEF OutsideWrites, history
<1>5. ASSUME NEW i \in Id, OutsideRemoves(i)
      PROVE  ServeInv'
  BY <1>1, <1>5, FileServes, Pages DEF OutsideRemoves, history
<1> QED
  BY <1>2, <1>3, <1>4, <1>5

LEMMA ServeInit == Init => ServeInv
<1> SUFFICES ASSUME Init PROVE ServeInv
  OBVIOUS
<1>1. StampInv
  BY Pages DEF Init, StampInv, NoPage, Down, Below, Writing, Idle
<1>2. ReadInv /\ MemInv /\ PublishedInv
  BY DEF Init, Down, ReadInv, MemInv, PublishedInv, Scanning, Settled, Serving
<1> QED
  BY <1>1, <1>2 DEF ServeInv

LEMMA ServeStep == TypeOK /\ ServeInv /\ [Next]_vars => ServeInv'
<1> SUFFICES ASSUME TypeOK, ServeInv, [Next]_vars PROVE ServeInv'
  OBVIOUS
<1>1. CASE UNCHANGED vars
  <2>1. StampInv'
    BY <1>1, StampSame DEF vars, ServeInv
  <2>2. \A j : FlushOf(j) => FlushOf(j)'
    BY <1>1 DEF vars, FlushOf
  <2> QED
    BY <1>1, <2>1, <2>2, SameServes DEF vars, history
<1>2. CASE Next
  <2>1. StampInv'
    BY <1>2, StampServer, StampCompile, StampOutside DEF Next, ServeInv
  <2> QED
    BY <1>2, <2>1, ServeServer, ServeCompile, ServeOutside DEF Next
<1> QED
  BY <1>1, <1>2

LEMMA ServeImplies == TypeOK /\ ServeInv => ServesDisk
<1> SUFFICES ASSUME TypeOK, ServeInv, Quiet, NEW i \in Id \ failed, disk[i] # Absent
             PROVE  mem[i] = disk[i] /\ published[i] = disk[i]
  BY DEF ServesDisk
<1>1. loop.at = "wait" /\ ~dirty /\ ~missed /\ NoneTorn
  BY DEF Quiet, LoopAt, NoneTorn
<1>2. source = disk
  BY <1>1 DEF ServeInv, ReadInv, Settled
<1>3. ~FlushOf(i)
  BY DEF Quiet, Compiling, TaskAt, FlushOf
<1>4. mem[i] = Parsed(source)[i]
  BY <1>1, <1>2, <1>3 DEF ServeInv, MemInv, Serving, NoneTorn
<1>5. Parsed(disk)[i] = disk[i]
  BY <1>1 DEF Parsed, NoneTorn
<1>6. published[i] = mem[i]
  BY <1>1, <1>3 DEF ServeInv, PublishedInv
<1> QED
  BY <1>2, <1>4, <1>5, <1>6

\* No wake-up is lost: when all is quiet, memory and the published snapshot hold
\* every page as it is on disk, for any number of compiles, crashes, scans and
\* writes by other processes (the loop of pk-cherry, reconcile_from_disk).
THEOREM NoWakeUpLost == Spec => []ServesDisk
BY ServeInit, ServeStep, ServeImplies, TypeCorrect, PTL DEF Spec

-----------------------------------------------------------------------------
(* One page per content *)

PageOf(c, d) == c \in Page /\ c.doc = d

\* Everything that carries a content, or will.
Carries(i, d) ==
  \/ PageOf(disk[i], d) \/ PageOf(mem[i], d) \/ PageOf(loop.seen[i], d)
  \/ \E t \in Writing : task[t].id = i /\ task[t].page.doc = d
  \/ \E x \in outside : x[1] = i /\ x[2].doc = d

OneHome == \A d \in Doc : \A i, j \in Id : Carries(i, d) /\ Carries(j, d) => i = j

\* A compile is alone with a settled server and with what it knows of the disk.
Alone == \A t \in Compiling : Settled /\ ~foreign /\ \A u \in Compiling : u = t

\* A compile writes to the page that has its content, if there is one.
WritesHome ==
  \A t \in Task :
    /\ task[t].at = "upsert" => hashes[task[t].doc] \in {NoId, task[t].id}
    /\ t \in Writing => PageOf(mem[task[t].id], task[t].page.doc)

IndexComplete == \A d \in Doc : \A i \in Id : PageOf(mem[i], d) => hashes[d] # NoId

\* Memory knows the content of every page, or is about to replace it.
Known == \A i \in Id : \A d \in Doc : PageOf(disk[i], d) => PageOf(mem[i], d) \/ FlushOf(i)

KnownInv ==
  ~foreign =>
    /\ Settled => Known
    /\ Scanning => \A i \in Id \ loop.todo : disk[i] # Absent => loop.seen[i] = disk[i]
    /\ LoopAt("scan") => Known \/ (NoneTorn /\ \A i \in Id : loop.seen[i] # Torn)

HomeInv ==
  /\ outside # {} => foreign
  /\ ~Scanning => loop.seen = NoPage
  /\ failed # {} => raced
  /\ ~raced => OneHome /\ Alone /\ WritesHome /\ IndexComplete /\ KnownInv

\* What id i may come to hold without carrying anything new.
Held(i, c) == \A d \in Doc : PageOf(c, d) => Carries(i, d)

LEMMA HeldFacts ==
  /\ \A i : Held(i, disk[i]) /\ Held(i, mem[i]) /\ Held(i, loop.seen[i]) /\ Held(i, Absent) /\ Held(i, Torn)
  /\ \A t \in Writing : Held(task[t].id, task[t].page)
  /\ \A x \in outside : Held(x[1], x[2])
BY Pages DEF Held, PageOf, Carries, Indexed, OnDisk

LEMMA CarryKeeps ==
  ASSUME OneHome,
         \A i \in Id : Held(i, disk'[i]) /\ Held(i, mem'[i]) /\ Held(i, loop'.seen[i]),
         \A t \in Writing' : \A d \in Doc : task'[t].page.doc = d => Carries(task'[t].id, d),
         \A x \in outside' : \A d \in Doc : x[2].doc = d => Carries(x[1], d)
  PROVE  OneHome'
<1>1. \A i \in Id, d \in Doc : Carries(i, d)' => Carries(i, d)
  BY DEF Carries, Held, PageOf
<1> QED
  BY <1>1 DEF OneHome

\* The same pages to write.
SameWriting == \A t \in Writing' : t \in Writing /\ task'[t].page = task[t].page /\ task'[t].id = task[t].id

LEMMA CarrySame ==
  ASSUME OneHome, SameWriting, outside' \subseteq outside,
         \A i \in Id : Held(i, disk'[i]) /\ Held(i, mem'[i]) /\ Held(i, loop'.seen[i])
  PROVE  OneHome'
<1>1. \A t \in Writing' : \A d \in Doc : task'[t].page.doc = d => Carries(task'[t].id, d)
  BY DEF SameWriting, Carries
<1>2. \A x \in outside' : \A d \in Doc : x[2].doc = d => Carries(x[1], d)
  BY DEF Carries
<1> QED
  BY <1>1, <1>2, CarryKeeps

\* The parts of HomeInv that need no other.
Basics == /\ outside # {} => foreign
          /\ ~Scanning => loop.seen = NoPage
          /\ failed # {} => raced

Home == OneHome /\ Alone /\ WritesHome /\ IndexComplete /\ KnownInv

LEMMA HomeSplit == /\ HomeInv <=> Basics /\ (~raced => Home)
                   /\ HomeInv' <=> Basics' /\ (~raced' => Home')
BY DEF HomeInv, Basics, Home

LEMMA ScanFacts ==
  ASSUME Open \/ Reconcile
  PROVE  /\ UNCHANGED <<disk, mem, hashes, task, outside, failed>>
         /\ loop'.at \in {"open", "scan"} /\ loop'.todo = Id /\ loop'.seen = NoPage
         /\ loop'.at = "scan" => LoopAt("wait")
         /\ foreign /\ outside # {} => foreign'
         /\ ~foreign' => ~foreign \/ NoneTorn
         /\ raced => raced'
         /\ ~raced' => Compiling = {}
<1>1. /\ UNCHANGED <<disk, mem, hashes, task, outside, failed>>
      /\ loop'.at \in {"open", "scan"} /\ loop'.todo = Id /\ loop'.seen = NoPage
      /\ loop'.at = "scan" => LoopAt("wait")
  BY DEF Open, Reconcile, StartScan
<1>2. StartScan("open") \/ StartScan("scan")
  BY DEF Open, Reconcile
<1>3. /\ foreign /\ outside # {} => foreign'
      /\ ~foreign' => ~foreign \/ NoneTorn
      /\ raced => raced'
      /\ ~raced' => Compiling = {}
  BY <1>2, Zenon DEF StartScan, NoneTorn
<1> QED
  BY <1>1, <1>3

LEMMA BasicsStep ==
  ASSUME TypeOK, Basics, Next
  PROVE  Basics' /\ (raced => raced')
<1>0. /\ loop \in Loop
      /\ \A place \in Place : [Down EXCEPT !.at = place].at = place
      /\ \A place \in Place : [Down EXCEPT !.at = place].seen = NoPage
  BY TypeSplit DEF LoopType, Down, NoPage
<1>1. CASE Open \/ Reconcile
  BY <1>1, ScanFacts DEF Basics, Scanning
<1>2. CASE StartWatching \/ Publish
  BY <1>0, <1>2 DEF StartWatching, Publish, Basics, Scanning, history, LoopAt, Loop
<1>3. ASSUME NEW i \in Id, ReadFile(i) PROVE Basics' /\ (raced => raced')
  <2>1. loop'.at = loop.at /\ Scanning
    BY <1>0, <1>3 DEF ReadFile, Loop
  <2> QED
    BY <1>3, <2>1 DEF ReadFile, Basics, Scanning, history
<1>4. CASE Opened \/ Swap
  <2>1. loop'.seen = NoPage
    BY <1>0, <1>4 DEF Opened, Swap, Place
  <2> QED
    BY <1>4, <2>1 DEF Opened, Swap, Basics, Scanning, history
<1>5. CASE Crash
  BY <1>5 DEF Crash, Basics, Scanning, Down, NoPage
<1>6. CASE OutsideDies
  BY <1>6 DEF OutsideDies, Basics, Scanning, history
<1>7. ASSUME NEW i \in Id, OutsideOpens(i) \/ OutsideWrites(i) \/ OutsideRemoves(i)
      PROVE  Basics' /\ (raced => raced')
  BY <1>7 DEF OutsideOpens, OutsideWrites, OutsideRemoves, Basics, Scanning, history
<1>8. ASSUME NEW t \in Task,
             \/ Identify(t) \/ ModelFails(t) \/ Upsert(t) \/ Truncate(t) \/ Fill(t) \/ FlushFails(t)
             \/ \E d \in Doc : Ingest(t, d)
      PROVE  Basics' /\ (raced => raced')
  BY <1>8 DEF Identify, ModelFails, Upsert, Truncate, Fill, FlushFails, Ingest, Basics, Scanning, history
<1> QED
  BY <1>1, <1>2, <1>3, <1>4, <1>5, <1>6, <1>7, <1>8 DEF Next

\* Nobody compiles while the server scans.
LEMMA ScanAlone == Alone /\ Scanning => Compiling = {}
BY DEF Alone, Scanning, Settled

LEMMA NoCompile ==
  ASSUME Compiling = {}, UNCHANGED task
  PROVE  Alone' /\ WritesHome' /\ Writing = {} /\ SameWriting
<1>1. \A t \in Task : task'[t].at = "idle" /\ task[t].at = "idle"
  BY DEF Compiling, TaskAt
<1>2. Compiling' = {} /\ Writing' = {} /\ Writing = {}
  BY <1>1 DEF Compiling, TaskAt, Writing
<1> QED
  BY <1>1, <1>2 DEF Alone, WritesHome, SameWriting

LEMMA HomeScan ==
  ASSUME TypeOK, Basics, Home, Open \/ Reconcile, ~raced'
  PROVE  Home'
<1>1. /\ Compiling = {} /\ UNCHANGED <<disk, mem, hashes, task, outside>>
      /\ loop'.at \in {"open", "scan"} /\ loop'.todo = Id /\ loop'.seen = NoPage
      /\ ~foreign' => ~foreign \/ NoneTorn
      /\ loop'.at = "scan" => LoopAt("wait")
  BY ScanFacts
<1>2. Alone' /\ WritesHome' /\ SameWriting
  BY <1>1, NoCompile
<1>3. OneHome'
  BY <1>1, <1>2, CarrySame, HeldFacts DEF NoPage, Home
<1>4. IndexComplete'
  BY <1>1 DEF IndexComplete, Home
<1>5. KnownInv'
  <2>1. loop'.at = "scan" => Settled
    BY <1>1 DEF LoopAt, Settled
  <2>2. Known => Known'
    BY <1>1 DEF Known, FlushOf
  <2>3. \A i \in Id : loop'.seen[i] # Torn
    BY <1>1 DEF NoPage, Absent, Torn
  <2>4. NoneTorn => NoneTorn'
    BY <1>1 DEF NoneTorn
  <2> QED
    BY <1>1, <2>1, <2>2, <2>3, <2>4 DEF KnownInv, Home, LoopAt, Scanning, Settled
<1> QED
  BY <1>2, <1>3, <1>4, <1>5 DEF Home

LEMMA HomeRead ==
  ASSUME TypeOK, Basics, Home, NEW i \in Id, ReadFile(i)
  PROVE  Home'
<1>0. loop \in Loop
  BY TypeSplit DEF LoopType
<1>1. /\ UNCHANGED <<disk, mem, hashes, task, outside, foreign>> /\ Scanning
      /\ loop'.at = loop.at /\ loop'.todo = loop.todo \ {i}
      /\ \A j \in Id : loop'.seen[j] = IF j = i THEN disk[j] ELSE loop.seen[j]
  BY <1>0 DEF ReadFile, Loop, history
<1>2. Alone' /\ WritesHome' /\ SameWriting
  BY <1>1, NoCompile, ScanAlone DEF Home
<1>3. OneHome'
  BY <1>1, <1>2, CarrySame, HeldFacts DEF Home
<1>4. IndexComplete'
  BY <1>1 DEF IndexComplete, Home
<1>5. Known => Known'
  BY <1>1 DEF Known, FlushOf
<1>6. NoneTorn /\ (\A j \in Id : loop.seen[j] # Torn) => NoneTorn' /\ \A j \in Id : loop'.seen[j] # Torn
  BY <1>1 DEF NoneTorn
<1>7. KnownInv'
  BY <1>1, <1>5, <1>6 DEF KnownInv, Home, LoopAt, Scanning, Settled
<1> QED
  BY <1>2, <1>3, <1>4, <1>7 DEF Home

\* The scan is swapped in.
LEMMA HomeSwapIn ==
  ASSUME TypeOK, Basics, Home, Scanning, loop.todo = {},
         NEW entries \in [Id -> Indexed], \A i \in Id : entries[i] = loop.seen[i] \/ loop.seen[i] = Torn,
         \A i \in Id : loop.seen[i] = Torn => entries[i] = Absent,
         SwapIn(entries), UNCHANGED <<disk, task, outside, foreign>>,
         loop'.seen = NoPage, Settled'
  PROVE  Home'
<1>1. Alone' /\ WritesHome' /\ SameWriting
  BY NoCompile, ScanAlone DEF Home
<1>2. mem' = entries
  BY DEF SwapIn
<1>3. OneHome'
  <2>1. \A i \in Id : Held(i, disk'[i]) /\ Held(i, mem'[i]) /\ Held(i, loop'.seen[i])
    BY <1>2, HeldFacts DEF NoPage
  <2> QED
    BY <1>1, <2>1, CarrySame DEF Home
<1>4. IndexComplete'
  <2> SUFFICES ASSUME NEW d \in Doc, NEW i \in Id, PageOf(mem'[i], d)
               PROVE  hashes'[d] # NoId
    BY DEF IndexComplete
  <2> DEFINE pages == {j \in Id : entries[j] # Absent /\ entries[j].doc = d}
  <2>1. IF pages = {} THEN hashes'[d] = NoId ELSE hashes'[d] \in pages
    BY DEF SwapIn, IsHashIndex
  <2>2. i \in pages
    BY <1>2, Pages DEF PageOf
  <2> QED
    BY <2>1, <2>2, KnowledgeStoreAssumption
<1>5. KnownInv'
  <2>1. ~foreign => \A i \in Id : disk[i] # Absent => loop.seen[i] = disk[i]
    BY DEF Home, KnownInv
  <2>2. ~foreign => Known'
    BY <1>2, <2>1, Pages DEF Known, PageOf, OnDisk
  <2> QED
    BY <2>2 DEF KnownInv, Settled, Scanning, LoopAt
<1> QED
  BY <1>1, <1>3, <1>4, <1>5 DEF Home

LEMMA HomeSwap ==
  ASSUME TypeOK, ServeInv, Basics, Home, ~raced, Opened \/ Swap
  PROVE  Home'
<1>0. /\ loop \in Loop /\ disk \in [Id -> OnDisk]
      /\ \A place \in Place : [Down EXCEPT !.at = place].at = place
      /\ \A place \in Place : [Down EXCEPT !.at = place].seen = NoPage
  BY TypeSplit DEF LoopType, DiskType, Down, NoPage
<1>1. /\ Scanning /\ loop.todo = {} /\ loop.seen \in [Id -> OnDisk]
      /\ UNCHANGED <<disk, task, outside, foreign>> /\ loop'.seen = NoPage /\ Settled'
  BY <1>0 DEF Opened, Swap, LoopAt, Loop, Scanning, Settled, Place, history
<1>2. CASE Opened
  <2>1. SwapIn(Parsed(loop.seen)) /\ Parsed(loop.seen) \in [Id -> Indexed]
    BY <1>1, <1>2, ParsedType DEF Opened
  <2>2. \A i \in Id : /\ Parsed(loop.seen)[i] = loop.seen[i] \/ loop.seen[i] = Torn
                      /\ loop.seen[i] = Torn => Parsed(loop.seen)[i] = Absent
    BY DEF Parsed
  <2> QED
    BY <1>1, <2>1, <2>2, HomeSwapIn
<1>3. CASE Swap /\ Failures(loop.seen) = {} /\ loop.seen # source
  <2>1. SwapIn(loop.seen) /\ loop.seen \in [Id -> Indexed]
    BY <1>1, <1>3, ParsedType DEF Swap
  <2>2. \A i \in Id : loop.seen[i] # Torn
    BY <1>3 DEF Failures
  <2> QED
    BY <1>1, <2>1, <2>2, HomeSwapIn
<1>4. CASE Swap /\ ~(Failures(loop.seen) = {} /\ loop.seen # source)
  <2>0. UNCHANGED <<mem, hashes>> /\ LoopAt("scan")
    BY <1>4 DEF Swap
  <2>1. Alone' /\ WritesHome' /\ SameWriting /\ Writing = {}
    BY <1>1, NoCompile, ScanAlone DEF Home
  <2>2. OneHome'
    <3>1. \A i \in Id : Held(i, disk'[i]) /\ Held(i, mem'[i]) /\ Held(i, loop'.seen[i])
      BY <1>1, <2>0, HeldFacts DEF NoPage
    <3> QED
      BY <1>1, <2>1, <3>1, CarrySame DEF Home
  <2>3. IndexComplete'
    BY <2>0 DEF IndexComplete, Home
  <2>4. ~foreign => Known
    <3>1. CASE Failures(loop.seen) # {}
      BY <2>0, <3>1 DEF Home, KnownInv, Failures
    <3>2. CASE loop.seen = source
      <4> SUFFICES ASSUME ~foreign, NEW i \in Id, NEW d \in Doc, PageOf(disk[i], d)
                   PROVE  PageOf(mem[i], d)
        BY DEF Known
      <4>1. disk[i] # Absent /\ disk[i] # Torn
        BY Pages DEF PageOf
      <4>2. source[i] = disk[i]
        BY <1>1, <3>2, <4>1 DEF Home, KnownInv
      <4>3. i \notin failed /\ Serving
        BY <2>0 DEF Basics, Serving, LoopAt
      <4>4. ~FlushOf(i)
        BY <2>1 DEF FlushOf, Writing
      <4>5. mem[i] = Parsed(source)[i]
        BY <4>1, <4>2, <4>3, <4>4 DEF ServeInv, MemInv
      <4> QED
        BY <4>1, <4>2, <4>5 DEF Parsed
    <3> QED
      BY <1>4, <3>1, <3>2
  <2>5. Known => Known'
    BY <1>1, <2>0 DEF Known, FlushOf
  <2>6. KnownInv'
    BY <1>1, <2>4, <2>5 DEF KnownInv, Settled, Scanning, LoopAt
  <2> QED
    BY <2>1, <2>2, <2>3, <2>6 DEF Home
<1> QED
  BY <1>2, <1>3, <1>4

LEMMA HomeServer ==
  ASSUME TypeOK, Basics, Home, ~raced, StartWatching \/ Publish \/ Crash
  PROVE  Home'
<1>0. loop \in Loop
  BY TypeSplit DEF LoopType
<1>1. CASE StartWatching \/ Publish
  <2>1. /\ UNCHANGED <<disk, mem, hashes, task, outside, foreign>>
        /\ Settled /\ Settled' /\ ~Scanning' /\ ~LoopAt("scan")' /\ loop'.seen = loop.seen
    BY <1>0, <1>1 DEF StartWatching, Publish, LoopAt, Loop, Settled, Scanning, history
  <2>2. OneHome'
    <3>1. SameWriting
      BY <2>1 DEF SameWriting, Writing
    <3> QED
      BY <2>1, <3>1, CarrySame, HeldFacts DEF Home
  <2>3. Alone' /\ WritesHome' /\ IndexComplete'
    BY <2>1 DEF Home, Alone, WritesHome, IndexComplete, Compiling, TaskAt, Writing
  <2>4. KnownInv'
    <3>1. Known => Known'
      BY <2>1 DEF Known, FlushOf
    <3> QED
      BY <2>1, <3>1 DEF Home, KnownInv
  <2> QED
    BY <2>2, <2>3, <2>4 DEF Home
<1>2. CASE Crash
  <2>1. /\ UNCHANGED <<disk, outside>> /\ loop' = Down
        /\ \A i \in Id : mem'[i] = Absent /\ loop'.seen[i] = Absent
        /\ \A t \in Task : task'[t].at = "idle"
    BY <1>2 DEF Crash, NoPage, Down, Idle
  <2>2. OneHome'
    <3>1. SameWriting
      BY <2>1 DEF SameWriting, Writing
    <3> QED
      BY <2>1, <3>1, CarrySame, HeldFacts DEF Home
  <2>3. Alone' /\ WritesHome'
    BY <2>1 DEF Alone, WritesHome, Compiling, TaskAt, Writing
  <2>4. IndexComplete'
    BY <2>1, Pages DEF IndexComplete, PageOf
  <2>5. KnownInv'
    BY <2>1 DEF KnownInv, Settled, Scanning, LoopAt, Down
  <2> QED
    BY <2>2, <2>3, <2>4, <2>5 DEF Home
<1> QED
  BY <1>1, <1>2

\* Only a compile that writes nothing yet changes.
LEMMA HomeTask ==
  ASSUME Home, UNCHANGED <<disk, mem, hashes, loop, outside, foreign>>,
         NEW t \in Task, task[t].at \notin {"flush", "fill"}, task'[t].at \notin {"flush", "fill"},
         \A u \in Task : u # t => task'[u] = task[u]
  PROVE  OneHome' /\ IndexComplete' /\ KnownInv' /\ \A u \in Writing' : u \in Writing /\ task'[u] = task[u]
<1>1. \A u \in Writing' : u \in Writing /\ task'[u] = task[u]
  BY DEF Writing
<1>2. SameWriting
  BY <1>1 DEF SameWriting
<1>3. OneHome'
  BY <1>2, CarrySame, HeldFacts DEF Home
<1>4. Known => Known'
  <2>1. \A j : FlushOf(j) => FlushOf(j)'
    BY DEF FlushOf
  <2> QED
    BY <2>1 DEF Known
<1>5. KnownInv'
  BY <1>4 DEF Home, KnownInv, Settled, Scanning, LoopAt, NoneTorn
<1>6. IndexComplete'
  BY DEF Home, IndexComplete
<1> QED
  BY <1>1, <1>3, <1>5, <1>6

LEMMA HomeAsk ==
  ASSUME TypeOK, Basics, Home, NEW t \in Task, ~raced',
         Identify(t) \/ ModelFails(t) \/ \E d \in Doc : Ingest(t, d)
  PROVE  Home'
<1>0. TaskType /\ loop \in Loop /\ hashes \in [Doc -> Id \cup {NoId}]
  BY TypeSplit DEF StoreType, LoopType
<1>1. /\ UNCHANGED <<disk, mem, hashes, loop, outside, foreign>>
      /\ \A u \in Task : u # t => task'[u] = task[u]
      /\ task[t].at \notin {"flush", "fill"}
  BY <1>0 DEF Identify, ModelFails, Ingest, TaskAt, TaskType, history
<1>2. ASSUME NEW d \in Doc, Ingest(t, d) PROVE Home'
  <2>1. task'[t].at = "ask"
    BY <1>0, <1>2 DEF Ingest, TaskType
  <2>2. OneHome' /\ IndexComplete' /\ KnownInv' /\ \A u \in Writing' : u \in Writing /\ task'[u] = task[u]
    BY <1>1, <2>1, HomeTask
  <2>3. WritesHome'
    BY <1>1, <2>1, <2>2 DEF Home, WritesHome
  <2>4. Compiling = {} /\ ~Scanning /\ ~foreign /\ Serving
    BY <1>2, Zenon DEF Ingest
  <2>5. Settled
    BY <1>0, <2>4 DEF Settled, Serving, Scanning, Loop, Place
  <2>6. \A u \in Compiling' : u = t
    BY <1>1, <2>4 DEF Compiling, TaskAt
  <2>7. Alone'
    BY <1>1, <2>4, <2>5, <2>6 DEF Alone, Settled
  <2> QED
    BY <2>2, <2>3, <2>7 DEF Home
<1>3. CASE Identify(t)
  <2>1. task'[t].at = "upsert" /\ task[t].at = "ask"
    BY <1>0, <1>3 DEF Identify, TaskAt, TaskType, Job
  <2>2. OneHome' /\ IndexComplete' /\ KnownInv' /\ \A u \in Writing' : u \in Writing /\ task'[u] = task[u]
    BY <1>1, <2>1, HomeTask
  <2>3. hashes[task'[t].doc] \in {NoId, task'[t].id}
    <3>1. PICK title \in Id :
            task' = [task EXCEPT ![t].at = "upsert",
                                 ![t].id = IF FindDuplicate(t) # NoId THEN FindDuplicate(t) ELSE title]
      BY <1>3 DEF Identify
    <3>2. /\ task'[t].doc = task[t].doc
          /\ task'[t].id = IF FindDuplicate(t) # NoId THEN FindDuplicate(t) ELSE title
      BY <1>0, <3>1 DEF TaskType, Job
    <3> QED
      BY <3>2 DEF FindDuplicate
  <2>4. WritesHome'
    BY <1>1, <2>1, <2>2, <2>3 DEF Home, WritesHome
  <2>5. Compiling' = Compiling
    BY <1>1, <2>1 DEF Compiling, TaskAt
  <2>6. Alone'
    BY <1>1, <2>5 DEF Home, Alone, Settled
  <2> QED
    BY <2>2, <2>4, <2>6 DEF Home
<1>4. CASE ModelFails(t)
  <2>1. task'[t].at = "idle"
    BY <1>0, <1>4 DEF ModelFails, TaskType, Idle
  <2>2. OneHome' /\ IndexComplete' /\ KnownInv' /\ \A u \in Writing' : u \in Writing /\ task'[u] = task[u]
    BY <1>1, <2>1, HomeTask
  <2>3. WritesHome'
    BY <1>1, <2>1, <2>2 DEF Home, WritesHome
  <2>4. Compiling' \subseteq Compiling
    BY <1>1, <2>1 DEF Compiling, TaskAt
  <2>5. Alone'
    BY <1>1, <2>4 DEF Home, Alone, Settled
  <2> QED
    BY <2>2, <2>3, <2>5 DEF Home
<1> QED
  BY <1>2, <1>3, <1>4

\* The entry is where its content has been so far, if it has been anywhere.
LEMMA HomeUpsert ==
  ASSUME TypeOK, HashIndexSound, Basics, Home, NEW t \in Task, Upsert(t)
  PROVE  Home'
<1>0. /\ TaskType /\ mem \in [Id -> Indexed] /\ hashes \in [Doc -> Id \cup {NoId}] /\ stamps \in Nat
      /\ task[t] \in Job /\ Formed(task[t]) /\ task[t].at = "upsert"
  BY TypeSplit DEF StoreType, RestType, TaskType, Upsert, TaskAt
<1> PICK i, d, p : /\ i = task[t].id /\ d = task[t].doc
                   /\ p = [kind |-> "page", doc |-> d, rev |-> NewRevision(i), stamp |-> stamps]
  OBVIOUS
<1>1. i \in Id /\ d \in Doc /\ p \in Page /\ p.doc = d /\ PageOf(p, d)
  BY <1>0, NewRevisionType DEF Formed, Job, Page, PageOf
<1>2. /\ mem' = [mem EXCEPT ![i] = p] /\ Rehash(i, d)
      /\ task'[t].page = p /\ task'[t].id = i /\ task'[t].at = "flush"
      /\ \A u \in Task : u # t => task'[u] = task[u]
      /\ UNCHANGED <<disk, loop, outside, foreign>>
  BY <1>0 DEF Upsert, TaskType, Job, history
<1>3. Settled /\ ~foreign /\ (\A u \in Compiling : u = t) /\ outside = {} /\ loop.seen = NoPage
  <2>1. t \in Compiling
    BY <1>0 DEF Compiling, TaskAt
  <2> QED
    BY <2>1 DEF Home, Alone, Basics, Settled, Scanning
<1>4. Writing = {} /\ \A j : ~FlushOf(j)
  <2>1. \A u \in Task : task[u].at \in {"flush", "fill"} => u = t
    BY <1>3 DEF Compiling, TaskAt
  <2> QED
    BY <1>0, <2>1 DEF Writing, FlushOf
<1>5. \A j \in Id : Carries(j, d) => j = i
  <2>1. \A j \in Id : PageOf(mem[j], d) => j = i
    <3> SUFFICES ASSUME NEW j \in Id, PageOf(mem[j], d) PROVE j = i
      OBVIOUS
    <3>1. hashes[d] # NoId
      BY <1>1 DEF Home, IndexComplete
    <3>2. hashes[d] = i
      BY <1>0, <3>1 DEF Home, WritesHome
    <3>3. mem[i] # Absent /\ mem[i].doc = d
      BY <1>1, <3>1, <3>2 DEF HashIndexSound
    <3>4. PageOf(mem[i], d)
      BY <1>0, <1>1, <3>3 DEF PageOf, Indexed
    <3>5. Carries(i, d) /\ Carries(j, d)
      BY <3>4 DEF Carries
    <3> QED
      BY <1>1, <3>5 DEF Home, OneHome
  <2>2. \A j \in Id : PageOf(disk[j], d) => PageOf(mem[j], d)
    BY <1>1, <1>3, <1>4 DEF Home, KnownInv, Known
  <2>3. \A j \in Id : ~PageOf(loop.seen[j], d)
    BY <1>3, Pages DEF NoPage, PageOf
  <2> QED
    BY <1>3, <1>4, <2>1, <2>2, <2>3 DEF Carries
<1>6. \A u \in Writing' : u = t
  BY <1>2, <1>4 DEF Writing
<1>7. OneHome'
  <2>1. \A j \in Id, e \in Doc : Carries(j, e)' => Carries(j, e) \/ (j = i /\ e = d)
    <3> SUFFICES ASSUME NEW j \in Id, NEW e \in Doc, Carries(j, e)'
                 PROVE  Carries(j, e) \/ (j = i /\ e = d)
      OBVIOUS
    <3>1. CASE PageOf(mem'[j], e)
      BY <1>0, <1>1, <1>2, <3>1 DEF PageOf, Carries
    <3>2. CASE PageOf(disk'[j], e) \/ PageOf(loop'.seen[j], e)
      BY <1>2, <3>2 DEF Carries
    <3>3. CASE \E u \in Writing' : task'[u].id = j /\ task'[u].page.doc = e
      BY <1>1, <1>2, <1>6, <3>3
    <3>4. CASE \E x \in outside' : x[1] = j /\ x[2].doc = e
      BY <1>2, <3>4 DEF Carries
    <3> QED
      BY <3>1, <3>2, <3>3, <3>4 DEF Carries
  <2>2. \A e \in Doc, j, k \in Id : Carries(j, e) /\ Carries(k, e) => j = k
    BY DEF Home, OneHome
  <2> QED
    BY <1>1, <1>5, <2>1, <2>2 DEF OneHome
<1>8. Alone'
  <2>1. \A u \in Compiling' : u = t
    <3>1. Compiling' \subseteq Compiling
      BY <1>0, <1>2 DEF Compiling, TaskAt
    <3> QED
      BY <1>3, <3>1
  <2> QED
    BY <1>2, <1>3, <2>1 DEF Alone, Settled
<1>9. WritesHome'
  <2>1. \A u \in Task : u # t => task'[u].at # "upsert"
    BY <1>2, <1>3 DEF Compiling, TaskAt
  <2>2. PageOf(mem'[i], d)
    BY <1>0, <1>1, <1>2
  <2> QED
    BY <1>1, <1>2, <1>6, <2>1, <2>2 DEF WritesHome
<1>10. IndexComplete'
  <2> SUFFICES ASSUME NEW e \in Doc, NEW j \in Id, PageOf(mem'[j], e)
               PROVE  hashes'[e] # NoId
    BY DEF IndexComplete
  <2>1. hashes'[e] = IF e = d THEN i
                     ELSE IF mem[i] # Absent /\ mem[i].doc = e THEN NoId ELSE hashes[e]
    BY <1>2 DEF Rehash
  <2>2. CASE e = d
    BY <1>1, <2>1, <2>2, KnowledgeStoreAssumption
  <2>3. CASE e # d
    <3>1. j # i
      BY <1>0, <1>1, <1>2, <2>3 DEF PageOf
    <3>2. PageOf(mem[j], e)
      BY <1>0, <1>2, <3>1
    <3>3. ~PageOf(mem[i], e)
      <4>1. Carries(j, e)
        BY <3>2 DEF Carries
      <4>2. PageOf(mem[i], e) => Carries(i, e)
        BY DEF Carries
      <4> QED
        BY <1>1, <3>1, <4>1, <4>2 DEF Home, OneHome
    <3>4. hashes'[e] = hashes[e]
      BY <1>0, <1>1, <2>1, <2>3, <3>3 DEF PageOf, Indexed
    <3> QED
      BY <3>2, <3>4 DEF Home, IndexComplete
  <2> QED
    BY <2>2, <2>3
<1>11. KnownInv'
  <2>1. Known'
    <3>1. FlushOf(i)'
      BY <1>2 DEF FlushOf
    <3>2. \A j \in Id : j # i => mem'[j] = mem[j]
      BY <1>0, <1>2
    <3>3. Known
      BY <1>3 DEF Home, KnownInv
    <3> QED
      BY <1>2, <1>4, <3>1, <3>2, <3>3 DEF Known
  <2> QED
    BY <1>2, <1>3, <2>1 DEF KnownInv, Settled, Scanning, LoopAt
<1> QED
  BY <1>7, <1>8, <1>9, <1>10, <1>11 DEF Home

\* A compile that is writing is alone, and memory has the content it writes.
LEMMA HomeTruncate ==
  ASSUME TypeOK, Basics, Home, NEW t \in Task, Truncate(t)
  PROVE  Home'
<1>0. TaskType /\ disk \in [Id -> OnDisk]
  BY TypeSplit DEF DiskType
<1>1. /\ task[t].at = "flush" /\ task'[t].at = "fill" /\ task'[t].id = task[t].id
      /\ task'[t].page = task[t].page /\ \A u \in Task : u # t => task'[u] = task[u]
      /\ UNCHANGED <<mem, hashes, loop, outside, foreign>>
      /\ \A j \in Id : disk'[j] = IF j = task[t].id THEN Torn ELSE disk[j]
  BY <1>0 DEF Truncate, Goto, TaskAt, TaskType, Job, Put, history
<1>2. Settled
  BY <1>1 DEF Home, Alone, Compiling, TaskAt
<1>3. SameWriting
  BY <1>1 DEF SameWriting, Writing
<1>4. OneHome'
  BY <1>1, <1>3, CarrySame, HeldFacts DEF Home
<1>5. Compiling' = Compiling
  BY <1>1 DEF Compiling, TaskAt
<1>6. Alone'
  BY <1>1, <1>5 DEF Home, Alone, Settled
<1>7. WritesHome'
  <2>1. \A u \in Task : task'[u].at = "upsert" => task[u].at = "upsert" /\ task'[u] = task[u]
    BY <1>1
  <2> QED
    BY <1>1, <1>3, <2>1 DEF Home, WritesHome, SameWriting
<1>8. IndexComplete'
  BY <1>1 DEF Home, IndexComplete
<1>9. Known => Known'
  <2>1. \A j : j # task[t].id /\ FlushOf(j) => FlushOf(j)'
    BY <1>1 DEF FlushOf
  <2> QED
    BY <1>1, <2>1, Pages DEF Known, PageOf
<1>10. KnownInv'
  BY <1>1, <1>2, <1>9 DEF Home, KnownInv, Settled, Scanning, LoopAt
<1> QED
  BY <1>4, <1>6, <1>7, <1>8, <1>10 DEF Home

\* What fills a file has the content of the page it is filled with.
LEMMA FillContent ==
  ASSUME TypeOK, NEW i \in Id, NEW p \in Page, FillFile(i, p)
  PROVE  \A j \in Id : disk'[j] = disk[j] \/ (j = i /\ disk'[j] \in Page /\ disk'[j].doc = p.doc)
<1>0. disk \in [Id -> OnDisk] /\ stamps \in Nat
  BY DEF TypeOK
<1>1. CASE UNCHANGED disk
  BY <1>1
<1>2. CASE Put(i, p)
  BY <1>0, <1>2 DEF Put
<1>3. CASE Put(i, [p EXCEPT !.stamp = stamps])
  <2> DEFINE c == [p EXCEPT !.stamp = stamps]
  <2>1. c \in Page /\ c.doc = p.doc
    BY <1>0 DEF Page
  <2>2. disk' = [disk EXCEPT ![i] = c]
    BY <1>3 DEF Put
  <2> HIDE DEF c
  <2> QED
    BY <1>0, <2>1, <2>2
<1> QED
  BY <1>1, <1>2, <1>3 DEF FillFile

LEMMA HomeFill ==
  ASSUME TypeOK, Basics, Home, NEW t \in Task, Fill(t)
  PROVE  Home'
<1>0. TaskType
  BY TypeSplit
<1>1. /\ task[t].at = "fill" /\ task'[t].at = "idle" /\ \A u \in Task : u # t => task'[u] = task[u]
      /\ UNCHANGED <<mem, hashes, loop, outside, foreign>> /\ FillFile(task[t].id, task[t].page)
  BY <1>0 DEF Fill, TaskAt, TaskType, Idle, history
<1>2. t \in Writing /\ task[t].page \in Page /\ task[t].id \in Id
  BY <1>1, WritingPages DEF Writing
<1>3. Settled
  BY <1>1 DEF Home, Alone, Compiling, TaskAt
<1>4. \A j \in Id : \/ disk'[j] = disk[j]
                    \/ j = task[t].id /\ disk'[j] \in Page /\ disk'[j].doc = task[t].page.doc
  BY <1>1, <1>2, FillContent
<1>5. SameWriting
  BY <1>1 DEF SameWriting, Writing
<1>6. OneHome'
  <2>1. \A j \in Id : Held(j, disk'[j])
    BY <1>2, <1>4, HeldFacts DEF Held, PageOf
  <2> QED
    BY <1>1, <1>5, <2>1, CarrySame, HeldFacts DEF Home
<1>7. Compiling' \subseteq Compiling
  BY <1>1 DEF Compiling, TaskAt
<1>8. Alone'
  BY <1>1, <1>7 DEF Home, Alone, Settled
<1>9. WritesHome'
  <2>1. \A u \in Task : task'[u].at = "upsert" => task[u].at = "upsert" /\ task'[u] = task[u]
    BY <1>1
  <2> QED
    BY <1>1, <1>5, <2>1 DEF Home, WritesHome, SameWriting
<1>10. IndexComplete'
  BY <1>1 DEF Home, IndexComplete
<1>11. Known => Known'
  <2>1. \A j : FlushOf(j) => FlushOf(j)'
    BY <1>1 DEF FlushOf
  <2>2. PageOf(mem[task[t].id], task[t].page.doc)
    BY <1>2 DEF Home, WritesHome
  <2> QED
    BY <1>1, <1>4, <2>1, <2>2 DEF Known, PageOf
<1>12. KnownInv'
  BY <1>1, <1>3, <1>11 DEF Home, KnownInv, Settled, Scanning, LoopAt
<1> QED
  BY <1>6, <1>8, <1>9, <1>10, <1>12 DEF Home

\* Another process writes what the page had, or nothing that was ever ingested; or
\* removes the page.
LEMMA HomeOutside ==
  ASSUME TypeOK, Basics, Home, ~raced',
         OutsideDies \/ \E i \in Id : OutsideOpens(i) \/ OutsideWrites(i) \/ OutsideRemoves(i)
  PROVE  Home'
<1>0. disk \in [Id -> OnDisk] /\ outside \in SUBSET (Id \X Page)
  BY DEF TypeOK
<1>1. UNCHANGED <<mem, hashes, loop, task>>
  BY DEF OutsideDies, OutsideOpens, OutsideWrites, OutsideRemoves
<1>2. WritesHome' /\ IndexComplete' /\ SameWriting /\ Compiling' = Compiling /\ Writing' = Writing
  BY <1>1 DEF Home, WritesHome, IndexComplete, SameWriting, Compiling, TaskAt, Writing
<1>3. CASE OutsideDies
  <2>1. UNCHANGED <<disk, foreign>> /\ outside' = {}
    BY <1>3 DEF OutsideDies, history
  <2>2. OneHome'
    BY <1>1, <1>2, <2>1, CarrySame, HeldFacts DEF Home
  <2>3. Alone'
    BY <1>1, <1>2, <2>1 DEF Home, Alone, Settled
  <2>4. KnownInv'
    <3>1. Known => Known'
      BY <1>1, <2>1 DEF Known, FlushOf
    <3> QED
      BY <1>1, <2>1, <3>1 DEF Home, KnownInv, Settled, Scanning, LoopAt, NoneTorn
  <2> QED
    BY <1>2, <2>2, <2>3, <2>4 DEF Home
<1>4. ASSUME NEW i \in Id, OutsideOpens(i) PROVE Home'
  <2>1. PICK e \in {NoDoc} \cup {p.doc : p \in {disk[i]} \ {Absent, Torn}} :
          outside' = {<<i, [kind |-> "page", doc |-> e, rev |-> 1, stamp |-> stamps]>>}
    BY <1>4 DEF OutsideOpens
  <2>2. Compiling = {} /\ foreign'
    BY <1>4, Zenon DEF OutsideOpens
  <2>3. \A j \in Id : disk'[j] = disk[j] \/ disk'[j] = Torn
    BY <1>0, <1>4 DEF OutsideOpens, Put
  <2>4. \A d \in Doc : e = d => Carries(i, d)
    BY <1>0, <2>1, KnowledgeStoreAssumption DEF Carries, PageOf, OnDisk
  <2>5. OneHome'
    <3>1. \A t \in Writing' : \A d \in Doc : task'[t].page.doc = d => Carries(task'[t].id, d)
      BY <1>1, <1>2 DEF Carries
    <3>2. \A x \in outside' : x[1] = i /\ x[2].doc = e
      BY <2>1
    <3>3. \A x \in outside' : \A d \in Doc : x[2].doc = d => Carries(x[1], d)
      BY <2>4, <3>2
    <3>4. \A j \in Id : Held(j, disk'[j]) /\ Held(j, mem'[j]) /\ Held(j, loop'.seen[j])
      BY <1>1, <2>3, HeldFacts
    <3> QED
      BY <3>1, <3>3, <3>4, CarryKeeps DEF Home
  <2>6. Alone' /\ KnownInv'
    BY <1>2, <2>2 DEF Alone, KnownInv
  <2> QED
    BY <1>2, <2>5, <2>6 DEF Home
<1>5. ASSUME NEW i \in Id, OutsideWrites(i) PROVE Home'
  <2>1. PICK x \in outside : x[1] = i /\ FillFile(i, x[2])
    BY <1>5 DEF OutsideWrites
  <2>2. x[2] \in Page /\ outside' = {} /\ foreign /\ foreign'
    BY <1>0, <1>5, <2>1 DEF OutsideWrites, Basics, history
  <2>3. \A j \in Id : disk'[j] = disk[j] \/ (j = i /\ disk'[j] \in Page /\ disk'[j].doc = x[2].doc)
    BY <2>1, <2>2, FillContent
  <2>4. \A j \in Id : Held(j, disk'[j])
    BY <2>1, <2>3, HeldFacts, <2>2 DEF Held, PageOf
  <2>5. OneHome'
    BY <1>1, <1>2, <2>2, <2>4, CarrySame, HeldFacts DEF Home
  <2>6. Alone' /\ KnownInv'
    BY <1>1, <1>2, <2>2 DEF Home, Alone, KnownInv, Settled
  <2> QED
    BY <1>2, <2>5, <2>6 DEF Home
<1>6. ASSUME NEW i \in Id, OutsideRemoves(i) PROVE Home'
  <2>1. /\ UNCHANGED <<outside, foreign>>
        /\ \A j \in Id : disk'[j] = IF j = i THEN Absent ELSE disk[j]
    BY <1>0, <1>6 DEF OutsideRemoves, Put, history
  <2>2. OneHome'
    BY <1>1, <1>2, <2>1, CarrySame, HeldFacts DEF Home
  <2>3. Alone'
    BY <1>1, <1>2, <2>1 DEF Home, Alone, Settled
  <2>4. Known => Known'
    BY <1>1, <2>1, Pages DEF Known, FlushOf, PageOf
  <2>5. NoneTorn => NoneTorn'
    BY <2>1 DEF NoneTorn, Absent, Torn
  <2>6. KnownInv'
    BY <1>1, <2>1, <2>4, <2>5 DEF Home, KnownInv, Settled, Scanning, LoopAt
  <2> QED
    BY <1>2, <2>2, <2>3, <2>6 DEF Home
<1> QED
  BY <1>3, <1>4, <1>5, <1>6

LEMMA HomeInit == Init => HomeInv
<1> SUFFICES ASSUME Init PROVE HomeInv
  OBVIOUS
<1>1. /\ outside = {} /\ loop = Down /\ failed = {} /\ \A t \in Task : task[t].at = "idle"
      /\ \A i \in Id : disk[i] = Absent /\ mem[i] = Absent /\ loop.seen[i] = Absent
  BY DEF Init, NoPage, Down, Idle
<1>2. Basics
  BY <1>1 DEF Basics, Down, NoPage
<1>3. Writing = {} /\ Compiling = {}
  BY <1>1 DEF Writing, Compiling, TaskAt
<1>4. \A i \in Id, d \in Doc : ~Carries(i, d)
  BY <1>1, <1>3, Pages DEF Carries, PageOf
<1>5. OneHome /\ Alone /\ WritesHome
  BY <1>1, <1>3, <1>4 DEF OneHome, Alone, WritesHome
<1>6. IndexComplete /\ KnownInv
  BY <1>1, Pages DEF IndexComplete, PageOf, KnownInv, Settled, Scanning, LoopAt, Down
<1> QED
  BY <1>2, <1>5, <1>6, HomeSplit DEF Home

LEMMA HomeStep == TypeOK /\ ServeInv /\ HashIndexSound /\ HomeInv /\ [Next]_vars => HomeInv'
<1> SUFFICES ASSUME TypeOK, ServeInv, HashIndexSound, HomeInv, [Next]_vars PROVE HomeInv'
  OBVIOUS
<1>1. CASE UNCHANGED vars
  BY <1>1 DEF vars, history, HomeInv, Scanning, OneHome, Carries, Writing, Alone, Compiling, TaskAt, Settled,
              WritesHome, IndexComplete, KnownInv, Known, FlushOf, LoopAt, NoneTorn
<1>2. CASE Next
  <2>1. Basics /\ Basics' /\ (raced => raced')
    BY <1>2, BasicsStep, HomeSplit
  <2> SUFFICES ASSUME ~raced' PROVE Home'
    BY <2>1, HomeSplit
  <2>2. ~raced /\ Home
    BY <2>1, HomeSplit
  <2>3. CASE Open \/ Reconcile
    BY <2>1, <2>2, <2>3, HomeScan
  <2>4. CASE Opened \/ Swap
    BY <2>1, <2>2, <2>4, HomeSwap
  <2>5. CASE StartWatching \/ Publish \/ Crash
    BY <2>1, <2>2, <2>5, HomeServer
  <2>6. CASE OutsideDies \/ \E i \in Id : OutsideOpens(i) \/ OutsideWrites(i) \/ OutsideRemoves(i)
    BY <2>1, <2>2, <2>6, HomeOutside
  <2>7. ASSUME NEW i \in Id, ReadFile(i) PROVE Home'
    BY <2>1, <2>2, <2>7, HomeRead
  <2>8. ASSUME NEW t \in Task, Identify(t) \/ ModelFails(t) \/ \E d \in Doc : Ingest(t, d) PROVE Home'
    BY <2>1, <2>2, <2>8, HomeAsk
  <2>9. ASSUME NEW t \in Task, Upsert(t) \/ Truncate(t) \/ Fill(t) PROVE Home'
    BY <2>1, <2>2, <2>9, HomeUpsert, HomeTruncate, HomeFill
  <2>10. ASSUME NEW t \in Task, FlushFails(t) PROVE raced'
    BY <2>10 DEF FlushFails
  <2> QED
    BY <1>2, <2>3, <2>4, <2>5, <2>6, <2>7, <2>8, <2>9, <2>10 DEF Next
<1> QED
  BY <1>1, <1>2

LEMMA HomeImplies == TypeOK /\ HomeInv => OneEntryPerContent
<1> SUFFICES ASSUME TypeOK, HomeInv, ~raced, NEW d \in Doc
             PROVE  Cardinality({i \in Id : disk[i].kind = "page" /\ disk[i].doc = d}) <= 1
  BY DEF OneEntryPerContent
<1> DEFINE pages == {i \in Id : disk[i].kind = "page" /\ disk[i].doc = d}
<1>1. \A i \in pages : Carries(i, d)
  BY DEF TypeOK, Carries, PageOf, OnDisk, Absent, Torn
<1>2. \A i, j \in pages : i = j
  BY <1>1 DEF HomeInv, OneHome
<1>3. CASE pages = {}
  <2> HIDE DEF pages
  <2>1. Cardinality(pages) = 0
    BY <1>3, FS_EmptySet
  <2>2. Cardinality(pages) <= 1
    BY <2>1
  <2> QED
    BY <2>2 DEF pages
<1>4. ASSUME NEW i \in pages PROVE Cardinality(pages) <= 1
  <2>1. pages = {i}
    BY <1>2
  <2> HIDE DEF pages
  <2>2. Cardinality(pages) = 1
    BY <2>1, FS_Singleton
  <2> QED
    BY <2>2
<1> QED
  BY <1>3, <1>4

\* One page per content, for any number of ids, contents and compiles: whatever
\* titles the model invents, crashes, rebuilt indexes and near duplicates included,
\* as long as compiles do not overlap and outside writes have been scanned
\* (find_duplicate and upsert_entry).
THEOREM OnePagePerContent == Spec => []OneEntryPerContent
<1>1. TypeOK /\ ServeInv /\ HashIndexSound /\ HomeInv /\ [Next]_vars => HomeInv'
  BY HomeStep
<1>2. Init => HashIndexSound
  BY DEF Init, HashIndexSound
<1> QED
  BY <1>1, <1>2, HomeInit, HomeImplies, ServeInit, ServeStep, SoundStep, TypeCorrect, PTL DEF Spec
=============================================================================
