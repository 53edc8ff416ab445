---------------------------- MODULE WikiIndexProofs ----------------------------
(***************************************************************************)
(* Theorems about WikiIndex, for any pages, writers and bounds: type       *)
(* correctness, that a page once listed stays listed, that no line of the  *)
(* log is lost or doubled, and that a quiet index is current.              *)
(***************************************************************************)
EXTENDS WikiIndex, TLAPS, SequenceTheorems, WellFoundedInduction

-----------------------------------------------------------------------------
(* What append_log_line returns *)

LEMMA LeastNatural ==
  ASSUME NEW S \in SUBSET Nat, S # {}
  PROVE  \E x \in S : \A y \in S : x <= y
<1> DEFINE R == {pair \in Nat \X Nat : pair[1] < pair[2]}
<1>1. IsWellFoundedOn(R, Nat)
  BY NatLessThanWellFounded DEF OpToRel
<1>2. PICK x \in S : \A y \in S : ~ (<<y, x>> \in R)
  <2> HIDE DEF R
  <2> QED
    BY <1>1, WFMin
<1>3. \A y \in S : ~ (y < x)
  BY <1>2
<1> QED
  BY <1>3

\* The lines in their order, with the new one somewhere among them.
Inserted(new, lines, k, line) ==
  /\ Len(new) = Len(lines) + 1
  /\ \A i \in 1 .. Len(new) :
       new[i] = IF i < k THEN lines[i] ELSE IF i = k THEN line ELSE lines[i - 1]

LEMMA InsertAt ==
  ASSUME NEW S, NEW lines \in Seq(S), NEW line \in S, NEW k \in 1 .. Len(lines) + 1
  PROVE  LET new == SubSeq(lines, 1, k - 1) \o <<line>> \o SubSeq(lines, k, Len(lines))
         IN  new \in Seq(S) /\ Inserted(new, lines, k, line)
<1> DEFINE a == SubSeq(lines, 1, k - 1)
           b == SubSeq(lines, k, Len(lines))
           one == <<line>>
           new == (a \o one) \o b
<1>0. Len(lines) \in Nat /\ \A i \in 1 .. Len(lines) : lines[i] \in S
  BY LenProperties
<1>00. k \in Nat
  BY <1>0
<1>1. /\ a \in Seq(S) /\ Len(a) = k - 1
      /\ \A i \in 1 .. k - 1 : a[i] = lines[i]
  BY <1>0, SubSeqProperties
<1>2. /\ b \in Seq(S) /\ Len(b) = Len(lines) - k + 1
      /\ \A i \in 1 .. Len(lines) - k + 1 : b[i] = lines[k + i - 1]
  BY <1>0, SubSeqProperties
<1>3. one \in Seq(S) /\ Len(one) = 1 /\ one[1] = line
  OBVIOUS
<1> HIDE DEF a, b, one
<1>4. /\ a \o one \in Seq(S) /\ Len(a \o one) = k
      /\ \A i \in 1 .. k : (a \o one)[i] = IF i < k THEN lines[i] ELSE line
  <2>1. /\ a \o one \in Seq(S) /\ Len(a \o one) = Len(a) + Len(one)
        /\ \A i \in 1 .. Len(a) + Len(one) :
             (a \o one)[i] = IF i <= Len(a) THEN a[i] ELSE one[i - Len(a)]
    BY <1>1, <1>3, ConcatProperties
  <2>2. ASSUME NEW i \in 1 .. k
        PROVE  (a \o one)[i] = IF i < k THEN lines[i] ELSE line
    <3>1. CASE i < k
      BY <1>0, <1>1, <1>3, <2>1, <3>1
    <3>2. CASE i = k
      BY <1>0, <1>1, <1>3, <2>1, <3>2
    <3>3. i < k \/ i = k
      BY <1>00
    <3> QED
      BY <3>1, <3>2, <3>3
  <2> QED
    BY <1>0, <1>1, <1>3, <2>1, <2>2
<1> DEFINE c == a \o one
<1> HIDE DEF c
<1>5. c \in Seq(S) /\ Len(c) = k /\ \A i \in 1 .. k : c[i] = IF i < k THEN lines[i] ELSE line
  BY <1>4 DEF c
<1>6. /\ c \o b \in Seq(S) /\ Len(c \o b) = Len(lines) + 1
      /\ \A i \in 1 .. Len(lines) + 1 : (c \o b)[i] = IF i <= k THEN c[i] ELSE b[i - k]
  <2>1. /\ c \o b \in Seq(S) /\ Len(c \o b) = Len(c) + Len(b)
        /\ \A i \in 1 .. Len(c) + Len(b) : (c \o b)[i] = IF i <= Len(c) THEN c[i] ELSE b[i - Len(c)]
    BY <1>2, <1>5, ConcatProperties
  <2>2. Len(c) = k /\ Len(c) + Len(b) = Len(lines) + 1
    BY <1>0, <1>2, <1>5
  <2> QED
    BY <2>1, <2>2
<1>7. Inserted(c \o b, lines, k, line)
  <2> SUFFICES ASSUME NEW i \in 1 .. Len(lines) + 1
               PROVE  (c \o b)[i] = IF i < k THEN lines[i] ELSE IF i = k THEN line ELSE lines[i - 1]
    BY <1>6 DEF Inserted
  <2>1. CASE i <= k
    BY <1>5, <1>6, <2>1
  <2>2. CASE i > k
    <3>1. i - k \in 1 .. Len(lines) - k + 1 /\ k + (i - k) - 1 = i - 1
      BY <1>0, <2>2
    <3> QED
      BY <1>2, <1>6, <2>2, <3>1
  <2>3. i <= k \/ i > k
    BY <1>00
  <2> QED
    BY <2>1, <2>2, <2>3
<1> QED
  BY <1>6, <1>7 DEF a, b, one, c

LEMMA AppendInserts ==
  ASSUME NEW lines \in Seq(LogLine), NEW day \in 1 .. LastDay, NEW n \in 1 .. MaxRun
  PROVE  /\ AppendLogLine(lines, day, n) \in Seq(LogLine)
         /\ \E k \in 1 .. Len(lines) + 1 :
              Inserted(AppendLogLine(lines, day, n), lines, k, [day |-> day, run |-> n])
<1> DEFINE Same == {i \in DOMAIN lines : lines[i].day = day}
           k == IF \E i \in DOMAIN lines : lines[i].day = day
                THEN CHOOSE i \in DOMAIN lines :
                       lines[i].day = day /\ \A j \in DOMAIN lines : lines[j].day = day => i <= j
                ELSE 1
<1>0. Len(lines) \in Nat /\ DOMAIN lines = 1 .. Len(lines)
  BY LenProperties
<1>1. k \in 1 .. Len(lines) + 1
  <2>1. CASE ~ \E i \in DOMAIN lines : lines[i].day = day
    BY <1>0, <2>1
  <2>2. CASE \E i \in DOMAIN lines : lines[i].day = day
    <3>1. Same \in SUBSET Nat /\ Same # {}
      BY <1>0, <2>2
    <3>2. \E i \in Same : \A j \in Same : i <= j
      <4> HIDE DEF Same
      <4> QED
        BY <3>1, LeastNatural
    <3>3. \E x \in DOMAIN lines :
            lines[x].day = day /\ \A j \in DOMAIN lines : lines[j].day = day => x <= j
      BY <3>2
    <3>4. k \in DOMAIN lines
      BY <2>2, <3>3
    <3> QED
      BY <1>0, <3>4
  <2> QED
    BY <2>1, <2>2
<1>2. AppendLogLine(lines, day, n)
        = SubSeq(lines, 1, k - 1) \o <<[day |-> day, run |-> n]>> \o SubSeq(lines, k, Len(lines))
  BY DEF AppendLogLine
<1>3. [day |-> day, run |-> n] \in LogLine
  BY DEF LogLine
<1> HIDE DEF k
<1> QED
  BY <1>1, <1>2, <1>3, InsertAt

-----------------------------------------------------------------------------
(* Type correctness *)

FilesType  == disk \in [Page -> Content] /\ index \subseteq IndexLine /\ log \in Seq(LogLine)
JobType    == job \in [Proc -> Job]
RestType   == /\ lock \in Proc \cup {NoProc}
              /\ today \in 1 .. LastDay /\ runs \in 0 .. MaxRun /\ troubles \in Nat
              /\ whole \subseteq Proc /\ due \subseteq Page /\ owed \in BOOLEAN
              /\ logged \subseteq 1 .. MaxRun /\ cut \in BOOLEAN

\* A writer that is not idle has a run of its own, and until it logs it, a page.
Active ==
  \A w \in Proc :
    /\ job[w].at # "idle" => job[w].run \in 1 .. runs
    /\ job[w].at \in {"write", "index", "scan", "replaceIndex"} => job[w].page \in Page

LEMMA TypeSplit ==
  /\ TypeOK <=> FilesType /\ JobType /\ RestType
  /\ TypeOK' <=> FilesType' /\ JobType' /\ RestType'
BY DEF TypeOK, FilesType, JobType, RestType

LEMMA IdleType == Idle \in Job
<1>1. Absent \in Content /\ {} \in SUBSET Page /\ {} \in SUBSET IndexLine
  BY DEF Content
<1>2. <<>> \in Seq(LogLine)
  OBVIOUS
<1>3. 0 \in 0 .. MaxRun
  BY WikiIndexAssumption
<1> QED
  BY <1>1, <1>2, <1>3 DEF Idle, Job, Place

LEMMA IdleAt == Idle.at = "idle" /\ ~Idle.gone
BY DEF Idle

\* What becomes of the writers when w's goes to r.
LEMMA OneJob ==
  ASSUME JobType, NEW w \in Proc, NEW r \in Job, job' = [job EXCEPT ![w] = r]
  PROVE  JobType' /\ job'[w] = r /\ \A v \in Proc \ {w} : job'[v] = job[v]
BY DEF JobType

LEMMA StopType ==
  ASSUME JobType, NEW w \in Proc, Stop(w)
  PROVE  JobType' /\ job'[w] = Idle /\ \A v \in Proc \ {w} : job'[v] = job[v]
BY IdleType, OneJob DEF Stop

LEMMA FreshType ==
  ASSUME NEW tree \in [Page -> Content]
  PROVE  Fresh(tree) \subseteq IndexLine
BY DEF Fresh, Line, Parsable, IndexLine

LEMMA RenderType ==
  ASSUME NEW tree \in [Page -> Content], NEW old, old \subseteq IndexLine,
         NEW lines \in RenderIndex(tree, old)
  PROVE  lines \subseteq IndexLine
<1>1. PICK fresh \in OnePerTarget(Fresh(tree)),
            carried \in OnePerTarget({l \in old : l.target \in Failed(tree)}) : lines = fresh \cup carried
  BY DEF RenderIndex
<1>2. fresh \subseteq Fresh(tree) /\ carried \subseteq old
  BY <1>1 DEF OnePerTarget
<1> QED
  BY <1>1, <1>2, FreshType

\* A step that takes writer w from its place to another with its run and page.
Moves(w, place) ==
  /\ job'[w].at = place /\ job'[w].run = job[w].run /\ job'[w].page = job[w].page
  /\ job'[w].fix = job[w].fix /\ job'[w].gone = job[w].gone
  /\ \A v \in Proc \ {w} : job'[v] = job[v]

LEMMA LockIndexJob ==
  ASSUME JobType, NEW w \in Proc, LockIndex(w)
  PROVE  JobType' /\ Moves(w, "scan") /\ job'[w].todo = Page
<1> DEFINE r == [job[w] EXCEPT !.at = "scan", !.todo = Page]
<1>1. job[w] \in Job /\ job' = [job EXCEPT ![w] = r]
  BY DEF JobType, LockIndex
<1>2. r \in Job
  BY <1>1 DEF Job, Place
<1>3. r.at = "scan" /\ r.todo = Page /\ r.run = job[w].run /\ r.page = job[w].page
      /\ r.fix = job[w].fix /\ r.gone = job[w].gone
  BY <1>1 DEF Job
<1> HIDE DEF r
<1> QED
  BY <1>1, <1>2, <1>3, OneJob DEF Moves

LEMMA ReadPageJob ==
  ASSUME JobType, FilesType, NEW w \in Proc, NEW p \in Page, ReadPage(w, p)
  PROVE  JobType' /\ Moves(w, "scan") /\ job'[w].todo = job[w].todo \ {p}
         /\ job'[w].seen = [job[w].seen EXCEPT ![p] = disk[p]]
<1>1. disk[p] \in Content /\ job[w] \in Job
  BY DEF JobType, FilesType
<1>2. [job[w].seen EXCEPT ![p] = disk[p]] \in [Page -> Content]
  BY <1>1 DEF Job
<1> QED
  BY <1>1, <1>2 DEF JobType, ReadPage, At, Job, Place, Moves

LEMMA PrepareIndexJob ==
  ASSUME JobType, FilesType, NEW w \in Proc, PrepareIndex(w)
  PROVE  JobType' /\ Moves(w, "replaceIndex") /\ job'[w].newIndex \in RenderIndex(job[w].seen, index)
<1>1. PICK lines \in RenderIndex(job[w].seen, index) :
        job' = [job EXCEPT ![w].at = "replaceIndex", ![w].seen = Idle.seen, ![w].newIndex = lines]
  BY DEF PrepareIndex
<1>2. job[w] \in Job /\ job[w].seen \in [Page -> Content] /\ Idle.seen \in [Page -> Content]
  BY DEF JobType, Job, Idle, Content
<1>3. lines \in SUBSET IndexLine
  BY <1>2, RenderType DEF FilesType
<1> HIDE DEF Idle
<1> QED
  BY <1>1, <1>2, <1>3 DEF JobType, Job, Place, Moves

LEMMA ReplaceIndexJob ==
  ASSUME JobType, NEW w \in Proc, ReplaceIndex(w)
  PROVE  JobType' /\ (Moves(w, "log") \/ (job'[w] = Idle /\ \A v \in Proc \ {w} : job'[v] = job[v]))
<1>1. CASE Stop(w)
  BY <1>1, StopType
<1>2. CASE job' = [job EXCEPT ![w].at = "log", ![w].newIndex = {}]
  <2> DEFINE r == [job[w] EXCEPT !.at = "log", !.newIndex = {}]
  <2>1. job[w] \in Job /\ job' = [job EXCEPT ![w] = r]
    BY <1>2 DEF JobType
  <2>2. r \in Job
    BY <2>1 DEF Job, Place
  <2>3. r.at = "log" /\ r.run = job[w].run /\ r.page = job[w].page
        /\ r.fix = job[w].fix /\ r.gone = job[w].gone
    BY <2>1 DEF Job
  <2> HIDE DEF r
  <2> QED
    BY <2>1, <2>2, <2>3, OneJob DEF Moves
<1> QED
  BY <1>1, <1>2 DEF ReplaceIndex

LEMMA LockLogJob ==
  ASSUME JobType, NEW w \in Proc, LockLog(w)
  PROVE  JobType' /\ Moves(w, "readLog")
BY DEF JobType, LockLog, Job, Place, Moves

LEMMA PrepareLogJob ==
  ASSUME TypeOK, Active, NEW w \in Proc, PrepareLog(w)
  PROVE  JobType' /\ Moves(w, "replaceLog") /\ job'[w].newLog = AppendLogLine(log, today, job[w].run)
<1>0. FilesType /\ JobType /\ RestType
  BY TypeSplit
<1>1. job[w] \in Job /\ job[w].run \in 1 .. MaxRun
  BY <1>0, WikiIndexAssumption DEF PrepareLog, At, JobType, Active, RestType
<1>2. AppendLogLine(log, today, job[w].run) \in Seq(LogLine)
  BY <1>0, <1>1, AppendInserts DEF FilesType, RestType
<1> QED
  BY <1>0, <1>1, <1>2 DEF PrepareLog, JobType, Job, Place, Moves

LEMMA BeginJob ==
  ASSUME JobType, runs \in 0 .. MaxRun, NEW w \in Proc, NEW p \in Page, NEW fix \in BOOLEAN,
         Begin(w, p, fix)
  PROVE  JobType' /\ job'[w].at = "write" /\ job'[w].run = runs + 1 /\ job'[w].page = p /\ ~job'[w].gone
         /\ \A v \in Proc \ {w} : job'[v] = job[v]
<1> DEFINE r == [Idle EXCEPT !.at = "write", !.fix = fix, !.page = p, !.run = runs + 1]
<1>1. runs + 1 \in 0 .. MaxRun
  BY WikiIndexAssumption DEF Begin
<1>2. r \in Job
  BY <1>1, IdleType DEF Job, Place
<1>3. r.at = "write" /\ r.run = runs + 1 /\ r.page = p /\ ~r.gone
  BY IdleType DEF Job, Idle
<1>4. job' = [job EXCEPT ![w] = r]
  BY DEF Begin
<1> HIDE DEF r
<1> QED
  BY <1>2, <1>3, <1>4, OneJob

LEMMA FixNextJob ==
  ASSUME JobType, runs \in 0 .. MaxRun, NEW w \in Proc, NEW p \in Page, FixNext(w, p)
  PROVE  JobType' /\ job'[w].at = "write" /\ job'[w].run = runs + 1 /\ job'[w].page = p
         /\ job'[w].gone = job[w].gone /\ \A v \in Proc \ {w} : job'[v] = job[v]
<1>1. runs + 1 \in 0 .. MaxRun
  BY WikiIndexAssumption DEF FixNext
<1> QED
  BY <1>1 DEF FixNext, JobType, Job, Place

LEMMA FillPageJob ==
  ASSUME JobType, NEW w \in Proc, FillPage(w)
  PROVE  JobType' /\ IF job[w].gone THEN job'[w] = Idle /\ \A v \in Proc \ {w} : job'[v] = job[v]
                     ELSE Moves(w, "index")
<1>1. CASE job[w].gone
  BY <1>1, StopType DEF FillPage
<1>2. CASE ~job[w].gone
  <2> DEFINE r == [job[w] EXCEPT !.at = "index"]
  <2>1. job[w] \in Job /\ job' = [job EXCEPT ![w] = r]
    BY <1>2 DEF FillPage, JobType
  <2>2. r \in Job
    BY <2>1 DEF Job, Place
  <2>3. r.at = "index" /\ r.run = job[w].run /\ r.page = job[w].page
        /\ r.fix = job[w].fix /\ r.gone = job[w].gone
    BY <2>1 DEF Job
  <2> HIDE DEF r
  <2> QED
    BY <1>2, <2>1, <2>2, <2>3, OneJob DEF Moves
<1> QED
  BY <1>1, <1>2

LEMMA WriteFailsJob ==
  ASSUME JobType, NEW w \in Proc, WriteFails(w)
  PROVE  /\ JobType' /\ job[w].at = "write" /\ ~job'[w].gone
         /\ Moves(w, "index") \/ (job'[w] = Idle /\ \A v \in Proc \ {w} : job'[v] = job[v])
<1>0. job[w].at = "write"
  BY DEF WriteFails, At
<1>1. CASE Stop(w)
  BY <1>0, <1>1, StopType, IdleAt
<1>2. CASE ~job[w].gone /\ job' = [job EXCEPT ![w] = [job[w] EXCEPT !.at = "index"]]
  <2> DEFINE r == [job[w] EXCEPT !.at = "index"]
  <2>1. job[w] \in Job /\ job' = [job EXCEPT ![w] = r]
    BY <1>2 DEF JobType
  <2>2. r \in Job
    BY <2>1 DEF Job, Place
  <2>3. r.at = "index" /\ r.run = job[w].run /\ r.page = job[w].page
        /\ r.fix = job[w].fix /\ r.gone = job[w].gone
    BY <2>1 DEF Job
  <2> HIDE DEF r
  <2> QED
    BY <1>0, <1>2, <2>1, <2>2, <2>3, OneJob DEF Moves
<1>3. Stop(w) \/ (~job[w].gone /\ job' = [job EXCEPT ![w] = [job[w] EXCEPT !.at = "index"]])
  BY DEF WriteFails
<1> QED
  BY <1>1, <1>2, <1>3

LEMMA GiveUpJob ==
  ASSUME JobType, NEW w \in Proc, GiveUpIndex(w)
  PROVE  /\ JobType'
         /\ job'[w].at \in {"idle", "log"} /\ ~job'[w].gone
         /\ job'[w].at = "log" => job'[w].run = job[w].run
         /\ \A v \in Proc \ {w} : job'[v] = job[v]
<1>1. CASE Stop(w)
  BY <1>1, StopType DEF Idle
<1>2. CASE job' = [job EXCEPT ![w] = [Idle EXCEPT !.at = "log", !.run = job[w].run]]
  <2> DEFINE r == [Idle EXCEPT !.at = "log", !.run = job[w].run]
  <2>1. r \in Job
    BY IdleType DEF JobType, Job, Place
  <2>2. r.at = "log" /\ r.run = job[w].run /\ ~r.gone
    BY IdleType DEF Job, Idle
  <2> HIDE DEF r
  <2> QED
    BY <1>2, <2>1, <2>2, OneJob DEF r
<1> QED
  BY <1>1, <1>2 DEF GiveUpIndex

LEMMA DropJob ==
  ASSUME JobType, NEW w \in Proc, Drop(w)
  PROVE  /\ JobType'
         /\ IF job[w].at \in Blocking
            THEN /\ job'[w] = [job[w] EXCEPT !.gone = TRUE]
            ELSE job'[w] = Idle
         /\ \A v \in Proc \ {w} : job'[v] = job[v]
<1>1. CASE job[w].at \in Blocking
  <2>1. job[w] \in Job /\ job' = [job EXCEPT ![w] = [job[w] EXCEPT !.gone = TRUE]]
    BY <1>1 DEF Drop, JobType
  <2>2. [job[w] EXCEPT !.gone = TRUE] \in Job
    BY <2>1 DEF Job
  <2> QED
    BY <1>1, <2>1, <2>2, OneJob
<1>2. CASE job[w].at \notin Blocking
  BY <1>2, StopType DEF Drop
<1> QED
  BY <1>1, <1>2

LEMMA ActiveOne ==
  ASSUME Active, RestType, RestType', runs <= runs', NEW w \in Proc,
         \A v \in Proc \ {w} : job'[v] = job[v],
         job'[w].at # "idle" => job'[w].run \in 1 .. runs',
         job'[w].at \in {"write", "index", "scan", "replaceIndex"} => job'[w].page \in Page
  PROVE  Active'
BY DEF Active, RestType

LEMMA PutType ==
  ASSUME FilesType, NEW p \in Page, NEW content \in Content, Put(p, content), UNCHANGED <<index, log>>
  PROVE  FilesType'
BY DEF FilesType, Put

LEMMA TypeInit == Init => TypeOK /\ Active
<1> SUFFICES ASSUME Init PROVE TypeOK /\ Active
  OBVIOUS
<1>1. JobType /\ \A w \in Proc : job[w] = Idle
  BY IdleType DEF Init, JobType
<1>2. FilesType
  BY DEF Init, FilesType, Content
<1>3. RestType
  <2>1. 1 \in 1 .. LastDay /\ 0 \in 0 .. MaxRun /\ 0 \in Nat
    BY WikiIndexAssumption
  <2> QED
    BY <2>1, Zenon DEF Init, RestType
<1>4. Active
  BY <1>1 DEF Active, Idle
<1> QED
  BY <1>1, <1>2, <1>3, <1>4, TypeSplit

LEMMA TypeBegin ==
  ASSUME TypeOK, Active, NEW w \in Proc, NEW p \in Page,
         FixNext(w, p) \/ \E fix \in BOOLEAN : Begin(w, p, fix)
  PROVE  TypeOK' /\ Active'
<1>0. FilesType /\ JobType /\ RestType
  BY TypeSplit
<1>1. /\ runs < MaxRun /\ runs' = runs + 1 /\ Put(p, Torn) /\ Touch(p, {w})
      /\ UNCHANGED <<index, log, lock, today, troubles, due, owed, logged, cut>>
  BY DEF FixNext, Begin
<1>2. /\ JobType' /\ job'[w].at = "write" /\ job'[w].run = runs + 1 /\ job'[w].page = p
      /\ \A v \in Proc \ {w} : job'[v] = job[v]
  <2>1. runs \in 0 .. MaxRun
    BY <1>0 DEF RestType
  <2>2. CASE FixNext(w, p)
    BY <1>0, <2>1, <2>2, FixNextJob
  <2>3. CASE \E fix \in BOOLEAN : Begin(w, p, fix)
    BY <1>0, <2>1, <2>3, BeginJob
  <2> QED
    BY <2>2, <2>3
<1>3. FilesType'
  BY <1>0, <1>1, PutType DEF Content
<1>4. RestType'
  BY <1>0, <1>1, WikiIndexAssumption DEF RestType, Touch
<1>5. Active'
  <2>1. runs <= runs' /\ job'[w].run \in 1 .. runs'
    BY <1>0, <1>1, <1>2 DEF RestType
  <2> QED
    BY <1>0, <1>2, <1>4, <2>1, ActiveOne
<1> QED
  BY <1>2, <1>3, <1>4, <1>5, TypeSplit

LEMMA TypeIndex ==
  ASSUME TypeOK, Active, NEW w \in Proc,
         \/ LockIndex(w) \/ (\E p \in Page : ReadPage(w, p)) \/ PrepareIndex(w) \/ LockLog(w) \/ PrepareLog(w)
  PROVE  TypeOK' /\ Active'
<1>0. FilesType /\ JobType /\ RestType
  BY TypeSplit
<1>1. JobType' /\ \E place \in Place \ {"idle", "write"} :
                     /\ Moves(w, place) /\ job[w].at # "idle"
                     /\ place \in {"scan", "replaceIndex"} => job[w].at \in {"index", "scan"}
                     /\ place # "index"
  <2>1. CASE LockIndex(w)
    BY <1>0, <2>1, LockIndexJob DEF Place, LockIndex, At
  <2>2. CASE \E p \in Page : ReadPage(w, p)
    BY <1>0, <2>2, ReadPageJob DEF Place, ReadPage, At
  <2>3. CASE PrepareIndex(w)
    BY <1>0, <2>3, PrepareIndexJob DEF Place, PrepareIndex, At
  <2>4. CASE LockLog(w)
    BY <1>0, <2>4, LockLogJob DEF Place, LockLog, At
  <2>5. CASE PrepareLog(w)
    BY <1>0, <2>5, PrepareLogJob DEF Place, PrepareLog, At
  <2> QED
    BY <2>1, <2>2, <2>3, <2>4, <2>5
<1>2. /\ lock' = lock \/ lock' = w
      /\ owed' = owed \/ owed' = FALSE
      /\ UNCHANGED <<files, counters, whole, due, logged, cut>>
  BY DEF LockIndex, ReadPage, PrepareIndex, LockLog, PrepareLog, history
<1>3. FilesType'
  BY <1>0, <1>2 DEF FilesType, files
<1>4. RestType'
  BY <1>0, <1>2 DEF RestType, counters
<1>5. Active'
  <2>1. runs' = runs /\ runs <= runs' /\ job[w].run \in 1 .. runs
    BY <1>0, <1>1, <1>2 DEF RestType, counters, Active
  <2>2. job'[w].at \in {"write", "index", "scan", "replaceIndex"} => job[w].page \in Page
    BY <1>1 DEF Moves, Active
  <2> QED
    BY <1>0, <1>1, <1>4, <2>1, <2>2, ActiveOne DEF Moves
<1> QED
  BY <1>1, <1>3, <1>4, <1>5, TypeSplit

LEMMA TypeFill ==
  ASSUME TypeOK, Active, NEW w \in Proc, FillPage(w)
  PROVE  TypeOK' /\ Active'
<1>0. FilesType /\ JobType /\ RestType
  BY TypeSplit
<1>1. job[w].page \in Page /\ job[w].run \in 0 .. MaxRun /\ job[w].run \in 1 .. runs
  BY <1>0, WikiIndexAssumption DEF FillPage, At, Active, RestType
<1>2. JobType'
  BY <1>0, FillPageJob
<1>3. FilesType'
  <2>1. [id |-> job[w].page, text |-> job[w].run] \in Content
    BY <1>1 DEF Content, Parsable
  <2>2. UNCHANGED <<index, log>>
    BY DEF FillPage
  <2>3. CASE UNCHANGED disk
    BY <1>0, <2>2, <2>3 DEF FilesType
  <2>4. CASE Put(job[w].page, [id |-> job[w].page, text |-> job[w].run])
    BY <1>0, <1>1, <2>1, <2>2, <2>4, PutType
  <2> QED
    BY <2>3, <2>4 DEF FillPage
<1>4. RestType'
  <2>1. UNCHANGED <<lock, today, runs, troubles, due, logged, cut>> /\ owed' \in BOOLEAN /\ whole' \subseteq Proc
    <3>1. owed' \in BOOLEAN
      BY Zenon DEF FillPage
    <3> QED
      BY <1>0, <3>1 DEF FillPage, counters, RestType
  <2> QED
    BY <1>0, <2>1, Zenon DEF RestType
<1>5. Active'
  <2>1. runs' = runs /\ runs <= runs'
    BY <1>0 DEF FillPage, counters, RestType
  <2> QED
    BY <1>0, <1>1, <1>4, <2>1, FillPageJob, ActiveOne DEF Moves, Idle
<1> QED
  BY <1>2, <1>3, <1>4, <1>5, TypeSplit

\* The steps that end a writer's run, for better or worse.
LEMMA TypeEnd ==
  ASSUME TypeOK, Active, NEW w \in Proc,
         \/ ReplaceIndex(w) \/ ReplaceLog(w) \/ WriteFails(w) \/ RebuildFails(w) \/ LogFails(w)
         \/ Crash(w) \/ Drop(w)
  PROVE  TypeOK' /\ Active'
<1>0. FilesType /\ JobType /\ RestType
  BY TypeSplit
<1>1. /\ JobType'
      /\ \A v \in Proc \ {w} : job'[v] = job[v]
      /\ job'[w].at # "idle" => job'[w].run = job[w].run /\ job[w].at # "idle"
      /\ job'[w].at \in {"write", "index", "scan", "replaceIndex"} =>
           job'[w].page = job[w].page /\ job[w].at \in {"write", "index", "scan", "replaceIndex"}
  <2>1. CASE ReplaceIndex(w)
    <3>1. job[w].at = "replaceIndex"
      BY <2>1 DEF ReplaceIndex, At
    <3>2. CASE Moves(w, "log")
      BY <1>0, <2>1, <3>1, <3>2, ReplaceIndexJob DEF Moves
    <3>3. CASE job'[w] = Idle /\ \A v \in Proc \ {w} : job'[v] = job[v]
      BY <1>0, <2>1, <3>3, ReplaceIndexJob, IdleAt
    <3> QED
      BY <1>0, <2>1, <3>2, <3>3, ReplaceIndexJob
  <2>2. CASE ReplaceLog(w) \/ LogFails(w) \/ Crash(w)
    BY <1>0, <2>2, StopType DEF ReplaceLog, LogFails, Crash, Idle
  <2>3. CASE RebuildFails(w)
    BY <1>0, <2>3, GiveUpJob DEF RebuildFails, GiveUpIndex
  <2>4. CASE Drop(w)
    <3>1. job[w] \in Job
      BY <1>0 DEF JobType
    <3>2. CASE job[w].at \in Blocking
      <4>1. job'[w] = [job[w] EXCEPT !.gone = TRUE]
        BY <1>0, <2>4, <3>2, DropJob
      <4>2. job'[w].at = job[w].at /\ job'[w].run = job[w].run /\ job'[w].page = job[w].page
        BY <3>1, <4>1 DEF Job
      <4> QED
        BY <1>0, <2>4, <4>2, DropJob DEF Drop, At
    <3>3. CASE job[w].at \notin Blocking
      BY <1>0, <2>4, <3>3, DropJob, IdleAt
    <3> QED
      BY <3>2, <3>3
  <2>5. CASE WriteFails(w)
    BY <1>0, <2>5, WriteFailsJob, IdleAt DEF Moves
  <2> QED
    BY <2>1, <2>2, <2>3, <2>4, <2>5
<1>2. job[w] \in Job /\ (job[w].at # "idle" => job[w].run \in 1 .. MaxRun)
  BY <1>0, WikiIndexAssumption DEF JobType, Active, RestType
<1>3. FilesType'
  <2>1. job[w].newIndex \subseteq IndexLine /\ job[w].newLog \in Seq(LogLine)
    BY <1>2 DEF Job
  <2> QED
    BY <1>0, <2>1 DEF FilesType, ReplaceIndex, ReplaceLog, WriteFails, RebuildFails, GiveUpIndex, LogFails,
       Crash, Drop, files
<1>4. RestType'
  <2>1. lock' \in Proc \cup {NoProc}
    BY <1>0 DEF RestType, Release, ReplaceIndex, ReplaceLog, WriteFails, RebuildFails, GiveUpIndex, LogFails,
       Crash, Drop
  <2>2. whole' \subseteq Proc
    BY <1>0 DEF RestType, ReplaceIndex, ReplaceLog, WriteFails, RebuildFails, GiveUpIndex, LogFails,
       Crash, Drop, history
  <2>3. due' \subseteq Page
    <3>1. CASE UNCHANGED due
      BY <1>0, <3>1 DEF RestType
    <3>2. CASE ReplaceIndex(w)
      BY <1>0, <3>2 DEF RestType, ReplaceIndex, At, Active
    <3> QED
      BY <3>1, <3>2 DEF ReplaceLog, WriteFails, RebuildFails, GiveUpIndex, LogFails, Crash, Drop, history
  <2>4. logged' \subseteq 1 .. MaxRun
    <3>1. CASE UNCHANGED logged
      BY <1>0, <3>1 DEF RestType
    <3>2. CASE ReplaceLog(w)
      BY <1>0, <1>2, <3>2 DEF RestType, ReplaceLog, At
    <3> QED
      BY <3>1, <3>2 DEF ReplaceIndex, WriteFails, RebuildFails, GiveUpIndex, LogFails, Crash, Drop, history
  <2>5. troubles' \in Nat
    BY <1>0 DEF RestType, MayFail, counters, ReplaceIndex, ReplaceLog, WriteFails, RebuildFails, GiveUpIndex,
       LogFails, Crash, Drop
  <2>6. UNCHANGED <<today, runs>>
    BY DEF counters, ReplaceIndex, ReplaceLog, WriteFails, RebuildFails, GiveUpIndex, LogFails, Crash, Drop
  <2>7. owed' \in BOOLEAN
    <3>1. owed \in BOOLEAN
      BY <1>0 DEF RestType
    <3> QED
      BY <3>1, Zenon DEF history, ReplaceIndex, ReplaceLog, WriteFails, RebuildFails, GiveUpIndex, LogFails,
         Crash, Drop
  <2>8. cut' \in BOOLEAN
    <3>1. cut \in BOOLEAN
      BY <1>0 DEF RestType
    <3> QED
      BY <3>1, Zenon DEF history, ReplaceIndex, ReplaceLog, WriteFails, RebuildFails, GiveUpIndex, LogFails,
         Crash, Drop
  <2> QED
    BY <1>0, <2>1, <2>2, <2>3, <2>4, <2>5, <2>6, <2>7, <2>8, Zenon DEF RestType
<1>5. Active'
  <2>1. runs' = runs /\ runs <= runs'
    BY <1>0 DEF RestType, counters, ReplaceIndex, ReplaceLog, WriteFails, RebuildFails, GiveUpIndex, LogFails,
       Crash, Drop
  <2>2. job'[w].at # "idle" => job'[w].run \in 1 .. runs'
    BY <1>1, <2>1 DEF Active
  <2>3. job'[w].at \in {"write", "index", "scan", "replaceIndex"} => job'[w].page \in Page
    BY <1>1 DEF Active
  <2> QED
    BY <1>0, <1>1, <1>4, <2>1, <2>2, <2>3, ActiveOne
<1> QED
  BY <1>1, <1>3, <1>4, <1>5, TypeSplit

LEMMA TypeStep == TypeOK /\ Active /\ [Next]_vars => TypeOK' /\ Active'
<1> SUFFICES ASSUME TypeOK, Active, [Next]_vars PROVE TypeOK' /\ Active'
  OBVIOUS
<1>0. FilesType /\ JobType /\ RestType
  BY TypeSplit
<1>1. ASSUME NEW p \in Page, NEW content \in {Absent, Torn} \cup [id : Page, text : {0}],
             OutsideWrites(p, content)
      PROVE  TypeOK' /\ Active'
  <2>1. content \in Content
    <3>1. 0 \in 0 .. MaxRun
      BY WikiIndexAssumption
    <3> QED
      BY <3>1 DEF Content, Parsable
  <2>2. FilesType'
    BY <1>0, <1>1, <2>1, PutType DEF OutsideWrites
  <2>3. owed' \in BOOLEAN /\ UNCHANGED <<lock, job, today, runs, logged, cut>>
    BY <1>1 DEF OutsideWrites
  <2>4. troubles' \in Nat /\ whole' \subseteq Proc /\ due' \subseteq Page
    BY <1>0, <1>1 DEF OutsideWrites, MayFail, Touch, RestType
  <2>5. RestType'
    BY <1>0, <2>3, <2>4, Zenon DEF RestType
  <2> QED
    BY <1>0, <2>2, <2>3, <2>5, TypeSplit DEF JobType, Active
<1>2. CASE Midnight
  <2>1. today' \in 1 .. LastDay /\ UNCHANGED <<files, lock, job, runs, troubles, history>>
    BY <1>0, <1>2, WikiIndexAssumption DEF Midnight, RestType
  <2>2. RestType'
    BY <1>0, <2>1, Zenon DEF RestType, history
  <2> QED
    BY <1>0, <2>1, <2>2, TypeSplit DEF FilesType, files, JobType, Active
<1>3. CASE UNCHANGED vars
  <2>1. UNCHANGED <<disk, index, log, lock, job, today, runs, troubles, whole, due, owed, logged, cut>>
    BY <1>3 DEF vars, files, counters, history
  <2> QED
    BY <2>1 DEF TypeOK, Active
<1> QED
  BY <1>1, <1>2, <1>3, TypeBegin, TypeIndex, TypeFill, TypeEnd DEF Next, Step, BeginEntry, BeginFix

\* The wiki's reserved files and their writers keep their types.
THEOREM TypeCorrect == Spec => []TypeOK
BY TypeInit, TypeStep, PTL DEF Spec

-----------------------------------------------------------------------------
(* Unless a rename was cut off from its request, the lock excludes *)

Holding == {"scan", "replaceIndex", "readLog", "replaceLog"}

\* Who reads or replaces a reserved file holds the lock, and of a dropped request
\* nothing but the writing of its page goes on.
Mutex ==
  ~cut => \A w \in Proc : /\ job[w].at \in Holding => lock = w
                          /\ job[w].gone => job[w].at = "write"

\* A step of w that neither takes the lock nor lets it go.
LEMMA MutexKeep ==
  ASSUME Mutex, cut' = cut, lock' = lock, NEW w \in Proc,
         \A v \in Proc \ {w} : job'[v] = job[v],
         job'[w].at \in Holding => job[w].at \in Holding,
         job'[w].gone => (job[w].gone /\ job'[w].at = job[w].at) \/ job'[w].at = "write"
  PROVE  Mutex'
BY DEF Mutex

LEMMA MutexTake ==
  ASSUME Mutex, cut' = cut, lock = NoProc, NEW w \in Proc, lock' = w,
         \A v \in Proc \ {w} : job'[v] = job[v],
         job[w].at # "write", job'[w].gone = job[w].gone
  PROVE  Mutex'
<1> SUFFICES ASSUME ~cut, NEW v \in Proc
             PROVE  /\ job'[v].at \in Holding => lock' = v
                    /\ job'[v].gone => job'[v].at = "write"
  BY DEF Mutex
<1>1. lock # v
  BY WikiIndexAssumption
<1> QED
  BY <1>1 DEF Mutex

LEMMA MutexLeave ==
  ASSUME Mutex, cut' \in BOOLEAN, cut => cut', NEW w \in Proc, Release(w),
         \A v \in Proc \ {w} : job'[v] = job[v],
         ~cut' => job'[w].at \notin Holding,
         ~cut' /\ job'[w].gone => job'[w].at = "write"
  PROVE  Mutex'
BY DEF Mutex, Release

LEMMA MutexBegin ==
  ASSUME TypeOK, Mutex, NEW w \in Proc, NEW p \in Page,
         FixNext(w, p) \/ \E fix \in BOOLEAN : Begin(w, p, fix)
  PROVE  Mutex'
<1>0. JobType /\ RestType
  BY TypeSplit
<1>1. job'[w].at = "write" /\ \A v \in Proc \ {w} : job'[v] = job[v]
  <2>1. runs \in 0 .. MaxRun
    BY <1>0 DEF RestType
  <2>2. CASE FixNext(w, p)
    BY <1>0, <2>1, <2>2, FixNextJob
  <2>3. CASE \E fix \in BOOLEAN : Begin(w, p, fix)
    BY <1>0, <2>1, <2>3, BeginJob
  <2> QED
    BY <2>2, <2>3
<1>2. cut' = cut /\ lock' = lock
  BY DEF FixNext, Begin
<1> QED
  BY <1>1, <1>2, MutexKeep DEF Holding

LEMMA MutexWork ==
  ASSUME TypeOK, Active, Mutex, NEW w \in Proc, Step(w)
  PROVE  Mutex'
<1>0. FilesType /\ JobType /\ RestType
  BY TypeSplit
<1>1. CASE FillPage(w)
  <2>1. job'[w].at \in {"idle", "index"} /\ ~job'[w].gone /\ \A v \in Proc \ {w} : job'[v] = job[v]
    BY <1>0, <1>1, FillPageJob, IdleAt DEF Moves
  <2>2. cut' = cut /\ lock' = lock
    BY <1>1 DEF FillPage
  <2> QED
    BY <2>1, <2>2, MutexKeep DEF Holding
<1>2. CASE LockIndex(w)
  <2>1. lock = NoProc /\ lock' = w /\ cut' = cut /\ job[w].at # "write"
    BY <1>2 DEF LockIndex, At
  <2> QED
    BY <1>0, <1>2, <2>1, LockIndexJob, MutexTake DEF Moves
<1>3. CASE LockLog(w)
  <2>1. lock = NoProc /\ lock' = w /\ cut' = cut /\ job[w].at # "write"
    BY <1>3 DEF LockLog, At, history
  <2> QED
    BY <1>0, <1>3, <2>1, LockLogJob, MutexTake DEF Moves
<1>4. CASE (\E p \in Page : ReadPage(w, p)) \/ PrepareIndex(w) \/ PrepareLog(w)
  <2>1. cut' = cut /\ lock' = lock /\ job[w].at \in Holding
    BY <1>4 DEF ReadPage, PrepareIndex, PrepareLog, history, At, Holding
  <2>2. \E place \in Place : Moves(w, place)
    <3>1. CASE \E p \in Page : ReadPage(w, p)
      BY <1>0, <3>1, ReadPageJob DEF Place
    <3>2. CASE PrepareIndex(w)
      BY <1>0, <3>2, PrepareIndexJob DEF Place
    <3>3. CASE PrepareLog(w)
      BY <3>3, PrepareLogJob DEF Place
    <3> QED
      BY <1>4, <3>1, <3>2, <3>3
  <2>3. CASE cut
    BY <2>1, <2>3 DEF Mutex
  <2>4. CASE ~cut
    <3>1. ~job[w].gone
      BY <2>1, <2>4 DEF Mutex, Holding
    <3> QED
      BY <2>1, <2>2, <3>1, MutexKeep DEF Moves
  <2> QED
    BY <2>3, <2>4
<1>5. CASE ReplaceIndex(w)
  <2>1. cut' = cut /\ Release(w) /\ job[w].at = "replaceIndex"
    BY <1>5 DEF ReplaceIndex, At
  <2>2. job'[w].at \in {"idle", "log"} /\ \A v \in Proc \ {w} : job'[v] = job[v]
    BY <1>0, <1>5, ReplaceIndexJob, IdleAt DEF Moves
  <2>3. ~cut => ~job'[w].gone
    BY <1>0, <1>5, <2>1, ReplaceIndexJob, IdleAt DEF Moves, Mutex, Holding
  <2>4. cut' \in BOOLEAN
    BY <1>0, <2>1 DEF RestType
  <2> QED
    BY <2>1, <2>2, <2>3, <2>4, MutexLeave DEF Holding
<1>6. CASE ReplaceLog(w)
  <2>1. cut' = cut /\ Release(w) /\ cut' \in BOOLEAN
    BY <1>0, <1>6 DEF ReplaceLog, RestType
  <2>2. job'[w] = Idle /\ \A v \in Proc \ {w} : job'[v] = job[v]
    BY <1>0, <1>6, StopType DEF ReplaceLog
  <2> QED
    BY <2>1, <2>2, IdleAt, MutexLeave DEF Holding
<1> QED
  BY <1>1, <1>2, <1>3, <1>4, <1>5, <1>6 DEF Step

LEMMA MutexTrouble ==
  ASSUME TypeOK, Active, Mutex, NEW w \in Proc,
         WriteFails(w) \/ RebuildFails(w) \/ LogFails(w) \/ Crash(w) \/ Drop(w)
  PROVE  Mutex'
<1>0. JobType /\ RestType
  BY TypeSplit
<1>1. CASE WriteFails(w)
  <2>1. cut' = cut /\ lock' = lock
    BY <1>1 DEF WriteFails
  <2> QED
    BY <1>0, <1>1, <2>1, WriteFailsJob, IdleAt, MutexKeep DEF Moves, Holding
<1>2. CASE LogFails(w) \/ Crash(w)
  <2>1. cut' = cut /\ Release(w) /\ cut' \in BOOLEAN
    BY <1>0, <1>2 DEF LogFails, Crash, history, RestType
  <2>2. job'[w] = Idle /\ \A v \in Proc \ {w} : job'[v] = job[v]
    BY <1>0, <1>2, StopType DEF LogFails, Crash
  <2> QED
    BY <2>1, <2>2, IdleAt, MutexLeave DEF Holding
<1>3. CASE RebuildFails(w)
  <2>1. cut' = cut /\ Release(w) /\ cut' \in BOOLEAN
    BY <1>0, <1>3 DEF RebuildFails, GiveUpIndex, RestType
  <2> QED
    BY <1>0, <1>3, <2>1, GiveUpJob, MutexLeave DEF RebuildFails, Holding
<1>4. CASE Drop(w)
  <2>1. cut' = (cut \/ job[w].at \in {"replaceIndex", "replaceLog"}) /\ Release(w)
    BY <1>4 DEF Drop
  <2>2. cut' \in BOOLEAN /\ (cut => cut')
    BY <2>1
  <2>3. job[w] \in Job
    BY <1>0 DEF JobType
  <2>4. CASE job[w].at \in Blocking
    <3>1. job'[w] = [job[w] EXCEPT !.gone = TRUE] /\ \A v \in Proc \ {w} : job'[v] = job[v]
      BY <1>0, <1>4, <2>4, DropJob
    <3>2. job'[w].at = job[w].at
      BY <2>3, <3>1 DEF Job
    <3>3. ~cut' => job'[w].at = "write"
      BY <2>1, <2>4, <3>2 DEF Blocking
    <3> QED
      BY <2>1, <2>2, <3>1, <3>3, MutexLeave DEF Holding
  <2>5. CASE job[w].at \notin Blocking
    <3>1. job'[w] = Idle /\ \A v \in Proc \ {w} : job'[v] = job[v]
      BY <1>0, <1>4, <2>5, DropJob
    <3> QED
      BY <2>1, <2>2, <3>1, IdleAt, MutexLeave DEF Holding
  <2> QED
    BY <2>4, <2>5
<1> QED
  BY <1>1, <1>2, <1>3, <1>4

LEMMA MutexStep == TypeOK /\ Active /\ Mutex /\ [Next]_vars => Mutex'
<1> SUFFICES ASSUME TypeOK, Active, Mutex, [Next]_vars PROVE Mutex'
  OBVIOUS
<1>1. CASE Midnight \/ UNCHANGED vars \/ \E p \in Page, content \in {Absent, Torn} \cup [id : Page, text : {0}] : OutsideWrites(p, content)
  BY <1>1 DEF Midnight, vars, OutsideWrites, history, Mutex
<1> QED
  BY <1>1, MutexBegin, MutexWork, MutexTrouble DEF Next, BeginEntry, BeginFix

LEMMA MutexInit == Init => Mutex
BY IdleAt DEF Init, Mutex, Holding

-----------------------------------------------------------------------------
(* A page once listed stays listed *)

Own(content, p)   == content \in Parsable /\ content.id = p
Sound(content, p) == content = Torn \/ Own(content, p)
Lists(lines, p)   == \E l \in lines : l.target = p

DueListed == \A p \in due : Sound(disk[p], p) /\ Lists(index, p)

\* A rebuild under way has read what makes it list the pages that are due.
ReadsDue(w) ==
  /\ job[w].at = "scan" => \A p \in due \ job[w].todo : Sound(job[w].seen[p], p)
  /\ job[w].at = "replaceIndex" => \A p \in due : Lists(job[w].newIndex, p)

\* The page w has written is as it wrote it, but for its text, and w's rebuild lists it.
OwnListed(w) ==
  /\ job[w].at \in {"index", "scan", "replaceIndex"}
  /\ Own(disk[job[w].page], job[w].page)
  /\ job[w].at = "scan" /\ job[w].page \notin job[w].todo => Own(job[w].seen[job[w].page], job[w].page)
  /\ job[w].at = "replaceIndex" => Lists(job[w].newIndex, job[w].page)

ListInv ==
  ~cut => DueListed /\ \A w \in Proc : ReadsDue(w) /\ (w \in whole => OwnListed(w))

LEMMA PickLists ==
  ASSUME NEW lines, NEW some \in OnePerTarget(lines), NEW p, Lists(lines, p)
  PROVE  Lists(some, p)
BY DEF OnePerTarget, Lists

LEMMA RenderLists ==
  ASSUME NEW tree \in [Page -> Content], NEW old, NEW lines \in RenderIndex(tree, old), NEW p \in Page,
         Own(tree[p], p) \/ (tree[p] = Torn /\ Lists(old, p))
  PROVE  Lists(lines, p)
<1>1. PICK fresh \in OnePerTarget(Fresh(tree)),
            carried \in OnePerTarget({l \in old : l.target \in Failed(tree)}) : lines = fresh \cup carried
  BY DEF RenderIndex
<1>2. CASE Own(tree[p], p)
  <2>1. Line(tree[p]) \in Fresh(tree) /\ Line(tree[p]).target = p
    BY <1>2 DEF Own, Fresh, Line
  <2>2. Lists(fresh, p)
    BY <1>1, <2>1, PickLists DEF Lists
  <2> QED
    BY <1>1, <2>2 DEF Lists
<1>3. CASE tree[p] = Torn /\ Lists(old, p)
  <2>1. Lists({l \in old : l.target \in Failed(tree)}, p)
    BY <1>3 DEF Lists, Failed
  <2>2. Lists(carried, p)
    BY <1>1, <2>1, PickLists
  <2> QED
    BY <1>1, <2>2 DEF Lists
<1> QED
  BY <1>2, <1>3

\* A step of w after which it is not rebuilding, and its page no longer its own.
LEMMA ListLeave ==
  ASSUME ListInv, cut \in BOOLEAN, cut => cut', NEW w \in Proc, UNCHANGED <<disk, index, due>>,
         whole' \subseteq whole \ {w},
         \A v \in Proc \ {w} : job'[v] = job[v],
         ~cut' => job'[w].at \notin {"scan", "replaceIndex"}
  PROVE  ListInv'
<1> SUFFICES ASSUME ~cut' PROVE DueListed' /\ \A v \in Proc : ReadsDue(v)' /\ (v \in whole' => OwnListed(v)')
  BY DEF ListInv
<1>1. DueListed'
  BY DEF ListInv, DueListed
<1>2. ASSUME NEW v \in Proc
      PROVE  ReadsDue(v)' /\ (v \in whole' => OwnListed(v)')
  <2>1. CASE v = w
    BY <2>1 DEF ReadsDue
  <2>2. CASE v # w
    BY <2>2 DEF ListInv, ReadsDue, OwnListed
  <2> QED
    BY <2>1, <2>2
<1> QED
  BY <1>1, <1>2

\* A step that rewrites page p, with what leaves it sound, outside any run.
LEMMA ListBegin ==
  ASSUME TypeOK, ListInv, NEW w \in Proc, NEW p \in Page,
         FixNext(w, p) \/ \E fix \in BOOLEAN : Begin(w, p, fix)
  PROVE  ListInv'
<1>0. FilesType /\ JobType /\ RestType
  BY TypeSplit
<1>1. /\ disk' = [disk EXCEPT ![p] = Torn] /\ whole' = whole \ ({w} \cup {v \in Proc : job[v].page = p})
      /\ UNCHANGED <<index, due, cut>>
  BY DEF FixNext, Begin, Put, Touch
<1>2. job'[w].at = "write" /\ \A v \in Proc \ {w} : job'[v] = job[v]
  <2>1. runs \in 0 .. MaxRun
    BY <1>0 DEF RestType
  <2>2. CASE FixNext(w, p)
    BY <1>0, <2>1, <2>2, FixNextJob
  <2>3. CASE \E fix \in BOOLEAN : Begin(w, p, fix)
    BY <1>0, <2>1, <2>3, BeginJob
  <2> QED
    BY <2>2, <2>3
<1> SUFFICES ASSUME ~cut PROVE DueListed' /\ \A v \in Proc : ReadsDue(v)' /\ (v \in whole' => OwnListed(v)')
  BY <1>1 DEF ListInv
<1>3. DueListed'
  BY <1>0, <1>1 DEF ListInv, DueListed, FilesType, Sound
<1>4. ASSUME NEW v \in Proc
      PROVE  ReadsDue(v)' /\ (v \in whole' => OwnListed(v)')
  <2>1. ReadsDue(v)'
    <3>1. CASE v = w
      BY <1>2, <3>1 DEF ReadsDue
    <3>2. CASE v # w
      BY <1>1, <1>2, <3>2 DEF ListInv, ReadsDue
    <3> QED
      BY <3>1, <3>2
  <2>2. ASSUME v \in whole' PROVE OwnListed(v)'
    <3>1. v \in whole /\ v # w /\ job[v].page # p
      BY <1>1, <2>2
    <3>2. OwnListed(v) /\ job'[v] = job[v]
      BY <1>2, <3>1 DEF ListInv
    <3>3. disk'[job[v].page] = disk[job[v].page]
      BY <1>0, <1>1, <3>1 DEF FilesType
    <3> QED
      BY <3>2, <3>3 DEF OwnListed
  <2> QED
    BY <2>1, <2>2
<1> QED
  BY <1>3, <1>4

LEMMA ListFill ==
  ASSUME TypeOK, Active, ListInv, NEW w \in Proc, FillPage(w)
  PROVE  ListInv'
<1>0. FilesType /\ JobType /\ RestType
  BY TypeSplit
<1> DEFINE p == job[w].page
           text == [id |-> p, text |-> job[w].run]
<1>1. job[w].at = "write" /\ p \in Page /\ job[w].run \in 0 .. MaxRun
  BY <1>0 DEF FillPage, At, Active, JobType, Job
<1>2. /\ job'[w].at \in {"idle", "index"}
      /\ \A v \in Proc \ {w} : job'[v] = job[v]
  BY <1>0, FillPageJob, IdleAt DEF Moves
<1>3. UNCHANGED <<index, due, cut>>
  BY DEF FillPage
<1>4. text \in Parsable /\ text.id = p
  BY <1>1 DEF Parsable
<1>5. \/ UNCHANGED <<disk, whole>>
      \/ /\ disk' = [disk EXCEPT ![p] = text]
         /\ whole' = whole \/ (whole' = whole \cup {w} /\ ~job[w].gone)
  BY DEF FillPage, Put
<1> HIDE DEF p, text
<1> SUFFICES ASSUME ~cut PROVE DueListed' /\ \A v \in Proc : ReadsDue(v)' /\ (v \in whole' => OwnListed(v)')
  BY <1>3 DEF ListInv
<1>6. \A q \in Page : disk'[q] = disk[q] \/ Own(disk'[q], q)
  BY <1>0, <1>1, <1>4, <1>5 DEF FilesType, Own
<1>7. DueListed'
  <2>1. due \subseteq Page
    BY <1>0 DEF RestType
  <2> QED
    BY <1>3, <1>6, <2>1 DEF ListInv, DueListed, Sound
<1>8. ASSUME NEW v \in Proc
      PROVE  ReadsDue(v)' /\ (v \in whole' => OwnListed(v)')
  <2>1. ReadsDue(v)'
    <3>1. CASE v = w
      BY <1>2, <3>1 DEF ReadsDue
    <3>2. CASE v # w
      BY <1>2, <1>3, <3>2 DEF ListInv, ReadsDue
    <3> QED
      BY <3>1, <3>2
  <2>2. ASSUME v \in whole', v # w PROVE OwnListed(v)'
    <3>1. OwnListed(v) /\ job'[v] = job[v]
      BY <1>2, <1>5, <2>2 DEF ListInv
    <3>2. job[v].page \in Page
      BY <3>1 DEF OwnListed, Active
    <3>3. Own(disk'[job[v].page], job[v].page)
      BY <1>6, <3>1, <3>2 DEF OwnListed
    <3> QED
      BY <3>1, <3>3 DEF OwnListed
  <2>3. ASSUME w \in whole' PROVE OwnListed(w)'
    <3>1. w \notin whole
      BY <1>1 DEF ListInv, OwnListed
    <3>2. disk' = [disk EXCEPT ![p] = text] /\ ~job[w].gone
      BY <1>5, <2>3, <3>1
    <3>3. Own(disk'[p], p)
      BY <1>0, <1>1, <1>4, <3>2 DEF FilesType, Own
    <3>4. job'[w].at = "index" /\ job'[w].page = p
      BY <1>0, <3>2, FillPageJob DEF Moves, p
    <3> QED
      BY <3>3, <3>4 DEF OwnListed
  <2> QED
    BY <2>1, <2>2, <2>3
<1> QED
  BY <1>7, <1>8

LEMMA ListLock ==
  ASSUME TypeOK, Active, ListInv, NEW w \in Proc, LockIndex(w)
  PROVE  ListInv'
<1>0. JobType /\ RestType
  BY TypeSplit
<1>1. UNCHANGED <<disk, index, whole, due, cut>> /\ job[w].at = "index"
  BY DEF LockIndex, files, At
<1>2. Moves(w, "scan") /\ job'[w].todo = Page
  BY <1>0, LockIndexJob
<1> SUFFICES ASSUME ~cut PROVE DueListed' /\ \A v \in Proc : ReadsDue(v)' /\ (v \in whole' => OwnListed(v)')
  BY <1>1 DEF ListInv
<1>3. DueListed'
  BY <1>1 DEF ListInv, DueListed
<1>4. ReadsDue(w)'
  BY <1>0, <1>1, <1>2 DEF ReadsDue, Moves, RestType
<1>5. w \in whole => OwnListed(w)'
  <2>1. job[w].page \in Page
    BY <1>1 DEF Active
  <2> QED
    BY <1>1, <1>2, <2>1 DEF ListInv, OwnListed, Moves
<1>6. ASSUME NEW v \in Proc \ {w} PROVE ReadsDue(v)' /\ (v \in whole => OwnListed(v)')
  BY <1>1, <1>2, <1>6 DEF ListInv, ReadsDue, OwnListed, Moves
<1> QED
  BY <1>1, <1>3, <1>4, <1>5, <1>6

LEMMA ListRead ==
  ASSUME TypeOK, Active, ListInv, NEW w \in Proc, NEW p \in Page, ReadPage(w, p)
  PROVE  ListInv'
<1>0. FilesType /\ JobType /\ RestType
  BY TypeSplit
<1>1. UNCHANGED <<disk, index, whole, due, cut>> /\ job[w].at = "scan" /\ p \in job[w].todo
  BY DEF ReadPage, files, history, At
<1>2. Moves(w, "scan") /\ job'[w].todo = job[w].todo \ {p}
      /\ job'[w].seen = [job[w].seen EXCEPT ![p] = disk[p]]
  BY <1>0, ReadPageJob
<1>3. job[w].seen \in [Page -> Content]
  BY <1>0 DEF JobType, Job
<1> SUFFICES ASSUME ~cut PROVE DueListed' /\ \A v \in Proc : ReadsDue(v)' /\ (v \in whole' => OwnListed(v)')
  BY <1>1 DEF ListInv
<1>4. DueListed'
  BY <1>1 DEF ListInv, DueListed
<1>5. ReadsDue(w)'
  <2>1. ASSUME NEW q \in due \ job'[w].todo PROVE Sound(job'[w].seen[q], q)
    <3>1. CASE q = p
      BY <1>2, <1>3, <3>1 DEF ListInv, DueListed
    <3>2. CASE q # p
      BY <1>0, <1>1, <1>2, <1>3, <3>2 DEF ListInv, ReadsDue, RestType
    <3> QED
      BY <3>1, <3>2
  <2> QED
    BY <1>1, <1>2, <2>1 DEF ReadsDue, Moves
<1>6. ASSUME w \in whole PROVE OwnListed(w)'
  <2>1. job[w].page \in Page /\ OwnListed(w) /\ job'[w].page = job[w].page /\ job'[w].at = "scan"
    BY <1>1, <1>2, <1>6 DEF Active, ListInv, Moves
  <2>2. ASSUME job[w].page \notin job'[w].todo PROVE Own(job'[w].seen[job[w].page], job[w].page)
    <3>1. CASE job[w].page = p
      BY <1>2, <1>3, <2>1, <3>1 DEF OwnListed
    <3>2. CASE job[w].page # p
      BY <1>1, <1>2, <1>3, <2>1, <2>2, <3>2 DEF OwnListed
    <3> QED
      BY <3>1, <3>2
  <2> QED
    BY <1>1, <2>1, <2>2 DEF OwnListed
<1>7. ASSUME NEW v \in Proc \ {w} PROVE ReadsDue(v)' /\ (v \in whole => OwnListed(v)')
  BY <1>1, <1>2, <1>7 DEF ListInv, ReadsDue, OwnListed, Moves
<1> QED
  BY <1>1, <1>4, <1>5, <1>6, <1>7

LEMMA ListPrepare ==
  ASSUME TypeOK, Active, ListInv, NEW w \in Proc, PrepareIndex(w)
  PROVE  ListInv'
<1>0. FilesType /\ JobType /\ RestType
  BY TypeSplit
<1>1. UNCHANGED <<disk, index, whole, due, cut>> /\ job[w].at = "scan" /\ job[w].todo = {}
  BY DEF PrepareIndex, files, history, At
<1>2. Moves(w, "replaceIndex") /\ job'[w].newIndex \in RenderIndex(job[w].seen, index)
  BY <1>0, PrepareIndexJob
<1>3. job[w].seen \in [Page -> Content]
  BY <1>0 DEF JobType, Job
<1> SUFFICES ASSUME ~cut PROVE DueListed' /\ \A v \in Proc : ReadsDue(v)' /\ (v \in whole' => OwnListed(v)')
  BY <1>1 DEF ListInv
<1>4. DueListed'
  BY <1>1 DEF ListInv, DueListed
<1>5. ReadsDue(w)'
  <2>1. ASSUME NEW q \in due PROVE Lists(job'[w].newIndex, q)
    <3>1. q \in Page
      BY <1>0 DEF RestType
    <3>2. Sound(job[w].seen[q], q) /\ Lists(index, q)
      BY <1>1 DEF ListInv, ReadsDue, DueListed
    <3> QED
      BY <1>2, <1>3, <3>1, <3>2, RenderLists DEF Sound
  <2> QED
    BY <1>1, <1>2, <2>1 DEF ReadsDue, Moves
<1>6. ASSUME w \in whole PROVE OwnListed(w)'
  <2>1. job[w].page \in Page /\ OwnListed(w) /\ job'[w].page = job[w].page /\ job'[w].at = "replaceIndex"
    BY <1>1, <1>2, <1>6 DEF Active, ListInv, Moves
  <2>2. Own(job[w].seen[job[w].page], job[w].page)
    BY <1>1, <2>1 DEF OwnListed
  <2>3. Lists(job'[w].newIndex, job[w].page)
    BY <1>2, <1>3, <2>1, <2>2, RenderLists
  <2> QED
    BY <1>1, <2>1, <2>3 DEF OwnListed
<1>7. ASSUME NEW v \in Proc \ {w} PROVE ReadsDue(v)' /\ (v \in whole => OwnListed(v)')
  BY <1>1, <1>2, <1>7 DEF ListInv, ReadsDue, OwnListed, Moves
<1> QED
  BY <1>1, <1>4, <1>5, <1>6, <1>7

LEMMA ListReplace ==
  ASSUME TypeOK, Active, Mutex, ListInv, NEW w \in Proc, ReplaceIndex(w)
  PROVE  ListInv'
<1>0. JobType /\ RestType
  BY TypeSplit
<1>1. /\ job[w].at = "replaceIndex" /\ index' = job[w].newIndex /\ UNCHANGED <<disk, cut>>
      /\ due' = (IF w \in whole THEN due \cup {job[w].page} ELSE due) /\ whole' = whole \ {w}
  BY DEF ReplaceIndex, At
<1>2. job'[w].at \in {"idle", "log"} /\ \A v \in Proc \ {w} : job'[v] = job[v]
  BY <1>0, ReplaceIndexJob, IdleAt DEF Moves
<1> SUFFICES ASSUME ~cut PROVE DueListed' /\ \A v \in Proc : ReadsDue(v)' /\ (v \in whole' => OwnListed(v)')
  BY <1>1 DEF ListInv
<1>3. DueListed'
  <2>1. \A p \in due : Sound(disk[p], p) /\ Lists(job[w].newIndex, p)
    BY <1>1 DEF ListInv, DueListed, ReadsDue
  <2>2. w \in whole => Own(disk[job[w].page], job[w].page) /\ Lists(job[w].newIndex, job[w].page)
    BY <1>1 DEF ListInv, OwnListed
  <2> QED
    BY <1>1, <2>1, <2>2 DEF DueListed, Sound
<1>4. ReadsDue(w)'
  BY <1>2 DEF ReadsDue
<1>5. ASSUME NEW v \in Proc \ {w} PROVE ReadsDue(v)' /\ (v \in whole => OwnListed(v)')
  <2>1. job[v].at \notin Holding
    BY <1>1 DEF Mutex, Holding
  <2> QED
    BY <1>1, <1>2, <2>1 DEF ListInv, ReadsDue, OwnListed, Holding
<1> QED
  BY <1>1, <1>3, <1>4, <1>5

\* The steps that do not touch the pages or the index, of a writer that has no
\* rebuild of its own under way or gives it up.
LEMMA ListRest ==
  ASSUME TypeOK, Active, ListInv, NEW w \in Proc,
         \/ LockLog(w) \/ PrepareLog(w) \/ ReplaceLog(w)
         \/ WriteFails(w) \/ RebuildFails(w) \/ LogFails(w) \/ Crash(w) \/ Drop(w)
  PROVE  ListInv'
<1>0. JobType /\ RestType
  BY TypeSplit
<1>1. UNCHANGED <<disk, index, due>> /\ (cut => cut')
  <2> USE DEF LockLog, PrepareLog, ReplaceLog, WriteFails, RebuildFails, GiveUpIndex, LogFails, Crash, Drop,
     files, history
  <2>1. UNCHANGED <<disk, index, due>>
    OBVIOUS
  <2>2. cut' = cut \/ Drop(w)
    OBVIOUS
  <2> HIDE DEF Drop
  <2>3. Drop(w) => (cut => cut')
    BY DEF Drop
  <2> QED
    BY <2>1, <2>2, <2>3
<1>2. (\A v \in Proc \ {w} : job'[v] = job[v]) /\ (~cut' => job'[w].at \notin {"scan", "replaceIndex"})
  <2>1. CASE LockLog(w) \/ PrepareLog(w)
    BY <1>0, <2>1, LockLogJob, PrepareLogJob DEF Moves
  <2>2. CASE ReplaceLog(w) \/ LogFails(w) \/ Crash(w)
    BY <1>0, <2>2, StopType, IdleAt DEF ReplaceLog, LogFails, Crash
  <2>3. CASE RebuildFails(w)
    BY <1>0, <2>3, GiveUpJob DEF RebuildFails
  <2>4. CASE Drop(w)
    <3>1. job[w] \in Job
      BY <1>0 DEF JobType
    <3>2. CASE job[w].at \in Blocking
      <4>1. job'[w].at = job[w].at
        <5>1. job'[w] = [job[w] EXCEPT !.gone = TRUE]
          BY <1>0, <2>4, <3>2, DropJob
        <5> QED
          BY <3>1, <5>1 DEF Job
      <4>2. ~cut' => job[w].at # "replaceIndex"
        BY <2>4 DEF Drop
      <4>3. job[w].at # "scan"
        BY <3>2 DEF Blocking
      <4> QED
        BY <1>0, <2>4, <4>1, <4>2, <4>3, DropJob
    <3>3. CASE job[w].at \notin Blocking
      BY <1>0, <2>4, <3>3, DropJob, IdleAt
    <3> QED
      BY <3>2, <3>3
  <2>5. CASE WriteFails(w)
    BY <1>0, <2>5, WriteFailsJob, IdleAt DEF Moves
  <2> QED
    BY <2>1, <2>2, <2>3, <2>4, <2>5
<1>3. cut \/ whole' \subseteq whole \ {w}
  <2>1. CASE LockLog(w) \/ PrepareLog(w) \/ ReplaceLog(w) \/ LogFails(w)
    <3>1. job[w].at \in {"log", "readLog", "replaceLog"} /\ whole' = whole
      BY <2>1 DEF LockLog, PrepareLog, ReplaceLog, LogFails, At, history
    <3>2. cut \/ w \notin whole
      BY <3>1 DEF ListInv, OwnListed
    <3> QED
      BY <3>1, <3>2
  <2>2. CASE WriteFails(w) \/ RebuildFails(w) \/ Crash(w) \/ Drop(w)
    BY <2>2 DEF WriteFails, RebuildFails, GiveUpIndex, Crash, Drop
  <2> QED
    BY <2>1, <2>2
<1>4. CASE cut
  BY <1>1, <1>4 DEF ListInv
<1>5. CASE ~cut
  <2>1. cut \in BOOLEAN
    BY <1>0 DEF RestType
  <2> QED
    BY <1>1, <1>2, <1>3, <1>5, <2>1, ListLeave
<1> QED
  BY <1>4, <1>5

LEMMA ListOutside ==
  ASSUME TypeOK, Active, ListInv, NEW p \in Page, NEW content \in {Absent, Torn} \cup [id : Page, text : {0}],
         OutsideWrites(p, content)
  PROVE  ListInv'
<1>0. FilesType /\ JobType /\ RestType
  BY TypeSplit
<1>1. /\ disk' = [disk EXCEPT ![p] = content] /\ whole' = whole \ {v \in Proc : job[v].page = p}
      /\ UNCHANGED <<index, job, cut>>
      /\ due' = IF content = Torn \/ content = [id |-> p, text |-> 0] THEN due ELSE due \ {p}
  BY DEF OutsideWrites, Put, Touch
<1> SUFFICES ASSUME ~cut PROVE DueListed' /\ \A v \in Proc : ReadsDue(v)' /\ (v \in whole' => OwnListed(v)')
  BY <1>1 DEF ListInv
<1>2. p \in due' => Sound(disk'[p], p)
  <2>1. [id |-> p, text |-> 0] \in Parsable
    BY WikiIndexAssumption DEF Parsable
  <2> QED
    BY <1>0, <1>1, <2>1 DEF FilesType, Sound, Own
<1>3. DueListed'
  BY <1>0, <1>1, <1>2 DEF ListInv, DueListed, FilesType, RestType
<1>4. ASSUME NEW v \in Proc PROVE ReadsDue(v)'
  <2>1. due' \subseteq due
    BY <1>1
  <2> QED
    BY <1>1, <2>1 DEF ListInv, ReadsDue
<1>5. ASSUME NEW v \in Proc, v \in whole' PROVE OwnListed(v)'
  <2>1. v \in whole /\ job[v].page # p
    BY <1>1, <1>5
  <2>2. disk'[job[v].page] = disk[job[v].page]
    BY <1>0, <1>1, <2>1 DEF FilesType
  <2> QED
    BY <1>1, <2>1, <2>2 DEF ListInv, OwnListed
<1> QED
  BY <1>3, <1>4, <1>5

LEMMA ListStep == TypeOK /\ Active /\ Mutex /\ ListInv /\ [Next]_vars => ListInv'
<1> SUFFICES ASSUME TypeOK, Active, Mutex, ListInv, [Next]_vars PROVE ListInv'
  OBVIOUS
<1>1. CASE Midnight \/ UNCHANGED vars
  <2>1. UNCHANGED <<disk, index, job, whole, due, cut>>
    BY <1>1 DEF Midnight, vars, files, history
  <2> QED
    BY <2>1 DEF ListInv, DueListed, ReadsDue, OwnListed
<1> QED
  BY <1>1, ListBegin, ListFill, ListLock, ListRead, ListPrepare, ListReplace, ListRest, ListOutside
  DEF Next, Step, BeginEntry, BeginFix

LEMMA ListInit == Init => ListInv
BY IdleAt DEF Init, ListInv, DueListed, ReadsDue, OwnListed

\* Once a run's rebuild has listed its page, every later index lists it for as long
\* as the file is there, for any number of pages, writers, failures and crashes.
THEOREM ListedStaysListed == Spec => []KeepsListed
<1>1. ListInv => KeepsListed
  BY DEF ListInv, DueListed, KeepsListed, Lists
<1> QED
  BY <1>1, TypeInit, TypeStep, MutexInit, MutexStep, ListInit, ListStep, PTL DEF Spec

-----------------------------------------------------------------------------
(* No line of the log is lost or doubled *)

Once(lines, n)   == \E i \in DOMAIN lines : \A j \in DOMAIN lines : lines[j].run = n <=> j = i
Unused(lines, n) == \A i \in DOMAIN lines : lines[i].run # n

\* The runs in hand are all different.
OwnRuns ==
  \A v, w \in Proc : v # w /\ job[v].at # "idle" /\ job[w].at # "idle" => job[v].run # job[w].run

\* These lines have one of each run that has logged and none of the others.
Faithful(lines, done) ==
  /\ \A n \in done : Once(lines, n)
  /\ \A i \in DOMAIN lines : lines[i].run <= runs

NewLogOf(w) ==
  job[w].at = "replaceLog" =>
    /\ Faithful(job[w].newLog, logged \cup {job[w].run})
    /\ \A v \in Proc \ {w} : job[v].at # "idle" => Unused(job[w].newLog, job[v].run)

LogInv ==
  /\ OwnRuns
  /\ ~cut => /\ Faithful(log, logged)
             /\ \A w \in Proc : job[w].at # "idle" => Unused(log, job[w].run)
             /\ \A w \in Proc : NewLogOf(w)

LEMMA InsertOnce ==
  ASSUME NEW lines \in Seq(LogLine), NEW new \in Seq(LogLine), NEW line \in LogLine,
         NEW k \in 1 .. Len(lines) + 1, Inserted(new, lines, k, line), Unused(lines, line.run)
  PROVE  /\ Once(new, line.run)
         /\ \A n : Once(lines, n) => Once(new, n)
         /\ \A n : Unused(lines, n) /\ n # line.run => Unused(new, n)
         /\ \A i \in DOMAIN new : new[i] = line \/ \E j \in DOMAIN lines : new[i] = lines[j]
<1>0. /\ Len(lines) \in Nat /\ k \in Nat
      /\ DOMAIN lines = 1 .. Len(lines) /\ DOMAIN new = 1 .. Len(lines) + 1
  BY LenProperties DEF Inserted
<1>1. \A i \in DOMAIN new : new[i] = IF i < k THEN lines[i] ELSE IF i = k THEN line ELSE lines[i - 1]
  BY <1>0 DEF Inserted
<1>2. \A i \in DOMAIN new : i # k => (IF i < k THEN i ELSE i - 1) \in DOMAIN lines
  BY <1>0
<1>3. k \in DOMAIN new /\ new[k] = line
  BY <1>0, <1>1
<1>4. \A i \in DOMAIN new : i # k => new[i] = lines[IF i < k THEN i ELSE i - 1]
  BY <1>0, <1>1
<1>5. \A j \in DOMAIN lines : LET i == IF j < k THEN j ELSE j + 1
                              IN  i \in DOMAIN new /\ i # k /\ new[i] = lines[j]
  <2> SUFFICES ASSUME NEW j \in DOMAIN lines
               PROVE  LET i == IF j < k THEN j ELSE j + 1
                      IN  i \in DOMAIN new /\ i # k /\ new[i] = lines[j]
    OBVIOUS
  <2>1. CASE j < k
    BY <1>0, <1>1, <2>1
  <2>2. CASE ~ (j < k)
    <3>1. j + 1 \in DOMAIN new /\ j + 1 > k /\ (j + 1) - 1 = j
      BY <1>0, <2>2
    <3> QED
      BY <1>0, <1>1, <2>2, <3>1
  <2> QED
    BY <2>1, <2>2
<1>6. \A i \in DOMAIN new : i # k => new[i].run # line.run
  BY <1>2, <1>4 DEF Unused
<1>7. Once(new, line.run)
  BY <1>3, <1>6 DEF Once
<1>8. ASSUME NEW n, Once(lines, n) PROVE Once(new, n)
  <2>1. PICK a \in DOMAIN lines : \A j \in DOMAIN lines : lines[j].run = n <=> j = a
    BY <1>8 DEF Once
  <2> DEFINE b == IF a < k THEN a ELSE a + 1
  <2>2. b \in DOMAIN new /\ b # k /\ new[b].run = n
    BY <1>5, <2>1
  <2>3. line.run # n
    BY <2>1 DEF Unused
  <2>4. ASSUME NEW i \in DOMAIN new, new[i].run = n PROVE i = b
    <3>1. i # k
      BY <1>3, <2>3, <2>4
    <3>2. (IF i < k THEN i ELSE i - 1) = a
      BY <1>2, <1>4, <2>1, <2>4, <3>1
    <3> QED
      BY <1>0, <3>1, <3>2
  <2> HIDE DEF b
  <2> QED
    BY <2>2, <2>4 DEF Once
<1>9. ASSUME NEW n, Unused(lines, n), n # line.run PROVE Unused(new, n)
  BY <1>2, <1>3, <1>4, <1>9 DEF Unused
<1>10. \A i \in DOMAIN new : new[i] = line \/ \E j \in DOMAIN lines : new[i] = lines[j]
  BY <1>2, <1>3, <1>4
<1> QED
  BY <1>7, <1>8, <1>9, <1>10

\* A step of w that does not log: it goes on with its run, or ends it.
LEMMA LogGoesOn ==
  ASSUME TypeOK, LogInv, cut \in BOOLEAN, cut => cut', NEW w \in Proc, UNCHANGED <<log, logged, runs>>,
         \A v \in Proc \ {w} : job'[v] = job[v],
         job'[w].at # "idle" => job[w].at # "idle" /\ job'[w].run = job[w].run,
         ~cut' => job'[w].at # "replaceLog"
  PROVE  LogInv'
<1>1. OwnRuns'
  BY DEF LogInv, OwnRuns
<1>2. ASSUME ~cut'
      PROVE  /\ Faithful(log, logged)'
             /\ \A v \in Proc : job'[v].at # "idle" => Unused(log, job[v].run) /\ job'[v].run = job[v].run
             /\ \A v \in Proc : NewLogOf(v)'
  <2>1. Faithful(log, logged)'
    BY <1>2 DEF LogInv, Faithful
  <2>2. \A v \in Proc : job'[v].at # "idle" =>
          job[v].at # "idle" /\ Unused(log, job[v].run) /\ job'[v].run = job[v].run
    BY <1>2 DEF LogInv
  <2>3. ASSUME NEW v \in Proc PROVE NewLogOf(v)'
    <3>1. CASE v = w
      BY <1>2, <3>1 DEF NewLogOf
    <3>2. CASE v # w
      BY <1>2, <2>2, <3>2 DEF LogInv, NewLogOf, Faithful
    <3> QED
      BY <3>1, <3>2
  <2> QED
    BY <2>1, <2>2, <2>3
<1>3. ~cut' => \A v \in Proc : job'[v].at # "idle" => Unused(log', job'[v].run)
  BY <1>2
<1> QED
  BY <1>1, <1>2, <1>3 DEF LogInv

LEMMA LogBegin ==
  ASSUME TypeOK, Active, LogInv, NEW w \in Proc, NEW p \in Page,
         FixNext(w, p) \/ \E fix \in BOOLEAN : Begin(w, p, fix)
  PROVE  LogInv'
<1>0. FilesType /\ JobType /\ RestType
  BY TypeSplit
<1>1. runs' = runs + 1 /\ runs \in Nat /\ UNCHANGED <<log, logged, cut>>
  <2>1. runs' = runs + 1 /\ UNCHANGED <<log, logged, cut>>
    BY DEF FixNext, Begin
  <2>2. runs \in Nat
    BY <1>0 DEF RestType
  <2> QED
    BY <2>1, <2>2
<1>2. job'[w].at = "write" /\ job'[w].run = runs + 1 /\ \A v \in Proc \ {w} : job'[v] = job[v]
  <2>1. runs \in 0 .. MaxRun
    BY <1>0 DEF RestType
  <2>2. CASE FixNext(w, p)
    BY <1>0, <2>1, <2>2, FixNextJob
  <2>3. CASE \E fix \in BOOLEAN : Begin(w, p, fix)
    BY <1>0, <2>1, <2>3, BeginJob
  <2> QED
    BY <2>2, <2>3
<1>3. \A v \in Proc : job[v].at # "idle" => job[v].run \in Nat /\ job[v].run <= runs
  BY <1>1 DEF Active
<1>4. OwnRuns'
  BY <1>1, <1>2, <1>3 DEF LogInv, OwnRuns
<1>5. ASSUME NEW lines \in Seq(LogLine), \A i \in DOMAIN lines : lines[i].run <= runs
      PROVE  Unused(lines, runs + 1) /\ \A i \in DOMAIN lines : lines[i].run <= runs + 1
  <2>1. \A i \in DOMAIN lines : lines[i].run \in Nat
    <3>1. \A i \in DOMAIN lines : lines[i] \in LogLine
      BY LenProperties
    <3> QED
      BY <3>1, WikiIndexAssumption DEF LogLine
  <2> QED
    BY <1>1, <1>5, <2>1 DEF Unused
<1>6. ASSUME ~cut
      PROVE  /\ Faithful(log, logged)'
             /\ \A v \in Proc : job'[v].at # "idle" => Unused(log, job'[v].run)
  BY <1>0, <1>1, <1>2, <1>5, <1>6 DEF LogInv, Faithful, FilesType
<1>7. ASSUME ~cut, NEW v \in Proc
      PROVE  NewLogOf(v)'
  <2>1. CASE v = w
    BY <1>2, <2>1 DEF NewLogOf
  <2>2. CASE v # w
    <3>1. job'[v] = job[v] /\ job[v].newLog \in Seq(LogLine) /\ NewLogOf(v)
      BY <1>0, <1>2, <1>7, <2>2 DEF JobType, Job, LogInv
    <3> SUFFICES ASSUME job[v].at = "replaceLog"
                 PROVE  /\ Faithful(job[v].newLog, logged \cup {job[v].run})'
                        /\ \A u \in Proc \ {v} : job'[u].at # "idle" => Unused(job[v].newLog, job'[u].run)
      BY <1>1, <3>1 DEF NewLogOf
    <3>2. Unused(job[v].newLog, runs + 1) /\ \A i \in DOMAIN job[v].newLog : job[v].newLog[i].run <= runs + 1
      BY <1>5, <3>1 DEF NewLogOf, Faithful
    <3>3. Faithful(job[v].newLog, logged \cup {job[v].run})'
      BY <1>1, <3>1, <3>2 DEF NewLogOf, Faithful
    <3> QED
      BY <1>2, <3>1, <3>2, <3>3 DEF NewLogOf
  <2> QED
    BY <2>1, <2>2
<1> QED
  BY <1>1, <1>4, <1>6, <1>7 DEF LogInv

LEMMA LogPrepare ==
  ASSUME TypeOK, Active, LogInv, NEW w \in Proc, PrepareLog(w)
  PROVE  LogInv'
<1>0. FilesType /\ JobType /\ RestType
  BY TypeSplit
<1>1. job[w].at = "readLog" /\ UNCHANGED <<log, logged, runs, cut>>
  BY DEF PrepareLog, At, files, counters, history
<1>2. Moves(w, "replaceLog") /\ job'[w].newLog = AppendLogLine(log, today, job[w].run)
  BY PrepareLogJob
<1>3. log \in Seq(LogLine) /\ job[w].run \in 1 .. MaxRun /\ today \in 1 .. LastDay /\ job[w].run <= runs
  BY <1>0, <1>1, WikiIndexAssumption DEF FilesType, RestType, Active
<1>4. OwnRuns'
  BY <1>1, <1>2 DEF LogInv, OwnRuns, Moves
<1>5. ASSUME ~cut
      PROVE  Faithful(log, logged)' /\ \A v \in Proc : job'[v].at # "idle" => Unused(log, job'[v].run)
  BY <1>1, <1>2, <1>5 DEF LogInv, Faithful, Moves
<1>6. ASSUME ~cut PROVE NewLogOf(w)'
  <2> DEFINE line == [day |-> today, run |-> job[w].run]
             new == AppendLogLine(log, today, job[w].run)
  <2>1. line \in LogLine /\ line.run = job[w].run
    BY <1>3 DEF LogLine
  <2>2. new \in Seq(LogLine) /\ \E k \in 1 .. Len(log) + 1 : Inserted(new, log, k, line)
    BY <1>3, AppendInserts
  <2>3. Unused(log, line.run)
    BY <1>1, <1>6, <2>1 DEF LogInv
  <2> HIDE DEF line, new
  <2>4. /\ Once(new, line.run)
        /\ \A n : Once(log, n) => Once(new, n)
        /\ \A n : Unused(log, n) /\ n # line.run => Unused(new, n)
        /\ \A i \in DOMAIN new : new[i] = line \/ \E j \in DOMAIN log : new[i] = log[j]
    BY <1>3, <2>1, <2>2, <2>3, InsertOnce
  <2>5. Faithful(new, logged \cup {job[w].run})
    BY <1>3, <1>6, <2>1, <2>4 DEF LogInv, Faithful
  <2>6. \A v \in Proc \ {w} : job'[v].at # "idle" => Unused(new, job'[v].run)
    BY <1>1, <1>2, <1>6, <2>1, <2>4 DEF LogInv, OwnRuns, Moves
  <2>7. job'[w].newLog = new /\ job'[w].run = job[w].run
    BY <1>2 DEF new, Moves
  <2> QED
    BY <1>1, <2>5, <2>6, <2>7 DEF NewLogOf, Faithful
<1>7. ASSUME ~cut, NEW v \in Proc \ {w} PROVE NewLogOf(v)'
  BY <1>1, <1>2, <1>7 DEF LogInv, NewLogOf, Faithful, Moves
<1> QED
  BY <1>1, <1>4, <1>5, <1>6, <1>7 DEF LogInv

LEMMA LogReplace ==
  ASSUME TypeOK, Mutex, LogInv, NEW w \in Proc, ReplaceLog(w)
  PROVE  LogInv'
<1>0. JobType /\ RestType
  BY TypeSplit
<1>1. /\ job[w].at = "replaceLog" /\ log' = job[w].newLog /\ UNCHANGED <<runs, cut>>
      /\ logged' \subseteq logged \cup {job[w].run}
  BY DEF ReplaceLog, At, counters
<1>2. job'[w].at = "idle" /\ \A v \in Proc \ {w} : job'[v] = job[v]
  BY <1>0, StopType, IdleAt DEF ReplaceLog
<1>3. OwnRuns'
  BY <1>2 DEF LogInv, OwnRuns
<1>4. ASSUME ~cut
      PROVE  /\ Faithful(log, logged)'
             /\ \A v \in Proc : job'[v].at # "idle" => Unused(log', job'[v].run)
             /\ \A v \in Proc : NewLogOf(v)'
  <2>1. NewLogOf(w)
    BY <1>4 DEF LogInv
  <2>2. \A v \in Proc \ {w} : job[v].at # "replaceLog"
    BY <1>1, <1>4 DEF Mutex, Holding
  <2> QED
    BY <1>1, <1>2, <2>1, <2>2 DEF NewLogOf, Faithful
<1> QED
  BY <1>1, <1>3, <1>4 DEF LogInv

LEMMA LogStep == TypeOK /\ Active /\ Mutex /\ LogInv /\ [Next]_vars => LogInv'
<1> SUFFICES ASSUME TypeOK, Active, Mutex, LogInv, [Next]_vars PROVE LogInv'
  OBVIOUS
<1>0. FilesType /\ JobType /\ RestType /\ cut \in BOOLEAN
  BY TypeSplit DEF RestType
<1>1. CASE Midnight \/ UNCHANGED vars \/ \E p \in Page, content \in {Absent, Torn} \cup [id : Page, text : {0}] : OutsideWrites(p, content)
  <2>1. UNCHANGED <<log, logged, runs, cut, job>>
    BY <1>1 DEF Midnight, vars, OutsideWrites, files, counters, history
  <2> QED
    BY <2>1 DEF LogInv, OwnRuns, Faithful, NewLogOf
<1>2. ASSUME NEW w \in Proc,
             \/ LockIndex(w) \/ (\E p \in Page : ReadPage(w, p)) \/ PrepareIndex(w) \/ LockLog(w)
      PROVE  LogInv'
  <2>1. UNCHANGED <<log, logged, runs, cut>> /\ job[w].at # "idle"
    BY <1>2 DEF LockIndex, ReadPage, PrepareIndex, LockLog, At, files, counters, history
  <2>2. \E place \in Place \ {"replaceLog"} : Moves(w, place)
    BY <1>0, <1>2, LockIndexJob, ReadPageJob, PrepareIndexJob, LockLogJob DEF Place
  <2> QED
    BY <1>0, <2>1, <2>2, LogGoesOn DEF Moves
<1>3. ASSUME NEW w \in Proc, FillPage(w) \/ ReplaceIndex(w)
      PROVE  LogInv'
  <2>1. UNCHANGED <<log, logged, runs, cut>> /\ job[w].at # "idle"
    BY <1>3 DEF FillPage, ReplaceIndex, At, counters
  <2>2. \/ \E place \in Place \ {"replaceLog"} : Moves(w, place)
        \/ job'[w].at = "idle" /\ \A v \in Proc \ {w} : job'[v] = job[v]
    BY <1>0, <1>3, FillPageJob, ReplaceIndexJob, IdleAt DEF Place
  <2> QED
    BY <1>0, <2>1, <2>2, LogGoesOn DEF Moves
<1>4. ASSUME NEW w \in Proc, WriteFails(w) \/ LogFails(w) \/ Crash(w) \/ RebuildFails(w)
      PROVE  LogInv'
  <2>1. UNCHANGED <<log, logged, runs, cut>> /\ job[w].at # "idle"
    BY <1>4 DEF WriteFails, LogFails, Crash, RebuildFails, GiveUpIndex, At, files, history
  <2>2. /\ \A v \in Proc \ {w} : job'[v] = job[v]
        /\ job'[w].at \in {"idle", "index", "log"} /\ (job'[w].at # "idle" => job'[w].run = job[w].run)
    <3>1. CASE LogFails(w) \/ Crash(w)
      BY <1>0, <3>1, StopType, IdleAt DEF LogFails, Crash
    <3>3. CASE WriteFails(w)
      BY <1>0, <3>3, WriteFailsJob, IdleAt DEF Moves
    <3>2. CASE RebuildFails(w)
      BY <1>0, <3>2, GiveUpJob DEF RebuildFails
    <3> QED
      BY <1>4, <3>1, <3>2, <3>3
  <2> QED
    BY <1>0, <2>1, <2>2, LogGoesOn
<1>5. ASSUME NEW w \in Proc, Drop(w)
      PROVE  LogInv'
  <2>1. /\ UNCHANGED <<log, logged, runs>> /\ job[w].at # "idle"
        /\ cut' = (cut \/ job[w].at \in {"replaceIndex", "replaceLog"})
    BY <1>5 DEF Drop, At, files
  <2>2. /\ \A v \in Proc \ {w} : job'[v] = job[v]
        /\ job'[w].at = "idle" \/ (job'[w].at = job[w].at /\ job'[w].run = job[w].run)
    <3>1. job[w] \in Job
      BY <1>0 DEF JobType
    <3>2. CASE job[w].at \in Blocking
      <4>1. job'[w] = [job[w] EXCEPT !.gone = TRUE] /\ \A v \in Proc \ {w} : job'[v] = job[v]
        BY <1>0, <1>5, <3>2, DropJob
      <4>2. job'[w].at = job[w].at /\ job'[w].run = job[w].run
        BY <3>1, <4>1 DEF Job
      <4> QED
        BY <4>1, <4>2
    <3>3. CASE job[w].at \notin Blocking
      BY <1>0, <1>5, <3>3, DropJob, IdleAt
    <3> QED
      BY <3>2, <3>3
  <2>3. cut => cut'
    BY <2>1
  <2>4. ~cut' => job'[w].at # "replaceLog"
    BY <2>1, <2>2
  <2> QED
    BY <1>0, <2>1, <2>2, <2>3, <2>4, LogGoesOn
<1> QED
  BY <1>1, <1>2, <1>3, <1>4, <1>5, LogBegin, LogPrepare, LogReplace DEF Next, Step, BeginEntry, BeginFix

LEMMA LogInit == Init => LogInv
<1> SUFFICES ASSUME Init PROVE LogInv
  OBVIOUS
<1>1. \A w \in Proc : job[w].at = "idle"
  BY IdleAt DEF Init
<1>2. Faithful(log, logged)
  BY DEF Init, Faithful
<1> QED
  BY <1>1, <1>2 DEF LogInv, OwnRuns, NewLogOf

\* A run whose append_log has succeeded has exactly one line in the log, for any
\* number of writers, whatever others append, fail at or die in.
THEOREM LinesStayLogged == Spec => []LogKeepsLines
<1>1. LogInv => LogKeepsLines
  BY DEF LogInv, Faithful, Once, LogKeepsLines
<1> QED
  BY <1>1, TypeInit, TypeStep, MutexInit, MutexStep, LogInit, LogStep, PTL DEF Spec
-----------------------------------------------------------------------------
(* The index is current when nobody is writing *)

\* A change of a page is followed by a rebuild: nobody answers for one, or a writer
\* that goes on to its rebuild does.
Coming == owed \/ \E w \in Proc : ~job[w].gone /\ job[w].at \in {"write", "index"}

Rebuilding(w) == job[w].at \in {"scan", "replaceIndex"}

\* What IndexFinal says of index.md.
Current(lines) ==
  /\ \A p \in Page : disk[p] \in Parsable => \E l \in lines : l.target = disk[p].id /\ l \in Fresh(disk)
  /\ \A l \in lines : l \in Fresh(disk) \/ disk[l.target] = Torn

\* Otherwise the rebuild under way has seen everything as it is, or, if there is none,
\* the last one had.
Accounted ==
  /\ \A w \in Proc : job[w].at = "scan" => \A p \in Page \ job[w].todo : job[w].seen[p] = disk[p]
  /\ \A w \in Proc : job[w].at = "replaceIndex" => Current(job[w].newIndex)
  /\ (\A w \in Proc : ~Rebuilding(w)) => Current(index)

FinalInv == ~cut /\ ~Coming => Accounted

\* An index rendered from the pages as they are is current.
LEMMA RenderCurrent ==
  ASSUME NEW old, NEW lines \in RenderIndex(disk, old)
  PROVE  Current(lines)
<1>1. PICK fresh \in OnePerTarget(Fresh(disk)),
            carried \in OnePerTarget({l \in old : l.target \in Failed(disk)}) : lines = fresh \cup carried
  BY DEF RenderIndex
<1>2. ASSUME NEW p \in Page, disk[p] \in Parsable
      PROVE  \E l \in lines : l.target = disk[p].id /\ l \in Fresh(disk)
  <2>1. Line(disk[p]) \in Fresh(disk) /\ Line(disk[p]).target = disk[p].id
    BY <1>2 DEF Fresh, Line
  <2>2. \E l \in fresh : l.target = disk[p].id
    BY <2>1 DEF OnePerTarget
  <2>3. fresh \subseteq Fresh(disk)
    BY DEF OnePerTarget
  <2> QED
    BY <1>1, <2>2, <2>3
<1>3. ASSUME NEW l \in lines
      PROVE  l \in Fresh(disk) \/ disk[l.target] = Torn
  BY <1>1 DEF OnePerTarget, Failed
<1> QED
  BY <1>2, <1>3 DEF Current

\* A step of w after which w answers for its own change, or nobody for some change.
LEMMA FinalComing ==
  ASSUME NEW w \in Proc, owed' \/ (~job'[w].gone /\ job'[w].at \in {"write", "index"})
  PROVE  FinalInv'
BY DEF FinalInv, Coming

\* A step of w that has nothing to do with the index.
LEMMA FinalAside ==
  ASSUME FinalInv, UNCHANGED <<disk, index, owed, cut>>, NEW w \in Proc,
         \A v \in Proc \ {w} : job'[v] = job[v],
         job[w].at \in {"log", "readLog", "replaceLog"},
         job'[w].at \in {"log", "readLog", "replaceLog", "idle"}
  PROVE  FinalInv'
<1> SUFFICES ASSUME ~cut, ~Coming' PROVE Accounted'
  BY DEF FinalInv
<1>1. ~Coming
  BY DEF Coming
<1>2. Accounted
  BY <1>1 DEF FinalInv
<1>3. \A v \in Proc : Rebuilding(v)' <=> Rebuilding(v)
  BY DEF Rebuilding
<1>4. \A lines : Current(lines) => Current(lines)'
  BY DEF Current
<1>5. \A v \in Proc : job'[v].at \in {"scan", "replaceIndex"} => job'[v] = job[v]
  OBVIOUS
<1> QED
  BY <1>2, <1>3, <1>4, <1>5 DEF Accounted

LEMMA FinalLock ==
  ASSUME TypeOK, Mutex, FinalInv, NEW w \in Proc, LockIndex(w)
  PROVE  FinalInv'
<1> SUFFICES ASSUME ~cut PROVE Accounted'
  BY DEF FinalInv, LockIndex
<1>1. Moves(w, "scan") /\ job'[w].todo = Page
  BY TypeSplit, LockIndexJob
<1>2. lock = NoProc
  BY DEF LockIndex
<1>3. \A v \in Proc : ~Rebuilding(v)
  BY <1>2, WikiIndexAssumption DEF Mutex, Holding, Rebuilding
<1>4. \A v \in Proc \ {w} : ~Rebuilding(v)'
  BY <1>1, <1>3 DEF Moves, Rebuilding
<1>5. Rebuilding(w)' /\ job'[w].at = "scan"
  BY <1>1 DEF Moves, Rebuilding
<1> QED
  BY <1>1, <1>4, <1>5 DEF Accounted, Rebuilding

LEMMA FinalRead ==
  ASSUME TypeOK, FinalInv, NEW w \in Proc, NEW p \in Page, ReadPage(w, p)
  PROVE  FinalInv'
<1> SUFFICES ASSUME ~cut', ~Coming' PROVE Accounted'
  BY DEF FinalInv
<1>0. /\ Moves(w, "scan") /\ job'[w].todo = job[w].todo \ {p}
      /\ job'[w].seen = [job[w].seen EXCEPT ![p] = disk[p]]
  BY TypeSplit, ReadPageJob
<1>1. /\ UNCHANGED <<disk, index, owed, cut>> /\ job[w].at = "scan" /\ job'[w].at = "scan"
      /\ job'[w].gone = job[w].gone /\ \A v \in Proc \ {w} : job'[v] = job[v]
  BY <1>0 DEF ReadPage, files, history, At, Moves
<1>2. Accounted
  BY <1>1 DEF FinalInv, Coming
<1>3. \A q \in Page \ job'[w].todo : job'[w].seen[q] = disk[q]
  <2>1. job[w].seen \in [Page -> Content]
    BY TypeSplit DEF JobType, Job
  <2> QED
    BY <1>0, <1>1, <1>2, <2>1 DEF Accounted
<1>4. \A lines : Current(lines) => Current(lines)'
  BY <1>1 DEF Current
<1> QED
  BY <1>1, <1>2, <1>3, <1>4 DEF Accounted, Rebuilding

LEMMA FinalPrepare ==
  ASSUME TypeOK, FinalInv, NEW w \in Proc, PrepareIndex(w)
  PROVE  FinalInv'
<1> SUFFICES ASSUME ~cut', ~Coming' PROVE Accounted'
  BY DEF FinalInv
<1>0. Moves(w, "replaceIndex") /\ job'[w].newIndex \in RenderIndex(job[w].seen, index)
  BY TypeSplit, PrepareIndexJob
<1>1. /\ UNCHANGED <<disk, index, owed, cut>> /\ job[w].at = "scan" /\ job'[w].at = "replaceIndex"
      /\ job[w].todo = {}
      /\ job'[w].gone = job[w].gone /\ \A v \in Proc \ {w} : job'[v] = job[v]
  BY <1>0 DEF PrepareIndex, files, history, At, Moves
<1>2. Accounted
  BY <1>1 DEF FinalInv, Coming
<1>3. job[w].seen = disk
  <2>1. job[w].seen \in [Page -> Content] /\ disk \in [Page -> Content]
    BY TypeSplit DEF JobType, Job, FilesType
  <2>2. \A q \in Page : job[w].seen[q] = disk[q]
    BY <1>1, <1>2 DEF Accounted
  <2> QED
    BY <2>1, <2>2
<1>4. Current(job'[w].newIndex)
  BY <1>0, <1>3, RenderCurrent
<1>5. \A lines : Current(lines) => Current(lines)'
  BY <1>1 DEF Current
<1> QED
  BY <1>1, <1>2, <1>4, <1>5 DEF Accounted, Rebuilding

LEMMA FinalReplace ==
  ASSUME TypeOK, Mutex, FinalInv, NEW w \in Proc, ReplaceIndex(w)
  PROVE  FinalInv'
<1> SUFFICES ASSUME ~cut', ~Coming' PROVE Accounted'
  BY DEF FinalInv
<1>1. /\ UNCHANGED <<disk, owed, cut>> /\ job[w].at = "replaceIndex" /\ index' = job[w].newIndex
      /\ job'[w].at \in {"log", "idle"} /\ \A v \in Proc \ {w} : job'[v] = job[v]
  BY TypeSplit, ReplaceIndexJob, IdleAt DEF ReplaceIndex, At, Moves
<1>2. Accounted
  BY <1>1 DEF FinalInv, Coming
<1>3. \A v \in Proc \ {w} : ~Rebuilding(v)
  BY <1>1 DEF Mutex, Holding, Rebuilding
<1>4. Current(index')
  BY <1>1, <1>2 DEF Accounted
<1>5. Current(index)'
  BY <1>1, <1>4 DEF Current
<1>6. \A v \in Proc : job'[v].at \notin {"scan", "replaceIndex"}
  BY <1>1, <1>3 DEF Rebuilding
<1> QED
  BY <1>5, <1>6 DEF Accounted

\* The page that w begins or fills is w's to list, or is owed.
LEMMA FinalWrite ==
  ASSUME TypeOK, Mutex, FinalInv, NEW w \in Proc,
         FillPage(w) \/ \E p \in Page : FixNext(w, p) \/ \E fix \in BOOLEAN : Begin(w, p, fix)
  PROVE  FinalInv'
<1>0. JobType /\ runs \in 0 .. MaxRun
  BY TypeSplit DEF RestType
<1>1. ASSUME NEW p \in Page, NEW fix \in BOOLEAN, Begin(w, p, fix) PROVE FinalInv'
  BY <1>0, <1>1, BeginJob, FinalComing
<1>2. ASSUME NEW p \in Page, FixNext(w, p) PROVE FinalInv'
  <2>1. job[w].at = "index" /\ cut' = cut
    BY <1>2 DEF FixNext, At
  <2>2. job'[w].at = "write" /\ job'[w].gone = job[w].gone
    BY <1>0, <1>2, FixNextJob
  <2>3. CASE cut
    BY <2>1, <2>3 DEF FinalInv
  <2>4. CASE ~cut
    <3>1. ~job[w].gone
      BY <2>1, <2>4 DEF Mutex
    <3> QED
      BY <2>2, <3>1, FinalComing
  <2> QED
    BY <2>3, <2>4
<1>3. CASE FillPage(w)
  <2>1. CASE job[w].gone
    <3>1. owed'
      BY <1>3, <2>1, Zenon DEF FillPage
    <3> QED
      BY <3>1, FinalComing
  <2>2. CASE ~job[w].gone
    BY <1>0, <1>3, <2>2, FillPageJob, FinalComing DEF Moves
  <2> QED
    BY <2>1, <2>2
<1> QED
  BY <1>1, <1>2, <1>3

LEMMA FinalStep == TypeOK /\ Active /\ Mutex /\ FinalInv /\ [Next]_vars => FinalInv'
<1> SUFFICES ASSUME TypeOK, Active, Mutex, FinalInv, [Next]_vars PROVE FinalInv'
  OBVIOUS
<1>1. CASE Midnight \/ UNCHANGED vars
  <2>1. UNCHANGED <<disk, index, owed, cut, job>>
    BY <1>1 DEF Midnight, vars, files, history
  <2> QED
    BY <2>1 DEF FinalInv, Coming, Accounted, Current, Rebuilding
<1>2. ASSUME NEW p \in Page, NEW content \in {Absent, Torn} \cup [id : Page, text : {0}], OutsideWrites(p, content)
      PROVE  FinalInv'
  <2>1. owed'
    BY <1>2 DEF OutsideWrites
  <2> QED
    BY <2>1 DEF FinalInv, Coming
<1>3. ASSUME NEW w \in Proc, WriteFails(w) \/ RebuildFails(w) \/ Crash(w) \/ Drop(w)
      PROVE  FinalInv'
  <2>1. owed'
    BY <1>3 DEF WriteFails, RebuildFails, GiveUpIndex, Crash, Drop
  <2> QED
    BY <2>1, FinalComing
<1>4. ASSUME NEW w \in Proc, LockLog(w) \/ PrepareLog(w) \/ ReplaceLog(w) \/ LogFails(w)
      PROVE  FinalInv'
  <2>1. /\ UNCHANGED <<disk, index, owed, cut>> /\ job[w].at \in {"log", "readLog", "replaceLog"}
    BY <1>4 DEF LockLog, PrepareLog, ReplaceLog, LogFails, At, files, history
  <2>2. /\ job'[w].at \in {"readLog", "replaceLog", "idle"}
        /\ \A v \in Proc \ {w} : job'[v] = job[v]
    BY <1>4, TypeSplit, LockLogJob, PrepareLogJob, StopType, IdleAt DEF Moves, ReplaceLog, LogFails
  <2> QED
    BY <2>1, <2>2, FinalAside
<1>5. ASSUME NEW w \in Proc, NEW p \in Page, BeginEntry(w, p) \/ BeginFix(w, p)
      PROVE  \E fix \in BOOLEAN : Begin(w, p, fix)
  BY <1>5 DEF BeginEntry, BeginFix
<1> QED
  BY <1>1, <1>2, <1>3, <1>4, <1>5, FinalWrite, FinalLock, FinalRead, FinalPrepare, FinalReplace DEF Next, Step

LEMMA FinalInit == Init => FinalInv
<1> SUFFICES ASSUME Init PROVE FinalInv
  OBVIOUS
<1>1. (\A w \in Proc : job[w].at = "idle") /\ index = {} /\ \A p \in Page : disk[p] = Absent
  BY IdleAt DEF Init
<1>2. Absent \notin Parsable
  BY DEF Absent, Parsable
<1> QED
  BY <1>1, <1>2 DEF FinalInv, Accounted, Current

\* When nobody is writing, and every change was followed by a rebuild, the index has a
\* current line for each id that a page declares and no line of a page that is gone, for
\* any number of writers and whatever failed before (rebuild_index_locked).
THEOREM QuietIndexCurrent == Spec => []IndexFinal
<1>1. FinalInv => IndexFinal
  <2> SUFFICES ASSUME FinalInv, ~cut, ~owed, \A w \in Proc : At(w, "idle")
               PROVE  Current(index)
    BY DEF IndexFinal, Current
  <2> QED
    BY DEF FinalInv, Coming, Accounted, At, Rebuilding
<1> QED
  BY <1>1, TypeInit, TypeStep, MutexInit, MutexStep, FinalInit, FinalStep, PTL DEF Spec
=============================================================================
