------------------------------- MODULE LintProofs -------------------------------
(***************************************************************************)
(* Theorems about Lint, for any pages, bodies, drafts, batch sizes and     *)
(* bounds: its types; what a strict success means; that a batch that fails *)
(* hides nothing else; that repairs stay within what was reported.         *)
(***************************************************************************)
EXTENDS Lint, FiniteSetTheorems, SequenceTheorems, TLAPS

OnDisk == File \cup {Bad, Absent}
Held   == Entry \cup {Absent}
Kind   == {"parse", "type", "description", "link", "orphan", "index.md", "log.md", "model", "batch"}
Note   == [page : Page \cup {NoPage}, kind : Kind, fixable : BOOLEAN, batch : Nat]
Stage  == {"off", "open", "scan", "batches", "fix", "ask", "write", "fill", "check", "passed", "failed"}
Run    == [at : Stage, fix : BOOLEAN, strict : BOOLEAN, semantic : BOOLEAN, size : Nat,
           todo : SUBSET Page, known : SUBSET Page, snap : Seq(Page), batch : Nat,
           heard : SUBSET Page, next : Nat \ {0}, fixed : BOOLEAN, id : Page \cup {NoPage}]

FileType    == files \in [Page -> OnDisk] /\ first \in [Page -> OnDisk]
MemType     == mem \in [Page -> Held]
LintType    == lint \in Run
ReportType  == reports \in Seq(Note)
HistoryType == /\ edited \in SUBSET Page /\ touched \in SUBSET Page
               /\ reserved \in SUBSET {"index.md", "log.md"}
               /\ runs \in Nat /\ outsides \in Nat /\ faults \in Nat

\* While a report is dealt with, it has a page and there is an entry of that page.
InHand ==
  lint.at \in {"ask", "write", "fill"} =>
    /\ lint.next <= Len(reports) /\ lint.id = This.page /\ This.fixable
    /\ lint.id \in Page /\ mem[lint.id] # Absent

TypeOK == FileType /\ MemType /\ LintType /\ ReportType /\ HistoryType /\ InHand

-----------------------------------------------------------------------------
(* Files, entries and reports *)

LEMMA Kinds ==
  /\ Bad \in OnDisk /\ Absent \in OnDisk /\ Absent \in Held /\ Absent \notin Entry
  /\ ~Parses(Bad) /\ ~Parses(Absent)
  /\ \A f \in OnDisk : Parses(f) <=> f \in File
  /\ \A e \in Held : e # Absent => e \in Entry
BY DEF OnDisk, Held, Bad, Absent, Parses, File, Entry

LEMMA DraftKinds == Draft \cup {Absent} \subseteq OnDisk
BY LintAssumption DEF OnDisk

LEMMA ParseType == \A f \in File : Parse(f) \in Entry /\ Parse(f).body = f.body /\ Parse(f).typed = f.typed
BY DEF File, Entry, Parse

LEMMA RenderType ==
  \A id \in Page, e \in Entry : /\ Render(id, e) \in File /\ Render(id, e).body = e.body
                                /\ Render(id, e).typed = e.typed
BY DEF File, Entry, Render

LEMMA LoadedType ==
  ASSUME NEW fs \in [Page -> OnDisk], NEW m \in Loaded(fs)
  PROVE  /\ m \in [Page -> Held]
         /\ \A p \in Page : m[p] # Absent =>
              \E q \in Claims(fs, p) : m[p] = Parse(fs[q]) /\ fs[q] \in File
<1>1. \A q \in Page : Parses(fs[q]) => fs[q] \in File /\ Parse(fs[q]) \in Entry
  BY Kinds, ParseType
<1>2. {Parse(fs[p]) : p \in {q \in Page : Parses(fs[q])}} \cup {Absent} \subseteq Held
  BY <1>1 DEF Held
<1>3. m \in [Page -> {Parse(fs[p]) : p \in {q \in Page : Parses(fs[q])}} \cup {Absent}]
  BY DEF Loaded
<1>4. m \in [Page -> Held]
  BY <1>2, <1>3
<1>5. ASSUME NEW p \in Page, m[p] # Absent
      PROVE  \E q \in Claims(fs, p) : m[p] = Parse(fs[q]) /\ fs[q] \in File
  <2>1. Claims(fs, p) # {} /\ \E q \in Claims(fs, p) : m[p] = Parse(fs[q])
    BY <1>5 DEF Loaded
  <2> QED
    BY <2>1, <1>1 DEF Claims
<1> QED
  BY <1>4, <1>5

LEMMA ReportIsNote ==
  ASSUME NEW p \in Page \cup {NoPage}, NEW k \in Kind, NEW x \in BOOLEAN
  PROVE  Report(p, k, x) \in Note
BY DEF Report, Note

\* What a page's reports are: one for every fault, and all about that page.
LEMMA DocumentFacts ==
  ASSUME NEW p \in Page, NEW f \in OnDisk, NEW known
  PROVE  /\ DocumentReports(p, f, known) \in Seq(Note)
         /\ \A k \in Faults(f, known) :
              \E i \in DOMAIN DocumentReports(p, f, known) : DocumentReports(p, f, known)[i].kind = k
         /\ \A i \in DOMAIN DocumentReports(p, f, known) :
              /\ DocumentReports(p, f, known)[i].page = p
              /\ DocumentReports(p, f, known)[i].kind \in Faults(f, known)
              /\ DocumentReports(p, f, known)[i].fixable <=> DocumentReports(p, f, known)[i].kind = "type"
              /\ DocumentReports(p, f, known)[i].kind # "model"
         /\ \A i, j \in DOMAIN DocumentReports(p, f, known) :
              DocumentReports(p, f, known)[i].kind = DocumentReports(p, f, known)[j].kind => i = j
<1> DEFINE Said(kind, fixable) == IF kind \in Faults(f, known) THEN <<Report(p, kind, fixable)>> ELSE <<>>
           a == Said("parse", FALSE)
           b == Said("type", TRUE)
           c == Said("description", FALSE)
           d == Said("link", FALSE)
           all == DocumentReports(p, f, known)
<1>1. all = ((a \o b) \o c) \o d
  BY DEF DocumentReports
<1>2. Faults(f, known) \subseteq {"parse", "type", "description", "link"}
  BY DEF Faults
<1>3. ASSUME NEW kind \in {"parse", "type", "description", "link"}, NEW x \in BOOLEAN
      PROVE  /\ Said(kind, x) \in Seq(Note)
             /\ Len(Said(kind, x)) = IF kind \in Faults(f, known) THEN 1 ELSE 0
             /\ kind \in Faults(f, known) => Said(kind, x)[1] = Report(p, kind, x)
  BY ReportIsNote DEF Kind
<1>4. /\ Report(p, "parse", FALSE).page = p /\ Report(p, "parse", FALSE).kind = "parse"
      /\ Report(p, "parse", FALSE).fixable = FALSE
      /\ Report(p, "type", TRUE).page = p /\ Report(p, "type", TRUE).kind = "type"
      /\ Report(p, "type", TRUE).fixable = TRUE
      /\ Report(p, "description", FALSE).page = p /\ Report(p, "description", FALSE).kind = "description"
      /\ Report(p, "description", FALSE).fixable = FALSE
      /\ Report(p, "link", FALSE).page = p /\ Report(p, "link", FALSE).kind = "link"
      /\ Report(p, "link", FALSE).fixable = FALSE
  BY DEF Report
<1>5. /\ a \in Seq(Note) /\ b \in Seq(Note) /\ c \in Seq(Note) /\ d \in Seq(Note)
  BY <1>3
<1>6. /\ Len(a) = (IF "parse" \in Faults(f, known) THEN 1 ELSE 0)
      /\ "parse" \in Faults(f, known) => a[1] = Report(p, "parse", FALSE)
      /\ Len(b) = (IF "type" \in Faults(f, known) THEN 1 ELSE 0)
      /\ "type" \in Faults(f, known) => b[1] = Report(p, "type", TRUE)
      /\ Len(c) = (IF "description" \in Faults(f, known) THEN 1 ELSE 0)
      /\ "description" \in Faults(f, known) => c[1] = Report(p, "description", FALSE)
      /\ Len(d) = (IF "link" \in Faults(f, known) THEN 1 ELSE 0)
      /\ "link" \in Faults(f, known) => d[1] = Report(p, "link", FALSE)
  BY <1>3
<1> HIDE DEF a, b, c, d, all
<1>7. all \in Seq(Note) /\ Len(all) = Len(a) + Len(b) + Len(c) + Len(d)
  BY <1>1, <1>5
<1>8. /\ Len(a) = 1 => all[1] = a[1]
      /\ Len(b) = 1 => all[Len(a) + 1] = b[1]
      /\ Len(c) = 1 => all[Len(a) + Len(b) + 1] = c[1]
      /\ Len(d) = 1 => all[Len(a) + Len(b) + Len(c) + 1] = d[1]
  <2>1. /\ a \o b \in Seq(Note) /\ Len(a \o b) = Len(a) + Len(b)
        /\ Len(a) = 1 => (a \o b)[1] = a[1]
        /\ Len(b) = 1 => (a \o b)[Len(a) + 1] = b[1]
    <3>1. /\ a \o b \in Seq(Note) /\ Len(a \o b) = Len(a) + Len(b)
          /\ \A i \in 1 .. Len(a \o b) : (a \o b)[i] = IF i <= Len(a) THEN a[i] ELSE b[i - Len(a)]
      BY <1>5, ConcatProperties
    <3> QED
      BY <1>5, <1>6, <3>1
  <2> DEFINE ab == a \o b
  <2> HIDE DEF ab
  <2>2. /\ ab \o c \in Seq(Note) /\ Len(ab \o c) = Len(ab) + Len(c)
        /\ \A i \in 1 .. Len(ab) : (ab \o c)[i] = ab[i]
        /\ Len(c) = 1 => (ab \o c)[Len(ab) + 1] = c[1]
    <3>1. ab \in Seq(Note)
      BY <2>1 DEF ab
    <3>2. /\ ab \o c \in Seq(Note) /\ Len(ab \o c) = Len(ab) + Len(c)
          /\ \A i \in 1 .. Len(ab \o c) : (ab \o c)[i] = IF i <= Len(ab) THEN ab[i] ELSE c[i - Len(ab)]
      BY <1>5, <3>1, ConcatProperties
    <3> QED
      BY <3>1, <1>5, <1>6, <3>2
  <2> DEFINE abc == ab \o c
  <2> HIDE DEF abc
  <2>3. /\ \A i \in 1 .. Len(abc) : (abc \o d)[i] = abc[i]
        /\ Len(d) = 1 => (abc \o d)[Len(abc) + 1] = d[1]
    BY <2>2, <1>5, <1>6 DEF abc
  <2>4. all = abc \o d /\ Len(ab) = Len(a) + Len(b) /\ Len(abc) = Len(a) + Len(b) + Len(c)
    BY <1>1, <2>1, <2>2 DEF ab, abc
  <2>5. /\ Len(a) \in {0, 1} /\ Len(b) \in {0, 1} /\ Len(c) \in {0, 1}
        /\ \A i \in 1 .. Len(abc) : all[i] = abc[i]
        /\ \A i \in 1 .. Len(ab) : abc[i] = ab[i]
    BY <1>6, <2>2, <2>3, <2>4 DEF abc
  <2>6. Len(d) = 1 => all[Len(a) + Len(b) + Len(c) + 1] = d[1]
    BY <2>3, <2>4
  <2>7. Len(c) = 1 => all[Len(a) + Len(b) + 1] = c[1]
    BY <2>2, <2>4, <2>5 DEF abc
  <2>8. /\ Len(a) = 1 => all[1] = a[1]
        /\ Len(b) = 1 => all[Len(a) + 1] = b[1]
    BY <2>1, <2>4, <2>5 DEF ab
  <2> QED
    BY <2>6, <2>7, <2>8
<1> DEFINE Is(i, kind, x) == all[i].page = p /\ all[i].kind = kind /\ all[i].fixable = x
<1>81. /\ "parse" \in Faults(f, known) => Is(1, "parse", FALSE)
       /\ "type" \in Faults(f, known) => Is(Len(a) + 1, "type", TRUE)
       /\ "description" \in Faults(f, known) => Is(Len(a) + Len(b) + 1, "description", FALSE)
       /\ "link" \in Faults(f, known) => Is(Len(a) + Len(b) + Len(c) + 1, "link", FALSE)
  BY <1>4, <1>6, <1>8
<1> HIDE DEF Is
<1>9. ASSUME NEW i \in DOMAIN all
      PROVE  \/ "parse" \in Faults(f, known) /\ i = 1
             \/ "type" \in Faults(f, known) /\ i = Len(a) + 1
             \/ "description" \in Faults(f, known) /\ i = Len(a) + Len(b) + 1
             \/ "link" \in Faults(f, known) /\ i = Len(a) + Len(b) + Len(c) + 1
  BY <1>6, <1>7
<1>91. ASSUME NEW i \in DOMAIN all
       PROVE  \/ "parse" \in Faults(f, known) /\ i = 1 /\ Is(i, "parse", FALSE)
              \/ "type" \in Faults(f, known) /\ i = Len(a) + 1 /\ Is(i, "type", TRUE)
              \/ "description" \in Faults(f, known) /\ i = Len(a) + Len(b) + 1 /\ Is(i, "description", FALSE)
              \/ "link" \in Faults(f, known) /\ i = Len(a) + Len(b) + Len(c) + 1 /\ Is(i, "link", FALSE)
  BY <1>9, <1>81
<1>92. /\ "parse" \in Faults(f, known) => 1 \in DOMAIN all
       /\ "type" \in Faults(f, known) => Len(a) + 1 \in DOMAIN all
       /\ "description" \in Faults(f, known) => Len(a) + Len(b) + 1 \in DOMAIN all
       /\ "link" \in Faults(f, known) => Len(a) + Len(b) + Len(c) + 1 \in DOMAIN all
  BY <1>6, <1>7
<1>10. ASSUME NEW k \in Faults(f, known)
       PROVE  \E i \in DOMAIN all : all[i].kind = k
  BY <1>2, <1>81, <1>92 DEF Is
<1>11. ASSUME NEW i \in DOMAIN all
       PROVE  /\ all[i].page = p /\ all[i].kind \in Faults(f, known) /\ all[i].kind # "model"
              /\ all[i].fixable <=> all[i].kind = "type"
  BY <1>91 DEF Is
<1>12. ASSUME NEW i \in DOMAIN all, NEW j \in DOMAIN all, all[i].kind = all[j].kind
       PROVE  i = j
  BY <1>91, <1>12 DEF Is
<1> QED
  BY <1>7, <1>10, <1>11, <1>12 DEF all

LEMMA SetToSeqType ==
  ASSUME NEW T, NEW S \in SUBSET T, IsFiniteSet(S)
  PROVE  SetToSeq(S) \in Seq(T)
<1> DEFINE n == Cardinality(S)
<1>1. n \in Nat /\ ExistsBijection(1 .. n, S)
  BY FS_CardinalityType
<1> HIDE DEF n
<1>2. PICK f \in [1 .. n -> S] : IsInjective(f)
  BY <1>1 DEF ExistsBijection, Bijection, Injection
<1>3. SetToSeq(S) \in [1 .. n -> S]
  BY <1>2 DEF SetToSeq, n
<1>4. SetToSeq(S) \in [1 .. n -> T]
  BY <1>3
<1> QED
  BY <1>1, <1>4, SeqDef

\* What nothing can be done about, but for what a model says.
Quiet == {n \in Note : n.kind # "type" /\ (n.fixable => n.kind = "model")}

LEMMA QuietNotes == Seq(Quiet) \subseteq Seq(Note)
BY DEF Quiet

LEMMA QuietReport ==
  ASSUME NEW p \in Page \cup {NoPage}, NEW k \in Kind \ {"type"}, NEW x \in BOOLEAN, x => k = "model"
  PROVE  Report(p, k, x) \in Quiet
BY ReportIsNote DEF Quiet, Report

LEMMA OrphanType == MemType => OrphanReports \in Seq(Quiet)
<1> SUFFICES ASSUME MemType PROVE OrphanReports \in Seq(Quiet)
  OBVIOUS
<1> DEFINE notes == {Report(p, "orphan", FALSE) : p \in Orphans}
           give  == [p \in Orphans |-> Report(p, "orphan", FALSE)]
<1>1. Orphans \in SUBSET Page
  BY DEF Orphans, Entries
<1>2. IsFiniteSet(Orphans)
  BY <1>1, FS_Subset, LintAssumption
<1>3. give \in Surjection(Orphans, notes)
  BY DEF Surjection
<1>4. IsFiniteSet(notes)
  BY <1>2, <1>3, FS_Surjection
<1>5. notes \in SUBSET Quiet
  BY <1>1, QuietReport DEF Kind
<1> HIDE DEF notes
<1>6. SetToSeq(notes) \in Seq(Quiet)
  BY <1>4, <1>5, SetToSeqType
<1> QED
  BY <1>6 DEF OrphanReports, notes

LEMMA ReservedType == reserved \in SUBSET {"index.md", "log.md"} => ReservedReports \in Seq(Quiet)
<1> SUFFICES ASSUME reserved \in SUBSET {"index.md", "log.md"} PROVE ReservedReports \in Seq(Quiet)
  OBVIOUS
<1> DEFINE notes == {Report(NoPage, name, FALSE) : name \in reserved}
           give  == [name \in reserved |-> Report(NoPage, name, FALSE)]
<1>1. IsFiniteSet({"index.md"})
  BY FS_Singleton
<1>2. IsFiniteSet({"index.md"} \cup {"log.md"})
  BY <1>1, FS_AddElement
<1>3. reserved \in SUBSET ({"index.md"} \cup {"log.md"})
  OBVIOUS
<1>4. IsFiniteSet(reserved)
  BY <1>2, <1>3, FS_Subset
<1>5. give \in Surjection(reserved, notes)
  BY DEF Surjection
<1>6. IsFiniteSet(notes)
  BY <1>4, <1>5, FS_Surjection
<1>7. notes \in SUBSET Quiet
  BY QuietReport DEF Kind
<1> HIDE DEF notes
<1>8. SetToSeq(notes) \in Seq(Quiet)
  BY <1>6, <1>7, SetToSeqType
<1> QED
  BY <1>8 DEF ReservedReports, notes

\* The model reports at most one thing, which may be fixed, or an opinion of nothing.
LEMMA OpinionType ==
  \A opinion \in Opinions :
    opinion \in Seq(Quiet)
<1> SUFFICES ASSUME NEW opinion \in Opinions PROVE opinion \in Seq(Quiet)
  OBVIOUS
<1>1. CASE opinion = <<>>
  BY <1>1
<1>2. ASSUME NEW p \in Page \cup {NoPage}, NEW x \in BOOLEAN, opinion = <<Report(p, "model", x)>>
      PROVE  opinion \in Seq(Quiet)
  <2>1. Report(p, "model", x) \in Quiet
    BY QuietReport DEF Kind
  <2> QED
    BY <1>2, <2>1
<1> QED
  BY <1>1, <1>2 DEF Opinions

LEMMA FailureType == \A n \in Nat : BatchFailure(n) \in Quiet /\ BatchFailure(n) \in Note
BY DEF BatchFailure, Note, Kind, Quiet

LEMMA BatchType ==
  ASSUME LintType, BatchesLeft
  PROVE  Range(Batch) \in SUBSET Page
<1>1. lint.snap \in Seq(Page) /\ BatchSize \in Nat \ {0} /\ lint.batch \in Nat
  BY DEF LintType, Run, BatchSize
<1> DEFINE low  == lint.batch * BatchSize + 1
           high == IF (lint.batch + 1) * BatchSize < Len(lint.snap)
                   THEN (lint.batch + 1) * BatchSize ELSE Len(lint.snap)
<1>2. low \in Nat \ {0} /\ high \in Nat /\ high <= Len(lint.snap)
  <2>1. \A a, b \in Nat : a * b \in Nat
    OBVIOUS
  <2>2. lint.batch * BatchSize \in Nat /\ (lint.batch + 1) * BatchSize \in Nat /\ Len(lint.snap) \in Nat
    BY <1>1, <2>1
  <2> QED
    BY <2>2
<1>3. Batch = SubSeq(lint.snap, low, high)
  BY DEF Batch
<1> HIDE DEF low, high
<1>4. Batch \in Seq(Page)
  BY <1>1, <1>2, <1>3, SubSeqProperties
<1> QED
  BY <1>4 DEF Range

-----------------------------------------------------------------------------
(* Types *)

LEMMA OffType == Off \in Run
<1>1. <<>> \in Seq(Page)
  BY EmptySeq
<1> QED
  BY <1>1 DEF Off, Run, Stage

LEMMA InitType == Init => TypeOK
<1> SUFFICES ASSUME Init PROVE TypeOK
  OBVIOUS
<1> USE DEF Init
<1>1. FileType
  BY DraftKinds DEF FileType
<1>2. MemType
  BY Kinds DEF MemType
<1>3. ReportType
  BY EmptySeq DEF ReportType
<1>4. LintType /\ InHand
  BY OffType DEF LintType, InHand, Off
<1>5. HistoryType
  BY DEF HistoryType
<1> QED
  BY <1>1, <1>2, <1>3, <1>4, <1>5 DEF TypeOK

LEMMA NextReportType ==
  LintType => /\ NextReport \in Run /\ NextReport.at = "fix" /\ NextReport.next = lint.next + 1
              /\ NextReport.size = lint.size /\ NextReport.todo = lint.todo
<1> SUFFICES ASSUME LintType
             PROVE  /\ NextReport \in Run /\ NextReport.at = "fix" /\ NextReport.next = lint.next + 1
                    /\ NextReport.size = lint.size /\ NextReport.todo = lint.todo
  OBVIOUS
<1>1. lint.next + 1 \in Nat \ {0}
  BY DEF LintType, Run
<1>2. NextReport = [lint EXCEPT !.at = "fix", !.next = lint.next + 1, !.id = NoPage]
  BY DEF NextReport
<1> QED
  BY <1>1, <1>2 DEF LintType, Run, Stage

LEMMA TypeStep == TypeOK /\ [Next]_vars => TypeOK'
<1> SUFFICES ASSUME TypeOK, [Next]_vars PROVE TypeOK'
  OBVIOUS
<1> USE DEF TypeOK
<1>0. CASE UNCHANGED vars
  BY <1>0 DEF vars, history, counters, FileType, MemType, LintType, ReportType, HistoryType, InHand, This
<1>1. CASE Open
  <2>1. FileType' /\ HistoryType'
    BY <1>1 DEF Open, FileType, HistoryType
  <2>2. MemType'
    BY <1>1, LoadedType DEF Open, MemType, FileType
  <2>3. ReportType'
    BY <1>1, EmptySeq DEF Open, ReportType
  <2>4. LintType' /\ InHand'
    <3>1. PICK fix, strict, semantic \in BOOLEAN, size \in Size :
            lint' = [Off EXCEPT !.at = "open", !.fix = fix, !.strict = strict, !.semantic = semantic, !.size = size]
      BY <1>1 DEF Open
    <3>2. size \in Nat
      BY LintAssumption
    <3> QED
      BY <3>1, <3>2, OffType DEF LintType, Run, Stage, InHand
  <2> QED
    BY <2>1, <2>2, <2>3, <2>4
<1>2. CASE StartLint
  <2>1. FileType' /\ MemType' /\ ReportType' /\ HistoryType'
    BY <1>2 DEF StartLint, FileType, MemType, ReportType, HistoryType, counters
  <2>2. PICK order \in SetToSeqs(Entries) :
          lint' = [lint EXCEPT !.at = "scan", !.todo = Present, !.known = Present, !.snap = order]
    BY <1>2 DEF StartLint
  <2>3. order \in Seq(Page)
    <3>1. Entries \in SUBSET Page /\ IsFiniteSet(Entries)
      BY FS_Subset, LintAssumption DEF Entries
    <3>2. Cardinality(Entries) \in Nat
      BY <3>1, FS_CardinalityType
    <3>3. order \in [1 .. Cardinality(Entries) -> Page]
      BY <3>1 DEF SetToSeqs
    <3> QED
      BY <3>2, <3>3, SeqDef
  <2>4. LintType' /\ InHand'
    BY <2>2, <2>3 DEF LintType, Run, Stage, InHand, Present
  <2> QED
    BY <2>1, <2>4
<1>3. ASSUME NEW p \in Page, ReadFile(p) PROVE TypeOK'
  <2>1. FileType' /\ MemType' /\ HistoryType'
    BY <1>3 DEF ReadFile, FileType, MemType, HistoryType, counters, history
  <2>2. DocumentReports(p, files[p], lint.known) \in Seq(Note)
    BY DocumentFacts DEF FileType
  <2>3. ReportType'
    BY <1>3, <2>2, ConcatProperties DEF ReadFile, ReportType
  <2>4. LintType' /\ InHand'
    BY <1>3 DEF ReadFile, LintType, Run, Stage, InHand, At
  <2> QED
    BY <2>1, <2>3, <2>4
<1>4. CASE Conformance
  <2>1. FileType' /\ MemType' /\ HistoryType'
    BY <1>4 DEF Conformance, FileType, MemType, HistoryType, counters, history
  <2>2. OrphanReports \in Seq(Note) /\ ReservedReports \in Seq(Note)
    BY OrphanType, ReservedType, QuietNotes DEF HistoryType
  <2>3. ReportType'
    BY <1>4, <2>2, ConcatProperties DEF Conformance, ReportType
  <2>4. LintType' /\ InHand'
    BY <1>4 DEF Conformance, LintType, Run, Stage, InHand, At
  <2> QED
    BY <2>1, <2>3, <2>4
<1>5. CASE BatchAnswered
  <2>1. FileType' /\ MemType' /\ HistoryType'
    BY <1>5 DEF BatchAnswered, FileType, MemType, HistoryType, counters, history
  <2>2. ReportType'
    BY <1>5, OpinionType, QuietNotes, ConcatProperties DEF BatchAnswered, ReportType
  <2>3. Range(Batch) \in SUBSET Page
    BY <1>5, BatchType DEF BatchAnswered
  <2>4. lint.batch + 1 \in Nat /\ lint.heard \cup Range(Batch) \in SUBSET Page
    BY <2>3 DEF LintType, Run
  <2>5. LintType' /\ InHand'
    <3>1. lint' = [lint EXCEPT !.batch = lint.batch + 1, !.heard = lint.heard \cup Range(Batch)]
      BY <1>5 DEF BatchAnswered
    <3> HIDE DEF Batch
    <3> QED
      BY <1>5, <2>4, <3>1 DEF BatchAnswered, LintType, Run, Stage, InHand, At
  <2> QED
    BY <2>1, <2>2, <2>5
<1>6. CASE BatchFails
  <2>1. FileType' /\ MemType' /\ HistoryType'
    BY <1>6 DEF BatchFails, FileType, MemType, HistoryType, counters, history
  <2>2. lint.batch + 1 \in Nat
    BY DEF LintType, Run
  <2>3. ReportType'
    BY <1>6, <2>2, FailureType, AppendProperties DEF BatchFails, ReportType
  <2>4. LintType' /\ InHand'
    BY <1>6, <2>2 DEF BatchFails, LintType, Run, Stage, InHand, At
  <2> QED
    BY <2>1, <2>3, <2>4
<1>7. CASE Linted
  BY <1>7 DEF Linted, FileType, MemType, LintType, ReportType, HistoryType, InHand, At, counters, history, Run, Stage
<1>8. CASE PassOver
  BY <1>8, NextReportType DEF PassOver, FileType, MemType, LintType, ReportType, HistoryType, InHand, counters, history
<1>9. CASE Repair
  <2>1. FileType' /\ ReportType' /\ HistoryType'
    BY <1>9 DEF Repair, FileType, ReportType, HistoryType, counters, history
  <2>2. /\ This.page \in Page /\ mem[This.page] \in Entry /\ This.fixable
        /\ lint.next <= Len(reports)
    <3>1. This \in Note
      BY <1>9 DEF Repair, AtReport, This, ReportType, LintType, Run
    <3> QED
      BY <1>9, <3>1, Kinds DEF Repair, AtReport, Repairable, Note, MemType
  <2>3. MemType' /\ mem'[This.page] # Absent
    <3>1. [mem[This.page] EXCEPT !.typed = TRUE] \in Entry
      BY <2>2 DEF Entry
    <3> QED
      BY <1>9, <2>2, <3>1, Kinds DEF Repair, AutofixType, MemType, Held
  <2>4. LintType' /\ InHand'
    BY <1>9, <2>2, <2>3 DEF Repair, LintType, Run, Stage, InHand, This
  <2> QED
    BY <2>1, <2>3, <2>4
<1>10. CASE Rewritten
  <2>1. FileType' /\ ReportType' /\ HistoryType'
    BY <1>10 DEF Rewritten, FileType, ReportType, HistoryType, counters, history
  <2>2. PICK b \in Body : mem' = [mem EXCEPT ![lint.id].body = b]
    BY <1>10 DEF Rewritten
  <2>3. lint.id \in Page /\ mem[lint.id] \in Entry
    BY <1>10, Kinds DEF Rewritten, At, InHand, MemType
  <2>4. [mem[lint.id] EXCEPT !.body = b] \in Entry
    BY <2>3 DEF Entry
  <2>5. MemType' /\ mem'[lint.id] # Absent
    BY <2>2, <2>3, <2>4, Kinds DEF MemType, Held
  <2>6. LintType' /\ InHand'
    BY <1>10, <2>5 DEF Rewritten, LintType, Run, Stage, InHand, This, At
  <2> QED
    BY <2>1, <2>5, <2>6
<1>11. CASE ModelFails
  BY <1>11, NextReportType DEF ModelFails, FileType, MemType, LintType, ReportType, HistoryType, InHand, counters, history
<1>12. CASE Truncate
  BY <1>12, Kinds DEF Truncate, FileType, MemType, LintType, ReportType, HistoryType, InHand, At, This, counters, history, Run, Stage
<1>13. CASE Fill
  <2>1. lint.id \in Page /\ mem[lint.id] \in Entry
    BY <1>13, Kinds DEF Fill, At, InHand, MemType
  <2>2. Render(lint.id, mem[lint.id]) \in OnDisk
    BY <2>1, RenderType DEF OnDisk
  <2>3. FileType'
    <3>1. files' = [files EXCEPT ![lint.id] = IF files[lint.id] = Absent THEN Absent
                                              ELSE Render(lint.id, mem[lint.id])]
      BY <1>13 DEF Fill
    <3> DEFINE new == IF files[lint.id] = Absent THEN Absent ELSE Render(lint.id, mem[lint.id])
    <3>2. new \in OnDisk
      BY <2>2, Kinds
    <3>3. first' = first
      BY <1>13 DEF Fill, history
    <3> HIDE DEF new
    <3> QED
      BY <3>1, <3>2, <3>3 DEF FileType, new
  <2>4. MemType' /\ ReportType' /\ HistoryType'
    BY <1>13 DEF Fill, MemType, ReportType, HistoryType, counters, history
  <2>5. LintType' /\ InHand'
    BY <1>13, NextReportType DEF Fill, LintType, InHand, Run
  <2> QED
    BY <2>3, <2>4, <2>5
<1>14. CASE WriteFails
  BY <1>14, NextReportType DEF WriteFails, FileType, MemType, LintType, ReportType, HistoryType, InHand, counters, history
<1>15. CASE FixesDone
  <2>1. FileType' /\ MemType' /\ ReportType' /\ HistoryType'
    BY <1>15 DEF FixesDone, StartCheck, FileType, MemType, ReportType, HistoryType, counters
  <2>2. LintType' /\ InHand'
    BY <1>15 DEF FixesDone, StartCheck, LintType, InHand, Run, Stage, Present
  <2> QED
    BY <2>1, <2>2
<1>16. CASE IndexFails
  <2>1. FileType' /\ MemType' /\ ReportType' /\ HistoryType'
    BY <1>16 DEF IndexFails, FileType, MemType, ReportType, HistoryType, history
  <2>2. LintType' /\ InHand'
    BY <1>16 DEF IndexFails, LintType, InHand, Run, Stage
  <2> QED
    BY <2>1, <2>2
<1>17. ASSUME NEW p \in Page, CheckFile(p) PROVE TypeOK'
  BY <1>17 DEF CheckFile, FileType, MemType, LintType, ReportType, HistoryType, InHand, At, counters, history, Run, Stage
<1>18. CASE Checked
  BY <1>18 DEF Checked, FileType, MemType, LintType, ReportType, HistoryType, InHand, At, counters, history, Run, Stage
<1>19. CASE Exit
  BY <1>19, OffType, EmptySeq, Kinds DEF Exit, FileType, MemType, LintType, ReportType, HistoryType, InHand, Off, counters, history
<1>20. CASE Kill
  BY <1>20, OffType, EmptySeq, Kinds DEF Kill, FileType, MemType, LintType, ReportType, HistoryType, InHand, Off, counters, history
<1>21. ASSUME NEW p \in Page, NEW f \in Draft \cup {Absent}, Outside(p, f) PROVE TypeOK'
  BY <1>21, DraftKinds DEF Outside, FileType, MemType, LintType, ReportType, HistoryType, InHand, This
<1> QED
  BY <1>0, <1>1, <1>2, <1>3, <1>4, <1>5, <1>6, <1>7, <1>8, <1>9, <1>10, <1>11, <1>12, <1>13, <1>14,
     <1>15, <1>16, <1>17, <1>18, <1>19, <1>20, <1>21 DEF Next

\* The lint command keeps its types, and while it repairs a page there is an entry of
\* that page and a report that calls it fixable (auto_fix).
THEOREM TypeCorrect == Spec => []TypeOK
<1>1. Init => TypeOK
  BY InitType
<1>2. TypeOK /\ [Next]_vars => TypeOK'
  BY TypeStep
<1> QED
  BY <1>1, <1>2, PTL DEF Spec

-----------------------------------------------------------------------------
(* What is reported, and what a strict success means *)

Reported(p, k) == \E j \in DOMAIN reports : reports[j].page = p /\ reports[j].kind = k
Linting  == lint.at \in {"scan", "batches"} \/ (At("fix") /\ lint.next = 1)
Batching == At("batches") \/ (At("fix") /\ lint.next = 1)

\* A page read by the scan, and by nobody else written since, has its faults reported.
ScanInv ==
  /\ lint.at \in {"off", "open", "scan", "batches"} => lint.next = 1
  /\ Batching => lint.todo = {}
  /\ Linting => \A p \in Present \ (lint.todo \cup touched) : \A k \in Faults(files[p], lint.known) :
                  Reported(p, k)

\* A batch that was sent was answered or is reported.
Told(i) ==
  \/ lint.snap[i] \in lint.heard
  \/ \E j \in DOMAIN reports : reports[j] = BatchFailure((i - 1) \div BatchSize + 1)

BatchInv ==
  /\ lint.at \in {"off", "open", "scan"} => lint.batch = 0
  /\ Batching /\ lint.semantic =>
       \A i \in DOMAIN lint.snap : (At("batches") /\ i > lint.batch * BatchSize) \/ Told(i)

\* A page that the last check has read has a type.
CheckInv ==
  /\ At("passed") => lint.todo = {}
  /\ lint.at \in {"check", "passed"} /\ lint.strict =>
       \A p \in Present \ (lint.todo \cup touched) : Parses(files[p]) /\ files[p].typed

ReadInv == ScanInv /\ BatchInv /\ CheckInv

LEMMA BatchSizeType == LintType => BatchSize \in Nat \ {0}
BY DEF LintType, Run, BatchSize

LEMMA Quotient ==
  ASSUME NEW n \in Nat, NEW b \in Nat \ {0}, NEW j \in Nat, n * b <= j, j < (n + 1) * b
  PROVE  j \div b = n
<1>1. j \div b \in Nat
  OBVIOUS
<1>2. (j \div b) * b <= j /\ j < ((j \div b) + 1) * b
  OBVIOUS
<1> DEFINE q == j \div b
<1> HIDE DEF q
<1>4. q \in Nat /\ q * b <= j /\ j < (q + 1) * b
  BY <1>1, <1>2 DEF q
<1>3. ~(q < n)
  <2> SUFFICES ASSUME q < n PROVE FALSE
    OBVIOUS
  <2>1. (q+1) * b <= n * b
    BY <1>4
  <2> QED BY <2>1, <1>4
<1>5. ~(n < q)
  <2> SUFFICES ASSUME n < q PROVE FALSE
    OBVIOUS
  <2>1. (n+1) * b <= q * b
    BY <1>4
  <2> QED BY <2>1, <1>4
<1> QED BY <1>3, <1>5, <1>4 DEF q

\* Reports that are added leave those that are there.
LEMMA ReportsStay ==
  ASSUME ReportType, NEW more \in Seq(Note), reports' = reports \o more
  PROVE  /\ \A i \in DOMAIN reports : i \in DOMAIN reports' /\ reports'[i] = reports[i]
         /\ \A i \in DOMAIN more : Len(reports) + i \in DOMAIN reports' /\ reports'[Len(reports) + i] = more[i]
         /\ \A i \in DOMAIN reports' : \/ i \in DOMAIN reports
                                       \/ i - Len(reports) \in DOMAIN more /\ reports'[i] = more[i - Len(reports)]
<1>1. /\ Len(reports') = Len(reports) + Len(more)
      /\ \A i \in 1 .. Len(reports) + Len(more) : reports'[i] = IF i <= Len(reports) THEN reports[i]
                                                               ELSE more[i - Len(reports)]
      /\ reports' \in Seq(Note) /\ reports \in Seq(Note)
  BY ConcatProperties DEF ReportType
<1>2. /\ DOMAIN reports = 1 .. Len(reports) /\ DOMAIN more = 1 .. Len(more) /\ DOMAIN reports' = 1 .. Len(reports')
      /\ Len(reports) \in Nat /\ Len(more) \in Nat
  BY <1>1
<1> QED
  BY <1>1, <1>2

LEMMA ReadInit == Init => ReadInv
BY DEF Init, Off, ReadInv, ScanInv, BatchInv, CheckInv, Batching, Linting, At

\* Steps that leave the reports, the files and the place of the run, but for what others write.
LEMMA ReadOutside ==
  ASSUME TypeOK, ReadInv, NEW p \in Page, NEW f \in Draft \cup {Absent}, Outside(p, f)
  PROVE  ReadInv'
<1>1. /\ UNCHANGED <<lint, reports>> /\ touched' = touched \cup {p}
      /\ \A q \in Page : q # p => files'[q] = files[q]
  BY DEF Outside, TypeOK, FileType
<1>2. \A q \in Present' \ (lint.todo' \cup touched') : q \in Present \ (lint.todo \cup touched) /\ files'[q] = files[q]
  BY <1>1 DEF Present
<1>3. ScanInv'
  BY <1>1, <1>2 DEF ReadInv, ScanInv, Batching, Linting, At, Reported
<1>4. BatchInv'
  BY <1>1 DEF ReadInv, BatchInv, Batching, At, Told, BatchSize
<1>5. CheckInv'
  BY <1>1, <1>2 DEF ReadInv, CheckInv, At
<1> QED
  BY <1>3, <1>4, <1>5 DEF ReadInv

\* Where a run is when nothing is claimed of it.
LEMMA ReadElsewhere ==
  ASSUME ReadInv, lint'.at \in {"fix", "ask", "write", "fill", "failed"}, lint'.at = "fix" => lint'.next # 1
  PROVE  ReadInv'
BY DEF ReadInv, ScanInv, BatchInv, CheckInv, Batching, Linting, At

LEMMA ReadScan ==
  ASSUME TypeOK, ReadInv, NEW p \in Page, ReadFile(p)
  PROVE  ReadInv'
<1> DEFINE more == DocumentReports(p, files[p], lint.known)
<1>1. /\ At("scan") /\ p \in lint.todo /\ lint' = [lint EXCEPT !.todo = lint.todo \ {p}]
      /\ reports' = reports \o more /\ UNCHANGED <<files, touched, reserved>>
  BY DEF ReadFile, history
<1>2. more \in Seq(Note) /\ \A k \in Faults(files[p], lint.known) : \E i \in DOMAIN more :
                              more[i].page = p /\ more[i].kind = k
  BY DocumentFacts DEF TypeOK, FileType
<1> HIDE DEF more
<1>3. ReportType
  BY DEF TypeOK
<1>4. \A q, k : Reported(q, k) => Reported(q, k)'
  BY <1>1, <1>2, <1>3, ReportsStay DEF Reported
<1>5. \A k \in Faults(files[p], lint.known) : Reported(p, k)'
  BY <1>1, <1>2, <1>3, ReportsStay DEF Reported
<1>6. lint'.at = "scan" /\ lint'.todo = lint.todo \ {p} /\ lint'.known = lint.known /\ lint'.next = lint.next
      /\ lint'.batch = lint.batch
  BY <1>1 DEF TypeOK, LintType, Run, At
<1>7. ScanInv'
  <2>1. Present' = Present
    BY <1>1 DEF Present
  <2>2. ASSUME NEW q \in Present \ (lint'.todo \cup touched), NEW k \in Faults(files[q], lint.known)
        PROVE  Reported(q, k)'
    BY <2>2, <1>1, <1>4, <1>5, <1>6 DEF ReadInv, ScanInv, Linting, At
  <2> QED
    BY <2>1, <2>2, <1>1, <1>6 DEF ReadInv, ScanInv, Linting, Batching, At
<1>8. BatchInv' /\ CheckInv'
  BY <1>1, <1>6 DEF ReadInv, BatchInv, CheckInv, Batching, At
<1> QED
  BY <1>7, <1>8 DEF ReadInv

LEMMA ReadBatch ==
  ASSUME TypeOK, ReadInv, BatchAnswered \/ BatchFails
  PROVE  ReadInv'
<1>1. /\ At("batches") /\ BatchesLeft /\ UNCHANGED <<files, touched>>
      /\ lint'.at = "batches" /\ lint'.todo = lint.todo /\ lint'.known = lint.known /\ lint'.next = lint.next
      /\ lint'.snap = lint.snap /\ lint'.size = lint.size /\ lint'.semantic = lint.semantic
      /\ lint'.batch = lint.batch + 1 /\ lint.heard \subseteq lint'.heard
  <2>1. lint \in Run
    BY DEF TypeOK, LintType
  <2>2. CASE BatchAnswered
    <3> HIDE DEF Batch
    <3> QED
      BY <2>1, <2>2 DEF BatchAnswered, Run, At, history
  <2>3. CASE BatchFails
    BY <2>1, <2>3 DEF BatchFails, Run, At, history
  <2> QED
    BY <2>2, <2>3
<1>2. PICK more \in Seq(Note) : reports' = reports \o more
  <2>1. CASE BatchAnswered
    BY <2>1, OpinionType, QuietNotes DEF BatchAnswered
  <2>2. CASE BatchFails
    <3>1. lint.batch + 1 \in Nat
      BY DEF TypeOK, LintType, Run
    <3>2. BatchFailure(lint.batch + 1) \in Note
      BY <3>1, FailureType
    <3>3. reports' = reports \o <<BatchFailure(lint.batch + 1)>> /\ <<BatchFailure(lint.batch + 1)>> \in Seq(Note)
      BY <2>2, <3>2, AppendIsConcat DEF BatchFails, TypeOK, ReportType
    <3> QED
      BY <3>3
  <2> QED
    BY <2>1, <2>2
<1>3. \A q, k : Reported(q, k) => Reported(q, k)'
  BY <1>2, ReportsStay DEF Reported, TypeOK
<1>4. \A x : (\E j \in DOMAIN reports : reports[j] = x) => \E j \in DOMAIN reports' : reports'[j] = x
  BY <1>2, ReportsStay DEF TypeOK
<1>5. ScanInv'
  BY <1>1, <1>3 DEF ReadInv, ScanInv, Linting, Batching, At, Present
<1>6. BatchInv'
  <2>1. BatchSize' = BatchSize /\ BatchSize \in Nat \ {0} /\ lint.batch \in Nat
        /\ lint.snap \in Seq(Page) /\ Len(lint.snap) \in Nat /\ DOMAIN lint.snap = 1 .. Len(lint.snap)
    BY <1>1, BatchSizeType DEF BatchSize, TypeOK, LintType, Run
  <2>2. ASSUME NEW i \in DOMAIN lint.snap, lint.semantic, ~(i > (lint.batch + 1) * BatchSize)
        PROVE  Told(i)'
    <3>1. CASE ~(i > lint.batch * BatchSize)
      <4>1. Told(i)
        BY <1>1, <2>2, <3>1 DEF ReadInv, BatchInv, Batching, At
      <4>2. CASE lint.snap[i] \in lint.heard
        BY <4>2, <1>1 DEF Told
      <4>3. CASE \E j \in DOMAIN reports : reports[j] = BatchFailure((i - 1) \div BatchSize + 1)
        BY <4>3, <1>4, <2>1 DEF Told
      <4> QED
        BY <4>1, <4>2, <4>3 DEF Told
    <3>2. CASE i > lint.batch * BatchSize
      <4>1. \A a, b \in Nat : a * b \in Nat
        OBVIOUS
      <4> DEFINE m == lint.batch * BatchSize
      <4>2. m \in Nat /\ i \in Nat /\ i > m /\ (lint.batch + 1) * BatchSize = m + BatchSize
        BY <2>1, <3>2, <4>1
      <4>3. CASE BatchAnswered
        <5> DEFINE high == IF (lint.batch + 1) * BatchSize < Len(lint.snap)
                           THEN (lint.batch + 1) * BatchSize ELSE Len(lint.snap)
        <5>1. high \in Nat /\ m + 1 <= i /\ i <= high /\ high <= Len(lint.snap)
          BY <2>1, <2>2, <4>2
        <5> HIDE DEF high
        <5>2. Batch = SubSeq(lint.snap, m + 1, high)
          BY DEF Batch, high
        <5> HIDE DEF m
        <5>3. i - m \in 1 .. high - (m + 1) + 1 /\ (m + 1) + (i - m) - 1 = i
          <6>1. m \in Nat /\ i \in Nat /\ high \in Nat /\ m + 1 <= i /\ i <= high
            BY <4>2, <5>1
          <6> QED
            BY <6>1
        <5>4. /\ Batch \in Seq(Page) /\ Len(Batch) = high - (m + 1) + 1
              /\ \A k \in 1 .. high - (m + 1) + 1 : Batch[k] = lint.snap[(m + 1) + k - 1]
          <6>1. \A k \in m + 1 .. high : lint.snap[k] \in Page
            BY <2>1, <4>2, <5>1
          <6>2. m + 1 \in Int /\ high \in Int /\ m + 1 <= high
            BY <4>2, <5>1
          <6> QED
            BY <5>2, <6>1, <6>2, SubSeqProperties
        <5>5. i - m \in DOMAIN Batch /\ Batch[i - m] = lint.snap[i]
          BY <5>3, <5>4
        <5>6. lint.snap[i] \in Range(Batch)
          BY <5>5 DEF Range
        <5>7. lint'.heard = lint.heard \cup Range(Batch)
          <6> HIDE DEF Batch
          <6> QED
            BY <4>3 DEF BatchAnswered, TypeOK, LintType, Run
        <5> QED
          BY <1>1, <5>6, <5>7 DEF Told
      <4>4. CASE BatchFails
        <5>1. (i - 1) \div BatchSize = lint.batch
          <6>1. i - 1 \in Nat /\ lint.batch * BatchSize <= i - 1 /\ i - 1 < (lint.batch + 1) * BatchSize
            BY <2>2, <4>2, <2>1
          <6> QED
            BY <6>1, <2>1, Quotient
        <5>2. \E j \in DOMAIN reports' : reports'[j] = BatchFailure(lint.batch + 1)
          <6>1. reports' = Append(reports, BatchFailure(lint.batch + 1)) /\ reports \in Seq(Note)
            BY <4>4 DEF BatchFails, TypeOK, ReportType
          <6>2. BatchFailure(lint.batch + 1) \in Note
            BY <2>1, FailureType
          <6>3. Len(reports) + 1 \in DOMAIN reports' /\ reports'[Len(reports) + 1] = BatchFailure(lint.batch + 1)
            BY <6>1, <6>2, AppendProperties
          <6> QED
            BY <6>3
        <5> QED
          BY <1>1, <2>1, <5>1, <5>2 DEF Told
      <4> QED
        BY <4>3, <4>4
    <3> QED
      BY <3>1, <3>2
  <2> QED
    BY <1>1, <2>1, <2>2 DEF BatchInv, Batching, At
<1>7. CheckInv'
  BY <1>1 DEF CheckInv, At
<1> QED
  BY <1>5, <1>6, <1>7 DEF ReadInv

LEMMA ReadLinted ==
  ASSUME TypeOK, ReadInv, Linted
  PROVE  ReadInv'
<1>1. /\ At("batches") /\ ~BatchesLeft /\ UNCHANGED <<files, touched, reports>>
      /\ lint' = [lint EXCEPT !.at = IF reports = <<>> THEN "passed" ELSE "fix"] /\ lint \in Run
  BY DEF Linted, history, TypeOK, LintType
<1>2. /\ lint'.at = (IF reports = <<>> THEN "passed" ELSE "fix") /\ lint'.todo = lint.todo
      /\ lint'.known = lint.known /\ lint'.next = lint.next /\ lint'.strict = lint.strict
      /\ lint'.snap = lint.snap /\ lint'.size = lint.size /\ lint'.semantic = lint.semantic
      /\ lint'.batch = lint.batch /\ lint.heard = lint'.heard
  BY <1>1 DEF Run
<1>3. ScanInv'
  BY <1>1, <1>2 DEF ReadInv, ScanInv, Linting, Batching, At, Present, Reported
<1>4. BatchInv'
  <2>1. ASSUME lint.semantic, NEW i \in DOMAIN lint.snap PROVE Told(i)
    <3>1. lint.batch * BatchSize >= Len(lint.snap)
      <4>1. BatchSize \in Nat /\ lint.batch \in Nat /\ Len(lint.snap) \in Nat
        BY <1>1, BatchSizeType DEF TypeOK, Run
      <4>2. \A a, b \in Nat : a * b \in Nat
        OBVIOUS
      <4>3. lint.batch * BatchSize \in Nat
        BY <4>1, <4>2
      <4> QED
        BY <1>1, <2>1, <4>1, <4>3 DEF BatchesLeft
    <3>2. i \in Nat /\ i <= Len(lint.snap) /\ Len(lint.snap) \in Nat
      BY <1>1 DEF Run
    <3>3. ~(i > lint.batch * BatchSize)
      <4>1. BatchSize \in Nat /\ lint.batch \in Nat
        BY <1>1, BatchSizeType DEF TypeOK, Run
      <4>2. \A a, b \in Nat : a * b \in Nat
        OBVIOUS
      <4>3. lint.batch * BatchSize \in Nat
        BY <4>1, <4>2
      <4> QED
        BY <3>1, <3>2, <4>3
    <3> QED
      BY <1>1, <2>1, <3>3 DEF ReadInv, BatchInv, Batching, At
  <2>2. \A i \in DOMAIN lint.snap : Told(i) => Told(i)'
    BY <1>1, <1>2 DEF Told, BatchSize
  <2> QED
    BY <1>2, <2>1, <2>2 DEF BatchInv, Batching, At
<1>5. CheckInv'
  <2>1. ASSUME reports = <<>>, NEW p \in Present \ (lint.todo \cup touched)
        PROVE  Parses(files[p]) /\ files[p].typed
    <3>1. Faults(files[p], lint.known) = {}
      BY <1>1, <2>1 DEF ReadInv, ScanInv, Linting, At, Reported
    <3>2. Parses(files[p])
      BY <3>1 DEF Faults
    <3>3. files[p].typed
      BY <3>1, <3>2 DEF Faults
    <3> QED
      BY <3>2, <3>3
  <2>2. lint.todo = {}
    BY <1>1 DEF ReadInv, ScanInv, Batching, At
  <2> QED
    BY <1>1, <1>2, <2>1, <2>2 DEF CheckInv, At, Present
<1> QED
  BY <1>3, <1>4, <1>5 DEF ReadInv

LEMMA ReadStep == TypeOK /\ ReadInv /\ [Next]_vars => ReadInv'
<1> SUFFICES ASSUME TypeOK, ReadInv, [Next]_vars PROVE ReadInv'
  OBVIOUS
<1>0. lint \in Run /\ lint.next + 1 # 1
  BY DEF TypeOK, LintType, Run
<1>1. CASE UNCHANGED vars
  BY <1>1 DEF vars, history, counters, ReadInv, ScanInv, BatchInv, CheckInv, Linting, Batching, At, Reported,
     Told, BatchSize, Present
<1>2. CASE Open
  <2>1. lint'.at = "open" /\ lint'.next = 1 /\ lint'.batch = 0
    BY <1>2 DEF Open, Off
  <2> QED
    BY <2>1 DEF ReadInv, ScanInv, BatchInv, CheckInv, Linting, Batching, At
<1>3. CASE StartLint
  <2>1. /\ lint'.at = "scan" /\ lint'.todo = Present /\ lint'.next = lint.next /\ lint'.batch = lint.batch
        /\ lint.at = "open" /\ UNCHANGED files
    BY <1>3, <1>0 DEF StartLint, Run, At
  <2> QED
    BY <2>1 DEF ReadInv, ScanInv, BatchInv, CheckInv, Linting, Batching, At, Present
<1>4. ASSUME NEW p \in Page, ReadFile(p) PROVE ReadInv'
  BY <1>4, ReadScan
<1>5. CASE Conformance
  <2>1. /\ lint'.at = "batches" /\ lint'.todo = lint.todo /\ lint.todo = {} /\ lint'.known = lint.known
        /\ lint'.next = lint.next /\ lint'.batch = lint.batch /\ lint.at = "scan" /\ UNCHANGED <<files, touched>>
        /\ lint'.snap = lint.snap /\ lint'.size = lint.size
    BY <1>5, <1>0 DEF Conformance, Run, At, history
  <2>2. \E more \in Seq(Note) : reports' = reports \o more
    <3>1. OrphanReports \in Seq(Note) /\ ReservedReports \in Seq(Note) /\ reports \in Seq(Note)
      BY OrphanType, ReservedType, QuietNotes DEF TypeOK, HistoryType, ReportType
    <3>2. reports' = reports \o (OrphanReports \o ReservedReports)
      <4>1. reports' = (reports \o OrphanReports) \o ReservedReports
        BY <1>5 DEF Conformance
      <4> QED
        BY <4>1, <3>1, ConcatAssociative
    <3>3. OrphanReports \o ReservedReports \in Seq(Note)
      BY <3>1, ConcatProperties
    <3> QED
      BY <3>2, <3>3
  <2>3. \A q, k : Reported(q, k) => Reported(q, k)'
    BY <2>2, ReportsStay DEF Reported, TypeOK
  <2>4. ScanInv' /\ CheckInv'
    BY <2>1, <2>3 DEF ReadInv, ScanInv, CheckInv, Linting, Batching, At, Present
  <2>5. BatchInv'
    <3>1. lint'.batch = 0 /\ BatchSize' = BatchSize /\ BatchSize \in Nat
      BY <2>1, BatchSizeType DEF ReadInv, BatchInv, BatchSize, TypeOK
    <3>2. \A i \in DOMAIN lint.snap : i > 0 * BatchSize
      BY <1>0, <3>1 DEF Run
    <3> QED
      BY <2>1, <3>1, <3>2 DEF BatchInv, Batching, At
  <2> QED
    BY <2>4, <2>5 DEF ReadInv
<1>6. CASE BatchAnswered \/ BatchFails
  BY <1>6, ReadBatch
<1>7. CASE Linted
  BY <1>7, ReadLinted
<1>8. CASE PassOver \/ ModelFails \/ WriteFails \/ Fill
  <2>1. NextReport.at = "fix" /\ NextReport.next = lint.next + 1
    BY NextReportType DEF TypeOK
  <2>2. [NextReport EXCEPT !.fixed = TRUE].at = "fix" /\ [NextReport EXCEPT !.fixed = TRUE].next = lint.next + 1
    BY <2>1, NextReportType DEF TypeOK, Run
  <2>3. lint'.at = "fix" /\ lint'.next = lint.next + 1
    BY <1>8, <2>1, <2>2 DEF PassOver, ModelFails, WriteFails, Fill
  <2> QED
    BY <1>0, <2>3, ReadElsewhere
<1>9. CASE Repair \/ Rewritten \/ Truncate \/ IndexFails
  <2>1. lint'.at \in {"ask", "write", "fill", "failed"}
    BY <1>9, <1>0 DEF Repair, Rewritten, Truncate, IndexFails, Run
  <2> QED
    BY <2>1, ReadElsewhere
<1>10. CASE FixesDone
  <2>1. lint'.at = "check" /\ lint'.todo = Present /\ UNCHANGED files
    BY <1>10, <1>0 DEF FixesDone, StartCheck, Run
  <2> QED
    BY <2>1 DEF ReadInv, ScanInv, BatchInv, CheckInv, Linting, Batching, At, Present
<1>11. ASSUME NEW p \in Page, CheckFile(p) PROVE ReadInv'
  <2>1. CASE lint.strict /\ \E k \in Faults(files[p], lint.known) : k \in {"parse", "type"}
    <3>1. lint'.at = "failed"
      BY <1>11, <2>1, <1>0 DEF CheckFile, Run
    <3> QED
      BY <3>1, ReadElsewhere
  <2>2. CASE ~(lint.strict /\ \E k \in Faults(files[p], lint.known) : k \in {"parse", "type"})
    <3>1. /\ lint'.at = "check" /\ lint.at = "check" /\ lint'.todo = lint.todo \ {p} /\ lint'.strict = lint.strict
          /\ UNCHANGED <<files, touched>>
      BY <1>11, <2>2, <1>0 DEF CheckFile, Run, At, history
    <3>2. lint.strict => Parses(files[p]) /\ files[p].typed
      BY <2>2 DEF Faults
    <3> QED
      BY <3>1, <3>2 DEF ReadInv, ScanInv, BatchInv, CheckInv, Linting, Batching, At, Present
  <2> QED
    BY <2>1, <2>2
<1>12. CASE Checked
  <2>1. /\ lint'.at = "passed" /\ lint.at = "check" /\ lint'.todo = lint.todo /\ lint.todo = {}
        /\ lint'.strict = lint.strict /\ UNCHANGED <<files, touched>>
    BY <1>12, <1>0 DEF Checked, Run, At, history
  <2> QED
    BY <2>1 DEF ReadInv, ScanInv, BatchInv, CheckInv, Linting, Batching, At, Present
<1>13. CASE Exit \/ Kill
  <2>1. lint'.at = "off" /\ lint'.next = 1 /\ lint'.batch = 0
    BY <1>13 DEF Exit, Kill, Off
  <2> QED
    BY <2>1 DEF ReadInv, ScanInv, BatchInv, CheckInv, Linting, Batching, At
<1>14. ASSUME NEW p \in Page, NEW f \in Draft \cup {Absent}, Outside(p, f) PROVE ReadInv'
  BY <1>14, ReadOutside
<1> QED
  BY <1>1, <1>2, <1>3, <1>4, <1>5, <1>6, <1>7, <1>8, <1>9, <1>10, <1>11, <1>12, <1>13, <1>14 DEF Next

\* What a run has read and heard is what ReadInv says.
LEMMA ReadCorrect == Spec => []ReadInv
<1>1. Init => ReadInv
  BY ReadInit
<1>2. TypeOK /\ ReadInv /\ [Next]_vars => ReadInv'
  BY ReadStep
<1> QED
  BY <1>1, <1>2, TypeCorrect, PTL DEF Spec

\* A strict run that ends well has seen every page parse and have a type, whether it ended
\* because nothing was reported or after the last check, but for pages others have written
\* since (Cmd::Lint).
THEOREM StrictSuccess == Spec => []StrictMeansConforming
<1>1. ReadInv => StrictMeansConforming
  BY DEF ReadInv, CheckInv, StrictMeansConforming, At
<1> QED
  BY <1>1, ReadCorrect, PTL

\* When the repairs begin, every entry was in a batch that was answered or is reported as
\* failed by its number, for any batch size, and every fault of a page that nobody else
\* wrote is reported (lint_with_options).
THEOREM NothingUnreported == Spec => []ReportsComplete
<1>1. ReadInv => ReportsComplete
  <2> SUFFICES ASSUME ReadInv, At("fix"), lint.next = 1
               PROVE  /\ lint.semantic => \A i \in DOMAIN lint.snap : Told(i)
                      /\ \A p \in Present \ touched : \A k \in Faults(files[p], lint.known) : Reported(p, k)
    BY DEF ReportsComplete, Told, Reported
  <2> QED
    BY DEF ReadInv, ScanInv, BatchInv, Linting, Batching, At
<1> QED
  BY <1>1, ReadCorrect, PTL
-----------------------------------------------------------------------------
(* What a repair may write *)

TypeClaimed(p) == \E q \in Claims(first, p) : first[q].typed
BodyKept(p)    == \E q \in Claims(first, p) : first[q].body = mem[p].body
TypeReport(i)  == reports[i].kind = "type"

\* The page is reported in a way that lets the model rewrite it.
MayRewrite(p) == p \in Repairs({"model"}) \/ (p \in Repairs({"type"}) /\ TypeClaimed(p))

\* Its type was given by the repair of a report dealt with, or being written.
TypeGiven(p) ==
  \E i \in DOMAIN reports :
    /\ TypeReport(i) /\ reports[i].page = p /\ reports[i].fixable
    /\ i < lint.next \/ (i = lint.next /\ lint.at \in {"write", "fill"})

\* A page is reported once as having no type; only the model and a type can be fixed.
ReportInv ==
  /\ At("open") => reports = <<>>
  /\ \A i \in DOMAIN reports : reports[i].fixable => reports[i].kind \in {"type", "model"}
  /\ \A i, j \in DOMAIN reports :
       TypeReport(i) /\ TypeReport(j) /\ reports[i].page = reports[j].page => i = j
  /\ At("scan") => \A i \in DOMAIN reports : TypeReport(i) => reports[i].page \notin lint.todo

\* What memory holds: the body of a file with the page's id, or one the model was asked
\* for; a type such a file has, or one that a repair gave.
HeldInv ==
  /\ \A p \in Entries : BodyKept(p) \/ MayRewrite(p)
  /\ \A p \in Entries : mem[p].typed => TypeClaimed(p) \/ p \in Repairs({"model"}) \/ TypeGiven(p)
  /\ At("ask") => MayRewrite(lint.id)

Repaired(p) ==
  \/ files[p] = first[p]
  \/ p \in Repairs({"model"})
  \/ p \in Repairs({"type"}) /\ (Parses(files[p]) =>
       \E q \in Claims(first, p) : first[q].body = files[p].body \/ first[q].typed)

RepairInv == ~At("off") => ReportInv /\ HeldInv /\ \A p \in Page \ edited : Repaired(p)

\* What is kept while reports are added and the repairs go on.
RepairsGrow == \A kinds : Repairs(kinds) \subseteq Repairs(kinds)'

LEMMA HeldStays ==
  ASSUME HeldInv, UNCHANGED <<mem, first>>, RepairsGrow,
         \A p \in Page : TypeGiven(p) => TypeGiven(p)',
         lint'.at # "ask"
  PROVE  HeldInv'
<1>1. Entries' = Entries
  BY DEF Entries
<1>2. \A p : (TypeClaimed(p)' <=> TypeClaimed(p)) /\ (BodyKept(p)' <=> BodyKept(p))
  BY DEF TypeClaimed, BodyKept, Claims
<1>3. \A p : MayRewrite(p) => MayRewrite(p)'
  BY <1>2 DEF MayRewrite, RepairsGrow
<1>4. \A p \in Entries' : BodyKept(p)' \/ MayRewrite(p)'
  BY <1>1, <1>2, <1>3 DEF HeldInv
<1>5. \A p \in Entries' : mem'[p].typed => TypeClaimed(p)' \/ p \in Repairs({"model"})' \/ TypeGiven(p)'
  BY <1>1, <1>2 DEF HeldInv, RepairsGrow, Entries
<1> QED
  BY <1>4, <1>5 DEF HeldInv, At

LEMMA RepairedStays ==
  ASSUME RepairsGrow, UNCHANGED first, NEW p, Repaired(p), files'[p] = files[p]
  PROVE  Repaired(p)'
BY DEF Repaired, RepairsGrow, Claims

LEMMA SameRepairs == ASSUME UNCHANGED reports PROVE RepairsGrow
BY DEF RepairsGrow, Repairs

LEMMA MoreRepairs ==
  ASSUME ReportType, NEW more \in Seq(Note), reports' = reports \o more
  PROVE  /\ RepairsGrow
         /\ lint'.next = lint.next /\ lint'.at = lint.at => \A p : TypeGiven(p) => TypeGiven(p)'
         /\ lint'.next = lint.next /\ ~(lint.at \in {"write", "fill"}) => \A p : TypeGiven(p) => TypeGiven(p)'
<1>1. \A i \in DOMAIN reports : i \in DOMAIN reports' /\ reports'[i] = reports[i]
  BY ReportsStay
<1>2. RepairsGrow
  BY <1>1 DEF RepairsGrow, Repairs
<1> QED
  BY <1>1, <1>2 DEF TypeGiven, TypeReport

\* Adding reports that call nothing fixable but what the model said.
LEMMA RepairAppend ==
  ASSUME TypeOK, RepairInv, lint.at \in {"scan", "batches"}, NEW more \in Seq(Quiet), reports' = reports \o more,
         UNCHANGED <<mem, files, first, edited>>, lint'.next = lint.next, lint'.at = "batches"
  PROVE  RepairInv'
<1>0. ReportInv /\ HeldInv /\ ReportType
  BY DEF RepairInv, At, TypeOK
<1>1. more \in Seq(Note)
  BY DEF Quiet
<1>2. /\ RepairsGrow
      /\ \A p : TypeGiven(p) => TypeGiven(p)'
  BY <1>0, <1>1, MoreRepairs
<1>3. /\ \A i \in DOMAIN reports : i \in DOMAIN reports' /\ reports'[i] = reports[i]
      /\ \A i \in DOMAIN more : Len(reports) + i \in DOMAIN reports' /\ reports'[Len(reports) + i] = more[i]
      /\ \A i \in DOMAIN reports' : \/ i \in DOMAIN reports
                                    \/ i - Len(reports) \in DOMAIN more /\ reports'[i] = more[i - Len(reports)]
  BY <1>0, <1>1, ReportsStay
<1>4. \A i \in DOMAIN more : more[i].kind # "type" /\ (more[i].fixable => more[i].kind = "model")
  BY DEF Quiet
<1>5. ReportInv'
  <2>1. ASSUME NEW i \in DOMAIN reports', reports'[i].fixable PROVE reports'[i].kind \in {"type", "model"}
    BY <1>0, <1>3, <1>4, <2>1 DEF ReportInv
  <2>2. \A i \in DOMAIN reports' : reports'[i].kind = "type" => i \in DOMAIN reports /\ reports'[i] = reports[i]
    BY <1>3, <1>4
  <2> QED
    BY <1>0, <2>1, <2>2 DEF ReportInv, At, TypeReport
<1>6. HeldInv'
  BY <1>0, <1>2, HeldStays
<1>7. \A p \in Page \ edited : Repaired(p)'
  BY <1>2, RepairedStays DEF RepairInv, At
<1> QED
  BY <1>5, <1>6, <1>7 DEF RepairInv

LEMMA RepairScan ==
  ASSUME TypeOK, RepairInv, NEW p \in Page, ReadFile(p)
  PROVE  RepairInv'
<1> DEFINE more == DocumentReports(p, files[p], lint.known)
<1>1. /\ At("scan") /\ p \in lint.todo /\ lint' = [lint EXCEPT !.todo = lint.todo \ {p}]
      /\ reports' = reports \o more /\ UNCHANGED <<mem, files, first, edited>>
  BY DEF ReadFile, history
<1>2. /\ more \in Seq(Note)
      /\ \A i \in DOMAIN more : more[i].page = p /\ (more[i].fixable <=> more[i].kind = "type")
      /\ \A i, j \in DOMAIN more : more[i].kind = more[j].kind => i = j
  BY DocumentFacts DEF TypeOK, FileType
<1> HIDE DEF more
<1>3. lint'.at = "scan" /\ lint'.todo = lint.todo \ {p} /\ lint'.next = lint.next
  BY <1>1 DEF TypeOK, LintType, Run, At
<1>0. ReportInv /\ HeldInv /\ ReportType
  BY <1>1 DEF RepairInv, At, TypeOK
<1>4. /\ RepairsGrow
      /\ \A q : TypeGiven(q) => TypeGiven(q)'
  BY <1>0, <1>1, <1>2, <1>3, MoreRepairs DEF At
<1>5. /\ \A i \in DOMAIN reports : i \in DOMAIN reports' /\ reports'[i] = reports[i]
      /\ \A i \in DOMAIN more : Len(reports) + i \in DOMAIN reports' /\ reports'[Len(reports) + i] = more[i]
      /\ \A i \in DOMAIN reports' : \/ i \in DOMAIN reports
                                    \/ i - Len(reports) \in DOMAIN more /\ reports'[i] = more[i - Len(reports)]
  BY <1>0, <1>1, <1>2, ReportsStay
<1>6. ReportInv'
  <2>1. \A i \in DOMAIN reports' : reports'[i].fixable => reports'[i].kind \in {"type", "model"}
    BY <1>0, <1>2, <1>5 DEF ReportInv
  <2>2. ASSUME NEW i \in DOMAIN reports', NEW j \in DOMAIN reports', reports'[i].kind = "type", reports'[j].kind = "type",
               reports'[i].page = reports'[j].page
        PROVE  i = j
    <3>1. \A k \in DOMAIN reports : reports[k].kind = "type" => reports[k].page # p
      BY <1>0, <1>1 DEF ReportInv, TypeReport
    <3>2. CASE i \in DOMAIN reports /\ j \in DOMAIN reports
      BY <1>0, <1>5, <2>2, <3>2 DEF ReportInv, TypeReport
    <3>3. CASE i \notin DOMAIN reports /\ j \notin DOMAIN reports
      <4>1. i - Len(reports) \in DOMAIN more /\ j - Len(reports) \in DOMAIN more
            /\ more[i - Len(reports)].kind = more[j - Len(reports)].kind
        BY <1>5, <2>2, <3>3
      <4>2. i - Len(reports) = j - Len(reports)
        BY <1>2, <4>1
      <4>3. i \in Nat /\ j \in Nat /\ Len(reports) \in Nat
        <5>1. reports' \in Seq(Note)
          BY <1>0, <1>1, <1>2, ConcatProperties DEF ReportType
        <5> QED
          BY <5>1, <1>0 DEF ReportType
      <4> QED
        BY <4>2, <4>3
    <3>4. CASE i \in DOMAIN reports /\ j \notin DOMAIN reports
      BY <1>2, <1>5, <2>2, <3>1, <3>4
    <3>5. CASE i \notin DOMAIN reports /\ j \in DOMAIN reports
      BY <1>2, <1>5, <2>2, <3>1, <3>5
    <3> QED
      BY <3>2, <3>3, <3>4, <3>5
  <2>3. \A i \in DOMAIN reports' : reports'[i].kind = "type" => reports'[i].page \notin lint'.todo
    BY <1>0, <1>1, <1>2, <1>3, <1>5 DEF ReportInv, TypeReport
  <2> QED
    BY <1>3, <2>1, <2>2, <2>3 DEF ReportInv, At, TypeReport
<1>7. HeldInv'
  BY <1>0, <1>1, <1>3, <1>4, HeldStays
<1>8. \A q \in Page \ edited : Repaired(q)'
  BY <1>1, <1>4, RepairedStays DEF RepairInv, At
<1> QED
  BY <1>1, <1>6, <1>7, <1>8 DEF RepairInv

\* Steps after the reports are complete that write nothing.
LEMMA RepairQuiet ==
  ASSUME TypeOK, RepairInv, lint.at # "off", UNCHANGED <<mem, files, first, edited, reports>>,
         lint'.at \notin {"open", "scan", "ask"}, lint'.next \in Nat,
         \/ lint'.next > lint.next
         \/ lint'.next = lint.next /\ lint.at \notin {"write", "fill"}
  PROVE  RepairInv'
<1>0. ReportInv /\ HeldInv
  BY DEF RepairInv, At
<1>1. RepairsGrow
  BY SameRepairs
<1>2. \A p : TypeGiven(p) => TypeGiven(p)'
  <2> SUFFICES ASSUME NEW p, NEW i \in DOMAIN reports, i < lint.next \/ (i = lint.next /\ lint.at \in {"write", "fill"})
               PROVE  i < lint'.next
    BY DEF TypeGiven, TypeReport
  <2>0. i \in Nat /\ lint.next \in Nat
    BY DEF TypeOK, ReportType, LintType, Run
  <2>1. CASE lint'.next = lint.next /\ lint.at \notin {"write", "fill"}
    BY <2>1
  <2>2. CASE lint'.next > lint.next
    <3>1. CASE i = lint.next
      BY <2>2, <3>1
    <3>2. CASE i < lint.next
      BY <2>0, <2>2, <3>2
    <3> QED
      BY <3>1, <3>2
  <2> QED
    BY <2>1, <2>2
<1>3. ReportInv'
  BY <1>0 DEF ReportInv, At, TypeReport
<1>4. HeldInv'
  BY <1>0, <1>1, <1>2, HeldStays
<1>5. \A p \in Page \ edited : Repaired(p)'
  BY <1>1, RepairedStays DEF RepairInv, At
<1> QED
  BY <1>3, <1>4, <1>5 DEF RepairInv

LEMMA RepairOpen ==
  ASSUME TypeOK, Open
  PROVE  RepairInv'
<1>1. /\ mem' \in Loaded(files) /\ reports' = <<>> /\ first' = files /\ files' = files
      /\ lint'.at = "open"
  BY DEF Open, Off
<1>2. files \in [Page -> OnDisk]
  BY DEF TypeOK, FileType
<1>3. \A p \in Page : mem'[p] # Absent =>
        \E q \in Claims(files, p) : mem'[p] = Parse(files[q]) /\ files[q] \in File
  BY <1>1, <1>2, LoadedType
<1>4. ReportInv'
  BY <1>1 DEF ReportInv, At
<1>5. HeldInv'
  <2>1. ASSUME NEW p \in Entries' PROVE BodyKept(p)' /\ (mem'[p].typed => TypeClaimed(p)')
    <3>1. PICK q \in Claims(files, p) : mem'[p] = Parse(files[q]) /\ files[q] \in File
      BY <1>3, <2>1 DEF Entries
    <3>2. mem'[p].body = files[q].body /\ mem'[p].typed = files[q].typed
      BY <3>1, ParseType
    <3> QED
      BY <1>1, <3>1, <3>2 DEF BodyKept, TypeClaimed, Claims
  <2> QED
    BY <1>1, <2>1 DEF HeldInv, At
<1>6. \A p \in Page : Repaired(p)'
  BY <1>1 DEF Repaired
<1> QED
  BY <1>4, <1>5, <1>6 DEF RepairInv

\* The report at hand is among the reports.
LEMMA ThisReport ==
  ASSUME TypeOK, lint.next <= Len(reports)
  PROVE  /\ lint.next \in DOMAIN reports /\ This \in Note
         /\ \A kinds : This.fixable /\ This.kind \in kinds => This.page \in Repairs(kinds)
<1>1. lint.next \in DOMAIN reports /\ reports \in Seq(Note)
  BY DEF TypeOK, ReportType, LintType, Run
<1> QED
  BY <1>1 DEF This, Repairs

LEMMA RepairRepair ==
  ASSUME TypeOK, RepairInv, Repair
  PROVE  RepairInv'
<1> DEFINE id == This.page
<1>1. /\ AtReport /\ This.fixable /\ mem[id] # Absent /\ lint.at = "fix"
      /\ UNCHANGED <<files, first, edited, reports>> /\ mem' = AutofixType(id)
      /\ lint' = [lint EXCEPT !.id = id, !.at = IF mem[id].typed THEN "ask" ELSE "write"]
      /\ This.page # NoPage
  BY DEF Repair, history, Repairable, AtReport, At
<1>2. ReportInv /\ HeldInv
  BY <1>1 DEF RepairInv, At
<1>3. /\ lint.next \in DOMAIN reports /\ id \in Page
      /\ \A kinds : This.kind \in kinds => id \in Repairs(kinds)
      /\ This.kind \in {"type", "model"}
  <2>1. lint.next \in DOMAIN reports /\ This \in Note
        /\ \A kinds : This.kind \in kinds => id \in Repairs(kinds)
    BY <1>1, ThisReport DEF AtReport
  <2> QED
    BY <1>1, <1>2, <2>1 DEF Note, ReportInv, This
<1>4. lint'.at = (IF mem[id].typed THEN "ask" ELSE "write") /\ lint'.next = lint.next /\ lint'.id = id
  BY <1>1 DEF TypeOK, LintType, Run
<1>5. mem \in [Page -> Held] /\ mem[id] \in Entry
  BY <1>1, <1>3, Kinds DEF TypeOK, MemType
<1>6. /\ Entries' = Entries
      /\ \A p \in Page : mem'[p] # Absent => mem'[p].body = mem[p].body
      /\ \A p \in Page : p # id \/ mem[p].typed => mem'[p] = mem[p]
  <2>1. CASE mem[id].typed
    BY <1>1, <2>1 DEF AutofixType, Entries
  <2>2. CASE ~mem[id].typed
    <3>1. mem' = [mem EXCEPT ![id] = [mem[id] EXCEPT !.typed = TRUE]]
      BY <1>1, <2>2 DEF AutofixType
    <3>2. mem'[id].body = mem[id].body /\ mem'[id] \in Entry
      BY <3>1, <1>3, <1>5 DEF Entry
    <3> QED
      BY <3>1, <3>2, <1>3, <1>5, <2>2, <1>1, Kinds DEF Entries
  <2> QED
    BY <2>1, <2>2
<1>7. RepairsGrow
  BY <1>1, SameRepairs
<1>8. \A p : (TypeClaimed(p)' <=> TypeClaimed(p)) /\ (MayRewrite(p) => MayRewrite(p)')
  BY <1>1, <1>7 DEF TypeClaimed, Claims, MayRewrite, RepairsGrow
<1>9. \A p \in Entries : BodyKept(p) => BodyKept(p)'
  <2>1. \A p \in Entries : mem'[p].body = mem[p].body
    BY <1>6 DEF Entries
  <2> QED
    BY <1>1, <2>1 DEF BodyKept, Claims
<1>10. \A p : TypeGiven(p) => TypeGiven(p)'
  BY <1>1, <1>4 DEF TypeGiven, TypeReport
<1>11. ReportInv'
  BY <1>1, <1>2, <1>4 DEF ReportInv, At, TypeReport
<1>12. \A p \in Entries' : BodyKept(p)' \/ MayRewrite(p)'
  BY <1>2, <1>6, <1>8, <1>9 DEF HeldInv
<1>13. ASSUME NEW p \in Entries', mem'[p].typed
       PROVE  TypeClaimed(p)' \/ p \in Repairs({"model"})' \/ TypeGiven(p)'
  <2>1. CASE p = id /\ ~mem[p].typed
    <3>1. CASE This.kind = "model"
      BY <1>3, <1>7, <2>1, <3>1 DEF RepairsGrow
    <3>2. CASE This.kind = "type"
      BY <1>1, <1>3, <1>4, <2>1, <3>2 DEF TypeGiven, TypeReport, This
    <3> QED
      BY <1>3, <3>1, <3>2
  <2>2. CASE ~(p = id /\ ~mem[p].typed)
    <3>1. p \in Entries /\ mem[p].typed
      <4>1. p \in Entries /\ p \in Page
        BY <1>6 DEF Entries
      <4> QED
        BY <1>6, <1>13, <2>2, <4>1
    <3>2. TypeClaimed(p) \/ p \in Repairs({"model"}) \/ TypeGiven(p)
      BY <1>2, <3>1 DEF HeldInv
    <3> QED
      BY <1>7, <1>8, <1>10, <3>2 DEF RepairsGrow
  <2> QED
    BY <2>1, <2>2
<1>14. ASSUME lint'.at = "ask" PROVE MayRewrite(id)
  <2>1. mem[id].typed /\ id \in Entries
    BY <1>1, <1>3, <1>4, <1>14 DEF Entries
  <2>2. CASE This.kind = "model"
    BY <1>3, <2>2 DEF MayRewrite
  <2>3. CASE This.kind = "type"
    <3>1. id \in Repairs({"type"})
      BY <1>3, <2>3
    <3>2. ~TypeGiven(id)
      <4> SUFFICES ASSUME NEW i \in DOMAIN reports, reports[i].kind = "type", reports[i].page = id, i < lint.next
                   PROVE  FALSE
        BY <1>1 DEF TypeGiven, TypeReport
      <4>1. i = lint.next
        BY <1>2, <1>3, <2>3 DEF ReportInv, TypeReport, This
      <4>2. i \in Nat
        BY DEF TypeOK, ReportType
      <4> QED
        BY <4>1, <4>2
    <3> QED
      BY <1>2, <2>1, <3>1, <3>2 DEF HeldInv, MayRewrite
  <2> QED
    BY <1>3, <2>2, <2>3
<1>15. HeldInv'
  BY <1>4, <1>8, <1>12, <1>13, <1>14 DEF HeldInv, At
<1>16. \A p \in Page \ edited : Repaired(p)'
  BY <1>1, <1>7, RepairedStays DEF RepairInv, At
<1> QED
  BY <1>1, <1>11, <1>15, <1>16 DEF RepairInv

LEMMA RepairRewritten ==
  ASSUME TypeOK, RepairInv, Rewritten
  PROVE  RepairInv'
<1>1. lint.at = "ask" /\ UNCHANGED <<files, first, edited, reports>> /\ lint' = [lint EXCEPT !.at = "write"]
  BY DEF Rewritten, history, At
<1>2. PICK b \in Body : mem' = [mem EXCEPT ![lint.id].body = b]
  BY DEF Rewritten
<1>3. ReportInv /\ HeldInv /\ MayRewrite(lint.id)
  BY <1>1 DEF RepairInv, At, HeldInv
<1>4. lint'.at = "write" /\ lint'.next = lint.next
  BY <1>1 DEF TypeOK, LintType, Run
<1>5. lint.id \in Page /\ mem \in [Page -> Held] /\ mem[lint.id] \in Entry
  BY <1>1, Kinds DEF TypeOK, InHand, MemType
<1>6. /\ Entries' = Entries
      /\ \A p \in Page : p # lint.id => mem'[p] = mem[p]
      /\ mem'[lint.id].typed = mem[lint.id].typed
  <2>1. mem' = [mem EXCEPT ![lint.id] = [mem[lint.id] EXCEPT !.body = b]]
    BY <1>2
  <2>2. mem'[lint.id] \in Entry /\ mem'[lint.id].typed = mem[lint.id].typed
    BY <2>1, <1>5 DEF Entry
  <2> QED
    BY <2>1, <2>2, <1>5, Kinds DEF Entries
<1>7. RepairsGrow
  BY <1>1, SameRepairs
<1>8. \A p : (TypeClaimed(p)' <=> TypeClaimed(p)) /\ (MayRewrite(p) => MayRewrite(p)')
  BY <1>1, <1>7 DEF TypeClaimed, Claims, MayRewrite, RepairsGrow
<1>9. \A p : TypeGiven(p) => TypeGiven(p)'
  BY <1>1, <1>4 DEF TypeGiven, TypeReport
<1>10. ReportInv'
  BY <1>1, <1>3, <1>4 DEF ReportInv, At, TypeReport
<1>11. ASSUME NEW p \in Entries' PROVE BodyKept(p)' \/ MayRewrite(p)'
  <2>1. CASE p = lint.id
    BY <1>3, <1>8, <2>1
  <2>2. CASE p # lint.id
    <3>1. p \in Entries /\ mem'[p] = mem[p]
      BY <1>6, <2>2 DEF Entries
    <3>2. BodyKept(p) => BodyKept(p)'
      BY <1>1, <3>1 DEF BodyKept, Claims
    <3> QED
      BY <1>3, <1>8, <3>1, <3>2 DEF HeldInv
  <2> QED
    BY <2>1, <2>2
<1>12. ASSUME NEW p \in Entries', mem'[p].typed
       PROVE  TypeClaimed(p)' \/ p \in Repairs({"model"})' \/ TypeGiven(p)'
  <2>1. p \in Entries /\ mem[p].typed
    BY <1>6, <1>12 DEF Entries
  <2> QED
    BY <1>3, <1>7, <1>8, <1>9, <2>1 DEF HeldInv, RepairsGrow
<1>13. HeldInv'
  BY <1>4, <1>11, <1>12 DEF HeldInv, At
<1>14. \A p \in Page \ edited : Repaired(p)'
  BY <1>1, <1>7, RepairedStays DEF RepairInv, At
<1> QED
  BY <1>1, <1>10, <1>13, <1>14 DEF RepairInv

\* What a repair writes, torn or whole.
LEMMA RepairWrite ==
  ASSUME TypeOK, RepairInv, Truncate \/ Fill
  PROVE  RepairInv'
<1>1. /\ lint.at \in {"write", "fill"} /\ UNCHANGED <<mem, first, edited, reports>>
      /\ \A p \in Page : p # lint.id => files'[p] = files[p]
      /\ \/ ~Parses(files'[lint.id])
         \/ files'[lint.id] = files[lint.id]
         \/ files'[lint.id] = Render(lint.id, mem[lint.id])
  <2>1. files \in [Page -> OnDisk] /\ lint.at \in {"write", "fill"} => lint.id \in Page
    BY DEF TypeOK, FileType, InHand
  <2>2. CASE Truncate
    <3>1. files' = [files EXCEPT ![lint.id] = Bad]
      BY <2>2 DEF Truncate
    <3>2. lint.at = "write" /\ files \in [Page -> OnDisk] /\ lint.id \in Page
      BY <2>1, <2>2 DEF Truncate, At, TypeOK, FileType, InHand
    <3>3. files'[lint.id] = Bad
      BY <3>1, <3>2
    <3> QED
      BY <2>2, <3>1, <3>2, <3>3, Kinds DEF Truncate, history
  <2>3. CASE Fill
    <3>1. files' = [files EXCEPT ![lint.id] = IF files[lint.id] = Absent THEN Absent
                                              ELSE Render(lint.id, mem[lint.id])]
      BY <2>3 DEF Fill
    <3>2. lint.at = "fill" /\ files \in [Page -> OnDisk] /\ lint.id \in Page
      BY <2>1, <2>3 DEF Fill, At, TypeOK, FileType, InHand
    <3>3. files'[lint.id] = IF files[lint.id] = Absent THEN Absent ELSE Render(lint.id, mem[lint.id])
      BY <3>1, <3>2
    <3> QED
      BY <2>3, <3>1, <3>2, <3>3, Kinds DEF Fill, history
  <2> QED
    BY <2>2, <2>3
<1>2. /\ lint.id \in Page /\ lint.id = This.page /\ This.fixable /\ mem[lint.id] \in Entry
      /\ lint.id \in Entries /\ lint.next <= Len(reports) /\ lint.next \in Nat
  <2>1. mem \in [Page -> Held] /\ lint.next \in Nat
    BY DEF TypeOK, MemType, LintType, Run
  <2> QED
    BY <1>1, <2>1, Kinds DEF TypeOK, InHand, Entries
<1>3. ReportInv /\ HeldInv
  BY <1>1 DEF RepairInv, At
<1>4. lint.id \in Repairs({"model"}) \/ lint.id \in Repairs({"type"})
  <2>1. lint.next \in DOMAIN reports
        /\ \A kinds : This.fixable /\ This.kind \in kinds => This.page \in Repairs(kinds)
    BY <1>2, ThisReport
  <2>2. This.kind \in {"type", "model"}
    BY <1>2, <1>3, <2>1 DEF ReportInv, This
  <2> QED
    BY <1>2, <2>1, <2>2
<1>5. /\ lint'.at \in {"fill", "fix"} /\ lint'.next \in Nat
      /\ lint'.next = lint.next + 1 \/ (lint'.next = lint.next /\ lint'.at = "fill")
  <2>1. CASE Truncate
    BY <1>2, <2>1 DEF Truncate, TypeOK, LintType, Run
  <2>2. CASE Fill
    <3>1. NextReport \in Run /\ NextReport.at = "fix" /\ NextReport.next = lint.next + 1
      BY NextReportType DEF TypeOK
    <3>2. lint' = [NextReport EXCEPT !.fixed = TRUE]
      BY <2>2 DEF Fill
    <3> HIDE DEF NextReport
    <3>3. lint'.at = NextReport.at /\ lint'.next = NextReport.next
      BY <3>1, <3>2 DEF Run
    <3> QED
      BY <1>2, <3>1, <3>3
  <2> QED
    BY <2>1, <2>2
<1>6. RepairsGrow
  BY <1>1, SameRepairs
<1>7. ASSUME NEW p, TypeGiven(p) PROVE TypeGiven(p)'
  <2>1. PICK i \in DOMAIN reports : /\ TypeReport(i) /\ reports[i].page = p /\ reports[i].fixable
                                    /\ i < lint.next \/ i = lint.next
    BY <1>7 DEF TypeGiven
  <2>2. i \in Nat
    BY DEF TypeOK, ReportType
  <2>3. i < lint'.next \/ (i = lint'.next /\ lint'.at \in {"write", "fill"})
    BY <1>2, <1>5, <2>1, <2>2
  <2> QED
    BY <1>1, <2>1, <2>3 DEF TypeGiven, TypeReport
<1>8. ReportInv'
  BY <1>1, <1>3, <1>5 DEF ReportInv, At, TypeReport
<1>9. HeldInv'
  BY <1>1, <1>3, <1>5, <1>6, <1>7, HeldStays
<1>10. ASSUME NEW p \in Page \ edited PROVE Repaired(p)'
  <2>1. Repaired(p)
    BY <1>1 DEF RepairInv, At
  <2>2. CASE files'[p] = files[p]
    BY <1>1, <1>6, <2>1, <2>2, RepairedStays
  <2>3. CASE p = lint.id /\ ~Parses(files'[p])
    BY <1>4, <1>6, <2>3 DEF Repaired, RepairsGrow
  <2>4. CASE p = lint.id /\ files'[p] = Render(p, mem[p])
    <3>1. files'[p].body = mem[p].body
      BY <1>2, <2>4, RenderType
    <3>2. BodyKept(p) \/ MayRewrite(p)
      BY <1>2, <1>3, <2>4 DEF HeldInv
    <3>3. p \in Repairs({"model"}) \/ (p \in Repairs({"type"}) /\
            \E q \in Claims(first, p) : first[q].body = files'[p].body \/ first[q].typed)
      BY <1>4, <2>4, <3>1, <3>2 DEF BodyKept, MayRewrite, TypeClaimed
    <3>4. \A q : q \in Claims(first, p) => q \in Claims(first, p)'
      BY <1>1 DEF Claims
    <3> QED
      BY <1>1, <1>6, <3>3, <3>4 DEF Repaired, RepairsGrow
  <2> QED
    BY <1>1, <2>2, <2>3, <2>4
<1> QED
  BY <1>1, <1>8, <1>9, <1>10 DEF RepairInv

LEMMA RepairStep == TypeOK /\ RepairInv /\ [Next]_vars => RepairInv'
<1> SUFFICES ASSUME TypeOK, RepairInv, [Next]_vars PROVE RepairInv'
  OBVIOUS
<1>0. lint \in Run /\ lint.next \in Nat
  BY DEF TypeOK, LintType, Run
<1>1. CASE UNCHANGED vars
  BY <1>1 DEF vars, history, counters, RepairInv, ReportInv, HeldInv, At, Repaired, Repairs, Entries, BodyKept,
     TypeClaimed, TypeGiven, TypeReport, MayRewrite, Claims
<1>2. CASE Open
  BY <1>2, RepairOpen
<1>3. CASE StartLint
  <2>1. /\ lint'.at = "scan" /\ lint.at = "open" /\ lint'.next = lint.next
        /\ UNCHANGED <<mem, files, first, edited, reports>>
    BY <1>3, <1>0 DEF StartLint, At, Run
  <2>2. reports = <<>> /\ HeldInv
    BY <2>1 DEF RepairInv, ReportInv, At
  <2>3. RepairsGrow /\ \A p : TypeGiven(p) => TypeGiven(p)'
    BY <2>1, <2>2, SameRepairs DEF TypeGiven
  <2>4. HeldInv'
    BY <2>1, <2>2, <2>3, HeldStays
  <2>5. ReportInv'
    BY <2>1, <2>2 DEF ReportInv, At
  <2>6. \A p \in Page \ edited : Repaired(p)'
    BY <2>1, <2>3, RepairedStays DEF RepairInv, At
  <2> QED
    BY <2>1, <2>4, <2>5, <2>6 DEF RepairInv
<1>4. ASSUME NEW p \in Page, ReadFile(p) PROVE RepairInv'
  BY <1>4, RepairScan
<1>5. CASE Conformance
  <2>1. OrphanReports \in Seq(Quiet) /\ ReservedReports \in Seq(Quiet) /\ reports \in Seq(Note)
    BY OrphanType, ReservedType DEF TypeOK, HistoryType, ReportType
  <2>2. reports' = reports \o (OrphanReports \o ReservedReports)
    <3>1. reports' = (reports \o OrphanReports) \o ReservedReports
      BY <1>5 DEF Conformance
    <3>2. OrphanReports \in Seq(Note) /\ ReservedReports \in Seq(Note)
      BY <2>1, QuietNotes
    <3> QED
      BY <3>1, <3>2, <2>1, ConcatAssociative
  <2>3. OrphanReports \o ReservedReports \in Seq(Quiet)
    BY <2>1, ConcatProperties
  <2>4. /\ lint.at = "scan" /\ lint'.at = "batches" /\ lint'.next = lint.next
        /\ UNCHANGED <<mem, files, first, edited>>
    BY <1>5, <1>0 DEF Conformance, At, Run, history
  <2> QED
    BY <2>2, <2>3, <2>4, RepairAppend
<1>6. CASE BatchAnswered
  <2>1. PICK opinion \in Opinions : reports' = reports \o opinion
    BY <1>6 DEF BatchAnswered
  <2>2. opinion \in Seq(Quiet)
    BY OpinionType
  <2>3. /\ lint.at = "batches" /\ lint'.at = "batches" /\ lint'.next = lint.next
        /\ UNCHANGED <<mem, files, first, edited>>
    <3> HIDE DEF Batch
    <3> QED
      BY <1>6, <1>0 DEF BatchAnswered, At, Run, history
  <2> QED
    BY <2>1, <2>2, <2>3, RepairAppend
<1>7. CASE BatchFails
  <2>1. lint.batch + 1 \in Nat
    BY <1>0 DEF Run
  <2>2. BatchFailure(lint.batch + 1) \in Quiet /\ BatchFailure(lint.batch + 1) \in Note
    BY <2>1, FailureType
  <2>3. reports' = reports \o <<BatchFailure(lint.batch + 1)>> /\ <<BatchFailure(lint.batch + 1)>> \in Seq(Quiet)
    BY <1>7, <2>2, AppendIsConcat DEF BatchFails, TypeOK, ReportType
  <2>4. /\ lint.at = "batches" /\ lint'.at = "batches" /\ lint'.next = lint.next
        /\ UNCHANGED <<mem, files, first, edited>>
    BY <1>7, <1>0 DEF BatchFails, At, Run, history
  <2> QED
    BY <2>3, <2>4, RepairAppend
<1>8. CASE Linted
  <2>1. lint'.at \in {"passed", "fix"} /\ lint'.next = lint.next /\ lint.at = "batches"
        /\ UNCHANGED <<mem, files, first, edited, reports>>
    BY <1>8, <1>0 DEF Linted, At, Run, history
  <2> QED
    BY <1>0, <2>1, RepairQuiet
<1>9. CASE PassOver \/ ModelFails \/ WriteFails
  <2>1. NextReport.at = "fix" /\ NextReport.next = lint.next + 1
    BY NextReportType DEF TypeOK
  <2>2. /\ lint'.at = "fix" /\ lint'.next = lint.next + 1 /\ lint.at # "off"
        /\ UNCHANGED <<mem, files, first, edited, reports>>
    BY <1>9, <2>1 DEF PassOver, ModelFails, WriteFails, AtReport, At, history
  <2> QED
    BY <1>0, <2>2, RepairQuiet
<1>10. CASE Repair
  BY <1>10, RepairRepair
<1>11. CASE Rewritten
  BY <1>11, RepairRewritten
<1>12. CASE Truncate \/ Fill
  BY <1>12, RepairWrite
<1>13. CASE FixesDone \/ IndexFails \/ Checked
  <2>1. lint'.at \in {"check", "failed", "passed"} /\ lint'.next = lint.next /\ lint.at \in {"fix", "check"}
        /\ UNCHANGED <<mem, files, first, edited, reports>>
    BY <1>13, <1>0 DEF FixesDone, IndexFails, Checked, StartCheck, At, Run, history
  <2> QED
    BY <1>0, <2>1, RepairQuiet
<1>14. ASSUME NEW p \in Page, CheckFile(p) PROVE RepairInv'
  <2>1. lint'.at \in {"check", "failed"} /\ lint'.next = lint.next /\ lint.at = "check"
        /\ UNCHANGED <<mem, files, first, edited, reports>>
    BY <1>14, <1>0 DEF CheckFile, At, Run, history
  <2> QED
    BY <1>0, <2>1, RepairQuiet
<1>15. CASE Exit \/ Kill
  <2>1. lint'.at = "off"
    BY <1>15 DEF Exit, Kill, Off
  <2> QED
    BY <2>1 DEF RepairInv, At
<1>16. ASSUME NEW p \in Page, NEW f \in Draft \cup {Absent}, Outside(p, f) PROVE RepairInv'
  <2>1. /\ UNCHANGED <<mem, lint, reports, first>> /\ edited' = edited \cup {p}
        /\ \A q \in Page : q # p => files'[q] = files[q]
    BY <1>16 DEF Outside, TypeOK, FileType
  <2>2. RepairsGrow
    BY <2>1, SameRepairs
  <2>3. ~At("off") => ReportInv' /\ HeldInv'
    BY <2>1 DEF RepairInv, ReportInv, HeldInv, At, Repairs, Entries, BodyKept, TypeClaimed, TypeGiven, TypeReport,
       MayRewrite, Claims
  <2>4. ~At("off") => \A q \in Page \ edited' : Repaired(q)'
    BY <2>1, <2>2, RepairedStays DEF RepairInv
  <2> QED
    BY <2>1, <2>3, <2>4 DEF RepairInv, At
<1> QED
  BY <1>1, <1>2, <1>3, <1>4, <1>5, <1>6, <1>7, <1>8, <1>9, <1>10, <1>11, <1>12, <1>13, <1>14, <1>15, <1>16 DEF Next

\* A run writes only pages that a report calls fixable, and a page keeps the body of a
\* file with its id unless the model was asked to rewrite it (auto_fix).
THEOREM RepairsWithinReports == Spec => []RepairsAsReported
<1>1. Init => RepairInv
  BY DEF Init, Off, RepairInv, At
<1>2. TypeOK /\ RepairInv /\ [Next]_vars => RepairInv'
  BY RepairStep
<1>3. RepairInv => RepairsAsReported
  BY DEF RepairInv, RepairsAsReported, Repaired
<1> QED
  BY <1>1, <1>2, <1>3, TypeCorrect, PTL DEF Spec
=============================================================================
