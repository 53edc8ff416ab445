---------------------------------- MODULE Lint ----------------------------------
(***************************************************************************)
(* pk lint (pk-cli/src/main.rs): the store is opened, lint_with_options of *)
(* pk-librarian checks the files for OKF conformance and asks a model      *)
(* about the entries batch by batch, auto_fix repairs what the reports     *)
(* call fixable, and with --strict-errors the files are checked again.     *)
(* Reports come from the files, repairs from what open read into memory,   *)
(* and other processes write pages in between.  Events and printing are    *)
(* left out; a repair's revision is the subject of KnowledgeStore, the     *)
(* content of index.md that of WikiIndex.                                  *)
(***************************************************************************)
EXTENDS Naturals, Sequences, FiniteSets, SequencesExt

CONSTANTS
  Page,        \* paths under wiki/ without .md, and concept ids
  NoPage,
  Body,        \* what a page says
  Links,       \* Links[b]: the pages b links to
  Draft,       \* files other writers leave under wiki/
  Size,        \* values of --semantic-batch-size
  MaxRun,      \* bound: runs of pk lint
  MaxOutside,  \* bound: writes and removals by other processes
  MaxFault,    \* bound: kills and failed writes
  MaxEvents    \* bound: all of these together

Bad    == [kind |-> "bad"]      \* a fence is missing or the block is not YAML
Absent == [kind |-> "absent"]
File   == [kind : {"file"}, id : Page \cup {NoPage}, typed : BOOLEAN,
           described : BOOLEAN, body : Body]
Entry  == [kind : {"entry"}, typed : BOOLEAN, described : BOOLEAN, body : Body]

ASSUME LintAssumption ==
  /\ NoPage \notin Page /\ IsFiniteSet(Page)
  /\ Links \in [Body -> SUBSET Page]
  /\ Draft \subseteq File \cup {Bad}
  /\ Size \subseteq Nat
  /\ MaxRun \in Nat /\ MaxOutside \in Nat /\ MaxFault \in Nat /\ MaxEvents \in Nat

VARIABLES
  files,     \* files[p]: the file at p
  mem,       \* StoreInner.entries
  reserved,  \* those of index.md and log.md whose structure lint objects to
  lint,      \* the run: its place, options and progress
  reports,   \* Vec<LintReport>
  first,     \* history: the files open read
  edited,    \* history: pages others have written since open
  touched,   \* history: pages others have written since the last check began
  runs, outsides, faults

history  == <<first, edited, touched>>
counters == <<runs, outsides, faults>>
vars     == <<files, mem, reserved, lint, reports, history, counters>>

\* snap: the entries given to the model; batch: the batches sent so far; heard: the
\* entries of the batches it answered; next: the report at hand.
Off == [at |-> "off", fix |-> FALSE, strict |-> FALSE, semantic |-> FALSE, size |-> 1,
        todo |-> {}, known |-> {}, snap |-> <<>>, batch |-> 0, heard |-> {}, next |-> 1,
        fixed |-> FALSE, id |-> NoPage]

Init ==
  /\ files \in [Page -> Draft \cup {Absent}]
  /\ mem = [p \in Page |-> Absent]
  /\ reserved \in {{}, {"index.md", "log.md"}}
  /\ lint = Off /\ reports = <<>>
  /\ first = files /\ edited = {} /\ touched = {}
  /\ runs = 0 /\ outsides = 0 /\ faults = 0

At(place) == lint.at = place
Present   == {p \in Page : files[p] # Absent}
MayFail   == faults < MaxFault /\ outsides + faults < MaxEvents
Entries   == {p \in Page : mem[p] # Absent}

-----------------------------------------------------------------------------
(* Pages and entries (markdown.rs) *)

Parses(f) == f.kind = "file"

\* The concept id: the frontmatter's, else the path's.
IdOf(p, f) == IF f.id = NoPage THEN p ELSE f.id

Parse(f) == [kind |-> "entry", typed |-> f.typed, described |-> f.described, body |-> f.body]

Render(id, e) == [kind |-> "file", id |-> id, typed |-> e.typed, described |-> e.described,
                  body |-> e.body]

\* The files of fs that parse to an entry with this id.
Claims(fs, id) == {p \in Page : Parses(fs[p]) /\ IdOf(p, fs[p]) = id}

\* Files with the same id leave one entry, that of the file read last.
Loaded(fs) ==
  {m \in [Page -> {Parse(fs[p]) : p \in {q \in Page : Parses(fs[q])}} \cup {Absent}] :
     \A id \in Page : IF Claims(fs, id) = {} THEN m[id] = Absent
                      ELSE \E p \in Claims(fs, id) : m[id] = Parse(fs[p])}

-----------------------------------------------------------------------------
(* Reports (bundle.rs) *)

Report(p, kind, fixable) == [page |-> p, kind |-> kind, fixable |-> fixable, batch |-> 0]
BatchFailure(n) == [page |-> NoPage, kind |-> "batch", fixable |-> FALSE, batch |-> n]

\* What is wrong with a file; one report stands for all its broken links.
Faults(f, known) ==
  IF ~Parses(f) THEN {"parse"}
  ELSE {k \in {"type", "description", "link"} :
          \/ k = "type" /\ ~f.typed
          \/ k = "description" /\ ~f.described
          \/ k = "link" /\ ~(Links[f.body] \subseteq known)}

DocumentReports(p, f, known) ==
  LET Said(kind, fixable) == IF kind \in Faults(f, known) THEN <<Report(p, kind, fixable)>> ELSE <<>>
  IN  Said("parse", FALSE) \o Said("type", TRUE) \o Said("description", FALSE) \o Said("link", FALSE)

\* From memory, not from the files; a link from the page itself counts too.
Orphans ==
  IF Cardinality(Entries) <= 1 THEN {}
  ELSE Entries \ UNION {Links[mem[p].body] : p \in Entries}

OrphanReports   == SetToSeq({Report(p, "orphan", FALSE) : p \in Orphans})
ReservedReports == SetToSeq({Report(NoPage, name, FALSE) : name \in reserved})

-----------------------------------------------------------------------------
(* okf_conformance_reports: the tree is listed and read, one file at a time *)

\* open reads the files one by one too; writes to different pages do not depend on
\* each other, so a write it misses may be taken to follow it.
Open ==
  /\ At("off") /\ runs < MaxRun
  /\ mem' \in Loaded(files)
  /\ \E fix, strict, semantic \in BOOLEAN, size \in Size :
       lint' = [Off EXCEPT !.at = "open", !.fix = fix, !.strict = strict,
                           !.semantic = semantic, !.size = size]
  /\ reports' = <<>>
  /\ first' = files /\ edited' = {} /\ touched' = {}
  /\ runs' = runs + 1
  /\ UNCHANGED <<files, reserved, outsides, faults>>

StartCheck(place) ==
  /\ lint' = [lint EXCEPT !.at = place, !.todo = Present, !.known = Present]
  /\ touched' = {}

\* pk lint takes the snapshot it will show the model first.
StartLint ==
  /\ At("open")
  /\ \E order \in SetToSeqs(Entries) :
       lint' = [lint EXCEPT !.at = "scan", !.todo = Present, !.known = Present, !.snap = order]
  /\ touched' = {}
  /\ UNCHANGED <<files, mem, reserved, reports, first, edited, counters>>

\* A file that cannot be read any more is taken to be empty.
ReadFile(p) ==
  /\ At("scan") /\ p \in lint.todo
  /\ lint' = [lint EXCEPT !.todo = @ \ {p}]
  /\ reports' = reports \o DocumentReports(p, files[p], lint.known)
  /\ UNCHANGED <<files, mem, reserved, history, counters>>

Conformance ==
  /\ At("scan") /\ lint.todo = {}
  /\ reports' = reports \o OrphanReports \o ReservedReports
  /\ lint' = [lint EXCEPT !.at = "batches"]
  /\ UNCHANGED <<files, mem, reserved, history, counters>>

-----------------------------------------------------------------------------
(* lint_with_options: the model's reports *)

BatchSize == IF lint.size < 1 THEN 1 ELSE IF lint.size > 100 THEN 100 ELSE lint.size

\* The next chunk of the snapshot.
Batch == SubSeq(lint.snap, lint.batch * BatchSize + 1,
                IF (lint.batch + 1) * BatchSize < Len(lint.snap)
                THEN (lint.batch + 1) * BatchSize ELSE Len(lint.snap))

BatchesLeft == lint.semantic /\ lint.batch * BatchSize < Len(lint.snap)

\* The model may report any entry, one that does not exist, or none in particular.  The
\* page of a report it does not call fixable makes no difference.
Opinions == {<<>>, <<Report(NoPage, "model", FALSE)>>} \cup
            {<<Report(p, "model", TRUE)>> : p \in Page \cup {NoPage}}

BatchAnswered ==
  /\ At("batches") /\ BatchesLeft
  /\ \E opinion \in Opinions : reports' = reports \o opinion
  /\ lint' = [lint EXCEPT !.batch = @ + 1, !.heard = @ \cup Range(Batch)]
  /\ UNCHANGED <<files, mem, reserved, history, counters>>

\* Mutant: after a batch that failed the others are not sent.
BatchFailsAll ==
  /\ At("batches") /\ BatchesLeft
  /\ reports' = Append(reports, BatchFailure(lint.batch + 1))
  /\ lint' = [lint EXCEPT !.batch = Len(lint.snap)]
  /\ UNCHANGED <<files, mem, reserved, history, counters>>

\* The call fails, or its answer cannot be parsed.
BatchFails ==
  /\ At("batches") /\ BatchesLeft
  /\ reports' = Append(reports, BatchFailure(lint.batch + 1))
  /\ lint' = [lint EXCEPT !.batch = @ + 1]
  /\ UNCHANGED <<files, mem, reserved, history, counters>>

\* With nothing to report the command ends well, --strict-errors or not.
Linted ==
  /\ At("batches") /\ ~BatchesLeft
  /\ lint' = [lint EXCEPT !.at = IF reports = <<>> THEN "passed" ELSE "fix"]
  /\ UNCHANGED <<files, mem, reserved, reports, history, counters>>

-----------------------------------------------------------------------------
(* auto_fix *)

AtReport   == At("fix") /\ lint.next <= Len(reports)
This       == reports[lint.next]
Repairable == This.page # NoPage /\ mem[This.page] # Absent
NextReport == [lint EXCEPT !.at = "fix", !.next = @ + 1, !.id = NoPage]

\* Nothing to do, or auto_fix finds no entry with the report's id.
PassOver ==
  /\ AtReport /\ (lint.fix /\ This.fixable => ~Repairable)
  /\ lint' = NextReport
  /\ UNCHANGED <<files, mem, reserved, reports, history, counters>>

\* okf_autofix_type: what memory holds once the entry has a type.
AutofixType(id) == IF mem[id].typed THEN mem ELSE [mem EXCEPT ![id].typed = TRUE]

\* Mutant: the model is asked whatever the entry lacks.
RepairByModel ==
  /\ AtReport /\ lint.fix /\ This.fixable /\ Repairable
  /\ mem' = mem
  /\ lint' = [lint EXCEPT !.id = This.page, !.at = "ask"]
  /\ UNCHANGED <<files, reserved, reports, history, counters>>

\* An entry without a type is given one, whatever the report says; for any other the
\* model is asked to rewrite the body.
Repair ==
  /\ AtReport /\ lint.fix /\ This.fixable /\ Repairable
  /\ mem' = AutofixType(This.page)
  /\ lint' = [lint EXCEPT !.id = This.page,
                          !.at = IF mem[This.page].typed THEN "ask" ELSE "write"]
  /\ UNCHANGED <<files, reserved, reports, history, counters>>

Rewritten ==
  /\ At("ask")
  /\ \E b \in Body : mem' = [mem EXCEPT ![lint.id].body = b]
  /\ lint' = [lint EXCEPT !.at = "write"]
  /\ UNCHANGED <<files, reserved, reports, history, counters>>

ModelFails ==
  /\ At("ask")
  /\ lint' = NextReport
  /\ UNCHANGED <<files, mem, reserved, reports, history, counters>>

\* tokio::fs::write truncates the file of the entry's id, then fills it.
Truncate ==
  /\ At("write")
  /\ files' = [files EXCEPT ![lint.id] = Bad]
  /\ lint' = [lint EXCEPT !.at = "fill"]
  /\ UNCHANGED <<mem, reserved, reports, history, counters>>

Fill ==
  /\ At("fill")
  /\ files' = [files EXCEPT ![lint.id] = IF @ = Absent THEN Absent ELSE Render(lint.id, mem[lint.id])]
  /\ lint' = [NextReport EXCEPT !.fixed = TRUE]
  /\ UNCHANGED <<mem, reserved, reports, history, counters>>

\* Memory keeps the entry that did not reach the disk.
WriteFails ==
  /\ lint.at \in {"write", "fill"} /\ MayFail
  /\ lint' = NextReport
  /\ faults' = faults + 1
  /\ UNCHANGED <<files, mem, reserved, reports, history, runs, outsides>>

-----------------------------------------------------------------------------
(* The end of the command *)

\* index.md is regenerated if anything was fixed; then the files are read again.
FixesDone ==
  /\ At("fix") /\ lint.next > Len(reports)
  /\ reserved' = IF lint.fixed THEN reserved \ {"index.md"} ELSE reserved
  /\ StartCheck("check")
  /\ UNCHANGED <<files, mem, reports, first, edited, counters>>

\* The rebuild of index.md fails: the command ends there.
IndexFails ==
  /\ At("fix") /\ lint.next > Len(reports) /\ lint.fixed /\ MayFail
  /\ lint' = [lint EXCEPT !.at = "failed"]
  /\ faults' = faults + 1
  /\ UNCHANGED <<files, mem, reserved, reports, history, runs, outsides>>

\* Mutant: the last check goes by the entries in memory.
CheckEntry(p) ==
  /\ At("check") /\ p \in lint.todo
  /\ lint' = IF lint.strict /\ p \in Entries /\ ~mem[p].typed
             THEN [lint EXCEPT !.at = "failed", !.todo = {}]
             ELSE [lint EXCEPT !.todo = @ \ {p}]
  /\ UNCHANGED <<files, mem, reserved, reports, history, counters>>

\* Only errors matter to the last check; it ends at once if it finds one.
CheckFile(p) ==
  /\ At("check") /\ p \in lint.todo
  /\ lint' = IF lint.strict /\ \E k \in Faults(files[p], lint.known) : k \in {"parse", "type"}
             THEN [lint EXCEPT !.at = "failed", !.todo = {}]
             ELSE [lint EXCEPT !.todo = @ \ {p}]
  /\ UNCHANGED <<files, mem, reserved, reports, history, counters>>

Checked ==
  /\ At("check") /\ lint.todo = {}
  /\ lint' = [lint EXCEPT !.at = "passed"]
  /\ UNCHANGED <<files, mem, reserved, reports, history, counters>>

Exit ==
  /\ lint.at \in {"passed", "failed"}
  /\ lint' = Off /\ reports' = <<>>
  /\ mem' = [p \in Page |-> Absent]
  /\ UNCHANGED <<files, reserved, history, counters>>

\* The process is killed, or stops at a directory it cannot read.
Kill ==
  /\ lint.at \notin {"off", "passed", "failed"} /\ MayFail
  /\ lint' = Off /\ reports' = <<>>
  /\ mem' = [p \in Page |-> Absent]
  /\ faults' = faults + 1
  /\ UNCHANGED <<files, reserved, history, runs, outsides>>

\* Another process writes or removes a page.
Outside(p, f) ==
  /\ outsides < MaxOutside /\ outsides + faults < MaxEvents /\ f # files[p]
  /\ files' = [files EXCEPT ![p] = f]
  /\ edited' = edited \cup {p} /\ touched' = touched \cup {p}
  /\ outsides' = outsides + 1
  /\ UNCHANGED <<mem, reserved, lint, reports, first, runs, faults>>

Next ==
  \/ Open \/ StartLint \/ Conformance \/ BatchAnswered \/ BatchFails \/ Linted
  \/ PassOver \/ Repair \/ Rewritten \/ ModelFails \/ Truncate \/ Fill \/ WriteFails
  \/ FixesDone \/ IndexFails \/ Checked \/ Exit \/ Kill
  \/ \E p \in Page : ReadFile(p) \/ CheckFile(p)
  \/ \E p \in Page, f \in Draft \cup {Absent} : Outside(p, f)

Spec == Init /\ [][Next]_vars

-----------------------------------------------------------------------------
(* Properties *)

\* pk lint --strict-errors ends well only if every page parses and has a type, apart
\* from pages others have written since its last check began (main.rs).
StrictMeansConforming ==
  At("passed") /\ lint.strict =>
    \A p \in Present \ touched : Parses(files[p]) /\ files[p].typed

\* A model that fails costs the answers about its own batch and nothing else: once the
\* batches are over, every entry of the snapshot was in a batch that was answered or
\* is reported by its number as failed, and what is wrong with a page nobody else
\* wrote is among the reports (lint_with_options).
ReportsComplete ==
  At("fix") /\ lint.next = 1 =>
    /\ lint.semantic => \A i \in DOMAIN lint.snap :
         \/ lint.snap[i] \in lint.heard
         \/ \E j \in DOMAIN reports : reports[j] = BatchFailure((i - 1) \div BatchSize + 1)
    /\ \A p \in Present \ touched : \A k \in Faults(files[p], lint.known) :
         \E j \in DOMAIN reports : reports[j].page = p /\ reports[j].kind = k

Repairs(kinds) == {reports[i].page : i \in {j \in DOMAIN reports : reports[j].fixable /\
                                                                  reports[j].kind \in kinds}}

\* A run writes only pages that a report calls fixable, and gives a page another body
\* only if the model asked for it: any other repair keeps the body of a file that
\* claims the page's id, unless one of those files has the type that the page lacks: then
\* its entry may have it too, and the model is asked after all.  Pages others wrote
\* meanwhile are not covered: what memory holds replaces what they wrote (auto_fix).
RepairsAsReported ==
  ~At("off") =>
    \A p \in Page \ edited :
      \/ files[p] = first[p]
      \/ p \in Repairs({"model"})
      \/ p \in Repairs({"type"}) /\ (Parses(files[p]) =>
           \E q \in Claims(first, p) : first[q].body = files[p].body \/ first[q].typed)

=============================================================================
