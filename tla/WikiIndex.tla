------------------------------- MODULE WikiIndex -------------------------------
(***************************************************************************)
(* The two reserved files of a wiki, index.md and log.md                   *)
(* (pk-store/src/store.rs and bundle.rs), as the processes that write      *)
(* pages keep them: a compile of the server or of `pk ingest`, a learning  *)
(* job, `pk candidates accept` and `pk lint --fix`.  Each writes a page,   *)
(* rebuilds the index from a scan of wiki/ and, all but the last, adds a   *)
(* line to the log.  Both rewrites hold wiki/.index.lock and rename a      *)
(* temporary file over the old one; pages are written without the lock.    *)
(***************************************************************************)
EXTENDS Naturals, FiniteSets, Sequences

CONSTANTS
  Page,        \* pages by their path, which is also the id they should declare
  Proc,        \* processes and server tasks that may write at the same time
  Request,     \* those of them whose future is dropped when the client goes away
  NoProc, NoPage,
  MaxRun,      \* bound: pages the writers write
  MaxTrouble,  \* bound: crashes, dropped requests, failed writes and changes by others
  LastDay      \* bound: the day the model stops at

ASSUME WikiIndexAssumption ==
  /\ Request \subseteq Proc /\ NoProc \notin Proc /\ NoPage \notin Page
  /\ MaxRun \in Nat /\ MaxTrouble \in Nat /\ LastDay \in Nat \ {0}

\* A page that parses: the id it declares, and the rest of its index line (title,
\* description and section), told apart by the run that wrote it.
Parsable == [id : Page, text : 0 .. MaxRun]
Absent   == [kind |-> "absent"]
Torn     == [kind |-> "torn"]      \* being written, cut short, or in a format not understood
Content  == Parsable \cup {Absent, Torn}
IndexLine == [target : Page, text : 0 .. MaxRun]
LogLine   == [day : 1 .. LastDay, run : 1 .. MaxRun]

VARIABLES
  disk,       \* the files under wiki/
  index,      \* index.md: its entry lines
  log,        \* log.md: its lines in order, each with the date it stands under
  lock,       \* who holds .index.lock
  job,        \* job[w]: what w is doing
  today, runs, troubles,
  whole,      \* history: writers whose page nobody has touched since they wrote it
  due,        \* history: pages that the rebuild of their own run has listed
  owed,       \* history: a change that no rebuild under way or to come accounts for
  logged,     \* history: runs whose append_log has succeeded
  cut         \* history: a request was dropped between rendering a file and renaming it

files    == <<disk, index, log>>
counters == <<today, runs, troubles>>
history  == <<whole, due, owed, logged, cut>>
vars == <<files, lock, job, counters, history>>

\* fix: it is a lint --fix, fixed: which has written a page before this one.  page, run:
\* what it writes.  todo, seen: its scan, the files not read yet and those read.  newIndex, newLog: what it is about to rename
\* over the old file.  gone: its future was dropped, only a blocking call still runs.
Idle == [at |-> "idle", fix |-> FALSE, fixed |-> FALSE, page |-> NoPage, run |-> 0, gone |-> FALSE,
         todo |-> {}, seen |-> [p \in Page |-> Absent], newIndex |-> {}, newLog |-> <<>>]

Init ==
  /\ disk = [p \in Page |-> Absent] /\ index = {} /\ log = <<>>
  /\ lock = NoProc /\ job = [w \in Proc |-> Idle]
  /\ today = 1 /\ runs = 0 /\ troubles = 0
  /\ whole = {} /\ due = {} /\ owed = FALSE /\ logged = {} /\ cut = FALSE

At(w, place) == job[w].at = place
Stop(w) == job' = [job EXCEPT ![w] = Idle]
MayFail == troubles < MaxTrouble /\ troubles' = troubles + 1

\* Closing the descriptor releases the lock too.
Release(w) == lock' = IF lock = w THEN NoProc ELSE lock

-----------------------------------------------------------------------------
(* Pages *)

Put(p, content) == disk' = [disk EXCEPT ![p] = content]

Touch(p, by) == whole' = whole \ (by \cup {v \in Proc : job[v].page = p})

\* tokio::fs::write has truncated or created the page.
Begin(w, p, fix) ==
  /\ At(w, "idle") /\ runs < MaxRun
  /\ runs' = runs + 1
  /\ job' = [job EXCEPT ![w] = [Idle EXCEPT !.at = "write", !.fix = fix, !.page = p, !.run = runs + 1]]
  /\ Put(p, Torn) /\ Touch(p, {w})
  /\ UNCHANGED <<index, log, lock, today, troubles, due, owed, logged, cut>>

\* A compile, a learning job or an accept writes a page, new or not.
BeginEntry(w, p) == Begin(w, p, FALSE)

\* auto_fix and okf_autofix_type write back an entry of the store: a page that was
\* there when the process opened it.
BeginFix(w, p) == disk[p] # Absent /\ Begin(w, p, TRUE)

\* The next reported issue is fixed before the index is rebuilt once for all.
FixNext(w, p) ==
  /\ At(w, "index") /\ job[w].fix /\ p # job[w].page /\ disk[p] # Absent
  /\ runs < MaxRun /\ runs' = runs + 1
  /\ job' = [job EXCEPT ![w].at = "write", ![w].fixed = TRUE, ![w].page = p, ![w].run = runs + 1]
  /\ Put(p, Torn) /\ Touch(p, {w})
  /\ UNCHANGED <<index, log, lock, today, troubles, due, owed, logged, cut>>

\* A page removed since it was truncated stays removed.  A dropped request's write
\* is completed all the same, and nothing follows it.
FillPage(w) ==
  /\ At(w, "write")
  /\ IF disk[job[w].page] = Absent
     THEN UNCHANGED <<disk, whole>>
     ELSE /\ Put(job[w].page, [id |-> job[w].page, text |-> job[w].run])
          /\ whole' = IF job[w].gone THEN whole ELSE whole \cup {w}
  /\ IF job[w].gone THEN Stop(w) ELSE job' = [job EXCEPT ![w].at = "index"]
  /\ owed' = (owed \/ job[w].gone)
  /\ UNCHANGED <<index, log, lock, counters, due, logged, cut>>

\* The disk is full and the page stays cut short.  An ingest ends here; a lint --fix goes
\* on to its next issue, and to the index if it has fixed a page.
WriteFails(w) ==
  /\ At(w, "write") /\ MayFail
  /\ IF job[w].fixed /\ ~job[w].gone THEN job' = [job EXCEPT ![w].at = "index"] ELSE Stop(w)
  /\ owed' = TRUE /\ whole' = whole \ {w}
  /\ UNCHANGED <<files, lock, today, runs, due, logged, cut>>

\* An editor or another binary writes or removes a page.
OutsideWrites(p, content) ==
  /\ MayFail
  /\ disk[p] # content /\ Put(p, content)
  /\ owed' = TRUE /\ Touch(p, {})
  /\ due' = IF content = Torn \/ content = [id |-> p, text |-> 0] THEN due ELSE due \ {p}
  /\ UNCHANGED <<index, log, lock, job, today, runs, logged, cut>>

-----------------------------------------------------------------------------
(* index.md *)

\* Mutant: the scan is taken before the lock, as the store's own entries would be.
LockIndexUnlocked(w) ==
  /\ At(w, "index")
  /\ job' = [job EXCEPT ![w].at = "scan", ![w].todo = Page]
  /\ owed' = FALSE
  /\ UNCHANGED <<files, lock, counters, whole, due, logged, cut>>

\* lock_index, then scan_wiki_tree begins.
LockIndex(w) ==
  /\ At(w, "index") /\ lock = NoProc
  /\ lock' = w
  /\ job' = [job EXCEPT ![w].at = "scan", ![w].todo = Page]
  /\ owed' = FALSE
  /\ UNCHANGED <<files, counters, whole, due, logged, cut>>

ReadPage(w, p) ==
  /\ At(w, "scan") /\ p \in job[w].todo
  /\ job' = [job EXCEPT ![w].todo = @ \ {p}, ![w].seen[p] = disk[p]]
  /\ UNCHANGED <<files, lock, counters, history>>

Line(content) == [target |-> content.id, text |-> content.text]
Fresh(tree)   == {Line(tree[p]) : p \in {q \in Page : tree[q] \in Parsable}}
Failed(tree)  == {p \in Page : tree[p] = Torn}

\* One line for each target: of two pages that declare one id the one read last, of
\* two old lines the first in the file.
OnePerTarget(lines) ==
  {some \in SUBSET lines :
     \A l \in lines : \E k \in some : k.target = l.target /\ \A m \in some : m.target = l.target => m = k}

\* Mutant: lines of pages that do not parse are dropped with those of deleted pages.
RenderIndexFresh(tree, old) == OnePerTarget(Fresh(tree))

\* render_index_preserving: pages that parse get a line made anew; an old line is
\* carried over if the page at its target is on disk and does not parse.
RenderIndex(tree, old) ==
  {fresh \cup carried : fresh \in OnePerTarget(Fresh(tree)),
                        carried \in OnePerTarget({l \in old : l.target \in Failed(tree)})}

\* The old index is read after the scan.
PrepareIndex(w) ==
  /\ At(w, "scan") /\ job[w].todo = {}
  /\ \E lines \in RenderIndex(job[w].seen, index) :
       job' = [job EXCEPT ![w].at = "replaceIndex", ![w].seen = Idle.seen, ![w].newIndex = lines]
  /\ UNCHANGED <<files, lock, counters, history>>

\* write_atomic renames, release_lock follows.
ReplaceIndex(w) ==
  /\ At(w, "replaceIndex")
  /\ index' = job[w].newIndex /\ Release(w)
  /\ due' = IF w \in whole THEN due \cup {job[w].page} ELSE due
  /\ whole' = whole \ {w}
  /\ IF job[w].gone \/ job[w].fix
     THEN Stop(w)
     ELSE job' = [job EXCEPT ![w].at = "log", ![w].newIndex = {}]
  /\ UNCHANGED <<disk, log, counters, owed, logged, cut>>

GiveUpIndex(w) ==
  /\ job[w].at \in {"index", "scan", "replaceIndex"} /\ ~job[w].gone /\ MayFail
  /\ owed' = TRUE /\ whole' = whole \ {w}
  /\ \/ Stop(w)
     \/ ~job[w].fix /\ job' = [job EXCEPT ![w] = [Idle EXCEPT !.at = "log", !.run = job[w].run]]
  /\ UNCHANGED <<files, today, runs, due, logged, cut>>

\* Mutant: an error returns before release_lock, in a process that lives on.
RebuildFailsHeld(w) == GiveUpIndex(w) /\ UNCHANGED lock

\* The lock file, a directory or the temporary file cannot be opened or written.
\* A compile goes on to the log; a learning job, accept and lint stop.
RebuildFails(w) == GiveUpIndex(w) /\ Release(w)

-----------------------------------------------------------------------------
(* log.md *)

\* Mutant: append_log goes without the lock.
LockLogNot(w) ==
  /\ At(w, "log")
  /\ job' = [job EXCEPT ![w].at = "readLog"]
  /\ UNCHANGED <<files, lock, counters, history>>

LockLog(w) ==
  /\ At(w, "log") /\ lock = NoProc
  /\ lock' = w
  /\ job' = [job EXCEPT ![w].at = "readLog"]
  /\ UNCHANGED <<files, counters, history>>

\* append_log_line: first under its date's heading, or under a new heading ahead of
\* the first one.
AppendLogLine(lines, day, n) ==
  LET k == IF \E i \in DOMAIN lines : lines[i].day = day
           THEN CHOOSE i \in DOMAIN lines :
                  lines[i].day = day /\ \A j \in DOMAIN lines : lines[j].day = day => i <= j
           ELSE 1
  IN SubSeq(lines, 1, k - 1) \o <<[day |-> day, run |-> n]>> \o SubSeq(lines, k, Len(lines))

\* The log is read, then the date is taken.
PrepareLog(w) ==
  /\ At(w, "readLog")
  /\ job' = [job EXCEPT ![w].at = "replaceLog", ![w].newLog = AppendLogLine(log, today, job[w].run)]
  /\ UNCHANGED <<files, lock, counters, history>>

ReplaceLog(w) ==
  /\ At(w, "replaceLog")
  /\ log' = job[w].newLog /\ Release(w)
  /\ logged' = IF job[w].gone THEN logged ELSE logged \cup {job[w].run}
  /\ Stop(w)
  /\ UNCHANGED <<disk, index, counters, whole, due, owed, cut>>

LogFails(w) ==
  /\ job[w].at \in {"log", "readLog", "replaceLog"} /\ ~job[w].gone /\ MayFail
  /\ Release(w) /\ Stop(w)
  /\ UNCHANGED <<files, today, runs, history>>

-----------------------------------------------------------------------------
(* Crashes, dropped requests, the clock *)

Crash(w) ==
  /\ ~At(w, "idle") /\ MayFail
  /\ Release(w) /\ Stop(w) /\ owed' = TRUE /\ whole' = whole \ {w}
  /\ UNCHANGED <<files, today, runs, due, logged, cut>>

Blocking == {"write", "replaceIndex", "replaceLog"}

\* The client of a request goes away and the handler's future is dropped, with the
\* lock it holds; what it had handed to spawn_blocking runs on.
Drop(w) ==
  /\ w \in Request /\ ~At(w, "idle") /\ ~job[w].gone /\ MayFail
  /\ Release(w) /\ owed' = TRUE /\ whole' = whole \ {w}
  /\ IF job[w].at \in Blocking THEN job' = [job EXCEPT ![w].gone = TRUE] ELSE Stop(w)
  /\ cut' = (cut \/ job[w].at \in {"replaceIndex", "replaceLog"})
  /\ UNCHANGED <<files, today, runs, due, logged>>

Midnight ==
  /\ today < LastDay /\ today' = today + 1
  /\ UNCHANGED <<files, lock, job, runs, troubles, history>>

Step(w) ==
  \/ FillPage(w) \/ LockIndex(w) \/ (\E p \in Page : ReadPage(w, p)) \/ PrepareIndex(w)
  \/ ReplaceIndex(w) \/ LockLog(w) \/ PrepareLog(w) \/ ReplaceLog(w)

Next ==
  \/ \E w \in Proc :
       \/ \E p \in Page : BeginEntry(w, p) \/ BeginFix(w, p) \/ FixNext(w, p)
       \/ Step(w)
       \/ WriteFails(w) \/ RebuildFails(w) \/ LogFails(w) \/ Crash(w) \/ Drop(w)
  \/ \E p \in Page, content \in {Absent, Torn} \cup [id : Page, text : {0}] : OutsideWrites(p, content)
  \/ Midnight

Spec == Init /\ [][Next]_vars

\* A process that is not killed goes on to its next step, and one that waits for a
\* lock that stays free gets it.
FairSpec == Spec /\ \A w \in Proc : WF_vars(Step(w))

-----------------------------------------------------------------------------
(* Properties *)

Place == {"idle", "write", "index", "scan", "replaceIndex", "log", "readLog", "replaceLog"}
Job == [at : Place, fix : BOOLEAN, fixed : BOOLEAN, page : Page \cup {NoPage}, run : 0 .. MaxRun, gone : BOOLEAN,
        todo : SUBSET Page, seen : [Page -> Content], newIndex : SUBSET IndexLine, newLog : Seq(LogLine)]

TypeOK ==
  /\ disk \in [Page -> Content] /\ index \subseteq IndexLine /\ log \in Seq(LogLine)
  /\ lock \in Proc \cup {NoProc} /\ job \in [Proc -> Job]
  /\ today \in 1 .. LastDay /\ runs \in 0 .. MaxRun /\ troubles \in Nat
  /\ whole \subseteq Proc /\ due \subseteq Page /\ owed \in BOOLEAN
  /\ logged \subseteq 1 .. MaxRun /\ cut \in BOOLEAN

\* Once a run's rebuild has listed its page, every later index lists it for as long
\* as the file is there, whoever rebuilds, from whatever scan, and also while the
\* page is being rewritten or does not parse (render_index_preserving).
KeepsListed == cut \/ \A p \in due : \E l \in index : l.target = p

\* When nobody is writing, and every change was followed by a rebuild, the index
\* has a current line for each id that a page declares and no line of a page that
\* is gone (rebuild_index_locked scans under the lock).
IndexFinal ==
  ~cut /\ ~owed /\ (\A w \in Proc : At(w, "idle")) =>
    /\ \A p \in Page : disk[p] \in Parsable =>
         \E l \in index : l.target = disk[p].id /\ l \in Fresh(disk)
    /\ \A l \in index : l \in Fresh(disk) \/ disk[l.target] = Torn

\* A run whose append_log has succeeded has exactly one line in the log, whatever
\* other processes append, fail at or die in (append_log).
LogKeepsLines == cut \/ \A n \in logged : \E i \in DOMAIN log : \A j \in DOMAIN log : log[j].run = n <=> j = i

\* A run that wants the lock is done some day: whatever fails, crashes or is
\* dropped, the lock is let go (lock_index waits without a limit).
LockComesRound == \A w \in Proc : (job[w].at \in {"index", "log"}) ~> At(w, "idle")
=============================================================================
