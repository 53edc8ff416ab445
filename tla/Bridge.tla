-------------------------------- MODULE Bridge --------------------------------
(***************************************************************************)
(* The pk-cherry server around its store: the watcher of wiki/ and the     *)
(* task that reconciles and republishes at its events, the readiness that  *)
(* /ready reports (pk-mcp/src/server.rs), and the inbox, from a file       *)
(* dropped into raw/ over two bounded channels to the compile that turns   *)
(* it into a page, which the wiki watcher then sees in its turn.  A scan   *)
(* and an upsert are one step each here; KnowledgeStore takes them apart.  *)
(***************************************************************************)
EXTENDS Naturals, FiniteSets, Sequences

CONSTANTS
  Page,       \* files under wiki/
  File,       \* files dropped into raw/
  WikiRoom,   \* capacity of the channel of wiki events (64 in the code)
  NoteRoom,   \* capacity of the channel of raw paths (64)
  DocRoom,    \* capacity of the channel of raw documents (32)
  MaxEvent,   \* bound: versions of pages, failures, lost notifications, watcher errors
  MaxDrop     \* bound: versions of raw files

ASSUME BridgeAssumption ==
  /\ IsFiniteSet(Page)
  /\ WikiRoom \in Nat \ {0} /\ NoteRoom \in Nat \ {0} /\ DocRoom \in Nat \ {0}
  /\ MaxEvent \in Nat /\ MaxDrop \in Nat

VARIABLES
  disk,       \* disk[p]: the version of p's bytes, 0 when there is no such file
  torn,       \* pages on disk that do not parse
  mem,        \* StoreInner.entries
  source,     \* StoreInner.source_hashes
  published,  \* the pages of the last prompt snapshot
  watcher,    \* the thread of spawn_wiki_watcher
  raised,     \* notifications its callback has not passed on
  wikiEvents, \* the channel of WikiWatchEvents
  task,       \* the reconciling task: its place, and the report it will publish
  readiness,  \* ReadinessSnapshot: index_fresh and watcher_status
  raw,        \* raw[f]: the version of a raw file and whether it is complete
  hints,      \* notifications about raw files not passed on
  notes,      \* the channel of raw paths
  reader,     \* the inbox reader: {} or the document it waits to send
  docs,       \* the channel of raw documents
  compiles,   \* compiles under way
  handed,     \* history: handed[f], the document of f that a compile was last started for
  forgotten,  \* history: a change was announced to nobody, or a failure overwritten
  events, drops

store    == <<disk, torn, mem, source, published>>
watch    == <<watcher, raised, wikiEvents>>
serving  == <<task, readiness>>
inbox    == <<raw, hints, notes, reader, docs, compiles, handed, drops>>
bridgeVars == <<store, watch, serving, inbox, forgotten, events>>

Present(tree) == {p \in Page : tree[p] # 0}
Report(indexed, onDisk, failures) == [indexed |-> indexed, onDisk |-> onDisk, failures |-> failures]
NoReport == Report(0, 0, 0)
Waiting  == [at |-> "recv", report |-> NoReport]
NoFile   == [version |-> 0, whole |-> FALSE]

\* index_fresh of update_store: the counts add up.
Fresh(report) == report.indexed + report.failures = report.onDisk

\* open has scanned wiki/ and published, unless a page did not parse; the readiness
\* has its report, and the threads are about to start.
BridgeInit ==
  /\ disk \in [Page -> {0, 1}] /\ torn \in SUBSET Present(disk)
  /\ mem = [p \in Page |-> IF p \in torn THEN 0 ELSE disk[p]] /\ source = disk
  /\ published = IF torn = {} THEN mem ELSE [p \in Page |-> 0]
  /\ watcher = "starting" /\ raised = <<>> /\ wikiEvents = <<>>
  /\ task = Waiting
  /\ readiness = [fresh |-> TRUE, watcher |-> "initializing"]
  /\ raw = [f \in File |-> NoFile] /\ hints = <<>> /\ notes = <<>>
  /\ reader = {} /\ docs = <<>> /\ compiles = {} /\ handed = [f \in File |-> NoFile]
  /\ forgotten = FALSE /\ events = 1 /\ drops = 0

Ready == readiness.fresh /\ readiness.watcher = "active"
SetWatcher(status) == readiness' = [readiness EXCEPT !.watcher = status]
UpdateStore(report) == readiness' = [readiness EXCEPT !.fresh = Fresh(report)]
Event == events < MaxEvent /\ events' = events + 1

-----------------------------------------------------------------------------
(* The watcher of wiki/ *)

\* A change under wiki/ is notified once watch has been called.
Notify ==
  IF watcher \in {"watching", "active"}
  THEN raised' = Append(raised, "changed") /\ UNCHANGED forgotten
  ELSE forgotten' = TRUE /\ UNCHANGED raised

\* Another process writes a page, whole or not, or removes it.
Outside(p, version, parses) ==
  /\ Event
  /\ version # disk[p]
  /\ disk' = [disk EXCEPT ![p] = version]
  /\ torn' = IF parses \/ version = 0 THEN torn \ {p} ELSE torn \cup {p}
  /\ Notify
  /\ UNCHANGED <<mem, source, published, watcher, wikiEvents, serving, inbox>>

StartWatching ==
  /\ watcher = "starting" /\ watcher' = "watching"
  /\ UNCHANGED <<store, raised, wikiEvents, serving, inbox, forgotten, events>>

\* The watcher cannot be made, or watch fails; the thread ends.
WatchFails ==
  /\ watcher = "starting" /\ Event /\ Len(wikiEvents) < WikiRoom
  /\ watcher' = "dead" /\ wikiEvents' = Append(wikiEvents, "failed")
  /\ UNCHANGED <<store, raised, serving, inbox, forgotten>>

\* Started is sent by the thread, changes by the callback: either may come first.
SayStarted ==
  /\ watcher = "watching" /\ Len(wikiEvents) < WikiRoom
  /\ watcher' = "active" /\ wikiEvents' = Append(wikiEvents, "started")
  /\ UNCHANGED <<store, raised, serving, inbox, forgotten, events>>

\* The callback passes a notification on; blocking_send waits for room.
PassOn ==
  /\ raised # <<>> /\ Len(wikiEvents) < WikiRoom
  /\ wikiEvents' = Append(wikiEvents, Head(raised)) /\ raised' = Tail(raised)
  /\ UNCHANGED <<store, watcher, serving, inbox, forgotten, events>>

WatcherErrs ==
  /\ watcher \in {"watching", "active"} /\ Event
  /\ raised' = Append(raised, "failed")
  /\ UNCHANGED <<store, watcher, wikiEvents, serving, inbox, forgotten>>

\* The kernel's queue is full: notify says so in an event of another kind, which the
\* callback passes over.
Overflow ==
  /\ raised # <<>> /\ Event
  /\ raised' = <<>> /\ forgotten' = TRUE
  /\ UNCHANGED <<store, watcher, wikiEvents, serving, inbox>>

-----------------------------------------------------------------------------
(* The reconciling task *)

TaskAt(place) == task.at = place

\* Started comes once.  If a change came before it, and failed to be taken in, Started
\* makes the watcher active all the same.
Receive ==
  /\ TaskAt("recv") /\ wikiEvents # <<>>
  /\ wikiEvents' = Tail(wikiEvents)
  /\ CASE Head(wikiEvents) = "started" -> SetWatcher("active") /\ UNCHANGED task
       [] Head(wikiEvents) = "failed"  -> SetWatcher("failed") /\ UNCHANGED task
       [] Head(wikiEvents) = "changed" -> task' = [task EXCEPT !.at = "debounce"] /\ UNCHANGED readiness
  /\ forgotten' = (forgotten \/ (Head(wikiEvents) = "started" /\ readiness.watcher # "initializing"))
  /\ UNCHANGED <<store, watcher, raised, inbox, events>>

\* After 250 ms the Changed events that wait are taken out of the channel, and with
\* them the first event of another kind.
Drain ==
  /\ TaskAt("debounce")
  /\ wikiEvents' = LET others == {i \in DOMAIN wikiEvents : wikiEvents[i] # "changed"}
             IN IF others = {} THEN <<>>
                ELSE LET k == CHOOSE i \in others : \A j \in others : i <= j
                     IN SubSeq(wikiEvents, k + 1, Len(wikiEvents))
  /\ task' = [task EXCEPT !.at = "scan"]
  /\ UNCHANGED <<store, watcher, raised, readiness, inbox, forgotten, events>>

\* reconcile_from_disk when every page parses: memory is replaced if the files are
\* not those of the last scan.
Reconcile ==
  /\ TaskAt("scan") /\ torn = {}
  /\ mem' = IF disk = source THEN mem ELSE disk
  /\ source' = disk
  /\ task' = [at |-> "publish", report |-> Report(Cardinality(Present(mem')), Cardinality(Present(disk)), 0)]
  /\ UNCHANGED <<disk, torn, published, watch, readiness, inbox, forgotten, events>>

\* Pages that do not parse: memory stays, and its count is reported beside theirs.
ReconcileTorn ==
  /\ TaskAt("scan") /\ torn # {}
  /\ UpdateStore(Report(Cardinality(Present(mem)), Cardinality(Present(disk)), Cardinality(torn)))
  /\ task' = Waiting
  /\ UNCHANGED <<store, watch, inbox, forgotten, events>>

ReconcileFails ==
  /\ TaskAt("scan") /\ Event
  /\ SetWatcher("reconcile_failed") /\ task' = Waiting
  /\ UNCHANGED <<store, watch, inbox, forgotten>>

\* Mutant: the events that came meanwhile are drained once the snapshot is out.
PublishDrains ==
  /\ TaskAt("publish")
  /\ published' = mem /\ UpdateStore(task.report)
  /\ task' = Waiting /\ wikiEvents' = <<>>
  /\ UNCHANGED <<disk, torn, mem, source, watcher, raised, inbox, forgotten, events>>

\* commit_prompt_snapshot of what memory holds by now; then the report counts.
PublishSnapshot ==
  /\ TaskAt("publish")
  /\ published' = mem /\ UpdateStore(task.report)
  /\ task' = Waiting
  /\ UNCHANGED <<disk, torn, mem, source, watch, inbox, forgotten, events>>

\* Mutant: a failed publication is logged and the report counts all the same.
PublishFailsQuietly ==
  /\ TaskAt("publish") /\ Event
  /\ UpdateStore(task.report) /\ task' = Waiting
  /\ UNCHANGED <<store, watch, inbox, forgotten>>

PublishFails ==
  /\ TaskAt("publish") /\ Event
  /\ SetWatcher("snapshot_publish_failed") /\ task' = Waiting
  /\ UNCHANGED <<store, watch, inbox, forgotten>>

-----------------------------------------------------------------------------
(* The inbox *)

\* A file is put into raw/: it is created, and filled later.
DropFile(f) ==
  /\ drops < MaxDrop /\ drops' = drops + 1
  /\ raw' = [raw EXCEPT ![f] = [version |-> drops + 1, whole |-> FALSE]]
  /\ hints' = Append(hints, f)
  /\ UNCHANGED <<store, watch, serving, notes, reader, docs, compiles, handed, forgotten, events>>

\* Mutant: a modification is not passed on, a creation is.
FillFileSilently(f) ==
  /\ raw[f].version # 0 /\ ~raw[f].whole
  /\ raw' = [raw EXCEPT ![f].whole = TRUE]
  /\ UNCHANGED <<store, watch, serving, hints, notes, reader, docs, compiles, handed, drops, forgotten, events>>

FillFile(f) ==
  /\ raw[f].version # 0 /\ ~raw[f].whole
  /\ raw' = [raw EXCEPT ![f].whole = TRUE]
  /\ hints' = Append(hints, f)
  /\ UNCHANGED <<store, watch, serving, notes, reader, docs, compiles, handed, drops, forgotten, events>>

\* The callback sends the path; blocking_send waits for room.
PassPath ==
  /\ hints # <<>> /\ Len(notes) < NoteRoom
  /\ notes' = Append(notes, Head(hints)) /\ hints' = Tail(hints)
  /\ UNCHANGED <<store, watch, serving, raw, reader, docs, compiles, handed, drops, forgotten, events>>

Doc(f) == [file |-> f, content |-> raw[f]]

\* The reader takes a path and reads the file as it is by now.  One that is not
\* complete may not be UTF-8 yet: then it is passed over.
ReadRaw ==
  /\ reader = {} /\ notes # <<>>
  /\ notes' = Tail(notes)
  /\ \/ reader' = {Doc(Head(notes))}
     \/ ~raw[Head(notes)].whole /\ UNCHANGED reader
  /\ UNCHANGED <<store, watch, serving, raw, hints, docs, compiles, handed, drops, forgotten, events>>

SendDoc ==
  /\ reader # {} /\ Len(docs) < DocRoom
  /\ \E d \in reader : docs' = Append(docs, d)
  /\ reader' = {}
  /\ UNCHANGED <<store, watch, serving, raw, hints, notes, compiles, handed, drops, forgotten, events>>

\* run_inbox_loop starts a compile for each document and waits for none.
StartCompile ==
  /\ docs # <<>> /\ docs' = Tail(docs)
  /\ compiles' = compiles \cup {Head(docs)} /\ handed' = [handed EXCEPT ![Head(docs).file] = Head(docs).content]
  /\ UNCHANGED <<store, watch, serving, raw, hints, notes, reader, drops, forgotten, events>>

\* compile writes the page the model named (or a duplicate's).  The writes of index.md
\* and log.md are announced like the page's own.
Compile(d, p) ==
  /\ d \in compiles /\ Event
  /\ mem' = [mem EXCEPT ![p] = events + 1] /\ disk' = [disk EXCEPT ![p] = events + 1]
  /\ torn' = torn \ {p}
  /\ compiles' = compiles \ {d} /\ Notify
  /\ UNCHANGED <<source, published, watcher, wikiEvents, serving, raw, hints, notes, reader, docs, handed, drops>>

\* The model fails, or answers with what is no entry.
CompileFails(d) ==
  /\ d \in compiles /\ compiles' = compiles \ {d}
  /\ UNCHANGED <<store, watch, serving, raw, hints, notes, reader, docs, handed, drops, forgotten, events>>

-----------------------------------------------------------------------------
Wiki  == StartWatching \/ SayStarted \/ PassOn
Serve == Receive \/ Drain \/ Reconcile \/ ReconcileTorn \/ PublishSnapshot
Inbox == PassPath \/ ReadRaw \/ SendDoc \/ StartCompile
EndCompile(d) == (\E p \in Page : Compile(d, p)) \/ CompileFails(d)

BridgeNext ==
  \/ \E p \in Page, version \in {0, events + 1}, parses \in BOOLEAN : Outside(p, version, parses)
  \/ Wiki \/ WatchFails \/ WatcherErrs \/ Overflow
  \/ Serve \/ ReconcileFails \/ PublishFails
  \/ \E f \in File : DropFile(f) \/ FillFile(f)
  \/ Inbox \/ \E d \in compiles : EndCompile(d)

BridgeSpec == BridgeInit /\ [][BridgeNext]_bridgeVars

\* The runtime polls a task that can go on, and threads run.  A compile ends, for the
\* client has a time limit; nobody has to finish a raw file.
FairBridgeSpec ==
  /\ BridgeSpec
  /\ WF_bridgeVars(StartWatching) /\ WF_bridgeVars(SayStarted) /\ WF_bridgeVars(PassOn)
  /\ WF_bridgeVars(Serve)
  /\ WF_bridgeVars(PassPath) /\ WF_bridgeVars(ReadRaw) /\ WF_bridgeVars(SendDoc)
  /\ WF_bridgeVars(StartCompile)

-----------------------------------------------------------------------------
(* Properties *)

AtRest == raised = <<>> /\ wikiEvents = <<>> /\ TaskAt("recv")

\* When the server says ready, nothing waits to be seen, every change was announced
\* and every page parses, then what it serves and what pk context reads are the pages
\* on disk: no failure on the way is forgotten (main.rs, update_store, set_watcher).
ReadyServesDisk == Ready /\ AtRest /\ ~forgotten /\ torn = {} => mem = disk /\ published = disk

\* After the last announced change, the store and the snapshot catch up with the
\* disk, unless a page does not parse or the readiness shows that something is wrong:
\* draining, full channels and changes by the server itself hold nothing up.
CatchesUp ==
  <>[](\/ forgotten \/ torn # {}
       \/ readiness.watcher \in {"failed", "reconcile_failed", "snapshot_publish_failed"}
       \/ ~readiness.fresh
       \/ mem = disk /\ published = disk)

\* The last compile started for a file dropped into raw/ is of its last content,
\* however many events came before and however full the channels were
\* (InboxWatcher::spawn, run_inbox_loop).
InboxDelivers == \A f \in File : <>[](raw[f].whole => handed[f] = raw[f])
=============================================================================
