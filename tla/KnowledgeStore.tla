---------------------------- MODULE KnowledgeStore ----------------------------
(***************************************************************************)
(* The Markdown store of the pk-cherry server (pk-store/src/store.rs), the *)
(* compiles that write to it (compile_with of pk-librarian, called by      *)
(* knowledge_ingest and by the inbox loop, each call its own task) and the *)
(* loop of pk-cherry that reconciles it with wiki/ when the watcher sees a *)
(* change there.  An upsert changes memory under a lock and the file after *)
(* it; a scan reads the files one by one without the lock.  Other          *)
(* processes (worker, pk, an editor) write and remove pages as they like.  *)
(***************************************************************************)
EXTENDS Naturals, FiniteSets

CONSTANTS
  Id,          \* article ids
  Doc,         \* raw contents, up to normalized_content_hash
  Task,        \* compiles that may run at the same time
  NoId, NoDoc,
  MaxIngest,   \* bound: compiles started
  MaxOutside,  \* bound: writes and removals by other processes
  MaxFault,    \* bound: crashes, and file writes that fail
  MaxEvents    \* bound: all of these together

ASSUME KnowledgeStoreAssumption ==
  /\ NoId \notin Id /\ NoDoc \notin Doc
  /\ MaxIngest \in Nat /\ MaxOutside \in Nat /\ MaxFault \in Nat /\ MaxEvents \in Nat

\* A page: the content hash in its frontmatter, its revision, and a stamp that
\* tells its bytes from those of every other page ever made.
Page    == [kind : {"page"}, doc : Doc \cup {NoDoc}, rev : Nat, stamp : Nat]
Absent  == [kind |-> "absent"]
Torn    == [kind |-> "torn"]
OnDisk  == Page \cup {Absent, Torn}
Indexed == Page \cup {Absent}

VARIABLES
  disk,       \* disk[i]: the file of i under wiki/
  mem,        \* StoreInner.entries
  hashes,     \* StoreInner.content_hash_index
  source,     \* StoreInner.source_hashes: the files of the scan last swapped in
  published,  \* the pages of the server's last prompt snapshot
  loop,       \* the server: its place, and the scan under way
  dirty,      \* a Changed event waits in the watcher's channel
  task,       \* the compiles
  outside,    \* the page another process is in the middle of writing: {} or {<<i, page>>}
  missed,     \* history: a change no scan has seen and no event announced
  failed,     \* history: ids of entries whose file this server failed to write
  foreign,    \* history: another process has written since the last complete scan began
  raced,      \* history: a compile overlapped a compile or a scan, ran while foreign, or
              \* could not write its file
  stamps, ingests, outsides, faults

history  == <<failed, foreign, raced>>
counters == <<ingests, outsides, faults>>
vars == <<disk, mem, hashes, source, published, loop, dirty, task, outside, missed, history,
          stamps, counters>>

Idle   == [at |-> "idle", doc |-> NoDoc, id |-> NoId, page |-> Absent]
Down   == [at |-> "down", todo |-> {}, seen |-> [i \in Id |-> Absent]]
NoPage == [i \in Id |-> Absent]

Init ==
  /\ disk = NoPage /\ mem = NoPage /\ source = NoPage /\ published = NoPage
  /\ hashes = [d \in Doc |-> NoId]
  /\ loop = Down /\ dirty = FALSE
  /\ task = [t \in Task |-> Idle]
  /\ outside = {}
  /\ missed = FALSE /\ failed = {} /\ foreign = FALSE /\ raced = FALSE
  /\ stamps = 0 /\ ingests = 0 /\ outsides = 0 /\ faults = 0

LoopAt(place) == loop.at = place
TaskAt(t, place) == task[t].at = place
Scanning == loop.at \in {"open", "scan"}
Serving  == loop.at \notin {"down", "open"}
Watching == loop.at \notin {"down", "open", "unwatched"}
Compiling == {t \in Task : ~TaskAt(t, "idle")}

MayIngest  == ingests < MaxIngest /\ ingests + outsides + faults < MaxEvents
MayIntrude == outsides < MaxOutside /\ ingests + outsides + faults < MaxEvents
MayFail    == faults < MaxFault /\ ingests + outsides + faults < MaxEvents

-----------------------------------------------------------------------------
(* Files.  A change is announced when the watcher is there to see it. *)

Announce ==
  /\ dirty' = (dirty \/ Watching)
  /\ missed' = (missed \/ loop.at \in {"open", "unwatched"})

Put(i, content) == disk' = [disk EXCEPT ![i] = content] /\ Announce

\* tokio::fs::write truncates the file, then fills it.  A file removed in between
\* stays removed; one that another writer has filled in between may keep the tail
\* of the longer content.
FillFile(i, p) ==
  \/ disk[i] = Absent /\ UNCHANGED <<disk, dirty, missed, stamps>>
  \/ disk[i] # Absent /\ Put(i, p) /\ UNCHANGED stamps
  \/ disk[i] \notin {Absent, Torn} /\ Put(i, [p EXCEPT !.stamp = stamps]) /\ stamps' = stamps + 1

-----------------------------------------------------------------------------
(* Scanning: open and reconcile_from_disk *)

StartScan(place) ==
  /\ loop' = [at |-> place, todo |-> Id, seen |-> NoPage]
  /\ missed' = FALSE
  /\ foreign' = (foreign /\ (outside # {} \/ \E i \in Id : disk[i] = Torn))
  /\ raced' = (raced \/ Compiling # {})

Open ==
  /\ LoopAt("down")
  /\ StartScan("open")
  /\ UNCHANGED <<disk, mem, hashes, source, published, dirty, task, outside, failed, stamps, counters>>

\* A Changed event is received; after the debounce the others waiting are drained
\* and the scan begins.
Reconcile ==
  /\ LoopAt("wait") /\ dirty
  /\ dirty' = FALSE
  /\ StartScan("scan")
  /\ UNCHANGED <<disk, mem, hashes, source, published, task, outside, failed, stamps, counters>>

ReadFile(i) ==
  /\ Scanning /\ i \in loop.todo
  /\ loop' = [loop EXCEPT !.todo = @ \ {i}, !.seen[i] = disk[i]]
  /\ UNCHANGED <<disk, mem, hashes, source, published, dirty, task, outside, missed, history, stamps, counters>>

Parsed(files)   == [i \in Id |-> IF files[i] = Torn THEN Absent ELSE files[i]]
Failures(files) == {i \in Id : files[i] = Torn}

\* A hash found on several pages maps to the one read last.
IsHashIndex(h, entries) ==
  \A d \in Doc :
    LET pages == {i \in Id : entries[i] # Absent /\ entries[i].doc = d}
    IN IF pages = {} THEN h[d] = NoId ELSE h[d] \in pages

\* The whole index is replaced at once.
SwapIn(entries) ==
  /\ mem' = entries /\ source' = loop.seen
  /\ hashes' \in {h \in [Doc -> Id \cup {NoId}] : IsHashIndex(h, entries)}

\* open skips what it cannot parse, and publishes only if there is no such page.
Opened ==
  /\ LoopAt("open") /\ loop.todo = {}
  /\ SwapIn(Parsed(loop.seen))
  /\ published' = IF Failures(loop.seen) = {} THEN loop.seen ELSE published
  /\ loop' = [Down EXCEPT !.at = "unwatched"]
  /\ UNCHANGED <<disk, dirty, task, outside, missed, history, stamps, counters>>

\* The watcher's thread has called watch.
StartWatching ==
  /\ LoopAt("unwatched")
  /\ loop' = [loop EXCEPT !.at = "wait"]
  /\ UNCHANGED <<disk, mem, hashes, source, published, dirty, task, outside, missed, history, stamps, counters>>

\* Mutant: the events that came during the scan are drained after it.
SwapDrains ==
  /\ LoopAt("scan") /\ loop.todo = {}
  /\ IF Failures(loop.seen) = {} /\ loop.seen # source
     THEN SwapIn(loop.seen)
     ELSE UNCHANGED <<mem, source, hashes>>
  /\ loop' = [Down EXCEPT !.at = IF Failures(loop.seen) = {} THEN "publish" ELSE "wait"]
  /\ dirty' = FALSE
  /\ UNCHANGED <<disk, published, task, outside, missed, history, stamps, counters>>

\* Nothing is swapped in if a page does not parse, or if the files are those of the
\* last scan; in the second case the snapshot is published all the same.
Swap ==
  /\ LoopAt("scan") /\ loop.todo = {}
  /\ IF Failures(loop.seen) = {} /\ loop.seen # source
     THEN SwapIn(loop.seen)
     ELSE UNCHANGED <<mem, source, hashes>>
  /\ loop' = [Down EXCEPT !.at = IF Failures(loop.seen) = {} THEN "publish" ELSE "wait"]
  /\ UNCHANGED <<disk, published, dirty, task, outside, missed, history, stamps, counters>>

\* commit_prompt_snapshot of what memory holds by now (PromptSnapshot).
Publish ==
  /\ LoopAt("publish")
  /\ published' = mem
  /\ loop' = [loop EXCEPT !.at = "wait"]
  /\ UNCHANGED <<disk, mem, hashes, source, dirty, task, outside, missed, history, stamps, counters>>

-----------------------------------------------------------------------------
(* Compiling *)

Goto(t, place) == task' = [task EXCEPT ![t].at = place]

\* related_entries, then the model is asked.  id: the near duplicate among the
\* related entries, as they are now, if there is one.
Ingest(t, d) ==
  /\ Serving /\ TaskAt(t, "idle") /\ MayIngest
  /\ ingests' = ingests + 1
  /\ raced' = (raced \/ Compiling # {} \/ Scanning \/ foreign)
  /\ \E near \in {NoId} \cup {i \in Id : mem[i] # Absent} :
       task' = [task EXCEPT ![t] = [at |-> "ask", doc |-> d, id |-> near, page |-> Absent]]
  /\ UNCHANGED <<disk, mem, hashes, source, published, loop, dirty, outside, missed, failed, foreign, stamps, outsides, faults>>

\* Mutant: the title's own id is used unless a near duplicate was found.
FindDuplicateNever(t) == task[t].id

\* The entry of the same content hash comes before a near duplicate.
FindDuplicate(t) ==
  IF hashes[task[t].doc] # NoId THEN hashes[task[t].doc] ELSE task[t].id

\* The model has answered, with a title (an id) of its own choice.
Identify(t) ==
  /\ TaskAt(t, "ask")
  /\ \E title \in Id :
       task' = [task EXCEPT ![t].at = "upsert",
                            ![t].id = IF FindDuplicate(t) # NoId THEN FindDuplicate(t) ELSE title]
  /\ UNCHANGED <<disk, mem, hashes, source, published, loop, dirty, outside, missed, history, stamps, counters>>

\* The model does not answer, or not with an entry.
ModelFails(t) ==
  /\ TaskAt(t, "ask")
  /\ task' = [task EXCEPT ![t] = Idle]
  /\ UNCHANGED <<disk, mem, hashes, source, published, loop, dirty, outside, missed, history, stamps, counters>>

\* Mutant: the hash of the replaced entry stays in the index.
RehashForgets(i, d) == hashes' = [hashes EXCEPT ![d] = i]

\* The hash of the entry that is replaced goes, the new one comes.
Rehash(i, d) ==
  hashes' = [e \in Doc |-> IF e = d THEN i
                           ELSE IF mem[i] # Absent /\ mem[i].doc = e THEN NoId
                           ELSE hashes[e]]

\* The revision of a fresh entry is 0; that of an entry which replaces another is
\* its own plus one.
NewRevision(i) == IF mem[i] # Absent THEN 1 ELSE 0

Upsert(t) ==
  /\ TaskAt(t, "upsert")
  /\ LET i == task[t].id
         p == [kind |-> "page", doc |-> task[t].doc, rev |-> NewRevision(i), stamp |-> stamps]
     IN /\ Rehash(i, task[t].doc)
        /\ mem' = [mem EXCEPT ![i] = p]
        /\ task' = [task EXCEPT ![t].at = "flush", ![t].page = p]
  /\ stamps' = stamps + 1
  /\ UNCHANGED <<disk, source, published, loop, dirty, outside, missed, history, counters>>

Truncate(t) ==
  /\ TaskAt(t, "flush")
  /\ Put(task[t].id, Torn)
  /\ Goto(t, "fill")
  /\ UNCHANGED <<mem, hashes, source, published, loop, outside, history, stamps, counters>>

Fill(t) ==
  /\ TaskAt(t, "fill")
  /\ FillFile(task[t].id, task[t].page)
  /\ task' = [task EXCEPT ![t] = Idle]
  /\ UNCHANGED <<mem, hashes, source, published, loop, outside, history, counters>>

\* The write fails before or after the file is truncated: the caller gets an error,
\* memory keeps the entry.
FlushFails(t) ==
  /\ task[t].at \in {"flush", "fill"} /\ MayFail
  /\ faults' = faults + 1
  /\ failed' = failed \cup {task[t].id} /\ raced' = TRUE
  /\ task' = [task EXCEPT ![t] = Idle]
  /\ UNCHANGED <<disk, mem, hashes, source, published, loop, dirty, outside, missed, foreign, stamps, ingests, outsides>>

\* The server dies and is started again (Open).
Crash ==
  /\ ~LoopAt("down") /\ MayFail
  /\ faults' = faults + 1
  /\ loop' = Down /\ dirty' = FALSE
  /\ mem' = NoPage /\ source' = NoPage /\ hashes' = [d \in Doc |-> NoId]
  /\ task' = [t \in Task |-> Idle] /\ failed' = {}
  /\ UNCHANGED <<disk, published, outside, missed, foreign, raced, stamps, ingests, outsides>>

-----------------------------------------------------------------------------
(* Other processes (external).  A page they write carries no content hash (a  *)
(* session page of the worker) or the one it had (an edit, pk lint --fix).    *)

OutsideOpens(i) ==
  /\ outside = {} /\ MayIntrude
  /\ outsides' = outsides + 1 /\ stamps' = stamps + 1
  /\ \E d \in {NoDoc} \cup {p.doc : p \in {disk[i]} \ {Absent, Torn}} :
       outside' = {<<i, [kind |-> "page", doc |-> d, rev |-> 1, stamp |-> stamps]>>}
  /\ Put(i, Torn)
  /\ foreign' = TRUE /\ raced' = (raced \/ Compiling # {})
  /\ UNCHANGED <<mem, hashes, source, published, loop, task, failed, ingests, faults>>

OutsideWrites(i) ==
  /\ \E x \in outside : x[1] = i /\ FillFile(i, x[2])
  /\ outside' = {}
  /\ UNCHANGED <<mem, hashes, source, published, loop, task, history, counters>>

\* The other process dies: the page stays torn.
OutsideDies ==
  /\ outside # {} /\ MayFail
  /\ outside' = {} /\ faults' = faults + 1
  /\ UNCHANGED <<disk, mem, hashes, source, published, loop, dirty, task, missed, history, stamps, ingests, outsides>>

OutsideRemoves(i) ==
  /\ outside = {} /\ MayIntrude /\ disk[i] # Absent
  /\ outsides' = outsides + 1
  /\ Put(i, Absent)
  /\ UNCHANGED <<mem, hashes, source, published, loop, task, outside, history, stamps, ingests, faults>>

-----------------------------------------------------------------------------
Next ==
  \/ Open \/ Opened \/ StartWatching \/ Reconcile \/ Swap \/ Publish \/ Crash \/ OutsideDies
  \/ \E i \in Id : ReadFile(i) \/ OutsideOpens(i) \/ OutsideWrites(i) \/ OutsideRemoves(i)
  \/ \E t \in Task :
       \/ Identify(t) \/ ModelFails(t) \/ Upsert(t) \/ Truncate(t) \/ Fill(t) \/ FlushFails(t)
       \/ \E d \in Doc : Ingest(t, d)

Spec == Init /\ [][Next]_vars

-----------------------------------------------------------------------------
(* Properties *)

\* A compile has a content, then an id to write to, then a page to write.
Formed(x) ==
  /\ x.at # "idle" => x.doc # NoDoc
  /\ x.at \in {"upsert", "flush", "fill"} => x.id # NoId
  /\ x.at \in {"flush", "fill"} => x.page # Absent

\* Type invariant.
TypeOK ==
  /\ disk \in [Id -> OnDisk]
  /\ mem \in [Id -> Indexed] /\ published \in [Id -> Indexed] /\ source \in [Id -> OnDisk]
  /\ hashes \in [Doc -> Id \cup {NoId}]
  /\ loop \in [at : {"down", "open", "unwatched", "wait", "scan", "publish"},
               todo : SUBSET Id, seen : [Id -> OnDisk]]
  /\ dirty \in BOOLEAN /\ missed \in BOOLEAN /\ foreign \in BOOLEAN /\ raced \in BOOLEAN
  /\ task \in [Task -> [at : {"idle", "ask", "upsert", "flush", "fill"}, doc : Doc \cup {NoDoc},
                        id : Id \cup {NoId}, page : Indexed]]
  /\ \A t \in Task : Formed(task[t])
  /\ outside \in SUBSET (Id \X Page)
  /\ failed \in SUBSET Id
  /\ stamps \in Nat /\ ingests \in Nat /\ outsides \in Nat /\ faults \in Nat

\* The content-hash index names, for a hash, an entry that carries it: a repeat
\* never merges into a page that is gone or has been given other content.
HashIndexSound ==
  \A d \in Doc : hashes[d] # NoId => mem[hashes[d]] # Absent /\ mem[hashes[d]].doc = d

\* Spec wiki-ingest-deduplication: one page per content, whatever titles the model
\* invents, crashes, rebuilt indexes and near duplicates included, as long as no
\* compile overlaps another compile or a scan, follows an outside write that no
\* complete scan has read yet, or fails to write its file.
OneEntryPerContent ==
  ~raced => \A d \in Doc : Cardinality({i \in Id : disk[i].kind = "page" /\ disk[i].doc = d}) <= 1

\* A page that does not parse, its own or another, never costs the server an entry
\* it serves: an entry goes only because a scan found no file for it.
TornKeepsEntry ==
  [][\A i \in Id :
       Serving /\ Serving' /\ mem[i] # Absent /\ mem'[i] = Absent
         => LoopAt("scan") /\ loop.seen[i] = Absent]_vars

\* Nothing is under way, no event waits, and every page parses.
Quiet ==
  /\ LoopAt("wait") /\ ~dirty /\ Compiling = {} /\ outside = {}
  /\ ~missed /\ \A i \in Id : disk[i] # Torn

\* No wake-up is lost: when all is quiet, memory and the published snapshot hold
\* every page as it is on disk, however writes, scans and upserts interleaved
\* (unless the server was told that its own write of the page failed).
ServesDisk ==
  Quiet => \A i \in Id \ failed : disk[i] # Absent => mem[i] = disk[i] /\ published[i] = disk[i]

=============================================================================
