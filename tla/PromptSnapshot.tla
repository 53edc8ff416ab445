---------------------------- MODULE PromptSnapshot ----------------------------
(***************************************************************************)
(* The committed prompt snapshot of one scope                              *)
(* (pk-store/src/prompt_snapshot.rs) and the processes that commit it: the *)
(* learning worker, pk ingest, pk snapshot, pk candidates accept and       *)
(* pk-cherry.  Each scans the wiki, may add a page, and commits the        *)
(* entries it then knows: a generation file named by the hash of its       *)
(* entries is created unless it is there, and the pointer `current' is     *)
(* replaced.  No lock is held, so commits interleave with one another and  *)
(* with the readers (pk context, pk doctor).                               *)
(***************************************************************************)
EXTENDS Naturals

CONSTANTS
  Committer,  \* processes that commit
  Reader,     \* processes that read
  WikiPage,   \* wiki pages
  MaxRun,     \* bound: commits each process starts
  MaxFail     \* bound: crashes and failed writes

ASSUME PromptSnapshotAssumption == MaxRun \in Nat /\ MaxFail \in Nat

View   == SUBSET WikiPage  \* the entries of a snapshot, and so its generation
NoPage == {}

VARIABLES
  wiki,     \* the pages on disk
  gens,     \* gens[v]: the generation file, "none", "torn" (partly written), "whole"
  current,  \* the generation the pointer names, in a set; or empty: no pointer yet
  proc,     \* proc[c]: place, page to add (at most one), entries, runs started
  read,     \* read[r]: the generation a reader has read from the pointer, in a set
  done,     \* pages whose process committed them
  fails

stored == <<wiki, gens, current>>
vars == <<stored, proc, read, done, fails>>

Init ==
  /\ wiki = {}
  /\ gens = [v \in View |-> "none"]
  /\ current = {}
  /\ proc = [c \in Committer |-> [at |-> "idle", page |-> NoPage, view |-> {}, runs |-> 0]]
  /\ read = [r \in Reader |-> {}]
  /\ done = {}
  /\ fails = 0

At(c, place)   == proc[c].at = place
Goto(c, place) == proc' = [proc EXCEPT ![c].at = place]
ViewOf(c)      == proc[c].view

-----------------------------------------------------------------------------
(* A committing process *)

\* Mutant: the store starts empty instead of with what is on disk.
OpenStoreEmpty(c) ==
  /\ At(c, "idle") /\ proc[c].runs < MaxRun
  /\ \E new \in {NoPage} \cup {{p} : p \in WikiPage} :
       proc' = [proc EXCEPT ![c] = [at   |-> IF new \subseteq wiki THEN "probe" ELSE "add",
                                    page |-> new, view |-> {}, runs |-> @.runs + 1]]
  /\ UNCHANGED <<stored, read, done, fails>>

\* The wiki is scanned; a page that is there is not written again.
OpenStore(c) ==
  /\ At(c, "idle") /\ proc[c].runs < MaxRun
  /\ \E new \in {NoPage} \cup {{p} : p \in WikiPage} :
       proc' = [proc EXCEPT ![c] = [at   |-> IF new \subseteq wiki THEN "probe" ELSE "add",
                                    page |-> new, view |-> wiki, runs |-> @.runs + 1]]
  /\ UNCHANGED <<stored, read, done, fails>>

Upsert(c) ==
  /\ At(c, "add")
  /\ wiki' = wiki \cup proc[c].page
  /\ proc' = [proc EXCEPT ![c].at = "probe", ![c].view = @ \cup proc[c].page]
  /\ UNCHANGED <<gens, current, read, done, fails>>

\* Mutant: the pointer is replaced before the generation is written.
ProbePublishes(c) ==
  /\ At(c, "probe")
  /\ current' = {ViewOf(c)}
  /\ Goto(c, IF gens[ViewOf(c)] = "none" THEN "create" ELSE "publish")
  /\ UNCHANGED <<wiki, gens, read, done, fails>>

\* exists() does not tell a whole generation from a torn one.
Probe(c) ==
  /\ At(c, "probe")
  /\ Goto(c, IF gens[ViewOf(c)] = "none" THEN "create" ELSE "publish")
  /\ UNCHANGED <<stored, read, done, fails>>

\* create_new: the file must not be there.
Create(c) ==
  /\ At(c, "create") /\ gens[ViewOf(c)] = "none"
  /\ gens' = [gens EXCEPT ![ViewOf(c)] = "torn"]
  /\ Goto(c, "write")
  /\ UNCHANGED <<wiki, current, read, done, fails>>

\* Another process created it since the probe: the commit fails.
CreateFails(c) ==
  /\ At(c, "create") /\ gens[ViewOf(c)] # "none"
  /\ Goto(c, "idle")
  /\ UNCHANGED <<stored, read, done, fails>>

\* Mutant: an error of the write is dropped.
WriteGenerationUnchecked(c) ==
  /\ At(c, "write")
  /\ \E outcome \in {"torn", "whole"} : gens' = [gens EXCEPT ![ViewOf(c)] = outcome]
  /\ Goto(c, "publish")
  /\ UNCHANGED <<wiki, current, read, done, fails>>

WriteGeneration(c) ==
  /\ At(c, "write")
  /\ gens' = [gens EXCEPT ![ViewOf(c)] = "whole"]
  /\ Goto(c, "publish")
  /\ UNCHANGED <<wiki, current, read, done, fails>>

Publish(c) ==
  /\ At(c, "publish")
  /\ current' = {ViewOf(c)}
  /\ done' = done \cup proc[c].page
  /\ Goto(c, "idle")
  /\ UNCHANGED <<wiki, gens, read, fails>>

\* The process dies, or a write fails and ends the commit.
Fail(c) ==
  /\ ~At(c, "idle") /\ fails < MaxFail
  /\ fails' = fails + 1
  /\ Goto(c, "idle")
  /\ UNCHANGED <<stored, read, done>>

-----------------------------------------------------------------------------
(* A reader *)

ReadPointer(r) ==
  /\ read[r] = {} /\ current # {}
  /\ read' = [read EXCEPT ![r] = current]
  /\ UNCHANGED <<stored, proc, done, fails>>

\* A torn generation does not parse, or fails the count or identity check.
ReadGeneration(r) ==
  /\ read[r] # {}
  /\ read' = [read EXCEPT ![r] = {}]
  /\ UNCHANGED <<stored, proc, done, fails>>

Commit(c) ==
  \/ OpenStore(c) \/ Upsert(c) \/ Probe(c) \/ Create(c) \/ CreateFails(c)
  \/ WriteGeneration(c) \/ Publish(c) \/ Fail(c)

Next ==
  \/ \E c \in Committer : Commit(c)
  \/ \E r \in Reader : ReadPointer(r) \/ ReadGeneration(r)

Spec == Init /\ [][Next]_vars

-----------------------------------------------------------------------------
(* Properties *)

\* Type invariant.
TypeOK ==
  /\ wiki \in View
  /\ gens \in [View -> {"none", "torn", "whole"}]
  /\ current \in SUBSET View /\ \A u, v \in current : u = v
  /\ proc \in [Committer -> [at : {"idle", "add", "probe", "create", "write", "publish"},
                             page : View, view : View, runs : Nat]]
  /\ read \in [Reader -> SUBSET View]
  /\ done \in View
  /\ fails \in Nat

\* The pointer, and the pointer a reader read before it was replaced, name
\* generations whose files are there.
Findable ==
  \A v \in current \cup UNION {read[r] : r \in Reader} : gens[v] # "none"

\* A generation, once whole, is never rewritten, whatever commits race.
Immutable == [][\A v \in View : gens[v] = "whole" => gens'[v] = "whole"]_vars

\* As long as nothing failed, what the pointer names is whole or being written by
\* a process that is still at it: readers fail at most for a while.
WholeOrInWriting ==
  fails = 0 => \A v \in current :
    gens[v] = "whole" \/ \E c \in Committer : At(c, "write") /\ ViewOf(c) = v

=============================================================================
