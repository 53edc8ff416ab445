-------------------------------- MODULE Recall --------------------------------
(***************************************************************************)
(* Where knowledge is written and where it is looked for.  Commands of pk  *)
(* (pk-cli/src/main.rs), learning jobs, accepted candidates and the server *)
(* write entries to one of the knowledge roots and publish a prompt        *)
(* snapshot of it under a scope's label; pk context reads the snapshots of *)
(* the scopes asked for, ranks their entries and keeps one copy of each.   *)
(* Which root and which label a command takes depends on --kb-dir and on   *)
(* the directory it runs in.  Commits are whole here: see PromptSnapshot.  *)
(***************************************************************************)
EXTENDS Naturals, Sequences, SequencesExt, FiniteSets, Ranking

CONSTANTS
  Id,             \* entry ids, numbers in the order of their names
  Text,           \* title and content of an entry, with its description and tags
  Body,           \* Body[t]: the title and content alone of text t
  Tagged,         \* the texts that carry the tags a request asks for
  Query,
  Blank,          \* the queries with no term: everything scores 1
  Hits,           \* Hits[q][t]: the score of text t for query q, its terms weighed
  Limit, MaxCandidates,  \* --limit and --max-candidates as given
  KbDir,          \* the roots that --kb-dir names
  Server,         \* [root, label]: the arguments of the servers that run
  Asked,          \* the requests whose answers the properties look at
  Offered,        \* bound: the entries there are to write
  MaxWrite,       \* bound: entries written
  MaxBreak        \* bound: pages broken from outside

Scope  == {"project", "shared", "global"}
Root   == Scope \cup {"other"}            \* "other": a directory named by --kb-dir
Entry  == [id : Id, text : Text]
\* Where a command runs: the root --kb-dir or PK_KB_DIR names, if any, and whether the
\* current directory lies in a project.
Place  == [kb : {{}} \cup {{r} : r \in KbDir}, inside : BOOLEAN]
Request == [scopes : SUBSET Scope, tagged : BOOLEAN, query : Query]

ASSUME RecallAssumption ==
  /\ Id \subseteq Nat /\ Tagged \subseteq Text /\ Blank \subseteq Query /\ Blank # {}
  /\ Hits \in [Query -> [Text -> Nat]] /\ DOMAIN Body = Text
  /\ KbDir \subseteq Root /\ Server \subseteq [root : Root, label : Scope] /\ Asked \subseteq Request
  /\ Offered \subseteq Entry
  /\ Limit \in Nat /\ MaxCandidates \in Nat /\ MaxWrite \in Nat /\ MaxBreak \in Nat

VARIABLES
  wiki,      \* wiki[r]: the entries a fresh scan of root r finds
  opened,    \* roots whose wiki directory exists
  broken,    \* roots with a page that does not parse
  snapshot,  \* snapshot[r][s]: at most one, what r's snapshot labelled s holds
  writes, breaks,
  last       \* history: the last entry written and published, from where and in which
             \* scope, until it is edited (at most one)

recallVars == <<wiki, opened, broken, snapshot, writes, breaks, last>>

RecallInit ==
  /\ wiki = [r \in Root |-> {}] /\ opened = {} /\ broken = {}
  /\ snapshot = [r \in Root |-> [s \in Scope |-> {}]]
  /\ writes = 0 /\ breaks = 0 /\ last = {}

-----------------------------------------------------------------------------
(* Roots *)

\* resolve_kb_dir: --kb-dir before the scope, the scope before the project.
ResolveKb(place, shared) ==
  IF place.kb # {} THEN place.kb
  ELSE {IF shared THEN "shared" ELSE IF place.inside THEN "project" ELSE "global"}

\* knowledge_root_for_scope: --kb-dir stands for the project's root only.
RootForScope(place, s) ==
  IF s # "project" THEN {s}
  ELSE IF place.kb # {} THEN place.kb
  ELSE IF place.inside THEN {"project"} ELSE {}

AllScopes(scopes) == IF scopes = {} THEN Scope ELSE scopes

Readable(place, s) == \E r \in RootForScope(place, s) : snapshot[r][s] # {}

-----------------------------------------------------------------------------
(* pk context *)

Priority == [s \in Scope |-> CASE s = "project" -> 0 [] s = "shared" -> 1 [] s = "global" -> 2]

Score(q, text) == IF q \in Blank THEN 1 ELSE Hits[q][text]

\* What pk context reads of a scope.
Held(place, s) == UNION {UNION snapshot[r][s] : r \in RootForScope(place, s)}

\* Every entry of every readable scope that has the tags and a score.
ContextCandidates(place, request) ==
  UNION {{[scope |-> s, id |-> e.id, text |-> e.text, score |-> Score(request.query, e.text)] :
            e \in {d \in Held(place, s) : /\ request.tagged => d.text \in Tagged
                                         /\ Score(request.query, d.text) > 0}} :
         s \in AllScopes(request.scopes)}

\* Mutant: relevance decides which copy is kept.
OutranksByScore(c, d) ==
  \/ c.score > d.score
  \/ c.score = d.score /\ Priority[c.scope] < Priority[d.scope]
  \/ c.score = d.score /\ c.scope = d.scope /\ c.id < d.id

Outranks(c, d) ==
  \/ Priority[c.scope] < Priority[d.scope]
  \/ c.scope = d.scope /\ c.score > d.score
  \/ c.scope = d.scope /\ c.score = d.score /\ c.id < d.id

\* The id is taken even when title and content turn out to be known.
KeepOne(found, c) ==
  CASE c.id \in found.ids -> found
    [] c.id \notin found.ids /\ Body[c.text] \in found.bodies -> [found EXCEPT !.ids = @ \cup {c.id}]
    [] OTHER -> [kept |-> found.kept \cup {c}, ids |-> found.ids \cup {c.id},
                 bodies |-> found.bodies \cup {Body[c.text]}]

Kept(candidates) ==
  FoldLeft(KeepOne, [kept |-> {}, ids |-> {}, bodies |-> {}], Ranked(candidates, Outranks)).kept

Better(c, d) ==
  \/ c.score > d.score
  \/ c.score = d.score /\ Priority[c.scope] < Priority[d.scope]
  \/ c.score = d.score /\ c.scope = d.scope /\ c.id < d.id

Clamp(n, low, high) == IF n < low THEN low ELSE IF n > high THEN high ELSE n
Least(a, b) == IF a < b THEN a ELSE b

Context(place, request) ==
  LET ranked == Ranked(Kept(ContextCandidates(place, request)), Better)
      size   == Least(Len(ranked), Least(Clamp(MaxCandidates, 1, 512), Clamp(Limit, 1, 32)))
  IN  [results  |-> SubSeq(ranked, 1, size),
       failures |-> {s \in AllScopes(request.scopes) : ~Readable(place, s)}]

-----------------------------------------------------------------------------
(* pk doctor *)

\* Mutant: any snapshot of the root will do.
DoctorPassesAny(place) ==
  \A r \in ResolveKb(place, FALSE) :
    /\ r \in opened
    /\ \E s \in Scope : snapshot[r][s] # {}
    /\ snapshot["shared"]["shared"] # {} /\ snapshot["global"]["global"] # {}

\* prompt-snapshots and kb-scoping, the two checks that are about the knowledge roots.
DoctorPasses(place) ==
  \A r \in ResolveKb(place, FALSE) :
    /\ r \in opened
    /\ snapshot[r]["project"] # {} /\ snapshot["shared"]["shared"] # {}
    /\ snapshot["global"]["global"] # {}

-----------------------------------------------------------------------------
(* Writers *)

Upserted(r, e) == {d \in wiki[r] : d.id # e.id} \cup {e}

\* MarkdownStore::open has made the directories; the page is written and, unless the
\* command dies first, what the store holds is published under the label.
Write(r, label, e, place) ==
  /\ writes < MaxWrite /\ writes' = writes + 1
  /\ opened' = opened \cup {r}
  /\ wiki' = [wiki EXCEPT ![r] = Upserted(r, e)]
  /\ \/ /\ snapshot' = [snapshot EXCEPT ![r][label] = {Upserted(r, e)}]
        /\ last' = {[entry |-> e, place |-> place, label |-> label]}
     \/ UNCHANGED snapshot /\ last' = {}
  /\ UNCHANGED <<broken, breaks>>

Label(shared) == IF shared THEN "shared" ELSE "project"

\* Mutant: what is not shared is labelled as if it were global.
IngestGlobal(place, shared, e) ==
  \E r \in ResolveKb(place, shared) : Write(r, IF shared THEN "shared" ELSE "global", e, place)

\* pk ingest: the label comes from --scope, whatever the root.
Ingest(place, shared, e) ==
  \E r \in ResolveKb(place, shared) : Write(r, Label(shared), e, place)

\* process_job, for a job of project or of shared scope.
WriteFromJob(shared, e) == Write(Label(shared), Label(shared), e, [kb |-> {}, inside |-> TRUE])

\* pk candidates accept.
Accept(e) == Write("shared", "shared", e, [kb |-> {}, inside |-> FALSE])

\* The server publishes its root when it starts and after a change, under the label of its
\* arguments, unless a page does not parse.
Serve(server) ==
  /\ opened' = opened \cup {server.root}
  /\ server.root \notin broken
  /\ snapshot' = [snapshot EXCEPT ![server.root][server.label] = {wiki[server.root]}]
  /\ UNCHANGED <<wiki, broken, writes, breaks, last>>

\* run_snapshot: not a root without a wiki, nor one with a page that does not parse.
Published(place, s) == {r \in RootForScope(place, s) : r \in opened /\ r \notin broken}

Snapshot(place, scopes) ==
  /\ snapshot' = [r \in Root |-> [s \in Scope |->
                   IF s \in AllScopes(scopes) /\ r \in Published(place, s)
                   THEN {wiki[r]} ELSE snapshot[r][s]]]
  /\ UNCHANGED <<wiki, opened, broken, writes, breaks, last>>

\* An editor leaves a page that does not parse in place of an entry, or repairs it.
Break(r) ==
  /\ r \notin broken /\ breaks < MaxBreak /\ breaks' = breaks + 1
  /\ \E e \in wiki[r] : wiki' = [wiki EXCEPT ![r] = @ \ {e}]
  /\ broken' = broken \cup {r} /\ last' = {}
  /\ UNCHANGED <<opened, snapshot, writes>>

Repair(r) ==
  /\ r \in broken /\ broken' = broken \ {r}
  /\ UNCHANGED <<wiki, opened, snapshot, writes, breaks, last>>

RecallNext ==
  \/ \E place \in Place, shared \in BOOLEAN, e \in Offered : Ingest(place, shared, e)
  \/ \E e \in Offered : Accept(e) \/ \E shared \in BOOLEAN : WriteFromJob(shared, e)
  \/ \E server \in Server : Serve(server)
  \/ \E place \in Place, scopes \in SUBSET Scope : Snapshot(place, scopes)
  \/ \E r \in Root : Break(r) \/ Repair(r)

RecallSpec == RecallInit /\ [][RecallNext]_recallVars

-----------------------------------------------------------------------------
(* Properties *)

Everything == [scopes |-> {}, tagged |-> FALSE, query |-> CHOOSE q \in Blank : TRUE]

\* What the last command wrote and published is among what pk context ranks from the same
\* place (run_context with the roots of resolve_kb_dir), unless it was ingested outside any
\* project, or with --kb-dir into the shared scope: those go under a label no command reads
\* there.
RecalledAfterWrite ==
  \A l \in last :
    \/ l.label = "shared" /\ l.place.kb # {}
    \/ l.label = "project" /\ l.place.kb = {} /\ ~l.place.inside
    \/ \E c \in ContextCandidates(l.place, Everything) : c.id = l.entry.id /\ c.text = l.entry.text

\* Duplicates of one another: description and tags do not matter.
Duplicate(c, d) == c.id = d.id \/ Body[c.text] = Body[d.text]

\* "Select a canonical copy of duplicate IDs or duplicate content" (main.rs:804): no two
\* duplicates are kept, what is kept of an id is in the scope that comes first among
\* those that have it, and what is dropped has its like in its own scope or one before.
OneCopy ==
  \A place \in Place, request \in Asked :
    LET all  == ContextCandidates(place, request)
        kept == Kept(all)
    IN  /\ \A c, d \in kept : Duplicate(c, d) => c = d
        /\ \A c \in kept, d \in all : c.id = d.id => Priority[c.scope] <= Priority[d.scope]
        /\ \A c \in all \ kept : \E d \in all \ {c} : Duplicate(d, c) /\ Priority[d.scope] <= Priority[c.scope]

\* Where pk doctor passes its checks of snapshots and roots, pk context fails in no scope
\* (run_doctor and run_context), unless there is no project: doctor then takes the global
\* root for the project's.
DoctorAgrees ==
  \A place \in Place :
    DoctorPasses(place) => \/ place.kb = {} /\ ~place.inside
                           \/ Context(place, Everything).failures = {}
=============================================================================
