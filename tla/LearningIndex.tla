----------------------------- MODULE LearningIndex -----------------------------
(***************************************************************************)
(* What the learning worker makes of the jobs it completes                 *)
(* (promotion.rs and skill_candidates.rs, called at main.rs:400): lessons  *)
(* and workflows are held in memory until the jobs of the pass are done,   *)
(* then appended to lessons.jsonl and workflows.jsonl, and candidates are  *)
(* proposed from each whole index.  A pass may die anywhere, and a line    *)
(* may be cut by a crash or a full disk.  How pending files race with      *)
(* pk candidates is in Candidates; here a decision is one step.            *)
(***************************************************************************)
EXTENDS Naturals, Sequences, SequencesExt, FiniteSets, Ranking

CONSTANTS
  Lesson,      \* [id, project, tags, marked, tooling, path, shingles]: observations that
               \* have a token; id stands for the hash of (project, source, tokens)
  Workflow,    \* [id, project, prompts, tools, uses, role]: sessions with a prompt or a
               \* skill; id: (project, session); uses[s]: corrections after skill s ran
  Job,         \* jobs by the place of their file's name in the order of names
  Seen,        \* Seen[j]: what j's last message, its project's wiki and its transcript
               \* give, in order
  Suffix,      \* pairs <<s, t>> of skills: the name of s ends with that of t
  Loggable,    \* skills with a name of letters, digits, "-", "_" and "." only; transcripts
               \* bring others too (normalize_skill)
  RecurrencePercent, MinSessions, MinProjects, MinCorrections,
  MaxPass,     \* bound: passes of the worker
  MaxTrouble,  \* bound: crashes and failed calls
  MaxDecision, \* bound: candidates decided
  LastDay      \* bound: the day the model stops at

Index       == {"lessons", "workflows"}
Observation == Lesson \cup Workflow

ASSUME LearningIndexAssumption ==
  /\ \A o \in Observation : o.id \in Nat \ {0}
  /\ Seen \in [Job -> Seq(Observation)]
  /\ \A w \in Workflow : \A s \in DOMAIN w.uses : <<s, s>> \in Suffix
  /\ \A l \in Lesson, w \in Workflow : l.id # w.id
  /\ Job \subseteq Nat \ {0}
  /\ MaxPass \in Nat /\ MaxDecision \in Nat /\ MaxTrouble \in Nat /\ LastDay \in Nat

\* A line of an index: a record, or what the parser skips, or bytes that are not UTF-8
\* (a character was cut in two), at which lines().map_while(ok) ends.
Line(o, t)    == [text |-> "record", of |-> {o}, at |-> t]
Skipped(text) == [text |-> text, of |-> {}, at |-> 0]
Broken == {"garbled", "undecodable"}

VARIABLES
  file,     \* file[x]: the lines of index x
  ended,    \* ended[x]: is its last line followed by a newline
  done,     \* jobs in completed
  worker,   \* the pass: its place, its index, its last job, what its jobs gave, the index
            \* as it has it, records to append, candidates to write, a skill to log (at
            \* most one)
  pending,  \* candidate files in pending: [id, evidence]
  decided,  \* candidate files in accepted or rejected
  hints,    \* skill-updates/pending.log: its markers [skill, day] in order
  today, pass, troubles,
  lost,     \* history: ids whose only copy was in memory when the pass gave them up
  kept,     \* history: ids in the index of a pass whose append_new succeeded
  cut,      \* history: a line was cut short
  due       \* history: [skill, day] of all updates written, but for those whose log failed

indexes  == <<file, ended>>
files    == <<pending, decided, hints>>
counters == <<today, pass, troubles>>
history  == <<lost, kept, cut, due>>
vars == <<indexes, done, worker, files, counters, history>>

Off == [at |-> "off", index |-> "lessons", job |-> 0, observed |-> <<>>, records |-> {},
        fresh |-> <<>>, todo |-> {}, hint |-> {}]

Init ==
  /\ file = [x \in Index |-> <<>>] /\ ended = [x \in Index |-> TRUE]
  /\ done = {} /\ worker = Off
  /\ pending = {} /\ decided = {} /\ hints = <<>>
  /\ today = 1 /\ pass = 0 /\ troubles = 0
  /\ lost = {} /\ kept = {} /\ cut = FALSE /\ due = {}

At(place) == worker.at = place
MayFail   == troubles < MaxTrouble /\ troubles' = troubles + 1
Ids(S)    == {o.id : o \in S}
Kind(x)   == IF x = "lessons" THEN Lesson ELSE Workflow

-----------------------------------------------------------------------------
(* Reading and appending *)

\* read_index: lines that do not parse are skipped, one that does not decode ends it.
ReadIndex(x) ==
  LET Reached == {i \in DOMAIN file[x] : \A k \in 1 .. i : file[x][k].text # "undecodable"}
  IN  UNION {{[of |-> o, at |-> file[x][i].at] : o \in file[x][i].of} : i \in Reached}

Recorded(records) == {r.of.id : r \in records}
OnDisk == UNION {Recorded(ReadIndex(x)) : x \in Index}

\* Mutant: one id is enough to call the rest of a batch known.
FreshFirst(x, records, observed) ==
  LET mine == SelectSeq(observed, LAMBDA o : o \in Kind(x))
  IN  IF mine = <<>> \/ Head(mine).id \in Recorded(records) THEN <<>> ELSE <<Head(mine)>>

\* What append_new adds: the first observation of every id not in the index yet.
AddFresh(x, records, found, o) ==
  IF o \notin Kind(x) \/ o.id \in Recorded(records) \cup Ids({found[i] : i \in DOMAIN found})
  THEN found ELSE Append(found, o)

Fresh(x, records, observed) == FoldLeft(LAMBDA found, o : AddFresh(x, records, found, o), <<>>, observed)

\* Nothing puts a newline after a line that was cut, so the next one is glued to it.
Glued(old, new) ==
  Skipped(IF "undecodable" \in {old.text, new.text} THEN "undecodable" ELSE "garbled")

AddLine(x, line, newline) ==
  /\ file' = [file EXCEPT ![x] = IF ended[x] THEN Append(@, line)
                                 ELSE Append(Front(@), Glued(Last(@), line))]
  /\ ended' = [ended EXCEPT ![x] = newline]

-----------------------------------------------------------------------------
(* Clusters and candidates *)

Shared(a, b) == Cardinality(a \cap b)
Total(a, b)  == Cardinality(a \cup b)

\* The Jaccard similarity, or the mean of two, against its threshold.
AlikeLessons(a, b) ==
  100 * Shared(a.shingles, b.shingles) >= RecurrencePercent * Total(a.shingles, b.shingles)
AlikeWorkflows(a, b) ==
  LET prompts == Total(a.prompts, b.prompts)
      tools   == Total(a.tools, b.tools)
  IN  Shared(a.prompts, b.prompts) * tools + Shared(a.tools, b.tools) * prompts >= prompts * tools

Alike(a, b) == IF a \in Lesson THEN AlikeLessons(a, b) ELSE AlikeWorkflows(a, b)

\* Mutant: the records of an index are taken in the order of their ids alone.
BeforeById(r, s) == r.of.id < s.of.id

Before(r, s) == r.at < s.at \/ (r.at = s.at /\ r.of.id < s.of.id)

\* Greedy: a record joins the first cluster whose first member, its anchor, it is like.
Join(clusters, o) ==
  LET near == {i \in DOMAIN clusters : Alike(Head(clusters[i]), o)}
  IN  IF near = {} THEN Append(clusters, <<o>>)
      ELSE [clusters EXCEPT ![CHOOSE i \in near : \A k \in near : i <= k] = Append(@, o)]

Clusters(records) ==
  LET ordered == Ranked(records, Before)
      found   == FoldLeft(Join, <<>>, [i \in DOMAIN ordered |-> ordered[i].of])
  IN  {found[i] : i \in DOMAIN found}

Members(cluster)  == {cluster[i] : i \in DOMAIN cluster}
Projects(cluster) == {o.project : o \in Members(cluster)}

\* candidate_for: it recurs across projects, is tagged global, or names a tool and no path.
WorthSharing(cluster) ==
  \/ Cardinality(Projects(cluster)) >= 2
  \/ \E o \in Members(cluster) : "global" \in o.tags
  \/ Head(cluster).tooling /\ \A o \in Members(cluster) : ~o.path

\* new_skill_candidate: it repeats and no skill was invoked in half of its sessions.
WorthASkill(cluster) ==
  /\ Len(cluster) >= MinSessions \/ Cardinality(Projects(cluster)) >= MinProjects
  /\ \A s \in UNION {DOMAIN o.uses : o \in Members(cluster)} :
       2 * Cardinality({i \in DOMAIN cluster : s \in DOMAIN cluster[i].uses}) < Len(cluster)

Anchored(detector, cluster) ==
  [id |-> [detector |-> detector, anchor |-> Head(cluster).id, skill |-> "", role |-> ""],
   evidence |-> Ids(Members(cluster))]

Promotions(records) ==
  {Anchored("promotion", c) : c \in {d \in Clusters({r \in records : ~r.of.marked}) : WorthSharing(d)}}

NewSkills(records) ==
  LET fingerprinted == {r \in records : r.of.prompts # {} /\ r.of.tools # {}}
  IN  {Anchored("new", c) : c \in {d \in Clusters(fingerprinted) : WorthASkill(d)}}

\* One per skill and role: the sessions in which users corrected it often enough.
Updates(records) ==
  LET corrected == {x \in (UNION {DOMAIN r.of.uses : r \in records}) \X records :
                      x[1] \in DOMAIN x[2].of.uses /\ x[2].of.uses[x[1]] >= MinCorrections}
      Named(x)  == [detector |-> "update", anchor |-> 0, skill |-> x[1], role |-> x[2].of.role]
  IN  {[id |-> Named(x), evidence |-> {y[2].of.id : y \in {z \in corrected : Named(z) = Named(x)}}] :
         x \in corrected}

Candidates(x, records) ==
  IF x = "lessons" THEN Promotions(records) ELSE NewSkills(records) \cup Updates(records)

-----------------------------------------------------------------------------
(* A pass of the worker: reconcile_once up to main.rs:408 *)

GoOn(place) == worker' = [worker EXCEPT !.at = place]

\* What the pass has observed and not appended yet.
Ahead == CASE worker.at = "off" -> {}
           [] worker.at \in {"jobs", "index", "append"} -> {worker.index, "workflows"}
           [] OTHER -> {"workflows"} \ {worker.index}
InMemory == Ids({worker.observed[i] : i \in DOMAIN worker.observed} \cap UNION {Kind(x) : x \in Ahead})

\* The one detector returns, well or with an error: skill discovery follows promotion.
EndDetector ==
  worker' = IF worker.index = "workflows" THEN Off
            ELSE [Off EXCEPT !.at = "index", !.index = "workflows", !.observed = worker.observed]

Begin ==
  /\ At("off") /\ pass < MaxPass
  /\ pass' = pass + 1
  /\ GoOn("jobs")
  /\ UNCHANGED <<indexes, done, files, today, troubles, history>>

\* process_job: what it has observed is not written anywhere before the job is in completed.
CompleteJob(j) ==
  /\ At("jobs") /\ j \notin done /\ j > worker.job
  /\ done' = done \cup {j}
  /\ worker' = [worker EXCEPT !.job = j, !.observed = @ \o Seen[j]]
  /\ UNCHANGED <<indexes, files, counters, history>>

\* The rename is done and reports an error: the job counts as completed all the same.
CompleteJobBlind(j) ==
  /\ At("jobs") /\ j \notin done /\ j > worker.job /\ MayFail
  /\ worker' = [worker EXCEPT !.job = j]
  /\ done' = done \cup {j}
  /\ lost' = lost \cup Ids({Seen[j][i] : i \in DOMAIN Seen[j]})
  /\ UNCHANGED <<indexes, files, today, pass, kept, cut, due>>

EndJobs ==
  /\ At("jobs")
  /\ worker' = [worker EXCEPT !.at = "index", !.job = 0]
  /\ UNCHANGED <<indexes, done, files, counters, history>>

Read ==
  /\ At("index")
  /\ LET records == ReadIndex(worker.index)
     IN  worker' = [worker EXCEPT !.at = "append", !.records = records,
                                  !.fresh = Fresh(worker.index, records, worker.observed)]
  /\ UNCHANGED <<indexes, done, files, counters, history>>

AppendRecord ==
  /\ At("append") /\ worker.fresh # <<>>
  /\ LET o == Head(worker.fresh)
     IN  /\ AddLine(worker.index, Line(o, pass), TRUE)
         /\ worker' = [worker EXCEPT !.fresh = Tail(@), !.records = @ \cup {[of |-> o, at |-> pass]}]
  /\ UNCHANGED <<done, files, counters, history>>

\* The line being written stays as far as it got: a part of it, which may end inside a
\* character, or all of it but its newline.
CutLine ==
  /\ At("append") /\ worker.fresh # <<>>
  /\ \/ \E text \in Broken : AddLine(worker.index, Skipped(text), FALSE)
     \/ AddLine(worker.index, Line(Head(worker.fresh), pass), FALSE)
  /\ cut' = TRUE

GiveUp(ids) == lost' = lost \cup ((InMemory \cap ids) \ OnDisk)

\* A disk that is full, or any other error of a detector, ends that detector.
DetectorFails ==
  /\ worker.at \in {"index", "append", "write"} /\ MayFail
  /\ EndDetector
  /\ GiveUp(Ids(Kind(worker.index)))
  /\ CutLine \/ UNCHANGED <<indexes, cut>>
  /\ UNCHANGED <<done, files, today, pass, kept, due>>

\* Mutant: candidates are made of what this pass has added.
ProposeFresh ==
  /\ At("append") /\ worker.fresh = <<>>
  /\ worker' = [worker EXCEPT !.at = "write",
                  !.todo = Candidates(worker.index, {r \in worker.records : r.at = pass})]
  /\ kept' = kept \cup Recorded(worker.records)
  /\ UNCHANGED <<indexes, done, files, counters, lost, cut, due>>

\* All clusters are proposed, those of earlier passes included.
Propose ==
  /\ At("append") /\ worker.fresh = <<>>
  /\ worker' = [worker EXCEPT !.at = "write", !.todo = Candidates(worker.index, worker.records)]
  /\ kept' = kept \cup Recorded(worker.records)
  /\ UNCHANGED <<indexes, done, files, counters, lost, cut, due>>

Settled(c) == \E d \in decided : d.id = c.id

\* log_update_proposal leaves out, without a word, a skill whose name is not safe.
SafeNames(skills) == skills \cap Loggable

\* write_candidate: not once decided, nor with the evidence it has; skill updates are
\* logged when written.
WriteCandidate(c) ==
  /\ At("write") /\ c \in worker.todo
  /\ LET skip   == Settled(c) \/ c \in pending
         update == IF ~skip /\ c.id.detector = "update" THEN {c.id.skill} ELSE {}
         hints1 == SafeNames(update)
     IN  /\ pending' = IF skip THEN pending ELSE {p \in pending : p.id # c.id} \cup {c}
         /\ worker' = [worker EXCEPT !.todo = @ \ {c}, !.hint = hints1,
                                     !.at = IF hints1 = {} THEN "write" ELSE "log"]
         /\ due' = due \cup {[skill |-> s, day |-> today] : s \in update}
  /\ UNCHANGED <<indexes, done, decided, hints, counters, lost, kept, cut>>

\* Mutant: the log is appended to without a look at it.
LogUpdateAgain(s) ==
  /\ At("log") /\ s \in worker.hint
  /\ hints' = Append(hints, [skill |-> s, day |-> today])
  /\ worker' = [worker EXCEPT !.at = "write", !.hint = {}]
  /\ UNCHANGED <<indexes, done, pending, decided, counters, history>>

\* write_update_log looks for "<skill>::<day>" anywhere in the log.
LogUpdate(s) ==
  /\ At("log") /\ s \in worker.hint
  /\ LET marked == \E i \in DOMAIN hints : hints[i].day = today /\ <<hints[i].skill, s>> \in Suffix
     IN  hints' = IF marked THEN hints ELSE Append(hints, [skill |-> s, day |-> today])
  /\ worker' = [worker EXCEPT !.at = "write", !.hint = {}]
  /\ UNCHANGED <<indexes, done, pending, decided, counters, history>>

Undue == due' = {d \in due : d.skill \notin worker.hint}

\* It only warns.
LogFails ==
  /\ At("log") /\ MayFail
  /\ worker' = [worker EXCEPT !.at = "write", !.hint = {}]
  /\ Undue
  /\ UNCHANGED <<indexes, done, files, today, pass, lost, kept, cut>>

EndWrites ==
  /\ At("write") /\ worker.todo = {}
  /\ EndDetector
  /\ UNCHANGED <<indexes, done, files, counters, history>>

Crash ==
  /\ ~At("off") /\ MayFail
  /\ worker' = Off
  /\ GiveUp(InMemory) /\ Undue
  /\ CutLine \/ UNCHANGED <<indexes, cut>>
  /\ UNCHANGED <<done, files, today, pass, kept>>

-----------------------------------------------------------------------------
(* Around it *)

\* pk candidates accept | reject, whole.
Decide(c) ==
  /\ c \in pending /\ Cardinality(decided) < MaxDecision
  /\ pending' = pending \ {c} /\ decided' = decided \cup {c}
  /\ UNCHANGED <<indexes, done, worker, hints, counters, history>>

Midnight ==
  /\ today < LastDay /\ today' = today + 1
  /\ UNCHANGED <<indexes, done, worker, files, pass, troubles, history>>

Next ==
  \/ Begin \/ EndJobs \/ Read \/ AppendRecord \/ DetectorFails \/ Propose
  \/ LogFails \/ EndWrites \/ Crash \/ Midnight
  \/ \E j \in Job : CompleteJob(j) \/ CompleteJobBlind(j)
  \/ \E c \in worker.todo : WriteCandidate(c)
  \/ \E s \in worker.hint : LogUpdate(s)
  \/ \E c \in pending : Decide(c)

Spec == Init /\ [][Next]_vars

-----------------------------------------------------------------------------
(* Properties *)

\* What the jobs in completed have taught is in an index that the next pass will read, or
\* in the hands of the pass that has yet to append it, whatever else dies or fails: only
\* what was in memory at that moment is lost (main.rs:373-408 and both append_new).  A
\* line cut short is excepted: see TornLineSkipped.
ObservedIndexed ==
  cut \/ \A j \in done : Ids({Seen[j][i] : i \in DOMAIN Seen[j]}) \subseteq OnDisk \cup lost \cup InMemory

\* "A torn final line from a crash mid-append is skipped, not fatal" (promotion.rs:237):
\* the records of a pass that went well stay readable.
TornLineSkipped == kept \subseteq OnDisk

\* A lesson, or a session, is evidence of one candidate of its detector whatever is
\* appended after it: its cluster keeps its anchor (comment at promotion.rs:300), unless a
\* line was cut.
OneCandidate ==
  cut \/ \A c, d \in pending \cup decided :
           /\ c.id.detector = d.id.detector /\ c.id.detector # "update"
           /\ c.evidence \cap d.evidence # {}
           => c.id = d.id

\* A pending file never loses evidence as the index grows, and leaves only by a decision
\* (write_candidate), unless a line was cut.
EvidenceGrows ==
  [][cut \/ \A c \in pending : \/ c \in decided'
                               \/ \E d \in pending' : d.id = c.id /\ c.evidence \subseteq d.evidence]_vars

\* The log names a skill at most once a day, and only one with a safe name and an update
\* among the candidate files.  From the day an update is written on it names the skill, or
\* in its stead one whose name ends with its name (write_update_log searches the text),
\* unless the name is unsafe or the pass died or failed between the two.
UpdatesHinted ==
  /\ \A i, k \in DOMAIN hints : hints[i] = hints[k] => i = k
  /\ \A i \in DOMAIN hints :
       /\ hints[i].skill \in Loggable
       /\ \E c \in pending \cup decided : c.id.detector = "update" /\ c.id.skill = hints[i].skill
  /\ \A d \in due :
       d.skill \in Loggable =>
         \/ d.skill \in worker.hint
         \/ \E i \in DOMAIN hints : hints[i].day >= d.day /\ <<hints[i].skill, d.skill>> \in Suffix
=============================================================================
