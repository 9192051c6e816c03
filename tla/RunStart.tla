------------------------------ MODULE RunStart ------------------------------
(***************************************************************************)
(* How a run comes into a store and how the store is copied while that     *)
(* goes on: experiment_ensure, run_start and run_log_artifact of           *)
(* src/mlparty/core.py, snapshots, commits and refs of                     *)
(* src/mlparty/gitstore.py, put_artifact and backup of                     *)
(* src/mlparty/store.py.                                                   *)
(*                                                                         *)
(* Each agent makes sure of the experiment, starts one run of it from a    *)
(* source tree, perhaps derived from another run, and logs an artifact.    *)
(* Every step of that is on disk before the next; agents overlap, unless   *)
(* they take turns, and may die anywhere.  A backup copies the journal,    *)
(* then the artifacts, then the repositories.                              *)
(*                                                                         *)
(* A node, a commit or a repository is named by the agent that made it.    *)
(* The journal is kept as the set of its events: which of two rows wins    *)
(* is the subject of MlStore, and an event is here in the index as soon    *)
(* as it is in the journal.                                                *)
(***************************************************************************)
EXTENDS Integers, FiniteSets

CONSTANTS
  Agents,    \* each with one run to start
  Trees,     \* contents of a source directory
  Contents,  \* contents of artifact files
  Nobody,    \* no agent
  MaxDeaths  \* bound on agents that die

ASSUME RunStartAssumption == Nobody \notin Agents /\ MaxDeaths \in Nat

VARIABLES
  turns,     \* whether agents take turns, chosen at the start
  log,       \* the journal
  trees,     \* the trees each repository has
  commits,   \* commit objects: which repository, tree and parents
  refs,      \* refs/runs/ names that are set, with the commit they name
  dest,      \* the artifact file of each content
  tmp,       \* the .tmp file of each content
  agent,     \* where each agent is, and what it has in hand
  backup,    \* where the backup is
  copy,      \* what it has copied
  deaths     \* budget used

repos == <<trees, commits, refs>>
cas   == <<dest, tmp>>
vars  == <<turns, log, repos, cas, agent, backup, copy, deaths>>

File == {"none", "part", "whole"}
\* Journal events; `of` is what the event is about besides its node.
Event == [kind : {"project", "experiment", "part-of", "commit", "run", "derives-from"},
          by : Agents, of : Agents \cup {Nobody}]
         \cup [kind : {"artifact"}, by : Agents, of : Contents]
Commit == [by : Agents, repo : Agents, tree : Trees, parents : SUBSET Agents]
Stages == {"idle", "project", "experiment", "repo", "part-of", "resolve", "snapshot", "lookup",
           "commit", "record", "ref", "create", "edges", "artifact", "copy", "rename", "note", "over"}

TypeOK ==
  /\ turns \in BOOLEAN
  /\ log \subseteq Event
  /\ trees \subseteq Agents \X Trees /\ commits \subseteq Commit
  /\ refs \subseteq Agents \X Agents
  /\ dest \in [Contents -> File] /\ tmp \in [Contents -> File]
  /\ agent \in [Agents -> [at : Stages, exp : Agents \cup {Nobody}, tree : Trees,
                           parents : SUBSET Agents, commit : Agents \cup {Nobody},
                           content : Contents, file : {"none", "tmp", "dest", "gone"}]]
  /\ backup \in {"idle", "artifacts", "repos", "over"}
  /\ copy \in [log : SUBSET Event, dest : [Contents -> File], trees : SUBSET (Agents \X Trees),
               commits : SUBSET Commit, refs : SUBSET (Agents \X Agents)]

\* The source and the artifact of each agent are what they are from the start.
Init ==
  /\ turns \in BOOLEAN
  /\ log = {} /\ trees = {} /\ commits = {} /\ refs = {}
  /\ dest = [x \in Contents |-> "none"] /\ tmp = dest
  /\ agent \in [Agents -> [at : {"idle"}, exp : {Nobody}, tree : Trees, parents : {{}},
                           commit : {Nobody}, content : Contents, file : {"none"}]]
  /\ backup = "idle"
  /\ copy = [log |-> {}, dest |-> dest, trees |-> {}, commits |-> {}, refs |-> {}]
  /\ deaths = 0

Ev(kind, a, of) == [kind |-> kind, by |-> a, of |-> of]
Of(kind) == {e \in log : e.kind = kind}
\* Agent a is at stage s, and goes on to stage next.
Go(a, s, next) == agent[a].at = s /\ agent' = [agent EXCEPT ![a].at = next]
Keep == UNCHANGED <<turns, backup, copy, deaths>>

-----------------------------------------------------------------------------
\* experiment_ensure.

FindProject(a) ==
  /\ turns => \A b \in Agents : agent[b].at \in {"idle", "over"}
  /\ Go(a, "idle", IF Of("project") = {} THEN "project" ELSE "experiment")
  /\ UNCHANGED <<log, repos, cas>> /\ Keep

CreateProject(a) ==
  /\ Go(a, "project", "experiment")
  /\ log' = log \cup {Ev("project", a, Nobody)}
  /\ UNCHANGED <<repos, cas>> /\ Keep

\* Mutant: an experiment is made whatever there is.
FindExperimentBlind(a) ==
  /\ agent[a].at = "experiment" /\ agent[a].exp = Nobody
  /\ agent' = [agent EXCEPT ![a].exp = a]
  /\ UNCHANGED <<log, repos, cas>> /\ Keep

\* The experiments of the project are listed: one of the name is taken, or one
\* is made (in the next step, when somebody else may have made one as well).
FindExperiment(a) ==
  /\ agent[a].at = "experiment" /\ agent[a].exp = Nobody
  /\ IF Of("experiment") = {}
     THEN agent' = [agent EXCEPT ![a].exp = a]
     ELSE \E e \in Of("experiment") :
             agent' = [agent EXCEPT ![a].exp = e.by, ![a].at = "resolve"]
  /\ UNCHANGED <<log, repos, cas>> /\ Keep

CreateExperiment(a) ==
  /\ agent[a].exp = a
  /\ \/ /\ Go(a, "experiment", "repo") /\ log' = log \cup {Ev("experiment", a, Nobody)}
     \/ /\ Go(a, "repo", "part-of") /\ UNCHANGED log
     \/ /\ Go(a, "part-of", "resolve") /\ log' = log \cup {Ev("part-of", a, Nobody)}
  /\ UNCHANGED <<repos, cas>> /\ Keep

-----------------------------------------------------------------------------
\* run_start.

\* The runs it derives from are resolved; they must be in the store.
Resolve(a) ==
  /\ agent[a].at = "resolve"
  /\ \E P \in SUBSET {e.by : e \in Of("run")} :
        agent' = [agent EXCEPT ![a].at = "snapshot", ![a].parents = P]
  /\ UNCHANGED <<log, repos, cas>> /\ Keep

\* build_snapshot: blobs and trees, without a commit.
Snapshot(a) ==
  /\ Go(a, "snapshot", "lookup")
  /\ trees' = trees \cup {<<agent[a].exp, agent[a].tree>>}
  /\ UNCHANGED <<log, commits, refs, cas>> /\ Keep

\* The commits of the runs derived from: a run's ref names its commit.
Parents(a) == {r[2] : r \in {q \in refs : q[1] \in agent[a].parents}}
\* Mutant: the parents are left out of the key.
KnownTree(a) == {c \in commits : /\ \E e \in Of("commit") : e.by = c.by
                                 /\ c.repo = agent[a].exp /\ c.tree = agent[a].tree}

\* tree_commit_get: the commits recorded for this tree and these parents.
Known(a) == {c \in commits : /\ \E e \in Of("commit") : e.by = c.by
                             /\ c.repo = agent[a].exp /\ c.tree = agent[a].tree
                             /\ c.parents = Parents(a)}

\* Mutant: the commit to make is not taken down.
LookupUnset(a) ==
  /\ agent[a].at = "lookup"
  /\ IF Known(a) = {} THEN Go(a, "lookup", "commit")
     ELSE \E c \in Known(a) : agent' = [agent EXCEPT ![a].at = "ref", ![a].commit = c.by]
  /\ UNCHANGED <<log, repos, cas>> /\ Keep

Lookup(a) ==
  /\ agent[a].at = "lookup"
  /\ IF Known(a) = {}
     THEN agent' = [agent EXCEPT ![a].at = "commit", ![a].commit = a]
     ELSE \E c \in Known(a) : agent' = [agent EXCEPT ![a].at = "ref", ![a].commit = c.by]
  /\ UNCHANGED <<log, repos, cas>> /\ Keep

CommitTree(a) ==
  /\ Go(a, "commit", "record")
  /\ commits' = commits \cup {[by |-> a, repo |-> agent[a].exp, tree |-> agent[a].tree,
                               parents |-> Parents(a)]}
  /\ UNCHANGED <<log, trees, refs, cas>> /\ Keep

RecordTreeCommit(a) ==
  /\ Go(a, "record", "ref")
  /\ log' = log \cup {Ev("commit", a, Nobody)}
  /\ UNCHANGED <<repos, cas>> /\ Keep

SetRunRef(a) ==
  /\ Go(a, "ref", "create")
  /\ refs' = refs \cup {<<a, agent[a].commit>>}
  /\ UNCHANGED <<log, trees, commits, cas>> /\ Keep

CreateRun(a) ==
  /\ Go(a, "create", "edges")
  /\ log' = log \cup {Ev("run", a, agent[a].commit)}
  /\ UNCHANGED <<repos, cas>> /\ Keep

\* One derives-from edge after the other.
AddEdges(a) ==
  /\ agent[a].at = "edges"
  /\ LET left == {p \in agent[a].parents : Ev("derives-from", a, p) \notin log}
     IN IF left = {}
        THEN Go(a, "edges", "artifact") /\ UNCHANGED log
        ELSE \E p \in left : log' = log \cup {Ev("derives-from", a, p)} /\ UNCHANGED agent
  /\ UNCHANGED <<repos, cas>> /\ Keep

-----------------------------------------------------------------------------
\* run_log_artifact.

\* put_artifact: content that has a file is there; else copy2 truncates or
\* makes the one .tmp of that content.
OpenCopy(a) ==
  /\ agent[a].at = "artifact"
  /\ LET x == agent[a].content
     IN IF dest[x] # "none"
        THEN Go(a, "artifact", "note") /\ UNCHANGED cas
        ELSE /\ agent' = [agent EXCEPT ![a].at = "copy", ![a].file = "tmp"]
             /\ tmp' = [tmp EXCEPT ![x] = "part"]
             /\ UNCHANGED dest
  /\ UNCHANGED <<log, repos>> /\ Keep

\* The bytes go to the file it opened, whatever that is called by now.
FillCopy(a) ==
  /\ Go(a, "copy", "rename")
  /\ LET x == agent[a].content
     IN /\ tmp'  = IF agent[a].file = "tmp" THEN [tmp EXCEPT ![x] = "whole"] ELSE tmp
        /\ dest' = IF agent[a].file = "dest" THEN [dest EXCEPT ![x] = "whole"] ELSE dest
  /\ UNCHANGED <<log, repos>> /\ Keep

\* The .tmp file takes its name, together with everybody who has it open; an
\* agent that finds it gone raises.
RenameCopy(a) ==
  /\ agent[a].at = "rename"
  /\ LET x == agent[a].content
         moved(b) == IF agent[b].content # x THEN agent[b].file
                     ELSE CASE agent[b].file = "tmp"  -> "dest"
                            [] agent[b].file = "dest" -> "gone"
                            [] OTHER -> agent[b].file
     IN IF tmp[x] = "none" THEN Go(a, "rename", "over") /\ UNCHANGED cas
        ELSE /\ dest' = [dest EXCEPT ![x] = tmp[x]] /\ tmp' = [tmp EXCEPT ![x] = "none"]
             /\ agent' = [b \in Agents |-> [agent[b] EXCEPT !.file = moved(b),
                                                            !.at = IF b = a THEN "note" ELSE @]]
  /\ UNCHANGED <<log, repos>> /\ Keep

NoteArtifact(a) ==
  /\ Go(a, "note", "over")
  /\ log' = log \cup {Ev("artifact", a, agent[a].content)}
  /\ UNCHANGED <<repos, cas>> /\ Keep

Die(a) ==
  /\ agent[a].at \notin {"idle", "over"} /\ deaths < MaxDeaths
  /\ deaths' = deaths + 1
  /\ agent' = [agent EXCEPT ![a].at = "over"]
  /\ UNCHANGED <<turns, log, repos, cas, backup, copy>>

-----------------------------------------------------------------------------
\* backup: .tmp files are left out.

CopyJournal ==
  /\ backup = "idle" /\ backup' = "artifacts"
  /\ copy' = [copy EXCEPT !.log = log]
  /\ UNCHANGED <<turns, log, repos, cas, agent, deaths>>

CopyArtifacts ==
  /\ backup = "artifacts" /\ backup' = "repos"
  /\ copy' = [copy EXCEPT !.dest = dest]
  /\ UNCHANGED <<turns, log, repos, cas, agent, deaths>>

\* Mutant: the journal comes last.
CopyReposAndJournal ==
  /\ backup = "repos" /\ backup' = "over"
  /\ copy' = [copy EXCEPT !.trees = trees, !.commits = commits, !.refs = refs, !.log = log]
  /\ UNCHANGED <<turns, log, repos, cas, agent, deaths>>

CopyRepos ==
  /\ backup = "repos" /\ backup' = "over"
  /\ copy' = [copy EXCEPT !.trees = trees, !.commits = commits, !.refs = refs]
  /\ UNCHANGED <<turns, log, repos, cas, agent, deaths>>

Ensure(a) == FindProject(a) \/ CreateProject(a) \/ FindExperiment(a) \/ CreateExperiment(a)
Starting(a) == \/ Resolve(a) \/ Snapshot(a) \/ Lookup(a) \/ CommitTree(a) \/ RecordTreeCommit(a)
               \/ SetRunRef(a) \/ CreateRun(a) \/ AddEdges(a)
PutArtifact(a) == OpenCopy(a) \/ FillCopy(a) \/ RenameCopy(a) \/ NoteArtifact(a)

Next == \/ \E a \in Agents : Ensure(a) \/ Starting(a) \/ PutArtifact(a) \/ Die(a)
        \/ CopyJournal \/ CopyArtifacts \/ CopyRepos

Spec == Init /\ [][Next]_vars

-----------------------------------------------------------------------------
\* What a journal L names is there: the run's ref and commit, the commit's
\* tree in its repository, and the commits of every run derived from.
CodeOf(L, T, C, R) ==
  \A e \in L : e.kind = "run" =>
    /\ <<e.by, e.of>> \in R
    /\ \E c \in C : c.by = e.of /\ <<c.repo, c.tree>> \in T
    /\ \A d \in L : d.kind = "derives-from" /\ d.by = e.by =>
         \E c \in C, p \in R : c.by = e.of /\ p[1] = d.of /\ p[2] \in c.parents
ContentOf(L, F) == \A e \in L : e.kind = "artifact" => F[e.of] = "whole"

\* At any moment, whoever overlaps or dies, every run of the journal can be
\* checked out with its lineage; while agents take turns, every artifact it
\* names is whole.
NamedIsThere == CodeOf(log, trees, commits, refs) /\ (turns => ContentOf(log, dest))

\* A finished backup is closed: what its journal names was copied, although the
\* store was written to all the while (store.py:311-316).
CopyClosed == backup = "over" =>
  /\ CodeOf(copy.log, copy.trees, copy.commits, copy.refs)
  /\ turns => ContentOf(copy.log, copy.dest)

\* While agents take turns, and wherever one of them dies, there is one project
\* and one experiment of a name, and one recorded commit of a tree with the
\* same parents: a run of unchanged code adds no commit.
OneOfEach == turns =>
  /\ Cardinality(Of("project")) <= 1 /\ Cardinality(Of("experiment")) <= 1
  /\ \A c, d \in commits :
       (\E e, f \in Of("commit") : e.by = c.by /\ f.by = d.by)
       /\ c.repo = d.repo /\ c.tree = d.tree /\ c.parents = d.parents => c = d
=============================================================================
