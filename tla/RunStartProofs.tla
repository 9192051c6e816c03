--------------------------- MODULE RunStartProofs ---------------------------
(***************************************************************************)
(* Theorems about RunStart, for any agents, trees and contents: what the   *)
(* journal names is there, what a backup's journal names was copied, and   *)
(* nothing is made twice while agents take turns.                          *)
(***************************************************************************)
EXTENDS RunStart, FiniteSetTheorems, TLAPS

-----------------------------------------------------------------------------
\* The invariant behind the properties.

Active(a) == agent[a].at \notin {"idle", "over"}
\* a's run is in the journal only from here on.
HasRun(a) == agent[a].at \in {"edges", "artifact", "copy", "rename", "note", "over"}

\* A commit that has what agent a is to name: its tree, and in its parents the
\* commit of every run that a's is derived from.
Serves(c, a) == /\ <<c.repo, c.tree>> \in trees
                /\ \A p \in agent[a].parents : \E r \in refs : r[1] = p /\ r[2] \in c.parents

\* What agent a relies on at each stage is there.
Grounded(a) ==
  /\ agent[a].at \in {"repo", "part-of", "resolve", "snapshot", "lookup", "commit"} => agent[a].exp # Nobody
  /\ agent[a].at \in {"snapshot", "lookup", "commit"} =>
        \A p \in agent[a].parents : \E r \in refs : r[1] = p
  /\ agent[a].at \in {"lookup", "commit"} => <<agent[a].exp, agent[a].tree>> \in trees
  /\ agent[a].at \in {"commit", "record"} => agent[a].commit = a
  /\ agent[a].at \in {"record", "ref", "create", "edges"} =>
        \E c \in commits : c.by = agent[a].commit /\ Serves(c, a)
  /\ agent[a].at \in {"create", "edges"} => <<a, agent[a].commit>> \in refs

\* An agent has one run in the journal, which names the commit it has in hand.
OneRun == \A e \in log :
  /\ e.kind \in {"run", "derives-from"} => HasRun(e.by)
  /\ e.kind = "run" => e.of = agent[e.by].commit

\* The tree of every commit is there before it.
TreesFirst == \A c \in commits : <<c.repo, c.tree>> \in trees

\* In turns nobody writes to a file of another: an artifact has none or all of
\* its bytes.
FilesInTurn == turns =>
  /\ \A a, b \in Agents : Active(a) /\ Active(b) => a = b
  /\ \A x \in Contents : dest[x] \in {"none", "whole"}
  /\ \A a \in Agents :
       /\ agent[a].at = "copy"   => agent[a].file = "tmp"
       /\ agent[a].at = "rename" => tmp[agent[a].content] \in {"none", "whole"}
       /\ agent[a].at = "note"   => dest[agent[a].content] = "whole"

\* What a backup has not copied yet is still there, and its copies are closed.
CopySound ==
  /\ backup \in {"artifacts", "repos"} => CodeOf(copy.log, trees, commits, refs)
  /\ backup = "artifacts" /\ turns => ContentOf(copy.log, dest)
  /\ backup = "repos" /\ turns     => ContentOf(copy.log, copy.dest)

IInv == /\ TypeOK /\ (\A a \in Agents : Grounded(a)) /\ OneRun /\ TreesFirst /\ FilesInTurn
        /\ NamedIsThere /\ CopySound /\ CopyClosed

\* What agent a has found missing, and is about to make, is still missing while
\* agents take turns: the project, the experiment, a commit of its tree.
Recorded(c) == \E e \in Of("commit") : e.by = c.by
SameKey(c, d) == c.repo = d.repo /\ c.tree = d.tree /\ c.parents = d.parents
Missing(a) ==
  /\ agent[a].at \in {"idle", "project"} => agent[a].exp = Nobody
  /\ agent[a].at = "project" => Of("project") = {}
  /\ agent[a].at = "experiment" /\ agent[a].exp # Nobody => Of("experiment") = {}
  /\ agent[a].at = "commit" => Known(a) = {}
  /\ agent[a].at = "record" =>
       \A c, d \in commits : c.by = a /\ Recorded(d) => ~SameKey(c, d)

\* An agent makes one commit, and records none but that.
OneCommit ==
  /\ \A c, d \in commits : c.by = d.by => c = d
  /\ \A c \in commits : agent[c.by].at \in {"record", "ref", "create"} \/ HasRun(c.by)
  /\ \A e \in Of("commit") : agent[e.by].at \in {"ref", "create"} \/ HasRun(e.by)

SinglesInv ==
  /\ OneCommit
  /\ turns =>
       /\ \A a \in Agents : Missing(a)
       /\ \A e, f \in Of("project") : e = f
       /\ \A e, f \in Of("experiment") : e = f
       /\ \A c, d \in commits : Recorded(c) /\ Recorded(d) /\ SameKey(c, d) => c = d

-----------------------------------------------------------------------------
\* The steps by agent and by backup.
AgentStep(a) == Ensure(a) \/ Starting(a) \/ PutArtifact(a) \/ Die(a)
BackupStep == CopyJournal \/ CopyArtifacts \/ CopyRepos

-----------------------------------------------------------------------------
\* Types.

AgentRec == [at : Stages, exp : Agents \cup {Nobody}, tree : Trees, parents : SUBSET Agents,
             commit : Agents \cup {Nobody}, content : Contents, file : {"none", "tmp", "dest", "gone"}]

\* An agent goes on to another stage with one more thing in hand.
LEMMA Moves ==
  ASSUME agent \in [Agents -> AgentRec], NEW a \in Agents, NEW s \in Stages
  PROVE  /\ [agent EXCEPT ![a].at = s] \in [Agents -> AgentRec]
         /\ \A x \in Agents : /\ [agent EXCEPT ![a].exp = x] \in [Agents -> AgentRec]
                              /\ [agent EXCEPT ![a].exp = x, ![a].at = s] \in [Agents -> AgentRec]
                              /\ [agent EXCEPT ![a].at = s, ![a].commit = x] \in [Agents -> AgentRec]
         /\ \A P \in SUBSET Agents : [agent EXCEPT ![a].at = s, ![a].parents = P] \in [Agents -> AgentRec]
         /\ \A f \in {"none", "tmp", "dest", "gone"} :
               [agent EXCEPT ![a].at = s, ![a].file = f] \in [Agents -> AgentRec]
<1> DEFINE one == [agent EXCEPT ![a].at = s]
<1>1. one \in [Agents -> AgentRec]
  BY DEF AgentRec
<1>2. ASSUME NEW x \in Agents
      PROVE  /\ [agent EXCEPT ![a].exp = x] \in [Agents -> AgentRec]
             /\ [agent EXCEPT ![a].exp = x, ![a].at = s] \in [Agents -> AgentRec]
             /\ [agent EXCEPT ![a].at = s, ![a].commit = x] \in [Agents -> AgentRec]
  <2> DEFINE two == [agent EXCEPT ![a].exp = x]
  <2>1. two \in [Agents -> AgentRec]
    BY DEF AgentRec
  <2>2. /\ [agent EXCEPT ![a].exp = x, ![a].at = s] = [two EXCEPT ![a].at = s]
        /\ [agent EXCEPT ![a].at = s, ![a].commit = x] = [one EXCEPT ![a].commit = x]
    OBVIOUS
  <2> HIDE DEF one, two
  <2>3. [two EXCEPT ![a].at = s] \in [Agents -> AgentRec] /\ [one EXCEPT ![a].commit = x] \in [Agents -> AgentRec]
    BY <1>1, <2>1 DEF AgentRec
  <2>4. QED
    BY <2>1, <2>2, <2>3 DEF two
<1>3. ASSUME NEW P \in SUBSET Agents
      PROVE  [agent EXCEPT ![a].at = s, ![a].parents = P] \in [Agents -> AgentRec]
  <2>1. [agent EXCEPT ![a].at = s, ![a].parents = P] = [one EXCEPT ![a].parents = P]
    OBVIOUS
  <2> HIDE DEF one
  <2>2. [one EXCEPT ![a].parents = P] \in [Agents -> AgentRec]
    BY <1>1 DEF AgentRec
  <2>3. QED
    BY <2>1, <2>2
<1>4. ASSUME NEW f \in {"none", "tmp", "dest", "gone"}
      PROVE  [agent EXCEPT ![a].at = s, ![a].file = f] \in [Agents -> AgentRec]
  <2>1. [agent EXCEPT ![a].at = s, ![a].file = f] = [one EXCEPT ![a].file = f]
    OBVIOUS
  <2> HIDE DEF one
  <2>2. [one EXCEPT ![a].file = f] \in [Agents -> AgentRec]
    BY <1>1 DEF AgentRec
  <2>3. QED
    BY <2>1, <2>2
<1>5. QED
  BY <1>1, <1>2, <1>3, <1>4

\* What is in the store besides the agents' hands.
StoreTypes ==
  /\ turns \in BOOLEAN /\ log \subseteq Event
  /\ trees \subseteq Agents \X Trees /\ commits \subseteq Commit /\ refs \subseteq Agents \X Agents
  /\ dest \in [Contents -> File] /\ tmp \in [Contents -> File]
  /\ backup \in {"idle", "artifacts", "repos", "over"}
  /\ copy \in [log : SUBSET Event, dest : [Contents -> File], trees : SUBSET (Agents \X Trees),
               commits : SUBSET Commit, refs : SUBSET (Agents \X Agents)]

LEMMA TypeParts == TypeOK <=> StoreTypes /\ agent \in [Agents -> AgentRec]
BY DEF TypeOK, StoreTypes, AgentRec

LEMMA EventTypes ==
  ASSUME NEW a \in Agents
  PROVE  /\ \A k \in {"project", "experiment", "part-of", "commit", "run", "derives-from"},
              of \in Agents \cup {Nobody} : Ev(k, a, of) \in Event
         /\ \A x \in Contents : Ev("artifact", a, x) \in Event
BY DEF Ev, Event

LEMMA AgentTypes ==
  ASSUME TypeOK, NEW a \in Agents, Grounded(a), AgentStep(a)
  PROVE  TypeOK'
<1> SUFFICES StoreTypes' /\ agent' \in [Agents -> AgentRec]
  BY DEF TypeOK, StoreTypes, AgentRec
<1>1. /\ StoreTypes /\ agent \in [Agents -> AgentRec] /\ agent[a] \in AgentRec
      /\ \A e \in log : e.by \in Agents
      /\ \A s \in Stages : [agent EXCEPT ![a].at = s] \in [Agents -> AgentRec]
  BY TypeParts, Moves DEF StoreTypes, Event
<1>2. \A s \in Stages, x \in Agents :
        /\ [agent EXCEPT ![a].exp = x] \in [Agents -> AgentRec]
        /\ [agent EXCEPT ![a].exp = x, ![a].at = s] \in [Agents -> AgentRec]
        /\ [agent EXCEPT ![a].at = s, ![a].commit = x] \in [Agents -> AgentRec]
  BY <1>1, Moves
<1>3. /\ \A of \in Agents \cup {Nobody} :
           /\ Ev("project", a, of) \in Event /\ Ev("experiment", a, of) \in Event
           /\ Ev("part-of", a, of) \in Event /\ Ev("derives-from", a, of) \in Event
      /\ \A x \in Contents : Ev("artifact", a, x) \in Event
  BY EventTypes
<1> USE DEF StoreTypes, Keep, Go, repos, cas
<1>4. CASE FindProject(a)
  BY <1>1, <1>4 DEF FindProject, Stages
<1>5. CASE CreateProject(a)
  BY <1>1, <1>5, EventTypes DEF CreateProject, Stages
<1>6. CASE FindExperiment(a)
  <2>1. agent' \in [Agents -> AgentRec]
    <3>1. CASE Of("experiment") = {}
      <4>1. agent' = [agent EXCEPT ![a].exp = a]
        BY <1>6, <3>1 DEF FindExperiment
      <4>2. "resolve" \in Stages
        BY DEF Stages
      <4>3. QED
        BY <1>2, <4>1, <4>2
    <3>2. CASE Of("experiment") # {}
      <4>1. PICK e \in Of("experiment") : agent' = [agent EXCEPT ![a].exp = e.by, ![a].at = "resolve"]
        BY <1>6, <3>2 DEF FindExperiment
      <4>2. e.by \in Agents
        BY <1>1 DEF Of
      <4>3. QED
        BY <1>2, <4>1, <4>2 DEF Stages
    <3>3. QED
      BY <3>1, <3>2
  <2>2. QED
    BY <1>1, <1>6, <2>1 DEF FindExperiment
<1>7. CASE CreateExperiment(a)
  <2>1. agent' \in [Agents -> AgentRec]
    BY <1>1, <1>7 DEF CreateExperiment, Stages
  <2>2. log' \subseteq Event
    BY <1>1, <1>7, <1>3 DEF CreateExperiment
  <2>3. QED
    BY <1>1, <1>7, <2>1, <2>2 DEF CreateExperiment
<1>8. CASE Resolve(a)
  <2>1. PICK P \in SUBSET {e.by : e \in Of("run")} :
           agent' = [agent EXCEPT ![a].at = "snapshot", ![a].parents = P]
    BY <1>8 DEF Resolve
  <2>2. P \in SUBSET Agents
    BY <1>1 DEF Of
  <2>3. QED
    BY <1>1, <1>8, <2>1, <2>2, Moves DEF Resolve, Stages
<1>9. CASE Snapshot(a)
  <2>1. <<agent[a].exp, agent[a].tree>> \in Agents \X Trees
    BY <1>1, <1>9 DEF Snapshot, Grounded, AgentRec
  <2>2. QED
    BY <1>1, <1>9, <2>1 DEF Snapshot, Stages
<1>10. CASE Lookup(a)
  <2>1. \A c \in Known(a) : c.by \in Agents
    BY <1>1 DEF Known, Commit
  <2>2. QED
    <3>1. agent' \in [Agents -> AgentRec]
      <4>1. CASE Known(a) = {}
        <5>1. agent' = [agent EXCEPT ![a].at = "commit", ![a].commit = a] /\ "commit" \in Stages
          BY <1>10, <4>1 DEF Lookup, Stages
        <5>2. QED
          BY <1>2, <5>1
      <4>2. CASE Known(a) # {}
        <5>1. PICK c \in Known(a) : agent' = [agent EXCEPT ![a].at = "ref", ![a].commit = c.by]
          BY <1>10, <4>2 DEF Lookup
        <5>2. "ref" \in Stages /\ c.by \in Agents
          BY <2>1 DEF Stages
        <5>3. QED
          BY <1>2, <5>1, <5>2
      <4>3. QED
        BY <4>1, <4>2
    <3>2. QED
      BY <1>1, <1>10, <3>1 DEF Lookup
<1>11. CASE CommitTree(a)
  <2>1. agent[a].exp \in Agents /\ agent[a].tree \in Trees
    BY <1>1, <1>11 DEF CommitTree, Grounded, AgentRec
  <2>2. Parents(a) \subseteq Agents
    BY <1>1 DEF Parents
  <2>3. [by |-> a, repo |-> agent[a].exp, tree |-> agent[a].tree, parents |-> Parents(a)] \in Commit
    BY <2>1, <2>2 DEF Commit
  <2>4. QED
    BY <1>1, <1>11, <2>3 DEF CommitTree, Stages
<1>12. CASE RecordTreeCommit(a)
  BY <1>1, <1>12, EventTypes DEF RecordTreeCommit, Stages
<1>13. CASE SetRunRef(a)
  <2>1. agent[a].commit \in Agents
    BY <1>1, <1>13 DEF SetRunRef, Grounded, Commit
  <2>2. QED
    BY <1>1, <1>13, <2>1 DEF SetRunRef, Stages
<1>14. CASE CreateRun(a)
  <2>1. agent[a].commit \in Agents
    BY <1>1, <1>14 DEF CreateRun, Grounded, Commit
  <2>2. QED
    BY <1>1, <1>14, <2>1, EventTypes DEF CreateRun, Stages
<1>15. CASE AddEdges(a)
  <2>1. agent[a].parents \subseteq Agents
    BY <1>1 DEF AgentRec
  <2>2. QED
    <3>1. agent' \in [Agents -> AgentRec]
      BY <1>1, <1>15 DEF AddEdges, Stages
    <3>2. log' \subseteq Event
      BY <1>1, <1>15, <1>3, <2>1 DEF AddEdges
    <3>3. QED
      BY <1>1, <1>15, <3>1, <3>2 DEF AddEdges
<1>16. CASE OpenCopy(a)
  <2>1. agent' \in [Agents -> AgentRec]
    <3>1. CASE dest[agent[a].content] # "none"
      BY <1>1, <1>16, <3>1 DEF OpenCopy, Stages
    <3>2. CASE dest[agent[a].content] = "none"
      <4>1. agent' = [agent EXCEPT ![a].at = "copy", ![a].file = "tmp"]
        BY <1>16, <3>2 DEF OpenCopy
      <4>2. QED
        BY <1>1, <4>1, Moves DEF Stages
    <3>3. QED
      BY <3>1, <3>2
  <2>2. tmp' \in [Contents -> File] /\ dest' = dest
    BY <1>1, <1>16 DEF OpenCopy, File
  <2>3. QED
    BY <1>1, <1>16, <2>1, <2>2 DEF OpenCopy
<1>17. CASE FillCopy(a)
  BY <1>1, <1>17 DEF FillCopy, Stages, File
<1>18. CASE RenameCopy(a)
  <2>1. dest' \in [Contents -> File] /\ tmp' \in [Contents -> File]
    <3>1. agent[a].content \in Contents /\ "none" \in File
      BY <1>1 DEF AgentRec, File
    <3>2. \/ UNCHANGED <<dest, tmp>>
          \/ /\ dest' = [dest EXCEPT ![agent[a].content] = tmp[agent[a].content]]
             /\ tmp' = [tmp EXCEPT ![agent[a].content] = "none"]
      BY <1>18 DEF RenameCopy
    <3>3. QED
      BY <1>1, <3>1, <3>2
  <2>2. agent' \in [Agents -> AgentRec]
    <3>1. CASE tmp[agent[a].content] = "none"
      BY <1>1, <1>18, <3>1 DEF RenameCopy, Stages
    <3>2. CASE tmp[agent[a].content] # "none"
      <4>1. ASSUME NEW b \in Agents
            PROVE  agent'[b] \in AgentRec
        <5>1. PICK f \in {"none", "tmp", "dest", "gone"}, s \in Stages :
                 agent'[b] = [agent[b] EXCEPT !.file = f, !.at = s]
          <6>1. agent[b].file \in {"none", "tmp", "dest", "gone"} /\ agent[b].at \in Stages /\ "note" \in Stages
            BY <1>1 DEF AgentRec, Stages
          <6>2. QED
            BY <1>18, <3>2, <6>1 DEF RenameCopy
        <5>2. agent[b] \in AgentRec
          BY <1>1
        <5>3. QED
          BY <5>1, <5>2 DEF AgentRec
      <4>2. QED
        BY <1>18, <3>2, <4>1 DEF RenameCopy
    <3>3. QED
      BY <3>1, <3>2
  <2>3. QED
    BY <1>1, <1>18, <2>1, <2>2 DEF RenameCopy
<1>19. CASE NoteArtifact(a)
  <2>1. agent[a].content \in Contents
    BY <1>1 DEF AgentRec
  <2>2. log' \subseteq Event
    BY <1>1, <1>19, <1>3, <2>1 DEF NoteArtifact
  <2>3. agent' \in [Agents -> AgentRec]
    BY <1>1, <1>19 DEF NoteArtifact, Stages
  <2>4. QED
    BY <1>1, <1>19, <2>2, <2>3 DEF NoteArtifact
<1>20. CASE Die(a)
  BY <1>1, <1>20 DEF Die, Stages
<1>21. QED
  BY <1>4, <1>5, <1>6, <1>7, <1>8, <1>9, <1>10, <1>11, <1>12, <1>13, <1>14, <1>15, <1>16, <1>17,
     <1>18, <1>19, <1>20 DEF AgentStep, Ensure, Starting, PutArtifact

LEMMA BackupTypes ==
  ASSUME TypeOK, BackupStep
  PROVE  TypeOK'
<1> SUFFICES StoreTypes' /\ agent' \in [Agents -> AgentRec]
  BY DEF TypeOK, StoreTypes, AgentRec
<1> USE TypeParts DEF StoreTypes, repos, cas
<1>1. CASE CopyJournal
  BY <1>1 DEF CopyJournal
<1>2. CASE CopyArtifacts
  BY <1>2 DEF CopyArtifacts
<1>3. CASE CopyRepos
  <2> DEFINE one == [copy EXCEPT !.trees = trees]
             two == [one EXCEPT !.commits = commits]
             all == [log : SUBSET Event, dest : [Contents -> File], trees : SUBSET (Agents \X Trees),
                     commits : SUBSET Commit, refs : SUBSET (Agents \X Agents)]
  <2>1. one \in all
    OBVIOUS
  <2>2. copy' = [two EXCEPT !.refs = refs]
    BY <1>3 DEF CopyRepos
  <2> HIDE DEF one
  <2>3. two \in all
    BY <2>1
  <2> HIDE DEF two
  <2>4. copy' \in all
    BY <2>2, <2>3
  <2>5. QED
    BY <1>3, <2>4 DEF CopyRepos
<1>4. QED
  BY <1>1, <1>2, <1>3 DEF BackupStep

-----------------------------------------------------------------------------
\* What the agents rely on.

\* Nothing is removed from the repositories or the journal.
LEMMA NothingGoes ==
  ASSUME NEW a \in Agents, AgentStep(a)
  PROVE  /\ trees \subseteq trees' /\ commits \subseteq commits' /\ refs \subseteq refs'
         /\ UNCHANGED <<turns, backup, copy>>
<1> USE DEF Keep, repos, cas
<1>1. CASE Ensure(a)
  BY <1>1 DEF Ensure, FindProject, CreateProject, FindExperiment, CreateExperiment
<1>2. CASE Starting(a)
  BY <1>2 DEF Starting, Resolve, Snapshot, Lookup, CommitTree, RecordTreeCommit, SetRunRef, CreateRun, AddEdges
<1>3. CASE PutArtifact(a)
  BY <1>3 DEF PutArtifact, OpenCopy, FillCopy, RenameCopy, NoteArtifact
<1>4. CASE Die(a)
  BY <1>4 DEF Die
<1>5. QED
  BY <1>1, <1>2, <1>3, <1>4 DEF AgentStep

\* An agent's step leaves the others where they are, with what they have in hand.
Alike(b) == /\ agent'[b].at = agent[b].at /\ agent'[b].exp = agent[b].exp
            /\ agent'[b].tree = agent[b].tree /\ agent'[b].parents = agent[b].parents
            /\ agent'[b].commit = agent[b].commit /\ agent'[b].content = agent[b].content

LEMMA OthersStay ==
  ASSUME TypeOK, NEW a \in Agents, AgentStep(a), NEW b \in Agents, b # a
  PROVE  Alike(b)
<1>1. agent \in [Agents -> AgentRec]
  BY TypeParts
<1> USE <1>1 DEF Go, Alike
<1>2. CASE Ensure(a)
  BY <1>2 DEF Ensure, FindProject, CreateProject, FindExperiment, CreateExperiment
<1>3. CASE Starting(a)
  BY <1>3 DEF Starting, Resolve, Snapshot, Lookup, CommitTree, RecordTreeCommit, SetRunRef, CreateRun, AddEdges
<1>4. CASE OpenCopy(a) \/ FillCopy(a) \/ NoteArtifact(a)
  BY <1>4 DEF OpenCopy, FillCopy, NoteArtifact
<1>5. CASE RenameCopy(a)
  <2>1. CASE tmp[agent[a].content] = "none"
    BY <1>5, <2>1 DEF RenameCopy
  <2>2. CASE tmp[agent[a].content] # "none"
    <3>1. \E f \in {agent[b].file, "dest", "gone"} : agent'[b] = [agent[b] EXCEPT !.file = f, !.at = agent[b].at]
      BY <1>5, <2>2 DEF RenameCopy
    <3>2. agent[b] \in AgentRec
      OBVIOUS
    <3>3. QED
      BY <3>1, <3>2 DEF AgentRec
  <2>3. QED
    BY <2>1, <2>2
<1>6. CASE Die(a)
  BY <1>6 DEF Die
<1>7. QED
  BY <1>2, <1>3, <1>4, <1>5, <1>6 DEF AgentStep, PutArtifact

\* What was there for an agent that stays is there still.
LEMMA GroundStays ==
  ASSUME NEW b \in Agents, Grounded(b), Alike(b),
         trees \subseteq trees', commits \subseteq commits', refs \subseteq refs'
  PROVE  Grounded(b)'
<1>1. \A c \in commits : Serves(c, b) => Serves(c, b)'
  BY DEF Serves, Alike
<1>2. QED
  BY <1>1 DEF Grounded, Alike

\* Going on changes the stage alone.
LEMMA Goes ==
  ASSUME agent \in [Agents -> AgentRec], NEW a \in Agents, NEW s, NEW t, Go(a, s, t)
  PROVE  /\ agent[a].at = s /\ agent'[a].at = t /\ agent'[a].exp = agent[a].exp
         /\ agent'[a].tree = agent[a].tree /\ agent'[a].parents = agent[a].parents
         /\ agent'[a].commit = agent[a].commit
<1>1. agent[a].at = s /\ agent' = [agent EXCEPT ![a].at = t]
  BY DEF Go
<1>2. QED
  BY <1>1

\* The agent that steps finds what it relies on next.
LEMMA GroundFound ==
  ASSUME TypeOK, OneRun, TreesFirst, NamedIsThere, NEW a \in Agents, Grounded(a), AgentStep(a)
  PROVE  Grounded(a)'
<1>1. agent \in [Agents -> AgentRec] /\ a # Nobody /\ refs \subseteq Agents \X Agents /\ log \subseteq Event
  BY TypeParts, RunStartAssumption DEF StoreTypes
<1> USE <1>1 DEF Go, repos
<1>2. CASE FindProject(a) \/ CreateProject(a)
  <2>1. agent'[a].at \in {"project", "experiment"}
    <3>1. CASE FindProject(a)
      BY <3>1, Goes DEF FindProject
    <3>2. CASE CreateProject(a)
      BY <3>2, Goes DEF CreateProject
    <3>3. QED
      BY <1>2, <3>1, <3>2
  <2>2. QED
    BY <2>1 DEF Grounded
<1>3. CASE FindExperiment(a)
  <2>1. CASE Of("experiment") = {}
    <3>1. agent[a].at = "experiment" /\ agent' = [agent EXCEPT ![a].exp = a]
      BY <1>3, <2>1 DEF FindExperiment
    <3>2. agent'[a].at = "experiment"
      BY <3>1
    <3>3. QED
      BY <3>2 DEF Grounded
  <2>2. CASE Of("experiment") # {}
    <3>1. PICK e \in Of("experiment") : agent' = [agent EXCEPT ![a].exp = e.by, ![a].at = "resolve"]
      BY <1>3, <2>2 DEF FindExperiment
    <3>2. e.by # Nobody
      BY RunStartAssumption DEF Of, Event
    <3>3. agent'[a].at = "resolve" /\ agent'[a].exp = e.by
      BY <3>1
    <3>4. QED
      BY <3>2, <3>3 DEF Grounded
  <2>3. QED
    BY <2>1, <2>2
<1>4. CASE CreateExperiment(a)
  <2>1. agent'[a].at \in {"repo", "part-of", "resolve"} /\ agent'[a].exp = a
    <3>1. agent[a].exp = a
      BY <1>4 DEF CreateExperiment
    <3>2. \/ Go(a, "experiment", "repo") \/ Go(a, "repo", "part-of") \/ Go(a, "part-of", "resolve")
      BY <1>4 DEF CreateExperiment
    <3> HIDE DEF Go
    <3>3. QED
      BY <3>1, <3>2, Goes
  <2>2. QED
    BY <2>1 DEF Grounded
<1>5. CASE Resolve(a)
  <2>1. PICK P \in SUBSET {e.by : e \in Of("run")} :
           agent' = [agent EXCEPT ![a].at = "snapshot", ![a].parents = P]
    BY <1>5 DEF Resolve
  <2>2. /\ agent'[a].at = "snapshot" /\ agent'[a].parents = P /\ agent'[a].exp = agent[a].exp
        /\ agent[a].at = "resolve" /\ refs' = refs
    <3>1. agent[a].at = "resolve" /\ refs' = refs
      BY <1>5 DEF Resolve
    <3>2. QED
      BY <2>1, <3>1
  <2>3. \A q \in P : \E r \in refs : r[1] = q
    BY <2>1 DEF Of, NamedIsThere, CodeOf
  <2>4. QED
    BY <2>2, <2>3 DEF Grounded
<1>6. CASE Snapshot(a)
  <2>1. /\ agent[a].at = "snapshot" /\ agent' = [agent EXCEPT ![a].at = "lookup"] /\ refs' = refs
        /\ trees' = trees \cup {<<agent[a].exp, agent[a].tree>>}
    BY <1>6 DEF Snapshot
  <2>2. /\ agent'[a].at = "lookup" /\ agent'[a].exp = agent[a].exp
        /\ agent'[a].tree = agent[a].tree /\ agent'[a].parents = agent[a].parents
    BY <2>1
  <2>3. QED
    BY <2>1, <2>2 DEF Grounded
<1>7. CASE Lookup(a)
  <2>1. CASE Known(a) = {}
    <3>1. agent' = [agent EXCEPT ![a].at = "commit", ![a].commit = a]
      BY <1>7, <2>1 DEF Lookup
    <3>2. /\ agent'[a].at = "commit" /\ agent'[a].commit = a /\ agent'[a].exp = agent[a].exp
          /\ agent'[a].tree = agent[a].tree /\ agent'[a].parents = agent[a].parents
      BY <3>1
    <3>3. agent[a].at = "lookup" /\ trees' = trees /\ refs' = refs
      BY <1>7 DEF Lookup
    <3>4. QED
      BY <3>2, <3>3 DEF Grounded
  <2>2. CASE Known(a) # {}
    <3>1. PICK c \in Known(a) : agent' = [agent EXCEPT ![a].at = "ref", ![a].commit = c.by]
      BY <1>7, <2>2 DEF Lookup
    <3>2. /\ agent'[a].at = "ref" /\ agent'[a].commit = c.by /\ agent'[a].parents = agent[a].parents
      BY <3>1
    <3>3. agent[a].at = "lookup" /\ UNCHANGED <<trees, commits, refs>>
      BY <1>7 DEF Lookup
    <3>4. c \in commits /\ c.parents = Parents(a)
      BY DEF Known
    <3>5. <<c.repo, c.tree>> \in trees
      BY <3>4 DEF TreesFirst
    <3>6. \A q \in agent[a].parents : \E r \in refs : r[1] = q /\ r[2] \in c.parents
      BY <3>3, <3>4 DEF Parents, Grounded
    <3>7. Serves(c, a)'
      BY <3>2, <3>3, <3>5, <3>6 DEF Serves
    <3>8. QED
      BY <3>2, <3>3, <3>4, <3>7 DEF Grounded
  <2>3. QED
    BY <2>1, <2>2
<1>8. CASE CommitTree(a)
  <2> DEFINE c == [by |-> a, repo |-> agent[a].exp, tree |-> agent[a].tree, parents |-> Parents(a)]
  <2>1. /\ agent[a].at = "commit" /\ agent' = [agent EXCEPT ![a].at = "record"]
        /\ commits' = commits \cup {c} /\ UNCHANGED <<trees, refs>>
    BY <1>8 DEF CommitTree
  <2>2. /\ agent'[a].at = "record" /\ agent'[a].commit = agent[a].commit
        /\ agent'[a].parents = agent[a].parents
    BY <2>1
  <2>3. \A q \in agent[a].parents : \E r \in refs : r[1] = q /\ r[2] \in Parents(a)
    BY <2>1 DEF Parents, Grounded
  <2>4. <<agent[a].exp, agent[a].tree>> \in trees /\ agent[a].commit = a
    BY <2>1 DEF Grounded
  <2>5. /\ <<c.repo, c.tree>> \in trees'
        /\ \A q \in agent'[a].parents : \E r \in refs' : r[1] = q /\ r[2] \in c.parents
    BY <2>1, <2>2, <2>3, <2>4
  <2>6. c \in commits' /\ c.by = a
    BY <2>1
  <2> HIDE DEF c
  <2>7. QED
    BY <2>1, <2>2, <2>4, <2>6, <2>5 DEF Grounded, Serves
<1>9. CASE RecordTreeCommit(a) \/ SetRunRef(a) \/ CreateRun(a) \/ AddEdges(a)
  <2>1. /\ trees \subseteq trees' /\ commits \subseteq commits' /\ refs \subseteq refs'
    BY NothingGoes
  <2>2. \/ Go(a, "record", "ref") \/ Go(a, "ref", "create") \/ Go(a, "create", "edges")
        \/ Go(a, "edges", "artifact") \/ (agent[a].at = "edges" /\ agent' = agent)
    BY <1>9 DEF RecordTreeCommit, SetRunRef, CreateRun, AddEdges
  <2>3. /\ agent'[a].commit = agent[a].commit /\ agent'[a].parents = agent[a].parents
        /\ agent[a].at \in {"record", "ref", "create", "edges"}
        /\ agent'[a].at \in {"ref", "create", "edges", "artifact"}
        /\ agent'[a].at = "edges" => agent[a].at \in {"create", "edges"}
        /\ agent'[a].at = "create" => agent[a].at = "ref"
    <3> HIDE DEF Go
    <3>1. QED
      BY <2>2, Goes
  <2>4. \A c \in commits : Serves(c, a) => Serves(c, a)'
    BY <2>1, <2>3 DEF Serves
  <2>5. agent[a].at = "ref" => <<a, agent[a].commit>> \in refs'
    BY <1>9 DEF RecordTreeCommit, SetRunRef, CreateRun, AddEdges
  <2>6. agent'[a].at \in {"create", "edges"} => <<a, agent[a].commit>> \in refs'
    BY <2>1, <2>3, <2>5 DEF Grounded
  <2>7. QED
    BY <2>1, <2>3, <2>4, <2>6 DEF Grounded
<1>10. CASE PutArtifact(a) \/ Die(a)
  <2>1. agent'[a].at \in {"artifact", "copy", "rename", "note", "over"}
    <3>1. CASE OpenCopy(a)
      <4>1. CASE dest[agent[a].content] = "none"
        <5>1. agent' = [agent EXCEPT ![a].at = "copy", ![a].file = "tmp"]
          BY <3>1, <4>1 DEF OpenCopy
        <5>2. QED
          BY <5>1
      <4>2. CASE dest[agent[a].content] # "none"
        BY <3>1, <4>2, Goes DEF OpenCopy
      <4>3. QED
        BY <4>1, <4>2
    <3>2. CASE FillCopy(a) \/ NoteArtifact(a) \/ Die(a)
      <4>1. Go(a, "copy", "rename") \/ Go(a, "note", "over") \/ agent' = [agent EXCEPT ![a].at = "over"]
        BY <3>2 DEF FillCopy, NoteArtifact, Die
      <4>2. agent' = [agent EXCEPT ![a].at = "over"] => agent'[a].at = "over"
        OBVIOUS
      <4> HIDE DEF Go
      <4>3. QED
        BY <4>1, <4>2, Goes
    <3>3. CASE RenameCopy(a)
      <4>1. CASE tmp[agent[a].content] = "none"
        BY <3>3, <4>1, Goes DEF RenameCopy
      <4>2. CASE tmp[agent[a].content] # "none"
        <5>1. \E f \in {agent[a].file, "dest", "gone"} : agent'[a] = [agent[a] EXCEPT !.file = f, !.at = "note"]
          BY <3>3, <4>2 DEF RenameCopy
        <5>2. agent[a] \in AgentRec
          OBVIOUS
        <5>3. QED
          BY <5>1, <5>2 DEF AgentRec
      <4>3. QED
        BY <4>1, <4>2
    <3>4. QED
      BY <1>10, <3>1, <3>2, <3>3 DEF PutArtifact
  <2>2. QED
    BY <2>1 DEF Grounded
<1>11. QED
  BY <1>2, <1>3, <1>4, <1>5, <1>6, <1>7, <1>8, <1>9, <1>10 DEF AgentStep, Ensure, Starting

-----------------------------------------------------------------------------
\* What the journal names.

\* Code that is there stays there, and other events name none.
LEMMA CodeGrows ==
  ASSUME NEW L, NEW M, NEW T, NEW U, NEW C, NEW D, NEW R, NEW S, CodeOf(L, T, C, R),
         T \subseteq U, C \subseteq D, R \subseteq S,
         \A e \in M : e \in L \/ e.kind \notin {"run", "derives-from"}
  PROVE  CodeOf(M, U, D, S)
<1> SUFFICES ASSUME NEW e \in M, e.kind = "run"
             PROVE  /\ <<e.by, e.of>> \in S
                    /\ \E c \in D : c.by = e.of /\ <<c.repo, c.tree>> \in U
                    /\ \A d \in M : d.kind = "derives-from" /\ d.by = e.by =>
                         \E c \in D, p \in S : c.by = e.of /\ p[1] = d.of /\ p[2] \in c.parents
  BY DEF CodeOf
<1>1. e \in L
  OBVIOUS
<1>2. /\ <<e.by, e.of>> \in R
      /\ \E c \in C : c.by = e.of /\ <<c.repo, c.tree>> \in T
      /\ \A d \in L : d.kind = "derives-from" /\ d.by = e.by =>
           \E c \in C, p \in R : c.by = e.of /\ p[1] = d.of /\ p[2] \in c.parents
  BY <1>1 DEF CodeOf
<1>3. QED
  BY <1>2

\* What a step adds to the journal.
LEMMA LogGrows ==
  ASSUME NEW a \in Agents, AgentStep(a)
  PROVE  \/ log' = log
         \/ \E k \in {"project", "experiment", "part-of", "commit", "artifact"},
               of \in {Nobody, agent[a].content} :
              /\ log' = log \cup {Ev(k, a, of)}
              /\ k = "artifact" => NoteArtifact(a)
         \/ CreateRun(a)
         \/ AddEdges(a)
<1> USE DEF Keep, repos, cas
<1>1. CASE Ensure(a)
  BY <1>1 DEF Ensure, FindProject, CreateProject, FindExperiment, CreateExperiment
<1>2. CASE Starting(a)
  BY <1>2 DEF Starting, Resolve, Snapshot, Lookup, CommitTree, RecordTreeCommit, SetRunRef
<1>3. CASE PutArtifact(a)
  BY <1>3 DEF PutArtifact, OpenCopy, FillCopy, RenameCopy, NoteArtifact
<1>4. CASE Die(a)
  BY <1>4 DEF Die
<1>5. QED
  BY <1>1, <1>2, <1>3, <1>4 DEF AgentStep

LEMMA CodeStays ==
  ASSUME TypeOK, OneRun, NEW a \in Agents, Grounded(a), AgentStep(a), CodeOf(log, trees, commits, refs)
  PROVE  CodeOf(log', trees', commits', refs')
<1>1. /\ trees \subseteq trees' /\ commits \subseteq commits' /\ refs \subseteq refs'
      /\ agent \in [Agents -> AgentRec] /\ \A e \in log : e.by \in Agents
  BY NothingGoes, TypeParts DEF StoreTypes, Event
<1>2. CASE \A e \in log' : e \in log \/ e.kind \notin {"run", "derives-from"}
  BY <1>1, <1>2, CodeGrows
<1>3. CASE CreateRun(a)
  <2> DEFINE new == Ev("run", a, agent[a].commit)
  <2>1. /\ agent[a].at = "create" /\ log' = log \cup {new}
        /\ new.kind = "run" /\ new.by = a /\ new.of = agent[a].commit
    BY <1>3 DEF CreateRun, Go, Ev
  <2>2. \A e \in log : e.kind = "derives-from" => e.by # a
    BY <1>1, <2>1 DEF OneRun, HasRun
  <2>3. CodeOf(log, trees', commits', refs')
    BY <1>1, CodeGrows
  <2>4. <<a, agent[a].commit>> \in refs' /\ \E c \in commits' : c.by = agent[a].commit /\ <<c.repo, c.tree>> \in trees'
    BY <1>1, <2>1 DEF Grounded, Serves
  <2> HIDE DEF new
  <2>5. ASSUME NEW e \in log', e.kind = "run"
        PROVE  /\ <<e.by, e.of>> \in refs'
               /\ \E c \in commits' : c.by = e.of /\ <<c.repo, c.tree>> \in trees'
               /\ \A d \in log' : d.kind = "derives-from" /\ d.by = e.by =>
                    \E c \in commits', p \in refs' : c.by = e.of /\ p[1] = d.of /\ p[2] \in c.parents
    <3>1. CASE e = new
      BY <2>1, <2>2, <2>4, <3>1
    <3>2. CASE e \in log
      <4>1. \A d \in log' : d.kind = "derives-from" => d \in log
        BY <2>1
      <4>2. QED
        BY <2>3, <2>5, <3>2, <4>1 DEF CodeOf
    <3>3. QED
      BY <2>1, <3>1, <3>2
  <2>6. QED
    BY <2>5 DEF CodeOf
<1>4. CASE AddEdges(a) /\ log' # log
  <2>1. PICK p \in agent[a].parents : log' = log \cup {Ev("derives-from", a, p)}
    BY <1>4 DEF AddEdges
  <2> DEFINE new == Ev("derives-from", a, p)
  <2>2. agent[a].at = "edges" /\ new.kind = "derives-from" /\ new.by = a /\ new.of = p
    BY <1>4 DEF AddEdges, Ev
  <2>3. PICK c \in commits, r \in refs : c.by = agent[a].commit /\ r[1] = p /\ r[2] \in c.parents
    BY <2>2 DEF Grounded, Serves
  <2>4. \A e \in log : e.kind = "run" /\ e.by = a => e.of = agent[a].commit
    BY DEF OneRun
  <2>5. CodeOf(log, trees', commits', refs')
    BY <1>1, CodeGrows
  <2>6. log' = log \cup {new} /\ c \in commits' /\ r \in refs'
    BY <1>1, <2>1
  <2> HIDE DEF new
  <2>7. ASSUME NEW e \in log', e.kind = "run"
        PROVE  /\ <<e.by, e.of>> \in refs'
               /\ \E k \in commits' : k.by = e.of /\ <<k.repo, k.tree>> \in trees'
               /\ \A d \in log' : d.kind = "derives-from" /\ d.by = e.by =>
                    \E k \in commits', q \in refs' : k.by = e.of /\ q[1] = d.of /\ q[2] \in k.parents
    <3>1. e \in log
      BY <2>2, <2>6, <2>7
    <3>2. /\ <<e.by, e.of>> \in refs'
          /\ \E k \in commits' : k.by = e.of /\ <<k.repo, k.tree>> \in trees'
          /\ \A d \in log : d.kind = "derives-from" /\ d.by = e.by =>
               \E k \in commits', q \in refs' : k.by = e.of /\ q[1] = d.of /\ q[2] \in k.parents
      BY <2>5, <2>7, <3>1 DEF CodeOf
    <3>3. e.by = a => \E k \in commits', q \in refs' : k.by = e.of /\ q[1] = p /\ q[2] \in k.parents
      BY <2>3, <2>4, <2>6, <2>7, <3>1
    <3>4. QED
      BY <2>2, <2>6, <3>2, <3>3
  <2>8. QED
    BY <2>7 DEF CodeOf
<1>5. QED
  BY <1>2, <1>3, <1>4, LogGrows DEF Ev

-----------------------------------------------------------------------------
\* One run of an agent, and no commit before its tree.

\* An agent that has its run keeps the commit it names.
LEMMA RunStays ==
  ASSUME TypeOK, NEW a \in Agents, HasRun(a), AgentStep(a)
  PROVE  HasRun(a)' /\ agent'[a].commit = agent[a].commit
<1>1. agent \in [Agents -> AgentRec]
  BY TypeParts
<1>2. \/ Go(a, "edges", "artifact") \/ Go(a, "artifact", "note") \/ Go(a, "copy", "rename")
      \/ Go(a, "rename", "over") \/ Go(a, "note", "over") \/ (agent' = agent)
      \/ (agent' = [agent EXCEPT ![a].at = "over"])
      \/ (agent' = [agent EXCEPT ![a].at = "copy", ![a].file = "tmp"])
      \/ (RenameCopy(a) /\ tmp[agent[a].content] # "none")
  <2> HIDE DEF RenameCopy
  <2>1. CASE Ensure(a)
    BY <2>1 DEF Ensure, FindProject, CreateProject, FindExperiment, CreateExperiment, HasRun, Go
  <2>2. CASE Starting(a)
    BY <2>2 DEF Starting, Resolve, Snapshot, Lookup, CommitTree, RecordTreeCommit, SetRunRef, CreateRun,
                AddEdges, HasRun, Go
  <2>3. CASE OpenCopy(a) \/ FillCopy(a) \/ NoteArtifact(a) \/ Die(a)
    BY <2>3 DEF OpenCopy, FillCopy, NoteArtifact, Die
  <2>4. CASE RenameCopy(a)
    BY <2>4 DEF RenameCopy
  <2>5. QED
    BY <2>1, <2>2, <2>3, <2>4 DEF AgentStep, PutArtifact
<1>3. CASE \/ Go(a, "edges", "artifact") \/ Go(a, "artifact", "note") \/ Go(a, "copy", "rename")
           \/ Go(a, "rename", "over") \/ Go(a, "note", "over")
  BY <1>1, <1>3, Goes DEF HasRun
<1>4. CASE agent' = agent
  BY <1>4 DEF HasRun
<1>5. CASE agent' = [agent EXCEPT ![a].at = "over"]
  <2>1. agent'[a].at = "over" /\ agent'[a].commit = agent[a].commit
    BY <1>1, <1>5
  <2>2. QED
    BY <2>1 DEF HasRun
<1>6. CASE agent' = [agent EXCEPT ![a].at = "copy", ![a].file = "tmp"]
  <2>1. agent'[a].at = "copy" /\ agent'[a].commit = agent[a].commit
    BY <1>1, <1>6
  <2>2. QED
    BY <2>1 DEF HasRun
<1>7. CASE RenameCopy(a) /\ tmp[agent[a].content] # "none"
  <2>1. \E f \in {agent[a].file, "dest", "gone"} : agent'[a] = [agent[a] EXCEPT !.file = f, !.at = "note"]
    BY <1>7 DEF RenameCopy
  <2>2. agent'[a].at = "note" /\ agent'[a].commit = agent[a].commit
    BY <1>1, <2>1 DEF AgentRec
  <2>3. QED
    BY <2>2 DEF HasRun
<1>8. QED
  BY <1>2, <1>3, <1>4, <1>5, <1>6, <1>7

LEMMA OneRunStays ==
  ASSUME TypeOK, OneRun, NEW a \in Agents, AgentStep(a)
  PROVE  OneRun'
<1>1. agent \in [Agents -> AgentRec] /\ \A e \in log : e.by \in Agents
  BY TypeParts DEF StoreTypes, Event
<1> SUFFICES ASSUME NEW e \in log', e.kind \in {"run", "derives-from"}
             PROVE  HasRun(e.by)' /\ (e.kind = "run" => e.of = agent'[e.by].commit)
  BY DEF OneRun
<1>2. CASE e \in log
  <2>1. CASE e.by = a
    BY <1>2, <2>1, RunStays DEF OneRun
  <2>2. CASE e.by # a
    BY <1>1, <1>2, <2>2, OthersStay DEF OneRun, Alike, HasRun
  <2>3. QED
    BY <2>1, <2>2
<1>3. CASE e \notin log
  <2>1. \/ (CreateRun(a) /\ e = Ev("run", a, agent[a].commit))
        \/ (AddEdges(a) /\ \E p \in agent[a].parents : e = Ev("derives-from", a, p))
    <3>1. CASE CreateRun(a)
      BY <1>3, <3>1 DEF CreateRun
    <3>2. CASE AddEdges(a)
      BY <1>3, <3>2 DEF AddEdges
    <3>3. QED
      BY <1>3, <3>1, <3>2, LogGrows DEF Ev
  <2>2. CASE CreateRun(a) /\ e = Ev("run", a, agent[a].commit)
    <3>1. agent'[a].at = "edges" /\ agent'[a].commit = agent[a].commit
      BY <1>1, <2>2, Goes DEF CreateRun
    <3>2. QED
      BY <2>2, <3>1 DEF Ev, HasRun
  <2>3. CASE AddEdges(a) /\ e.kind = "derives-from" /\ e.by = a
    <3>1. HasRun(a)
      BY <2>3 DEF AddEdges, HasRun
    <3>2. QED
      BY <2>3, <3>1, RunStays
  <2>4. QED
    BY <2>1, <2>2, <2>3 DEF Ev
<1>4. QED
  BY <1>2, <1>3

LEMMA TreesStayFirst ==
  ASSUME TreesFirst, NEW a \in Agents, Grounded(a), AgentStep(a)
  PROVE  TreesFirst'
<1>1. trees \subseteq trees'
  BY NothingGoes
<1>2. CASE commits' = commits
  BY <1>1, <1>2 DEF TreesFirst
<1>3. CASE CommitTree(a)
  <2>1. <<agent[a].exp, agent[a].tree>> \in trees
    BY <1>3 DEF CommitTree, Go, Grounded
  <2> DEFINE new == [by |-> a, repo |-> agent[a].exp, tree |-> agent[a].tree, parents |-> Parents(a)]
  <2>2. commits' = commits \cup {new} /\ new.repo = agent[a].exp /\ new.tree = agent[a].tree
    BY <1>3 DEF CommitTree
  <2> HIDE DEF new
  <2>3. QED
    BY <1>1, <2>1, <2>2 DEF TreesFirst
<1>4. commits' = commits \/ CommitTree(a)
  <2> USE DEF Keep, repos, cas
  <2>1. CASE Ensure(a)
    BY <2>1 DEF Ensure, FindProject, CreateProject, FindExperiment, CreateExperiment
  <2>2. CASE Starting(a)
    BY <2>2 DEF Starting, Resolve, Snapshot, Lookup, RecordTreeCommit, SetRunRef, CreateRun, AddEdges
  <2>3. CASE PutArtifact(a) \/ Die(a)
    BY <2>3 DEF PutArtifact, OpenCopy, FillCopy, RenameCopy, NoteArtifact, Die
  <2>4. QED
    BY <2>1, <2>2, <2>3 DEF AgentStep
<1>5. QED
  BY <1>2, <1>3, <1>4

-----------------------------------------------------------------------------
\* Files, while agents take turns.

\* Nobody else is under way.
LEMMA Alone ==
  ASSUME TypeOK, FilesInTurn, turns, NEW a \in Agents, AgentStep(a), NEW b \in Agents, b # a
  PROVE  ~Active(b) /\ ~Active(b)'
<1>1. agent'[b].at = agent[b].at
  BY OthersStay DEF Alike
<1>2. CASE FindProject(a)
  BY <1>1, <1>2 DEF FindProject, Active
<1>3. CASE Active(a)
  BY <1>1, <1>3 DEF FilesInTurn, Active
<1>4. FindProject(a) \/ Active(a)
  <2> USE DEF Active, Go
  <2>1. CASE CreateProject(a) \/ FindExperiment(a) \/ CreateExperiment(a)
    BY <2>1 DEF CreateProject, FindExperiment, CreateExperiment
  <2>2. CASE Starting(a)
    BY <2>2 DEF Starting, Resolve, Snapshot, Lookup, CommitTree, RecordTreeCommit, SetRunRef, CreateRun, AddEdges
  <2>3. CASE PutArtifact(a) \/ Die(a)
    BY <2>3 DEF PutArtifact, OpenCopy, FillCopy, RenameCopy, NoteArtifact, Die
  <2>4. QED
    BY <2>1, <2>2, <2>3 DEF AgentStep, Ensure
<1>5. QED
  BY <1>2, <1>3, <1>4

\* The steps that touch files, and what they leave.
LEMMA FilesStep ==
  ASSUME TypeOK, FilesInTurn, turns, NEW a \in Agents, AgentStep(a)
  PROVE  /\ \A x \in Contents : /\ dest[x] = "whole" => dest'[x] = "whole"
                                /\ dest'[x] \in {"none", "whole"}
         /\ agent'[a].at = "copy"   => agent'[a].file = "tmp"
         /\ agent'[a].at = "rename" => tmp'[agent'[a].content] \in {"none", "whole"}
         /\ agent'[a].at = "note"   => dest'[agent'[a].content] = "whole"
<1>1. /\ agent \in [Agents -> AgentRec] /\ agent[a].content \in Contents
      /\ dest \in [Contents -> File] /\ tmp \in [Contents -> File]
      /\ \A x \in Contents : dest[x] \in {"none", "whole"}
  BY TypeParts DEF StoreTypes, AgentRec, FilesInTurn
<1>2. CASE Ensure(a) \/ Starting(a)
  <2>1. UNCHANGED <<dest, tmp>>
    BY <1>2 DEF Ensure, FindProject, CreateProject, FindExperiment, CreateExperiment, Starting, Resolve,
                Snapshot, Lookup, CommitTree, RecordTreeCommit, SetRunRef, CreateRun, AddEdges, cas
  <2>2. agent'[a].at \notin {"copy", "rename", "note"}
    <3>1. CASE Ensure(a) /\ ~FindExperiment(a)
      <4>1. \E s \in Stages, t \in {"project", "experiment", "repo", "part-of", "resolve"} : Go(a, s, t)
        BY <3>1 DEF Ensure, FindProject, CreateProject, CreateExperiment, Stages
      <4>2. QED
        BY <1>1, <4>1, Goes
    <3>2. CASE FindExperiment(a)
      <4>1. \/ (agent[a].at = "experiment" /\ agent' = [agent EXCEPT ![a].exp = a])
            \/ \E e \in log : agent' = [agent EXCEPT ![a].exp = e.by, ![a].at = "resolve"]
        BY <3>2 DEF FindExperiment, Of
      <4>2. CASE agent[a].at = "experiment" /\ agent' = [agent EXCEPT ![a].exp = a]
        <5>1. agent'[a].at = "experiment"
          BY <1>1, <4>2
        <5>2. QED
          BY <5>1
      <4>3. ASSUME NEW e \in log, agent' = [agent EXCEPT ![a].exp = e.by, ![a].at = "resolve"]
            PROVE  agent'[a].at = "resolve"
        BY <1>1, <4>3
      <4>4. QED
        BY <4>1, <4>2, <4>3
    <3>3. CASE Resolve(a)
      <4>1. PICK P : agent' = [agent EXCEPT ![a].at = "snapshot", ![a].parents = P]
        BY <3>3 DEF Resolve
      <4>2. agent'[a].at = "snapshot"
        BY <1>1, <4>1
      <4>3. QED
        BY <4>2
    <3>4. CASE Lookup(a)
      <4>1. PICK s \in {"commit", "ref"} : \E c : agent' = [agent EXCEPT ![a].at = s, ![a].commit = c]
        BY <3>4 DEF Lookup
      <4>2. agent'[a].at = s
        BY <1>1, <4>1
      <4>3. QED
        BY <4>2
    <3>5. CASE Starting(a) /\ ~Resolve(a) /\ ~Lookup(a)
      <4>1. \/ Go(a, "snapshot", "lookup") \/ Go(a, "commit", "record") \/ Go(a, "record", "ref")
            \/ Go(a, "ref", "create") \/ Go(a, "create", "edges") \/ Go(a, "edges", "artifact")
            \/ (agent[a].at = "edges" /\ agent' = agent)
        BY <3>5 DEF Starting, Snapshot, CommitTree, RecordTreeCommit, SetRunRef, CreateRun, AddEdges
      <4>2. QED
        BY <1>1, <4>1, Goes
    <3>6. QED
      BY <1>2, <3>1, <3>2, <3>3, <3>4, <3>5
  <2>3. QED
    BY <1>1, <2>1, <2>2
<1>3. CASE OpenCopy(a)
  <2>1. CASE dest[agent[a].content] = "none"
    <3>1. dest' = dest /\ agent' = [agent EXCEPT ![a].at = "copy", ![a].file = "tmp"]
      BY <1>3, <2>1 DEF OpenCopy
    <3>2. agent'[a].at = "copy" /\ agent'[a].file = "tmp"
      BY <1>1, <3>1
    <3>3. QED
      BY <1>1, <3>1, <3>2
  <2>2. CASE dest[agent[a].content] # "none"
    <3>1. dest' = dest /\ agent' = [agent EXCEPT ![a].at = "note"]
      BY <1>3, <2>2 DEF OpenCopy, Go, cas
    <3>2. agent'[a].at = "note" /\ agent'[a].content = agent[a].content
      BY <1>1, <3>1
    <3>3. QED
      BY <1>1, <2>2, <3>1, <3>2
  <2>3. QED
    BY <2>1, <2>2
<1>4. CASE FillCopy(a)
  <2>1. agent[a].at = "copy" /\ agent' = [agent EXCEPT ![a].at = "rename"]
    BY <1>4 DEF FillCopy, Go
  <2>2. agent[a].file = "tmp"
    BY <2>1 DEF FilesInTurn
  <2>3. dest' = dest /\ tmp' = [tmp EXCEPT ![agent[a].content] = "whole"]
    BY <1>4, <2>2 DEF FillCopy
  <2>4. agent'[a].at = "rename" /\ agent'[a].content = agent[a].content
    BY <1>1, <2>1
  <2>5. QED
    BY <1>1, <2>3, <2>4
<1>5. CASE RenameCopy(a)
  <2>1. agent[a].at = "rename" /\ tmp[agent[a].content] \in {"none", "whole"}
    BY <1>5 DEF RenameCopy, FilesInTurn
  <2>2. CASE tmp[agent[a].content] = "none"
    <3>1. dest' = dest /\ agent' = [agent EXCEPT ![a].at = "over"]
      BY <1>5, <2>2 DEF RenameCopy, Go, cas
    <3>2. agent'[a].at = "over"
      BY <1>1, <3>1
    <3>3. QED
      BY <1>1, <3>1, <3>2
  <2>3. CASE tmp[agent[a].content] = "whole"
    <3>1. /\ dest' = [dest EXCEPT ![agent[a].content] = "whole"]
          /\ \E f \in {agent[a].file, "dest", "gone"} : agent'[a] = [agent[a] EXCEPT !.file = f, !.at = "note"]
      BY <1>5, <2>3 DEF RenameCopy
    <3>2. agent'[a].at = "note" /\ agent'[a].content = agent[a].content
      BY <1>1, <3>1 DEF AgentRec
    <3>3. QED
      BY <1>1, <3>1, <3>2
  <2>4. QED
    BY <2>1, <2>2, <2>3
<1>6. CASE NoteArtifact(a) \/ Die(a)
  <2>1. dest' = dest /\ agent' = [agent EXCEPT ![a].at = "over"]
    BY <1>6 DEF NoteArtifact, Die, Go, cas
  <2>2. agent'[a].at = "over"
    BY <1>1, <2>1
  <2>3. QED
    BY <1>1, <2>1, <2>2
<1>7. QED
  BY <1>2, <1>3, <1>4, <1>5, <1>6 DEF AgentStep, PutArtifact

LEMMA FilesStay ==
  ASSUME TypeOK, FilesInTurn, NEW a \in Agents, AgentStep(a)
  PROVE  FilesInTurn'
<1>1. turns' = turns
  BY NothingGoes
<1> SUFFICES ASSUME turns
             PROVE  /\ (\A c, b \in Agents : Active(c) /\ Active(b) => c = b)'
                    /\ \A x \in Contents : dest'[x] \in {"none", "whole"}
                    /\ \A c \in Agents :
                         /\ agent'[c].at = "copy"   => agent'[c].file = "tmp"
                         /\ agent'[c].at = "rename" => tmp'[agent'[c].content] \in {"none", "whole"}
                         /\ agent'[c].at = "note"   => dest'[agent'[c].content] = "whole"
  BY <1>1 DEF FilesInTurn
<1>2. \A b \in Agents : b # a => ~Active(b)'
  BY Alone
<1>3. \A b \in Agents : b # a => agent'[b].at \in {"idle", "over"}
  BY <1>2 DEF Active
<1>4. QED
  BY <1>2, <1>3, FilesStep

\* The content of an artifact in the journal stays, and a new one has its content.
LEMMA ContentStays ==
  ASSUME TypeOK, FilesInTurn, turns, NEW a \in Agents, AgentStep(a), NEW L, L \subseteq Event, ContentOf(L, dest)
  PROVE  ContentOf(L, dest') /\ (L = log => ContentOf(log', dest'))
<1>1. \A x \in Contents : dest[x] = "whole" => dest'[x] = "whole"
  BY FilesStep
<1>2. ContentOf(L, dest')
  BY <1>1 DEF ContentOf, Event
<1>3. CASE \A e \in log' : e \in log \/ e.kind # "artifact"
  BY <1>2, <1>3 DEF ContentOf
<1>4. CASE NoteArtifact(a)
  <2>1. agent[a].content \in Contents /\ dest[agent[a].content] = "whole"
    BY <1>4, TypeParts DEF NoteArtifact, Go, FilesInTurn, AgentRec
  <2>2. dest' = dest /\ log' = log \cup {Ev("artifact", a, agent[a].content)}
    BY <1>4 DEF NoteArtifact, cas
  <2>3. QED
    BY <1>2, <2>1, <2>2 DEF ContentOf, Ev
<1>5. (\A e \in log' : e \in log \/ e.kind # "artifact") \/ NoteArtifact(a)
  <2>1. CASE CreateRun(a)
    BY <2>1 DEF CreateRun, Ev
  <2>2. CASE AddEdges(a)
    <3>1. log' = log \/ \E p : log' = log \cup {Ev("derives-from", a, p)}
      BY <2>2 DEF AddEdges
    <3>2. QED
      BY <3>1 DEF Ev
  <2>3. QED
    BY <2>1, <2>2, LogGrows DEF Ev
<1>6. QED
  BY <1>2, <1>3, <1>4, <1>5


-----------------------------------------------------------------------------
\* The invariant holds at the start, and each step keeps it.

LEMMA Starts == Init => IInv
<1> SUFFICES ASSUME Init PROVE IInv
  OBVIOUS
<1>1. \A a \in Agents : agent[a].at = "idle" /\ agent[a] \in AgentRec
  BY DEF Init, AgentRec, Stages
<1>2. TypeOK
  <2>1. agent \in [Agents -> AgentRec]
    BY DEF Init, AgentRec, Stages
  <2>2. StoreTypes
    BY DEF Init, StoreTypes, File
  <2>3. QED
    BY <2>1, <2>2, TypeParts
<1>3. \A a \in Agents : Grounded(a) /\ ~Active(a)
  BY <1>1 DEF Grounded, Active
<1>4. FilesInTurn
  <2>1. \A x \in Contents : dest[x] = "none"
    BY DEF Init
  <2>2. QED
    BY <1>1, <1>3, <2>1 DEF FilesInTurn
<1>5. OneRun /\ TreesFirst /\ NamedIsThere
  BY DEF Init, OneRun, TreesFirst, NamedIsThere, CodeOf, ContentOf
<1>6. CopySound /\ CopyClosed
  BY DEF Init, CopySound, CopyClosed
<1>7. QED
  BY <1>2, <1>3, <1>4, <1>5, <1>6 DEF IInv

\* What was copied, or is still to be copied, outlives an agent's step.
LEMMA CopyStays ==
  ASSUME IInv, NEW a \in Agents, AgentStep(a)
  PROVE  CopySound' /\ CopyClosed'
<1>1. /\ trees \subseteq trees' /\ commits \subseteq commits' /\ refs \subseteq refs'
      /\ UNCHANGED <<turns, backup, copy>> /\ copy.log \subseteq Event /\ TypeOK /\ FilesInTurn
  BY NothingGoes, TypeParts DEF IInv, StoreTypes
<1>2. CodeOf(copy.log, trees, commits, refs) => CodeOf(copy.log, trees', commits', refs')
  BY <1>1, CodeGrows
<1>3. turns /\ ContentOf(copy.log, dest) => ContentOf(copy.log, dest')
  BY <1>1, ContentStays
<1>4. CopySound'
  BY <1>1, <1>2, <1>3 DEF IInv, CopySound
<1>5. CopyClosed'
  BY <1>1 DEF IInv, CopyClosed
<1>6. QED
  BY <1>4, <1>5

LEMMA AgentsKeep ==
  ASSUME IInv, NEW a \in Agents, AgentStep(a)
  PROVE  IInv'
<1>1. TypeOK /\ (\A b \in Agents : Grounded(b)) /\ OneRun /\ TreesFirst /\ FilesInTurn /\ NamedIsThere
  BY DEF IInv
<1>2. TypeOK' /\ OneRun' /\ TreesFirst' /\ FilesInTurn'
  BY <1>1, AgentTypes, OneRunStays, TreesStayFirst, FilesStay
<1>3. ASSUME NEW b \in Agents
      PROVE  Grounded(b)'
  <2>1. CASE b = a
    BY <1>1, <2>1, GroundFound
  <2>2. CASE b # a
    BY <1>1, <2>2, OthersStay, NothingGoes, GroundStays
  <2>3. QED
    BY <2>1, <2>2
<1>4. NamedIsThere'
  <2>1. CodeOf(log', trees', commits', refs')
    BY <1>1, CodeStays DEF NamedIsThere
  <2>2. turns' => ContentOf(log', dest')
    BY <1>1, ContentStays, NothingGoes, TypeParts DEF NamedIsThere, StoreTypes
  <2>3. QED
    BY <2>1, <2>2 DEF NamedIsThere
<1>5. QED
  BY <1>2, <1>3, <1>4, CopyStays DEF IInv

\* A backup's step leaves the store alone and copies what is there.
LEMMA BackupKeeps ==
  ASSUME IInv, BackupStep
  PROVE  IInv'
<1>1. UNCHANGED <<turns, log, trees, commits, refs, dest, tmp, agent>>
  BY DEF BackupStep, CopyJournal, CopyArtifacts, CopyRepos, repos, cas
<1>2. TypeOK'
  BY BackupTypes DEF IInv
<1>3. (\A a \in Agents : Grounded(a))' /\ OneRun' /\ TreesFirst'
  BY <1>1 DEF IInv, Grounded, Serves, OneRun, HasRun, TreesFirst
<1>4. FilesInTurn'
  BY <1>1 DEF IInv, FilesInTurn, Active
<1>5. NamedIsThere'
  BY <1>1 DEF IInv, NamedIsThere
<1>6. CopySound' /\ CopyClosed'
  <2>1. copy \in [log : SUBSET Event, dest : [Contents -> File], trees : SUBSET (Agents \X Trees),
                  commits : SUBSET Commit, refs : SUBSET (Agents \X Agents)]
    BY DEF IInv, TypeOK
  <2>2. CASE CopyJournal
    <3>1. backup' = "artifacts" /\ copy'.log = log
      BY <2>1, <2>2 DEF CopyJournal
    <3>2. QED
      BY <1>1, <3>1 DEF IInv, NamedIsThere, CopySound, CopyClosed
  <2>3. CASE CopyArtifacts
    <3>1. backup = "artifacts" /\ backup' = "repos" /\ copy'.log = copy.log /\ copy'.dest = dest
      BY <2>1, <2>3 DEF CopyArtifacts
    <3>2. QED
      BY <1>1, <3>1 DEF IInv, CopySound, CopyClosed
  <2>4. CASE CopyRepos
    <3>1. /\ backup = "repos" /\ backup' = "over" /\ copy'.log = copy.log /\ copy'.dest = copy.dest
          /\ copy'.trees = trees /\ copy'.commits = commits /\ copy'.refs = refs
      BY <2>1, <2>4 DEF CopyRepos
    <3>2. QED
      BY <1>1, <3>1 DEF IInv, CopySound, CopyClosed
  <2>5. QED
    BY <2>2, <2>3, <2>4 DEF BackupStep
<1>7. QED
  BY <1>2, <1>3, <1>4, <1>5, <1>6 DEF IInv

LEMMA Inductive == IInv /\ [Next]_vars => IInv'
<1> SUFFICES ASSUME IInv, [Next]_vars PROVE IInv'
  OBVIOUS
<1>1. ASSUME NEW a \in Agents, AgentStep(a) PROVE IInv'
  BY <1>1, AgentsKeep
<1>2. CASE BackupStep
  BY <1>2, BackupKeeps
<1>3. CASE UNCHANGED vars
  <2>1. TypeOK' /\ NamedIsThere' /\ CopyClosed'
    BY <1>3 DEF IInv, vars, repos, cas, TypeOK, NamedIsThere, CopyClosed
  <2>2. (\A a \in Agents : Grounded(a))' /\ OneRun' /\ TreesFirst'
    BY <1>3 DEF IInv, vars, repos, cas, Grounded, Serves, OneRun, HasRun, TreesFirst
  <2>3. FilesInTurn' /\ CopySound'
    BY <1>3 DEF IInv, vars, repos, cas, FilesInTurn, Active, CopySound
  <2>4. QED
    BY <2>1, <2>2, <2>3 DEF IInv
<1>4. QED
  BY <1>1, <1>2, <1>3 DEF Next, AgentStep, BackupStep

LEMMA Always == Spec => []IInv
BY Starts, Inductive, PTL DEF Spec

-----------------------------------------------------------------------------
\* Theorems.

\* Every state of the store, the agents and the backup has its type
\* (run_start, put_artifact and backup).
THEOREM StartTypes == Spec => []TypeOK
<1>1. IInv => TypeOK
  BY DEF IInv
<1>2. QED
  BY <1>1, Always, PTL

\* Whoever overlaps or dies, every run of the journal has its ref, its commit
\* and that commit's tree, with the commits of the runs it derives from among
\* its parents; in turns every artifact of the journal is whole: run_start
\* writes to git before the journal, put_artifact renames before the event.
THEOREM NamedAlwaysThere == Spec => []NamedIsThere
<1>1. IInv => NamedIsThere
  BY DEF IInv
<1>2. QED
  BY <1>1, Always, PTL

\* A backup taken while agents start runs and log artifacts has everything its
\* journal names, for it copies the journal first (backup of store.py).
THEOREM CopyAlwaysClosed == Spec => []CopyClosed
<1>1. IInv => CopyClosed
  BY DEF IInv
<1>2. QED
  BY <1>1, Always, PTL

-----------------------------------------------------------------------------
\* One of each, while agents take turns.

\* What the steps add to, and which step adds.
LEMMA Adds ==
  ASSUME NEW a \in Agents, AgentStep(a)
  PROVE  /\ CommitTree(a) \/ commits' = commits
         /\ CreateProject(a) \/ Of("project")' = Of("project")
         /\ (CreateExperiment(a) /\ agent[a].at = "experiment") \/ Of("experiment")' = Of("experiment")
         /\ RecordTreeCommit(a) \/ Of("commit")' = Of("commit")
         /\ \A k, of : log' = log \cup {Ev(k, a, of)} =>
              \A kind : Of(kind)' \subseteq Of(kind) \cup {Ev(k, a, of)}
                        /\ (kind # k => Of(kind)' = Of(kind))
<1>1. ASSUME NEW k, NEW of, log' = log \cup {Ev(k, a, of)}, NEW kind
      PROVE  Of(kind)' \subseteq Of(kind) \cup {Ev(k, a, of)} /\ (kind # k => Of(kind)' = Of(kind))
  BY <1>1 DEF Of, Ev
<1>2. log' = log => \A kind : Of(kind)' = Of(kind)
  BY DEF Of
<1> USE DEF repos, cas, Go
<1>3. CASE Ensure(a)
  <2>1. CASE FindProject(a) \/ FindExperiment(a)
    BY <1>1, <1>2, <2>1 DEF FindProject, FindExperiment
  <2>2. CASE CreateProject(a)
    BY <1>1, <2>2 DEF CreateProject
  <2>3. CASE CreateExperiment(a)
    <3>1. commits' = commits
      BY <2>3 DEF CreateExperiment
    <3>2. \/ agent[a].at = "experiment" /\ log' = log \cup {Ev("experiment", a, Nobody)}
          \/ log' = log
          \/ log' = log \cup {Ev("part-of", a, Nobody)}
      BY <2>3 DEF CreateExperiment
    <3>3. QED
      BY <1>1, <1>2, <2>3, <3>1, <3>2
  <2>4. QED
    BY <1>3, <2>1, <2>2, <2>3 DEF Ensure
<1>4. CASE Starting(a)
  <2>1. CASE Resolve(a) \/ Snapshot(a) \/ Lookup(a) \/ CommitTree(a) \/ SetRunRef(a)
    BY <1>1, <1>2, <2>1 DEF Resolve, Snapshot, Lookup, CommitTree, SetRunRef
  <2>2. CASE RecordTreeCommit(a)
    BY <1>1, <2>2 DEF RecordTreeCommit
  <2>3. CASE CreateRun(a)
    BY <1>1, <2>3 DEF CreateRun
  <2>4. CASE AddEdges(a)
    <3>1. commits' = commits
      BY <2>4 DEF AddEdges
    <3>2. log' = log \/ \E p \in agent[a].parents : log' = log \cup {Ev("derives-from", a, p)}
      BY <2>4 DEF AddEdges
    <3>3. QED
      BY <1>1, <1>2, <3>1, <3>2
  <2>5. QED
    BY <1>4, <2>1, <2>2, <2>3, <2>4 DEF Starting
<1>5. CASE PutArtifact(a)
  <2>1. CASE OpenCopy(a) \/ FillCopy(a) \/ RenameCopy(a)
    BY <1>1, <1>2, <2>1 DEF OpenCopy, FillCopy, RenameCopy
  <2>2. CASE NoteArtifact(a)
    BY <1>1, <2>2 DEF NoteArtifact
  <2>3. QED
    BY <1>5, <2>1, <2>2 DEF PutArtifact
<1>6. CASE Die(a)
  BY <1>1, <1>2, <1>6 DEF Die
<1>7. QED
  BY <1>3, <1>4, <1>5, <1>6 DEF AgentStep

\* The stages at which an agent may have made its commit.
Late(s) == s \in {"record", "ref", "create", "edges", "artifact", "copy", "rename", "note", "over"}

\* How an agent comes to each stage.
LEMMA Comes ==
  ASSUME TypeOK, NEW a \in Agents, AgentStep(a)
  PROVE  /\ Late(agent[a].at) => Late(agent'[a].at) /\ agent'[a].at # "record"
         /\ agent'[a].at # "idle"
         /\ agent'[a].at = "project" =>
              agent[a].at = "idle" /\ Of("project") = {} /\ log' = log /\ agent'[a].exp = agent[a].exp
         /\ agent'[a].at = "experiment" =>
              \/ agent[a].at \in {"idle", "project"} /\ agent'[a].exp = agent[a].exp
              \/ Of("experiment") = {} /\ log' = log
         /\ agent'[a].at = "commit" => Lookup(a) /\ Known(a) = {}
         /\ agent'[a].at = "record" => CommitTree(a)
<1>1. agent \in [Agents -> AgentRec]
  BY TypeParts
<1> USE DEF Late
<1>2. CASE HasRun(a)
  BY <1>2, RunStays DEF HasRun
<1>3. CASE FindProject(a)
  BY <1>1, <1>3, Goes DEF FindProject
<1>4. CASE CreateProject(a)
  BY <1>1, <1>4, Goes DEF CreateProject
<1>5. CASE FindExperiment(a)
  <2>1. agent[a].at = "experiment" /\ log' = log
    BY <1>5 DEF FindExperiment
  <2>2. CASE Of("experiment") = {}
    <3>1. agent' = [agent EXCEPT ![a].exp = a]
      BY <1>5, <2>2 DEF FindExperiment
    <3>2. agent'[a].at = "experiment"
      BY <1>1, <2>1, <3>1
    <3>3. QED
      BY <2>1, <2>2, <3>2
  <2>3. CASE Of("experiment") # {}
    <3>1. PICK e \in Of("experiment") : agent' = [agent EXCEPT ![a].exp = e.by, ![a].at = "resolve"]
      BY <1>5, <2>3 DEF FindExperiment
    <3>2. agent'[a].at = "resolve"
      BY <1>1, <3>1
    <3>3. QED
      BY <2>1, <3>2
  <2>4. QED
    BY <2>2, <2>3
<1>6. CASE CreateExperiment(a)
  <2>1. \/ Go(a, "experiment", "repo") \/ Go(a, "repo", "part-of") \/ Go(a, "part-of", "resolve")
    BY <1>6 DEF CreateExperiment
  <2>2. QED
    BY <1>1, <2>1, Goes
<1>7. CASE Resolve(a)
  <2>1. PICK P : agent' = [agent EXCEPT ![a].at = "snapshot", ![a].parents = P]
    BY <1>7 DEF Resolve
  <2>2. agent'[a].at = "snapshot" /\ agent[a].at = "resolve"
    BY <1>1, <1>7, <2>1 DEF Resolve
  <2>3. QED
    BY <2>2
<1>8. CASE Snapshot(a)
  BY <1>1, <1>8, Goes DEF Snapshot
<1>9. CASE Lookup(a)
  <2>1. agent[a].at = "lookup"
    BY <1>9 DEF Lookup
  <2>2. CASE Known(a) = {}
    <3>1. agent' = [agent EXCEPT ![a].at = "commit", ![a].commit = a]
      BY <1>9, <2>2 DEF Lookup
    <3>2. agent'[a].at = "commit"
      BY <1>1, <3>1
    <3>3. QED
      BY <1>9, <2>1, <2>2, <3>2
  <2>3. CASE Known(a) # {}
    <3>1. PICK c \in Known(a) : agent' = [agent EXCEPT ![a].at = "ref", ![a].commit = c.by]
      BY <1>9, <2>3 DEF Lookup
    <3>2. agent'[a].at = "ref"
      BY <1>1, <3>1
    <3>3. QED
      BY <2>1, <3>2
  <2>4. QED
    BY <2>2, <2>3
<1>10. CASE CommitTree(a)
  BY <1>1, <1>10, Goes DEF CommitTree
<1>11. CASE RecordTreeCommit(a)
  BY <1>1, <1>11, Goes DEF RecordTreeCommit
<1>12. CASE SetRunRef(a)
  BY <1>1, <1>12, Goes DEF SetRunRef
<1>13. CASE CreateRun(a)
  BY <1>1, <1>13, Goes DEF CreateRun
<1>14. CASE Die(a)
  <2>1. agent'[a].at = "over"
    BY <1>1, <1>14 DEF Die
  <2>2. QED
    BY <2>1
<1>15. AddEdges(a) \/ PutArtifact(a) => HasRun(a)
  BY DEF AddEdges, PutArtifact, OpenCopy, FillCopy, RenameCopy, NoteArtifact, HasRun, Go
<1>16. QED
  BY <1>2, <1>3, <1>4, <1>5, <1>6, <1>7, <1>8, <1>9, <1>10, <1>11, <1>12, <1>13, <1>14, <1>15
     DEF AgentStep, Ensure, Starting

LEMMA LateIs ==
  ASSUME NEW a \in Agents
  PROVE  /\ Late(agent[a].at) <=> agent[a].at \in {"record", "ref", "create"} \/ HasRun(a)
         /\ Late(agent'[a].at) <=> agent'[a].at \in {"record", "ref", "create"} \/ HasRun(a)'
         /\ Late(agent[a].at) /\ agent[a].at # "record" <=> agent[a].at \in {"ref", "create"} \/ HasRun(a)
         /\ Late(agent'[a].at) /\ agent'[a].at # "record" <=> agent'[a].at \in {"ref", "create"} \/ HasRun(a)'
BY DEF Late, HasRun

\* The commit that CommitTree makes, and the event of RecordTreeCommit.
LEMMA Made ==
  ASSUME TypeOK, NEW a \in Agents
  PROVE  /\ CommitTree(a) =>
              \E new : /\ commits' = commits \cup {new} /\ new.by = a /\ new.repo = agent[a].exp
                       /\ new.tree = agent[a].tree /\ new.parents = Parents(a)
                       /\ agent[a].at = "commit" /\ agent'[a].at = "record"
                       /\ Of("commit")' = Of("commit")
         /\ RecordTreeCommit(a) =>
              /\ agent[a].at = "record" /\ agent'[a].at = "ref" /\ commits' = commits
              /\ \A e \in Of("commit")' : e \in Of("commit") \/ e.by = a
<1>1. agent \in [Agents -> AgentRec]
  BY TypeParts
<1>2. ASSUME CommitTree(a)
      PROVE  \E new : /\ commits' = commits \cup {new} /\ new.by = a /\ new.repo = agent[a].exp
                      /\ new.tree = agent[a].tree /\ new.parents = Parents(a)
                      /\ agent[a].at = "commit" /\ agent'[a].at = "record"
                      /\ Of("commit")' = Of("commit")
  <2> DEFINE new == [by |-> a, repo |-> agent[a].exp, tree |-> agent[a].tree, parents |-> Parents(a)]
  <2>1. commits' = commits \cup {new} /\ log' = log
    BY <1>2 DEF CommitTree
  <2>2. agent[a].at = "commit" /\ agent'[a].at = "record"
    BY <1>1, <1>2, Goes DEF CommitTree
  <2>3. Of("commit")' = Of("commit")
    BY <2>1 DEF Of
  <2>4. /\ new.by = a /\ new.repo = agent[a].exp /\ new.tree = agent[a].tree
        /\ new.parents = Parents(a)
    OBVIOUS
  <2> HIDE DEF new
  <2>5. QED
    BY <2>1, <2>2, <2>3, <2>4
<1>3. ASSUME RecordTreeCommit(a)
      PROVE  /\ agent[a].at = "record" /\ agent'[a].at = "ref" /\ commits' = commits
             /\ \A e \in Of("commit")' : e \in Of("commit") \/ e.by = a
  <2>1. agent[a].at = "record" /\ agent'[a].at = "ref" /\ commits' = commits
    BY <1>1, <1>3, Goes DEF RecordTreeCommit, repos
  <2>2. \A e \in Of("commit")' : e \in Of("commit") \/ e.by = a
    BY <1>3 DEF RecordTreeCommit, Of, Ev
  <2>3. QED
    BY <2>1, <2>2
<1>4. QED
  BY <1>2, <1>3

LEMMA OneCommitStays ==
  ASSUME TypeOK, OneCommit, NEW a \in Agents, AgentStep(a)
  PROVE  OneCommit'
<1>1. /\ \A c \in commits : c.by \in Agents
      /\ \A e \in log : e.by \in Agents
  BY TypeParts DEF StoreTypes, Commit, Event
<1>2. \A b \in Agents : Late(agent[b].at) => Late(agent'[b].at)
                         /\ (agent[b].at # "record" => agent'[b].at # "record")
  BY Comes, OthersStay DEF Alike
<1>3. /\ \A c \in commits : Late(agent[c.by].at)
      /\ \A e \in Of("commit") : e.by \in Agents /\ Late(agent[e.by].at) /\ agent[e.by].at # "record"
  BY <1>1, LateIs DEF OneCommit, Of
<1>4. \A c, d \in commits : c.by = d.by => c = d
  BY DEF OneCommit
<1>5. /\ \A c, d \in commits' : c.by = d.by => c = d
      /\ \A c \in commits' : c.by \in Agents /\ Late(agent'[c.by].at)
  <2>1. CASE CommitTree(a)
    <3>1. PICK new : /\ commits' = commits \cup {new} /\ new.by = a
                     /\ agent[a].at = "commit" /\ agent'[a].at = "record"
      BY <2>1, Made
    <3>2. ~Late(agent[a].at) /\ Late(agent'[a].at)
      BY <3>1 DEF Late
    <3>3. QED
      BY <1>1, <1>2, <1>3, <1>4, <3>1, <3>2
  <2>2. CASE commits' = commits
    BY <1>1, <1>2, <1>3, <1>4, <2>2
  <2>3. QED
    BY <2>1, <2>2, Adds
<1>6. \A e \in Of("commit")' : e.by \in Agents /\ Late(agent'[e.by].at) /\ agent'[e.by].at # "record"
  <2>1. CASE RecordTreeCommit(a)
    BY <1>2, <1>3, <2>1, Made DEF Late
  <2>2. CASE Of("commit")' = Of("commit")
    BY <1>2, <1>3, <2>2
  <2>3. QED
    BY <2>1, <2>2, Adds
<1>7. /\ \A c \in commits' : agent'[c.by].at \in {"record", "ref", "create"} \/ HasRun(c.by)'
      /\ \A e \in Of("commit")' : agent'[e.by].at \in {"ref", "create"} \/ HasRun(e.by)'
  BY <1>5, <1>6 DEF Late, HasRun
<1>8. QED
  BY <1>5, <1>7 DEF OneCommit

LEMMA MissingFound ==
  ASSUME TypeOK, OneCommit, NEW a \in Agents, Missing(a), AgentStep(a)
  PROVE  Missing(a)'
<1>1. CASE agent'[a].at \notin {"commit", "record"}
  <2>1. agent'[a].at \in {"idle", "project"} => agent'[a].exp = Nobody
    BY Comes DEF Missing
  <2>2. agent'[a].at = "project" => Of("project")' = {}
    BY Comes DEF Missing, Of
  <2>3. agent'[a].at = "experiment" /\ agent'[a].exp # Nobody => Of("experiment")' = {}
    BY Comes DEF Missing, Of
  <2>4. QED
    BY <1>1, <2>1, <2>2, <2>3 DEF Missing
<1>2. CASE agent'[a].at = "commit"
  <2>1. Lookup(a) /\ Known(a) = {}
    BY <1>2, Comes
  <2>2. /\ log' = log /\ commits' = commits /\ refs' = refs
        /\ agent' = [agent EXCEPT ![a].at = "commit", ![a].commit = a]
    BY <2>1 DEF Lookup, repos
  <2>3. /\ agent'[a].exp = agent[a].exp /\ agent'[a].tree = agent[a].tree
        /\ agent'[a].parents = agent[a].parents
    <3>1. agent \in [Agents -> AgentRec]
      BY TypeParts
    <3>2. QED
      BY <2>2, <3>1
  <2>4. Known(a)' = Known(a)
    BY <2>2, <2>3 DEF Known, Parents, Of
  <2>5. QED
    BY <1>2, <2>1, <2>4 DEF Missing
<1>3. CASE agent'[a].at = "record"
  <2>1. CommitTree(a)
    BY <1>3, Comes
  <2>2. PICK new : /\ commits' = commits \cup {new} /\ new.by = a /\ new.repo = agent[a].exp
                   /\ new.tree = agent[a].tree /\ new.parents = Parents(a)
                   /\ agent[a].at = "commit" /\ Of("commit")' = Of("commit")
    BY <2>1, Made
  <2>3. Known(a) = {}
    BY <2>2 DEF Missing
  <2>4. ~ Late(agent[a].at)
    BY <2>2 DEF Late
  <2>5. /\ \A c \in commits : c.by # a
        /\ \A e \in Of("commit") : e.by # a
    BY <2>4, LateIs DEF OneCommit
  <2>6. ASSUME NEW c \in commits', NEW d \in commits', c.by = a,
               \E e \in Of("commit") : e.by = d.by, SameKey(c, d)
        PROVE  FALSE
    <3>1. c = new /\ d \in commits
      BY <2>2, <2>5, <2>6
    <3>2. d \in Known(a)
      BY <2>2, <2>6, <3>1 DEF Known, SameKey
    <3>3. QED
      BY <2>3, <3>2
  <2>7. \A c, d \in commits' : c.by = a /\ (\E e \in Of("commit")' : e.by = d.by) => ~SameKey(c, d)
    BY <2>2, <2>6
  <2>8. QED
    BY <1>3, <2>7 DEF Missing, Recorded, SameKey
<1>4. QED
  BY <1>1, <1>2, <1>3

\* An agent that is not under way looks for nothing.
LEMMA MissingStays ==
  ASSUME TypeOK, FilesInTurn, turns, NEW a \in Agents, AgentStep(a), NEW b \in Agents, b # a, Missing(b)
  PROVE  Missing(b)'
<1>1. agent'[b].at = agent[b].at /\ agent'[b].exp = agent[b].exp
  BY OthersStay DEF Alike
<1>2. agent[b].at \in {"idle", "over"}
  BY Alone DEF Active
<1>3. QED
  BY <1>1, <1>2 DEF Missing

LEMMA SinglesStep ==
  ASSUME TypeOK, FilesInTurn, SinglesInv, NEW a \in Agents, AgentStep(a)
  PROVE  SinglesInv'
<1>1. OneCommit /\ OneCommit'
  BY OneCommitStays DEF SinglesInv
<1>2. turns' = turns
  BY NothingGoes
<1> SUFFICES ASSUME turns
             PROVE  /\ \A b \in Agents : Missing(b)'
                    /\ \A e, f \in Of("project")' : e = f
                    /\ \A e, f \in Of("experiment")' : e = f
                    /\ \A c, d \in commits' : Recorded(c)' /\ Recorded(d)' /\ SameKey(c, d) => c = d
  BY <1>1, <1>2 DEF SinglesInv, SameKey
<1>3. /\ \A b \in Agents : Missing(b)
      /\ \A e, f \in Of("project") : e = f
      /\ \A e, f \in Of("experiment") : e = f
      /\ \A c, d \in commits : Recorded(c) /\ Recorded(d) /\ SameKey(c, d) => c = d
  BY DEF SinglesInv
<1>4. ASSUME NEW b \in Agents
      PROVE  Missing(b)'
  BY <1>1, <1>3, MissingFound, MissingStays
<1>5. \A e, f \in Of("project")' : e = f
  <2>1. CASE CreateProject(a)
    <3>1. Of("project") = {} /\ log' = log \cup {Ev("project", a, Nobody)}
      BY <1>3, <2>1 DEF CreateProject, Go, Missing
    <3>2. QED
      BY <3>1, Adds
  <2>2. QED
    BY <1>3, <2>1, Adds
<1>6. \A e, f \in Of("experiment")' : e = f
  <2>1. CASE CreateExperiment(a) /\ agent[a].at = "experiment"
    <3>1. Of("experiment") = {} /\ log' = log \cup {Ev("experiment", a, Nobody)}
      BY <1>3, <2>1, RunStartAssumption DEF CreateExperiment, Go, Missing
    <3>2. QED
      BY <3>1, Adds
  <2>2. QED
    BY <1>3, <2>1, Adds
<1>7. ASSUME NEW c \in commits', NEW d \in commits', SameKey(c, d),
             NEW e \in Of("commit")', e.by = c.by, NEW f \in Of("commit")', f.by = d.by
      PROVE  c = d
  <2>1. CASE RecordTreeCommit(a)
    <3>1. /\ agent[a].at = "record" /\ commits' = commits
          /\ \A g \in Of("commit")' : g \in Of("commit") \/ g.by = a
      BY <2>1, Made
    <3>2. SameKey(d, c)
      BY <1>7 DEF SameKey
    <3>3. (Recorded(c) \/ c.by = a) /\ (Recorded(d) \/ d.by = a)
      BY <1>7, <3>1 DEF Recorded
    <3>4. CASE Recorded(c) /\ Recorded(d)
      BY <1>3, <1>7, <3>1, <3>4
    <3>5. CASE c.by = a /\ d.by = a
      BY <1>1, <3>1, <3>5 DEF OneCommit
    <3>6. CASE c.by = a /\ Recorded(d)
      BY <1>3, <1>7, <3>1, <3>6 DEF Missing
    <3>7. CASE d.by = a /\ Recorded(c)
      BY <1>3, <3>1, <3>2, <3>7 DEF Missing
    <3>8. QED
      BY <3>3, <3>4, <3>5, <3>6, <3>7
  <2>2. CASE Of("commit")' = Of("commit")
    <3>1. Recorded(c) /\ Recorded(d)
      BY <1>7, <2>2 DEF Recorded
    <3>2. CASE commits' = commits
      BY <1>3, <1>7, <3>1, <3>2
    <3>3. CASE CommitTree(a)
      <4>1. PICK new : commits' = commits \cup {new} /\ new.by = a /\ agent[a].at = "commit"
        BY <3>3, Made
      <4>2. \A g \in Of("commit") : g.by # a
        BY <1>1, <4>1, LateIs DEF OneCommit, Late, HasRun
      <4>3. c \in commits /\ d \in commits
        BY <3>1, <4>1, <4>2 DEF Recorded
      <4>4. QED
        BY <1>3, <1>7, <3>1, <4>3
    <3>4. QED
      BY <3>2, <3>3, Adds
  <2>3. QED
    BY <2>1, <2>2, Adds
<1>8. QED
  BY <1>4, <1>5, <1>6, <1>7 DEF Recorded

LEMMA SinglesInductive == IInv /\ SinglesInv /\ [Next]_vars => SinglesInv'
<1> SUFFICES ASSUME IInv, SinglesInv, [Next]_vars PROVE SinglesInv'
  OBVIOUS
<1>1. ASSUME NEW a \in Agents, AgentStep(a) PROVE SinglesInv'
  BY <1>1, SinglesStep DEF IInv
<1>2. CASE BackupStep \/ UNCHANGED vars
  <2>1. UNCHANGED <<turns, log, trees, commits, refs, agent>>
    BY <1>2 DEF BackupStep, CopyJournal, CopyArtifacts, CopyRepos, repos, vars
  <2>2. OneCommit'
    BY <2>1 DEF SinglesInv, OneCommit, Of, HasRun
  <2>3. \A a \in Agents : Missing(a) => Missing(a)'
    BY <2>1 DEF Missing, Known, Parents, Of, Recorded, SameKey
  <2>4. QED
    BY <2>1, <2>2, <2>3 DEF SinglesInv, Recorded, SameKey, Of
<1>3. QED
  BY <1>1, <1>2 DEF Next, AgentStep, BackupStep

LEMMA SinglesStart == Init => SinglesInv
<1> SUFFICES ASSUME Init PROVE SinglesInv
  OBVIOUS
<1>1. log = {} /\ commits = {} /\ \A a \in Agents : agent[a].at = "idle" /\ agent[a].exp = Nobody
  BY DEF Init
<1>2. QED
  BY <1>1 DEF SinglesInv, OneCommit, Missing, Of

LEMMA SinglesAlways == Spec => [](IInv /\ SinglesInv)
BY Starts, Inductive, SinglesStart, SinglesInductive, PTL DEF Spec

\* A set without two members has one at most.
LEMMA AtMostOne ==
  ASSUME NEW S, \A e, f \in S : e = f
  PROVE  Cardinality(S) <= 1
<1>1. CASE S = {}
  BY <1>1, FS_EmptySet
<1>2. CASE S # {}
  <2>1. PICK e \in S : S = {e}
    BY <1>2
  <2>2. QED
    BY <2>1, FS_Singleton
<1>3. QED
  BY <1>1, <1>2

\* While agents take turns, and wherever one of them dies, nothing is made
\* twice: what experiment_ensure and commit_tree found missing is missing still
\* when they make it, for any number of agents, trees and runs derived from.
THEOREM NothingTwice == Spec => []OneOfEach
<1>1. SinglesInv => OneOfEach
  BY AtMostOne DEF SinglesInv, OneOfEach, Recorded, SameKey
<1>2. QED
  BY <1>1, SinglesAlways, PTL
=============================================================================
