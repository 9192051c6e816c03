------------------------------- MODULE Actions -------------------------------
(***************************************************************************)
(* Registered actions and their audited invocation (src/mlparty/actions.py *)
(* and src/mlparty/action_runner.py).                                      *)
(*                                                                         *)
(* Templates live in actions.json, changed by editors of their own.  A     *)
(* call of invoke loads its template once, renders it, records a node, the *)
(* edge to the run it controls, and starts a detached runner; it then      *)
(* polls the node for 1.5 s and reports what it saw.  The runner records   *)
(* the outcome.  Callers and runners may die at any step, the start of the *)
(* runner may raise, and annotations of the node read its row and write it *)
(* back.                                                                   *)
(*                                                                         *)
(* A template takes one parameter; values are told apart by which types    *)
(* take them.                                                              *)
(***************************************************************************)
EXTENDS SavedFile

CONSTANTS
  Names,      \* of templates
  Declared,   \* the declarations of a parameter that templates make
  Calls,      \* calls of invoke
  Notes,      \* annotations somebody makes of an invocation's node
  MaxVersions \* bound on templates registered

VARIABLES
  versions, \* templates drawn up so far
  call,     \* each call: its step, its template, the value rendered, what it reported
  row,      \* the status of each call's node in the index
  truth,    \* the same as a replay of the journal gives it
  edged,    \* the calls whose node has its x-controls edge
  runner,   \* each call's runner
  note      \* each annotation: its step and the row it read

graph == <<row, truth, edged>>
vars  == <<fileVars, versions, call, graph, runner, note>>

Types  == {"int", "choice", "str"}
Values == {"7", "red", "none"}
\* _coerce: the values a type takes.
Takes  == [int |-> {"7"}, choice |-> {"red"}, str |-> {"7", "red"}]
\* uses: whether the command, env or cwd has the parameter's placeholder.
Declaration == [type : Types, required : BOOLEAN, default : Values, uses : BOOLEAN]
Template == [name : Names, version : 1 .. MaxVersions, param : Declared]
NoTemplate == [version |-> 0]
Status == {"none", "running", "ok", "failed"}

TypeOK ==
  /\ path \in {0} \cup Inodes /\ tmp \in {0} \cup Inodes
  /\ disk \in [Inodes -> {Torn} \cup SUBSET Template]
  /\ edit \in [Editors -> [step : {"idle", "open", "write", "rename"},
                           fd : {0} \cup Inodes, data : SUBSET Template]]
  /\ versions \in 0 .. MaxVersions
  /\ call \in [Calls -> [at : {"idle", "create", "edge", "spawn", "poll", "over"},
                         tpl : Template \cup {NoTemplate}, value : Values,
                         runs : BOOLEAN, told : Status]]
  /\ row \in [Calls -> Status] /\ truth \in [Calls -> Status]
  /\ edged \subseteq Calls
  /\ runner \in [Calls -> {"none", "running", "ok", "failed", "over"}]
  /\ note \in [Notes -> [on : Calls, held : Status]]

ASSUME ActionsAssumption ==
  /\ Blank = {} /\ MaxVersions \in Nat /\ Declared \subseteq Declaration

\* Editors that overlap are the subject of Accounts; here they take turns.
Init ==
  /\ FileInit /\ turns
  /\ versions = 0
  /\ call = [c \in Calls |-> [at |-> "idle", tpl |-> NoTemplate, value |-> "none",
                              runs |-> FALSE, told |-> "none"]]
  /\ row = [c \in Calls |-> "none"] /\ truth = row /\ edged = {}
  /\ runner = [c \in Calls |-> "none"]
  /\ note \in [Notes -> [on : Calls, held : {"none"}]]

-----------------------------------------------------------------------------
\* The templates.

\* register: the placeholders are declared, the name is new.
Register(p, n, param) ==
  /\ Free(p) /\ Loaded # Torn
  /\ \A t \in Loaded : t.name # n
  /\ versions < MaxVersions /\ versions' = versions + 1
  /\ Change(p, Loaded \cup {[name |-> n, version |-> versions', param |-> param]})
  /\ UNCHANGED <<call, graph, runner, note>>

Remove(p, n) ==
  /\ Free(p) /\ Loaded # Torn
  /\ \E t \in Loaded : /\ t.name = n
                       /\ Change(p, Loaded \ {t})
  /\ UNCHANGED <<versions, call, graph, runner, note>>

Save(p) == Saving(p) /\ UNCHANGED <<versions, call, graph, runner, note>>

Publish(p) == Rename(p) /\ UNCHANGED <<versions, call, graph, runner, note>>

-----------------------------------------------------------------------------
\* invoke.

\* render: the value the parameter gets, if it gets one.  An unknown name, a
\* value the type does not take and a missing required one are refused; an
\* optional one that is left out must not be in the text.
Raw(t, given)     == IF given = "none" THEN t.param.default ELSE given
Renders(t, given) == IF Raw(t, given) = "none" THEN ~t.param.required /\ ~t.param.uses
                     ELSE Raw(t, given) \in Takes[t.param.type]

At(c, s) == call' = [call EXCEPT ![c].at = s]

\* The template is found and rendered; a run named in the parameters resolves.
Invoke(c, n, given, controls) ==
  /\ call[c].at = "idle" /\ Loaded # Torn
  /\ \E t \in Loaded : /\ t.name = n /\ Renders(t, given)
                       /\ call' = [call EXCEPT ![c].at = "create", ![c].tpl = t,
                                     ![c].value = Raw(t, given), ![c].runs = controls]
  /\ UNCHANGED <<fileVars, versions, graph, runner, note>>

\* Mutant: the node is recorded when the outcome is.
CreateNodeLater(c) ==
  /\ call[c].at = "create"
  /\ At(c, IF call[c].runs THEN "edge" ELSE "spawn")
  /\ UNCHANGED <<fileVars, versions, graph, runner, note>>

CreateNode(c) ==
  /\ call[c].at = "create"
  /\ row' = [row EXCEPT ![c] = "running"] /\ truth' = [truth EXCEPT ![c] = "running"]
  /\ At(c, IF call[c].runs THEN "edge" ELSE "spawn")
  /\ UNCHANGED <<fileVars, versions, edged, runner, note>>

AddEdge(c) ==
  /\ call[c].at = "edge"
  /\ edged' = edged \cup {c}
  /\ At(c, "spawn")
  /\ UNCHANGED <<fileVars, versions, row, truth, runner, note>>

Spawn(c) ==
  /\ call[c].at = "spawn"
  /\ runner' = [runner EXCEPT ![c] = "running"]
  /\ At(c, "poll")
  /\ UNCHANGED <<fileVars, versions, graph, note>>

\* Mutant: the poll goes on until the action has exited.
ReportExited(c) ==
  /\ call[c].at = "poll" /\ row[c] \in {"ok", "failed"}
  /\ call' = [call EXCEPT ![c].at = "over", ![c].told = row[c]]
  /\ UNCHANGED <<fileVars, versions, graph, runner, note>>

\* The node says exited, or 1.5 s are over: the caller is told what it says.
Report(c) ==
  /\ call[c].at = "poll"
  /\ call' = [call EXCEPT ![c].at = "over", ![c].told = row[c]]
  /\ UNCHANGED <<fileVars, versions, graph, runner, note>>

\* The caller dies, or a step of it raises (Popen does when cwd is missing).
Raise(c) ==
  /\ call[c].at \in {"create", "edge", "spawn", "poll"} /\ deaths < MaxDeaths
  /\ deaths' = deaths + 1
  /\ At(c, "over")
  /\ UNCHANGED <<turns, path, tmp, disk, edit, changes, versions, graph, runner, note>>

-----------------------------------------------------------------------------
\* The runner, and annotations of the node.

Exits(c) ==
  /\ runner[c] = "running"
  /\ \E code \in {"ok", "failed"} : runner' = [runner EXCEPT ![c] = code]
  /\ UNCHANGED <<fileVars, versions, call, graph, note>>

\* The runner's update_node, which only ever sets the outcome.
Record(c) ==
  /\ runner[c] \in {"ok", "failed"}
  /\ truth' = [truth EXCEPT ![c] = runner[c]] /\ row' = [row EXCEPT ![c] = runner[c]]
  /\ runner' = [runner EXCEPT ![c] = "over"]
  /\ UNCHANGED <<fileVars, versions, call, edged, note>>

\* The runner dies with its machine: the node says running for good.
Kill(c) ==
  /\ runner[c] \in {"running", "ok", "failed"} /\ deaths < MaxDeaths
  /\ deaths' = deaths + 1
  /\ runner' = [runner EXCEPT ![c] = "over"]
  /\ UNCHANGED <<turns, path, tmp, disk, edit, changes, versions, call, graph, note>>

\* node_annotate reads the row; its journal entry carries the note alone, its
\* row everything it read.
ReadRow(a) ==
  /\ note[a].held = "none" /\ row[note[a].on] # "none"
  /\ note' = [note EXCEPT ![a].held = row[note[a].on]]
  /\ UNCHANGED <<fileVars, versions, call, graph, runner>>

\* Mutant: the journal entry carries the whole document as well.
WriteBackWhole(a) ==
  /\ note[a].held # "none"
  /\ row' = [row EXCEPT ![note[a].on] = note[a].held]
  /\ truth' = [truth EXCEPT ![note[a].on] = note[a].held]
  /\ note' = [note EXCEPT ![a].held = "none"]
  /\ UNCHANGED <<fileVars, versions, call, edged, runner>>

WriteBack(a) ==
  /\ note[a].held # "none"
  /\ row' = [row EXCEPT ![note[a].on] = note[a].held]
  /\ note' = [note EXCEPT ![a].held = "none"]
  /\ UNCHANGED <<fileVars, versions, call, truth, edged, runner>>

Edit(p) ==
  \/ \E n \in Names, param \in Declared : Register(p, n, param)
  \/ \E n \in Names : Remove(p, n)
  \/ Save(p) \/ Publish(p)

Invoking(c) == CreateNode(c) \/ AddEdge(c) \/ Spawn(c) \/ Report(c)

Next ==
  \/ \E p \in Editors : Edit(p)
  \/ \E c \in Calls, n \in Names, given \in Values, b \in BOOLEAN : Invoke(c, n, given, b)
  \/ \E c \in Calls : Invoking(c) \/ Raise(c) \/ Exits(c) \/ Record(c) \/ Kill(c)
  \/ \E a \in Notes : ReadRow(a) \/ WriteBack(a)

Spec == Init /\ [][Next]_vars

\* A caller and a runner that live go on; the command comes to its end.
FairSpec == /\ Spec
            /\ \A c \in Calls : WF_vars(Invoking(c)) /\ WF_vars(Exits(c)) /\ WF_vars(Record(c))

-----------------------------------------------------------------------------
\* No command runs unrecorded: its node is in the journal and, when it
\* controls a run, so is the edge, whichever step of invoke fails.
Audited == \A c \in Calls : runner[c] # "none" =>
              /\ truth[c] # "none" /\ (call[c].runs => c \in edged)

\* A caller that was told an outcome was told the one the journal keeps for
\* good: annotations that race the runner can take the node's row back to
\* running, never the record.
OutcomeStands == \A c \in Calls : call[c].told \in {"ok", "failed"} => truth[c] = call[c].told

\* invoke comes back, and the outcome of a runner that lives is recorded.
Answers == \A c \in Calls :
             /\ call[c].at # "idle" ~> call[c].at = "over"
             /\ runner[c] = "running" ~> (truth[c] \in {"ok", "failed"} \/ deaths > 0)
=============================================================================
