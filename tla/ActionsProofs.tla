---------------------------- MODULE ActionsProofs ----------------------------
(***************************************************************************)
(* Proofs about Actions, for any templates, calls, editors, annotations    *)
(* and failures: no command runs that the journal does not know of         *)
(* (Audited), and an outcome that a caller was told is the journal's for   *)
(* good (OutcomeStands).                                                   *)
(***************************************************************************)
EXTENDS Actions, FiniteSetTheorems, TLAPS

-----------------------------------------------------------------------------
\* The invariant behind the safety properties.

\* An editor has nothing open before it opens its file.
HandsEmpty == \A p \in Editors : edit[p].step \in {"idle", "open"} => edit[p].fd = 0

\* How far a call has come, and what is on record of it by then.
InStep(c) ==
  /\ call[c].at \in {"idle", "create"} => truth[c] = "none"
  /\ call[c].at \in {"edge", "spawn"} => truth[c] # "none"
  /\ call[c].at = "spawn" => (call[c].runs => c \in edged)
  /\ call[c].at \in {"idle", "create", "edge", "spawn"} => runner[c] = "none"

\* An outcome in the row, or in the hand of an annotation, is the journal's,
\* which has one only when the runner is done.
OutcomesTrue ==
  /\ \A c \in Calls : /\ truth[c] \in {"ok", "failed"} => runner[c] = "over"
                      /\ row[c] \in {"ok", "failed"} => truth[c] = row[c]
  /\ \A a \in Notes : note[a].held \in {"ok", "failed"} => truth[note[a].on] = note[a].held

IInv == TypeOK /\ HandsEmpty /\ (\A c \in Calls : InStep(c)) /\ OutcomesTrue
          /\ Audited /\ OutcomeStands

-----------------------------------------------------------------------------
CallRec == [at : {"idle", "create", "edge", "spawn", "poll", "over"},
            tpl : Template \cup {NoTemplate}, value : Values, runs : BOOLEAN, told : Status]
EditRec == [step : {"idle", "open", "write", "rename"}, fd : {0} \cup Inodes, data : SUBSET Template]

\* The part of the invariant that is about actions.json.
FileOK ==
  /\ path \in {0} \cup Inodes /\ tmp \in {0} \cup Inodes
  /\ disk \in [Inodes -> {Torn} \cup SUBSET Template]
  /\ edit \in [Editors -> EditRec]
  /\ versions \in 0 .. MaxVersions
  /\ HandsEmpty

\* The part that is about the calls, the graph and the runners.
CallsOK ==
  /\ call \in [Calls -> CallRec]
  /\ row \in [Calls -> Status] /\ truth \in [Calls -> Status]
  /\ edged \subseteq Calls
  /\ runner \in [Calls -> {"none", "running", "ok", "failed", "over"}]
  /\ note \in [Notes -> [on : Calls, held : Status]]
  /\ \A c \in Calls : InStep(c)
  /\ OutcomesTrue /\ Audited /\ OutcomeStands

\* Two more places than there are editors: one who holds none (0) finds a place
\* that neither a name nor another editor has.
LEMMA RoomForOne ==
  ASSUME NEW E, IsFiniteSet(E), NEW p \in E, NEW f, f[p] = 0
  PROVE  \A a, b : \E i \in 1 .. (Cardinality(E) + 2) : i # a /\ i # b /\ \A q \in E : f[q] # i
<1> TAKE a, b
<1> DEFINE g      == [q \in E \ {p} |-> f[q]]
           held   == {g[q] : q \in E \ {p}}
           places == 1 .. (Cardinality(E) + 2)
<1>1. Cardinality(E) \in Nat /\ IsFiniteSet(E \ {p}) /\ Cardinality(E \ {p}) = Cardinality(E) - 1
  BY FS_CardinalityType, FS_RemoveElement
<1>2. IsFiniteSet(places) /\ Cardinality(places) = Cardinality(E) + 2
  BY <1>1, FS_Interval
<1>3. g \in Surjection(E \ {p}, held)
  BY DEF Surjection
<1>4. /\ IsFiniteSet(held) /\ Cardinality(held) <= Cardinality(E) - 1
      /\ IsFiniteSet(held \cup {a}) /\ IsFiniteSet(held \cup {a} \cup {b})
      /\ Cardinality(held \cup {a} \cup {b}) <= Cardinality(E) + 1
  <2> HIDE DEF g, held
  <2>1. IsFiniteSet(held) /\ Cardinality(held) <= Cardinality(E) - 1
    BY <1>1, <1>3, FS_Surjection
  <2>2. /\ IsFiniteSet(held \cup {a}) /\ Cardinality(held) \in Nat
        /\ Cardinality(held \cup {a}) \in {Cardinality(held), Cardinality(held) + 1}
    BY <2>1, FS_AddElement, FS_CardinalityType
  <2>3. /\ IsFiniteSet(held \cup {a} \cup {b}) /\ Cardinality(held \cup {a}) \in Nat
        /\ Cardinality(held \cup {a} \cup {b}) \in {Cardinality(held \cup {a}), Cardinality(held \cup {a}) + 1}
    BY <2>2, FS_AddElement, FS_CardinalityType
  <2>4. QED
    BY <1>1, <2>1, <2>2, <2>3
<1>5. PICK i \in places : i \notin held \cup {a} \cup {b}
  <2> HIDE DEF g, held, places
  <2>1. places \subseteq held \cup {a} \cup {b} => Cardinality(places) <= Cardinality(held \cup {a} \cup {b})
    BY <1>4, FS_Subset
  <2>2. QED
    BY <2>1, <1>2, <1>1, <1>4, FS_CardinalityType
<1>6. QED
  BY <1>5

LEMMA Parts == IInv <=> FileOK /\ CallsOK
  BY DEF IInv, TypeOK, FileOK, CallsOK, CallRec, EditRec

LEMMA Bounds == MaxVersions \in Nat /\ Blank = {} /\ Declared \subseteq Declaration /\ IsFiniteSet(Editors)
  BY ActionsAssumption, SavedFileAssumption

-----------------------------------------------------------------------------
\* The templates.

\* A file that loads holds templates.
LEMMA LoadedTypes ==
  ASSUME FileOK, Loaded # Torn
  PROVE  Loaded \subseteq Template
  BY Bounds DEF FileOK, Loaded

\* An editor that opens the file finds an inode without a name, or the one
\* that has the temporary name.
LEMMA OpenInode ==
  ASSUME FileOK, NEW p \in Editors, edit[p].step = "open"
  PROVE  (IF tmp # 0 THEN tmp ELSE CHOOSE j \in Unnamed : TRUE) \in Inodes
<1>1. CASE tmp # 0
  BY <1>1 DEF FileOK
<1>2. CASE tmp = 0
  <2> DEFINE f == [q \in Editors |-> edit[q].fd]
  <2>1. f[p] = 0
    BY DEF FileOK, HandsEmpty
  <2>2. \A q \in Editors : f[q] = edit[q].fd
    OBVIOUS
  <2> HIDE DEF f
  <2>3. \E i \in Inodes : i # path /\ i # tmp /\ \A q \in Editors : f[q] # i
    <3>1. IsFiniteSet(Editors)
      BY Bounds
    <3>2. \A a, b : \E i \in 1 .. (Cardinality(Editors) + 2) :
                      i # a /\ i # b /\ \A q \in Editors : f[q] # i
      BY <2>1, <3>1, RoomForOne
    <3>3. QED
      BY <3>2 DEF Inodes
  <2>4. Unnamed # {} /\ Unnamed \subseteq Inodes
    BY <2>2, <2>3 DEF Unnamed
  <2>5. (CHOOSE j \in Unnamed : TRUE) \in Unnamed
    BY <2>4
  <2>6. QED
    BY <1>2, <2>4, <2>5
<1>3. QED
  BY <1>1, <1>2

LEMMA ChangeKeeps ==
  ASSUME FileOK, NEW p \in Editors, NEW data \in SUBSET Template, Change(p, data),
         versions' \in 0 .. MaxVersions
  PROVE  FileOK'
<1>1. [step |-> "open", fd |-> 0, data |-> data] \in EditRec
  BY DEF EditRec
<1>2. /\ edit' \in [Editors -> EditRec]
      /\ edit'[p].step = "open" /\ edit'[p].fd = 0
      /\ \A q \in Editors \ {p} : edit'[q] = edit[q]
  BY <1>1 DEF Change, FileOK
<1>3. HandsEmpty'
  BY <1>2 DEF FileOK, HandsEmpty
<1>4. path' = path /\ tmp' = tmp /\ disk' = disk
  BY DEF Change
<1>5. QED
  BY <1>2, <1>3, <1>4 DEF FileOK, Inodes

LEMMA SaveKeeps ==
  ASSUME FileOK, NEW p \in Editors, Saving(p), versions' = versions
  PROVE  FileOK'
<1>1. edit \in [Editors -> EditRec] /\ disk \in [Inodes -> {Torn} \cup SUBSET Template]
  BY DEF FileOK
<1>2. CASE Open(p)
  <2> DEFINE i == IF tmp # 0 THEN tmp ELSE CHOOSE j \in Unnamed : TRUE
  <2>1. i \in Inodes
    BY <1>2, OpenInode DEF Open
  <2>2. /\ tmp' = i /\ path' = path /\ disk' = [disk EXCEPT ![i] = Torn]
        /\ edit' = [edit EXCEPT ![p].step = "write", ![p].fd = i]
    BY <1>2 DEF Open
  <2> HIDE DEF i
  <2> DEFINE w == [edit EXCEPT ![p].step = "write"]
             x == [w EXCEPT ![p].fd = i]
  <2>3. edit' = x
    BY <2>2
  <2>4. /\ w \in [Editors -> EditRec] /\ w[p].step = "write"
        /\ \A q \in Editors \ {p} : w[q] = edit[q]
    BY <1>1 DEF EditRec
  <2> HIDE DEF w
  <2>5. /\ x \in [Editors -> EditRec] /\ x[p].step = "write"
        /\ \A q \in Editors \ {p} : x[q] = edit[q]
    BY <2>1, <2>4 DEF EditRec
  <2> HIDE DEF x
  <2>6. HandsEmpty'
    BY <2>3, <2>5 DEF FileOK, HandsEmpty
  <2>7. disk' \in [Inodes -> {Torn} \cup SUBSET Template]
    BY <1>1, <2>2
  <2>8. QED
    BY <2>1, <2>2, <2>3, <2>5, <2>6, <2>7 DEF FileOK, Inodes
<1>3. CASE Write(p)
  <2> DEFINE i == edit[p].fd
  <2>1. edit[p].data \in SUBSET Template
    BY <1>1 DEF EditRec
  <2>2. disk' = [disk EXCEPT ![i] = edit[p].data] \/ disk' = [disk EXCEPT ![i] = Torn]
    BY <1>3 DEF Write
  <2> HIDE DEF i
  <2>3. disk' \in [Inodes -> {Torn} \cup SUBSET Template]
    BY <1>1, <2>1, <2>2
  <2>4. edit' = [edit EXCEPT ![p].step = "rename"] /\ path' = path /\ tmp' = tmp
    BY <1>3 DEF Write
  <2>5. /\ edit' \in [Editors -> EditRec] /\ edit'[p].step = "rename"
        /\ \A q \in Editors \ {p} : edit'[q] = edit[q]
    BY <1>1, <2>4 DEF EditRec
  <2>6. HandsEmpty'
    BY <2>5 DEF FileOK, HandsEmpty
  <2>7. QED
    BY <2>3, <2>4, <2>5, <2>6 DEF FileOK, Inodes
<1>4. CASE Die(p)
  <2>1. Idle \in EditRec /\ Idle.fd = 0
    BY Bounds DEF Idle, EditRec
  <2>2. edit' = [edit EXCEPT ![p] = Idle] /\ path' = path /\ tmp' = tmp /\ disk' = disk
    BY <1>4 DEF Die
  <2>3. edit' \in [Editors -> EditRec] /\ HandsEmpty'
    BY <1>1, <2>1, <2>2 DEF FileOK, HandsEmpty
  <2>4. QED
    BY <2>2, <2>3 DEF FileOK, Inodes
<1>5. QED
  BY <1>2, <1>3, <1>4 DEF Saving

LEMMA RenameKeeps ==
  ASSUME FileOK, NEW p \in Editors, Rename(p), versions' = versions
  PROVE  FileOK'
<1>1. Idle \in EditRec /\ Idle.fd = 0
  BY Bounds DEF Idle, EditRec
<1>2. edit' = [edit EXCEPT ![p] = Idle]
  BY DEF Rename
<1>3. edit' \in [Editors -> EditRec] /\ HandsEmpty'
  BY <1>1, <1>2 DEF FileOK, HandsEmpty
<1>4. /\ path' \in {0} \cup Inodes /\ tmp' \in {0} \cup Inodes
      /\ disk' \in [Inodes -> {Torn} \cup SUBSET Template]
  BY DEF Rename, FileOK
<1>5. QED
  BY <1>3, <1>4 DEF FileOK, Inodes

LEMMA FileStays ==
  ASSUME FileOK, path' = path, tmp' = tmp, disk' = disk, edit' = edit, versions' = versions
  PROVE  FileOK'
  BY DEF FileOK, HandsEmpty, Inodes

LEMMA CallsStay ==
  ASSUME CallsOK, call' = call, graph' = graph, runner' = runner, note' = note
  PROVE  CallsOK'
  BY DEF CallsOK, InStep, OutcomesTrue, Audited, OutcomeStands, graph

LEMMA EditKeeps ==
  ASSUME FileOK, CallsOK, NEW p \in Editors, Edit(p)
  PROVE  FileOK' /\ CallsOK'
<1>1. ASSUME NEW n \in Names, NEW param \in Declared, Register(p, n, param)
      PROVE  FileOK' /\ CallsOK'
  <2>1. Loaded \subseteq Template
    BY <1>1, LoadedTypes DEF Register
  <2>2. versions' \in 1 .. MaxVersions
    BY <1>1, Bounds DEF Register, FileOK
  <2> DEFINE new == [name |-> n, version |-> versions', param |-> param]
  <2>3. new \in Template
    BY <2>2 DEF Template
  <2>4. Change(p, Loaded \cup {new})
    BY <1>1 DEF Register
  <2> HIDE DEF new
  <2>5. Loaded \cup {new} \in SUBSET Template /\ versions' \in 0 .. MaxVersions
    BY <2>1, <2>2, <2>3
  <2>6. FileOK'
    BY <2>4, <2>5, ChangeKeeps
  <2>7. QED
    BY <1>1, <2>6, CallsStay DEF Register
<1>2. ASSUME NEW n \in Names, Remove(p, n)
      PROVE  FileOK' /\ CallsOK'
  <2>1. Loaded \subseteq Template
    BY <1>2, LoadedTypes DEF Remove
  <2>2. PICK t \in Loaded : Change(p, Loaded \ {t})
    BY <1>2 DEF Remove
  <2>3. Loaded \ {t} \in SUBSET Template /\ versions' \in 0 .. MaxVersions
    BY <1>2, <2>1 DEF Remove, FileOK
  <2>4. FileOK'
    BY <2>2, <2>3, ChangeKeeps
  <2>5. QED
    BY <1>2, <2>4, CallsStay DEF Remove
<1>3. CASE Save(p)
  BY <1>3, SaveKeeps, CallsStay DEF Save
<1>4. CASE Publish(p)
  BY <1>4, RenameKeeps, CallsStay DEF Publish
<1>5. QED
  BY <1>1, <1>2, <1>3, <1>4 DEF Edit

-----------------------------------------------------------------------------
\* The calls.

\* A call moves to another step and keeps what it has.
LEMMA AtMoves ==
  ASSUME CallsOK, NEW c \in Calls,
         NEW s \in {"idle", "create", "edge", "spawn", "poll", "over"}, At(c, s)
  PROVE  /\ call' \in [Calls -> CallRec]
         /\ call'[c].at = s /\ call'[c].runs = call[c].runs /\ call'[c].told = call[c].told
         /\ \A d \in Calls \ {c} : call'[d] = call[d]
<1>1. call \in [Calls -> CallRec] /\ call' = [call EXCEPT ![c].at = s]
  BY DEF CallsOK, At
<1>2. [call[c] EXCEPT !.at = s] \in CallRec
  BY <1>1 DEF CallRec
<1>3. /\ [call[c] EXCEPT !.at = s].at = s
      /\ [call[c] EXCEPT !.at = s].runs = call[c].runs
      /\ [call[c] EXCEPT !.at = s].told = call[c].told
  BY <1>1 DEF CallRec
<1>4. QED
  BY <1>1, <1>2, <1>3

LEMMA InvokeKeeps ==
  ASSUME FileOK, CallsOK, NEW c \in Calls, NEW n \in Names, NEW given \in Values, NEW b \in BOOLEAN,
         Invoke(c, n, given, b)
  PROVE  FileOK' /\ CallsOK'
<1>1. PICK t \in Loaded :
        call' = [call EXCEPT ![c].at = "create", ![c].tpl = t,
                             ![c].value = Raw(t, given), ![c].runs = b]
  BY DEF Invoke
<1>2. /\ call[c].at = "idle" /\ call \in [Calls -> CallRec]
      /\ fileVars' = fileVars /\ versions' = versions /\ graph' = graph
      /\ runner' = runner /\ note' = note
  BY DEF Invoke, CallsOK
<1>3. t \in Template
  BY LoadedTypes DEF Invoke
<1> DEFINE v == Raw(t, given)
<1>4. v \in Values
  <2>1. t.param \in Declaration
    BY <1>3, Bounds DEF Template
  <2>2. t.param.default \in Values
    BY <2>1 DEF Declaration
  <2>3. QED
    BY <2>2 DEF Raw
<1>5. /\ call' \in [Calls -> CallRec]
      /\ call'[c].at = "create" /\ call'[c].runs = b /\ call'[c].told = call[c].told
      /\ \A d \in Calls \ {c} : call'[d] = call[d]
  <2> DEFINE w == [call EXCEPT ![c].at = "create"]
             x == [w EXCEPT ![c].tpl = t]
             y == [x EXCEPT ![c].value = v]
             z == [y EXCEPT ![c].runs = b]
  <2>1. call' = z
    BY <1>1
  <2> HIDE DEF v
  <2>2. /\ w \in [Calls -> CallRec] /\ w[c].at = "create" /\ w[c].told = call[c].told
        /\ \A d \in Calls \ {c} : w[d] = call[d]
    BY <1>2 DEF CallRec
  <2> HIDE DEF w
  <2>3. /\ x \in [Calls -> CallRec] /\ x[c].at = "create" /\ x[c].told = call[c].told
        /\ \A d \in Calls \ {c} : x[d] = call[d]
    BY <1>3, <2>2 DEF CallRec
  <2> HIDE DEF x
  <2>4. /\ y \in [Calls -> CallRec] /\ y[c].at = "create" /\ y[c].told = call[c].told
        /\ \A d \in Calls \ {c} : y[d] = call[d]
    BY <1>4, <2>3 DEF CallRec
  <2> HIDE DEF y
  <2>5. /\ z \in [Calls -> CallRec] /\ z[c].at = "create" /\ z[c].told = call[c].told /\ z[c].runs = b
        /\ \A d \in Calls \ {c} : z[d] = call[d]
    BY <2>4 DEF CallRec
  <2> HIDE DEF z
  <2>6. QED
    BY <2>1, <2>5
<1>6. truth' = truth /\ row' = row /\ edged' = edged
  BY <1>2 DEF graph
<1>7. \A d \in Calls : InStep(d)'
  <2>1. InStep(c) /\ \A d \in Calls : InStep(d)
    BY DEF CallsOK
  <2>2. InStep(c)'
    BY <1>2, <1>5, <1>6, <2>1 DEF InStep
  <2>3. ASSUME NEW d \in Calls \ {c} PROVE InStep(d)'
    BY <1>2, <1>5, <1>6, <2>1 DEF InStep
  <2>4. QED
    BY <2>2, <2>3
<1>8. OutcomesTrue' /\ OutcomeStands'
  BY <1>2, <1>5, <1>6 DEF CallsOK, OutcomesTrue, OutcomeStands
<1>9. Audited'
  <2>1. runner[c] = "none"
    BY <1>2 DEF CallsOK, InStep
  <2>2. QED
    BY <1>2, <1>5, <1>6, <2>1 DEF CallsOK, Audited
<1>10. CallsOK'
  BY <1>2, <1>5, <1>6, <1>7, <1>8, <1>9 DEF CallsOK
<1>11. FileOK'
  BY <1>2, FileStays DEF fileVars
<1>12. QED
  BY <1>10, <1>11

LEMMA CreateNodeKeeps ==
  ASSUME CallsOK, NEW c \in Calls, CreateNode(c)
  PROVE  CallsOK'
<1>1. /\ row' = [row EXCEPT ![c] = "running"] /\ truth' = [truth EXCEPT ![c] = "running"]
      /\ call[c].at = "create" /\ edged' = edged /\ runner' = runner /\ note' = note
  BY DEF CreateNode
<1>2. PICK s \in {"edge", "spawn"} : At(c, s) /\ (s = "spawn" => ~call[c].runs)
  BY DEF CreateNode
<1>3. /\ call' \in [Calls -> CallRec]
      /\ call'[c].at = s /\ call'[c].runs = call[c].runs /\ call'[c].told = call[c].told
      /\ \A d \in Calls \ {c} : call'[d] = call[d]
  BY <1>2, AtMoves
<1>4. truth[c] = "none" /\ runner[c] = "none"
  BY <1>1 DEF CallsOK, InStep
<1>5. /\ row' \in [Calls -> Status] /\ truth' \in [Calls -> Status]
      /\ row'[c] = "running" /\ truth'[c] = "running"
      /\ \A d \in Calls \ {c} : row'[d] = row[d] /\ truth'[d] = truth[d]
  BY <1>1 DEF CallsOK, Status
<1>6. \A d \in Calls : InStep(d)'
  <2>1. InStep(c)'
    BY <1>1, <1>2, <1>3, <1>4, <1>5 DEF InStep
  <2>2. ASSUME NEW d \in Calls \ {c} PROVE InStep(d)'
    BY <1>1, <1>3, <1>5 DEF CallsOK, InStep
  <2>3. QED
    BY <2>1, <2>2
<1>7. OutcomesTrue'
  <2>1. \A a \in Notes : note[a].held \in {"ok", "failed"} => note[a].on # c /\ note[a].on \in Calls
    BY <1>4 DEF CallsOK, OutcomesTrue
  <2>2. QED
    BY <1>1, <1>5, <2>1 DEF CallsOK, OutcomesTrue
<1>8. OutcomeStands'
  BY <1>3, <1>4, <1>5 DEF CallsOK, OutcomeStands
<1>9. Audited'
  BY <1>1, <1>3, <1>4, <1>5 DEF CallsOK, Audited
<1>10. QED
  BY <1>1, <1>3, <1>5, <1>6, <1>7, <1>8, <1>9 DEF CallsOK

\* The steps of a call that change no record but its edge.
LEMMA CallMoves ==
  ASSUME CallsOK, NEW c \in Calls,
         NEW s \in {"poll", "spawn", "over"}, At(c, s),
         row' = row, truth' = truth, note' = note,
         runner' = runner \/ (call[c].at = "spawn" /\ runner' = [runner EXCEPT ![c] = "running"]),
         edged \subseteq edged', edged' \subseteq Calls,
         call[c].at # "idle",
         s = "spawn" => call[c].at = "edge" /\ c \in edged',
         runner' # runner => s = "poll"
  PROVE  CallsOK'
<1>1. /\ call' \in [Calls -> CallRec]
      /\ call'[c].at = s /\ call'[c].runs = call[c].runs /\ call'[c].told = call[c].told
      /\ \A d \in Calls \ {c} : call'[d] = call[d]
  BY AtMoves
<1>2. /\ runner' \in [Calls -> {"none", "running", "ok", "failed", "over"}]
      /\ \A d \in Calls \ {c} : runner'[d] = runner[d]
      /\ runner'[c] = runner[c] \/ (runner'[c] = "running" /\ call[c].at = "spawn" /\ runner[c] = "none")
  BY DEF CallsOK, InStep
<1>3. s = "spawn" => runner'[c] = "none"
  BY DEF CallsOK, InStep
<1>4. \A d \in Calls : InStep(d)'
  <2>1. InStep(c)'
    BY <1>1, <1>3 DEF CallsOK, InStep
  <2>2. ASSUME NEW d \in Calls \ {c} PROVE InStep(d)'
    BY <1>1, <1>2 DEF CallsOK, InStep
  <2>3. QED
    BY <2>1, <2>2
<1>5. OutcomesTrue'
  <2>1. truth[c] \in {"ok", "failed"} => runner'[c] = "over"
    BY <1>2 DEF CallsOK, OutcomesTrue
  <2>2. QED
    BY <1>2, <2>1 DEF CallsOK, OutcomesTrue
<1>6. OutcomeStands'
  BY <1>1 DEF CallsOK, OutcomeStands
<1>7. Audited'
  <2>1. runner'[c] # "none" => truth'[c] # "none" /\ (call'[c].runs => c \in edged')
    BY <1>1, <1>2 DEF CallsOK, Audited, InStep
  <2>2. ASSUME NEW d \in Calls \ {c}, runner'[d] # "none"
        PROVE  truth'[d] # "none" /\ (call'[d].runs => d \in edged')
    BY <1>1, <1>2, <2>2 DEF CallsOK, Audited
  <2>3. QED
    BY <2>1, <2>2 DEF Audited
<1>8. QED
  BY <1>1, <1>2, <1>4, <1>5, <1>6, <1>7 DEF CallsOK

LEMMA ReportKeeps ==
  ASSUME CallsOK, NEW c \in Calls, Report(c)
  PROVE  CallsOK'
<1>1. /\ call[c].at = "poll" /\ call \in [Calls -> CallRec] /\ row[c] \in Status
      /\ call' = [call EXCEPT ![c].at = "over", ![c].told = row[c]]
      /\ graph' = graph /\ runner' = runner /\ note' = note
  BY DEF Report, CallsOK
<1>2. /\ call' \in [Calls -> CallRec]
      /\ call'[c].at = "over" /\ call'[c].runs = call[c].runs /\ call'[c].told = row[c]
      /\ \A d \in Calls \ {c} : call'[d] = call[d]
  <2> DEFINE w == [call EXCEPT ![c].at = "over"]
             x == [w EXCEPT ![c].told = row[c]]
  <2>1. call' = x
    BY <1>1
  <2>2. /\ w \in [Calls -> CallRec] /\ w[c].at = "over" /\ w[c].runs = call[c].runs
        /\ \A d \in Calls \ {c} : w[d] = call[d]
    BY <1>1 DEF CallRec
  <2> HIDE DEF w
  <2>3. /\ x \in [Calls -> CallRec] /\ x[c].at = "over" /\ x[c].runs = call[c].runs /\ x[c].told = row[c]
        /\ \A d \in Calls \ {c} : x[d] = call[d]
    BY <1>1, <2>2 DEF CallRec
  <2> HIDE DEF x
  <2>4. QED
    BY <2>1, <2>3
<1>3. row' = row /\ truth' = truth /\ edged' = edged
  BY <1>1 DEF graph
<1>4. \A d \in Calls : InStep(d)'
  <2>1. InStep(c)'
    BY <1>2 DEF InStep
  <2>2. ASSUME NEW d \in Calls \ {c} PROVE InStep(d)'
    BY <1>1, <1>2, <1>3 DEF CallsOK, InStep
  <2>3. QED
    BY <2>1, <2>2
<1>5. OutcomesTrue'
  BY <1>1, <1>3 DEF CallsOK, OutcomesTrue
<1>6. OutcomeStands'
  <2>1. row[c] \in {"ok", "failed"} => truth[c] = row[c]
    BY DEF CallsOK, OutcomesTrue
  <2>2. QED
    BY <1>2, <1>3, <2>1 DEF CallsOK, OutcomeStands
<1>7. Audited'
  BY <1>1, <1>2, <1>3 DEF CallsOK, Audited
<1>8. QED
  BY <1>1, <1>2, <1>3, <1>4, <1>5, <1>6, <1>7 DEF CallsOK

LEMMA CallKeeps ==
  ASSUME FileOK, CallsOK, NEW c \in Calls, Invoking(c) \/ Raise(c)
  PROVE  FileOK' /\ CallsOK'
<1>1. FileOK'
  BY FileStays DEF Invoking, CreateNode, AddEdge, Spawn, Report, Raise, fileVars
<1>2. CASE CreateNode(c)
  BY <1>1, <1>2, CreateNodeKeeps
<1>3. CASE AddEdge(c)
  <2>1. edged' = edged \cup {c} /\ edged \subseteq edged' /\ edged' \subseteq Calls
    BY <1>3 DEF AddEdge, CallsOK
  <2>2. QED
    BY <1>1, <1>3, <2>1, CallMoves DEF AddEdge
<1>4. CASE Spawn(c)
  <2>1. edged' = edged /\ edged \subseteq edged' /\ edged' \subseteq Calls /\ row' = row /\ truth' = truth
    BY <1>4 DEF Spawn, CallsOK, graph
  <2>2. QED
    BY <1>1, <1>4, <2>1, CallMoves DEF Spawn
<1>5. CASE Report(c)
  BY <1>1, <1>5, ReportKeeps
<1>6. CASE Raise(c)
  <2>1. edged' = edged /\ edged \subseteq edged' /\ edged' \subseteq Calls /\ row' = row /\ truth' = truth
    BY <1>6 DEF Raise, CallsOK, graph
  <2>2. QED
    BY <1>1, <1>6, <2>1, CallMoves DEF Raise
<1>7. QED
  BY <1>1, <1>2, <1>3, <1>4, <1>5, <1>6 DEF Invoking

-----------------------------------------------------------------------------
\* The runners and the annotations.

\* A runner exits or dies: nothing on record changes.
LEMMA RunnerMoves ==
  ASSUME CallsOK, NEW c \in Calls, runner[c] # "none",
         NEW to \in {"ok", "failed", "over"}, runner' = [runner EXCEPT ![c] = to],
         runner[c] = "over" => to = "over",
         call' = call, graph' = graph, note' = note
  PROVE  CallsOK'
<1>1. row' = row /\ truth' = truth /\ edged' = edged
  BY DEF graph
<1>2. /\ runner' \in [Calls -> {"none", "running", "ok", "failed", "over"}]
      /\ runner'[c] = to /\ \A d \in Calls \ {c} : runner'[d] = runner[d]
  BY DEF CallsOK
<1>3. \A d \in Calls : InStep(d)'
  BY <1>1, <1>2 DEF CallsOK, InStep
<1>4. OutcomesTrue' /\ OutcomeStands' /\ Audited'
  BY <1>1, <1>2 DEF CallsOK, OutcomesTrue, OutcomeStands, Audited
<1>5. QED
  BY <1>1, <1>2, <1>3, <1>4 DEF CallsOK

LEMMA RecordKeeps ==
  ASSUME CallsOK, NEW c \in Calls, Record(c)
  PROVE  CallsOK'
<1>1. /\ runner[c] \in {"ok", "failed"}
      /\ edged' = edged /\ call' = call /\ note' = note
  BY DEF Record
<1>2. /\ row' \in [Calls -> Status] /\ truth' \in [Calls -> Status]
      /\ runner' \in [Calls -> {"none", "running", "ok", "failed", "over"}]
      /\ row'[c] = runner[c] /\ truth'[c] = runner[c] /\ runner'[c] = "over"
      /\ \A d \in Calls \ {c} : row'[d] = row[d] /\ truth'[d] = truth[d] /\ runner'[d] = runner[d]
  BY <1>1 DEF Record, CallsOK, Status
\* Nobody has seen an outcome yet: neither a caller nor an annotation.
<1>3. truth[c] \notin {"ok", "failed"}
  BY <1>1 DEF CallsOK, OutcomesTrue
<1>4. \A d \in Calls : InStep(d)'
  <2>1. InStep(c)'
    BY <1>1, <1>2 DEF CallsOK, InStep
  <2>2. ASSUME NEW d \in Calls \ {c} PROVE InStep(d)'
    BY <1>1, <1>2 DEF CallsOK, InStep
  <2>3. QED
    BY <2>1, <2>2
<1>5. OutcomesTrue'
  <2>1. \A a \in Notes : note[a].held \in {"ok", "failed"} => note[a].on \in Calls \ {c}
    BY <1>3 DEF CallsOK, OutcomesTrue
  <2>2. QED
    BY <1>1, <1>2, <2>1 DEF CallsOK, OutcomesTrue
<1>6. OutcomeStands'
  BY <1>1, <1>2, <1>3 DEF CallsOK, OutcomeStands
<1>7. Audited'
  BY <1>1, <1>2 DEF CallsOK, Audited
<1>8. QED
  BY <1>1, <1>2, <1>4, <1>5, <1>6, <1>7 DEF CallsOK

LEMMA NoteKeeps ==
  ASSUME CallsOK, NEW a \in Notes, ReadRow(a) \/ WriteBack(a)
  PROVE  CallsOK'
<1> DEFINE c == note[a].on
<1>1. c \in Calls /\ note[a].held \in Status /\ row[c] \in Status
  BY DEF CallsOK
<1>2. truth' = truth /\ edged' = edged /\ call' = call /\ runner' = runner
  BY DEF ReadRow, WriteBack, graph
<1>3. PICK s \in Status : note' = [note EXCEPT ![a].held = s] /\ (s = row[c] \/ s = "none")
  BY <1>1 DEF ReadRow, WriteBack, Status
<1>4. /\ note' \in [Notes -> [on : Calls, held : Status]]
      /\ note'[a].on = c /\ note'[a].held = s
      /\ \A b \in Notes \ {a} : note'[b] = note[b]
  BY <1>3 DEF CallsOK
<1>5. row' = row \/ row' = [row EXCEPT ![c] = note[a].held]
  BY DEF ReadRow, WriteBack, graph
<1>6. /\ row' \in [Calls -> Status]
      /\ \A d \in Calls : row'[d] = row[d] \/ (d = c /\ row'[d] = note[a].held)
  BY <1>1, <1>5 DEF CallsOK
<1>7. OutcomesTrue'
  <2>1. \A d \in Calls : row'[d] \in {"ok", "failed"} => truth[d] = row'[d]
    BY <1>6 DEF CallsOK, OutcomesTrue
  <2>2. s \in {"ok", "failed"} => truth[c] = s
    BY <1>1, <1>3 DEF CallsOK, OutcomesTrue
  <2>3. \A b \in Notes : note'[b].held \in {"ok", "failed"} => truth[note'[b].on] = note'[b].held
    BY <1>4, <2>2 DEF CallsOK, OutcomesTrue
  <2>4. QED
    BY <1>2, <2>1, <2>3 DEF CallsOK, OutcomesTrue
<1>8. /\ \A d \in Calls : InStep(d)'
      /\ Audited' /\ OutcomeStands'
  BY <1>2 DEF CallsOK, InStep, Audited, OutcomeStands
<1>9. QED
  BY <1>2, <1>4, <1>6, <1>7, <1>8 DEF CallsOK

-----------------------------------------------------------------------------
\* The invariant, and what follows from it.

LEMMA IInvInit == Init => IInv
<1> SUFFICES ASSUME Init PROVE FileOK /\ CallsOK
  BY Parts
<1>1. FileOK
  <2>1. Idle \in EditRec /\ Idle.fd = 0
    BY Bounds DEF Idle, EditRec
  <2>2. edit = [p \in Editors |-> Idle]
    BY DEF Init, FileInit
  <2>3. edit \in [Editors -> EditRec] /\ HandsEmpty
    BY <2>1, <2>2 DEF HandsEmpty
  <2>4. QED
    BY <2>3, Bounds DEF Init, FileInit, FileOK
<1>2. CallsOK
  <2> DEFINE first == [at |-> "idle", tpl |-> NoTemplate, value |-> "none", runs |-> FALSE, told |-> "none"]
  <2>1. first \in CallRec
    BY DEF CallRec, Values, Status
  <2>2. call = [c \in Calls |-> first]
    BY DEF Init
  <2>3. /\ call \in [Calls -> CallRec]
        /\ \A c \in Calls : call[c].at = "idle" /\ call[c].told = "none"
    BY <2>1, <2>2
  <2>4. /\ row = [c \in Calls |-> "none"] /\ truth = row /\ edged = {}
        /\ runner = [c \in Calls |-> "none"]
        /\ note \in [Notes -> [on : Calls, held : {"none"}]]
    BY DEF Init
  <2>5. note \in [Notes -> [on : Calls, held : Status]]
    BY <2>4 DEF Status
  <2>6. (\A c \in Calls : InStep(c)) /\ OutcomesTrue /\ Audited /\ OutcomeStands
    BY <2>3, <2>4 DEF InStep, OutcomesTrue, Audited, OutcomeStands
  <2>7. QED
    BY <2>3, <2>4, <2>5, <2>6 DEF CallsOK, Status
<1>3. QED
  BY <1>1, <1>2

LEMMA IInvNext == IInv /\ [Next]_vars => IInv'
<1> SUFFICES ASSUME FileOK, CallsOK, [Next]_vars PROVE FileOK' /\ CallsOK'
  BY Parts DEF IInv, TypeOK, FileOK, CallsOK, CallRec, EditRec
<1>1. ASSUME NEW p \in Editors, Edit(p) PROVE FileOK' /\ CallsOK'
  BY <1>1, EditKeeps
<1>2. ASSUME NEW c \in Calls, NEW n \in Names, NEW given \in Values, NEW b \in BOOLEAN, Invoke(c, n, given, b)
      PROVE  FileOK' /\ CallsOK'
  BY <1>2, InvokeKeeps
<1>3. ASSUME NEW c \in Calls, Invoking(c) \/ Raise(c) PROVE FileOK' /\ CallsOK'
  BY <1>3, CallKeeps
<1>4. ASSUME NEW c \in Calls, Exits(c) PROVE FileOK' /\ CallsOK'
  <2>1. PICK code \in {"ok", "failed"} : runner' = [runner EXCEPT ![c] = code]
    BY <1>4 DEF Exits
  <2>2. CallsOK'
    BY <1>4, <2>1, RunnerMoves DEF Exits
  <2>3. QED
    BY <1>4, <2>2, FileStays DEF Exits, fileVars
<1>5. ASSUME NEW c \in Calls, Record(c) PROVE FileOK' /\ CallsOK'
  BY <1>5, RecordKeeps, FileStays DEF Record, fileVars
<1>6. ASSUME NEW c \in Calls, Kill(c) PROVE FileOK' /\ CallsOK'
  <2>1. CallsOK'
    BY <1>6, RunnerMoves DEF Kill
  <2>2. QED
    BY <1>6, <2>1, FileStays DEF Kill
<1>7. ASSUME NEW a \in Notes, ReadRow(a) \/ WriteBack(a) PROVE FileOK' /\ CallsOK'
  BY <1>7, NoteKeeps, FileStays DEF ReadRow, WriteBack, fileVars
<1>8. CASE UNCHANGED vars
  BY <1>8, FileStays, CallsStay DEF vars, fileVars
<1>9. QED
  BY <1>1, <1>2, <1>3, <1>4, <1>5, <1>6, <1>7, <1>8 DEF Next

LEMMA IInvAlways == Spec => []IInv
  BY IInvInit, IInvNext, PTL DEF Spec

\* Every variable keeps its type, and what actions.json loads as is a set of
\* templates, whoever dies in the middle of saving it (ActionStore).
THEOREM ActionTypes == Spec => []TypeOK
<1>1. IInv => TypeOK
  BY DEF IInv
<1>2. QED
  BY <1>1, IInvAlways, PTL

\* No command is ever started whose node, and whose edge to the run it
\* controls, are not in the journal: invoke writes both before it starts the
\* runner, and may fail at any step (actions.py, invoke).
THEOREM AlwaysAudited == Spec => []Audited
<1>1. IInv => Audited
  BY DEF IInv
<1>2. QED
  BY <1>1, IInvAlways, PTL

\* An outcome a caller was told is the one the journal keeps, although the row
\* it was read from may be taken back by an annotation that read it earlier
\* (invoke's poll, the runner's update_node, node_annotate).
THEOREM OutcomeAlwaysStands == Spec => []OutcomeStands
<1>1. IInv => OutcomeStands
  BY DEF IInv
<1>2. QED
  BY <1>1, IInvAlways, PTL
=============================================================================
