------------------------------ MODULE SavedFile ------------------------------
(***************************************************************************)
(* A small JSON file that is loaded whole, changed in memory and saved     *)
(* whole through one temporary name beside it: auth/users.json (AuthStore, *)
(* src/mlparty/auth.py) and actions.json (ActionStore,                     *)
(* src/mlparty/actions.py).  Nothing locks the file: every editor writes   *)
(* the same .tmp, so two of them may hold one inode of it, and the rename  *)
(* of one may publish what the other has just truncated.  An editor may    *)
(* die between any two steps.                                              *)
(*                                                                         *)
(* The modules that extend this one say what may be in the file and which  *)
(* changes are made to it.                                                 *)
(***************************************************************************)
EXTENDS Integers, FiniteSets

CONSTANTS
  Editors,   \* the processes that change the file
  Blank,     \* what a load of the missing file gives
  Torn,      \* content that does not parse: truncated, or two writes mixed
  MaxChanges, \* bound on changes
  MaxDeaths  \* bound on editors that die midway

ASSUME SavedFileAssumption ==
  /\ Torn # Blank
  /\ IsFiniteSet(Editors)
  /\ {MaxChanges, MaxDeaths} \subseteq Nat

VARIABLES
  turns,   \* whether the editors take turns, chosen at the start
  path,    \* the inode the file's name leads to, 0 when there is none
  tmp,     \* the inode of the temporary name, 0 when there is none
  disk,    \* what each inode holds
  edit,    \* each editor's step, the inode it has open, what it will write
  changes, deaths   \* budget used

fileVars == <<turns, path, tmp, disk, edit, changes, deaths>>

Idle == [step |-> "idle", fd |-> 0, data |-> Blank]

\* Each editor may hold an inode besides the named ones.
Inodes == 1 .. (Cardinality(Editors) + 2)

FileInit ==
  /\ turns \in BOOLEAN
  /\ path = 0 /\ tmp = 0
  /\ disk = [i \in Inodes |-> Torn]
  /\ edit = [p \in Editors |-> Idle]
  /\ changes = 0 /\ deaths = 0

\* What a load returns; Torn when json.loads would raise.
Loaded == IF path = 0 THEN Blank ELSE disk[path]

Free(p) ==
  /\ edit[p].step = "idle"
  /\ turns => \A q \in Editors : edit[q].step = "idle"

\* p has loaded the file, changed it into data, and goes on to save that.
Change(p, data) ==
  /\ changes < MaxChanges /\ changes' = changes + 1
  /\ edit' = [edit EXCEPT ![p] = [step |-> "open", fd |-> 0, data |-> data]]
  /\ UNCHANGED <<turns, path, tmp, disk, deaths>>

Unnamed == Inodes \ ({path, tmp} \cup {edit[p].fd : p \in Editors})

\* write_text truncates the temporary file, or makes it.
Open(p) ==
  /\ edit[p].step = "open"
  /\ LET i == IF tmp # 0 THEN tmp ELSE CHOOSE j \in Unnamed : TRUE
     IN /\ tmp' = i
        /\ disk' = [disk EXCEPT ![i] = Torn]
        /\ edit' = [edit EXCEPT ![p].step = "write", ![p].fd = i]
  /\ UNCHANGED <<turns, path, changes, deaths>>

\* The text reaches the inode p opened, whatever its name is by now.  Over
\* another editor's longer text it leaves that text's end behind.
Write(p) ==
  /\ edit[p].step = "write"
  /\ LET i == edit[p].fd
     IN \/ disk' = [disk EXCEPT ![i] = edit[p].data]
        \/ /\ disk[i] \notin {Torn, edit[p].data}
           /\ disk' = [disk EXCEPT ![i] = Torn]
  /\ edit' = [edit EXCEPT ![p].step = "rename"]
  /\ UNCHANGED <<turns, path, tmp, changes, deaths>>

\* The temporary name becomes the file's.  chmod and rename both raise when
\* another editor has already renamed it.
Rename(p) ==
  /\ edit[p].step = "rename"
  /\ IF tmp = 0 THEN UNCHANGED <<turns, path, tmp, disk>>
     ELSE /\ path' = tmp /\ tmp' = 0
          /\ disk' = [i \in Inodes |-> IF i = path /\ i # tmp /\ \A q \in Editors \ {p} : edit[q].fd # i
                                       THEN Torn ELSE disk[i]]
  /\ edit' = [edit EXCEPT ![p] = Idle]
  /\ UNCHANGED <<turns, changes, deaths>>

\* p dies, or the disk is full: what it opened stays as it is.
Die(p) ==
  /\ edit[p].step # "idle" /\ deaths < MaxDeaths
  /\ edit' = [edit EXCEPT ![p] = Idle]
  /\ deaths' = deaths + 1
  /\ UNCHANGED <<turns, path, tmp, disk, changes>>

Saving(p) == Open(p) \/ Write(p) \/ Die(p)
=============================================================================
