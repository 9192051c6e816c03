------------------------------- MODULE Capture -------------------------------
(* Which files of a source directory a run captures, when a caller has to   *)
(* consent, and what a preview says of it: collect_source and               *)
(* build_snapshot of src/mlparty/gitstore.py, snapshot_preview and          *)
(* run_start of src/mlparty/core.py.  A file is told from the others by     *)
(* where it lies and what its name is taken for.                            *)
EXTENDS Integers, FiniteSetsExt

CONSTANTS
  FileCap,      \* per_file_cap_bytes
  TotalCap,     \* total_cap_bytes
  ConfirmFiles, \* confirm_above_files
  ConfirmBytes  \* confirm_above_bytes

ASSUME CaptureAssumption == {FileCap, TotalCap, ConfirmFiles, ConfirmBytes} \subseteq Nat

\* The root itself; an ordinary directory; one of ALWAYS_EXCLUDE_DIRS; one of
\* exclude_dirs; an .egg-info; one with the name of a secret; the store; a link.
Places == {"top", "src", "always", "excluded", "egg", "secret", "store", "linked"}
\* An allowed extension, an allowed name, neither, or a denied pattern.
Kinds == {"ext", "named", "other", "denied"}
\* listed: git knows it, or does not ignore it.
File == [place : Places, kind : Kinds, size : Nat, link : BOOLEAN, listed : BOOLEAN,
         content : {"a", "b"}]
Path(f) == <<f.place, f.kind>>
\* .mlparty/env.lock, which every snapshot is given.
Lock == <<"always", "ext">>

\* check_source_root: a project, never the home directory or one above it.
RootOK(s) == s.root = "project"

\* git lists nothing behind a link.
GitKeeps(f) == /\ f.listed /\ ~f.link
               /\ f.place \notin {"linked", "always", "excluded", "store", "secret"}
               /\ f.kind # "denied" /\ f.size <= FileCap

\* Mutant: only the configured directories are left out.
WalkKeepsAlways(f) == /\ f.place \notin {"excluded", "egg", "store", "linked"}
                      /\ ~f.link /\ f.kind \in {"ext", "named"} /\ f.size <= FileCap

WalkKeeps(f) == /\ f.place \notin {"always", "excluded", "egg", "store", "linked"}
                /\ ~f.link /\ f.kind \in {"ext", "named"} /\ f.size <= FileCap

Collected(s) == {f \in s.files : IF s.git THEN GitKeeps(f) ELSE WalkKeeps(f)}
Bytes(F) == MapThenSumSet(LAMBDA f : f.size, F)
TooLarge(s) == Bytes(Collected(s)) > TotalCap

\* _needs_confirmation.
Needs(s) == \/ ~s.git
            \/ Cardinality(Collected(s)) > ConfirmFiles
            \/ Bytes(Collected(s)) > ConfirmBytes

\* build_snapshot: the tree as a function from paths to contents, the injected
\* file last.
Tree(F, lock) == [p \in {Path(f) : f \in F} \cup {Lock} |->
                    IF p = Lock THEN lock ELSE (CHOOSE f \in F : Path(f) = p).content]

\* _snapshot_delta: against the tree of the last run, without its env.lock.
Delta(s, prior) ==
  LET stored   == DOMAIN prior \ {Lock}
      now      == [p \in {Path(f) : f \in Collected(s)} |->
                     (CHOOSE f \in Collected(s) : Path(f) = p).content]
  IN [added    |-> DOMAIN now \ stored,
      removed  |-> stored \ DOMAIN now,
      modified |-> {p \in DOMAIN now \cap stored : now[p] # prior[p]}]

\* What snapshot_preview tells, and what run_start does, of source s.
Preview(s, prior) ==
  IF ~RootOK(s) \/ TooLarge(s) THEN [refused |-> TRUE]
  ELSE [refused |-> FALSE, needs |-> Needs(s), delta |-> Delta(s, prior)]
Capturing(s, lock, confirm) ==
  IF ~RootOK(s) \/ TooLarge(s) THEN [stored |-> FALSE, ask |-> FALSE]
  ELSE IF Needs(s) /\ ~confirm THEN [stored |-> FALSE, ask |-> TRUE]
  ELSE [stored |-> TRUE, tree |-> Tree(Collected(s), lock)]

-----------------------------------------------------------------------------
\* A preview foretells the run that follows it on the same source: when it is
\* refused, when it asks, and how its tree will differ from the last one.  The
\* environment of a run is the one it was given, whatever lies in the source,
\* and no run that was not consented to is of a directory without git or above
\* a threshold.
CaptureForetold(s, prior) ==
  LET told == Preview(s, prior)
  IN \A confirm \in BOOLEAN :
       LET run == Capturing(s, "env", confirm)
       IN /\ run.stored <=> ~told.refused /\ (told.needs => confirm)
          /\ ~run.stored => run.ask = (~told.refused /\ told.needs /\ ~confirm)
          /\ run.stored =>
               /\ run.tree[Lock] = "env"
               /\ LET same == {p \in DOMAIN prior : /\ p \in DOMAIN run.tree
                                                    /\ p \notin told.delta.modified}
                  IN /\ \A p \in same \ {Lock} : run.tree[p] = prior[p]
                     /\ \A p \in told.delta.modified : run.tree[p] # prior[p]
                     /\ DOMAIN run.tree = (DOMAIN prior \ told.delta.removed)
                                             \cup told.delta.added \cup {Lock}
               /\ ~confirm => /\ s.git /\ ~(Bytes(Collected(s)) > ConfirmBytes)
                              /\ Cardinality(DOMAIN run.tree) <= ConfirmFiles + 1
               /\ {Lock} \cap told.delta.added = {}
=============================================================================
