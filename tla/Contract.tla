------------------------------ MODULE Contract ------------------------------
(* The write contract at the start of a run: validate_start and            *)
(* validate_compute of src/mlparty/contract.py, as run_start of            *)
(* src/mlparty/core.py calls them.                                         *)
EXTENDS FiniteSets

\* What _check_text tells apart of a text; a hypothesis may be a question to
\* explore, and that may be missing.
Text == {"none", "blank", "short", "good"}
Hypothesis == Text \cup {"probe", "bare probe"}
Field == {"absent", "blank", "given"}
Url   == {"absent", "blank", "no scheme", "no link", "link"}

Compute == [system : Field, job_id : Field, note : Field, url : Url, extra : BOOLEAN]
\* `none` stands for no reference at all, `list` for what is not a mapping.
Request == [title : Text, purpose : Text, hypothesis : Hypothesis,
            parameters : {"none", "list", "map"}, shape : {"none", "list", "map"},
            compute : Compute]

\* The fields a refusal of validate_start names, as missing or as invalid.
StartNamed(r) ==
  {f \in {"title", "purpose"} : r[f] # "good"}
    \cup {f \in {"hypothesis"} : r[f] \notin {"good", "probe"}}
    \cup {f \in {"parameters"} : r[f] # "map"}

\* Mutant: what is wrong with the url is found when the rest is right.
ComputeNamedInTurn(c) ==
  LET clean == {f \in {"system", "job_id"} : c[f] = "given"}
                 \cup {f \in {"url"} : c.url \notin {"absent", "blank"}}
  IN IF c.extra THEN {"extra"}
     ELSE IF clean = {} THEN {"identity"}
     ELSE {f \in {"url"} : c.url \in {"no scheme", "no link"}}

\* The same of validate_compute: an unknown key, no field that identifies the
\* job, a url that nobody can follow.
ComputeNamed(c) ==
  LET clean == {f \in {"system", "job_id"} : c[f] = "given"}
                 \cup {f \in {"url"} : c.url \notin {"absent", "blank"}}
  IN {f \in {"extra"} : c.extra} \cup {f \in {"identity"} : clean = {}}
       \cup {f \in {"url"} : c.url \in {"no scheme", "no link"}}

\* run_start looks at the reference only when the rest is accepted.
Refusal(r) == IF StartNamed(r) # {} THEN StartNamed(r)
              ELSE CASE r.shape = "none" -> {}
                     [] r.shape = "list" -> {"compute"}
                     [] r.shape = "map"  -> ComputeNamed(r.compute)

-----------------------------------------------------------------------------
Good == [title |-> "good", purpose |-> "good", hypothesis |-> "good", parameters |-> "map"]
\* The caller puts right what was named, and nothing else.
Repaired(r, named) ==
  [f \in DOMAIN r |->
     IF f \in named THEN IF f = "compute" THEN r[f] ELSE Good[f]
     ELSE IF f = "shape" /\ "compute" \in named THEN "none"
     ELSE IF f = "compute"
     THEN [g \in DOMAIN r.compute |->
             CASE g = "extra"  -> r.compute.extra /\ g \notin named
               [] g = "url"    -> IF g \in named THEN "link" ELSE r.compute.url
               [] g = "job_id" -> IF "identity" \in named THEN "given" ELSE r.compute.job_id
               [] OTHER        -> r.compute[g]]
     ELSE r[f]]

\* A caller that puts right what a refusal names is refused at most once more,
\* and then for the reference; and nothing is named that was right.
Repairs(r) ==
  LET once == Repaired(r, Refusal(r))
  IN /\ Refusal(once) # {} => /\ StartNamed(r) # {}
                              /\ Refusal(Repaired(once, Refusal(once))) = {}
     /\ \A f \in Refusal(r) : Refusal(Repaired(r, Refusal(r) \ {f})) # {}
=============================================================================
