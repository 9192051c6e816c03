------------------------------ MODULE Accounts ------------------------------
(***************************************************************************)
(* Users, API tokens and sessions (AuthStore of src/mlparty/auth.py) and   *)
(* the server that answers to them (the gates and the login of             *)
(* src/mlparty/http_api.py).                                               *)
(*                                                                         *)
(* `mlp user` commands change users.json, each a process of its own; the   *)
(* server's threads load it again at every request and keep nothing of it. *)
(* Sessions are stateless: a cookie names the user's id and a fingerprint  *)
(* of the password hash it was issued under, signed with a secret that is  *)
(* made when it is first needed.  Ids, salts and token ids never repeat;   *)
(* the model draws them from one counter.                                  *)
(***************************************************************************)
EXTENDS SavedFile

Ranks == {"viewer", "writer", "admin"}

CONSTANTS
  Names,      \* user names
  Roles,      \* the roles of ROLES that are given
  Threads,    \* request threads of the server
  MaxDrawn,   \* bound on ids, salts and tokens drawn
  MaxFails,   \* LOGIN_MAX_FAILS
  MaxBreaks   \* bound on restarts of the server and refused passwords

ASSUME AccountsAssumption ==
  /\ Roles \subseteq Ranks
  /\ Blank = [u \in {} |-> 0]
  /\ {MaxDrawn, MaxFails, MaxBreaks} \subseteq Nat

VARIABLES
  drawn,    \* the last id, salt or token id drawn
  given,    \* per editor, the token its change creates (0: none)
  creds,    \* credentials handed out that have not expired
  keyfile,  \* auth/secret: 0 when missing, Torn when truncated, or a key
  key,      \* the secret the server has in memory, 0 when it has none
  thread,   \* what each request thread is doing
  guard,    \* login_guard: failures in a row and the lock, per user name
  breaks    \* budget used

server == <<keyfile, key, thread, guard>>
vars == <<fileVars, drawn, given, creds, server, breaks>>

\* role_at_least, as the roles that reach a minimum.
AtLeast == [viewer |-> Ranks, writer |-> {"writer", "admin"}, admin |-> {"admin"}]
Drawn == 0 .. MaxDrawn
Keys  == {0, Torn} \cup Threads

Users == UNION {[S -> [id : Drawn, role : Roles, pw : Drawn, tokens : SUBSET Drawn]] : S \in SUBSET Names}
\* What does not parse is none of these.
ASSUME TornAssumption == Torn \notin Users

Creds == [kind : {"session", "token", "read"}, id : Drawn, pw : Drawn, key : Keys]
Resting == [at |-> "idle", user |-> 0, fails |-> 0, cred |-> [kind |-> "read", id |-> 0, pw |-> 0, key |-> 0]]

TypeOK ==
  /\ path \in {0} \cup Inodes /\ tmp \in {0} \cup Inodes
  /\ disk \in [Inodes -> {Torn} \cup Users]
  /\ edit \in [Editors -> [step : {"idle", "open", "write", "rename"},
                           fd : {0} \cup Inodes, data : Users]]
  /\ drawn \in Drawn /\ given \in [Editors -> Drawn]
  /\ creds \subseteq Creds
  /\ keyfile \in Keys /\ key \in Keys
  /\ thread \in [Threads -> [at : {"idle", "verify", "sign", "make", "fill", "take"},
                             user : {0} \cup Names, fails : 0 .. breaks, cred : Creds]]
  /\ guard \in [Names -> [fails : 0 .. breaks, locked : BOOLEAN]]
  /\ breaks \in 0 .. MaxBreaks

Init ==
  /\ FileInit
  /\ drawn = 0 /\ given = [p \in Editors |-> 0] /\ creds = {}
  /\ keyfile = 0 /\ key = 0
  /\ thread = [t \in Threads |-> Resting]
  /\ guard = [u \in Names |-> [fails |-> 0, locked |-> FALSE]]
  /\ breaks = 0

-----------------------------------------------------------------------------
\* What a loaded file says.

Readable == Loaded # Torn
\* enabled: auth is on once there is a user.
Enabled == Readable /\ DOMAIN Loaded # {}
Admins(d) == {u \in DOMAIN d : d[u].role = "admin"}

\* The secret that signatures are checked with: secret().
Signing == IF key = 0 THEN keyfile ELSE key

\* The users that credential c stands for: authenticate_token, and
\* verify_session, which finds the user by id and compares fingerprints.
Bearers(c) ==
  {u \in DOMAIN Loaded :
     CASE c.kind = "token"   -> c.id \in Loaded[u].tokens
       [] c.kind = "session" -> c.key = Signing /\ c.id = Loaded[u].id /\ c.pw = Loaded[u].pw
       [] OTHER              -> FALSE}

\* require_read and require_role, once auth is on: c is accepted, and c is
\* accepted for a role.
Reads(c) == Readable /\ (Bearers(c) # {} \/ (c.kind = "read" /\ c.key = Signing))
Holds(c, minimum) == Readable /\ \E u \in Bearers(c) : Loaded[u].role \in AtLeast[minimum]

-----------------------------------------------------------------------------
\* The changes: each loads, checks and goes on to save.

Put(d, u, user) == [v \in DOMAIN d \cup {u} |-> IF v = u THEN user ELSE d[v]]

\* n ids are drawn, and the change hands out token k.
Draws(p, n, k) ==
  /\ drawn + n <= MaxDrawn
  /\ drawn' = drawn + n
  /\ given' = [given EXCEPT ![p] = k]
  /\ UNCHANGED <<creds, server, breaks>>

UserAdd(p, u, role, withPassword) ==
  /\ Free(p) /\ Readable
  /\ u \notin DOMAIN Loaded
  /\ DOMAIN Loaded = {} => role = "admin"
  /\ Draws(p, 1, 0)
  /\ Change(p, Put(Loaded, u, [id |-> drawn', role |-> role,
                               pw |-> IF withPassword THEN drawn' ELSE 0, tokens |-> {}]))

\* Mutant: the last admin may go.
UserRemoveAny(p, u) ==
  /\ Free(p) /\ Readable /\ u \in DOMAIN Loaded
  /\ Draws(p, 0, 0)
  /\ Change(p, [v \in DOMAIN Loaded \ {u} |-> Loaded[v]])

UserRemove(p, u) ==
  /\ Free(p) /\ Readable /\ u \in DOMAIN Loaded
  /\ Admins(Loaded) # {u}
  /\ Draws(p, 0, 0)
  /\ Change(p, [v \in DOMAIN Loaded \ {u} |-> Loaded[v]])

\* Mutant: the role is not checked against ROLES.
UserSetRoleUnchecked(p, u, role) ==
  /\ Free(p) /\ Readable /\ u \in DOMAIN Loaded
  /\ Admins(Loaded) # {u} \/ role = "admin"
  /\ Draws(p, 0, 0)
  /\ Change(p, [Loaded EXCEPT ![u].role = u])

\* Mutant: the guard looks at the role given, not at who else is admin.
UserSetRoleUnguarded(p, u, role) ==
  /\ Free(p) /\ Readable /\ u \in DOMAIN Loaded
  /\ Draws(p, 0, 0)
  /\ Change(p, [Loaded EXCEPT ![u].role = role])

UserSetRole(p, u, role) ==
  /\ Free(p) /\ Readable /\ u \in DOMAIN Loaded
  /\ Admins(Loaded) # {u} \/ role = "admin"
  /\ Draws(p, 0, 0)
  /\ Change(p, [Loaded EXCEPT ![u].role = role])

\* Mutant: without a salt the same password has the same hash again.
UserSetPasswordUnsalted(p, u) ==
  /\ Free(p) /\ Readable /\ u \in DOMAIN Loaded
  /\ Draws(p, 1, 0)
  /\ Change(p, [Loaded EXCEPT ![u].pw = IF @ = Loaded[u].id THEN drawn' ELSE Loaded[u].id])

\* A new salt each time: the fingerprint changes with every reset.
UserSetPassword(p, u) ==
  /\ Free(p) /\ Readable /\ u \in DOMAIN Loaded
  /\ Draws(p, 1, 0)
  /\ Change(p, [Loaded EXCEPT ![u].pw = drawn'])

TokenCreate(p, u) ==
  /\ Free(p) /\ Readable /\ u \in DOMAIN Loaded
  /\ Draws(p, 1, drawn + 1)
  /\ Change(p, [Loaded EXCEPT ![u].tokens = @ \cup {drawn'}])

TokenRevoke(p, u, k) ==
  /\ Free(p) /\ Readable /\ u \in DOMAIN Loaded /\ k \in Loaded[u].tokens
  /\ Draws(p, 0, 0)
  /\ Change(p, [Loaded EXCEPT ![u].tokens = @ \ {k}])

Save(p) ==
  /\ Saving(p)
  /\ UNCHANGED <<drawn, given, creds, server, breaks>>

\* The change is saved; a new token is shown once, unless the rename raised.
Publish(p) ==
  /\ Rename(p)
  /\ creds' = IF given[p] = 0 \/ tmp = 0 THEN creds
              ELSE creds \cup {[kind |-> "token", id |-> given[p], pw |-> 0, key |-> 0]}
  /\ given' = [given EXCEPT ![p] = 0]
  /\ UNCHANGED <<drawn, server, breaks>>

-----------------------------------------------------------------------------
\* The server.

\* One thread at a time: the first two sign-ins ever may otherwise make two
\* secrets.  Where commands overlap the server, which writes nothing of theirs,
\* is left out: what is said of its answers is said for commands in turn.
Quiet(t) == turns /\ \A s \in Threads : thread[s].at = "idle"

Turn(t, at, cred) == thread' = [thread EXCEPT ![t].at = at, ![t].cred = cred]

\* auth_login: refused when auth is off or the name is locked out.
Login(t, u) ==
  /\ Quiet(t) /\ Enabled /\ ~guard[u].locked
  /\ thread' = [thread EXCEPT ![t].at = "verify", ![t].user = u, ![t].fails = guard[u].fails]
  /\ UNCHANGED <<fileVars, drawn, given, creds, keyfile, key, guard, breaks>>

\* The right password: the session is to carry the hash just checked.
Verified(t, u) ==
  /\ thread[t].at = "verify" /\ thread[t].user = u
  /\ Readable /\ u \in DOMAIN Loaded /\ Loaded[u].pw # 0
  /\ Turn(t, "sign", [kind |-> "session", id |-> Loaded[u].id, pw |-> Loaded[u].pw, key |-> 0])
  /\ guard' = [guard EXCEPT ![u] = [fails |-> 0, locked |-> FALSE]]
  /\ UNCHANGED <<fileVars, drawn, given, creds, keyfile, key, breaks>>

\* An unknown user, one without a password, or a wrong one.
Refused(t, u) ==
  /\ thread[t].at = "verify" /\ thread[t].user = u /\ breaks < MaxBreaks
  /\ LET n == thread[t].fails + 1
     IN guard' = [guard EXCEPT ![u] = [fails |-> n, locked |-> n >= MaxFails]]
  /\ thread' = [thread EXCEPT ![t] = Resting]
  /\ breaks' = breaks + 1
  /\ UNCHANGED <<fileVars, drawn, given, creds, keyfile, key>>

\* The lock, 30 s doubling with every failure, is over; the count stays.
Unlock(u) ==
  /\ guard[u].locked
  /\ guard' = [guard EXCEPT ![u].locked = FALSE]
  /\ UNCHANGED <<fileVars, drawn, given, creds, keyfile, key, thread, breaks>>

\* auth_board_token: a user asks for a read token for a sandboxed board.
BoardToken(t, c) ==
  /\ Quiet(t) /\ Enabled /\ Holds(c, "viewer")
  /\ Turn(t, "sign", [kind |-> "read", id |-> 0, pw |-> 0, key |-> 0])
  /\ UNCHANGED <<fileVars, drawn, given, creds, keyfile, key, guard, breaks>>

\* Mutant: the secret is kept in memory alone.
FindSecretUnsaved(t) ==
  /\ thread[t].at = "sign" /\ key = 0
  /\ key' = t
  /\ UNCHANGED <<keyfile, thread>>

\* secret(), step by step: is it in memory, is there a file, make one, read it.
FindSecret(t) ==
  /\ thread[t].at = "sign" /\ key = 0
  /\ thread' = [thread EXCEPT ![t].at = IF keyfile = 0 THEN "make" ELSE "take"]
  /\ UNCHANGED <<keyfile, key>>

MakeSecret(t) ==
  /\ \/ /\ thread[t].at = "make" /\ keyfile' = Torn
        /\ thread' = [thread EXCEPT ![t].at = "fill"]
     \/ /\ thread[t].at = "fill" /\ keyfile' = t
        /\ thread' = [thread EXCEPT ![t].at = "take"]
  /\ UNCHANGED key

TakeSecret(t) ==
  /\ thread[t].at = "take"
  /\ key' = keyfile
  /\ thread' = [thread EXCEPT ![t].at = "sign"]
  /\ UNCHANGED keyfile

Secret(t) ==
  /\ FindSecret(t) \/ MakeSecret(t) \/ TakeSecret(t)
  /\ UNCHANGED <<fileVars, drawn, given, creds, guard, breaks>>

\* issue_session, issue_read_token: the reply leaves.
Issue(t) ==
  /\ thread[t].at = "sign" /\ key # 0
  /\ creds' = creds \cup {[thread[t].cred EXCEPT !.key = key]}
  /\ thread' = [thread EXCEPT ![t] = Resting]
  /\ UNCHANGED <<fileVars, drawn, given, keyfile, key, guard, breaks>>

\* A session or a read token outlives its time to live: it is refused for good.
Expire(c) ==
  /\ c.kind # "token"
  /\ creds' = creds \ {c}
  /\ UNCHANGED <<fileVars, drawn, given, server, breaks>>

\* The memory of the server goes; a request finds its secret again.
Restart ==
  /\ breaks < MaxBreaks /\ breaks' = breaks + 1
  /\ key' = 0
  /\ thread' = [t \in Threads |-> Resting]
  /\ guard' = [u \in Names |-> [fails |-> 0, locked |-> FALSE]]
  /\ UNCHANGED <<fileVars, drawn, given, creds, keyfile>>

\* After a restart the first request with a signed credential reads the secret.
Reread ==
  /\ key = 0 /\ keyfile # 0 /\ \E c \in creds : c.kind # "token"
  /\ key' = keyfile
  /\ UNCHANGED <<fileVars, drawn, given, creds, keyfile, thread, guard, breaks>>

Command(p) ==
  \/ \E u \in Names, role \in Roles, w \in BOOLEAN : UserAdd(p, u, role, w)
  \/ \E u \in Names : UserRemove(p, u) \/ UserSetPassword(p, u) \/ TokenCreate(p, u)
  \/ \E u \in Names, role \in Roles : UserSetRole(p, u, role)
  \/ \E u \in Names, k \in Drawn : TokenRevoke(p, u, k)
  \/ Save(p) \/ Publish(p)

Serve(t) ==
  \/ \E u \in Names : Login(t, u) \/ Verified(t, u) \/ Refused(t, u)
  \/ \E c \in creds : BoardToken(t, c)
  \/ Secret(t) \/ Issue(t)

Next ==
  \/ \E p \in Editors : Command(p)
  \/ \E t \in Threads : Serve(t)
  \/ \E u \in Names : Unlock(u)
  \/ \E c \in creds : Expire(c)
  \/ Restart \/ Reread

Spec == Init /\ [][Next]_vars

-----------------------------------------------------------------------------
\* Whatever the editors overwrite of each other's work, a readable file that
\* has users has an admin among them: the last-admin guards of user_remove and
\* user_set_role look at a file that another command may be replacing.
AdminRemains == Readable /\ DOMAIN Loaded # {} => Admins(Loaded) # {}

\* Auth never goes off again: once the file has users no sequence of commands,
\* concurrent or dying midway, leaves a readable file without any.
OnForGood == [][Enabled /\ Readable' => Enabled']_vars

\* While commands take turns every load succeeds, wherever one of them dies:
\* _save makes its text whole under the temporary name before it is the file.
AlwaysReadable == turns => Readable

\* While commands take turns, a credential that has stopped being accepted is
\* never accepted again: a session after a password reset or the removal of
\* its user, also when the name is added again; a revoked token.
EndedForGood == [][turns => \A c \in creds \cap creds' : ~Reads(c) => ~Reads(c)']_vars

\* A restart logs nobody out (auth.py:75-76), once the secret is made by one
\* thread alone.
SurvivesRestart == [][turns /\ key # 0 /\ key' = 0 => \A c \in creds : Reads(c) => Reads(c)']_vars
=============================================================================
