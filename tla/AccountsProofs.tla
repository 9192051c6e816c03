--------------------------- MODULE AccountsProofs ---------------------------
(***************************************************************************)
(* Theorems about Accounts, for any users, roles, commands, threads and    *)
(* bounds: types, the admin that remains, auth that never goes off; and,   *)
(* while commands take turns, a users.json that always loads, credentials  *)
(* that end for good, and restarts that log nobody out.                    *)
(***************************************************************************)
EXTENDS Accounts, FiniteSetTheorems, TLAPS

-----------------------------------------------------------------------------
\* The invariant behind the properties.

\* An editor has nothing open before it opens its file.
HandsEmpty == \A p \in Editors : edit[p].step \in {"idle", "open"} => edit[p].fd = 0

\* Every text that is whole, on disk or in hand, has an admin in it.
Ruled == /\ \A i \in Inodes : disk[i] # Torn => Admins(disk[i]) # {}
         /\ \A p \in Editors : edit[p].step # "idle" => Admins(edit[p].data) # {}

\* In turns: one editor at a time, with the file under its temporary name open,
\* which is another than the file everybody loads.
InTurns == turns =>
  /\ \A p, q \in Editors : edit[p].step # "idle" /\ edit[q].step # "idle" => p = q
  /\ path # 0 => path # tmp /\ disk[path] # Torn
  /\ \A p \in Editors :
       /\ edit[p].step \in {"write", "rename"} => tmp # 0 /\ edit[p].fd = tmp
       /\ edit[p].step = "write"  => disk[tmp] = Torn
       /\ edit[p].step = "rename" => disk[tmp] # Torn

IInv == TypeOK /\ HandsEmpty /\ Ruled /\ InTurns

\* What of a credential names a user: the secret it is signed with aside.
Named(d, c) ==
  {u \in DOMAIN d : \/ /\ c.kind = "token" /\ c.id \in d[u].tokens
                   \/ /\ c.kind = "session" /\ c.id = d[u].id /\ c.pw = d[u].pw}

\* The credentials that are handed out, or are about to be.
Out == creds \cup {thread[t].cred : t \in Threads}

\* In turns, the text to be renamed is what its editor wrote.
Whole == \A p \in Editors : edit[p].step = "rename" => disk[tmp] = edit[p].data

\* No id, salt or token is above the last one drawn.
Below(d) == \A u \in DOMAIN d : d[u].id <= drawn /\ d[u].pw <= drawn
Counted ==
  /\ Below(Loaded) /\ \A p \in Editors : Below(edit[p].data) /\ given[p] <= drawn
  /\ \A c \in Out : c.id <= drawn /\ c.pw <= drawn

\* A change in the making names the user of a credential only if the file does:
\* what it adds is drawn after every credential there is.
Renewed == \A p \in Editors : edit[p].step # "idle" =>
             \A c \in Out : Named(edit[p].data, c) # {} => Named(Loaded, c) # {}

\* One secret signs everything: the file holds it, memory has it or nothing, and
\* it is only being made while nothing is signed.
OneSecret ==
  /\ key \in {0, keyfile}
  /\ \A c \in creds : c.kind # "token" => keyfile # 0 /\ c.key = keyfile
  /\ \A t, s \in Threads : thread[t].at # "idle" /\ thread[s].at # "idle" => t = s
  /\ \A t \in Threads :
       /\ thread[t].at = "make" => keyfile = 0
       /\ thread[t].at = "fill" => key = 0 /\ \A c \in creds : c.kind = "token"

TurnsInv == turns => Whole /\ Counted /\ Renewed /\ OneSecret

-----------------------------------------------------------------------------
\* What the invariant says of the file and its editors, and of the rest.
FileOK ==
  /\ path \in {0} \cup Inodes /\ tmp \in {0} \cup Inodes
  /\ disk \in [Inodes -> {Torn} \cup Users]
  /\ edit \in [Editors -> [step : {"idle", "open", "write", "rename"},
                           fd : {0} \cup Inodes, data : Users]]
  /\ HandsEmpty /\ Ruled /\ InTurns
ServerOK ==
  /\ drawn \in Drawn /\ given \in [Editors -> Drawn]
  /\ creds \subseteq Creds
  /\ keyfile \in Keys /\ key \in Keys
  /\ thread \in [Threads -> [at : {"idle", "verify", "sign", "make", "fill", "take"},
                             user : {0} \cup Names, fails : 0 .. breaks, cred : Creds]]
  /\ guard \in [Names -> [fails : 0 .. breaks, locked : BOOLEAN]]
  /\ breaks \in 0 .. MaxBreaks

\* Two more places than there are editors: one who holds none (0) finds a place
\* that neither a name nor another editor has.
LEMMA RoomForOne ==
  ASSUME NEW E, IsFiniteSet(E), NEW p \in E, NEW f, f[p] = 0
  PROVE  \A a, b : \E i \in 1 .. (Cardinality(E) + 2) : i # a /\ i # b /\ \A q \in E : f[q] # i
<1> TAKE a, b
<1> DEFINE g      == [q \in E \ {p} |-> f[q]]
           held   == {g[q] : q \in E \ {p}}
           places == 1 .. (Cardinality(E) + 2)
<1>1. Cardinality(E) \in Nat /\ IsFiniteSet(E \ {p}) /\ Cardinality(E \ {p}) = Cardinality(E) - 1
  BY FS_CardinalityType, FS_RemoveElement
<1>2. IsFiniteSet(places) /\ Cardinality(places) = Cardinality(E) + 2
  BY <1>1, FS_Interval
<1>3. g \in Surjection(E \ {p}, held)
  BY DEF Surjection
<1>4. /\ IsFiniteSet(held) /\ Cardinality(held) <= Cardinality(E) - 1
      /\ IsFiniteSet(held \cup {a}) /\ IsFiniteSet(held \cup {a} \cup {b})
      /\ Cardinality(held \cup {a} \cup {b}) <= Cardinality(E) + 1
  <2> HIDE DEF g, held
  <2>1. IsFiniteSet(held) /\ Cardinality(held) <= Cardinality(E) - 1
    BY <1>1, <1>3, FS_Surjection
  <2>2. /\ IsFiniteSet(held \cup {a}) /\ Cardinality(held) \in Nat
        /\ Cardinality(held \cup {a}) \in {Cardinality(held), Cardinality(held) + 1}
    BY <2>1, FS_AddElement, FS_CardinalityType
  <2>3. /\ IsFiniteSet(held \cup {a} \cup {b}) /\ Cardinality(held \cup {a}) \in Nat
        /\ Cardinality(held \cup {a} \cup {b}) \in {Cardinality(held \cup {a}), Cardinality(held \cup {a}) + 1}
    BY <2>2, FS_AddElement, FS_CardinalityType
  <2>4. QED
    BY <1>1, <2>1, <2>2, <2>3
<1>5. PICK i \in places : i \notin held \cup {a} \cup {b}
  <2> HIDE DEF g, held, places
  <2>1. places \subseteq held \cup {a} \cup {b} => Cardinality(places) <= Cardinality(held \cup {a} \cup {b})
    BY <1>4, FS_Subset
  <2>2. QED
    BY <2>1, <1>2, <1>1, <1>4, FS_CardinalityType
<1>6. QED
  BY <1>5

LEMMA Parts == IInv <=> FileOK /\ ServerOK
BY DEF IInv, TypeOK, FileOK, ServerOK

\* An editor that has nothing open finds an inode without a name.
LEMMA UnnamedThere ==
  ASSUME HandsEmpty, NEW p \in Editors, edit[p].step = "open"
  PROVE  Unnamed # {}
<1> DEFINE f == [q \in Editors |-> edit[q].fd]
<1>1. f[p] = 0
  BY DEF HandsEmpty
<1>2. \A q \in Editors : f[q] = edit[q].fd
  OBVIOUS
<1> HIDE DEF f
<1>3. IsFiniteSet(Editors)
  BY SavedFileAssumption
<1>4. \A a, b : \E i \in 1 .. (Cardinality(Editors) + 2) :
                  i # a /\ i # b /\ \A q \in Editors : f[q] # i
  BY <1>1, <1>3, RoomForOne
<1>5. \E i \in Inodes : i # path /\ i # tmp /\ \A q \in Editors : f[q] # i
  BY <1>4 DEF Inodes
<1>6. QED
  BY <1>2, <1>5 DEF Unnamed

LEMMA BlankUsers == Blank \in Users /\ DOMAIN Blank = {}
<1>1. Blank \in [{} -> [id : Drawn, role : Roles, pw : Drawn, tokens : SUBSET Drawn]]
  BY AccountsAssumption
<1>2. DOMAIN Blank = {}
  BY <1>1
<1>3. QED
  BY <1>1, <1>2 DEF Users

\* A loaded file is a set of users, and has an admin unless it is missing.
LEMMA LoadedTypes ==
  ASSUME FileOK, Readable
  PROVE  /\ Loaded \in Users
         /\ DOMAIN Loaded # {} => Admins(Loaded) # {}
         /\ path = 0 <=> DOMAIN Loaded = {}
<1>1. CASE path = 0
  <2>1. Loaded = Blank
    BY <1>1 DEF Loaded
  <2>2. QED
    BY <1>1, <2>1, BlankUsers
<1>2. CASE path # 0
  <2>1. Loaded = disk[path] /\ path \in Inodes
    BY <1>2 DEF Loaded, FileOK
  <2>2. disk[path] # Torn
    BY <2>1 DEF Readable
  <2>3. QED
    BY <1>2, <2>1, <2>2 DEF FileOK, Ruled, Admins
<1>3. QED
  BY <1>1, <1>2

-----------------------------------------------------------------------------
\* The steps of an editor keep what is said of the file.

LEMMA FileStays ==
  ASSUME FileOK, UNCHANGED fileVars
  PROVE  FileOK'
BY DEF FileOK, HandsEmpty, Ruled, InTurns, fileVars, Inodes

LEMMA ChangeKeeps ==
  ASSUME FileOK, NEW p \in Editors, NEW data \in Users, Free(p), Admins(data) # {},
         Change(p, data)
  PROVE  FileOK'
<1> USE DEF FileOK, Change, Free
<1>1. /\ edit' \in [Editors -> [step : {"idle", "open", "write", "rename"},
                                fd : {0} \cup Inodes, data : Users]]
      /\ \A q \in Editors \ {p} : edit'[q] = edit[q]
      /\ edit'[p] = [step |-> "open", fd |-> 0, data |-> data]
  OBVIOUS
<1>2. HandsEmpty' /\ Ruled'
  BY <1>1 DEF HandsEmpty, Ruled, Admins
<1>3. InTurns'
  BY <1>1 DEF InTurns
<1>4. QED
  BY <1>1, <1>2, <1>3

LEMMA OpenKeeps ==
  ASSUME FileOK, NEW p \in Editors, Open(p)
  PROVE  FileOK'
<1> USE DEF FileOK
<1> DEFINE i == IF tmp # 0 THEN tmp ELSE CHOOSE j \in Unnamed : TRUE
<1>1. i \in Inodes /\ (turns /\ path # 0 => i # path)
  <2>1. CASE tmp # 0
    BY <2>1 DEF InTurns
  <2>2. CASE tmp = 0
    <3>1. i \in Unnamed
      BY <2>2, UnnamedThere DEF Open
    <3>2. QED
      BY <3>1 DEF Unnamed
  <2>3. QED
    BY <2>1, <2>2
<1> HIDE DEF i
<1>2. /\ edit[p].step = "open" /\ tmp' = i /\ path' = path /\ turns' = turns
      /\ disk' = [disk EXCEPT ![i] = Torn]
      /\ edit' = [edit EXCEPT ![p].step = "write", ![p].fd = i]
  BY DEF Open, i
<1>3. /\ edit' \in [Editors -> [step : {"idle", "open", "write", "rename"},
                                fd : {0} \cup Inodes, data : Users]]
      /\ \A q \in Editors \ {p} : edit'[q] = edit[q]
      /\ edit'[p] = [step |-> "write", fd |-> i, data |-> edit[p].data]
      /\ disk' \in [Inodes -> {Torn} \cup Users]
      /\ disk'[i] = Torn /\ \A j \in Inodes \ {i} : disk'[j] = disk[j]
  BY <1>1, <1>2
<1>4. HandsEmpty'
  BY <1>2, <1>3 DEF HandsEmpty
<1>5. Ruled'
  BY <1>2, <1>3 DEF Ruled, Admins
<1>6. 0 \notin Inodes
  BY DEF Inodes
<1>7. InTurns'
  BY <1>1, <1>2, <1>3, <1>6 DEF InTurns
<1>8. QED
  BY <1>1, <1>2, <1>3, <1>4, <1>5, <1>7

LEMMA WriteKeeps ==
  ASSUME FileOK, NEW p \in Editors, Write(p)
  PROVE  FileOK'
<1> USE DEF FileOK
<1> DEFINE i == edit[p].fd
<1>1. /\ edit[p].step = "write" /\ UNCHANGED <<turns, path, tmp>>
      /\ edit' = [edit EXCEPT ![p].step = "rename"]
      /\ \/ disk' = [disk EXCEPT ![i] = edit[p].data]
         \/ disk[i] # Torn /\ disk' = [disk EXCEPT ![i] = Torn]
  BY DEF Write
<1>2. /\ edit' \in [Editors -> [step : {"idle", "open", "write", "rename"},
                                fd : {0} \cup Inodes, data : Users]]
      /\ \A q \in Editors \ {p} : edit'[q] = edit[q]
      /\ edit'[p] = [step |-> "rename", fd |-> i, data |-> edit[p].data]
  BY <1>1
<1>3. /\ disk' \in [Inodes -> {Torn} \cup Users]
      /\ \A j \in Inodes \ {i} : disk'[j] = disk[j]
      /\ i \in Inodes => disk'[i] \in {Torn, edit[p].data}
      /\ i \in Inodes /\ disk[i] = Torn => disk'[i] = edit[p].data
  BY <1>1
<1>4. HandsEmpty'
  BY <1>2 DEF HandsEmpty
<1>5. Ruled'
  BY <1>1, <1>2, <1>3 DEF Ruled, Admins
<1>6. edit[p].data # Torn
  BY TornAssumption
<1>7. InTurns'
  BY <1>1, <1>2, <1>3, <1>6 DEF InTurns
<1>8. QED
  BY <1>1, <1>2, <1>3, <1>4, <1>5, <1>7

LEMMA DieKeeps ==
  ASSUME FileOK, NEW p \in Editors, Die(p)
  PROVE  FileOK'
<1> USE DEF FileOK
<1>1. Blank \in Users
  BY BlankUsers
<1>2. /\ edit' \in [Editors -> [step : {"idle", "open", "write", "rename"},
                                fd : {0} \cup Inodes, data : Users]]
      /\ \A q \in Editors \ {p} : edit'[q] = edit[q]
      /\ edit'[p] = Idle /\ UNCHANGED <<turns, path, tmp, disk>>
  BY <1>1 DEF Die, Idle
<1>3. HandsEmpty' /\ Ruled'
  BY <1>2 DEF HandsEmpty, Ruled, Admins, Idle
<1>4. edit'[p].step = "idle"
  BY <1>2 DEF Idle
<1>5. InTurns'
  BY <1>2, <1>4 DEF InTurns
<1>6. QED
  BY <1>2, <1>3, <1>5

LEMMA RenameKeeps ==
  ASSUME FileOK, NEW p \in Editors, Rename(p)
  PROVE  FileOK'
<1> USE DEF FileOK
<1>1. Blank \in Users
  BY BlankUsers
<1>2. /\ edit' \in [Editors -> [step : {"idle", "open", "write", "rename"},
                                fd : {0} \cup Inodes, data : Users]]
      /\ \A q \in Editors \ {p} : edit'[q] = edit[q]
      /\ edit'[p] = Idle /\ turns' = turns /\ edit[p].step = "rename"
  BY <1>1 DEF Rename, Idle
<1>3. HandsEmpty' /\ edit'[p].step = "idle"
  BY <1>2 DEF HandsEmpty, Idle
<1>4. CASE tmp = 0
  <2>1. UNCHANGED <<path, tmp, disk>>
    BY <1>4 DEF Rename
  <2>2. Ruled'
    BY <1>2, <1>3, <2>1 DEF Ruled, Admins
  <2>3. InTurns'
    BY <1>2, <1>4 DEF InTurns
  <2>4. QED
    BY <1>2, <1>3, <2>1, <2>2, <2>3
<1>5. CASE tmp # 0
  <2>1. /\ path' = tmp /\ tmp' = 0
        /\ disk' \in [Inodes -> {Torn} \cup Users]
        /\ disk'[tmp] = disk[tmp]
        /\ \A j \in Inodes : disk'[j] \in {Torn, disk[j]}
    BY <1>5 DEF Rename
  <2>2. Ruled'
    BY <1>2, <2>1 DEF Ruled, Admins, Idle
  <2>3. InTurns'
    BY <1>2, <1>3, <2>1, <1>5 DEF InTurns
  <2>4. QED
    BY <1>2, <1>3, <2>1, <2>2, <2>3
<1>6. QED
  BY <1>4, <1>5

-----------------------------------------------------------------------------
\* The commands: what each is about to save is a set of users with an admin.

UserRec == [id : Drawn, role : Roles, pw : Drawn, tokens : SUBSET Drawn]

LEMMA IsUsers ==
  ASSUME NEW d
  PROVE  d \in Users <=> d \in [DOMAIN d -> UserRec] /\ DOMAIN d \subseteq Names
BY DEF Users, UserRec

\* Ids, salts and tokens are drawn from their range.
LEMMA Drawing ==
  ASSUME ServerOK, NEW p \in Editors, NEW n \in {0, 1}, NEW k \in 0 .. drawn + n, Draws(p, n, k)
  PROVE  ServerOK' /\ drawn' \in Drawn
BY AccountsAssumption DEF Draws, ServerOK, server, Drawn

\* One user of the file is given another record; the last admin remains one.
LEMMA OneChanged ==
  ASSUME NEW d \in Users, NEW u \in DOMAIN d, NEW new \in UserRec, Admins(d) # {},
         Admins(d) # {u} \/ new.role = "admin"
  PROVE  /\ [d EXCEPT ![u] = new] \in Users
         /\ Admins([d EXCEPT ![u] = new]) # {}
<1> DEFINE data == [d EXCEPT ![u] = new]
<1>1. d \in [DOMAIN d -> UserRec] /\ DOMAIN d \subseteq Names
  BY DEF Users, UserRec
<1>2. data \in [DOMAIN d -> UserRec] /\ data[u] = new /\ \A v \in DOMAIN d \ {u} : data[v] = d[v]
  BY <1>1
<1>3. data \in Users
  BY <1>1, <1>2 DEF Users, UserRec
<1>4. Admins(data) # {}
  <2>1. CASE new.role = "admin"
    BY <1>2, <2>1 DEF Admins
  <2>2. CASE Admins(d) # {u}
    <3>1. PICK v \in Admins(d) : v # u
      BY <2>2
    <3>2. QED
      BY <1>2, <3>1 DEF Admins
  <2>3. QED
    BY <2>1, <2>2
<1>5. QED
  BY <1>3, <1>4

\* So a command that changes one user keeps the invariant.
LEMMA ChangeOfOne ==
  ASSUME FileOK, Readable, NEW p \in Editors, NEW u \in DOMAIN Loaded, NEW new \in UserRec, Free(p),
         Admins(Loaded) # {u} \/ new.role = "admin", Change(p, [Loaded EXCEPT ![u] = new])
  PROVE  FileOK'
<1> DEFINE data == [Loaded EXCEPT ![u] = new]
<1>1. Loaded \in Users /\ Admins(Loaded) # {}
  BY LoadedTypes
<1>2. data \in Users /\ Admins(data) # {}
  BY <1>1, OneChanged
<1> HIDE DEF data
<1>3. QED
  BY <1>2, ChangeKeeps DEF data

LEMMA AddSaves ==
  ASSUME FileOK, ServerOK, NEW p \in Editors, NEW u \in Names, NEW role \in Roles,
         NEW w \in BOOLEAN, UserAdd(p, u, role, w)
  PROVE  FileOK' /\ ServerOK'
<1> DEFINE user == [id |-> drawn', role |-> role, pw |-> IF w THEN drawn' ELSE 0, tokens |-> {}]
           data == Put(Loaded, u, user)
<1>1. drawn' \in Drawn /\ 0 \in Drawn
  BY AccountsAssumption DEF UserAdd, Draws, ServerOK, Drawn
<1>2. user \in UserRec
  BY <1>1 DEF UserRec
<1>3. /\ Loaded \in Users
      /\ DOMAIN Loaded # {} => Admins(Loaded) # {}
      /\ u \notin DOMAIN Loaded
      /\ DOMAIN Loaded = {} => role = "admin"
  BY LoadedTypes DEF UserAdd
<1>4. data \in Users
  <2>1. Loaded \in [DOMAIN Loaded -> UserRec] /\ DOMAIN Loaded \subseteq Names
    BY <1>3 DEF Users, UserRec
  <2>2. data \in [DOMAIN Loaded \cup {u} -> UserRec] /\ DOMAIN data = DOMAIN Loaded \cup {u}
    BY <1>2, <2>1 DEF Put
  <2>3. QED
    BY <2>1, <2>2, IsUsers
<1>5. Admins(data) # {}
  <2>1. CASE DOMAIN Loaded = {}
    BY <1>3, <2>1 DEF Admins, Put
  <2>2. CASE DOMAIN Loaded # {}
    <3>1. PICK v \in DOMAIN Loaded : Loaded[v].role = "admin"
      BY <1>3, <2>2 DEF Admins
    <3>2. v \in DOMAIN data /\ data[v] = Loaded[v]
      BY <1>3, <3>1 DEF Put
    <3>3. QED
      BY <3>1, <3>2 DEF Admins
  <2>3. QED
    BY <2>1, <2>2
<1>6. Free(p) /\ Change(p, data)
  BY DEF UserAdd
<1>7. FileOK'
  <2> HIDE DEF data
  <2>1. QED
    BY <1>4, <1>5, <1>6, ChangeKeeps
<1>8. ServerOK'
  BY Drawing DEF UserAdd, ServerOK, Drawn
<1>9. QED
  BY <1>7, <1>8

LEMMA RemoveSaves ==
  ASSUME FileOK, ServerOK, NEW p \in Editors, NEW u \in Names, UserRemove(p, u)
  PROVE  FileOK' /\ ServerOK'
<1> DEFINE data == [v \in DOMAIN Loaded \ {u} |-> Loaded[v]]
<1>1. /\ Loaded \in Users
      /\ u \in DOMAIN Loaded /\ Admins(Loaded) # {} /\ Admins(Loaded) # {u}
  BY LoadedTypes DEF UserRemove
<1>2. data \in Users
  <2>1. Loaded \in [DOMAIN Loaded -> UserRec] /\ DOMAIN Loaded \subseteq Names
    BY <1>1 DEF Users, UserRec
  <2>2. data \in [DOMAIN Loaded \ {u} -> UserRec] /\ DOMAIN data = DOMAIN Loaded \ {u}
    BY <2>1
  <2>3. QED
    BY <2>1, <2>2, IsUsers
<1>3. PICK v \in Admins(Loaded) : v # u
  BY <1>1
<1>4. Admins(data) # {}
  BY <1>3 DEF Admins
<1>5. FileOK'
  <2>1. Free(p) /\ Change(p, data)
    BY DEF UserRemove
  <2> HIDE DEF data
  <2>2. QED
    BY <1>2, <1>4, <2>1, ChangeKeeps
<1>6. ServerOK'
  BY Drawing DEF UserRemove, ServerOK, Drawn
<1>7. QED
  BY <1>5, <1>6

LEMMA OneUserSaves ==
  ASSUME FileOK, ServerOK, NEW p \in Editors, NEW u \in Names,
         \/ \E role \in Roles : UserSetRole(p, u, role)
         \/ UserSetPassword(p, u)
         \/ TokenCreate(p, u)
         \/ \E k \in Drawn : TokenRevoke(p, u, k)
  PROVE  FileOK' /\ ServerOK'
<1> DEFINE old == Loaded[u]
<1>1. /\ Free(p) /\ Readable /\ u \in DOMAIN Loaded
  BY DEF UserSetRole, UserSetPassword, TokenCreate, TokenRevoke
<1>2. old \in UserRec /\ Admins(Loaded) # {} /\ (Admins(Loaded) = {u} => old.role = "admin")
  BY <1>1, LoadedTypes DEF Users, UserRec, Admins
<1>3. CASE \E role \in Roles : UserSetRole(p, u, role)
  <2>1. PICK role \in Roles : UserSetRole(p, u, role)
    BY <1>3
  <2> DEFINE new == [old EXCEPT !.role = role]
  <2>2. new \in UserRec /\ new.role = role /\ [Loaded EXCEPT ![u].role = role] = [Loaded EXCEPT ![u] = new]
    BY <1>1, <1>2 DEF UserRec
  <2>3. Change(p, [Loaded EXCEPT ![u] = new])
    BY <2>1, <2>2 DEF UserSetRole
  <2>4. Admins(Loaded) # {u} \/ new.role = "admin"
    BY <2>1, <2>2 DEF UserSetRole
  <2>5. ServerOK'
    BY <2>1, Drawing DEF UserSetRole, ServerOK, Drawn
  <2> HIDE DEF new
  <2>6. QED
    BY <1>1, <2>2, <2>3, <2>4, <2>5, ChangeOfOne
<1>4. CASE UserSetPassword(p, u)
  <2> DEFINE new == [old EXCEPT !.pw = drawn']
  <2>1. ServerOK' /\ drawn' \in Drawn
    BY <1>4, Drawing DEF UserSetPassword, ServerOK, Drawn
  <2>2. new \in UserRec /\ new.role = old.role /\ [Loaded EXCEPT ![u].pw = drawn'] = [Loaded EXCEPT ![u] = new]
    BY <1>1, <1>2, <2>1 DEF UserRec
  <2>3. Change(p, [Loaded EXCEPT ![u] = new])
    BY <1>4, <2>2 DEF UserSetPassword
  <2> HIDE DEF new
  <2>4. QED
    BY <1>1, <1>2, <2>1, <2>2, <2>3, ChangeOfOne
<1>5. CASE TokenCreate(p, u)
  <2> DEFINE new == [old EXCEPT !.tokens = @ \cup {drawn'}]
  <2>1. ServerOK' /\ drawn' \in Drawn
    BY <1>5, Drawing DEF TokenCreate, ServerOK, Drawn
  <2>2. /\ new \in UserRec /\ new.role = old.role
        /\ [Loaded EXCEPT ![u].tokens = @ \cup {drawn'}] = [Loaded EXCEPT ![u] = new]
    BY <1>1, <1>2, <2>1 DEF UserRec
  <2>3. Change(p, [Loaded EXCEPT ![u] = new])
    BY <1>5, <2>2 DEF TokenCreate
  <2> HIDE DEF new
  <2>4. QED
    BY <1>1, <1>2, <2>1, <2>2, <2>3, ChangeOfOne
<1>6. CASE \E k \in Drawn : TokenRevoke(p, u, k)
  <2>1. PICK k \in Drawn : TokenRevoke(p, u, k)
    BY <1>6
  <2> DEFINE new == [old EXCEPT !.tokens = @ \ {k}]
  <2>2. /\ new \in UserRec /\ new.role = old.role
        /\ [Loaded EXCEPT ![u].tokens = @ \ {k}] = [Loaded EXCEPT ![u] = new]
    BY <1>1, <1>2 DEF UserRec
  <2>3. Change(p, [Loaded EXCEPT ![u] = new]) /\ ServerOK'
    BY <2>1, <2>2, Drawing DEF TokenRevoke, ServerOK, Drawn
  <2> HIDE DEF new
  <2>4. QED
    BY <1>1, <1>2, <2>2, <2>3, ChangeOfOne
<1>7. QED
  BY <1>3, <1>4, <1>5, <1>6

-----------------------------------------------------------------------------
\* Every step keeps the invariant.

LEMMA CommandKeeps ==
  ASSUME FileOK, ServerOK, NEW p \in Editors, Command(p)
  PROVE  FileOK' /\ ServerOK'
<1>1. CASE \E u \in Names, role \in Roles, w \in BOOLEAN : UserAdd(p, u, role, w)
  BY <1>1, AddSaves
<1>2. CASE \E u \in Names : UserRemove(p, u) \/ UserSetPassword(p, u) \/ TokenCreate(p, u)
  BY <1>2, RemoveSaves, OneUserSaves
<1>3. CASE \E u \in Names, role \in Roles : UserSetRole(p, u, role)
  BY <1>3, OneUserSaves
<1>4. CASE \E u \in Names, k \in Drawn : TokenRevoke(p, u, k)
  BY <1>4, OneUserSaves
<1>5. CASE Save(p)
  <2>1. ServerOK'
    BY <1>5 DEF Save, ServerOK, server
  <2>2. QED
    BY <1>5, <2>1, OpenKeeps, WriteKeeps, DieKeeps DEF Save, Saving
<1>6. CASE Publish(p)
  <2>1. [kind |-> "token", id |-> given[p], pw |-> 0, key |-> 0] \in Creds /\ 0 \in Drawn
    BY AccountsAssumption DEF ServerOK, Creds, Drawn, Keys
  <2>2. ServerOK'
    BY <1>6, <2>1 DEF Publish, ServerOK, server
  <2>3. QED
    BY <1>6, <2>2, RenameKeeps DEF Publish
<1>7. QED
  BY <1>1, <1>2, <1>3, <1>4, <1>5, <1>6 DEF Command

Thread(n) == [at : {"idle", "verify", "sign", "make", "fill", "take"},
              user : {0} \cup Names, fails : 0 .. n, cred : Creds]

LEMMA RestingType ==
  ASSUME NEW n \in Nat
  PROVE  Resting \in Thread(n)
BY AccountsAssumption DEF Resting, Creds, Drawn, Keys, Thread

LEMMA Turning ==
  ASSUME NEW t \in Threads, NEW at \in {"verify", "sign"}, NEW cred \in Creds,
         thread \in [Threads -> Thread(breaks)], Turn(t, at, cred)
  PROVE  thread' \in [Threads -> Thread(breaks)]
<1>1. [thread EXCEPT ![t].at = at] \in [Threads -> Thread(breaks)]
  BY DEF Thread
<1>2. QED
  BY <1>1 DEF Turn, Thread

LEMMA ServeKeeps ==
  ASSUME FileOK, ServerOK, NEW t \in Threads, Serve(t)
  PROVE  FileOK' /\ ServerOK'
<1> USE DEF ServerOK
<1>1. breaks \in Nat /\ Resting \in Thread(breaks) /\ thread \in [Threads -> Thread(breaks)]
  <2>1. breaks \in Nat
    BY AccountsAssumption
  <2>2. QED
    BY <2>1, RestingType DEF Thread
<1>2. t \in Keys /\ 0 \in Keys /\ Torn \in Keys /\ 0 \in Drawn
  BY AccountsAssumption DEF Keys, Drawn
<1>3. CASE \E u \in Names : Login(t, u)
  <2>1. PICK u \in Names : Login(t, u)
    BY <1>3
  <2>2. UNCHANGED <<fileVars, drawn, given, creds, keyfile, key, guard, breaks>>
        /\ thread' = [thread EXCEPT ![t].at = "verify", ![t].user = u, ![t].fails = guard[u].fails]
    BY <2>1 DEF Login
  <2>3. [thread EXCEPT ![t].at = "verify"] \in [Threads -> Thread(breaks)]
    BY <1>1 DEF Thread
  <2>4. [thread EXCEPT ![t].at = "verify", ![t].user = u] \in [Threads -> Thread(breaks)]
    BY <2>3 DEF Thread
  <2>5. thread' \in [Threads -> Thread(breaks)]
    <3> DEFINE two == [thread EXCEPT ![t].at = "verify", ![t].user = u]
    <3>1. thread' = [two EXCEPT ![t].fails = guard[u].fails]
      BY <2>2
    <3>2. two \in [Threads -> Thread(breaks)] /\ guard[u].fails \in 0 .. breaks
      BY <2>4
    <3> HIDE DEF two
    <3>3. QED
      BY <3>1, <3>2 DEF Thread
  <2>6. QED
    BY <2>2, <2>5, FileStays DEF Thread
<1>4. CASE \E u \in Names : Verified(t, u)
  <2>1. PICK u \in Names : Verified(t, u)
    BY <1>4
  <2>2. Loaded[u].id \in Drawn /\ Loaded[u].pw \in Drawn
    BY <2>1, LoadedTypes DEF Verified, Users
  <2>3. [kind |-> "session", id |-> Loaded[u].id, pw |-> Loaded[u].pw, key |-> 0] \in Creds
    BY <1>2, <2>2 DEF Creds
  <2>4. thread' \in [Threads -> Thread(breaks)]
    BY <2>1, <2>3, <1>1, Turning DEF Verified
  <2>5. guard' \in [Names -> [fails : 0 .. breaks, locked : BOOLEAN]]
    BY <2>1, <1>1 DEF Verified
  <2>6. UNCHANGED <<fileVars, drawn, given, creds, keyfile, key, breaks>>
    BY <2>1 DEF Verified
  <2>7. QED
    BY <2>4, <2>5, <2>6, FileStays DEF Thread
<1>5. CASE \E u \in Names : Refused(t, u)
  <2>1. PICK u \in Names : Refused(t, u)
    BY <1>5
  <2>2. thread[t].fails + 1 \in 0 .. breaks + 1 /\ breaks' = breaks + 1 /\ breaks + 1 \in 0 .. MaxBreaks
    BY <2>1, <1>1, AccountsAssumption DEF Refused
  <2>3. /\ guard' \in [Names -> [fails : 0 .. breaks + 1, locked : BOOLEAN]]
        /\ thread' \in [Threads -> Thread(breaks + 1)]
    BY <2>1, <2>2, <1>1 DEF Refused, Thread
  <2>4. ServerOK'
    BY <2>1, <2>2, <2>3 DEF Refused, Thread
  <2>5. QED
    BY <2>1, <2>4, FileStays DEF Refused
<1>6. CASE \E c \in creds : BoardToken(t, c)
  <2>1. [kind |-> "read", id |-> 0, pw |-> 0, key |-> 0] \in Creds
    BY <1>2 DEF Creds
  <2>2. thread' \in [Threads -> Thread(breaks)]
    BY <1>6, <2>1, <1>1, Turning DEF BoardToken
  <2>3. UNCHANGED <<fileVars, drawn, given, creds, keyfile, key, guard, breaks>>
    BY <1>6 DEF BoardToken
  <2>4. QED
    BY <2>2, <2>3, FileStays DEF Thread
<1>7. CASE Secret(t)
  <2>1. ServerOK'
    BY <1>7, <1>1, <1>2 DEF Secret, FindSecret, MakeSecret, TakeSecret, Thread
  <2>2. QED
    BY <1>7, <2>1, FileStays DEF Secret
<1>8. CASE Issue(t)
  <2>1. [thread[t].cred EXCEPT !.key = key] \in Creds
    BY DEF Creds
  <2>2. ServerOK'
    BY <1>8, <2>1, <1>1 DEF Issue, Thread
  <2>3. QED
    BY <1>8, <2>2, FileStays DEF Issue
<1>9. QED
  BY <1>3, <1>4, <1>5, <1>6, <1>7, <1>8 DEF Serve

LEMMA Inductive ==
  ASSUME IInv, [Next]_vars
  PROVE  IInv'
<1> SUFFICES FileOK' /\ ServerOK'
  BY DEF IInv, TypeOK, FileOK, ServerOK
<1>1. FileOK /\ ServerOK
  BY Parts
<1>2. CASE \E p \in Editors : Command(p)
  BY <1>1, <1>2, CommandKeeps
<1>3. CASE \E t \in Threads : Serve(t)
  BY <1>1, <1>3, ServeKeeps
<1>4. CASE \E u \in Names : Unlock(u)
  <2>1. PICK u \in Names : Unlock(u)
    BY <1>4
  <2>2. guard' \in [Names -> [fails : 0 .. breaks, locked : BOOLEAN]]
    BY <1>1, <2>1 DEF Unlock, ServerOK
  <2>3. QED
    BY <1>1, <2>1, <2>2, FileStays DEF Unlock, ServerOK
<1>5. CASE \E c \in creds : Expire(c)
  BY <1>1, <1>5, FileStays DEF Expire, ServerOK, server
<1>6. CASE Restart
  <2>1. breaks' = breaks + 1 /\ breaks + 1 \in 0 .. MaxBreaks /\ breaks \in Nat
    BY <1>1, <1>6, AccountsAssumption DEF Restart, ServerOK
  <2>2. breaks' \in Nat /\ \A n \in Nat : Resting \in Thread(n)
    BY <2>1, RestingType
  <2>3. QED
    BY <1>1, <1>6, <2>1, <2>2, FileStays, AccountsAssumption DEF Restart, ServerOK, Keys, Thread
<1>7. CASE Reread
  BY <1>1, <1>7, FileStays DEF Reread, ServerOK
<1>8. CASE UNCHANGED vars
  BY <1>1, <1>8, FileStays DEF vars, ServerOK, server
<1>9. QED
  BY <1>2, <1>3, <1>4, <1>5, <1>6, <1>7, <1>8 DEF Next

LEMMA Initially == Init => IInv
<1> SUFFICES ASSUME Init PROVE FileOK /\ ServerOK
  BY Parts
<1>1. Blank \in Users /\ 0 \in Drawn
  BY BlankUsers, AccountsAssumption DEF Drawn
<1>2. edit = [p \in Editors |-> Idle] /\ Idle.step = "idle" /\ Idle.fd = 0 /\ Idle.data = Blank
  BY DEF Init, FileInit, Idle
<1>3. FileOK
  BY <1>1, <1>2 DEF Init, FileInit, FileOK, HandsEmpty, Ruled, InTurns, Idle
<1>4. ServerOK
  BY <1>1, RestingType, AccountsAssumption DEF Init, ServerOK, Keys, Thread
<1>5. QED
  BY <1>3, <1>4

LEMMA Invariant == Spec => []IInv
<1>1. Init => IInv
  BY Initially
<1>2. IInv /\ [Next]_vars => IInv'
  BY Inductive
<1>3. QED
  BY <1>1, <1>2, PTL DEF Spec

-----------------------------------------------------------------------------
\* Every variable keeps its type, whoever overlaps or dies.
THEOREM AccountTypes == Spec => []TypeOK
<1>1. IInv => TypeOK
  BY DEF IInv
<1>2. QED
  BY <1>1, Invariant, PTL

\* The last-admin rule survives lost updates: the guards of user_remove and
\* user_set_role look at a file that is being replaced, and still no readable
\* file is ever without an admin.
THEOREM AdminAlwaysRemains == Spec => []AdminRemains
<1>1. IInv => AdminRemains
  BY Parts, LoadedTypes DEF AdminRemains
<1>2. QED
  BY <1>1, Invariant, PTL

\* Authentication, once on, stays on: no overlap of commands and no death midway
\* makes a users.json that loads as empty.
THEOREM OnForGoodAlways == Spec => OnForGood
<1>1. IInv /\ IInv' /\ [Next]_vars => [Enabled /\ Readable' => Enabled']_vars
  <2> SUFFICES ASSUME IInv, IInv', [Next]_vars, Enabled, Readable'
               PROVE  Enabled'
    OBVIOUS
  <2>1. FileOK /\ FileOK'
    BY Parts DEF IInv, TypeOK, FileOK
  <2>2. path # 0
    BY <2>1, LoadedTypes DEF Enabled
  <2>3. path' # 0
    <3>1. 0 \notin Inodes
      BY DEF Inodes
    <3>2. path' = path \/ \E p \in Editors : Rename(p) /\ tmp # 0 /\ path' = tmp
      BY DEF Next, vars, fileVars, Command, Serve, Save, Saving, Publish, Rename, Open, Write, Die,
             UserAdd, UserRemove, UserSetRole, UserSetPassword, TokenCreate, TokenRevoke, Change,
             Login, Verified, Refused, BoardToken, Secret, Issue, Unlock, Expire, Restart, Reread
    <3>3. QED
      BY <2>2, <3>2
  <2>4. Loaded' = disk'[path'] /\ path' \in Inodes /\ disk'[path'] # Torn
    BY <2>1, <2>3 DEF Loaded, FileOK, Readable
  <2>5. DOMAIN Loaded' # {}
    BY <2>1, <2>4 DEF FileOK, Ruled, Admins
  <2>6. QED
    BY <2>5 DEF Enabled
<1>2. QED
  BY <1>1, Invariant, PTL DEF Spec, OnForGood

\* While commands take turns, users.json can be loaded at every moment,
\* wherever one of them dies.
THEOREM AlwaysLoads == Spec => []AlwaysReadable
<1>1. IInv => AlwaysReadable
  BY SavedFileAssumption DEF IInv, InTurns, AlwaysReadable, Readable, Loaded
<1>2. QED
  BY <1>1, Invariant, PTL

-----------------------------------------------------------------------------
\* While commands take turns.

TurnsOK == Whole /\ Counted /\ Renewed /\ OneSecret

\* One editor at most is at work, so a free one is the only one.
LEMMA OthersIdle ==
  ASSUME FileOK, turns, NEW p \in Editors, Free(p) \/ edit[p].step # "idle"
  PROVE  \A q \in Editors \ {p} : edit[q].step = "idle"
  BY DEF FileOK, InTurns, Free

\* What is out is a credential.
LEMMA OutTyped ==
  ASSUME ServerOK
  PROVE  /\ Out \subseteq Creds
         /\ \A c \in Out : c.id \in Nat /\ c.pw \in Nat
         /\ drawn \in Nat
<1>1. Out \subseteq Creds
  BY DEF ServerOK, Out
<1>2. QED
  BY <1>1, AccountsAssumption DEF Creds, Drawn, ServerOK

\* A command that is about to save data: its numbers are drawn, and it names
\* nobody the file does not.
LEMMA ChangeTurns ==
  ASSUME FileOK, ServerOK, turns, TurnsOK, NEW p \in Editors, NEW data \in Users,
         NEW n \in {0, 1}, NEW k \in 0 .. drawn + n,
         Free(p), Draws(p, n, k), Change(p, data),
         \A u \in DOMAIN data : data[u].id <= drawn + n /\ data[u].pw <= drawn + n,
         \A c \in Out : Named(data, c) # {} => Named(Loaded, c) # {}
  PROVE  TurnsOK'
<1>1. /\ drawn' = drawn + n /\ given' = [given EXCEPT ![p] = k]
      /\ creds' = creds /\ thread' = thread /\ key' = key /\ keyfile' = keyfile
  BY DEF Draws, server
<1>2. drawn \in Nat /\ n \in Nat /\ drawn <= drawn + n
  BY OutTyped
<1>3. /\ edit' = [edit EXCEPT ![p] = [step |-> "open", fd |-> 0, data |-> data]]
      /\ path' = path /\ disk' = disk /\ tmp' = tmp
  BY DEF Change
<1>4. /\ edit'[p].step = "open" /\ edit'[p].data = data
      /\ \A q \in Editors \ {p} : edit'[q] = edit[q] /\ edit[q].step = "idle"
  BY <1>3, OthersIdle DEF FileOK
<1>5. Loaded' = Loaded /\ Out' = Out
  BY <1>1, <1>3 DEF Loaded, Out
<1>6. Whole'
  BY <1>4 DEF Whole
<1>7. Counted'
  <2>1. Loaded \in Users
    BY LoadedTypes, SavedFileAssumption DEF FileOK, InTurns, Readable, Loaded
  <2>2. \A u \in DOMAIN Loaded : Loaded[u].id \in Nat /\ Loaded[u].pw \in Nat
    BY <2>1, AccountsAssumption DEF Users, Drawn
  <2>3. \A u \in DOMAIN Loaded : Loaded[u].id <= drawn + n /\ Loaded[u].pw <= drawn + n
    BY <1>2, <2>2 DEF TurnsOK, Counted, Below
  <2>4. \A q \in Editors \ {p} : \A u \in DOMAIN edit[q].data :
           edit[q].data[u].id <= drawn + n /\ edit[q].data[u].pw <= drawn + n
    <3>1. \A q \in Editors : \A u \in DOMAIN edit[q].data :
            edit[q].data[u].id \in Nat /\ edit[q].data[u].pw \in Nat
      BY AccountsAssumption DEF FileOK, Users, Drawn
    <3>2. QED
      BY <1>2, <3>1 DEF TurnsOK, Counted, Below
  <2>5. \A q \in Editors : given'[q] <= drawn + n
    <3>1. given \in [Editors -> Nat]
      BY AccountsAssumption DEF ServerOK, Drawn
    <3>2. \A q \in Editors : given[q] <= drawn + n
      BY <1>2, <3>1 DEF TurnsOK, Counted
    <3>3. k <= drawn + n
      BY <1>2
    <3>4. QED
      BY <1>1, <3>1, <3>2, <3>3
  <2>6. \A c \in Out : c.id <= drawn + n /\ c.pw <= drawn + n
    BY <1>2, OutTyped DEF TurnsOK, Counted
  <2>7. \A q \in Editors : \A u \in DOMAIN edit'[q].data :
           edit'[q].data[u].id <= drawn + n /\ edit'[q].data[u].pw <= drawn + n
    BY <1>4, <2>4
  <2>8. QED
    BY <1>1, <1>5, <2>3, <2>5, <2>6, <2>7 DEF Counted, Below
<1>8. Renewed'
  BY <1>4, <1>5 DEF Renewed, Named
<1>9. OneSecret'
  BY <1>1 DEF TurnsOK, OneSecret
<1>10. QED
  BY <1>6, <1>7, <1>8, <1>9 DEF TurnsOK

\* What a command reads, while commands take turns.
LEMMA InTurnsLoaded ==
  ASSUME FileOK, turns, TurnsOK
  PROVE  /\ Readable /\ Loaded \in Users
         /\ \A u \in DOMAIN Loaded : /\ Loaded[u] \in UserRec
                                  /\ Loaded[u].id \in Nat /\ Loaded[u].pw \in Nat
                                  /\ Loaded[u].id <= drawn /\ Loaded[u].pw <= drawn
<1>1. Readable
  BY SavedFileAssumption DEF FileOK, InTurns, Readable, Loaded
<1>2. Loaded \in Users
  BY <1>1, LoadedTypes
<1>3. QED
  BY <1>1, <1>2, AccountsAssumption DEF Users, UserRec, Drawn, TurnsOK, Counted, Below

\* A change to one user: the number it draws is on no credential yet.
LEMMA ChangeOneTurns ==
  ASSUME FileOK, ServerOK, turns, TurnsOK, NEW p \in Editors, NEW u \in DOMAIN Loaded,
         NEW new \in UserRec, NEW n \in {0, 1}, NEW k \in 0 .. drawn + n,
         Free(p), Draws(p, n, k), Change(p, [Loaded EXCEPT ![u] = new]),
         [Loaded EXCEPT ![u] = new] \in Users,
         new.id = Loaded[u].id,
         new.pw = Loaded[u].pw \/ (n = 1 /\ new.pw = drawn + 1),
         new.tokens \subseteq Loaded[u].tokens \cup {drawn + 1}
  PROVE  TurnsOK'
<1> DEFINE data == [Loaded EXCEPT ![u] = new]
<1>1. /\ Loaded \in Users
      /\ \A v \in DOMAIN Loaded : /\ Loaded[v].id \in Nat /\ Loaded[v].pw \in Nat
                               /\ Loaded[v].id <= drawn /\ Loaded[v].pw <= drawn
  BY InTurnsLoaded
<1>2. /\ DOMAIN data = DOMAIN Loaded /\ data[u] = new
      /\ \A v \in DOMAIN data \ {u} : data[v] = Loaded[v]
  BY <1>1 DEF Users
<1>3. drawn \in Nat /\ n \in Nat /\ \A c \in Out : c.id <= drawn /\ c.pw <= drawn /\ c.id \in Nat /\ c.pw \in Nat
  BY OutTyped DEF TurnsOK, Counted
<1>4. Free(p) /\ Draws(p, n, k) /\ Change(p, data) /\ data \in Users
  OBVIOUS
<1> HIDE DEF data
<1>5. \A v \in DOMAIN data : data[v].id <= drawn + n /\ data[v].pw <= drawn + n
  <2>1. \A v \in DOMAIN Loaded : Loaded[v].id <= drawn + n /\ Loaded[v].pw <= drawn + n
    BY <1>1, <1>3
  <2>2. new.id <= drawn + n /\ new.pw <= drawn + n
    BY <1>3, <2>1
  <2>3. QED
    BY <1>2, <2>1, <2>2
<1>6. ASSUME NEW c \in Out, NEW v \in Named(data, c)
      PROVE  v \in Named(Loaded, c)
  <2>1. c.id # drawn + 1 /\ c.pw # drawn + 1
    BY <1>3
  <2>2. CASE v # u
    BY <1>2, <1>6, <2>2 DEF Named
  <2>3. CASE v = u
    BY <1>2, <1>6, <2>1, <2>3 DEF Named
  <2>4. QED
    BY <2>2, <2>3
<1>7. QED
  BY <1>4, <1>5, <1>6, ChangeTurns

LEMMA OneUserTurns ==
  ASSUME FileOK, ServerOK, turns, TurnsOK, NEW p \in Editors, NEW u \in Names,
         \/ \E role \in Roles : UserSetRole(p, u, role)
         \/ UserSetPassword(p, u)
         \/ TokenCreate(p, u)
         \/ \E k \in Drawn : TokenRevoke(p, u, k)
  PROVE  TurnsOK'
<1> DEFINE old == Loaded[u]
<1>1. /\ Free(p) /\ Readable /\ u \in DOMAIN Loaded
  BY DEF UserSetRole, UserSetPassword, TokenCreate, TokenRevoke
<1>2. old \in UserRec /\ Loaded \in [DOMAIN Loaded -> UserRec] /\ DOMAIN Loaded \subseteq Names
  BY <1>1, InTurnsLoaded, IsUsers
<1>3. \A new \in UserRec : [Loaded EXCEPT ![u] = new] \in Users
  <2> TAKE new \in UserRec
  <2> DEFINE data == [Loaded EXCEPT ![u] = new]
  <2>1. data \in [DOMAIN Loaded -> UserRec] /\ DOMAIN data = DOMAIN Loaded
    BY <1>2
  <2>2. data \in Users
    <3> HIDE DEF data
    <3>1. QED
      BY <1>2, <2>1, IsUsers
  <2>3. QED
    BY <2>2
<1>4. drawn \in Nat /\ 0 \in 0 .. drawn + 0 /\ 0 \in 0 .. drawn + 1 /\ drawn + 1 \in 0 .. drawn + 1
  BY OutTyped
<1>5. CASE \E role \in Roles : UserSetRole(p, u, role)
  <2>1. PICK role \in Roles : UserSetRole(p, u, role)
    BY <1>5
  <2> DEFINE new == [old EXCEPT !.role = role]
  <2>2. /\ new \in UserRec /\ new.id = old.id /\ new.pw = old.pw /\ new.tokens = old.tokens
        /\ [Loaded EXCEPT ![u].role = role] = [Loaded EXCEPT ![u] = new]
    BY <1>1, <1>2 DEF UserRec
  <2>3. Change(p, [Loaded EXCEPT ![u] = new]) /\ Draws(p, 0, 0)
    BY <2>1, <2>2 DEF UserSetRole
  <2> HIDE DEF new
  <2>4. QED
    BY <1>1, <1>3, <1>4, <2>2, <2>3, ChangeOneTurns
<1>6. CASE UserSetPassword(p, u)
  <2> DEFINE new == [old EXCEPT !.pw = drawn + 1]
  <2>1. Draws(p, 1, 0) /\ drawn' = drawn + 1
    BY <1>6 DEF UserSetPassword, Draws
  <2>2. drawn' \in Drawn
    BY <1>4, <2>1, Drawing, AccountsAssumption DEF Draws, Drawn
  <2>3. /\ new \in UserRec /\ new.id = old.id /\ new.pw = drawn + 1 /\ new.tokens = old.tokens
        /\ [Loaded EXCEPT ![u].pw = drawn + 1] = [Loaded EXCEPT ![u] = new]
    BY <1>1, <1>2, <2>1, <2>2 DEF UserRec
  <2>4. Change(p, [Loaded EXCEPT ![u] = new])
    BY <1>6, <2>1, <2>3 DEF UserSetPassword
  <2> HIDE DEF new
  <2>5. QED
    BY <1>1, <1>3, <1>4, <2>1, <2>3, <2>4, ChangeOneTurns
<1>7. CASE TokenCreate(p, u)
  <2> DEFINE new == [old EXCEPT !.tokens = @ \cup {drawn + 1}]
  <2>1. Draws(p, 1, drawn + 1) /\ drawn' = drawn + 1
    BY <1>7 DEF TokenCreate, Draws
  <2>2. drawn' \in Drawn
    BY <1>4, <2>1, Drawing, AccountsAssumption DEF Draws, Drawn
  <2>3. /\ new \in UserRec /\ new.id = old.id /\ new.pw = old.pw /\ new.tokens = old.tokens \cup {drawn + 1}
        /\ [Loaded EXCEPT ![u].tokens = @ \cup {drawn + 1}] = [Loaded EXCEPT ![u] = new]
    BY <1>1, <1>2, <2>1, <2>2 DEF UserRec
  <2>4. Change(p, [Loaded EXCEPT ![u] = new])
    BY <1>7, <2>1, <2>3 DEF TokenCreate
  <2> HIDE DEF new
  <2>5. QED
    BY <1>1, <1>3, <1>4, <2>1, <2>3, <2>4, ChangeOneTurns
<1>8. CASE \E k \in Drawn : TokenRevoke(p, u, k)
  <2>1. PICK k \in Drawn : TokenRevoke(p, u, k)
    BY <1>8
  <2> DEFINE new == [old EXCEPT !.tokens = @ \ {k}]
  <2>2. /\ new \in UserRec /\ new.id = old.id /\ new.pw = old.pw /\ new.tokens = old.tokens \ {k}
        /\ [Loaded EXCEPT ![u].tokens = @ \ {k}] = [Loaded EXCEPT ![u] = new]
    BY <1>1, <1>2 DEF UserRec
  <2>3. Change(p, [Loaded EXCEPT ![u] = new]) /\ Draws(p, 0, 0)
    BY <2>1, <2>2 DEF TokenRevoke
  <2> HIDE DEF new
  <2>4. QED
    BY <1>1, <1>3, <1>4, <2>2, <2>3, ChangeOneTurns
<1>9. QED
  BY <1>5, <1>6, <1>7, <1>8

LEMMA AddTurns ==
  ASSUME FileOK, ServerOK, turns, TurnsOK, NEW p \in Editors, NEW u \in Names, NEW role \in Roles,
         NEW w \in BOOLEAN, UserAdd(p, u, role, w)
  PROVE  TurnsOK'
<1> DEFINE user == [id |-> drawn', role |-> role, pw |-> IF w THEN drawn' ELSE 0, tokens |-> {}]
           data == Put(Loaded, u, user)
<1>1. /\ Draws(p, 1, 0) /\ drawn' = drawn + 1 /\ drawn \in Nat /\ 0 \in 0 .. drawn + 1
      /\ drawn' \in Drawn /\ 0 \in Drawn
  BY OutTyped, AccountsAssumption DEF UserAdd, Draws, Drawn
<1>2. Free(p) /\ Change(p, data) /\ u \notin DOMAIN Loaded
  BY DEF UserAdd
<1>3. /\ user \in UserRec /\ user.id = drawn + 1 /\ user.pw \in {0, drawn + 1} /\ user.tokens = {}
  BY <1>1 DEF UserRec
<1>4. /\ Loaded \in [DOMAIN Loaded -> UserRec] /\ DOMAIN Loaded \subseteq Names
      /\ \A v \in DOMAIN Loaded : /\ Loaded[v].id \in Nat /\ Loaded[v].pw \in Nat
                               /\ Loaded[v].id <= drawn /\ Loaded[v].pw <= drawn
  BY InTurnsLoaded, IsUsers
<1> HIDE DEF user
<1>5. /\ data \in [DOMAIN Loaded \cup {u} -> UserRec] /\ DOMAIN data = DOMAIN Loaded \cup {u}
      /\ data[u] = user /\ \A v \in DOMAIN Loaded : data[v] = Loaded[v]
  BY <1>2, <1>3, <1>4 DEF Put
<1> HIDE DEF data
<1>6. data \in Users
  BY <1>4, <1>5, IsUsers
<1>7. \A v \in DOMAIN data : data[v].id <= drawn + 1 /\ data[v].pw <= drawn + 1
  <2>1. \A v \in DOMAIN Loaded : Loaded[v].id <= drawn + 1 /\ Loaded[v].pw <= drawn + 1
    BY <1>1, <1>4
  <2>2. QED
    BY <1>1, <1>3, <1>5, <2>1
<1>8. ASSUME NEW c \in Out, NEW v \in Named(data, c)
      PROVE  v \in Named(Loaded, c)
  <2>1. c.id # drawn + 1
    BY <1>1, OutTyped DEF TurnsOK, Counted
  <2>2. v # u
    BY <1>3, <1>5, <1>8, <2>1 DEF Named
  <2>3. QED
    BY <1>5, <1>8, <2>2 DEF Named
<1>9. QED
  BY <1>1, <1>2, <1>6, <1>7, <1>8, ChangeTurns

LEMMA RemoveTurns ==
  ASSUME FileOK, ServerOK, turns, TurnsOK, NEW p \in Editors, NEW u \in Names, UserRemove(p, u)
  PROVE  TurnsOK'
<1> DEFINE data == [v \in DOMAIN Loaded \ {u} |-> Loaded[v]]
<1>1. Free(p) /\ Draws(p, 0, 0) /\ Change(p, data)
  BY DEF UserRemove
<1>2. /\ Loaded \in [DOMAIN Loaded -> UserRec] /\ DOMAIN Loaded \subseteq Names
      /\ \A v \in DOMAIN Loaded : /\ Loaded[v].id \in Nat /\ Loaded[v].pw \in Nat
                               /\ Loaded[v].id <= drawn /\ Loaded[v].pw <= drawn
  BY InTurnsLoaded, IsUsers
<1>3. /\ data \in [DOMAIN Loaded \ {u} -> UserRec] /\ DOMAIN data = DOMAIN Loaded \ {u}
      /\ \A v \in DOMAIN data : data[v] = Loaded[v]
  BY <1>2
<1> HIDE DEF data
<1>4. data \in Users
  BY <1>2, <1>3, IsUsers
<1>5. drawn \in Nat /\ 0 \in 0 .. drawn + 0 /\ drawn + 0 = drawn
  BY OutTyped
<1>6. \A v \in DOMAIN data : data[v].id <= drawn + 0 /\ data[v].pw <= drawn + 0
  BY <1>2, <1>3, <1>5
<1>7. \A c \in Out : Named(data, c) # {} => Named(Loaded, c) # {}
  BY <1>3 DEF Named
<1>8. QED
  BY <1>1, <1>4, <1>5, <1>6, <1>7, ChangeTurns

\* What is loaded stays what it is until the rename.
LEMMA SaveLoads ==
  ASSUME FileOK, turns, NEW p \in Editors, Save(p)
  PROVE  Loaded' = Loaded
<1>1. path' = path
  BY DEF Save, Saving, Open, Write, Die
<1>2. CASE path = 0
  BY <1>1, <1>2 DEF Loaded
<1>3. CASE path # 0
  <2>1. CASE Open(p)
    <3> DEFINE i == IF tmp # 0 THEN tmp ELSE CHOOSE j \in Unnamed : TRUE
    <3>1. i # path
      <4>1. CASE tmp # 0
        BY <1>3, <4>1 DEF FileOK, InTurns
      <4>2. CASE tmp = 0
        <5>1. i \in Unnamed
          BY <2>1, <4>2, UnnamedThere DEF Open, FileOK
        <5>2. QED
          BY <5>1 DEF Unnamed
      <4>3. QED
        BY <4>1, <4>2
    <3>2. disk' = [disk EXCEPT ![i] = Torn]
      BY <2>1 DEF Open
    <3> HIDE DEF i
    <3>3. QED
      BY <1>1, <1>3, <3>1, <3>2 DEF FileOK, Loaded
  <2>2. CASE Write(p)
    BY <1>1, <1>3, <2>2 DEF Write, FileOK, InTurns, Loaded
  <2>3. CASE Die(p)
    BY <1>1, <2>3 DEF Die, Loaded
  <2>4. QED
    BY <2>1, <2>2, <2>3 DEF Save, Saving
<1>4. QED
  BY <1>2, <1>3

\* The text reaches the temporary name; what is loaded stays what it is.
LEMMA SaveTurns ==
  ASSUME FileOK, ServerOK, turns, TurnsOK, NEW p \in Editors, Save(p)
  PROVE  TurnsOK'
<1>1. Out' = Out /\ drawn' = drawn /\ given' = given /\ creds' = creds /\ thread' = thread
      /\ key' = key /\ keyfile' = keyfile /\ path' = path
  BY DEF Save, Saving, Open, Write, Die, server, Out
<1>2. OneSecret'
  BY <1>1 DEF TurnsOK, OneSecret
<1>3. edit[p].step # "idle"
  BY DEF Save, Saving, Open, Write, Die
<1>4. \A q \in Editors \ {p} : edit'[q] = edit[q] /\ edit[q].step = "idle"
  <2>1. \A q \in Editors \ {p} : edit[q].step = "idle"
    BY <1>3, OthersIdle
  <2>2. CASE Open(p)
    BY <2>1, <2>2 DEF FileOK, Open
  <2>3. CASE Write(p)
    BY <2>1, <2>3 DEF FileOK, Write
  <2>4. CASE Die(p)
    BY <2>1, <2>4 DEF FileOK, Die
  <2>5. QED
    BY <2>2, <2>3, <2>4 DEF Save, Saving
<1>5. CASE Open(p) \/ Write(p)
  <2>1. edit'[p].data = edit[p].data
    <3>1. CASE Open(p)
      BY <3>1 DEF Open, FileOK
    <3>2. CASE Write(p)
      BY <3>2 DEF Write, FileOK
    <3>3. QED
      BY <1>5, <3>1, <3>2
  <2>2. Loaded' = Loaded
    BY SaveLoads
  <2>3. Whole'
    <3>1. CASE Open(p)
      <4>1. edit'[p].step = "write"
        BY <3>1 DEF Open, FileOK
      <4>2. QED
        BY <1>4, <4>1 DEF Whole
    <3>2. CASE Write(p)
      <4>1. tmp \in Inodes /\ edit[p].fd = tmp /\ disk[tmp] = Torn /\ tmp' = tmp
        BY <3>2 DEF Write, FileOK, InTurns
      <4>2. disk' = [disk EXCEPT ![tmp] = edit[p].data]
        BY <3>2, <4>1 DEF Write
      <4>3. disk'[tmp'] = edit'[p].data
        BY <2>1, <4>1, <4>2 DEF FileOK
      <4>4. QED
        BY <1>4, <4>3 DEF Whole
    <3>3. QED
      BY <1>5, <3>1, <3>2
  <2>4. \A q \in Editors : edit'[q].data = edit[q].data
    BY <1>4, <2>1
  <2>5. Counted'
    BY <1>1, <2>2, <2>4 DEF TurnsOK, Counted, Below
  <2>6. Renewed'
    BY <1>1, <1>3, <1>4, <2>2, <2>4 DEF TurnsOK, Renewed, Named
  <2>7. QED
    BY <1>2, <2>3, <2>5, <2>6 DEF TurnsOK
<1>6. CASE Die(p)
  <2>1. edit'[p] = Idle /\ Loaded' = Loaded
    BY <1>6 DEF Die, Loaded, FileOK
  <2>2. edit'[p].step = "idle" /\ DOMAIN edit'[p].data = {}
    BY <2>1, BlankUsers DEF Idle
  <2>3. Whole' /\ Renewed'
    BY <1>4, <2>2 DEF Whole, Renewed
  <2>4. Counted'
    BY <1>1, <1>4, <2>1, <2>2 DEF TurnsOK, Counted, Below
  <2>5. QED
    BY <1>2, <2>3, <2>4 DEF TurnsOK
<1>7. QED
  BY <1>5, <1>6 DEF Save, Saving

\* What is loaded once the change of p is published is what p had in hand.
LEMMA PublishLoads ==
  ASSUME FileOK, turns, TurnsOK, NEW p \in Editors, Rename(p)
  PROVE  /\ tmp # 0 /\ edit[p].step = "rename"
         /\ Loaded' = edit[p].data
         /\ edit'[p] = Idle /\ \A q \in Editors \ {p} : edit'[q] = edit[q] /\ edit[q].step = "idle"
<1>1. edit[p].step = "rename" /\ tmp # 0 /\ tmp \in Inodes /\ (path # 0 => path # tmp) /\ 0 \notin Inodes
  BY DEF Rename, FileOK, InTurns, Inodes
<1>2. path' = tmp /\ disk'[tmp] = disk[tmp]
  BY <1>1 DEF Rename
<1>3. disk[tmp] = edit[p].data
  BY <1>1 DEF TurnsOK, Whole
<1>4. Loaded' = edit[p].data
  BY <1>1, <1>2, <1>3 DEF Loaded
<1>5. QED
  BY <1>1, <1>4, OthersIdle DEF Rename, FileOK

LEMMA PublishTurns ==
  ASSUME FileOK, ServerOK, turns, TurnsOK, NEW p \in Editors, Publish(p)
  PROVE  TurnsOK'
<1> DEFINE new == [kind |-> "token", id |-> given[p], pw |-> 0, key |-> 0]
<1>1. Rename(p)
  BY DEF Publish
<1>2. /\ Loaded' = edit[p].data /\ edit'[p] = Idle
      /\ \A q \in Editors \ {p} : edit'[q] = edit[q] /\ edit[q].step = "idle"
  BY <1>1, PublishLoads
<1>3. edit'[p].step = "idle" /\ DOMAIN edit'[p].data = {}
  BY <1>2, BlankUsers DEF Idle
<1>4. /\ creds' \subseteq creds \cup {new} /\ drawn' = drawn /\ given' = [given EXCEPT ![p] = 0]
      /\ thread' = thread /\ key' = key /\ keyfile' = keyfile
  BY DEF Publish, server
<1>5. new.kind = "token" /\ new.id = given[p] /\ new.pw = 0
  OBVIOUS
<1> HIDE DEF new
<1>6. Whole' /\ Renewed'
  BY <1>2, <1>3 DEF Whole, Renewed
<1>7. drawn \in Nat /\ given \in [Editors -> Drawn]
  BY OutTyped DEF ServerOK
<1>8. given[p] <= drawn /\ 0 <= drawn
  BY <1>7 DEF TurnsOK, Counted
<1>9. \A c \in Out' : c.id <= drawn /\ c.pw <= drawn
  <2>1. Out' \subseteq Out \cup {new}
    BY <1>4 DEF Out
  <2>2. QED
    BY <1>5, <1>8, <2>1 DEF TurnsOK, Counted
<1>10. Counted'
  <2>1. Below(edit[p].data)
    BY DEF TurnsOK, Counted
  <2>2. \A q \in Editors : given'[q] <= drawn
    BY <1>4, <1>7, <1>8 DEF TurnsOK, Counted
  <2>3. \A q \in Editors \ {p} : Below(edit[q].data)
    BY DEF TurnsOK, Counted
  <2>4. QED
    BY <1>2, <1>3, <1>4, <1>9, <2>1, <2>2, <2>3 DEF Counted, Below
<1>11. OneSecret'
  BY <1>4, <1>5 DEF TurnsOK, OneSecret
<1>12. QED
  BY <1>6, <1>10, <1>11 DEF TurnsOK

\* A step of the server, which leaves the file alone: the credentials that are
\* out afterwards are old ones, name a user of the file, or name nobody.
LEMMA ServerTurns ==
  ASSUME FileOK, TurnsOK, UNCHANGED <<fileVars, drawn, given>>, OneSecret',
         \A c \in Out' :
           \/ c.kind = "read" /\ c.id <= drawn /\ c.pw <= drawn
           \/ Named(Loaded, c) # {} /\ c.id <= drawn /\ c.pw <= drawn
           \/ \E o \in Out : o.kind = c.kind /\ o.id = c.id /\ o.pw = c.pw
  PROVE  TurnsOK'
<1>1. /\ path' = path /\ tmp' = tmp /\ disk' = disk /\ edit' = edit /\ drawn' = drawn /\ given' = given
      /\ Loaded' = Loaded
  BY DEF fileVars, Loaded
<1>2. Whole'
  BY <1>1 DEF TurnsOK, Whole
<1>3. \A c \in Out' : c.id <= drawn /\ c.pw <= drawn
  BY DEF TurnsOK, Counted
<1>4. Counted'
  BY <1>1, <1>3 DEF TurnsOK, Counted, Below
<1>5. ASSUME NEW p \in Editors, edit[p].step # "idle", NEW c \in Out', Named(edit[p].data, c) # {}
      PROVE  Named(Loaded, c) # {}
  <2>1. CASE c.kind = "read"
    BY <1>5, <2>1 DEF Named
  <2>2. CASE \E o \in Out : o.kind = c.kind /\ o.id = c.id /\ o.pw = c.pw
    <3>1. PICK o \in Out : o.kind = c.kind /\ o.id = c.id /\ o.pw = c.pw
      BY <2>2
    <3>2. \A d : Named(d, c) = Named(d, o)
      BY <3>1 DEF Named
    <3>3. QED
      BY <1>5, <3>2 DEF TurnsOK, Renewed
  <2>3. QED
    BY <2>1, <2>2
<1>6. Renewed'
  BY <1>1, <1>5 DEF Renewed
<1>7. QED
  BY <1>2, <1>4, <1>6 DEF TurnsOK

\* The threads and credentials of a step that hands nothing out.
LEMMA SameOut ==
  ASSUME creds' \subseteq creds,
         \A t \in Threads : thread'[t].cred \in {thread[t].cred, Resting.cred}, drawn \in Nat
  PROVE  \A c \in Out' :
           \/ c.kind = "read" /\ c.id <= drawn /\ c.pw <= drawn
           \/ \E o \in Out : o.kind = c.kind /\ o.id = c.id /\ o.pw = c.pw
<1>1. Resting.cred.kind = "read" /\ Resting.cred.id = 0 /\ Resting.cred.pw = 0
  BY DEF Resting
<1>2. \A c \in Out' : c \in Out \/ c = Resting.cred
  BY DEF Out
<1>3. QED
  BY <1>1, <1>2

LEMMA LoginTurns ==
  ASSUME FileOK, ServerOK, turns, TurnsOK, NEW t \in Threads, NEW u \in Names, Login(t, u)
  PROVE  TurnsOK'
<1>1. /\ UNCHANGED <<fileVars, drawn, given>> /\ creds' = creds /\ key' = key /\ keyfile' = keyfile
      /\ \A s \in Threads : thread[s].at = "idle"
  BY DEF Login, Quiet
<1>2. thread'[t].at = "verify" /\ thread'[t].cred = thread[t].cred
  BY DEF Login, ServerOK
<1>3. \A s \in Threads \ {t} : thread'[s] = thread[s]
  BY DEF Login, ServerOK
<1>4. OneSecret'
  BY <1>1, <1>2, <1>3 DEF TurnsOK, OneSecret
<1>5. QED
  BY <1>1, <1>2, <1>3, <1>4, OutTyped, SameOut, ServerTurns

LEMMA RefusedTurns ==
  ASSUME FileOK, ServerOK, turns, TurnsOK, NEW t \in Threads, NEW u \in Names, Refused(t, u)
  PROVE  TurnsOK'
<1>1. UNCHANGED <<fileVars, drawn, given>> /\ creds' = creds /\ key' = key /\ keyfile' = keyfile
  BY DEF Refused
<1>2. thread'[t] = Resting /\ Resting.at = "idle"
  BY DEF Refused, ServerOK, Resting
<1>3. \A s \in Threads \ {t} : thread'[s] = thread[s]
  BY DEF Refused, ServerOK
<1>4. OneSecret'
  BY <1>1, <1>2, <1>3 DEF TurnsOK, OneSecret
<1>5. QED
  BY <1>1, <1>2, <1>3, <1>4, OutTyped, SameOut, ServerTurns

LEMMA SignTurns ==
  ASSUME FileOK, ServerOK, turns, TurnsOK, NEW t \in Threads, NEW cred \in Creds,
         Turn(t, "sign", cred), UNCHANGED <<fileVars, drawn, given, creds, keyfile, key>>,
         \A s \in Threads \ {t} : thread[s].at = "idle",
         \/ cred.kind = "read" /\ cred.id <= drawn /\ cred.pw <= drawn
         \/ Named(Loaded, cred) # {} /\ cred.id <= drawn /\ cred.pw <= drawn
  PROVE  TurnsOK'
<1>1. thread'[t].at = "sign" /\ thread'[t].cred = cred
  BY DEF Turn, ServerOK
<1>2. \A s \in Threads \ {t} : thread'[s] = thread[s]
  BY DEF Turn, ServerOK
<1>3. OneSecret'
  BY <1>1, <1>2 DEF TurnsOK, OneSecret
<1>4. \A c \in Out' : c = cred \/ c \in Out
  BY <1>1, <1>2 DEF Out
<1>5. \A c \in Out' : \/ c.kind = "read" /\ c.id <= drawn /\ c.pw <= drawn
                      \/ Named(Loaded, c) # {} /\ c.id <= drawn /\ c.pw <= drawn
                      \/ \E o \in Out : o.kind = c.kind /\ o.id = c.id /\ o.pw = c.pw
  BY <1>4
<1>6. QED
  BY <1>3, <1>5, ServerTurns

LEMMA VerifiedTurns ==
  ASSUME FileOK, ServerOK, turns, TurnsOK, NEW t \in Threads, NEW u \in Names, Verified(t, u)
  PROVE  TurnsOK'
<1> DEFINE cred == [kind |-> "session", id |-> Loaded[u].id, pw |-> Loaded[u].pw, key |-> 0]
<1>1. /\ u \in DOMAIN Loaded /\ thread[t].at = "verify" /\ Turn(t, "sign", cred)
      /\ UNCHANGED <<fileVars, drawn, given, creds, keyfile, key>>
  BY DEF Verified
<1>2. Loaded[u] \in UserRec /\ Loaded[u].id <= drawn /\ Loaded[u].pw <= drawn
  BY <1>1, InTurnsLoaded
<1>3. cred \in Creds
  BY <1>2, AccountsAssumption DEF Creds, UserRec, Keys
<1>4. u \in Named(Loaded, cred)
  BY <1>1 DEF Named
<1>5. cred.id <= drawn /\ cred.pw <= drawn
  BY <1>2
<1> HIDE DEF cred
<1>6. \A s \in Threads \ {t} : thread[s].at = "idle"
  BY <1>1 DEF TurnsOK, OneSecret
<1>7. QED
  BY <1>1, <1>3, <1>4, <1>5, <1>6, SignTurns

LEMMA BoardTurns ==
  ASSUME FileOK, ServerOK, turns, TurnsOK, NEW t \in Threads, NEW c \in creds, BoardToken(t, c)
  PROVE  TurnsOK'
<1> DEFINE cred == [kind |-> "read", id |-> 0, pw |-> 0, key |-> 0]
<1>1. Turn(t, "sign", cred) /\ UNCHANGED <<fileVars, drawn, given, creds, keyfile, key>>
  BY DEF BoardToken
<1>2. cred \in Creds /\ cred.kind = "read" /\ cred.id = 0 /\ cred.pw = 0
  BY AccountsAssumption DEF Creds, Drawn, Keys
<1>3. cred.id <= drawn /\ cred.pw <= drawn
  BY <1>2, OutTyped
<1> HIDE DEF cred
<1>4. \A s \in Threads \ {t} : thread[s].at = "idle"
  BY DEF BoardToken, Quiet
<1>5. QED
  BY <1>1, <1>2, <1>3, <1>4, SignTurns

LEMMA SecretTurns ==
  ASSUME FileOK, ServerOK, turns, TurnsOK, NEW t \in Threads, Secret(t)
  PROVE  TurnsOK'
<1>1. UNCHANGED <<fileVars, drawn, given>> /\ creds' = creds
  BY DEF Secret
<1>2. thread'[t].cred = thread[t].cred
  BY DEF Secret, FindSecret, MakeSecret, TakeSecret, ServerOK
<1>3. \A s \in Threads \ {t} : thread'[s] = thread[s]
  BY DEF Secret, FindSecret, MakeSecret, TakeSecret, ServerOK
<1>4. \A s \in Threads \ {t} : thread[s].at = "idle"
  BY DEF Secret, FindSecret, MakeSecret, TakeSecret, TurnsOK, OneSecret
<1>5. /\ key \in {0, keyfile}
      /\ \A c \in creds : c.kind # "token" => keyfile # 0 /\ c.key = keyfile
      /\ thread[t].at = "make" => keyfile = 0
      /\ thread[t].at = "fill" => key = 0 /\ \A c \in creds : c.kind = "token"
  BY DEF TurnsOK, OneSecret
<1>6. /\ key' \in {0, keyfile'}
      /\ \A c \in creds : c.kind # "token" => keyfile' # 0 /\ c.key = keyfile'
      /\ thread'[t].at = "make" => keyfile' = 0
      /\ thread'[t].at = "fill" => key' = 0 /\ \A c \in creds : c.kind = "token"
  <2>1. CASE FindSecret(t)
    <3>1. /\ thread'[t].at \in {"make", "take"} /\ (thread'[t].at = "make" => keyfile = 0)
          /\ key' = key /\ keyfile' = keyfile
      BY <2>1 DEF FindSecret, ServerOK
    <3>2. QED
      BY <1>5, <3>1
  <2>2. CASE MakeSecret(t)
    <3>1. key' = key /\ key = 0 /\ \A c \in creds : c.kind = "token"
      BY <1>5, <2>2 DEF MakeSecret
    <3>2. thread'[t].at \in {"fill", "take"}
      BY <2>2 DEF MakeSecret, ServerOK
    <3>3. QED
      BY <3>1, <3>2
  <2>3. CASE TakeSecret(t)
    <3>1. thread'[t].at = "sign" /\ key' = keyfile /\ keyfile' = keyfile
      BY <2>3 DEF TakeSecret, ServerOK
    <3>2. QED
      BY <1>5, <3>1
  <2>4. QED
    BY <2>1, <2>2, <2>3 DEF Secret
<1>7. OneSecret'
  BY <1>1, <1>3, <1>4, <1>6 DEF OneSecret
<1>8. QED
  BY <1>1, <1>2, <1>3, <1>7, OutTyped, SameOut, ServerTurns

LEMMA IssueTurns ==
  ASSUME FileOK, ServerOK, turns, TurnsOK, NEW t \in Threads, Issue(t)
  PROVE  TurnsOK'
<1> DEFINE new == [thread[t].cred EXCEPT !.key = key]
<1>1. /\ UNCHANGED <<fileVars, drawn, given, keyfile, key>> /\ key # 0 /\ key = keyfile
      /\ creds' = creds \cup {new}
      /\ \A s \in Threads \ {t} : thread[s].at = "idle"
  BY DEF Issue, TurnsOK, OneSecret
<1>2. thread'[t] = Resting /\ Resting.at = "idle"
  BY DEF Issue, ServerOK, Resting
<1>3. \A s \in Threads \ {t} : thread'[s] = thread[s]
  BY DEF Issue, ServerOK
<1>4. LET o == thread[t].cred IN
      o \in Out /\ new.kind = o.kind /\ new.id = o.id /\ new.pw = o.pw /\ new.key = keyfile
  BY <1>1 DEF Out, ServerOK, Creds
<1> HIDE DEF new
<1>5. OneSecret'
  BY <1>1, <1>2, <1>3, <1>4 DEF TurnsOK, OneSecret
<1>6. Resting.cred.kind = "read" /\ Resting.cred.id = 0 /\ Resting.cred.pw = 0 /\ 0 <= drawn
  BY OutTyped DEF Resting
<1>7. \A c \in Out' : c \in Out \/ c = Resting.cred \/ c = new
  BY <1>1, <1>2, <1>3 DEF Out
<1>8. \A c \in Out' : \/ c.kind = "read" /\ c.id <= drawn /\ c.pw <= drawn
                      \/ \E o \in Out : o.kind = c.kind /\ o.id = c.id /\ o.pw = c.pw
  BY <1>4, <1>6, <1>7
<1>9. QED
  BY <1>1, <1>5, <1>8, ServerTurns

\* What the server does of its own accord: locks and credentials that run out,
\* its end and its start.
LEMMA RestTurns ==
  ASSUME FileOK, ServerOK, turns, TurnsOK,
         \/ \E u \in Names : Unlock(u)
         \/ \E c \in creds : Expire(c)
         \/ Restart \/ Reread \/ UNCHANGED vars
  PROVE  TurnsOK'
<1>1. UNCHANGED <<fileVars, drawn, given>> /\ creds' \subseteq creds /\ keyfile' = keyfile
  BY DEF Unlock, Expire, Restart, Reread, vars, server
<1>2. key' \in {0, key, keyfile}
  BY DEF Unlock, Expire, Restart, Reread, vars, server
<1>3. Resting.at = "idle"
  BY DEF Resting
<1>4. (thread' = thread /\ (key' = key \/ \E c \in creds : c.kind # "token"))
        \/ (key' = 0 /\ \A t \in Threads : thread'[t] = Resting)
  BY DEF Unlock, Expire, Restart, Reread, vars, server
<1>5. OneSecret'
  BY <1>1, <1>2, <1>3, <1>4 DEF TurnsOK, OneSecret
<1>6. \A t \in Threads : thread'[t].cred \in {thread[t].cred, Resting.cred}
  BY <1>4
<1>7. QED
  BY <1>1, <1>5, <1>6, OutTyped, SameOut, ServerTurns

LEMMA TurnsStay ==
  ASSUME [Next]_vars
  PROVE  turns' = turns
BY DEF Next, vars, fileVars, Command, Serve, Save, Saving, Publish, Rename, Open, Write, Die,
       UserAdd, UserRemove, UserSetRole, UserSetPassword, TokenCreate, TokenRevoke, Change,
       Login, Verified, Refused, BoardToken, Secret, Issue, Unlock, Expire, Restart, Reread

LEMMA TurnsInductive ==
  ASSUME IInv, TurnsInv, [Next]_vars
  PROVE  TurnsInv'
<1>1. turns' = turns
  BY TurnsStay
<1>2. SUFFICES ASSUME turns PROVE TurnsOK'
  BY <1>1 DEF TurnsInv, TurnsOK
<1>3. FileOK /\ ServerOK /\ TurnsOK
  BY <1>2, Parts DEF TurnsInv, TurnsOK
<1>4. CASE \E p \in Editors : Command(p)
  BY <1>2, <1>3, <1>4, AddTurns, RemoveTurns, OneUserTurns, SaveTurns, PublishTurns DEF Command
<1>5. CASE \E t \in Threads : Serve(t)
  BY <1>2, <1>3, <1>5, LoginTurns, VerifiedTurns, RefusedTurns, BoardTurns, SecretTurns, IssueTurns
     DEF Serve
<1>6. CASE \/ \E u \in Names : Unlock(u)
           \/ \E c \in creds : Expire(c)
           \/ Restart \/ Reread \/ UNCHANGED vars
  BY <1>2, <1>3, <1>6, RestTurns
<1>7. QED
  BY <1>4, <1>5, <1>6 DEF Next

LEMMA TurnsInitially == Init => TurnsInv
<1> SUFFICES ASSUME Init PROVE TurnsOK
  BY DEF TurnsInv, TurnsOK
<1>1. /\ creds = {} /\ drawn = 0 /\ key = 0 /\ keyfile = 0
      /\ \A t \in Threads : thread[t] = Resting
      /\ \A p \in Editors : given[p] = 0 /\ edit[p] = Idle
      /\ Loaded = Blank
  BY DEF Init, FileInit, Loaded
<1>2. Idle.step = "idle" /\ Idle.data = Blank /\ DOMAIN Blank = {}
  BY BlankUsers DEF Idle
<1>3. Resting.at = "idle" /\ Resting.cred.id = 0 /\ Resting.cred.pw = 0
  BY DEF Resting
<1>4. Whole /\ Renewed
  BY <1>1, <1>2 DEF Whole, Renewed
<1>5. Counted
  BY <1>1, <1>2, <1>3 DEF Counted, Below, Out
<1>6. OneSecret
  BY <1>1, <1>3 DEF OneSecret
<1>7. QED
  BY <1>4, <1>5, <1>6 DEF TurnsOK

LEMMA TurnsInvariant == Spec => [](IInv /\ TurnsInv)
<1>1. Init => IInv /\ TurnsInv
  BY Initially, TurnsInitially
<1>2. IInv /\ TurnsInv /\ [Next]_vars => IInv' /\ TurnsInv'
  BY Inductive, TurnsInductive
<1>3. QED
  BY <1>1, <1>2, PTL DEF Spec

-----------------------------------------------------------------------------
\* What is accepted, while commands take turns.

\* Every signed credential is signed with the secret of the file, so what a
\* credential names is whom it stands for.
LEMMA BearersNamed ==
  ASSUME OneSecret, NEW c \in creds
  PROVE  Bearers(c) = Named(Loaded, c)
<1>1. c.kind # "token" => c.key = Signing
  BY DEF OneSecret, Signing
<1>2. QED
  BY <1>1 DEF Bearers, Named

Accepted == turns => \A c \in creds : Reads(c) <=> c.kind = "read" \/ Named(Loaded, c) # {}

LEMMA AcceptedThen ==
  ASSUME IInv, TurnsInv
  PROVE  Accepted
<1> SUFFICES ASSUME turns, NEW c \in creds
             PROVE  Reads(c) <=> c.kind = "read" \/ Named(Loaded, c) # {}
  BY DEF Accepted
<1>1. FileOK /\ ServerOK /\ TurnsOK
  BY Parts DEF TurnsInv, TurnsOK
<1>2. Readable
  BY <1>1, InTurnsLoaded
<1>3. Bearers(c) = Named(Loaded, c)
  BY <1>1, BearersNamed DEF TurnsOK
<1>4. c.kind = "read" => c.key = Signing
  BY <1>1 DEF TurnsOK, OneSecret, Signing
<1>5. QED
  BY <1>2, <1>3, <1>4 DEF Reads

LEMMA AcceptedAlways == Spec => [](IInv /\ TurnsInv /\ Accepted)
BY TurnsInvariant, AcceptedThen, PTL

\* The file only ever becomes what the command at work has in hand.
LEMMA LoadedStep ==
  ASSUME FileOK, ServerOK, turns, TurnsOK, [Next]_vars
  PROVE  Loaded' = Loaded \/ \E p \in Editors : edit[p].step # "idle" /\ Loaded' = edit[p].data
<1>1. CASE \E p \in Editors : Publish(p)
  BY <1>1, PublishLoads DEF Publish
<1>2. CASE \E p \in Editors : Save(p)
  BY <1>2, SaveLoads
<1>3. CASE ~ \E p \in Editors : Save(p) \/ Publish(p)
  <2>1. path' = path /\ disk' = disk
    BY <1>3 DEF Next, vars, fileVars, Command, Serve,
         UserAdd, UserRemove, UserSetRole, UserSetPassword, TokenCreate, TokenRevoke, Change,
         Login, Verified, Refused, BoardToken, Secret, Issue, Unlock, Expire, Restart, Reread
  <2>2. QED
    BY <2>1 DEF Loaded
<1>4. QED
  BY <1>1, <1>2, <1>3

\* While commands take turns, a session or a token that is refused once is
\* refused for good: no later command gives its user's id, its fingerprint or
\* its token id to anybody again (user_remove and a user_add of the same name,
\* user_set_password, token_revoke).
THEOREM EndedForGoodAlways == Spec => EndedForGood
<1>1. IInv /\ TurnsInv /\ Accepted /\ Accepted' /\ [Next]_vars
        => [turns => \A c \in creds \cap creds' : ~Reads(c) => ~Reads(c)']_vars
  <2> SUFFICES ASSUME IInv, TurnsInv, Accepted, Accepted', [Next]_vars, turns,
                      NEW c \in creds \cap creds', ~Reads(c)
               PROVE  ~Reads(c)'
    OBVIOUS
  <2>1. FileOK /\ ServerOK /\ TurnsOK
    BY Parts DEF TurnsInv, TurnsOK
  <2>2. turns'
    BY TurnsStay
  <2>3. c.kind # "read" /\ Named(Loaded, c) = {}
    BY DEF Accepted
  <2>4. \A p \in Editors : edit[p].step # "idle" => Named(edit[p].data, c) = {}
    BY <2>1, <2>3 DEF TurnsOK, Renewed, Out
  <2>5. Named(Loaded', c) = {}
    BY <2>1, <2>3, <2>4, LoadedStep
  <2>6. QED
    BY <2>2, <2>3, <2>5 DEF Accepted, Named
<1>2. QED
  BY <1>1, AcceptedAlways, PTL DEF Spec, EndedForGood

\* While commands take turns, and with the secret made by one thread alone, the
\* server that comes back accepts whatever the one before it accepted: the
\* secret it reads again is the one everything is signed with.
THEOREM SurvivesRestartAlways == Spec => SurvivesRestart
<1>1. IInv /\ TurnsInv /\ Accepted /\ Accepted' /\ [Next]_vars
        => [turns /\ key # 0 /\ key' = 0 => \A c \in creds : Reads(c) => Reads(c)']_vars
  <2> SUFFICES ASSUME IInv, TurnsInv, Accepted, Accepted', [Next]_vars, turns,
                      key # 0, key' = 0, NEW c \in creds, Reads(c)
               PROVE  Reads(c)'
    OBVIOUS
  <2>1. key = keyfile
    BY DEF TurnsInv, OneSecret
  <2>2. Restart
    BY <2>1 DEF Next, vars, Command, Serve, Save, Publish, Draws, server,
         UserAdd, UserRemove, UserSetRole, UserSetPassword, TokenCreate, TokenRevoke,
         Login, Verified, Refused, BoardToken, Secret, FindSecret, MakeSecret, TakeSecret,
         Issue, Unlock, Expire, Reread
  <2>3. creds' = creds /\ turns' /\ Loaded' = Loaded
    BY <2>2 DEF Restart, fileVars, Loaded
  <2>4. c.kind = "read" \/ Named(Loaded, c) # {}
    BY DEF Accepted
  <2>5. QED
    BY <2>3, <2>4 DEF Accepted, Named
<1>2. QED
  BY <1>1, AcceptedAlways, PTL DEF Spec, SurvivesRestart
=============================================================================
