------------------------------ MODULE Accounts ------------------------------
(***************************************************************************)
(* Accounts, the datastore that keeps them, and the database beneath:      *)
(*   modules/account.js    the API calls                                   *)
(*   core/datastore.js     the array and the map of records in memory      *)
(*   core/ORM.js           create, update and delete over the ORM          *)
(*   handlers/system.js    the system states, with the counter of uids     *)
(* A call works on memory at once and on the database through requests,    *)
(* one after the other; between them other calls run.  A record is known   *)
(* by the call that creates it.  Its content is a version: each change in  *)
(* memory makes a new one.  The database, which is not part of the code,   *)
(* takes the requests of a connection in their order (one connection for   *)
(* the system states, one for the accounts); any of them may fail.         *)
(* The server may crash at any time and start again.                       *)
(* An operator that ends in "Variant" is a faulty version of the           *)
(* definition after it, kept to show that a property can fail.             *)
(***************************************************************************)
EXTENDS Integers, Sequences, FiniteSets

CONSTANTS
  Name,         \* names of accounts
  MaxCalls,     \* bound: calls made
  MaxRestarts,  \* bound: crashes
  None

Call == 1 .. MaxCalls

\* A record is known by the call that makes it; 0 is one of before.
Record == 0 .. MaxCalls

ASSUME AccountsAssumption ==
  /\ MaxCalls \in Nat
  /\ MaxRestarts \in Nat
  /\ None \notin Record
  /\ None \notin Name

VARIABLES
  up,        \* the server runs
  restarts,
  call,      \* what each call asks for, and how far it has come
  answer,    \* what its caller has been told
  orm,       \* calls whose request is with the database, in order
  rows,      \* the records in the database
  stored,    \* the version that the database has of each record
  arr,       \* the records in the array of the datastore
  mapper,    \* the map from names to records (l_accounts)
  value,     \* the version of each record in memory
  count,     \* l_states.uid_count
  dbCount    \* the counter in the database

memory == <<arr, mapper, value>>
vars == <<up, restarts, call, answer, orm, rows, stored, memory, count, dbCount>>

Kind == {"register", "change", "login", "update", "delete"}

\* Requests to the database for accounts; "uid" is one for the system states.
OrmPhase == {"create", "find", "write", "save", "save again", "lookup", "remove"}
Phase == {"new", "uid", "auth", "done"} \cup OrmPhase

TypeOK ==
  /\ up \in BOOLEAN
  /\ restarts \in 0 .. MaxRestarts
  /\ call \in [Record -> [phase : Phase, kind : Kind, name : Name \cup {None},
                          uid : Nat,                   \* of the record it makes
                          rec : Record \cup {None},    \* the record it works on
                          row : Record \cup {None},    \* the row found for it
                          sent : Nat,                  \* the version it sent
                          rebuild : BOOLEAN]]          \* build_mapper
  /\ answer \in [Call -> {"none", "ok", "error"}]
  /\ orm \in Seq(Call)
  /\ rows \in SUBSET Record
  /\ stored \in [Record -> Nat]
  /\ arr \in SUBSET Record
  /\ mapper \in [Name -> Record \cup {None}]
  /\ value \in [Record -> Nat]
  /\ count \in Nat
  /\ dbCount \in Nat

New(k, n) ==
  [phase |-> "new", kind |-> k, name |-> n, uid |-> 0,
   rec |-> None, row |-> None, sent |-> 0, rebuild |-> FALSE]

\* The server starts with an account in its database, or with none.
Init ==
  /\ up = TRUE
  /\ restarts = 0
  /\ rows \in {{}, {0}}
  /\ \E n \in Name :
       call = [c \in Record |->
                 IF c = 0 THEN [New("register", n) EXCEPT !.phase = "done", !.uid = 1]
                 ELSE New("change", None)]
  /\ answer = [c \in Call |-> "none"]
  /\ orm = << >>
  /\ stored = [r \in Record |-> 0]
  /\ arr = rows
  /\ mapper = [n \in Name |-> IF call[0].name = n /\ rows # {} THEN 0 ELSE None]
  /\ value = stored
  /\ count = Cardinality(rows)
  /\ dbCount = count

-----------------------------------------------------------------------------
\* Records and requests.

NameOf(r) == call[r].name
Named(S, n) == {r \in S : NameOf(r) = n}

\* The first record of that name in the array, or in the database: both are
\* in the order of creation, and so are the uids.
First(S, n) ==
  IF Named(S, n) = {}
  THEN None
  ELSE CHOOSE r \in Named(S, n) : \A q \in Named(S, n) : call[r].uid <= call[q].uid

Last(S, n) ==
  IF Named(S, n) = {}
  THEN None
  ELSE CHOOSE r \in Named(S, n) : \A q \in Named(S, n) : call[q].uid <= call[r].uid

\* The counter is stored in the order in which uids were taken.
UidTurn(c) ==
  /\ call[c].phase = "uid"
  /\ \A d \in Call : call[d].phase = "uid" => call[c].uid <= call[d].uid

OrmTurn(c, p) ==
  /\ orm # << >>
  /\ c = Head(orm)
  /\ call[c].phase = p

\* Call c, of which b is known so far, goes on to phase p.
Step(c, b, p) == call' = [call EXCEPT ![c] = [b EXCEPT !.phase = p]]

\* The call is over; it may have been answered or not.
Done(c, b, a) ==
  /\ Step(c, b, "done")
  /\ answer' = [answer EXCEPT ![c] = a]

\* The process ends, and with it all that is in memory.
Down ==
  /\ up' = FALSE
  /\ arr' = {}
  /\ mapper' = [n \in Name |-> None]
  /\ value' = [r \in Record |-> 0]
  /\ count' = 0

\* What a request does in the database when it is carried out.
Carried(c) ==
  LET r == IF call[c].phase = "write" THEN call[c].row ELSE call[c].rec
  IN  CASE call[c].phase = "create" ->
             /\ rows' = rows \cup {c}
             /\ stored' = [stored EXCEPT ![c] = 0]
        [] call[c].phase \in {"write", "save", "save again"} ->
             /\ stored' = IF r \in rows THEN [stored EXCEPT ![r] = call[c].sent] ELSE stored
             /\ UNCHANGED rows
        [] call[c].phase = "remove" ->
             /\ rows' = rows \ {call[c].row}
             /\ UNCHANGED stored
        [] OTHER -> UNCHANGED <<rows, stored>>

-----------------------------------------------------------------------------
\* Operations of the datastore that call c, of which b is known, begins.  q is
\* the queue of the database without the request that c has just had an answer
\* to, m the map.

\* sync: the record is saved twice.  When its name leads to nothing in the
\* map, it will be put there; when it leads to another record, it fails.
Sync(c, b, r, m, q) ==
  LET entry == m[NameOf(r)]
  IN  /\ value' = [value EXCEPT ![r] = @ + 1]
      /\ \/ /\ entry \in {None, r}
            /\ call' = [call EXCEPT ![c] =
                 [b EXCEPT !.phase = "save", !.rec = r, !.sent = value[r] + 1,
                           !.rebuild = (entry = None)]]
            /\ orm' = Append(q, c)
            /\ UNCHANGED answer
         \/ /\ entry \notin {None, r}
            /\ Done(c, b, "error")
            /\ orm' = q

\* update: memory first, the database later.  When the array has no such
\* record, it throws, and nobody is told (with SAFE_CALL, see README.md).
Update(c, b) ==
  LET r == First(arr, b.name)
  IN  \/ /\ r # None
         /\ value' = [value EXCEPT ![r] = @ + 1]
         /\ call' = [call EXCEPT ![c] = [b EXCEPT !.phase = "find", !.sent = value[r] + 1]]
         /\ orm' = Append(orm, c)
         /\ UNCHANGED answer
      \/ /\ r = None
         /\ Done(c, b, "none")
         /\ UNCHANGED <<value, orm>>

\* Faulty: the counter is raised when it has been stored.
RegisterVariant(c, b) ==
  \/ /\ mapper[b.name] = None
     /\ count' = dbCount
     /\ call' = [call EXCEPT ![c] = [b EXCEPT !.phase = "uid", !.uid = dbCount + 1]]
     /\ UNCHANGED answer
  \/ /\ mapper[b.name] # None
     /\ Done(c, b, "error")
     /\ UNCHANGED count

\* _ACCOUNT_REGISTER up to the request that stores the new counter: whether
\* the name is taken is looked at here and not again.
Register(c, b) ==
  \/ /\ mapper[b.name] = None
     /\ count' = count + 1
     /\ call' = [call EXCEPT ![c] = [b EXCEPT !.phase = "uid", !.uid = count + 1]]
     /\ UNCHANGED answer
  \/ /\ mapper[b.name] # None
     /\ Done(c, b, "error")
     /\ UNCHANGED count

-----------------------------------------------------------------------------
\* The API calls, each up to its first request.

\* Calls are numbered in the order in which they come.
Comes(c) ==
  /\ up
  /\ call[c].phase = "new"
  /\ \A d \in Call : d < c => call[d].phase # "new"

AccountRegister(c, n) ==
  /\ Comes(c)
  /\ Register(c, New("register", n))
  /\ UNCHANGED <<up, restarts, orm, rows, stored, memory, dbCount>>

\* _ACCOUNT_LOGIN with a password, and the calls that change a record and
\* save it: logout, new passwords, new data, groups.
AccountChange(c, n) ==
  /\ Comes(c)
  /\ \/ /\ mapper[n] # None
        /\ Sync(c, New("change", n), mapper[n], mapper, orm)
     \/ /\ mapper[n] = None
        /\ Done(c, New("change", n), "error")
        /\ UNCHANGED <<value, orm>>
  /\ UNCHANGED <<up, restarts, rows, stored, arr, mapper, count, dbCount>>

\* _ACCOUNT_LOGIN for users of another system, which is asked first.
AccountLogin(c, n) ==
  /\ Comes(c)
  /\ Step(c, [New("login", n) EXCEPT !.rec = mapper[n]], "auth")
  /\ UNCHANGED <<up, restarts, answer, orm, rows, stored, memory, count, dbCount>>

AccountUpdate(c, n) ==
  /\ Comes(c)
  /\ Update(c, New("update", n))
  /\ UNCHANGED <<up, restarts, rows, stored, arr, mapper, count, dbCount>>

AccountDelete(c, n) ==
  /\ Comes(c)
  /\ \/ /\ mapper[n] # None
        /\ Step(c, New("delete", n), "lookup")
        /\ orm' = Append(orm, c)
        /\ UNCHANGED answer
     \/ /\ mapper[n] = None
        /\ Done(c, New("delete", n), "error")
        /\ UNCHANGED orm
  /\ UNCHANGED <<up, restarts, rows, stored, memory, count, dbCount>>

-----------------------------------------------------------------------------
\* Answers, and how the calls go on.

\* Faulty: the error is returned instead of passed on.
FailedVariant(c) ==
  /\ up
  /\ \/ UidTurn(c) /\ UNCHANGED orm
     \/ \E p \in OrmPhase : OrmTurn(c, p) /\ orm' = Tail(orm)
  /\ Done(c, call[c], "none")
  /\ UNCHANGED <<up, restarts, rows, stored, memory, count, dbCount>>

\* Any request may fail.  The caller of a deletion is not told.
Failed(c) ==
  /\ up
  /\ \/ /\ UidTurn(c)
        /\ UNCHANGED orm
     \/ /\ call[c].phase = "auth"
        /\ UNCHANGED orm
     \/ \E p \in OrmPhase \ {"save again"} : OrmTurn(c, p) /\ orm' = Tail(orm)
  /\ Done(c, call[c], IF call[c].kind = "delete" THEN "none" ELSE "error")
  /\ UNCHANGED <<up, restarts, rows, stored, memory, count, dbCount>>

UidStored(c) ==
  /\ up
  /\ UidTurn(c)
  /\ dbCount' = call[c].uid
  /\ Step(c, call[c], "create")
  /\ orm' = Append(orm, c)
  /\ UNCHANGED <<up, restarts, answer, rows, stored, memory, count>>

\* The record goes into the array and the map, over another of its name if
\* there is one.  A login that has registered its user goes on.
Created(c) ==
  LET m == [mapper EXCEPT ![call[c].name] = c]
  IN  /\ up
      /\ OrmTurn(c, "create")
      /\ Carried(c)
      /\ arr' = arr \cup {c}
      /\ mapper' = m
      /\ \/ /\ call[c].kind = "register"
            /\ Done(c, call[c], "ok")
            /\ orm' = Tail(orm)
            /\ UNCHANGED value
         \/ /\ call[c].kind = "login"
            /\ Sync(c, call[c], c, m, Tail(orm))
      /\ UNCHANGED <<up, restarts, count, dbCount>>

\* The other system has let the user in.  Whether the account is new was
\* looked at when the call came.
Authenticated(c) ==
  /\ up
  /\ call[c].phase = "auth"
  /\ \/ /\ call[c].rec # None
        /\ Update(c, call[c])
        /\ UNCHANGED count
     \/ /\ call[c].rec = None
        /\ Register(c, call[c])
        /\ UNCHANGED <<value, orm>>
  /\ UNCHANGED <<up, restarts, rows, stored, arr, mapper, dbCount>>

\* ORM.update has found the row to change, or none.
Found(c) ==
  LET r == First(rows, call[c].name)
  IN  /\ up
      /\ OrmTurn(c, "find")
      /\ \/ /\ r # None
            /\ call' = [call EXCEPT ![c].phase = "write", ![c].row = r]
            /\ orm' = Append(Tail(orm), c)
            /\ UNCHANGED answer
         \/ /\ r = None
            /\ Done(c, call[c], "error")
            /\ orm' = Tail(orm)
      /\ UNCHANGED <<up, restarts, rows, stored, memory, count, dbCount>>

\* A login goes on with the record of that name now, or else with the one
\* it had when it began.
Written(c) ==
  LET r == mapper[call[c].name]
  IN  /\ up
      /\ OrmTurn(c, "write")
      /\ Carried(c)
      /\ \/ /\ call[c].kind = "update"
            /\ Done(c, call[c], "ok")
            /\ orm' = Tail(orm)
            /\ UNCHANGED value
         \/ /\ call[c].kind = "login"
            /\ Sync(c, call[c], IF r # None THEN r ELSE call[c].rec, mapper, Tail(orm))
      /\ UNCHANGED <<up, restarts, arr, mapper, count, dbCount>>

Saved(c) ==
  /\ up
  /\ OrmTurn(c, "save")
  /\ Carried(c)
  /\ call' = [call EXCEPT ![c].phase = "save again", ![c].sent = value[call[c].rec]]
  /\ orm' = Append(Tail(orm), c)
  /\ UNCHANGED <<up, restarts, answer, memory, count, dbCount>>

\* Faulty: the result of the second save is not looked at.
SavedAgainVariant(c) ==
  LET r == call[c].rec
  IN  /\ up
      /\ OrmTurn(c, "save again")
      /\ mapper' = IF call[c].rebuild THEN [mapper EXCEPT ![NameOf(r)] = r] ELSE mapper
      /\ Carried(c) \/ UNCHANGED <<rows, stored>>
      /\ Done(c, call[c], "ok")
      /\ orm' = Tail(orm)
      /\ UNCHANGED <<up, restarts, arr, value, count, dbCount>>

\* The map is rebuilt whether the second save fails or not.
SavedAgain(c) ==
  LET r == call[c].rec
  IN  /\ up
      /\ OrmTurn(c, "save again")
      /\ mapper' = IF call[c].rebuild THEN [mapper EXCEPT ![NameOf(r)] = r] ELSE mapper
      /\ \/ Carried(c) /\ Done(c, call[c], "ok")
         \/ UNCHANGED <<rows, stored>> /\ Done(c, call[c], "error")
      /\ orm' = Tail(orm)
      /\ UNCHANGED <<up, restarts, arr, value, count, dbCount>>

\* ORM.delete has found the row to remove.  When there is none, the exception
\* in the callback of the ORM ends the process.
LookedUp(c) ==
  LET r == First(rows, call[c].name)
  IN  /\ up
      /\ OrmTurn(c, "lookup")
      /\ \/ /\ r # None
            /\ call' = [call EXCEPT ![c].phase = "remove", ![c].row = r]
            /\ orm' = Append(Tail(orm), c)
            /\ UNCHANGED <<up, memory, count>>
         \/ /\ r = None
            /\ Step(c, call[c], "done")
            /\ orm' = Tail(orm)
            /\ Down
      /\ UNCHANGED <<restarts, answer, rows, stored, dbCount>>

\* Faulty: the last record of that name leaves the array.
RemovedVariant(c) ==
  LET n == call[c].name
      r == Last(arr, n)
  IN  /\ up
      /\ OrmTurn(c, "remove")
      /\ Carried(c)
      /\ \/ r # None /\ Done(c, call[c], "ok")
         \/ r = None /\ Done(c, call[c], "none")
      /\ arr' = arr \ {r}
      /\ mapper' = [mapper EXCEPT ![n] = IF r # None THEN None ELSE @]
      /\ orm' = Tail(orm)
      /\ UNCHANGED <<up, restarts, value, count, dbCount>>

\* Faulty: the name stays in the map.
RemovedKeptVariant(c) ==
  LET r == First(arr, call[c].name)
  IN  /\ up
      /\ OrmTurn(c, "remove")
      /\ Carried(c)
      /\ \/ r # None /\ Done(c, call[c], "ok")
         \/ r = None /\ Done(c, call[c], "none")
      /\ arr' = arr \ {r}
      /\ orm' = Tail(orm)
      /\ UNCHANGED <<up, restarts, mapper, value, count, dbCount>>

\* The first record of that name leaves the array, and the name the map.
\* When the array has none, the caller is not told.
Removed(c) ==
  LET n == call[c].name
      r == First(arr, n)
  IN  /\ up
      /\ OrmTurn(c, "remove")
      /\ Carried(c)
      /\ \/ /\ r # None
            /\ arr' = arr \ {r}
            /\ mapper' = [mapper EXCEPT ![n] = None]
            /\ Done(c, call[c], "ok")
         \/ /\ r = None
            /\ Done(c, call[c], "none")
            /\ UNCHANGED <<arr, mapper>>
      /\ orm' = Tail(orm)
      /\ UNCHANGED <<up, restarts, value, count, dbCount>>

-----------------------------------------------------------------------------
\* Crash and restart.

Crash ==
  /\ up
  /\ restarts < MaxRestarts
  /\ Down
  /\ UNCHANGED <<restarts, call, answer, orm, rows, stored, dbCount>>

\* A request that was under way is carried out, or lost with the connection.
Late(c) ==
  /\ ~up
  /\ \/ /\ UidTurn(c)
        /\ dbCount' \in {dbCount, call[c].uid}
        /\ UNCHANGED <<orm, rows, stored>>
     \/ /\ \E p \in OrmPhase : OrmTurn(c, p)
        /\ Carried(c) \/ UNCHANGED <<rows, stored>>
        /\ orm' = Tail(orm)
        /\ UNCHANGED dbCount
  /\ Step(c, call[c], "done")
  /\ UNCHANGED <<up, restarts, answer, memory, count>>

\* The datastore loads the rows, with the last of each name in the map; the
\* calls of before are forgotten.
Restart ==
  /\ ~up
  /\ restarts < MaxRestarts
  /\ orm = << >>
  /\ \A c \in Call : call[c].phase # "uid"
  /\ up' = TRUE
  /\ restarts' = restarts + 1
  /\ call' = [c \in Record |->
                IF call[c].phase = "new" THEN call[c] ELSE [call[c] EXCEPT !.phase = "done"]]
  /\ arr' = rows
  /\ mapper' = [n \in Name |-> Last(rows, n)]
  /\ value' = stored
  /\ count' = dbCount
  /\ UNCHANGED <<answer, orm, rows, stored, dbCount>>

-----------------------------------------------------------------------------
Make(c) ==
  \E n \in Name :
    \/ AccountRegister(c, n) \/ AccountChange(c, n) \/ AccountLogin(c, n)
    \/ AccountUpdate(c, n) \/ AccountDelete(c, n)

Answered(c) ==
  \/ Failed(c)
  \/ UidStored(c) \/ Created(c) \/ Authenticated(c)
  \/ Found(c) \/ Written(c) \/ Saved(c) \/ SavedAgain(c)
  \/ LookedUp(c) \/ Removed(c)

Next ==
  \/ \E c \in Call : Make(c) \/ Answered(c) \/ Late(c)
  \/ Crash
  \/ Restart

\* The database and the other system answer, if only with an error.
Fairness == \A c \in Call : WF_vars(Answered(c))

Spec == Init /\ [][Next]_vars /\ Fairness

-----------------------------------------------------------------------------
\* Properties.

\* A uid is given to one record, also over crashes: it is taken from the
\* counter in memory, and used when the counter in the database is as high.
UniqueUid ==
  \A r, s \in rows : call[r].uid = call[s].uid => r = s

\* No record in memory is without its row in the database, however calls for
\* one name overlap.
ArrayStored == arr \subseteq rows

\* A name in the map leads to a record in the array; only the login of a user
\* of another system, which goes on with the record it began with, can put
\* one back that has been deleted.
MapperInArray ==
  \A n \in Name : mapper[n] # None =>
    \/ mapper[n] \in arr
    \/ \E c \in Call : call[c].kind = "login" /\ call[c].rec = mapper[n]

\* What callers were told is stored, is stored, whatever calls overlap and
\* whenever the server crashes (account.js, "register success" and syncs):
\* a change, or a later one, is in the database, though an update, which looks
\* the row up first, may write an older one over it; and an account that was
\* registered is there until it is deleted.
ChangesStored ==
  \A c \in Call :
    LET r == call[c].rec
    IN  /\ call[c].kind = "change" /\ answer[c] = "ok"
        /\ r \in rows /\ stored[r] < call[c].sent
        => \E u \in Call : /\ call[u].kind \in {"update", "login"}
                           /\ call[u].name = NameOf(r)

RegisteredStored ==
  \A c \in Call :
    call[c].kind = "register" /\ answer[c] = "ok" =>
      \/ c \in rows
      \/ \E d \in Call : call[d].kind = "delete" /\ call[d].row = c

AcknowledgedStored == ChangesStored /\ RegisteredStored

\* An update of a name without a record in the array, also one that a login
\* makes, ends in an exception that its caller does not hear of; nor does that
\* of a deletion when a request of it fails, or another deletion of the name
\* overlaps.
Unreported(c) ==
  \/ call[c].kind \in {"update", "login"} /\ call[c].sent = 0
  \/ /\ call[c].kind = "delete"
     /\ \/ call[c].row \in rows \cup {None}
        \/ \E d \in Call \ {c} : /\ call[d].kind = "delete"
                               /\ call[d].name = call[c].name

\* Every call of every kind is answered, whichever of its requests fail and
\* whatever calls overlap, unless the server crashes; those calls that are over
\* without an answer (account.js 876, datastore.js 457) are as Unreported says.
CallsAnswered ==
  \A c \in Call :
    call[c].phase # "new" ~>
      \/ answer[c] # "none" \/ ~up \/ restarts > 0
      \/ call[c].phase = "done" /\ Unreported(c)

=============================================================================
