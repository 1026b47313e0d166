--------------------------- MODULE Accounts_proofs ---------------------------
(***************************************************************************)
(* Proofs about Accounts, for any number of names, calls and crashes.      *)
(***************************************************************************)
EXTENDS Accounts, FiniteSetTheorems, WellFoundedInduction, TLAPS

\* What is known of a call.
Entry ==
  [phase : Phase, kind : Kind, name : Name \cup {None}, uid : Nat,
   rec : Record \cup {None}, row : Record \cup {None}, sent : Nat,
   rebuild : BOOLEAN]

\* A call whose record has been created.
Known(r) == call[r].phase \in {"save", "save again", "done"}

KnownNext(r) == call'[r].phase \in {"save", "save again", "done"}

\* A call or record whose uid counts.
Live(r) == call[r].phase \in {"uid", "create"} \/ r \in rows

\* The counter in memory is ahead of every uid in use, the one in the
\* database of every record there, created or about to be.
UidInv ==
  /\ up => dbCount <= count /\ \A c \in Call : call[c].phase = "uid" => call[c].uid <= count
  /\ \A c \in Call : call[c].phase = "uid" => call[c].uid > dbCount
  /\ \A r \in Record : call[r].phase = "create" \/ r \in rows => call[r].uid <= dbCount
  /\ \A r, s \in Record : Live(r) /\ Live(s) /\ call[r].uid = call[s].uid => r = s
  /\ \A r \in rows : Known(r)
  /\ call[0].phase = "done"

\* Requests to the database: one of a call at a time, creations in the order
\* of their uids, and these above those in the database.
OrmInv ==
  /\ \A i, j \in 1 .. Len(orm) : orm[i] = orm[j] => i = j
  /\ \A i \in 1 .. Len(orm) : call[orm[i]].phase \in OrmPhase
  /\ \A c \in Call : call[c].phase = "create" => \E i \in 1 .. Len(orm) : orm[i] = c
  /\ \A i, j \in 1 .. Len(orm) :
       i < j /\ call[orm[i]].phase = "create" /\ call[orm[j]].phase = "create"
         => call[orm[i]].uid < call[orm[j]].uid
  /\ \A c \in Call, r \in rows :
       call[c].phase = "create" => call[r].uid < call[c].uid

\* A row that is to be removed is the first of its name, if it is there.
RemoveInv ==
  \A c \in Call :
    call[c].phase = "remove" =>
      /\ call[c].row # None /\ Known(call[c].row)
      /\ call[c].row \in rows =>
           /\ NameOf(call[c].row) = call[c].name
           /\ \A r \in rows : NameOf(r) = call[c].name => call[call[c].row].uid <= call[r].uid

\* A call that was made has a name, and one that saves a record has the record.
CallInv ==
  \A c \in Call :
    /\ IF call[c].phase = "new" THEN call[c].rec = None ELSE call[c].name \in Name
    /\ call[c].phase \in {"save", "save again"} =>
         call[c].rec # None /\ (call[c].rebuild => call[c].kind = "login")
    /\ call[c].phase \in {"find", "write"} /\ call[c].kind = "login" => call[c].rec # None
    /\ call[c].phase \in {"uid", "create"} /\ call[c].kind = "login" => call[c].rec = None

\* The records that the map and logins lead to have the name they are found by.
NameInv ==
  /\ \A n \in Name : mapper[n] # None => Known(mapper[n]) /\ NameOf(mapper[n]) = n
  /\ \A c \in Call : call[c].kind = "login" /\ call[c].rec # None =>
       Known(call[c].rec) /\ NameOf(call[c].rec) = call[c].name
  /\ up \/ arr = {}

Inv ==
  /\ TypeOK /\ UidInv /\ OrmInv /\ RemoveInv /\ CallInv /\ NameInv
  /\ ArrayStored /\ MapperInArray


-----------------------------------------------------------------------------
(* Types.                                                                  *)

LEMMA RecordFacts == Call \subseteq Record /\ 0 \in Record /\ 0 \notin Call
BY AccountsAssumption DEF Call, Record

LEMMA InitTypes == Init => TypeOK
<1> SUFFICES ASSUME Init PROVE TypeOK
  OBVIOUS
<1>1. rows \in SUBSET Record /\ count \in Nat
  BY RecordFacts, FS_EmptySet, FS_Singleton DEF Init
<1>2. PICK n \in Name :
        call = [c \in Record |->
                  IF c = 0 THEN [New("register", n) EXCEPT !.phase = "done", !.uid = 1]
                  ELSE New("change", None)]
  BY DEF Init
<1>3. /\ [New("register", n) EXCEPT !.phase = "done", !.uid = 1] \in Entry
      /\ New("change", None) \in Entry
  BY DEF New, Entry, Kind, Phase
<1>4. call \in [Record -> Entry]
  BY <1>2, <1>3
<1>5. mapper \in [Name -> Record \cup {None}]
  BY RecordFacts DEF Init
<1>6. /\ stored \in [Record -> Nat] /\ value \in [Record -> Nat]
      /\ answer \in [Call -> {"none", "ok", "error"}]
  BY DEF Init
<1>7. orm \in Seq(Call) /\ up \in BOOLEAN /\ restarts \in 0 .. MaxRestarts
  BY AccountsAssumption DEF Init
<1> QED BY <1>1, <1>4, <1>5, <1>6, <1>7 DEF TypeOK, Entry, Init

\* First and Last are records of the set, or None.
LEMMA NamedTypes ==
  ASSUME NEW S \in SUBSET Record, NEW n
  PROVE  Named(S, n) \in SUBSET Record /\ Named(S, n) \subseteq S
BY DEF Named

LEMMA MinNat ==
  ASSUME NEW T \in SUBSET Nat, T # {}
  PROVE  \E x \in T : \A y \in T : x <= y
<1> DEFINE R == {ss \in Nat \X Nat : ss[1] < ss[2]}
<1>1. R = OpToRel(<, Nat)
  BY DEF OpToRel
<1>2. IsWellFoundedOn(R, Nat)
  BY <1>1, NatLessThanWellFounded
<1>3. PICK x \in T : \A y \in T : ~ (<<y, x>> \in R)
  <2> HIDE DEF R
  <2> QED BY <1>2, WFMin
<1>4. ASSUME NEW y \in T, y < x PROVE <<y, x>> \in R
  BY <1>4
<1>5. \A y \in T : ~ (y < x)
  <2> HIDE DEF R
  <2> QED BY <1>3, <1>4
<1> QED BY <1>5

\* What First returns: the record of that name with the lowest uid.
LEMMA FirstFacts ==
  ASSUME TypeOK, NEW S \in SUBSET Record, NEW n, Named(S, n) # {}
  PROVE  /\ First(S, n) \in S
         /\ NameOf(First(S, n)) = n
         /\ \A q \in S : NameOf(q) = n => call[First(S, n)].uid <= call[q].uid
<1> DEFINE T == {call[r].uid : r \in Named(S, n)}
<1>1. T \in SUBSET Nat /\ T # {}
  BY NamedTypes DEF TypeOK
<1>2. PICK x \in T : \A y \in T : x <= y
  <2> HIDE DEF T
  <2> QED BY <1>1, MinNat
<1>3. \E r \in Named(S, n) : \A q \in Named(S, n) : call[r].uid <= call[q].uid
  BY <1>2
<1>4. /\ First(S, n) \in Named(S, n)
      /\ \A q \in Named(S, n) : call[First(S, n)].uid <= call[q].uid
  BY <1>3 DEF First
<1> QED BY <1>4 DEF Named

LEMMA FirstTypes ==
  ASSUME TypeOK, NEW S \in SUBSET Record, NEW n
  PROVE  First(S, n) \in Record \cup {None} /\ (First(S, n) = None <=> Named(S, n) = {})
<1>1. CASE Named(S, n) = {}
  BY <1>1 DEF First
<1>2. CASE Named(S, n) # {}
  BY <1>2, FirstFacts, AccountsAssumption
<1> QED BY <1>1, <1>2

\* Last returns a record of that name too, when the uids of the set have a
\* bound.
LEMMA LastFacts ==
  ASSUME TypeOK, NEW S \in SUBSET Record, NEW n, Named(S, n) # {},
         NEW b \in Nat, \A r \in S : call[r].uid <= b
  PROVE  Last(S, n) \in S /\ NameOf(Last(S, n)) = n
<1> DEFINE T == {b - call[r].uid : r \in Named(S, n)}
<1>1. T \in SUBSET Nat /\ T # {}
  <2>1. \A r \in Named(S, n) : call[r].uid \in Nat /\ call[r].uid <= b
    BY NamedTypes DEF TypeOK
  <2> QED BY <2>1
<1>2. PICK x \in T : \A y \in T : x <= y
  <2> HIDE DEF T
  <2> QED BY <1>1, MinNat
<1>3. PICK r \in Named(S, n) : x = b - call[r].uid
  BY <1>2
<1>4. ASSUME NEW q \in Named(S, n) PROVE call[q].uid <= call[r].uid
  <2>1. b - call[r].uid <= b - call[q].uid
    BY <1>2, <1>3
  <2>2. call[q].uid \in Nat /\ call[r].uid \in Nat
    BY NamedTypes DEF TypeOK
  <2> QED BY <2>1, <2>2
<1>5. Last(S, n) \in Named(S, n)
  BY <1>3, <1>4 DEF Last
<1> QED BY <1>5 DEF Named

-----------------------------------------------------------------------------
(* What is known of a call keeps to its type.                              *)

LEMMA SaveEntry ==
  ASSUME NEW b \in Entry, NEW r \in Record, NEW v \in Nat, NEW w \in BOOLEAN
  PROVE  [b EXCEPT !.phase = "save", !.rec = r, !.sent = v, !.rebuild = w] \in Entry
BY DEF Entry, Phase, OrmPhase

LEMMA NewEntry ==
  ASSUME NEW k \in Kind, NEW n \in Name PROVE New(k, n) \in Entry
BY DEF New, Entry, Phase

LEMMA Put ==
  ASSUME TypeOK, NEW c \in Call, NEW b \in Entry, call' = [call EXCEPT ![c] = b]
  PROVE  /\ call' \in [Record -> Entry]
         /\ call'[c] = b
         /\ \A r \in Record : r # c => call'[r] = call[r]
BY RecordFacts DEF TypeOK, Entry

LEMMA StepFacts ==
  ASSUME TypeOK, NEW c \in Call, NEW b \in Entry, NEW p \in Phase, Step(c, b, p)
  PROVE  /\ call' \in [Record -> Entry]
         /\ call'[c] = [b EXCEPT !.phase = p]
         /\ \A r \in Record : r # c => call'[r] = call[r]
<1>1. [b EXCEPT !.phase = p] \in Entry
  BY DEF Entry
<1> QED BY <1>1, Put DEF Step

\* An entry b with phase p.
At(x, b, p) ==
  /\ x.phase = p /\ x.kind = b.kind /\ x.name = b.name /\ x.uid = b.uid
  /\ x.rec = b.rec /\ x.row = b.row /\ x.rebuild = b.rebuild

LEMMA StepAt ==
  ASSUME TypeOK, NEW c \in Call, NEW b \in Entry, NEW p \in Phase, Step(c, b, p)
  PROVE  /\ call' \in [Record -> Entry]
         /\ At(call'[c], b, p)
         /\ \A r \in Record : r # c => call'[r] = call[r]
<1>1. call'[c] = [b EXCEPT !.phase = p]
  BY StepFacts
<1>2. At(call'[c], b, p)
  BY <1>1 DEF Entry, At
<1> QED BY <1>2, StepFacts

LEMMA DoneAt ==
  ASSUME TypeOK, NEW c \in Call, NEW b \in Entry, NEW a \in {"none", "ok", "error"},
         Done(c, b, a)
  PROVE  /\ call' \in [Record -> Entry]
         /\ answer' \in [Call -> {"none", "ok", "error"}]
         /\ At(call'[c], b, "done")
         /\ \A r \in Record : r # c => call'[r] = call[r]
<1>1. "done" \in Phase
  BY DEF Phase
<1>2. Step(c, b, "done")
  BY DEF Done
<1>3. answer' \in [Call -> {"none", "ok", "error"}]
  BY DEF Done, TypeOK
<1> QED BY <1>1, <1>2, <1>3, StepAt

LEMMA SyncFacts ==
  ASSUME TypeOK, NEW c \in Call, NEW b \in Entry, NEW r \in Record,
         NEW m \in [Name -> Record \cup {None}], NEW q \in Seq(Call),
         Sync(c, b, r, m, q)
  PROVE  /\ call' \in [Record -> Entry]
         /\ answer' \in [Call -> {"none", "ok", "error"}]
         /\ value' \in [Record -> Nat]
         /\ \A s \in Record : s # c => call'[s] = call[s]
         /\ \/ /\ call'[c].phase = "save" /\ call'[c].rec = r
               /\ call'[c].kind = b.kind /\ call'[c].name = b.name /\ call'[c].uid = b.uid
               /\ call'[c].rebuild => m[NameOf(r)] = None
               /\ orm' = Append(q, c)
            \/ At(call'[c], b, "done") /\ orm' = q
<1>1. value' \in [Record -> Nat]
  BY DEF Sync, TypeOK
<1>2. CASE /\ call' = [call EXCEPT ![c] =
                 [b EXCEPT !.phase = "save", !.rec = r, !.sent = value[r] + 1,
                           !.rebuild = (m[NameOf(r)] = None)]]
           /\ orm' = Append(q, c)
           /\ UNCHANGED answer
  <2>1. [b EXCEPT !.phase = "save", !.rec = r, !.sent = value[r] + 1,
                  !.rebuild = (m[NameOf(r)] = None)] \in Entry
    <3>1. value[r] + 1 \in Nat /\ (m[NameOf(r)] = None) \in BOOLEAN
      BY DEF TypeOK
    <3> QED BY <3>1, SaveEntry
  <2>2. answer' \in [Call -> {"none", "ok", "error"}]
    BY <1>2 DEF TypeOK
  <2>3. call'[c] = [b EXCEPT !.phase = "save", !.rec = r, !.sent = value[r] + 1,
                             !.rebuild = (m[NameOf(r)] = None)]
        /\ call' \in [Record -> Entry] /\ \A s \in Record : s # c => call'[s] = call[s]
    BY <1>2, <2>1, Put
  <2>4. /\ call'[c].phase = "save" /\ call'[c].rec = r
        /\ call'[c].kind = b.kind /\ call'[c].name = b.name /\ call'[c].uid = b.uid
        /\ call'[c].rebuild = (m[NameOf(r)] = None)
    BY <2>3 DEF Entry
  <2> QED BY <1>1, <1>2, <2>2, <2>3, <2>4
<1>3. CASE Done(c, b, "error") /\ orm' = q
  BY <1>1, <1>3, DoneAt
<1> QED BY <1>2, <1>3 DEF Sync

LEMMA UpdateFacts ==
  ASSUME TypeOK, NEW c \in Call, NEW b \in Entry, Update(c, b)
  PROVE  /\ call' \in [Record -> Entry]
         /\ answer' \in [Call -> {"none", "ok", "error"}]
         /\ value' \in [Record -> Nat]
         /\ \A s \in Record : s # c => call'[s] = call[s]
         /\ \/ At(call'[c], b, "find") /\ orm' = Append(orm, c)
            \/ At(call'[c], b, "done") /\ orm' = orm
<1> DEFINE r == First(arr, b.name)
<1>1. r \in Record \cup {None}
  BY FirstTypes DEF TypeOK
<1> HIDE DEF r
<1>2. CASE /\ r # None
           /\ value' = [value EXCEPT ![r] = @ + 1]
           /\ call' = [call EXCEPT ![c] = [b EXCEPT !.phase = "find", !.sent = value[r] + 1]]
           /\ orm' = Append(orm, c)
           /\ UNCHANGED answer
  <2>1. value[r] + 1 \in Nat /\ value' \in [Record -> Nat]
    BY <1>1, <1>2 DEF TypeOK
  <2>2. [b EXCEPT !.phase = "find", !.sent = value[r] + 1] \in Entry
    BY <2>1 DEF Entry, Phase, OrmPhase
  <2>3. answer' \in [Call -> {"none", "ok", "error"}]
    BY <1>2 DEF TypeOK
  <2>4. call'[c] = [b EXCEPT !.phase = "find", !.sent = value[r] + 1]
        /\ call' \in [Record -> Entry] /\ \A s \in Record : s # c => call'[s] = call[s]
    BY <1>2, <2>2, Put
  <2>5. At(call'[c], b, "find")
    BY <2>4 DEF Entry, At
  <2> QED BY <1>2, <2>1, <2>3, <2>4, <2>5
<1>3. CASE Done(c, b, "none") /\ UNCHANGED <<value, orm>>
  <2>1. value' \in [Record -> Nat]
    BY <1>3 DEF TypeOK
  <2> QED BY <1>3, <2>1, DoneAt
<1> QED BY <1>2, <1>3 DEF Update, r

LEMMA RegisterFacts ==
  ASSUME TypeOK, NEW c \in Call, NEW b \in Entry, Register(c, b)
  PROVE  /\ call' \in [Record -> Entry]
         /\ answer' \in [Call -> {"none", "ok", "error"}]
         /\ \A s \in Record : s # c => call'[s] = call[s]
         /\ call'[c].kind = b.kind /\ call'[c].name = b.name /\ call'[c].rec = b.rec
         /\ \/ count' = count + 1 /\ call'[c].phase = "uid" /\ call'[c].uid = count + 1
            \/ count' = count /\ call'[c].phase = "done" /\ call'[c].uid = b.uid
<1>1. CASE /\ count' = count + 1
           /\ call' = [call EXCEPT ![c] = [b EXCEPT !.phase = "uid", !.uid = count + 1]]
           /\ UNCHANGED answer
  <2>1. [b EXCEPT !.phase = "uid", !.uid = count + 1] \in Entry
    <3>1. count + 1 \in Nat
      BY DEF TypeOK
    <3> QED BY <3>1 DEF Entry, Phase
  <2>2. answer' \in [Call -> {"none", "ok", "error"}]
    BY <1>1 DEF TypeOK
  <2>3. call'[c] = [b EXCEPT !.phase = "uid", !.uid = count + 1]
        /\ call' \in [Record -> Entry] /\ \A s \in Record : s # c => call'[s] = call[s]
    BY <1>1, <2>1, Put
  <2>4. /\ call'[c].phase = "uid" /\ call'[c].uid = count + 1
        /\ call'[c].kind = b.kind /\ call'[c].name = b.name /\ call'[c].rec = b.rec
    BY <2>3 DEF Entry
  <2> QED BY <1>1, <2>2, <2>3, <2>4
<1>2. CASE Done(c, b, "error") /\ UNCHANGED count
  BY <1>2, DoneAt DEF At
<1> QED BY <1>1, <1>2 DEF Register

-----------------------------------------------------------------------------
(* What a step of one call does, as far as the invariant can tell.  Every  *)
(* action but Crash and Restart is such a step (below).                    *)

CallMove(c) ==
  /\ call' \in [Record -> Entry]
  /\ \A s \in Record : s # c => call'[s] = call[s]
  /\ call'[c].phase # "new" /\ call'[c].name \in Name
  /\ call[c].phase # "new" => call'[c].kind = call[c].kind /\ call'[c].name = call[c].name
  /\ Known(c) => call'[c].phase \in {"save", "save again", "done"}

UidMove(c) ==
  /\ up' => up
  /\ \/ /\ call'[c].phase = "uid" /\ up /\ ~ Known(c)
        /\ count' = count + 1 /\ call'[c].uid = count + 1
     \/ /\ call'[c].phase # "uid"
        /\ call'[c].uid = call[c].uid \/ call[c].phase = "new"
        /\ count' = count \/ ~ up'
  /\ \/ dbCount' = dbCount /\ call'[c].phase # "create"
     \/ UidTurn(c) /\ dbCount' = call[c].uid /\ call'[c].phase \in {"create", "done"}

OrmMove(c) ==
  /\ call'[c].phase = "create" => call[c].phase = "uid" /\ orm' = Append(orm, c)
  /\ \/ orm' = orm /\ call[c].phase \notin OrmPhase /\ call'[c].phase \notin OrmPhase
     \/ orm' = Append(orm, c) /\ call[c].phase \notin OrmPhase /\ call'[c].phase \in OrmPhase
     \/ orm # << >> /\ c = Head(orm) /\ orm' = Tail(orm)
     \/ orm # << >> /\ c = Head(orm) /\ orm' = Append(Tail(orm), c) /\ call'[c].phase \in OrmPhase

RowMove(c) ==
  /\ \/ rows' = rows
     \/ /\ rows' = rows \cup {c}
        /\ orm # << >> /\ c = Head(orm) /\ call[c].phase = "create"
        /\ call'[c].phase \in {"save", "save again", "done"}
     \/ rows' = rows \ {call[c].row} /\ call[c].phase = "remove" /\ call'[c].phase # "remove"
  /\ call'[c].phase = "remove" =>
       /\ call'[c].row = First(rows, call'[c].name) /\ Named(rows, call'[c].name) # {}
       /\ rows' = rows

RecMove(c) ==
  /\ call'[c].phase \in {"save", "save again"} =>
       call'[c].rec # None /\ (call'[c].rebuild => call'[c].kind = "login")
  /\ call'[c].phase \in {"find", "write"} /\ call'[c].kind = "login" => call'[c].rec # None
  /\ call'[c].phase \in {"uid", "create"} /\ call'[c].kind = "login" => call'[c].rec = None
  /\ call'[c].kind = "login" /\ call'[c].rec # None =>
       \/ call[c].phase # "new" /\ call'[c].rec = call[c].rec
       \/ call'[c].rec = mapper[call'[c].name]
       \/ /\ call'[c].rec = c
          /\ call'[c].phase \in {"save", "save again", "done"}
          /\ call[c].rec = None
  /\ call[c].kind = "login" /\ call[c].rec # None =>
       \/ call'[c].rec = call[c].rec
       \/ call'[c].rec = mapper[call[c].name] /\ call'[c].rec # None

MapMove(c) ==
  /\ \A n \in Name :
       \/ mapper'[n] = mapper[n]
       \/ mapper'[n] = None
       \/ /\ mapper'[n] = c /\ n = call'[c].name
          /\ call'[c].phase \in {"save", "save again", "done"} /\ c \in arr'
       \/ /\ mapper'[n] = call[c].rec /\ call[c].phase = "save again" /\ call[c].rebuild
          /\ call'[c].rec = call[c].rec
          /\ n = NameOf(call[c].rec)
  /\ \/ arr' = arr /\ rows \subseteq rows' /\ up' = up
     \/ arr' = {} /\ (arr = {} \/ \A n \in Name : mapper'[n] = None)
     \/ arr' = arr \cup {c} /\ c \in rows' /\ rows \subseteq rows' /\ up'
     \/ /\ call[c].phase = "remove" /\ up'
        /\ rows' = rows \ {call[c].row}
        /\ \/ /\ Named(arr, call[c].name) # {}
              /\ arr' = arr \ {First(arr, call[c].name)}
              /\ mapper'[call[c].name] = None
           \/ Named(arr, call[c].name) = {} /\ arr' = arr

Move(c) ==
  CallMove(c) /\ UidMove(c) /\ OrmMove(c) /\ RowMove(c) /\ RecMove(c) /\ MapMove(c)

\* Moves keep the records of before as they are.
LEMMA MoveRecords ==
  ASSUME Inv, NEW c \in Call, Move(c)
  PROVE  \A r \in Record : Known(r) =>
           KnownNext(r) /\ NameOf(r)' = NameOf(r) /\ call'[r].uid = call[r].uid
<1>1. ASSUME NEW r \in Record, Known(r), r = c
      PROVE KnownNext(r) /\ NameOf(r)' = NameOf(r) /\ call'[r].uid = call[r].uid
  BY <1>1 DEF Move, CallMove, UidMove, Known, KnownNext, NameOf
<1>2. ASSUME NEW r \in Record, Known(r), r # c
      PROVE KnownNext(r) /\ NameOf(r)' = NameOf(r) /\ call'[r].uid = call[r].uid
  BY <1>2 DEF Move, CallMove, Known, KnownNext, NameOf
<1> QED BY <1>1, <1>2

LEMMA MoveUid ==
  ASSUME Inv, NEW c \in Call, Move(c)
  PROVE  UidInv'
<1>1. /\ CallMove(c) /\ UidMove(c) /\ RowMove(c) /\ UidInv
      /\ call \in [Record -> Entry] /\ count \in Nat /\ dbCount \in Nat
      /\ rows \in SUBSET Record
  BY DEF Move, Inv, TypeOK, Entry
<1>2. /\ c \in Record /\ c # 0 /\ 0 \in Record
      /\ \A d \in Call : d \in Record
      /\ \A r \in Record : call[r].uid \in Nat
  BY <1>1, RecordFacts DEF Entry
<1>3. \A d \in Call : call[d].phase = "uid" /\ d # c => call'[d] = call[d] /\ call[d].uid > dbCount'
  <2> SUFFICES ASSUME NEW d \in Call, call[d].phase = "uid", d # c, UidTurn(c),
                      dbCount' = call[c].uid
               PROVE  call[d].uid > dbCount'
    BY <1>1, <1>2 DEF CallMove, UidMove, UidInv
  <2>1. call[c].phase = "uid" /\ call[c].uid <= call[d].uid
    BY DEF UidTurn
  <2>2. call[c].uid # call[d].uid
    BY <1>1, <1>2, <2>1 DEF UidInv, Live
  <2> QED BY <1>2, <2>1, <2>2
<1>4. dbCount <= dbCount'
  BY <1>1, <1>2 DEF UidMove, UidInv, UidTurn
<1>5. rows' \subseteq rows \cup {c} /\ (c \in rows' => call'[c].phase \in {"save", "save again", "done"})
  BY <1>1, <1>2 DEF RowMove, UidInv, Known, KnownNext, CallMove
<1>6. up' => dbCount' <= count' /\ \A d \in Call : call'[d].phase = "uid" => call'[d].uid <= count'
  <2> SUFFICES ASSUME up'
               PROVE  dbCount' <= count' /\ \A d \in Call : call'[d].phase = "uid" => call'[d].uid <= count'
    OBVIOUS
  <2>1. up /\ count' \in Nat /\ count <= count'
    BY <1>1 DEF UidMove
  <2>2. dbCount' <= count'
    BY <1>1, <1>2, <2>1 DEF UidMove, UidInv, UidTurn
  <2>3. ASSUME NEW d \in Call, call'[d].phase = "uid" PROVE call'[d].uid <= count'
    <3>1. CASE d = c
      BY <1>1, <2>1, <2>3, <3>1 DEF UidMove
    <3>2. CASE d # c
      <4>1. call'[d] = call[d]
        BY <1>1, <1>2, <3>2 DEF CallMove
      <4>2. call[d].uid <= count /\ call[d].uid \in Nat
        BY <1>1, <1>2, <2>1, <2>3, <4>1 DEF UidInv
      <4> QED BY <1>1, <2>1, <4>1, <4>2
    <3> QED BY <3>1, <3>2
  <2> QED BY <2>2, <2>3
<1>7. \A d \in Call : call'[d].phase = "uid" => call'[d].uid > dbCount'
  <2>1. CASE call'[c].phase = "uid"
    BY <1>1, <1>2, <1>3, <2>1 DEF UidMove, CallMove, UidInv, UidTurn
  <2>2. CASE call'[c].phase # "uid"
    BY <1>1, <1>2, <1>3, <2>2 DEF CallMove
  <2> QED BY <2>1, <2>2
<1>8. \A r \in Record : call'[r].phase = "create" \/ r \in rows' => call'[r].uid <= dbCount'
  <2>1. dbCount' \in Nat
    BY <1>1, <1>2 DEF UidMove
  <2>2. ASSUME NEW r \in Record, r # c, call'[r].phase = "create" \/ r \in rows'
        PROVE call'[r].uid <= dbCount'
    <3>1. call'[r] = call[r]
      BY <1>1, <2>2 DEF CallMove
    <3>2. call[r].uid <= dbCount /\ call[r].uid \in Nat
      BY <1>1, <1>2, <1>5, <2>2, <3>1 DEF UidInv
    <3> QED BY <1>1, <1>4, <2>1, <3>1, <3>2
  <2>3. ASSUME call'[c].phase = "create" \/ c \in rows' PROVE call'[c].uid <= dbCount'
    <3>1. CASE call'[c].phase = "create"
      BY <1>1, <1>2, <3>1, <2>1 DEF UidMove, UidTurn
    <3>2. CASE c \in rows'
      <4>1. c \in rows \/ call[c].phase = "create"
        BY <1>1, <3>2 DEF RowMove
      <4>2. call[c].phase # "new" /\ call'[c].phase # "uid"
        BY <1>1, <1>5, <3>2, <4>1 DEF UidInv, Known, KnownNext
      <4> QED BY <1>1, <1>2, <1>4, <2>1, <4>1, <4>2 DEF UidMove, UidInv
    <3> QED BY <2>3, <3>1, <3>2
  <2> QED BY <2>2, <2>3
<1>9. \A r, s \in Record : Live(r)' /\ Live(s)' /\ call'[r].uid = call'[s].uid => r = s
  <2>1. ASSUME NEW r \in Record, r # c, Live(r)' PROVE Live(r) /\ call'[r] = call[r]
    BY <1>1, <1>5, <2>1 DEF Live, CallMove
  <2>2. ASSUME NEW r \in Record, r # c, Live(r)', Live(c)' PROVE call'[r].uid # call'[c].uid
    <3>1. Live(r) /\ call'[r] = call[r]
      BY <2>1, <2>2
    <3>2. CASE call'[c].phase = "uid"
      <4>1. call[r].uid <= count
        BY <1>1, <1>2, <3>1, <3>2, RecordFacts DEF UidMove, UidInv, Live, Call, Record
      <4> QED BY <1>1, <1>2, <3>1, <3>2, <4>1 DEF UidMove
    <3>3. CASE call'[c].phase # "uid"
      <4>1. Live(c) /\ call[c].phase # "new"
        BY <1>1, <2>2, <3>3 DEF Live, UidMove, UidTurn, RowMove, UidInv, Known, KnownNext
      <4>2. call'[c].uid = call[c].uid
        BY <1>1, <3>3, <4>1 DEF UidMove
      <4> QED BY <1>1, <1>2, <2>2, <3>1, <4>1, <4>2 DEF UidInv
    <3> QED BY <3>2, <3>3
  <2> QED BY <1>2, <2>1, <2>2, <1>1 DEF UidInv
<1>10. \A r \in rows' : KnownNext(r)
  BY <1>1, <1>5 DEF UidInv, Known, KnownNext, CallMove
<1>11. call'[0].phase = "done"
  BY <1>1, <1>2 DEF CallMove, UidInv
<1> QED BY <1>6, <1>7, <1>8, <1>9, <1>10, <1>11 DEF UidInv, Known, KnownNext

LEMMA HeadFact == ASSUME NEW S, NEW q \in Seq(S), q # << >> PROVE Head(q) = q[1] /\ Head(q) \in S
OBVIOUS

LEMMA MoveOrm ==
  ASSUME Inv, NEW c \in Call, Move(c), orm' \in Seq(Call)
  PROVE  OrmInv'
<1> DEFINE Ph(i) == call[orm[i]].phase
           Ph1(i) == call'[orm'[i]].phase
<1>1. /\ CallMove(c) /\ UidMove(c) /\ OrmMove(c) /\ RowMove(c) /\ UidInv /\ OrmInv
      /\ orm \in Seq(Call) /\ orm' \in Seq(Call)
      /\ \A d \in Call : d \in Record
      /\ \A r \in Record : call[r].uid \in Nat
      /\ dbCount \in Nat
  BY RecordFacts DEF Move, Inv, TypeOK
\* What is in the queue afterwards was there before, or is c at the end.
<1>2. \A i \in 1 .. Len(orm') :
        \/ orm'[i] = c /\ call'[c].phase \in OrmPhase /\ i = Len(orm')
        \/ \E k \in 1 .. Len(orm) : k >= i /\ orm'[i] = orm[k] /\ orm[k] # c
                                   /\ k = i + (IF orm' \in {orm, Append(orm, c)} THEN 0 ELSE 1)
  <2>1. CASE orm' = orm /\ call[c].phase \notin OrmPhase
    BY <1>1, <2>1 DEF OrmInv
  <2>2. CASE orm' = Append(orm, c) /\ call[c].phase \notin OrmPhase /\ call'[c].phase \in OrmPhase
    BY <1>1, <2>2 DEF OrmInv
  <2>3. CASE orm # << >> /\ c = Head(orm) /\ orm' = Tail(orm)
    BY <1>1, <2>3 DEF OrmInv
  <2>4. CASE orm # << >> /\ c = Head(orm) /\ orm' = Append(Tail(orm), c) /\ call'[c].phase \in OrmPhase
    BY <1>1, <2>4 DEF OrmInv
  <2> QED BY <1>1, <2>1, <2>2, <2>3, <2>4 DEF OrmMove
<1>3. \A i, j \in 1 .. Len(orm') : orm'[i] = orm'[j] => i = j
  BY <1>1, <1>2 DEF OrmInv
<1>4. \A i \in 1 .. Len(orm') : call'[orm'[i]].phase \in OrmPhase
  <2> SUFFICES ASSUME NEW i \in 1 .. Len(orm'), orm'[i] # c
               PROVE  call'[orm'[i]].phase \in OrmPhase
    BY <1>2
  <2>1. PICK k \in 1 .. Len(orm) : orm'[i] = orm[k]
    BY <1>2
  <2>2. orm[k] \in Call /\ call[orm[k]].phase \in OrmPhase
    BY <1>1 DEF OrmInv
  <2>3. call'[orm[k]] = call[orm[k]]
    BY <1>1, <2>1, <2>2 DEF CallMove
  <2> QED BY <2>1, <2>2, <2>3
<1>5. \A d \in Call : call'[d].phase = "create" => \E i \in 1 .. Len(orm') : orm'[i] = d
  <2> SUFFICES ASSUME NEW d \in Call, call'[d].phase = "create"
               PROVE  \E i \in 1 .. Len(orm') : orm'[i] = d
    OBVIOUS
  <2>1. CASE d = c
    <3>1. orm' = Append(orm, c)
      BY <1>1, <2>1 DEF OrmMove
    <3> QED BY <1>1, <2>1, <3>1
  <2>2. CASE d # c
    <3>1. PICK k \in 1 .. Len(orm) : orm[k] = d
      BY <1>1, <2>2 DEF CallMove, OrmInv
    <3>2. CASE orm' = orm \/ orm' = Append(orm, c)
      BY <1>1, <3>1, <3>2
    <3>3. CASE orm # << >> /\ c = Head(orm) /\ (orm' = Tail(orm) \/ orm' = Append(Tail(orm), c))
      <4>1. k - 1 \in 1 .. Len(orm') /\ orm'[k - 1] = d
        <5>1. k # 1
          BY <2>2, <3>1, <3>3
        <5>2. Len(Tail(orm)) = Len(orm) - 1 /\ Tail(orm) \in Seq(Call)
          BY <1>1, <3>3
        <5>3. k - 1 \in 1 .. Len(Tail(orm)) /\ Tail(orm)[k - 1] = orm[k]
          BY <1>1, <3>3, <5>1, <5>2
        <5> QED BY <3>1, <3>3, <5>2, <5>3
      <4> QED BY <4>1
    <3> QED BY <1>1, <3>2, <3>3 DEF OrmMove
  <2> QED BY <2>1, <2>2
<1>6. \A d \in Call : d # c /\ call'[d].phase = "create" =>
        call[d].phase = "create" /\ call'[d] = call[d] /\ call[d].uid <= dbCount
  BY <1>1 DEF CallMove, UidInv
<1>7. call'[c].phase = "create" => call'[c].uid = call[c].uid /\ call[c].uid > dbCount
  BY <1>1 DEF OrmMove, UidMove, UidInv
<1>8. \A i, j \in 1 .. Len(orm') :
        i < j /\ call'[orm'[i]].phase = "create" /\ call'[orm'[j]].phase = "create"
          => call'[orm'[i]].uid < call'[orm'[j]].uid
  <2> SUFFICES ASSUME NEW i \in 1 .. Len(orm'), NEW j \in 1 .. Len(orm'), i < j,
                      call'[orm'[i]].phase = "create", call'[orm'[j]].phase = "create"
               PROVE  call'[orm'[i]].uid < call'[orm'[j]].uid
    OBVIOUS
  <2>1. orm'[i] # c
    BY <1>1, <1>2, <1>3
  <2>2. orm'[i] \in Call /\ orm'[j] \in Call
    BY <1>1
  <2>3. CASE orm'[j] = c
    BY <1>1, <1>6, <1>7, <2>1, <2>2, <2>3
  <2>4. CASE orm'[j] # c
    <3>1. PICK k \in 1 .. Len(orm) : orm'[i] = orm[k]
                /\ k = i + (IF orm' \in {orm, Append(orm, c)} THEN 0 ELSE 1)
      BY <1>2, <2>1
    <3>2. PICK l \in 1 .. Len(orm) : orm'[j] = orm[l]
                /\ l = j + (IF orm' \in {orm, Append(orm, c)} THEN 0 ELSE 1)
      BY <1>2, <2>4
    <3>3. k < l
      BY <3>1, <3>2
    <3>4. call[orm[k]].phase = "create" /\ call[orm[l]].phase = "create"
      BY <1>6, <2>1, <2>2, <2>4, <3>1, <3>2
    <3>5. call[orm[k]].uid < call[orm[l]].uid
      BY <1>1, <3>3, <3>4 DEF OrmInv
    <3> QED BY <1>6, <2>1, <2>2, <2>4, <3>1, <3>2, <3>5
  <2> QED BY <2>3, <2>4
<1>9. \A d \in Call, r \in rows' : call'[d].phase = "create" => call'[r].uid < call'[d].uid
  <2> SUFFICES ASSUME NEW d \in Call, NEW r \in rows', call'[d].phase = "create"
               PROVE  call'[r].uid < call'[d].uid
    OBVIOUS
  <2>0. rows \in SUBSET Record /\ c \in Record /\ c # 0
    BY RecordFacts DEF Inv, TypeOK
  <2>1. CASE r \in rows
    <3>1. r \in Record /\ Known(r)
      BY <1>1, <2>0, <2>1 DEF UidInv
    <3>2. call'[r].uid = call[r].uid /\ call[r].uid <= dbCount
      BY <1>1, <2>1, <3>1, MoveRecords DEF UidInv
    <3>3. CASE d = c
      BY <1>1, <1>7, <2>0, <3>1, <3>2, <3>3
    <3>4. CASE d # c
      BY <1>1, <1>6, <2>1, <3>2, <3>4 DEF OrmInv
    <3> QED BY <3>3, <3>4
  <2>2. CASE r \notin rows
    <3>1. /\ r = c /\ orm # << >> /\ c = Head(orm) /\ call[c].phase = "create"
          /\ call'[c].phase \in {"save", "save again", "done"}
      <4>1. RowMove(c)
        BY <1>1
      <4>2. \/ rows' = rows
            \/ /\ rows' = rows \cup {c} /\ orm # << >> /\ c = Head(orm)
               /\ call[c].phase = "create"
               /\ call'[c].phase \in {"save", "save again", "done"}
            \/ rows' = rows \ {call[c].row}
        BY <4>1, Zenon DEF RowMove
      <4>3. rows' # rows /\ ~ (rows' = rows \ {call[c].row})
        BY <2>2
      <4>4. /\ rows' = rows \cup {c} /\ orm # << >> /\ c = Head(orm)
            /\ call[c].phase = "create"
            /\ call'[c].phase \in {"save", "save again", "done"}
        BY <4>2, <4>3, Zenon
      <4>5. r = c
        BY <2>2, <4>4
      <4> QED BY <4>4, <4>5, Zenon
    <3>2. d # c
      BY <3>1
    <3>3. call[d].phase = "create" /\ call'[d] = call[d]
      BY <1>6, <3>2
    <3>4. PICK k \in 1 .. Len(orm) : orm[k] = d
      BY <1>1, <3>3 DEF OrmInv
    <3>5. 1 \in 1 .. Len(orm) /\ orm[1] = c /\ 1 < k
      <4>1. orm \in Seq(Call)
        BY <1>1
      <4>2. Head(orm) = orm[1]
        BY <3>1, <4>1, HeadFact
      <4>3. Len(orm) \in Nat
        BY <4>1
      <4>4. orm[1] = c
        BY <3>1, <4>2
      <4>5. k # 1
        BY <3>2, <3>4, <4>4
      <4> QED BY <4>3, <4>4, <4>5
    <3>6. call[c].uid < call[d].uid
      <4>1. \A i, j \in 1 .. Len(orm) :
              i < j /\ call[orm[i]].phase = "create" /\ call[orm[j]].phase = "create"
                => call[orm[i]].uid < call[orm[j]].uid
        BY <1>1 DEF OrmInv
      <4> QED BY <3>1, <3>3, <3>4, <3>5, <4>1
    <3>7. call'[c].uid = call[c].uid
      BY <1>1, <3>1 DEF UidMove
    <3> QED BY <3>1, <3>3, <3>6, <3>7
  <2> QED BY <2>1, <2>2
<1> QED BY <1>3, <1>4, <1>5, <1>8, <1>9 DEF OrmInv

LEMMA MoveRemove ==
  ASSUME Inv, NEW c \in Call, Move(c)
  PROVE  RemoveInv'
<1>1. /\ CallMove(c) /\ RowMove(c) /\ UidInv /\ OrmInv /\ RemoveInv /\ TypeOK
      /\ rows \in SUBSET Record /\ c \in Record /\ c # 0
      /\ \A d \in Call : d \in Record /\ call[d].row \in Record \cup {None}
      /\ \A r \in Record : call[r].uid \in Nat
  BY RecordFacts DEF Move, Inv, TypeOK
<1>2. \A r \in Record : Known(r) =>
        KnownNext(r) /\ call'[r].name = call[r].name /\ call'[r].uid = call[r].uid
  BY MoveRecords DEF NameOf
<1>3. \A r \in rows : r \in Record /\ Known(r)
  BY <1>1 DEF UidInv
<1> SUFFICES ASSUME NEW d \in Call, call'[d].phase = "remove"
             PROVE  /\ call'[d].row # None /\ KnownNext(call'[d].row)
                    /\ call'[d].row \in rows' =>
                         /\ call'[call'[d].row].name = call'[d].name
                         /\ \A r \in rows' : call'[r].name = call'[d].name =>
                              call'[call'[d].row].uid <= call'[r].uid
  BY DEF RemoveInv, NameOf, Known, KnownNext
<1>4. CASE d = c
  <2>1. /\ call'[c].row = First(rows, call'[c].name) /\ Named(rows, call'[c].name) # {}
        /\ rows' = rows
    BY <1>1, <1>4 DEF RowMove
  <2>2. /\ call'[c].row \in rows
        /\ call[call'[c].row].name = call'[c].name
        /\ \A q \in rows : call[q].name = call'[c].name => call[call'[c].row].uid <= call[q].uid
    BY <1>1, <2>1, FirstFacts DEF NameOf
  <2> QED BY <1>2, <1>3, <1>4, <2>1, <2>2, AccountsAssumption
<1>5. CASE d # c
  <2>1. call'[d] = call[d] /\ call[d].phase = "remove"
    BY <1>1, <1>5 DEF CallMove
  <2>2. call[d].row \in Record /\ Known(call[d].row)
    BY <1>1, <2>1 DEF RemoveInv
  <2>3. KnownNext(call[d].row) /\ call'[call[d].row].name = call[call[d].row].name
        /\ call'[call[d].row].uid = call[call[d].row].uid
    BY <1>2, <2>2
  <2>4. ASSUME call[d].row \in rows'
        PROVE  /\ call[call[d].row].name = call[d].name
               /\ \A r \in rows' : call'[r].name = call[d].name =>
                    call[call[d].row].uid <= call'[r].uid
    <3>1. call[d].row \in rows
      BY <1>1, <2>2, <2>4 DEF RowMove, Known, KnownNext
    <3>2. /\ call[call[d].row].name = call[d].name
          /\ \A r \in rows : call[r].name = call[d].name => call[call[d].row].uid <= call[r].uid
      BY <1>1, <2>1, <3>1 DEF RemoveInv, NameOf
    <3>3. ASSUME NEW r \in rows', call'[r].name = call[d].name
          PROVE  call[call[d].row].uid <= call'[r].uid
      <4>1. CASE r \in rows
        BY <1>2, <1>3, <3>2, <3>3, <4>1
      <4>2. CASE r \notin rows
        <5>1. r = c /\ call[c].phase = "create" /\ call'[c].phase # "uid"
          BY <1>1, <4>2 DEF RowMove
        <5>2. call'[c].uid = call[c].uid
          BY <5>1 DEF Move, UidMove
        <5>3. call[call[d].row].uid < call[c].uid
          BY <1>1, <3>1, <5>1 DEF OrmInv
        <5> QED BY <1>1, <2>2, <5>1, <5>2, <5>3
      <4> QED BY <4>1, <4>2
    <3> QED BY <3>2, <3>3
  <2> QED BY <2>1, <2>2, <2>3, <2>4, AccountsAssumption
<1> QED BY <1>4, <1>5

LEMMA MoveCall ==
  ASSUME Inv, NEW c \in Call, Move(c)
  PROVE  CallInv'
<1>1. CallMove(c) /\ RecMove(c) /\ CallInv /\ \A d \in Call : d \in Record
  BY RecordFacts DEF Move, Inv
<1>2. ASSUME NEW d \in Call, d # c PROVE call'[d] = call[d]
  BY <1>1, <1>2 DEF CallMove
<1>3. /\ call'[c].phase # "new" /\ call'[c].name \in Name
      /\ call'[c].phase \in {"save", "save again"} =>
           call'[c].rec # None /\ (call'[c].rebuild => call'[c].kind = "login")
      /\ call'[c].phase \in {"find", "write"} /\ call'[c].kind = "login" => call'[c].rec # None
      /\ call'[c].phase \in {"uid", "create"} /\ call'[c].kind = "login" => call'[c].rec = None
  BY <1>1 DEF CallMove, RecMove
<1>4. SUFFICES ASSUME NEW d \in Call
               PROVE  /\ IF call'[d].phase = "new" THEN call'[d].rec = None ELSE call'[d].name \in Name
                      /\ call'[d].phase \in {"save", "save again"} =>
                           call'[d].rec # None /\ (call'[d].rebuild => call'[d].kind = "login")
                      /\ call'[d].phase \in {"find", "write"} /\ call'[d].kind = "login" => call'[d].rec # None
                      /\ call'[d].phase \in {"uid", "create"} /\ call'[d].kind = "login" => call'[d].rec = None
  BY DEF CallInv
<1>5. CASE d = c
  BY <1>3, <1>5, Zenon
<1>6. CASE d # c
  <2>1. call'[d] = call[d]
    BY <1>2, <1>6
  <2> QED BY <1>1, <2>1 DEF CallInv
<1> QED BY <1>5, <1>6

LEMMA MoveName ==
  ASSUME Inv, NEW c \in Call, Move(c)
  PROVE  NameInv'
<1>1. /\ CallMove(c) /\ RecMove(c) /\ MapMove(c) /\ CallInv /\ NameInv
      /\ c \in Record /\ \A d \in Call : d \in Record /\ call[d].rec \in Record \cup {None}
      /\ mapper \in [Name -> Record \cup {None}]
  BY RecordFacts DEF Move, Inv, TypeOK
<1>2. \A r \in Record : Known(r) => KnownNext(r) /\ call'[r].name = call[r].name
  BY MoveRecords DEF NameOf
<1>3. ASSUME NEW n \in Name, mapper[n] # None
      PROVE  /\ mapper[n] \in Record
             /\ KnownNext(mapper[n]) /\ call'[mapper[n]].name = n
  BY <1>1, <1>2, <1>3 DEF NameInv, NameOf
<1>4. ASSUME NEW n \in Name, mapper'[n] # None
      PROVE  KnownNext(mapper'[n]) /\ call'[mapper'[n]].name = n
  <2>1. CASE mapper'[n] = mapper[n]
    BY <1>3, <1>4, <2>1
  <2>2. CASE /\ mapper'[n] = c /\ n = call'[c].name
             /\ call'[c].phase \in {"save", "save again", "done"}
    BY <2>2 DEF KnownNext
  <2>3. CASE mapper'[n] = call[c].rec /\ call[c].phase = "save again" /\ call[c].rebuild
             /\ n = NameOf(call[c].rec)
    <3>1. call[c].rec \in Record /\ Known(call[c].rec)
      BY <1>1, <2>3 DEF CallInv, NameInv
    <3> QED BY <1>2, <2>3, <3>1 DEF NameOf
  <2> QED BY <1>1, <1>4, <2>1, <2>2, <2>3 DEF MapMove
<1>5. ASSUME NEW d \in Call, call'[d].kind = "login", call'[d].rec # None
      PROVE  KnownNext(call'[d].rec) /\ call'[call'[d].rec].name = call'[d].name
  <2>1. CASE d # c
    <3>1. call'[d] = call[d]
      BY <1>1, <2>1 DEF CallMove
    <3>2. call[d].rec \in Record /\ Known(call[d].rec) /\ call[call[d].rec].name = call[d].name
      BY <1>1, <1>5, <3>1 DEF NameInv, NameOf
    <3> QED BY <1>2, <3>1, <3>2
  <2>2. CASE d = c
    <3>1. CASE call[c].phase # "new" /\ call'[c].rec = call[c].rec
      <4>1. call[c].kind = "login" /\ call'[c].name = call[c].name
        BY <1>1, <1>5, <2>2, <3>1 DEF CallMove
      <4>2. call[c].rec \in Record /\ Known(call[c].rec) /\ call[call[c].rec].name = call[c].name
        BY <1>1, <1>5, <2>2, <3>1, <4>1 DEF NameInv, NameOf
      <4> QED BY <1>2, <2>2, <3>1, <4>1, <4>2
    <3>2. CASE call'[c].rec = mapper[call'[c].name]
      BY <1>1, <1>3, <1>5, <2>2, <3>2 DEF CallMove
    <3>3. CASE call'[c].rec = c /\ call'[c].phase \in {"save", "save again", "done"}
      BY <2>2, <3>3 DEF Known, KnownNext
    <3> QED BY <1>1, <1>5, <2>2, <3>1, <3>2, <3>3 DEF RecMove
  <2> QED BY <2>1, <2>2
<1>6. up' \/ arr' = {}
  <2>1. (arr' = arr /\ up' = up) \/ arr' = {} \/ up'
    BY <1>1 DEF MapMove
  <2>2. up \/ arr = {}
    BY <1>1 DEF NameInv
  <2> QED BY <2>1, <2>2
<1> QED BY <1>4, <1>5, <1>6 DEF NameInv, NameOf, Known, KnownNext

LEMMA MoveArray ==
  ASSUME Inv, NEW c \in Call, Move(c)
  PROVE  ArrayStored'
<1>1. /\ MapMove(c) /\ ArrayStored /\ TypeOK
      /\ RemoveInv /\ UidInv /\ rows \in SUBSET Record /\ arr \in SUBSET Record
      /\ call[c].row \in Record \cup {None}
      /\ \A r \in Record : call[r].uid \in Nat
  BY RecordFacts DEF Move, Inv, TypeOK
<1> DEFINE n == call[c].name
           r == call[c].row
<1>2. ASSUME call[c].phase = "remove", rows' = rows \ {r}, Named(arr, n) # {},
             arr' = arr \ {First(arr, n)}, r \in arr
      PROVE  r = First(arr, n)
  <2>1. r \in rows /\ NameOf(r) = n
        /\ \A q \in rows : NameOf(q) = n => call[r].uid <= call[q].uid
    BY <1>1, <1>2 DEF RemoveInv, ArrayStored
  <2>2. /\ First(arr, n) \in arr /\ NameOf(First(arr, n)) = n
        /\ \A q \in arr : NameOf(q) = n => call[First(arr, n)].uid <= call[q].uid
    BY <1>1, <1>2, FirstFacts
  <2>3. call[r].uid = call[First(arr, n)].uid
    <3>1. First(arr, n) \in rows /\ r \in Record /\ First(arr, n) \in Record
      BY <1>1, <2>1, <2>2 DEF ArrayStored
    <3>2. call[r].uid <= call[First(arr, n)].uid /\ call[First(arr, n)].uid <= call[r].uid
      BY <1>2, <2>1, <2>2, <3>1
    <3> QED BY <1>1, <3>1, <3>2
  <2> QED BY <1>1, <2>1, <2>2, <2>3 DEF UidInv, Live, ArrayStored
<1>3. CASE /\ call[c].phase = "remove" /\ rows' = rows \ {r}
           /\ Named(arr, n) # {} /\ arr' = arr \ {First(arr, n)}
  BY <1>1, <1>2, <1>3 DEF ArrayStored
<1>4. CASE /\ call[c].phase = "remove" /\ rows' = rows \ {r}
           /\ Named(arr, n) = {} /\ arr' = arr
  <2>1. r \notin arr
    BY <1>1, <1>4 DEF RemoveInv, ArrayStored, Named
  <2> QED BY <1>1, <1>4, <2>1 DEF ArrayStored
<1> QED BY <1>1, <1>3, <1>4 DEF MapMove, ArrayStored

LEMMA MoveMapper ==
  ASSUME Inv, NEW c \in Call, Move(c)
  PROVE  MapperInArray'
<1>1. /\ MapMove(c) /\ RecMove(c) /\ CallMove(c) /\ MapperInArray /\ NameInv /\ CallInv /\ TypeOK
      /\ arr \in SUBSET Record /\ c \in Record
      /\ \A d \in Call : d \in Record
      /\ mapper \in [Name -> Record \cup {None}]
  BY RecordFacts DEF Move, Inv, TypeOK
<1> SUFFICES ASSUME NEW n \in Name, mapper'[n] # None
             PROVE  \/ mapper'[n] \in arr'
                    \/ \E d \in Call : call'[d].kind = "login" /\ call'[d].rec = mapper'[n]
  BY DEF MapperInArray
<1>2. CASE mapper'[n] = mapper[n]
  <2>1. CASE \E d \in Call : call[d].kind = "login" /\ call[d].rec = mapper[n]
    <3>1. PICK d \in Call : call[d].kind = "login" /\ call[d].rec = mapper[n]
      BY <2>1
    <3>2. CASE d # c
      <4>1. call'[d] = call[d]
        BY <1>1, <3>2 DEF CallMove
      <4> QED BY <1>2, <3>1, <4>1
    <3>3. CASE d = c
      <4>1. call[c].phase # "new" /\ call[c].rec # None
        BY <1>1, <1>2, <3>1, <3>3 DEF CallInv
      <4>2. call'[c].kind = "login"
        BY <1>1, <3>1, <3>3, <4>1 DEF CallMove
      <4>3. call'[c].rec = call[c].rec \/ call'[c].rec = mapper[call[c].name]
        BY <1>1, <3>1, <3>3, <4>1 DEF RecMove
      <4>4. call[c].name = n
        BY <1>1, <1>2, <3>1, <3>3 DEF NameInv
      <4> QED BY <1>2, <3>1, <3>3, <4>2, <4>3, <4>4
    <3> QED BY <3>2, <3>3
  <2>2. CASE mapper[n] \in arr
    <3>1. mapper[n] # None /\ NameOf(mapper[n]) = n
      BY <1>1, <1>2 DEF NameInv
    <3>2. CASE arr \subseteq arr'
      BY <1>2, <2>2, <3>2
    <3>3. CASE arr' = {} /\ (arr = {} \/ \A m \in Name : mapper'[m] = None)
      BY <2>2, <3>3
    <3>4. CASE /\ Named(arr, call[c].name) # {}
               /\ arr' = arr \ {First(arr, call[c].name)}
               /\ mapper'[call[c].name] = None
      <4>1. NameOf(First(arr, call[c].name)) = call[c].name
        BY <1>1, <3>4, FirstFacts
      <4>2. call[c].name # n
        BY <3>4
      <4> QED BY <1>2, <2>2, <3>1, <3>4, <4>1, <4>2
    <3> QED BY <1>1, <3>2, <3>3, <3>4 DEF MapMove
  <2> QED BY <1>1, <1>2, <2>1, <2>2 DEF MapperInArray
<1>3. CASE mapper'[n] = c /\ c \in arr'
  BY <1>3
<1>4. CASE /\ mapper'[n] = call[c].rec /\ call[c].phase = "save again" /\ call[c].rebuild
           /\ call'[c].rec = call[c].rec
  <2>1. call[c].kind = "login" /\ call'[c].kind = "login"
    BY <1>1, <1>4 DEF CallInv, CallMove
  <2> QED BY <1>4, <2>1
<1> QED BY <1>1, <1>2, <1>3, <1>4 DEF MapMove

LEMMA MoveInv ==
  ASSUME Inv, NEW c \in Call, Move(c), TypeOK'
  PROVE  Inv'
<1>1. orm' \in Seq(Call)
  BY DEF TypeOK
<1> QED BY <1>1, MoveUid, MoveOrm, MoveRemove, MoveCall, MoveName, MoveArray, MoveMapper DEF Inv

-----------------------------------------------------------------------------
(* The actions are such steps.  First what they have in common: a step to  *)
(* the fields of an entry, and the requests.                               *)

LEMMA CallEntry ==
  ASSUME TypeOK, NEW c \in Call
  PROVE  /\ call \in [Record -> Entry]
         /\ call[c] \in Entry
BY RecordFacts DEF TypeOK, Entry

LEMMA QueueTypes ==
  ASSUME TypeOK, NEW c \in Call
  PROVE  /\ orm \in Seq(Call) /\ Append(orm, c) \in Seq(Call)
         /\ orm # << >> => Tail(orm) \in Seq(Call) /\ Append(Tail(orm), c) \in Seq(Call)
BY DEF TypeOK

LEMMA CarriedFacts ==
  ASSUME TypeOK, NEW c \in Call, Carried(c)
  PROVE  /\ rows' \in SUBSET Record
         /\ stored' \in [Record -> Nat]
         /\ rows' = IF call[c].phase = "create" THEN rows \cup {c}
                    ELSE IF call[c].phase = "remove" THEN rows \ {call[c].row} ELSE rows
<1>1. c \in Record /\ call[c].sent \in Nat /\ rows \in SUBSET Record /\ stored \in [Record -> Nat]
  BY RecordFacts DEF TypeOK
<1>2. CASE call[c].phase = "create"
  BY <1>1, <1>2 DEF Carried
<1>3. CASE call[c].phase \in {"write", "save", "save again"}
  <2>1. call[c].phase # "create" /\ call[c].phase # "remove"
    BY <1>3
  <2>2. rows' = rows /\ stored' \in [Record -> Nat]
    BY <1>1, <1>3, <2>1 DEF Carried
  <2> QED BY <1>1, <2>1, <2>2
<1>4. CASE call[c].phase = "remove"
  BY <1>1, <1>4 DEF Carried
<1>5. CASE call[c].phase \notin {"create", "write", "save", "save again", "remove"}
  BY <1>1, <1>5 DEF Carried
<1> QED BY <1>2, <1>3, <1>4, <1>5

-----------------------------------------------------------------------------
LEMMA RegisterMove ==
  ASSUME Inv, NEW c \in Call, NEW n \in Name, AccountRegister(c, n)
  PROVE  TypeOK' /\ Move(c)
<1> DEFINE b == New("register", n)
<1>1. TypeOK /\ CallInv /\ NameInv /\ Register(c, b) /\ call[c].phase = "new" /\ up
  BY DEF Inv, AccountRegister, Comes
<1>2. b \in Entry /\ b.kind = "register" /\ b.name = n /\ b.rec = None /\ b.rebuild = FALSE
  BY NewEntry DEF New, Kind
<1> HIDE DEF b
<1>3. /\ call' \in [Record -> Entry]
      /\ answer' \in [Call -> {"none", "ok", "error"}]
      /\ \A s \in Record : s # c => call'[s] = call[s]
  BY <1>1, <1>2, RegisterFacts
<1>4. /\ call'[c].kind = "register" /\ call'[c].name = n
      /\ \/ call'[c].phase = "uid" /\ call'[c].uid = count + 1 /\ count' = count + 1
         \/ call'[c].phase = "done" /\ count' = count
  BY <1>1, <1>2, RegisterFacts
<1>5. count' \in Nat
  BY <1>1, <1>4 DEF TypeOK
<1>6. UNCHANGED <<up, restarts, orm, rows, stored, arr, mapper, value, dbCount>>
  BY DEF AccountRegister, memory
<1>7. TypeOK'
  BY <1>1, <1>3, <1>5, <1>6 DEF TypeOK, Entry
<1>8. CallMove(c) /\ UidMove(c)
  BY <1>1, <1>3, <1>4, <1>6 DEF CallMove, UidMove, Known
<1>9. OrmMove(c) /\ RowMove(c) /\ RecMove(c)
  BY <1>1, <1>4, <1>6 DEF OrmMove, RowMove, RecMove, CallInv, OrmPhase
<1>10. MapMove(c)
  BY <1>1, <1>6 DEF MapMove
<1> QED BY <1>7, <1>8, <1>9, <1>10 DEF Move

LEMMA ChangeMove ==
  ASSUME Inv, NEW c \in Call, NEW n \in Name, AccountChange(c, n)
  PROVE  TypeOK' /\ Move(c)
<1> DEFINE b == New("change", n)
<1>1. /\ TypeOK /\ CallInv /\ NameInv /\ call[c].phase = "new" /\ up
      /\ mapper \in [Name -> Record \cup {None}]
  BY DEF Inv, AccountChange, Comes, TypeOK
<1>2. b \in Entry /\ b.kind = "change" /\ b.name = n /\ b.rec = None /\ b.rebuild = FALSE
  BY NewEntry DEF New, Kind
<1>3. UNCHANGED <<up, restarts, rows, stored, arr, mapper, count, dbCount>>
  BY DEF AccountChange
<1>4. \/ mapper[n] # None /\ Sync(c, b, mapper[n], mapper, orm)
      \/ Done(c, b, "error") /\ UNCHANGED <<value, orm>>
  BY DEF AccountChange
<1> HIDE DEF b
<1>5. /\ call' \in [Record -> Entry]
      /\ answer' \in [Call -> {"none", "ok", "error"}]
      /\ value' \in [Record -> Nat]
      /\ \A s \in Record : s # c => call'[s] = call[s]
      /\ call'[c].kind = "change" /\ call'[c].name = n
      /\ \/ /\ call'[c].phase = "save" /\ call'[c].rec # None /\ call'[c].rebuild = FALSE
            /\ orm' = Append(orm, c)
         \/ call'[c].phase = "done" /\ orm' = orm
  <2>1. CASE mapper[n] # None /\ Sync(c, b, mapper[n], mapper, orm)
    <3>1. mapper[n] \in Record /\ mapper[NameOf(mapper[n])] = mapper[n]
      BY <1>1, <2>1 DEF NameInv
    <3>2. orm \in Seq(Call)
      BY <1>1 DEF TypeOK
    <3> QED BY <1>1, <1>2, <2>1, <3>1, <3>2, SyncFacts DEF At
  <2>2. CASE Done(c, b, "error") /\ UNCHANGED <<value, orm>>
    <3>1. value' \in [Record -> Nat]
      BY <1>1, <2>2 DEF TypeOK
    <3> QED BY <1>1, <1>2, <2>2, <3>1, DoneAt DEF At
  <2> QED BY <1>4, <2>1, <2>2
<1>6. orm' \in Seq(Call)
  BY <1>1, <1>5, QueueTypes
<1>7. TypeOK'
  BY <1>1, <1>3, <1>5, <1>6 DEF TypeOK, Entry
<1>8. CallMove(c) /\ UidMove(c)
  BY <1>1, <1>3, <1>5 DEF CallMove, UidMove, Known
<1>9. OrmMove(c) /\ RowMove(c) /\ RecMove(c)
  BY <1>1, <1>3, <1>5 DEF OrmMove, RowMove, RecMove, CallInv, OrmPhase
<1>10. MapMove(c)
  BY <1>1, <1>3 DEF MapMove
<1> QED BY <1>7, <1>8, <1>9, <1>10 DEF Move

LEMMA LoginMove ==
  ASSUME Inv, NEW c \in Call, NEW n \in Name, AccountLogin(c, n)
  PROVE  TypeOK' /\ Move(c)
<1> DEFINE b == [New("login", n) EXCEPT !.rec = mapper[n]]
<1>1. /\ TypeOK /\ CallInv /\ NameInv /\ call[c].phase = "new" /\ up
      /\ mapper \in [Name -> Record \cup {None}]
  BY DEF Inv, AccountLogin, Comes, TypeOK
<1>2. b \in Entry /\ b.kind = "login" /\ b.name = n /\ b.rec = mapper[n]
  BY <1>1 DEF New, Kind, Entry, Phase
<1>3. UNCHANGED <<up, restarts, answer, orm, rows, stored, arr, mapper, value, count, dbCount>>
  BY DEF AccountLogin, memory
<1>4. Step(c, b, "auth")
  BY DEF AccountLogin
<1> HIDE DEF b
<1>5. /\ call' \in [Record -> Entry]
      /\ \A s \in Record : s # c => call'[s] = call[s]
      /\ At(call'[c], b, "auth")
  <2>1. "auth" \in Phase
    BY DEF Phase
  <2> QED BY <1>1, <1>2, <1>4, <2>1, StepAt
<1>7. TypeOK'
  BY <1>1, <1>3, <1>5 DEF TypeOK, Entry
<1>8. CallMove(c) /\ UidMove(c)
  BY <1>1, <1>2, <1>3, <1>5 DEF CallMove, UidMove, Known, At
<1>9. OrmMove(c) /\ RowMove(c) /\ RecMove(c)
  BY <1>1, <1>2, <1>3, <1>5 DEF OrmMove, RowMove, RecMove, CallInv, OrmPhase, At
<1>10. MapMove(c)
  BY <1>1, <1>3 DEF MapMove
<1> QED BY <1>7, <1>8, <1>9, <1>10 DEF Move

LEMMA UpdateMove ==
  ASSUME Inv, NEW c \in Call, NEW n \in Name, AccountUpdate(c, n)
  PROVE  TypeOK' /\ Move(c)
<1> DEFINE b == New("update", n)
<1>1. TypeOK /\ CallInv /\ NameInv /\ call[c].phase = "new" /\ up
  BY DEF Inv, AccountUpdate, Comes
<1>2. b \in Entry /\ b.kind = "update" /\ b.name = n /\ b.rec = None
  BY NewEntry DEF New, Kind
<1>3. UNCHANGED <<up, restarts, rows, stored, arr, mapper, count, dbCount>>
  BY DEF AccountUpdate
<1>4. Update(c, b)
  BY DEF AccountUpdate
<1> HIDE DEF b
<1>5. /\ call' \in [Record -> Entry]
      /\ answer' \in [Call -> {"none", "ok", "error"}]
      /\ value' \in [Record -> Nat]
      /\ \A s \in Record : s # c => call'[s] = call[s]
      /\ \/ At(call'[c], b, "find") /\ orm' = Append(orm, c)
         \/ At(call'[c], b, "done") /\ orm' = orm
  BY <1>1, <1>2, <1>4, UpdateFacts
<1>6. /\ call'[c].kind = "update" /\ call'[c].name = n
      /\ \/ call'[c].phase = "find" /\ orm' = Append(orm, c)
         \/ call'[c].phase = "done" /\ orm' = orm
  BY <1>2, <1>5 DEF At
<1>7. orm' \in Seq(Call)
  BY <1>1, <1>5, QueueTypes
<1>8. TypeOK'
  BY <1>1, <1>3, <1>5, <1>7 DEF TypeOK, Entry
<1>9. CallMove(c) /\ UidMove(c)
  BY <1>1, <1>3, <1>5, <1>6 DEF CallMove, UidMove, Known
<1>10. OrmMove(c) /\ RowMove(c) /\ RecMove(c)
  BY <1>1, <1>3, <1>6 DEF OrmMove, RowMove, RecMove, CallInv, OrmPhase
<1>11. MapMove(c)
  BY <1>1, <1>3 DEF MapMove
<1> QED BY <1>8, <1>9, <1>10, <1>11 DEF Move

LEMMA DeleteMove ==
  ASSUME Inv, NEW c \in Call, NEW n \in Name, AccountDelete(c, n)
  PROVE  TypeOK' /\ Move(c)
<1> DEFINE b == New("delete", n)
<1>1. TypeOK /\ CallInv /\ NameInv /\ call[c].phase = "new" /\ up
  BY DEF Inv, AccountDelete, Comes
<1>2. b \in Entry /\ b.kind = "delete" /\ b.name = n /\ b.rec = None
  BY NewEntry DEF New, Kind
<1>3. UNCHANGED <<up, restarts, rows, stored, arr, mapper, value, count, dbCount>>
  BY DEF AccountDelete, memory
<1>4. \/ Step(c, b, "lookup") /\ orm' = Append(orm, c) /\ UNCHANGED answer
      \/ Done(c, b, "error") /\ UNCHANGED orm
  BY DEF AccountDelete
<1> HIDE DEF b
<1>5. /\ call' \in [Record -> Entry]
      /\ answer' \in [Call -> {"none", "ok", "error"}]
      /\ \A s \in Record : s # c => call'[s] = call[s]
      /\ \/ At(call'[c], b, "lookup") /\ orm' = Append(orm, c)
         \/ At(call'[c], b, "done") /\ orm' = orm
  <2>1. CASE Step(c, b, "lookup") /\ orm' = Append(orm, c) /\ UNCHANGED answer
    <3>1. answer' \in [Call -> {"none", "ok", "error"}] /\ "lookup" \in Phase
      BY <1>1, <2>1 DEF TypeOK, Phase, OrmPhase
    <3> QED BY <1>1, <1>2, <2>1, <3>1, StepAt
  <2>2. CASE Done(c, b, "error") /\ UNCHANGED orm
    BY <1>1, <1>2, <2>2, DoneAt
  <2> QED BY <1>4, <2>1, <2>2
<1>7. orm' \in Seq(Call)
  BY <1>1, <1>5, QueueTypes
<1>8. TypeOK'
  BY <1>1, <1>3, <1>5, <1>7 DEF TypeOK, Entry
<1>9. CallMove(c) /\ UidMove(c)
  BY <1>1, <1>2, <1>3, <1>5 DEF CallMove, UidMove, Known, At
<1>10. OrmMove(c) /\ RowMove(c) /\ RecMove(c)
  BY <1>1, <1>2, <1>3, <1>5 DEF OrmMove, RowMove, RecMove, CallInv, OrmPhase, At
<1>11. MapMove(c)
  BY <1>1, <1>3 DEF MapMove
<1> QED BY <1>8, <1>9, <1>10, <1>11 DEF Move

\* What the actions of answers rest on.
LEMMA Basics ==
  ASSUME Inv, NEW c \in Call
  PROVE  /\ TypeOK /\ CallInv /\ NameInv /\ call[c] \in Entry
         /\ call[c].phase # "new" => call[c].name \in Name
         /\ rows \in SUBSET Record /\ arr \in SUBSET Record
         /\ mapper \in [Name -> Record \cup {None}]
         /\ c \in Record
BY CallEntry, RecordFacts DEF Inv, CallInv, TypeOK

LEMMA FailedMove ==
  ASSUME Inv, NEW c \in Call, Failed(c)
  PROVE  TypeOK' /\ Move(c)
<1> DEFINE b == call[c]
           a == IF call[c].kind = "delete" THEN "none" ELSE "error"
<1>1. /\ TypeOK /\ CallInv /\ NameInv /\ b \in Entry
      /\ call[c].phase # "new" => call[c].name \in Name
  BY Basics
<1>2. UNCHANGED <<up, restarts, rows, stored, arr, mapper, value, count, dbCount>>
  BY DEF Failed, memory
<1>3. /\ call[c].phase # "new"
      /\ \/ call[c].phase \notin OrmPhase /\ orm' = orm
         \/ orm # << >> /\ c = Head(orm) /\ orm' = Tail(orm)
  BY DEF Failed, UidTurn, OrmTurn, OrmPhase
<1>4. /\ call' \in [Record -> Entry]
      /\ answer' \in [Call -> {"none", "ok", "error"}]
      /\ \A s \in Record : s # c => call'[s] = call[s]
      /\ At(call'[c], b, "done")
  <2>1. a \in {"none", "ok", "error"} /\ Done(c, b, a)
    BY DEF Failed
  <2> HIDE DEF a
  <2> QED BY <1>1, <2>1, DoneAt
<1>5. orm' \in Seq(Call)
  BY <1>1, <1>3, QueueTypes DEF TypeOK
<1>6. TypeOK'
  BY <1>1, <1>2, <1>4, <1>5 DEF TypeOK, Entry
<1>7. CallMove(c) /\ UidMove(c)
  BY <1>1, <1>2, <1>3, <1>4 DEF CallMove, UidMove, Known, At
<1>8. OrmMove(c) /\ RowMove(c) /\ RecMove(c)
  BY <1>1, <1>2, <1>3, <1>4 DEF OrmMove, RowMove, RecMove, OrmPhase, At
<1>9. MapMove(c)
  BY <1>2 DEF MapMove
<1> QED BY <1>6, <1>7, <1>8, <1>9 DEF Move

LEMMA UidStoredMove ==
  ASSUME Inv, NEW c \in Call, UidStored(c)
  PROVE  TypeOK' /\ Move(c)
<1> DEFINE b == call[c]
<1>1. /\ TypeOK /\ CallInv /\ NameInv /\ b \in Entry
      /\ call[c].phase # "new" => call[c].name \in Name
  BY Basics
<1>2. UNCHANGED <<up, restarts, answer, rows, stored, arr, mapper, value, count>>
  BY DEF UidStored, memory
<1>3. UidTurn(c) /\ call[c].phase = "uid" /\ dbCount' = call[c].uid /\ orm' = Append(orm, c)
  BY DEF UidStored, UidTurn
<1>4. /\ call' \in [Record -> Entry]
      /\ \A s \in Record : s # c => call'[s] = call[s]
      /\ At(call'[c], b, "create")
  <2>1. "create" \in Phase /\ Step(c, b, "create")
    BY DEF UidStored, Phase, OrmPhase
  <2> QED BY <1>1, <2>1, StepAt
<1>5. orm' \in Seq(Call) /\ dbCount' \in Nat
  BY <1>1, <1>3, QueueTypes DEF Entry
<1>6. TypeOK'
  BY <1>1, <1>2, <1>4, <1>5 DEF TypeOK, Entry
<1>7. CallMove(c) /\ UidMove(c)
  BY <1>1, <1>2, <1>3, <1>4 DEF CallMove, UidMove, Known, At
<1>8. OrmMove(c) /\ RowMove(c) /\ RecMove(c)
  BY <1>1, <1>2, <1>3, <1>4 DEF OrmMove, RowMove, RecMove, CallInv, OrmPhase, At
<1>9. MapMove(c)
  BY <1>2 DEF MapMove
<1> QED BY <1>6, <1>7, <1>8, <1>9 DEF Move

LEMMA CreatedMove ==
  ASSUME Inv, NEW c \in Call, Created(c)
  PROVE  TypeOK' /\ Move(c)
<1> DEFINE b == call[c]
           m == [mapper EXCEPT ![call[c].name] = c]
<1>1. /\ TypeOK /\ CallInv /\ NameInv /\ b \in Entry /\ b.name \in Name
      /\ rows \in SUBSET Record /\ arr \in SUBSET Record
      /\ mapper \in [Name -> Record \cup {None}] /\ c \in Record
  BY Basics DEF Created, OrmTurn
<1>2. /\ up /\ call[c].phase = "create" /\ orm # << >> /\ c = Head(orm)
      /\ arr' = arr \cup {c} /\ mapper' = m
      /\ UNCHANGED <<up, restarts, count, dbCount>>
  BY DEF Created, OrmTurn
<1>3. rows' = rows \cup {c} /\ stored' \in [Record -> Nat]
  BY <1>1, <1>2, CarriedFacts DEF Created
<1>4. m \in [Name -> Record \cup {None}] /\ m[b.name] = c
      /\ \A n \in Name : n # b.name => m[n] = mapper[n]
  BY <1>1
<1>5. Tail(orm) \in Seq(Call) /\ Append(Tail(orm), c) \in Seq(Call)
  BY <1>1, <1>2, QueueTypes
<1>6. \/ call[c].kind = "register" /\ Done(c, b, "ok") /\ orm' = Tail(orm) /\ UNCHANGED value
      \/ call[c].kind = "login" /\ Sync(c, b, c, m, Tail(orm))
  BY DEF Created
<1>7. c # None
  BY <1>1, AccountsAssumption
<1> HIDE DEF m
<1>8. /\ call' \in [Record -> Entry]
      /\ answer' \in [Call -> {"none", "ok", "error"}]
      /\ value' \in [Record -> Nat]
      /\ \A s \in Record : s # c => call'[s] = call[s]
      /\ call'[c].kind = b.kind /\ call'[c].name = b.name /\ call'[c].uid = b.uid
      /\ \/ /\ call'[c].phase = "save" /\ call'[c].rec = c /\ call'[c].rebuild = FALSE
            /\ orm' = Append(Tail(orm), c)
         \/ call'[c].phase = "done" /\ orm' = Tail(orm) /\ call'[c].rec = b.rec
  <2>1. CASE Done(c, b, "ok") /\ orm' = Tail(orm) /\ UNCHANGED value
    <3>1. value' \in [Record -> Nat]
      BY <1>1, <2>1 DEF TypeOK
    <3> QED BY <1>1, <2>1, <3>1, DoneAt DEF At
  <2>2. CASE Sync(c, b, c, m, Tail(orm))
    <3>1. m[NameOf(c)] # None
      BY <1>1, <1>4, <1>7 DEF NameOf
    <3>2. /\ call' \in [Record -> Entry]
          /\ answer' \in [Call -> {"none", "ok", "error"}]
          /\ value' \in [Record -> Nat]
          /\ \A s \in Record : s # c => call'[s] = call[s]
          /\ \/ /\ call'[c].phase = "save" /\ call'[c].rec = c
                /\ call'[c].kind = b.kind /\ call'[c].name = b.name /\ call'[c].uid = b.uid
                /\ call'[c].rebuild => m[NameOf(c)] = None
                /\ orm' = Append(Tail(orm), c)
             \/ At(call'[c], b, "done") /\ orm' = Tail(orm)
      <4>1. /\ TypeOK /\ b \in Entry /\ c \in Record /\ Tail(orm) \in Seq(Call)
            /\ m \in [Name -> Record \cup {None}]
        BY <1>1, <1>4, <1>5
      <4> HIDE DEF b
      <4> QED BY <2>2, <4>1, SyncFacts
    <3>3. call'[c].rebuild \in BOOLEAN
      BY <1>1, <3>2 DEF Entry
    <3> QED BY <3>1, <3>2, <3>3 DEF At
  <2> QED BY <1>6, <2>1, <2>2
<1>9. TypeOK'
  BY <1>1, <1>2, <1>3, <1>4, <1>5, <1>8 DEF TypeOK, Entry
<1>10. CallMove(c) /\ UidMove(c)
  BY <1>1, <1>2, <1>8 DEF CallMove, UidMove, Known
<1>11. OrmMove(c) /\ RowMove(c)
  BY <1>1, <1>2, <1>3, <1>8 DEF OrmMove, RowMove, OrmPhase
<1>12. RecMove(c)
  <2>1. call[c].kind = "login" => call[c].rec = None
    BY <1>1, <1>2 DEF CallInv
  <2> QED BY <1>2, <1>7, <1>8, <2>1 DEF RecMove
<1>13. MapMove(c)
  BY <1>1, <1>2, <1>3, <1>4, <1>8 DEF MapMove
<1> QED BY <1>9, <1>10, <1>11, <1>12, <1>13 DEF Move

LEMMA AuthenticatedMove ==
  ASSUME Inv, NEW c \in Call, Authenticated(c)
  PROVE  TypeOK' /\ Move(c)
<1> DEFINE b == call[c]
<1>1. /\ TypeOK /\ CallInv /\ b \in Entry
      /\ call[c].phase = "auth" /\ up /\ call[c].name \in Name
      /\ orm \in Seq(Call) /\ Append(orm, c) \in Seq(Call)
  BY Basics, QueueTypes DEF Authenticated
<1>2. UNCHANGED <<up, restarts, rows, stored, arr, mapper, dbCount>>
  BY DEF Authenticated
<1>3. \/ call[c].rec # None /\ Update(c, b) /\ UNCHANGED count
      \/ call[c].rec = None /\ Register(c, b) /\ UNCHANGED <<value, orm>>
  BY DEF Authenticated
<1>4. /\ call' \in [Record -> Entry]
      /\ answer' \in [Call -> {"none", "ok", "error"}]
      /\ value' \in [Record -> Nat]
      /\ \A s \in Record : s # c => call'[s] = call[s]
      /\ call'[c].kind = b.kind /\ call'[c].name = b.name /\ call'[c].rec = b.rec
      /\ \/ /\ call[c].rec # None /\ call'[c].phase = "find" /\ call'[c].uid = b.uid
            /\ orm' = Append(orm, c) /\ count' = count
         \/ call'[c].phase = "done" /\ orm' = orm /\ count' = count /\ call'[c].uid = b.uid
         \/ /\ call[c].rec = None /\ call'[c].phase = "uid" /\ call'[c].uid = count + 1
            /\ orm' = orm /\ count' = count + 1
  <2>1. CASE call[c].rec # None /\ Update(c, b) /\ UNCHANGED count
    BY <1>1, <2>1, UpdateFacts DEF At
  <2>2. CASE call[c].rec = None /\ Register(c, b) /\ UNCHANGED <<value, orm>>
    <3>1. value' \in [Record -> Nat]
      BY <1>1, <2>2 DEF TypeOK
    <3> QED BY <1>1, <2>2, <3>1, RegisterFacts
  <2> QED BY <1>3, <2>1, <2>2
<1>5. orm' \in Seq(Call) /\ count' \in Nat
  <2>1. count \in Nat /\ count + 1 \in Nat
    BY <1>1 DEF TypeOK
  <2>2. count' = count \/ count' = count + 1
    BY <1>4
  <2>3. orm' = orm \/ orm' = Append(orm, c)
    BY <1>4
  <2>4. orm' \in Seq(Call)
    BY <1>1, <2>3
  <2> QED BY <2>1, <2>2, <2>4
<1>6. TypeOK'
  BY <1>1, <1>2, <1>4, <1>5 DEF TypeOK, Entry
<1>7. CallMove(c) /\ UidMove(c)
  BY <1>1, <1>2, <1>4 DEF CallMove, UidMove, Known
<1>8. OrmMove(c) /\ RowMove(c) /\ RecMove(c)
  BY <1>1, <1>2, <1>4 DEF OrmMove, RowMove, RecMove, OrmPhase
<1>9. MapMove(c)
  BY <1>2 DEF MapMove
<1> QED BY <1>6, <1>7, <1>8, <1>9 DEF Move

LEMMA FoundMove ==
  ASSUME Inv, NEW c \in Call, Found(c)
  PROVE  TypeOK' /\ Move(c)
<1> DEFINE b == call[c]
           r == First(rows, call[c].name)
<1>1. /\ TypeOK /\ CallInv /\ b \in Entry
      /\ call[c].phase = "find" /\ up /\ call[c].name \in Name
      /\ orm # << >> /\ c = Head(orm)
      /\ Tail(orm) \in Seq(Call) /\ Append(Tail(orm), c) \in Seq(Call)
  BY Basics, QueueTypes DEF Found, OrmTurn
<1>2. UNCHANGED <<up, restarts, rows, stored, arr, mapper, value, count, dbCount>>
  BY DEF Found, memory
<1>3. r \in Record \cup {None}
  BY <1>1, FirstTypes, Basics
<1>4. \/ /\ r # None /\ call' = [call EXCEPT ![c].phase = "write", ![c].row = r]
         /\ orm' = Append(Tail(orm), c) /\ UNCHANGED answer
      \/ Done(c, b, "error") /\ orm' = Tail(orm)
  BY DEF Found
<1> HIDE DEF r
<1>5. /\ call' \in [Record -> Entry]
      /\ answer' \in [Call -> {"none", "ok", "error"}]
      /\ \A s \in Record : s # c => call'[s] = call[s]
      /\ call'[c].kind = b.kind /\ call'[c].name = b.name /\ call'[c].rec = b.rec
      /\ call'[c].uid = b.uid
      /\ \/ call'[c].phase = "write" /\ orm' = Append(Tail(orm), c)
         \/ call'[c].phase = "done" /\ orm' = Tail(orm)
  <2>1. CASE /\ r # None /\ call' = [call EXCEPT ![c].phase = "write", ![c].row = r]
             /\ orm' = Append(Tail(orm), c) /\ UNCHANGED answer
    <3> DEFINE e == [b EXCEPT !.phase = "write", !.row = r]
    <3>1. e \in Entry
      BY <1>1, <1>3 DEF Entry, Phase, OrmPhase
    <3>2. /\ e.phase = "write" /\ e.kind = b.kind /\ e.name = b.name /\ e.rec = b.rec
          /\ e.uid = b.uid
      BY <1>1 DEF Entry
    <3>3. call' = [call EXCEPT ![c] = e]
      BY <1>1, <2>1, CallEntry
    <3>4. answer' \in [Call -> {"none", "ok", "error"}]
      BY <1>1, <2>1 DEF TypeOK
    <3> HIDE DEF e
    <3>5. /\ call' \in [Record -> Entry] /\ call'[c] = e
          /\ \A s \in Record : s # c => call'[s] = call[s]
      BY <1>1, <3>1, <3>3, Put
    <3> QED BY <2>1, <3>2, <3>4, <3>5
  <2>2. CASE Done(c, b, "error") /\ orm' = Tail(orm)
    BY <1>1, <2>2, DoneAt DEF At
  <2> QED BY <1>4, <2>1, <2>2
<1>6. TypeOK'
  BY <1>1, <1>2, <1>5 DEF TypeOK, Entry
<1>7. CallMove(c) /\ UidMove(c)
  BY <1>1, <1>2, <1>5 DEF CallMove, UidMove, Known
<1>8. OrmMove(c) /\ RowMove(c) /\ RecMove(c)
  BY <1>1, <1>2, <1>5 DEF OrmMove, RowMove, RecMove, CallInv, OrmPhase
<1>9. MapMove(c)
  BY <1>2 DEF MapMove
<1> QED BY <1>6, <1>7, <1>8, <1>9 DEF Move

LEMMA WrittenMove ==
  ASSUME Inv, NEW c \in Call, Written(c)
  PROVE  TypeOK' /\ Move(c)
<1> DEFINE b == call[c]
           r == IF mapper[call[c].name] # None THEN mapper[call[c].name] ELSE call[c].rec
<1>1. /\ TypeOK /\ CallInv /\ b \in Entry
      /\ call[c].phase = "write" /\ up /\ call[c].name \in Name
      /\ orm # << >> /\ c = Head(orm)
      /\ Tail(orm) \in Seq(Call) /\ Append(Tail(orm), c) \in Seq(Call)
      /\ mapper \in [Name -> Record \cup {None}]
  BY Basics, QueueTypes DEF Written, OrmTurn
<1>2. UNCHANGED <<up, restarts, arr, mapper, count, dbCount>>
  BY DEF Written
<1>3. rows' = rows /\ stored' \in [Record -> Nat]
  BY <1>1, CarriedFacts DEF Written
<1>4. \/ call[c].kind = "update" /\ Done(c, b, "ok") /\ orm' = Tail(orm) /\ UNCHANGED value
      \/ call[c].kind = "login" /\ Sync(c, b, r, mapper, Tail(orm))
  BY DEF Written
<1>5. call[c].kind = "login" => r \in Record /\ (r = mapper[call[c].name] \/ r = call[c].rec)
  BY <1>1 DEF CallInv, Entry
<1> HIDE DEF r
<1>6. /\ call' \in [Record -> Entry]
      /\ answer' \in [Call -> {"none", "ok", "error"}]
      /\ value' \in [Record -> Nat]
      /\ \A s \in Record : s # c => call'[s] = call[s]
      /\ call'[c].kind = b.kind /\ call'[c].name = b.name /\ call'[c].uid = b.uid
      /\ \/ /\ call[c].kind = "login" /\ call'[c].phase = "save" /\ call'[c].rec = r
            /\ orm' = Append(Tail(orm), c)
         \/ call'[c].phase = "done" /\ call'[c].rec = b.rec /\ orm' = Tail(orm)
  <2>1. CASE Done(c, b, "ok") /\ orm' = Tail(orm) /\ UNCHANGED value
    <3>1. value' \in [Record -> Nat]
      BY <1>1, <2>1 DEF TypeOK
    <3> QED BY <1>1, <2>1, <3>1, DoneAt DEF At
  <2>2. CASE call[c].kind = "login" /\ Sync(c, b, r, mapper, Tail(orm))
    <3>1. /\ TypeOK /\ b \in Entry /\ r \in Record /\ Tail(orm) \in Seq(Call)
          /\ mapper \in [Name -> Record \cup {None}]
      BY <1>1, <1>5, <2>2
    <3>2. /\ call' \in [Record -> Entry]
          /\ answer' \in [Call -> {"none", "ok", "error"}]
          /\ value' \in [Record -> Nat]
          /\ \A s \in Record : s # c => call'[s] = call[s]
          /\ \/ /\ call'[c].phase = "save" /\ call'[c].rec = r
                /\ call'[c].kind = b.kind /\ call'[c].name = b.name /\ call'[c].uid = b.uid
                /\ call'[c].rebuild => mapper[NameOf(r)] = None
                /\ orm' = Append(Tail(orm), c)
             \/ At(call'[c], b, "done") /\ orm' = Tail(orm)
      <4> HIDE DEF b
      <4> QED BY <2>2, <3>1, SyncFacts
    <3> QED BY <2>2, <3>2 DEF At
  <2> QED BY <1>4, <2>1, <2>2
<1>7. TypeOK'
  BY <1>1, <1>2, <1>3, <1>6 DEF TypeOK, Entry
<1>8. CallMove(c) /\ UidMove(c)
  BY <1>1, <1>2, <1>6 DEF CallMove, UidMove, Known
<1>9. OrmMove(c) /\ RowMove(c)
  BY <1>1, <1>3, <1>6 DEF OrmMove, RowMove, OrmPhase
<1>10. RecMove(c)
  <2>1. r # None \/ call[c].kind # "login"
    BY <1>5, AccountsAssumption
  <2> QED BY <1>1, <1>5, <1>6, <2>1 DEF RecMove
<1>11. MapMove(c)
  BY <1>2, <1>3 DEF MapMove
<1> QED BY <1>7, <1>8, <1>9, <1>10, <1>11 DEF Move

LEMMA SavedMove ==
  ASSUME Inv, NEW c \in Call, Saved(c)
  PROVE  TypeOK' /\ Move(c)
<1> DEFINE b == call[c]
           e == [b EXCEPT !.phase = "save again", !.sent = value[call[c].rec]]
<1>1. /\ TypeOK /\ CallInv /\ b \in Entry
      /\ call[c].phase = "save" /\ up /\ call[c].name \in Name
      /\ orm # << >> /\ c = Head(orm)
      /\ Append(Tail(orm), c) \in Seq(Call)
  BY Basics, QueueTypes DEF Saved, OrmTurn
<1>2. UNCHANGED <<up, restarts, answer, arr, mapper, value, count, dbCount>>
      /\ orm' = Append(Tail(orm), c)
  BY DEF Saved, memory
<1>3. rows' = rows /\ stored' \in [Record -> Nat]
  BY <1>1, CarriedFacts DEF Saved
<1>4. value[call[c].rec] \in Nat
  BY <1>1 DEF CallInv, TypeOK, Entry
<1>5. e \in Entry
  BY <1>1, <1>4 DEF Entry, Phase, OrmPhase
<1>6. /\ e.phase = "save again" /\ e.kind = b.kind /\ e.name = b.name /\ e.rec = b.rec
      /\ e.uid = b.uid /\ e.rebuild = b.rebuild
  BY <1>1 DEF Entry
<1>7. call' = [call EXCEPT ![c] = e]
  BY <1>1, CallEntry DEF Saved
<1> HIDE DEF e
<1>8. call' \in [Record -> Entry] /\ call'[c] = e /\ \A s \in Record : s # c => call'[s] = call[s]
  BY <1>1, <1>5, <1>7, Put
<1>9. TypeOK'
  BY <1>1, <1>2, <1>3, <1>8 DEF TypeOK, Entry
<1>10. CallMove(c) /\ UidMove(c)
  BY <1>1, <1>2, <1>6, <1>8 DEF CallMove, UidMove, Known
<1>11. OrmMove(c) /\ RowMove(c)
  BY <1>1, <1>2, <1>3, <1>6, <1>8 DEF OrmMove, RowMove, OrmPhase
<1>12. RecMove(c)
  BY <1>1, <1>6, <1>8 DEF RecMove, CallInv
<1>13. MapMove(c)
  BY <1>2, <1>3 DEF MapMove
<1> QED BY <1>9, <1>10, <1>11, <1>12, <1>13 DEF Move

LEMMA SavedAgainMove ==
  ASSUME Inv, NEW c \in Call, SavedAgain(c)
  PROVE  TypeOK' /\ Move(c)
<1> DEFINE b == call[c]
           r == call[c].rec
<1>1. /\ TypeOK /\ CallInv /\ NameInv /\ b \in Entry
      /\ call[c].phase = "save again" /\ up /\ call[c].name \in Name
      /\ orm # << >> /\ c = Head(orm) /\ Tail(orm) \in Seq(Call)
      /\ mapper \in [Name -> Record \cup {None}]
  BY Basics, QueueTypes DEF SavedAgain, OrmTurn
<1>2. UNCHANGED <<up, restarts, arr, value, count, dbCount>> /\ orm' = Tail(orm)
  BY DEF SavedAgain
<1>3. rows' = rows /\ stored' \in [Record -> Nat]
  <2>1. Carried(c) \/ UNCHANGED <<rows, stored>>
    BY DEF SavedAgain
  <2>2. stored \in [Record -> Nat]
    BY <1>1 DEF TypeOK
  <2> QED BY <1>1, <2>1, <2>2, CarriedFacts
<1>4. r \in Record /\ (call[c].rebuild => call[c].kind = "login" /\ NameOf(r) = call[c].name)
  BY <1>1 DEF CallInv, NameInv, Entry
<1>5. \/ mapper' = mapper
      \/ call[c].rebuild /\ mapper' = [mapper EXCEPT ![NameOf(r)] = r]
  BY DEF SavedAgain
<1>6. /\ call' \in [Record -> Entry]
      /\ answer' \in [Call -> {"none", "ok", "error"}]
      /\ \A s \in Record : s # c => call'[s] = call[s]
      /\ At(call'[c], b, "done")
  <2>1. Done(c, b, "ok") \/ Done(c, b, "error")
    BY DEF SavedAgain
  <2> QED BY <1>1, <2>1, DoneAt
<1>7. mapper' \in [Name -> Record \cup {None}]
  BY <1>1, <1>4, <1>5
<1>8. TypeOK'
  BY <1>1, <1>2, <1>3, <1>6, <1>7 DEF TypeOK, Entry
<1>9. CallMove(c) /\ UidMove(c)
  BY <1>1, <1>2, <1>6 DEF CallMove, UidMove, Known, At
<1>10. OrmMove(c) /\ RowMove(c) /\ RecMove(c)
  BY <1>1, <1>2, <1>3, <1>6 DEF OrmMove, RowMove, RecMove, At
<1>11. MapMove(c)
  BY <1>1, <1>2, <1>3, <1>5, <1>6 DEF MapMove, At
<1> QED BY <1>8, <1>9, <1>10, <1>11 DEF Move

LEMMA LookedUpMove ==
  ASSUME Inv, NEW c \in Call, LookedUp(c)
  PROVE  TypeOK' /\ Move(c)
<1> DEFINE b == call[c]
           r == First(rows, call[c].name)
<1>1. /\ TypeOK /\ CallInv /\ b \in Entry
      /\ call[c].phase = "lookup" /\ up /\ call[c].name \in Name
      /\ orm # << >> /\ c = Head(orm)
      /\ Tail(orm) \in Seq(Call) /\ Append(Tail(orm), c) \in Seq(Call)
  BY Basics, QueueTypes DEF LookedUp, OrmTurn
<1>2. UNCHANGED <<restarts, answer, rows, stored, dbCount>>
  BY DEF LookedUp
<1>3. r \in Record \cup {None} /\ (r # None => Named(rows, call[c].name) # {})
  BY <1>1, FirstTypes, Basics
<1>4. CASE /\ r # None
           /\ call' = [call EXCEPT ![c].phase = "remove", ![c].row = r]
           /\ orm' = Append(Tail(orm), c)
           /\ UNCHANGED <<up, memory, count>>
  <2> DEFINE e == [b EXCEPT !.phase = "remove", !.row = r]
  <2>1. e \in Entry
    BY <1>1, <1>3 DEF Entry, Phase, OrmPhase
  <2>2. /\ e.phase = "remove" /\ e.kind = b.kind /\ e.name = b.name /\ e.rec = b.rec
        /\ e.uid = b.uid /\ e.row = r
    BY <1>1 DEF Entry
  <2>3. call' = [call EXCEPT ![c] = e]
    BY <1>1, <1>4, CallEntry
  <2> HIDE DEF e
  <2>4. call' \in [Record -> Entry] /\ call'[c] = e /\ \A s \in Record : s # c => call'[s] = call[s]
    BY <1>1, <2>1, <2>3, Put
  <2>5. UNCHANGED <<up, arr, mapper, value, count>>
    BY <1>4 DEF memory
  <2>6. TypeOK'
    BY <1>1, <1>2, <1>4, <2>4, <2>5 DEF TypeOK, Entry
  <2>7. CallMove(c) /\ UidMove(c)
    BY <1>1, <1>2, <2>2, <2>4, <2>5 DEF CallMove, UidMove, Known
  <2>8. OrmMove(c) /\ RowMove(c) /\ RecMove(c)
    BY <1>1, <1>2, <1>3, <1>4, <2>2, <2>4 DEF OrmMove, RowMove, RecMove, OrmPhase
  <2>9. MapMove(c)
    BY <1>2, <2>5 DEF MapMove
  <2> QED BY <2>6, <2>7, <2>8, <2>9 DEF Move
<1>5. CASE Step(c, call[c], "done") /\ orm' = Tail(orm) /\ Down
  <2>1. /\ call' \in [Record -> Entry]
        /\ \A s \in Record : s # c => call'[s] = call[s]
        /\ At(call'[c], b, "done")
    <3>1. "done" \in Phase
      BY DEF Phase
    <3> QED BY <1>1, <1>5, <3>1, StepAt
  <2>2. /\ up' = FALSE /\ arr' = {} /\ mapper' \in [Name -> Record \cup {None}]
        /\ \A n \in Name : mapper'[n] = None
        /\ value' \in [Record -> Nat] /\ count' \in Nat
    BY <1>5 DEF Down
  <2>3. TypeOK'
    BY <1>1, <1>2, <1>5, <2>1, <2>2 DEF TypeOK, Entry
  <2>4. CallMove(c) /\ UidMove(c)
    BY <1>1, <1>2, <2>1, <2>2 DEF CallMove, UidMove, Known, At
  <2>5. OrmMove(c) /\ RowMove(c) /\ RecMove(c)
    BY <1>1, <1>2, <1>5, <2>1 DEF OrmMove, RowMove, RecMove, At
  <2>6. MapMove(c)
    BY <2>2 DEF MapMove
  <2> QED BY <2>3, <2>4, <2>5, <2>6 DEF Move
<1> QED BY <1>4, <1>5 DEF LookedUp

LEMMA RemovedMove ==
  ASSUME Inv, NEW c \in Call, Removed(c)
  PROVE  TypeOK' /\ Move(c)
<1> DEFINE b == call[c]
           r == First(arr, call[c].name)
<1>1. /\ TypeOK /\ CallInv /\ b \in Entry
      /\ call[c].phase = "remove" /\ up /\ call[c].name \in Name
      /\ orm # << >> /\ c = Head(orm)
      /\ Tail(orm) \in Seq(Call)
      /\ arr \in SUBSET Record /\ mapper \in [Name -> Record \cup {None}]
  BY Basics, QueueTypes DEF Removed, OrmTurn
<1>2. UNCHANGED <<up, restarts, value, count, dbCount>> /\ orm' = Tail(orm)
  BY DEF Removed
<1>3. /\ rows' = rows \ {call[c].row} /\ rows' \in SUBSET Record
      /\ stored' \in [Record -> Nat]
  BY <1>1, CarriedFacts DEF Removed
<1>4. r = None <=> Named(arr, call[c].name) = {}
  BY <1>1, FirstTypes
<1>5. \/ /\ r # None /\ arr' = arr \ {r} /\ mapper' = [mapper EXCEPT ![call[c].name] = None]
         /\ Done(c, b, "ok")
      \/ r = None /\ Done(c, b, "none") /\ UNCHANGED <<arr, mapper>>
  BY DEF Removed
<1> HIDE DEF r
<1>6. /\ call' \in [Record -> Entry]
      /\ answer' \in [Call -> {"none", "ok", "error"}]
      /\ \A s \in Record : s # c => call'[s] = call[s]
      /\ At(call'[c], b, "done")
  BY <1>1, <1>5, DoneAt
<1>7. arr' \in SUBSET Record /\ mapper' \in [Name -> Record \cup {None}]
  BY <1>1, <1>5
<1>8. TypeOK'
  BY <1>1, <1>2, <1>3, <1>6, <1>7 DEF TypeOK, Entry
<1>9. CallMove(c) /\ UidMove(c)
  BY <1>1, <1>2, <1>6 DEF CallMove, UidMove, Known, At
<1>10. OrmMove(c) /\ RowMove(c) /\ RecMove(c)
  BY <1>1, <1>2, <1>3, <1>6 DEF OrmMove, RowMove, RecMove, At
<1>11. MapMove(c)
  BY <1>1, <1>2, <1>3, <1>4, <1>5 DEF MapMove, r
<1> QED BY <1>8, <1>9, <1>10, <1>11 DEF Move

LEMMA LateMove ==
  ASSUME Inv, NEW c \in Call, Late(c)
  PROVE  TypeOK' /\ Move(c)
<1> DEFINE b == call[c]
<1>1. /\ TypeOK /\ CallInv /\ NameInv /\ b \in Entry /\ ~ up
      /\ call[c].phase # "new" => call[c].name \in Name
      /\ rows \in SUBSET Record
  BY Basics DEF Late
<1>2. UNCHANGED <<up, restarts, answer, arr, mapper, value, count>>
  BY DEF Late, memory
<1>3. /\ call' \in [Record -> Entry]
      /\ \A s \in Record : s # c => call'[s] = call[s]
      /\ At(call'[c], b, "done")
  <2>1. "done" \in Phase /\ Step(c, b, "done")
    BY DEF Phase, Late
  <2> QED BY <1>1, <2>1, StepAt
<1>4. arr = {}
  BY <1>1 DEF NameInv
<1>5. CASE UidTurn(c) /\ dbCount' \in {dbCount, call[c].uid} /\ UNCHANGED <<orm, rows, stored>>
  <2>1. call[c].phase = "uid" /\ dbCount' \in Nat
    BY <1>1, <1>5 DEF UidTurn, TypeOK, Entry
  <2>2. TypeOK'
    BY <1>1, <1>2, <1>3, <1>5, <2>1 DEF TypeOK, Entry
  <2>3. CallMove(c) /\ UidMove(c)
    BY <1>1, <1>2, <1>3, <1>5, <2>1 DEF CallMove, UidMove, Known, At
  <2>4. OrmMove(c) /\ RowMove(c) /\ RecMove(c)
    BY <1>1, <1>3, <1>5, <2>1 DEF OrmMove, RowMove, RecMove, OrmPhase, At
  <2>5. MapMove(c)
    BY <1>2, <1>5 DEF MapMove
  <2> QED BY <2>2, <2>3, <2>4, <2>5 DEF Move
<1>6. CASE /\ \E p \in OrmPhase : OrmTurn(c, p)
           /\ Carried(c) \/ UNCHANGED <<rows, stored>>
           /\ orm' = Tail(orm)
           /\ UNCHANGED dbCount
  <2>1. /\ orm # << >> /\ c = Head(orm) /\ call[c].phase \in OrmPhase
        /\ call[c].phase # "new" /\ orm' \in Seq(Call)
    BY <1>1, <1>6, QueueTypes DEF OrmTurn, OrmPhase
  <2>2. /\ rows' \in SUBSET Record /\ stored' \in [Record -> Nat]
        /\ \/ rows' = rows
           \/ rows' = rows \cup {c} /\ call[c].phase = "create"
           \/ rows' = rows \ {call[c].row} /\ call[c].phase = "remove"
    <3>1. CASE Carried(c)
      BY <1>1, <3>1, CarriedFacts
    <3>2. CASE UNCHANGED <<rows, stored>>
      BY <1>1, <3>2 DEF TypeOK
    <3> QED BY <1>6, <3>1, <3>2
  <2>3. TypeOK'
    BY <1>1, <1>2, <1>3, <1>6, <2>1, <2>2 DEF TypeOK, Entry
  <2>4. CallMove(c) /\ UidMove(c)
    BY <1>1, <1>2, <1>3, <1>6, <2>1 DEF CallMove, UidMove, Known, At
  <2>5. OrmMove(c) /\ RowMove(c) /\ RecMove(c)
    BY <1>1, <1>3, <1>6, <2>1, <2>2 DEF OrmMove, RowMove, RecMove, At
  <2>6. MapMove(c)
    BY <1>2, <1>4 DEF MapMove
  <2> QED BY <2>3, <2>4, <2>5, <2>6 DEF Move
<1> QED BY <1>5, <1>6 DEF Late

-----------------------------------------------------------------------------
(* A crash, a restart, and the start.                                      *)

LEMMA CrashInv ==
  ASSUME Inv, Crash
  PROVE  Inv'
<1>1. /\ UNCHANGED <<restarts, call, answer, orm, rows, stored, dbCount>>
      /\ up' = FALSE /\ arr' = {} /\ mapper' = [n \in Name |-> None]
      /\ value' = [r \in Record |-> 0] /\ count' = 0
  BY DEF Crash, Down
<1>2. TypeOK'
  BY <1>1 DEF Inv, TypeOK
<1>3. UidInv' /\ RemoveInv' /\ CallInv'
  BY <1>1 DEF Inv, UidInv, RemoveInv, CallInv, Known, Live, NameOf
<1>4. OrmInv'
  BY <1>1 DEF Inv, OrmInv
<1>5. NameInv' /\ ArrayStored' /\ MapperInArray'
  BY <1>1 DEF Inv, NameInv, ArrayStored, MapperInArray, Known, NameOf
<1> QED BY <1>2, <1>3, <1>4, <1>5 DEF Inv

LEMMA RestartInv ==
  ASSUME Inv, Restart
  PROVE  Inv'
<1>1. /\ UNCHANGED <<answer, orm, rows, stored, dbCount>>
      /\ up' = TRUE /\ restarts' = restarts + 1 /\ restarts < MaxRestarts
      /\ orm = << >> /\ \A c \in Call : call[c].phase # "uid"
      /\ arr' = rows /\ mapper' = [n \in Name |-> Last(rows, n)]
      /\ value' = stored /\ count' = dbCount
      /\ call' = [c \in Record |->
                    IF call[c].phase = "new" THEN call[c] ELSE [call[c] EXCEPT !.phase = "done"]]
  BY DEF Restart
<1>2. /\ TypeOK /\ UidInv /\ CallInv /\ NameInv /\ OrmInv
      /\ rows \in SUBSET Record /\ dbCount \in Nat /\ Call \subseteq Record
      /\ call \in [Record -> Entry]
  BY RecordFacts DEF Inv, TypeOK, Entry
<1>3. \A c \in Record : call[c].phase = "new" => call'[c] = call[c]
  BY <1>1
<1>4. \A c \in Record : call[c].phase # "new" => At(call'[c], call[c], "done") /\ call'[c] \in Entry
  BY <1>1, <1>2 DEF Entry, Phase, At
<1>5. call' \in [Record -> Entry]
  <2>1. \A c \in Record : call'[c] \in Entry
    BY <1>2, <1>3, <1>4
  <2>2. call' = [c \in Record |-> call'[c]]
    BY <1>1
  <2> QED BY <2>1, <2>2
<1>6. \A c \in Record : /\ call'[c].phase \in {"new", "done"}
                        /\ call'[c].kind = call[c].kind /\ call'[c].name = call[c].name
                        /\ call'[c].rec = call[c].rec /\ call'[c].uid = call[c].uid
                        /\ call'[c].phase = "new" <=> call[c].phase = "new"
  BY <1>3, <1>4 DEF At
<1>7. \A r \in Record : Known(r) => call'[r].phase = "done"
  BY <1>4 DEF Known, At
<1>8. \A n \in Name : /\ Last(rows, n) \in Record \cup {None}
                      /\ Last(rows, n) # None =>
                           /\ Last(rows, n) \in rows /\ NameOf(Last(rows, n)) = n
                           /\ call'[Last(rows, n)].phase = "done"
                           /\ call'[Last(rows, n)].name = n
  <2> SUFFICES ASSUME NEW n \in Name
               PROVE  /\ Last(rows, n) \in Record \cup {None}
                      /\ Last(rows, n) # None =>
                           /\ Last(rows, n) \in rows /\ NameOf(Last(rows, n)) = n
                           /\ call'[Last(rows, n)].phase = "done"
                           /\ call'[Last(rows, n)].name = n
    OBVIOUS
  <2>1. CASE Named(rows, n) = {}
    BY <2>1 DEF Last
  <2>2. CASE Named(rows, n) # {}
    <3>1. \A r \in rows : call[r].uid <= dbCount
      BY <1>2 DEF UidInv
    <3>2. Last(rows, n) \in rows /\ NameOf(Last(rows, n)) = n
      BY <1>2, <2>2, <3>1, LastFacts
    <3>3. Last(rows, n) \in Record /\ Known(Last(rows, n))
      BY <1>2, <3>2 DEF UidInv
    <3> QED BY <1>6, <1>7, <3>2, <3>3 DEF NameOf
  <2> QED BY <2>1, <2>2
<1>9. TypeOK'
  <2>1. mapper' \in [Name -> Record \cup {None}]
    BY <1>1, <1>8
  <2>2. restarts' \in 0 .. MaxRestarts
    BY <1>1, <1>2, AccountsAssumption DEF TypeOK
  <2> QED BY <1>1, <1>2, <1>5, <2>1, <2>2 DEF TypeOK, Entry
<1>10. UidInv'
  <2>1. \A r \in Record : call'[r].phase # "uid" /\ call'[r].phase # "create"
    BY <1>6
  <2>2. \A r \in rows : call'[r].phase = "done"
    BY <1>2, <1>7 DEF UidInv
  <2>3. \A r, s \in Record : Live(r)' /\ Live(s)' /\ call'[r].uid = call'[s].uid => r = s
    BY <1>1, <1>2, <1>6, <2>1 DEF UidInv, Live
  <2>4. \A r \in Record : r \in rows => call'[r].uid <= dbCount
    BY <1>2, <1>6 DEF UidInv
  <2>5. call'[0].phase = "done"
    BY <1>2, <1>4, RecordFacts DEF UidInv, At
  <2>6. dbCount <= dbCount
    BY <1>2
  <2> QED BY <1>1, <1>2, <2>1, <2>2, <2>3, <2>4, <2>5, <2>6 DEF UidInv, Known
<1>11. OrmInv' /\ RemoveInv'
  BY <1>1, <1>2, <1>6 DEF OrmInv, RemoveInv
<1>12. CallInv'
  BY <1>2, <1>6 DEF CallInv
<1>13. NameInv'
  <2>1. \A n \in Name : mapper'[n] # None =>
          call'[mapper'[n]].phase = "done" /\ call'[mapper'[n]].name = n
    BY <1>1, <1>8
  <2>2. \A c \in Call : call'[c].kind = "login" /\ call'[c].rec # None =>
          call'[call'[c].rec].phase = "done" /\ call'[call'[c].rec].name = call'[c].name
    <3> SUFFICES ASSUME NEW c \in Call, call'[c].kind = "login", call'[c].rec # None
                 PROVE  call'[call'[c].rec].phase = "done" /\ call'[call'[c].rec].name = call'[c].name
      OBVIOUS
    <3>1. call[c].kind = "login" /\ call[c].rec # None /\ call'[c].rec = call[c].rec
          /\ call'[c].name = call[c].name
      BY <1>2, <1>6
    <3>2. call[c].rec \in Record /\ Known(call[c].rec) /\ call[call[c].rec].name = call[c].name
      BY <1>2, <3>1 DEF NameInv, NameOf, Entry
    <3> QED BY <1>6, <1>7, <3>1, <3>2
  <2> QED BY <1>1, <2>1, <2>2 DEF NameInv, Known, NameOf
<1>14. ArrayStored' /\ MapperInArray'
  BY <1>1, <1>8 DEF ArrayStored, MapperInArray
<1> QED BY <1>9, <1>10, <1>11, <1>12, <1>13, <1>14 DEF Inv

LEMMA InitInv == Init => Inv
<1> SUFFICES ASSUME Init PROVE Inv
  OBVIOUS
<1>1. TypeOK
  BY InitTypes
<1>2. PICK n \in Name :
        call = [c \in Record |->
                  IF c = 0 THEN [New("register", n) EXCEPT !.phase = "done", !.uid = 1]
                  ELSE New("change", None)]
  BY DEF Init
<1>3. /\ call[0].phase = "done" /\ call[0].uid = 1 /\ call[0].name = n
      /\ \A c \in Call : call[c].phase = "new" /\ call[c].kind = "change" /\ call[c].rec = None
                       /\ c \in Record /\ c # 0
  BY <1>2, RecordFacts DEF New
<1>4. /\ orm = << >> /\ arr = rows /\ dbCount = count /\ up
      /\ mapper = [m \in Name |-> IF call[0].name = m /\ rows # {} THEN 0 ELSE None]
      /\ (rows = {} /\ count = 0) \/ (rows = {0} /\ count = 1)
  BY FS_EmptySet, FS_Singleton DEF Init
<1>5. \A r \in Record : r = 0 \/ r \in Call
  BY AccountsAssumption DEF Record, Call
<1>6. UidInv
  <2>1. \A r \in rows : r = 0 /\ dbCount = 1
    BY <1>4
  <2>2. /\ dbCount <= count
        /\ \A c \in Call : call[c].phase # "uid"
    BY <1>3, <1>4
  <2>3. \A r \in Record : ~(call[r].phase = "create")
    BY <1>3, <1>5
  <2>4. \A r \in rows : call[r].uid <= dbCount /\ Known(r)
    <3> SUFFICES ASSUME NEW r \in rows PROVE call[r].uid <= dbCount /\ Known(r)
      OBVIOUS
    <3>1. r = 0 /\ dbCount = 1
      BY <2>1
    <3>2. call[r].uid = 1 /\ call[r].phase = "done"
      BY <3>1, <1>3
    <3> QED BY <3>1, <3>2 DEF Known
  <2>5. \A r \in Record : Live(r) => r = 0
    BY <2>1, <1>3, <1>5 DEF Live
  <2> QED BY <2>2, <2>3, <2>4, <2>5, <1>3 DEF UidInv
<1>7. OrmInv /\ RemoveInv
  BY <1>3, <1>4 DEF OrmInv, RemoveInv
<1>8. CallInv
  BY <1>3 DEF CallInv
<1>9. NameInv
  BY <1>3, <1>4, RecordFacts DEF NameInv, Known, NameOf
<1>10. ArrayStored /\ MapperInArray
  BY <1>4 DEF ArrayStored, MapperInArray
<1> QED BY <1>1, <1>6, <1>7, <1>8, <1>9, <1>10 DEF Inv

LEMMA StepInv == Inv /\ [Next]_vars => Inv'
<1> SUFFICES ASSUME Inv, [Next]_vars PROVE Inv'
  OBVIOUS
<1>1. ASSUME NEW c \in Call, Make(c) PROVE TypeOK' /\ Move(c)
  BY <1>1, RegisterMove, ChangeMove, LoginMove, UpdateMove, DeleteMove DEF Make
<1>2. ASSUME NEW c \in Call, Answered(c) PROVE TypeOK' /\ Move(c)
  BY <1>2, FailedMove, UidStoredMove, CreatedMove, AuthenticatedMove, FoundMove,
     WrittenMove, SavedMove, SavedAgainMove, LookedUpMove, RemovedMove DEF Answered
<1>3. ASSUME NEW c \in Call, Make(c) \/ Answered(c) \/ Late(c) PROVE Inv'
  BY <1>1, <1>2, <1>3, LateMove, MoveInv
<1>4. CASE UNCHANGED vars
  <2>1. UNCHANGED <<up, restarts, call, answer, orm, rows, stored, arr, mapper, value, count, dbCount>>
    BY <1>4 DEF vars, memory
  <2>2. TypeOK' /\ ArrayStored' /\ MapperInArray'
    BY <2>1 DEF Inv, TypeOK, ArrayStored, MapperInArray
  <2>3. UidInv' /\ OrmInv' /\ RemoveInv'
    BY <2>1 DEF Inv, UidInv, OrmInv, RemoveInv, Known, Live, NameOf
  <2>4. CallInv' /\ NameInv'
    BY <2>1 DEF Inv, CallInv, NameInv, Known, NameOf
  <2> QED BY <2>2, <2>3, <2>4 DEF Inv
<1> QED BY <1>3, <1>4, CrashInv, RestartInv DEF Next

THEOREM Invariance == Spec => []Inv
BY InitInv, StepInv, PTL DEF Spec

-----------------------------------------------------------------------------
(* The theorems.                                                           *)

\* Every variable keeps to its type.
THEOREM TypeCorrect == Spec => []TypeOK
<1>1. Inv => TypeOK
  BY DEF Inv
<1> QED BY <1>1, Invariance, PTL

\* No two accounts have one uid, over any number of crashes: the counter in
\* memory is raised before it is stored (account.js 70-82), and the counter
\* stored is as high as every uid in the database.
THEOREM UidsUnique == Spec => []UniqueUid
<1>1. Inv => UniqueUid
  BY DEF Inv, TypeOK, UidInv, Live, UniqueUid
<1> QED BY <1>1, Invariance, PTL

\* Every record in memory has its row in the database, however deletions of
\* one name overlap: both find the first (datastore.js 472-528).
THEOREM ArrayIsStored == Spec => []ArrayStored
<1>1. Inv => ArrayStored
  BY DEF Inv
<1> QED BY <1>1, Invariance, PTL

\* A name in the map leads to a record in the array, or to one with which a
\* login through another system goes on (datastore.js 213-279).
THEOREM MapperAgrees == Spec => []MapperInArray
<1>1. Inv => MapperInArray
  BY DEF Inv
<1> QED BY <1>1, Invariance, PTL

-----------------------------------------------------------------------------
(* What callers were told is stored.                                       *)

\* In which phases a call of each kind is.
KindOK(x) ==
  /\ x.phase = "new" => x.kind = "change" /\ x.name = None
  /\ x.phase \in {"uid", "create"} => x.kind \in {"register", "login"}
  /\ x.phase = "auth" => x.kind = "login"
  /\ x.phase \in {"find", "write"} => x.kind \in {"update", "login"}
  /\ x.phase \in {"save", "save again"} => x.kind \in {"change", "login"}
  /\ x.phase \in {"lookup", "remove"} => x.kind = "delete"
  /\ x.phase = "lookup" => x.row = None

KindInv == \A c \in Call : KindOK(call[c])

\* The records that changes work on, and the rows that updates found.
TargetInv ==
  \A c \in Call :
    /\ call[c].kind = "change" /\ call[c].rec # None => Known(call[c].rec)
    /\ call[c].phase = "write" =>
         /\ call[c].row \in Record /\ Known(call[c].row)
         /\ NameOf(call[c].row) = call[c].name

\* An older version may be written over a later one of r.
Overwritten(r) ==
  \E u \in Call : call[u].kind \in {"update", "login"} /\ call[u].name = NameOf(r)

\* The request of call c saves record r.
Saves(c, r) == call[c].phase \in {"save", "save again"} /\ call[c].rec = r

\* The versions of a record go up from the database over the requests, in
\* their order, to memory.
VersionInv ==
  \A r \in Record : Overwritten(r) \/
    /\ up => stored[r] <= value[r]
    /\ \A i \in 1 .. Len(orm) : Saves(orm[i], r) =>
         /\ stored[r] <= call[orm[i]].sent
         /\ up => call[orm[i]].sent <= value[r]
         /\ \A j \in 1 .. i - 1 :
              Saves(orm[j], r) => call[orm[j]].sent <= call[orm[i]].sent

AnswerInv == \A c \in Call : answer[c] = "ok" => call[c].phase = "done"

StoreInv ==
  KindInv /\ TargetInv /\ VersionInv /\ AnswerInv /\ AcknowledgedStored

-----------------------------------------------------------------------------
(* What a step of one call does to the versions and to what was answered.  *)

KindMove(c) ==
  /\ KindOK(call'[c])
  /\ call[c].phase # "done"
  /\ call[c].phase \notin {"new", "find", "lookup"} => call'[c].row = call[c].row
  /\ call'[c].kind = "change" /\ call'[c].rec # None => Known(call'[c].rec)
  /\ call'[c].phase = "write" =>
       call'[c].row \in rows /\ NameOf(call'[c].row) = call'[c].name

ValueMove(c) ==
  /\ up' => up /\ \A r \in Record : value'[r] >= value[r]
  /\ call'[c].phase \in {"save", "save again"} =>
       up' /\ call'[c].sent = value'[call'[c].rec]

StoredMove(c) ==
  \A r \in Record :
    \/ stored'[r] = stored[r]
    \/ call[c].phase = "create" /\ r = c /\ stored'[r] = 0
    \/ call[c].phase = "write" /\ r = call[c].row
    \/ Saves(c, r) /\ stored'[r] = call[c].sent

AnswerMove(c) ==
  /\ \A d \in Call : d # c => answer'[d] = answer[d]
  /\ answer'[c] = "ok" =>
       /\ call'[c].phase = "done"
       /\ call'[c].kind = "register" => c \in rows'
       /\ call'[c].kind = "change" =>
            /\ call[c].phase = "save again"
            /\ call'[c].rec = call[c].rec /\ call'[c].sent = call[c].sent
            /\ call[c].rec \in rows => stored'[call[c].rec] = call[c].sent

StoreMove(c) == KindMove(c) /\ ValueMove(c) /\ StoredMove(c) /\ AnswerMove(c)

\* Where the requests are after a step of call c: its own is the last.
LEMMA QueueAfter ==
  ASSUME Inv, NEW c \in Call, Move(c)
  PROVE  \E k \in {0, 1} :
           /\ Len(orm') \in Nat
           /\ call[c].phase \in OrmPhase => k = 1 /\ orm[1] = c /\ Len(orm) >= 1
           /\ \A j \in 1 .. Len(orm') :
                \/ j = Len(orm') /\ orm'[j] = c
                \/ j + k \in 1 .. Len(orm) /\ orm'[j] = orm[j + k] /\ orm'[j] # c
<1>1. /\ orm \in Seq(Call) /\ Len(orm) \in Nat
      /\ \A i, j \in 1 .. Len(orm) : orm[i] = orm[j] => i = j
      /\ \A i \in 1 .. Len(orm) : call[orm[i]].phase \in OrmPhase
  BY DEF Inv, TypeOK, OrmInv
<1>2. CASE orm' = orm /\ call[c].phase \notin OrmPhase
  <2>1. \A j \in 1 .. Len(orm') : j + 0 \in 1 .. Len(orm) /\ orm'[j] = orm[j + 0] /\ orm'[j] # c
    BY <1>1, <1>2
  <2> QED BY <1>1, <1>2, <2>1
<1>3. CASE orm' = Append(orm, c) /\ call[c].phase \notin OrmPhase
  <2>1. /\ Len(orm') = Len(orm) + 1 /\ orm'[Len(orm) + 1] = c
        /\ \A j \in 1 .. Len(orm) : orm'[j] = orm[j]
    BY <1>1, <1>3
  <2>2. ASSUME NEW j \in 1 .. Len(orm')
        PROVE  \/ j = Len(orm') /\ orm'[j] = c
               \/ j + 0 \in 1 .. Len(orm) /\ orm'[j] = orm[j + 0] /\ orm'[j] # c
    <3>1. CASE j = Len(orm) + 1
      BY <2>1, <3>1
    <3>2. CASE j # Len(orm) + 1
      <4>1. j \in 1 .. Len(orm) /\ j + 0 = j
        BY <1>1, <2>1, <3>2
      <4> QED BY <1>1, <1>3, <2>1, <4>1
    <3> QED BY <3>1, <3>2
  <2>3. Len(orm') \in Nat
    BY <1>1, <2>1
  <2> QED BY <1>3, <2>2, <2>3
<1>4. ASSUME orm # << >>, c = Head(orm)
      PROVE  /\ orm[1] = c /\ Len(orm) >= 1 /\ Tail(orm) \in Seq(Call)
             /\ Len(Tail(orm)) = Len(orm) - 1
             /\ \A j \in 1 .. Len(orm) - 1 :
                  /\ Tail(orm)[j] = orm[j + 1] /\ j + 1 \in 1 .. Len(orm)
                  /\ orm[j + 1] # c
  <2>1. orm[1] = c /\ Len(orm) >= 1 /\ Tail(orm) \in Seq(Call)
        /\ Len(Tail(orm)) = Len(orm) - 1
    BY <1>1, <1>4
  <2>2. \A j \in 1 .. Len(orm) - 1 : Tail(orm)[j] = orm[j + 1] /\ j + 1 \in 1 .. Len(orm)
    BY <1>1, <1>4
  <2>3. \A j \in 1 .. Len(orm) - 1 : orm[j + 1] # c
    BY <1>1, <2>1, <2>2
  <2> QED BY <2>1, <2>2, <2>3
<1>5. CASE orm # << >> /\ c = Head(orm) /\ orm' = Tail(orm)
  <2>1. Len(orm') = Len(orm) - 1 /\ Len(orm') \in Nat
    BY <1>1, <1>4, <1>5
  <2>2. \A j \in 1 .. Len(orm') : j + 1 \in 1 .. Len(orm) /\ orm'[j] = orm[j + 1] /\ orm'[j] # c
    BY <1>4, <1>5, <2>1
  <2> QED BY <1>4, <1>5, <2>1, <2>2
<1>6. CASE orm # << >> /\ c = Head(orm) /\ orm' = Append(Tail(orm), c)
  <2> DEFINE q == Tail(orm)
  <2>1. q \in Seq(Call) /\ Len(q) = Len(orm) - 1 /\ Len(q) \in Nat
    BY <1>1, <1>4, <1>6
  <2>5. orm' = Append(q, c) /\ \A j \in 1 .. Len(orm) - 1 : q[j] = orm[j + 1]
    BY <1>4, <1>6
  <2> HIDE DEF q
  <2>2. /\ Len(orm') = Len(q) + 1 /\ orm'[Len(q) + 1] = c
        /\ \A j \in 1 .. Len(q) : orm'[j] = q[j]
    BY <2>1, <2>5
  <2>3. ASSUME NEW j \in 1 .. Len(orm')
        PROVE  \/ j = Len(orm') /\ orm'[j] = c
               \/ j + 1 \in 1 .. Len(orm) /\ orm'[j] = orm[j + 1] /\ orm'[j] # c
    <3>1. CASE j = Len(q) + 1
      BY <2>2, <3>1
    <3>2. CASE j # Len(q) + 1
      <4>1. j \in 1 .. Len(q) /\ j \in 1 .. Len(orm) - 1
        BY <1>1, <2>1, <2>2, <3>2
      <4> QED BY <1>4, <1>6, <2>5, <2>2, <4>1
    <3> QED BY <3>1, <3>2
  <2>4. Len(orm') \in Nat
    BY <2>1, <2>2
  <2> QED BY <1>4, <1>6, <2>3, <2>4
<1> QED BY <1>2, <1>3, <1>5, <1>6 DEF Move, OrmMove

-----------------------------------------------------------------------------
(* Every action of a call is such a step.                                  *)

\* An entry b with phase p, and with what it sent.
AtSent(x, b, p) == At(x, b, p) /\ x.sent = b.sent

LEMMA StepSent ==
  ASSUME TypeOK, NEW c \in Call, NEW b \in Entry, NEW p \in Phase, Step(c, b, p)
  PROVE  AtSent(call'[c], b, p)
<1>1. call'[c] = [b EXCEPT !.phase = p]
  BY StepFacts
<1> QED BY <1>1 DEF Entry, At, AtSent

LEMMA DoneSent ==
  ASSUME TypeOK, NEW c \in Call, NEW b \in Entry, NEW a, Done(c, b, a)
  PROVE  /\ AtSent(call'[c], b, "done")
         /\ answer'[c] = a
         /\ \A d \in Call : d # c => answer'[d] = answer[d]
<1>1. "done" \in Phase /\ Step(c, b, "done") /\ answer' = [answer EXCEPT ![c] = a]
  BY DEF Phase, Done
<1>2. answer \in [Call -> {"none", "ok", "error"}]
  BY DEF TypeOK
<1> QED BY <1>1, <1>2, StepSent

LEMMA SyncSent ==
  ASSUME TypeOK, NEW c \in Call, NEW b \in Entry, NEW r \in Record,
         NEW m, NEW q, Sync(c, b, r, m, q), answer[c] # "ok"
  PROVE  /\ \A s \in Record : value'[s] >= value[s]
         /\ \A d \in Call : d # c => answer'[d] = answer[d]
         /\ answer'[c] # "ok"
         /\ call'[c].kind = b.kind /\ call'[c].name = b.name /\ call'[c].row = b.row
         /\ \/ /\ call'[c].phase = "save" /\ call'[c].rec = r
               /\ call'[c].sent = value'[r]
            \/ call'[c].phase = "done" /\ call'[c].rec = b.rec
<1>1. value' = [value EXCEPT ![r] = @ + 1] /\ value \in [Record -> Nat]
  BY DEF Sync, TypeOK
<1>2. value'[r] = value[r] + 1 /\ \A s \in Record : value'[s] >= value[s]
  BY <1>1
<1>3. CASE /\ call' = [call EXCEPT ![c] =
                 [b EXCEPT !.phase = "save", !.rec = r, !.sent = value[r] + 1,
                           !.rebuild = (m[NameOf(r)] = None)]]
           /\ UNCHANGED answer
  <2>1. [b EXCEPT !.phase = "save", !.rec = r, !.sent = value[r] + 1,
                  !.rebuild = (m[NameOf(r)] = None)] \in Entry
    <3>1. value[r] + 1 \in Nat /\ (m[NameOf(r)] = None) \in BOOLEAN
      BY <1>1
    <3> QED BY <3>1, SaveEntry
  <2>2. call'[c] = [b EXCEPT !.phase = "save", !.rec = r, !.sent = value[r] + 1,
                             !.rebuild = (m[NameOf(r)] = None)]
    BY <1>3, <2>1, Put
  <2>3. /\ call'[c].phase = "save" /\ call'[c].rec = r /\ call'[c].sent = value[r] + 1
        /\ call'[c].kind = b.kind /\ call'[c].name = b.name /\ call'[c].row = b.row
    BY <2>2 DEF Entry
  <2> QED BY <1>2, <1>3, <2>3
<1>4. CASE Done(c, b, "error")
  BY <1>2, <1>4, DoneSent DEF AtSent, At
<1> QED BY <1>3, <1>4 DEF Sync

LEMMA UpdateSent ==
  ASSUME TypeOK, NEW c \in Call, NEW b \in Entry, Update(c, b), answer[c] # "ok"
  PROVE  /\ \A s \in Record : value'[s] >= value[s]
         /\ \A d \in Call : d # c => answer'[d] = answer[d]
         /\ answer'[c] # "ok"
         /\ call'[c].phase \in {"find", "done"}
         /\ call'[c].kind = b.kind /\ call'[c].row = b.row /\ call'[c].rec = b.rec
<1> DEFINE r == First(arr, b.name)
<1>1. r \in Record \cup {None} /\ value \in [Record -> Nat]
  BY FirstTypes DEF TypeOK
<1> HIDE DEF r
<1>2. CASE /\ r # None
           /\ value' = [value EXCEPT ![r] = @ + 1]
           /\ call' = [call EXCEPT ![c] = [b EXCEPT !.phase = "find", !.sent = value[r] + 1]]
           /\ UNCHANGED answer
  <2>1. value[r] + 1 \in Nat /\ \A s \in Record : value'[s] >= value[s]
    BY <1>1, <1>2
  <2>2. [b EXCEPT !.phase = "find", !.sent = value[r] + 1] \in Entry
    BY <2>1 DEF Entry, Phase, OrmPhase
  <2>3. call'[c] = [b EXCEPT !.phase = "find", !.sent = value[r] + 1]
    BY <1>2, <2>2, Put
  <2>4. /\ call'[c].phase = "find" /\ call'[c].kind = b.kind /\ call'[c].row = b.row
        /\ call'[c].rec = b.rec
    BY <2>3 DEF Entry
  <2> QED BY <1>2, <2>1, <2>4
<1>3. CASE Done(c, b, "none") /\ UNCHANGED value
  <2>1. \A s \in Record : value'[s] >= value[s]
    BY <1>1, <1>3
  <2> QED BY <1>3, <2>1, DoneSent DEF AtSent, At
<1> QED BY <1>2, <1>3 DEF Update, r

LEMMA RegisterSent ==
  ASSUME TypeOK, NEW c \in Call, NEW b \in Entry, Register(c, b), answer[c] # "ok"
  PROVE  /\ \A d \in Call : d # c => answer'[d] = answer[d]
         /\ answer'[c] # "ok"
         /\ call'[c].phase \in {"uid", "done"}
         /\ call'[c].kind = b.kind /\ call'[c].row = b.row /\ call'[c].rec = b.rec
<1>1. CASE /\ call' = [call EXCEPT ![c] = [b EXCEPT !.phase = "uid", !.uid = count + 1]]
           /\ UNCHANGED answer
  <2>1. [b EXCEPT !.phase = "uid", !.uid = count + 1] \in Entry
    <3>1. count + 1 \in Nat
      BY DEF TypeOK
    <3> QED BY <3>1 DEF Entry, Phase
  <2>2. call'[c] = [b EXCEPT !.phase = "uid", !.uid = count + 1]
    BY <1>1, <2>1, Put
  <2>3. /\ call'[c].phase = "uid" /\ call'[c].kind = b.kind /\ call'[c].row = b.row
        /\ call'[c].rec = b.rec
    BY <2>2 DEF Entry
  <2> QED BY <1>1, <2>3
<1>2. CASE Done(c, b, "error")
  BY <1>2, DoneSent DEF AtSent, At
<1> QED BY <1>1, <1>2 DEF Register

LEMMA CarriedStored ==
  ASSUME TypeOK, NEW c \in Call, Carried(c) \/ UNCHANGED stored
  PROVE  StoredMove(c)
<1>1. stored \in [Record -> Nat]
  BY DEF TypeOK
<1>2. CASE call[c].phase = "create" /\ Carried(c)
  BY <1>1, <1>2 DEF Carried, StoredMove
<1>3. CASE call[c].phase = "write" /\ Carried(c)
  <2>1. \A r \in Record : r # call[c].row => stored'[r] = stored[r]
    BY <1>1, <1>3 DEF Carried
  <2> QED BY <1>3, <2>1 DEF StoredMove
<1>4. CASE call[c].phase \in {"save", "save again"} /\ Carried(c)
  <2>1. \A r \in Record : \/ stored'[r] = stored[r]
                          \/ r = call[c].rec /\ stored'[r] = call[c].sent
    BY <1>1, <1>4 DEF Carried
  <2> QED BY <1>4, <2>1 DEF StoredMove, Saves
<1>5. CASE call[c].phase \notin {"create", "write", "save", "save again"} /\ Carried(c)
  <2>1. stored' = stored
    BY <1>5 DEF Carried
  <2> QED BY <2>1 DEF StoredMove
<1>6. CASE UNCHANGED stored
  BY <1>6 DEF StoredMove
<1> QED BY <1>2, <1>3, <1>4, <1>5, <1>6

\* A step that leaves the versions in memory as they are.
LEMMA SameValue ==
  ASSUME TypeOK, UNCHANGED value
  PROVE  \A r \in Record : value'[r] >= value[r]
BY DEF TypeOK

\* What these steps rest on.
LEMMA StoreBasics ==
  ASSUME Inv, StoreInv, NEW c \in Call
  PROVE  /\ TypeOK /\ call[c] \in Entry /\ KindOK(call[c])
         /\ call[c].phase # "done" => answer[c] # "ok"
         /\ call[c].kind = "change" /\ call[c].rec # None => Known(call[c].rec)
         /\ call[c].phase # "new" => call[c].name \in Name
         /\ c \in Record
BY Basics DEF StoreInv, KindInv, AnswerInv, TargetInv

LEMMA RegisterStore ==
  ASSUME Inv, StoreInv, NEW c \in Call, NEW n \in Name, AccountRegister(c, n)
  PROVE  StoreMove(c)
<1> DEFINE b == New("register", n)
<1>1. /\ TypeOK /\ call[c].phase = "new" /\ answer[c] # "ok" /\ Register(c, b)
      /\ UNCHANGED <<up, stored, value>>
  BY StoreBasics DEF AccountRegister, Comes, memory
<1>2. b \in Entry /\ b.kind = "register"
  BY NewEntry DEF New, Kind
<1> HIDE DEF b
<1>3. /\ \A d \in Call : d # c => answer'[d] = answer[d]
      /\ answer'[c] # "ok"
      /\ call'[c].phase \in {"uid", "done"} /\ call'[c].kind = "register"
  BY <1>1, <1>2, RegisterSent
<1> QED BY <1>1, <1>3, CarriedStored, SameValue
        DEF StoreMove, KindMove, ValueMove, AnswerMove, KindOK

LEMMA ChangeStore ==
  ASSUME Inv, StoreInv, NEW c \in Call, NEW n \in Name, AccountChange(c, n)
  PROVE  StoreMove(c)
<1> DEFINE b == New("change", n)
<1>1. /\ TypeOK /\ call[c].phase = "new" /\ answer[c] # "ok" /\ up
      /\ UNCHANGED <<up, stored>>
      /\ mapper \in [Name -> Record \cup {None}]
  BY StoreBasics DEF AccountChange, Comes, TypeOK
<1>2. b \in Entry /\ b.kind = "change" /\ b.rec = None
  BY NewEntry DEF New, Kind
<1>3. \/ mapper[n] # None /\ Sync(c, b, mapper[n], mapper, orm)
      \/ Done(c, b, "error") /\ UNCHANGED <<value, orm>>
  BY DEF AccountChange
<1> HIDE DEF b
<1>4. CASE mapper[n] # None /\ Sync(c, b, mapper[n], mapper, orm)
  <2>1. mapper[n] \in Record /\ Known(mapper[n])
    BY <1>1, <1>4 DEF Inv, NameInv
  <2>2. /\ \A s \in Record : value'[s] >= value[s]
        /\ \A d \in Call : d # c => answer'[d] = answer[d]
        /\ answer'[c] # "ok" /\ call'[c].kind = "change"
        /\ \/ call'[c].phase = "save" /\ call'[c].rec = mapper[n]
              /\ call'[c].sent = value'[mapper[n]]
           \/ call'[c].phase = "done" /\ call'[c].rec = None
    BY <1>1, <1>2, <1>4, <2>1, SyncSent
  <2> QED BY <1>1, <2>1, <2>2, CarriedStored
          DEF StoreMove, KindMove, ValueMove, AnswerMove, KindOK
<1>5. CASE Done(c, b, "error") /\ UNCHANGED <<value, orm>>
  <2>1. /\ call'[c].phase = "done" /\ call'[c].kind = "change" /\ call'[c].rec = None
        /\ answer'[c] = "error"
        /\ \A d \in Call : d # c => answer'[d] = answer[d]
    BY <1>1, <1>2, <1>5, DoneSent DEF AtSent, At
  <2> QED BY <1>1, <1>5, <2>1, CarriedStored, SameValue
          DEF StoreMove, KindMove, ValueMove, AnswerMove, KindOK
<1> QED BY <1>3, <1>4, <1>5

LEMMA LoginStore ==
  ASSUME Inv, StoreInv, NEW c \in Call, NEW n \in Name, AccountLogin(c, n)
  PROVE  StoreMove(c)
<1> DEFINE b == [New("login", n) EXCEPT !.rec = mapper[n]]
<1>1. /\ TypeOK /\ call[c].phase = "new" /\ answer[c] # "ok" /\ Step(c, b, "auth")
      /\ UNCHANGED <<up, stored, value, answer>>
      /\ mapper \in [Name -> Record \cup {None}]
  BY StoreBasics DEF AccountLogin, Comes, memory, TypeOK
<1>2. b \in Entry /\ b.kind = "login" /\ "auth" \in Phase
  BY <1>1 DEF New, Kind, Entry, Phase
<1> HIDE DEF b
<1>3. call'[c].phase = "auth" /\ call'[c].kind = "login"
  BY <1>1, <1>2, StepSent DEF AtSent, At
<1> QED BY <1>1, <1>3, CarriedStored, SameValue
        DEF StoreMove, KindMove, ValueMove, AnswerMove, KindOK

LEMMA UpdateStore ==
  ASSUME Inv, StoreInv, NEW c \in Call, NEW n \in Name, AccountUpdate(c, n)
  PROVE  StoreMove(c)
<1> DEFINE b == New("update", n)
<1>1. /\ TypeOK /\ call[c].phase = "new" /\ answer[c] # "ok" /\ Update(c, b)
      /\ UNCHANGED <<up, stored>>
  BY StoreBasics DEF AccountUpdate, Comes
<1>2. b \in Entry /\ b.kind = "update"
  BY NewEntry DEF New, Kind
<1> HIDE DEF b
<1>3. /\ \A s \in Record : value'[s] >= value[s]
      /\ \A d \in Call : d # c => answer'[d] = answer[d]
      /\ answer'[c] # "ok"
      /\ call'[c].phase \in {"find", "done"} /\ call'[c].kind = "update"
  BY <1>1, <1>2, UpdateSent
<1> QED BY <1>1, <1>3, CarriedStored
        DEF StoreMove, KindMove, ValueMove, AnswerMove, KindOK

LEMMA DeleteStore ==
  ASSUME Inv, StoreInv, NEW c \in Call, NEW n \in Name, AccountDelete(c, n)
  PROVE  StoreMove(c)
<1> DEFINE b == New("delete", n)
<1>1. /\ TypeOK /\ call[c].phase = "new" /\ answer[c] # "ok"
      /\ UNCHANGED <<up, stored, value>>
      /\ \/ Step(c, b, "lookup") /\ UNCHANGED answer
         \/ Done(c, b, "error")
  BY StoreBasics DEF AccountDelete, Comes, memory
<1>2. b \in Entry /\ b.kind = "delete" /\ b.row = None /\ "lookup" \in Phase
  BY NewEntry DEF New, Kind, Phase, OrmPhase
<1> HIDE DEF b
<1>3. /\ call'[c].phase \in {"lookup", "done"}
      /\ call'[c].kind = "delete" /\ call'[c].row = None
      /\ answer'[c] # "ok" /\ \A d \in Call : d # c => answer'[d] = answer[d]
  <2>1. CASE Step(c, b, "lookup") /\ UNCHANGED answer
    BY <1>1, <1>2, <2>1, StepSent DEF AtSent, At
  <2>2. CASE Done(c, b, "error")
    BY <1>1, <1>2, <2>2, DoneSent DEF AtSent, At
  <2> QED BY <1>1, <2>1, <2>2
<1> QED BY <1>1, <1>3, CarriedStored, SameValue
        DEF StoreMove, KindMove, ValueMove, AnswerMove, KindOK

\* A call that is over and has not been told that it is done.
LEMMA OverStore ==
  ASSUME Inv, StoreInv, NEW c \in Call, AtSent(call'[c], call[c], "done"),
         call[c].phase \notin {"new", "done"}, answer'[c] # "ok",
         \A d \in Call : d # c => answer'[d] = answer[d],
         up' => up /\ UNCHANGED value,
         Carried(c) \/ UNCHANGED stored
  PROVE  StoreMove(c)
<1>1. /\ TypeOK /\ KindOK(call[c]) /\ StoredMove(c)
      /\ call[c].kind = "change" /\ call[c].rec # None => Known(call[c].rec)
      /\ up' => \A r \in Record : value'[r] >= value[r]
  BY StoreBasics, CarriedStored, SameValue
<1>2. /\ call'[c].phase = "done" /\ call'[c].kind = call[c].kind
      /\ call'[c].rec = call[c].rec /\ call'[c].row = call[c].row
  BY DEF AtSent, At
<1> QED BY <1>1, <1>2 DEF StoreMove, KindMove, ValueMove, AnswerMove, KindOK

LEMMA FailedStore ==
  ASSUME Inv, StoreInv, NEW c \in Call, Failed(c)
  PROVE  StoreMove(c)
<1> DEFINE a == IF call[c].kind = "delete" THEN "none" ELSE "error"
<1>1. /\ TypeOK /\ call[c] \in Entry /\ call[c].phase \notin {"new", "done"}
      /\ Done(c, call[c], a) /\ a # "ok" /\ UNCHANGED <<up, stored, value>>
  BY StoreBasics DEF Failed, UidTurn, OrmTurn, OrmPhase, memory
<1> HIDE DEF a
<1>2. /\ AtSent(call'[c], call[c], "done") /\ answer'[c] # "ok"
      /\ \A d \in Call : d # c => answer'[d] = answer[d]
  BY <1>1, DoneSent
<1> QED BY <1>1, <1>2, OverStore

LEMMA LateStore ==
  ASSUME Inv, StoreInv, NEW c \in Call, Late(c)
  PROVE  StoreMove(c)
<1>1. /\ TypeOK /\ call[c] \in Entry /\ call[c].phase \notin {"new", "done"}
      /\ "done" \in Phase /\ Step(c, call[c], "done") /\ ~ up'
      /\ UNCHANGED answer /\ answer[c] # "ok"
      /\ Carried(c) \/ UNCHANGED stored
  BY StoreBasics DEF Late, UidTurn, OrmTurn, OrmPhase, Phase
<1>2. AtSent(call'[c], call[c], "done")
  BY <1>1, StepSent
<1> QED BY <1>1, <1>2, OverStore

LEMMA UidStoredStore ==
  ASSUME Inv, StoreInv, NEW c \in Call, UidStored(c)
  PROVE  StoreMove(c)
<1>1. /\ TypeOK /\ call[c] \in Entry /\ call[c].phase = "uid" /\ KindOK(call[c])
      /\ "create" \in Phase /\ Step(c, call[c], "create")
      /\ answer[c] # "ok" /\ UNCHANGED <<up, answer, stored, value>>
  BY StoreBasics DEF UidStored, UidTurn, Phase, OrmPhase, memory
<1>2. AtSent(call'[c], call[c], "create")
  BY <1>1, StepSent
<1> QED BY <1>1, <1>2, CarriedStored, SameValue
        DEF StoreMove, KindMove, ValueMove, AnswerMove, KindOK, AtSent, At

LEMMA CreatedStore ==
  ASSUME Inv, StoreInv, NEW c \in Call, Created(c)
  PROVE  StoreMove(c)
<1> DEFINE m == [mapper EXCEPT ![call[c].name] = c]
           b == call[c]
<1>1. /\ TypeOK /\ b \in Entry /\ call[c].phase = "create" /\ c \in Record
      /\ answer[c] # "ok" /\ Carried(c) /\ up /\ UNCHANGED up
      /\ \/ b.kind = "register" /\ Done(c, b, "ok") /\ UNCHANGED value
         \/ b.kind = "login" /\ Sync(c, b, c, m, Tail(orm))
  BY StoreBasics DEF Created, OrmTurn
<1>2. StoredMove(c) /\ c \in rows'
  <2>1. rows' = rows \cup {c}
    BY <1>1, CarriedFacts
  <2> QED BY <1>1, <2>1, CarriedStored
<1> HIDE DEF m
<1>3. CASE b.kind = "register" /\ Done(c, b, "ok") /\ UNCHANGED value
  <2>1. /\ call'[c].phase = "done" /\ call'[c].kind = "register" /\ call'[c].row = b.row
        /\ \A d \in Call : d # c => answer'[d] = answer[d]
    BY <1>1, <1>3, DoneSent DEF AtSent, At
  <2> QED BY <1>1, <1>2, <1>3, <2>1, SameValue
          DEF StoreMove, KindMove, ValueMove, AnswerMove, KindOK
<1>4. CASE b.kind = "login" /\ Sync(c, b, c, m, Tail(orm))
  <2>1. /\ \A s \in Record : value'[s] >= value[s]
        /\ \A d \in Call : d # c => answer'[d] = answer[d]
        /\ answer'[c] # "ok"
        /\ call'[c].kind = "login" /\ call'[c].row = b.row
        /\ \/ call'[c].phase = "save" /\ call'[c].rec = c /\ call'[c].sent = value'[c]
           \/ call'[c].phase = "done"
    <3> HIDE DEF b
    <3> QED BY <1>1, <1>4, SyncSent
  <2> QED BY <1>1, <1>2, <2>1 DEF StoreMove, KindMove, ValueMove, AnswerMove, KindOK
<1> QED BY <1>1, <1>3, <1>4

LEMMA AuthenticatedStore ==
  ASSUME Inv, StoreInv, NEW c \in Call, Authenticated(c)
  PROVE  StoreMove(c)
<1> DEFINE b == call[c]
<1>1. /\ TypeOK /\ b \in Entry /\ call[c].phase = "auth" /\ b.kind = "login"
      /\ answer[c] # "ok" /\ UNCHANGED <<up, stored>>
      /\ \/ Update(c, b)
         \/ Register(c, b) /\ UNCHANGED value
  BY StoreBasics DEF Authenticated, KindOK
<1>2. /\ \A s \in Record : value'[s] >= value[s]
      /\ \A d \in Call : d # c => answer'[d] = answer[d]
      /\ answer'[c] # "ok"
      /\ call'[c].phase \in {"find", "uid", "done"}
      /\ call'[c].kind = b.kind /\ call'[c].row = b.row
  <2> HIDE DEF b
  <2>1. CASE Update(c, b)
    BY <1>1, <2>1, UpdateSent
  <2>2. CASE Register(c, b) /\ UNCHANGED value
    BY <1>1, <2>2, RegisterSent, SameValue
  <2> QED BY <1>1, <2>1, <2>2
<1> QED BY <1>1, <1>2, CarriedStored
        DEF StoreMove, KindMove, ValueMove, AnswerMove, KindOK

LEMMA FoundStore ==
  ASSUME Inv, StoreInv, NEW c \in Call, Found(c)
  PROVE  StoreMove(c)
<1> DEFINE b == call[c]
           r == First(rows, call[c].name)
           e == [b EXCEPT !.phase = "write", !.row = r]
<1>1. /\ TypeOK /\ b \in Entry /\ call[c].phase = "find" /\ KindOK(b)
      /\ answer[c] # "ok" /\ up /\ UNCHANGED <<up, stored, value>>
      /\ rows \in SUBSET Record /\ call \in [Record -> Entry] /\ c \in Record
      /\ b.kind # "change"
  BY StoreBasics, CallEntry DEF Found, OrmTurn, TypeOK, memory, KindOK
<1>2. \/ r # None /\ call' = [call EXCEPT ![c].phase = "write", ![c].row = r] /\ UNCHANGED answer
      \/ Done(c, b, "error")
  BY DEF Found
<1>3. r # None => r \in rows /\ r \in Record /\ NameOf(r) = b.name
  <2>1. r # None => Named(rows, b.name) # {}
    BY DEF First
  <2> QED BY <1>1, <2>1, FirstFacts
<1> HIDE DEF r
<1>4. CASE r # None /\ call' = [call EXCEPT ![c].phase = "write", ![c].row = r] /\ UNCHANGED answer
  <2>1. call' = [call EXCEPT ![c] = e]
    BY <1>1, <1>4
  <2>2. /\ e.phase = "write" /\ e.row = r /\ e.kind = b.kind /\ e.name = b.name
        /\ e \in Entry
    BY <1>1, <1>3, <1>4 DEF Entry, Phase, OrmPhase
  <2> HIDE DEF e
  <2>3. call'[c] = e
    BY <1>1, <2>1
  <2> QED BY <1>1, <1>3, <1>4, <2>2, <2>3, CarriedStored, SameValue
          DEF StoreMove, KindMove, ValueMove, AnswerMove, KindOK
<1>5. CASE Done(c, b, "error")
  <2>1. /\ AtSent(call'[c], b, "done") /\ answer'[c] # "ok"
        /\ \A d \in Call : d # c => answer'[d] = answer[d]
    BY <1>1, <1>5, DoneSent
  <2> QED BY <1>1, <2>1, OverStore
<1> QED BY <1>2, <1>4, <1>5

LEMMA WrittenStore ==
  ASSUME Inv, StoreInv, NEW c \in Call, Written(c)
  PROVE  StoreMove(c)
<1> DEFINE b == call[c]
           r == IF mapper[call[c].name] # None THEN mapper[call[c].name] ELSE call[c].rec
<1>1. /\ TypeOK /\ b \in Entry /\ call[c].phase = "write" /\ call[c].name \in Name
      /\ answer[c] # "ok" /\ Carried(c) /\ up /\ UNCHANGED up
      /\ mapper \in [Name -> Record \cup {None}]
      /\ b.kind = "login" => b.rec \in Record
  BY StoreBasics DEF Written, OrmTurn, TypeOK, Inv, CallInv, Entry
<1>2. \/ b.kind = "update" /\ Done(c, b, "ok") /\ UNCHANGED value
      \/ b.kind = "login" /\ Sync(c, b, r, mapper, Tail(orm))
  BY DEF Written
<1>3. b.kind = "login" => r \in Record
  BY <1>1
<1> HIDE DEF r
<1>4. StoredMove(c)
  BY <1>1, CarriedStored
<1>5. CASE b.kind = "update" /\ Done(c, b, "ok") /\ UNCHANGED value
  <2>1. /\ call'[c].phase = "done" /\ call'[c].kind = "update" /\ call'[c].row = b.row
        /\ \A d \in Call : d # c => answer'[d] = answer[d]
    BY <1>1, <1>5, DoneSent DEF AtSent, At
  <2> QED BY <1>1, <1>4, <1>5, <2>1, SameValue
          DEF StoreMove, KindMove, ValueMove, AnswerMove, KindOK
<1>6. CASE b.kind = "login" /\ Sync(c, b, r, mapper, Tail(orm))
  <2>1. /\ \A s \in Record : value'[s] >= value[s]
        /\ \A d \in Call : d # c => answer'[d] = answer[d]
        /\ answer'[c] # "ok"
        /\ call'[c].kind = "login" /\ call'[c].row = b.row
        /\ \/ call'[c].phase = "save" /\ call'[c].rec = r /\ call'[c].sent = value'[r]
           \/ call'[c].phase = "done"
    <3> HIDE DEF b
    <3> QED BY <1>1, <1>3, <1>6, SyncSent
  <2> QED BY <1>1, <1>4, <2>1 DEF StoreMove, KindMove, ValueMove, AnswerMove, KindOK
<1> QED BY <1>2, <1>5, <1>6

LEMMA SavedStore ==
  ASSUME Inv, StoreInv, NEW c \in Call, Saved(c)
  PROVE  StoreMove(c)
<1> DEFINE b == call[c]
           e == [b EXCEPT !.phase = "save again", !.sent = value[call[c].rec]]
<1>1. /\ TypeOK /\ b \in Entry /\ call[c].phase = "save" /\ KindOK(b)
      /\ answer[c] # "ok" /\ Carried(c) /\ up /\ UNCHANGED <<up, answer, value>>
      /\ call \in [Record -> Entry] /\ c \in Record
      /\ b.kind = "change" /\ b.rec # None => Known(b.rec)
  BY StoreBasics, CallEntry DEF Saved, OrmTurn, memory
<1>2. call' = [call EXCEPT ![c] = e]
  BY <1>1 DEF Saved
<1>3. /\ e.phase = "save again" /\ e.row = b.row /\ e.kind = b.kind /\ e.rec = b.rec
      /\ e.sent = value[b.rec]
  BY <1>1 DEF Entry
<1> HIDE DEF e
<1>4. call'[c] = e
  BY <1>1, <1>2
<1> QED BY <1>1, <1>3, <1>4, CarriedStored, SameValue
        DEF StoreMove, KindMove, ValueMove, AnswerMove, KindOK

LEMMA SavedAgainStore ==
  ASSUME Inv, StoreInv, NEW c \in Call, SavedAgain(c)
  PROVE  StoreMove(c)
<1> DEFINE b == call[c]
<1>1. /\ TypeOK /\ b \in Entry /\ call[c].phase = "save again" /\ KindOK(b)
      /\ answer[c] # "ok" /\ up /\ UNCHANGED <<up, value>>
      /\ stored \in [Record -> Nat] /\ rows \in SUBSET Record
      /\ b.kind = "change" /\ b.rec # None => Known(b.rec)
      /\ b.kind \in {"change", "login"}
  BY StoreBasics DEF SavedAgain, OrmTurn, TypeOK, KindOK
<1>2. \/ Carried(c) /\ Done(c, b, "ok")
      \/ UNCHANGED stored /\ Done(c, b, "error")
  BY DEF SavedAgain
<1>3. CASE Carried(c) /\ Done(c, b, "ok")
  <2>1. /\ call'[c].phase = "done" /\ call'[c].kind = b.kind /\ call'[c].row = b.row
        /\ call'[c].rec = b.rec /\ call'[c].sent = b.sent
        /\ \A d \in Call : d # c => answer'[d] = answer[d]
    BY <1>1, <1>3, DoneSent DEF AtSent, At
  <2>2. b.rec \in rows => stored'[b.rec] = b.sent
    BY <1>1, <1>3 DEF Carried
  <2> QED BY <1>1, <1>3, <2>1, <2>2, CarriedStored, SameValue
          DEF StoreMove, KindMove, ValueMove, AnswerMove, KindOK
<1>4. CASE UNCHANGED stored /\ Done(c, b, "error")
  <2>1. /\ AtSent(call'[c], b, "done") /\ answer'[c] = "error"
        /\ \A d \in Call : d # c => answer'[d] = answer[d]
    <3> HIDE DEF b
    <3> QED BY <1>1, <1>4, DoneSent
  <2> QED BY <1>1, <1>4, <2>1, OverStore
<1> QED BY <1>2, <1>3, <1>4

LEMMA LookedUpStore ==
  ASSUME Inv, StoreInv, NEW c \in Call, LookedUp(c)
  PROVE  StoreMove(c)
<1> DEFINE b == call[c]
           r == First(rows, call[c].name)
           e == [b EXCEPT !.phase = "remove", !.row = r]
<1>1. /\ TypeOK /\ b \in Entry /\ call[c].phase = "lookup" /\ b.kind = "delete"
      /\ answer[c] # "ok" /\ up /\ UNCHANGED <<stored, answer>>
      /\ call \in [Record -> Entry] /\ c \in Record /\ rows \in SUBSET Record
  BY StoreBasics, CallEntry DEF LookedUp, OrmTurn, KindOK, TypeOK
<1>2. \/ /\ call' = [call EXCEPT ![c].phase = "remove", ![c].row = r]
         /\ UNCHANGED <<up, value>>
      \/ Step(c, b, "done") /\ ~ up'
  BY DEF LookedUp, Down, memory
<1>3. r \in Record \cup {None}
  BY <1>1, FirstTypes
<1> HIDE DEF r
<1>4. CASE /\ call' = [call EXCEPT ![c].phase = "remove", ![c].row = r]
           /\ UNCHANGED <<up, value>>
  <2>1. call' = [call EXCEPT ![c] = e]
    BY <1>1, <1>4
  <2>2. e.phase = "remove" /\ e.kind = "delete"
    BY <1>1 DEF Entry
  <2> HIDE DEF e
  <2>3. call'[c] = e
    BY <1>1, <2>1
  <2> QED BY <1>1, <1>4, <2>2, <2>3, CarriedStored, SameValue
          DEF StoreMove, KindMove, ValueMove, AnswerMove, KindOK
<1>5. CASE Step(c, b, "done") /\ ~ up'
  <2>1. AtSent(call'[c], b, "done")
    BY <1>1, <1>5, StepSent DEF Phase
  <2> QED BY <1>1, <1>5, <2>1, OverStore
<1> QED BY <1>2, <1>4, <1>5

LEMMA RemovedStore ==
  ASSUME Inv, StoreInv, NEW c \in Call, Removed(c)
  PROVE  StoreMove(c)
<1> DEFINE b == call[c]
<1>1. /\ TypeOK /\ b \in Entry /\ call[c].phase = "remove" /\ b.kind = "delete"
      /\ answer[c] # "ok" /\ Carried(c) /\ UNCHANGED <<up, value>>
      /\ Done(c, b, "ok") \/ Done(c, b, "none")
  BY StoreBasics DEF Removed, OrmTurn, KindOK
<1>2. /\ call'[c].phase = "done" /\ call'[c].kind = "delete" /\ call'[c].row = b.row
      /\ \A d \in Call : d # c => answer'[d] = answer[d]
  BY <1>1, DoneSent DEF AtSent, At
<1> QED BY <1>1, <1>2, CarriedStored, SameValue
        DEF StoreMove, KindMove, ValueMove, AnswerMove, KindOK

-----------------------------------------------------------------------------
(* Such steps keep the versions in order, and what was answered stored.    *)

LEMMA MoveKind ==
  ASSUME Inv, StoreInv, NEW c \in Call, Move(c), StoreMove(c)
  PROVE  KindInv' /\ AnswerInv'
<1>1. \A d \in Call : d # c => call'[d] = call[d] /\ answer'[d] = answer[d]
  BY RecordFacts DEF Move, CallMove, StoreMove, AnswerMove
<1>2. KindInv'
  BY <1>1 DEF StoreMove, KindMove, StoreInv, KindInv
<1>3. AnswerInv'
  BY <1>1 DEF StoreMove, AnswerMove, StoreInv, AnswerInv
<1> QED BY <1>2, <1>3

LEMMA MoveTarget ==
  ASSUME Inv, StoreInv, NEW c \in Call, Move(c), StoreMove(c)
  PROVE  TargetInv'
<1>1. \A r \in Record : Known(r) => KnownNext(r) /\ call'[r].name = NameOf(r)
  <2>1. ASSUME NEW r \in Record, Known(r) PROVE KnownNext(r) /\ call'[r].name = NameOf(r)
    <3>1. CASE r = c
      BY <2>1, <3>1 DEF Move, CallMove, Known, KnownNext, NameOf
    <3>2. CASE r # c
      BY <2>1, <3>2 DEF Move, CallMove, Known, KnownNext, NameOf
    <3> QED BY <3>1, <3>2
  <2> QED BY <2>1
<1>2. /\ \A d \in Call : d # c => call'[d] = call[d]
      /\ \A d \in Call : call[d].rec \in Record \cup {None} /\ call'[d].rec \in Record \cup {None}
      /\ rows \in SUBSET Record /\ \A r \in rows : Known(r)
  BY RecordFacts DEF Move, CallMove, Inv, TypeOK, UidInv, Entry
<1>3. ASSUME NEW d \in Call, call'[d].kind = "change", call'[d].rec # None
      PROVE  KnownNext(call'[d].rec)
  <2>1. Known(call'[d].rec) /\ call'[d].rec \in Record
    BY <1>2, <1>3 DEF StoreInv, TargetInv, StoreMove, KindMove
  <2> QED BY <1>1, <2>1
<1>4. ASSUME NEW d \in Call, call'[d].phase = "write"
      PROVE  /\ call'[d].row \in Record /\ KnownNext(call'[d].row)
             /\ call'[call'[d].row].name = call'[d].name
  <2>1. /\ call'[d].row \in Record /\ Known(call'[d].row)
        /\ NameOf(call'[d].row) = call'[d].name
    BY <1>2, <1>4 DEF StoreInv, TargetInv, StoreMove, KindMove
  <2> QED BY <1>1, <2>1
<1> QED BY <1>3, <1>4 DEF TargetInv, Known, KnownNext, NameOf

\* A record that may have been overwritten stays so.
LEMMA MoveOverwritten ==
  ASSUME Inv, StoreInv, NEW c \in Call, Move(c), NEW r \in Record, Overwritten(r)
  PROVE  Overwritten(r)'
<1>1. PICK u \in Call : call[u].kind \in {"update", "login"} /\ call[u].name = NameOf(r)
  BY DEF Overwritten
<1>2. call[u].phase # "new" /\ call[u].name \in Name
  BY <1>1 DEF StoreInv, KindInv, KindOK, Inv, CallInv
<1>3. call'[u].kind = call[u].kind /\ call'[u].name = call[u].name
  <2>1. CASE u = c
    BY <1>2, <2>1 DEF Move, CallMove
  <2>2. CASE u # c
    BY <2>2, RecordFacts DEF Move, CallMove
  <2> QED BY <2>1, <2>2
<1>4. NameOf(r)' = NameOf(r)
  <2>1. CASE r = c
    <3>1. call[c].phase # "new"
      BY <1>1, <1>2, <2>1, AccountsAssumption DEF StoreInv, KindInv, KindOK, NameOf
    <3> QED BY <2>1, <3>1 DEF Move, CallMove, NameOf
  <2>2. CASE r # c
    BY <2>2 DEF Move, CallMove, NameOf
  <2> QED BY <2>1, <2>2
<1> QED BY <1>1, <1>3, <1>4 DEF Overwritten

\* What happens to the versions of a record that is not overwritten.
LEMMA MoveVersion ==
  ASSUME Inv, StoreInv, NEW c \in Call, Move(c), StoreMove(c), TypeOK',
         NEW r \in Record, ~ Overwritten(r)'
  PROVE  /\ ~ Overwritten(r)
         /\ up' => up /\ stored'[r] <= value'[r] /\ value[r] <= value'[r]
         /\ \/ stored'[r] = stored[r]
            \/ call[c].phase = "create" /\ r = c /\ stored'[r] = 0
            \/ Saves(c, r) /\ stored'[r] = call[c].sent
<1>1. ~ Overwritten(r)
  BY MoveOverwritten
<1>2. ~ (call[c].phase = "write" /\ r = call[c].row)
  <2>1. ASSUME call[c].phase = "write", r = call[c].row PROVE FALSE
    <3>1. NameOf(r) = call[c].name /\ call[c].kind \in {"update", "login"}
      BY <2>1 DEF StoreInv, TargetInv, KindInv, KindOK
    <3> QED BY <1>1, <3>1 DEF Overwritten
  <2> QED BY <2>1
<1>3. \/ stored'[r] = stored[r]
      \/ call[c].phase = "create" /\ r = c /\ stored'[r] = 0
      \/ Saves(c, r) /\ stored'[r] = call[c].sent
  BY <1>2 DEF StoreMove, StoredMove
<1>4. ASSUME up' PROVE up /\ stored'[r] <= value'[r] /\ value[r] <= value'[r]
  <2>1. /\ up /\ value[r] <= value'[r] /\ stored[r] <= value[r]
        /\ value[r] \in Nat /\ value'[r] \in Nat /\ stored[r] \in Nat
        /\ call[c].sent \in Nat
    BY <1>1, <1>4, RecordFacts
       DEF StoreMove, ValueMove, StoreInv, VersionInv, Inv, TypeOK
  <2>2. CASE Saves(c, r) /\ stored'[r] = call[c].sent
    <3>1. PICK k \in {0, 1} : call[c].phase \in OrmPhase => orm[1] = c /\ Len(orm) >= 1
      BY QueueAfter
    <3>2. orm[1] = c /\ 1 \in 1 .. Len(orm)
      <4>1. Len(orm) \in Nat
        BY DEF Inv, TypeOK
      <4>2. call[c].phase \in OrmPhase
        BY <2>2 DEF Saves, OrmPhase
      <4>3. orm[1] = c /\ Len(orm) >= 1
        BY <3>1, <4>2
      <4> QED BY <4>1, <4>3
    <3>3. call[c].sent <= value[r]
      BY <1>1, <2>1, <2>2, <3>2 DEF StoreInv, VersionInv
    <3> QED BY <2>1, <2>2, <3>3
  <2> QED BY <1>3, <2>1, <2>2
<1> QED BY <1>1, <1>3, <1>4

SavesNext(i, r) ==
  call'[orm'[i]].phase \in {"save", "save again"} /\ call'[orm'[i]].rec = r

LEMMA MoveVersions ==
  ASSUME Inv, StoreInv, NEW c \in Call, Move(c), StoreMove(c), TypeOK'
  PROVE  VersionInv'
<1> SUFFICES ASSUME NEW r \in Record, ~ Overwritten(r)'
             PROVE  /\ up' => stored'[r] <= value'[r]
                    /\ \A i \in 1 .. Len(orm') : SavesNext(i, r) =>
                         /\ stored'[r] <= call'[orm'[i]].sent
                         /\ up' => call'[orm'[i]].sent <= value'[r]
                         /\ \A j \in 1 .. i - 1 :
                              SavesNext(j, r) => call'[orm'[j]].sent <= call'[orm'[i]].sent
  BY DEF VersionInv, Overwritten, NameOf, Saves, SavesNext
<1>1. /\ ~ Overwritten(r)
      /\ up' => up /\ stored'[r] <= value'[r] /\ value[r] <= value'[r]
      /\ \/ stored'[r] = stored[r]
         \/ call[c].phase = "create" /\ r = c /\ stored'[r] = 0
         \/ Saves(c, r) /\ stored'[r] = call[c].sent
  BY MoveVersion
<1>2. \A i \in 1 .. Len(orm) : Saves(orm[i], r) =>
         /\ stored[r] <= call[orm[i]].sent
         /\ up => call[orm[i]].sent <= value[r]
         /\ \A j \in 1 .. i - 1 :
              Saves(orm[j], r) => call[orm[j]].sent <= call[orm[i]].sent
  BY <1>1 DEF StoreInv, VersionInv
<1>3. PICK k \in {0, 1} :
        /\ Len(orm') \in Nat
        /\ call[c].phase \in OrmPhase => k = 1 /\ orm[1] = c /\ Len(orm) >= 1
        /\ \A j \in 1 .. Len(orm') :
             \/ j = Len(orm') /\ orm'[j] = c
             \/ j + k \in 1 .. Len(orm) /\ orm'[j] = orm[j + k] /\ orm'[j] # c
  BY QueueAfter
<1>4. /\ orm \in Seq(Call) /\ Len(orm) \in Nat
      /\ \A d \in Call : d # c => call'[d] = call[d]
      /\ \A d \in Call : call[d].sent \in Nat /\ call'[d].sent \in Nat
      /\ stored[r] \in Nat /\ stored'[r] \in Nat /\ value[r] \in Nat /\ value'[r] \in Nat
  <2>1. \A d \in Call : call[d].sent \in Nat /\ call'[d].sent \in Nat
    BY RecordFacts DEF Inv, TypeOK
  <2>2. stored[r] \in Nat /\ stored'[r] \in Nat /\ value[r] \in Nat /\ value'[r] \in Nat
    BY DEF Inv, TypeOK
  <2>3. orm \in Seq(Call) /\ Len(orm) \in Nat
    BY DEF Inv, TypeOK
  <2> QED BY <2>1, <2>2, <2>3, RecordFacts DEF Move, CallMove
<1> DEFINE Old(i) == /\ i + k \in 1 .. Len(orm) /\ orm'[i] = orm[i + k] /\ orm'[i] # c
                     /\ orm[i + k] \in Call /\ call'[orm'[i]] = call[orm[i + k]]
<1>5. ASSUME NEW i \in 1 .. Len(orm')
      PROVE  (i = Len(orm') /\ orm'[i] = c) \/ Old(i)
  BY <1>3, <1>4
<1>6. ASSUME NEW i \in 1 .. Len(orm'), Old(i), SavesNext(i, r)
      PROVE  /\ stored'[r] <= call'[orm'[i]].sent
             /\ up' => call'[orm'[i]].sent <= value[r] /\ value[r] <= value'[r]
  <2>1. Saves(orm[i + k], r)
    BY <1>6 DEF Saves, SavesNext
  <2>2. stored[r] <= call[orm[i + k]].sent /\ (up => call[orm[i + k]].sent <= value[r])
    BY <1>2, <1>6, <2>1
  <2>3. CASE Saves(c, r) /\ stored'[r] = call[c].sent
    <3>1. k = 1 /\ orm[1] = c /\ i + 1 \in 1 .. Len(orm) /\ 1 \in 1 .. (i + 1) - 1
      <4>1. k = 1 /\ orm[1] = c /\ i + 1 \in 1 .. Len(orm)
        BY <1>3, <1>6, <2>3 DEF Saves, OrmPhase
      <4> QED BY <1>4, <4>1
    <3>2. call[orm[1]].sent <= call[orm[i + 1]].sent
      BY <1>2, <1>6, <2>1, <2>3, <3>1
    <3> QED BY <1>1, <1>6, <2>2, <2>3, <3>1, <3>2
  <2> QED BY <1>1, <1>4, <1>6, <2>2, <2>3
<1>7. ASSUME NEW i \in 1 .. Len(orm'), SavesNext(i, r)
      PROVE  /\ stored'[r] <= call'[orm'[i]].sent
             /\ up' => call'[orm'[i]].sent <= value'[r]
             /\ \A j \in 1 .. i - 1 :
                  SavesNext(j, r) => call'[orm'[j]].sent <= call'[orm'[i]].sent
  <2>1. CASE i = Len(orm') /\ orm'[i] = c
    <3>1. up' /\ call'[c].sent = value'[r]
      BY <1>7, <2>1 DEF SavesNext, StoreMove, ValueMove
    <3>2. ASSUME NEW j \in 1 .. i - 1, SavesNext(j, r)
          PROVE  call'[orm'[j]].sent <= call'[orm'[i]].sent
      <4>1. j \in 1 .. Len(orm') /\ j # Len(orm')
        BY <1>3, <2>1
      <4>2. Old(j)
        BY <1>5, <4>1
      <4>3. call'[orm'[j]].sent <= value[r] /\ value[r] <= value'[r]
            /\ call'[orm'[j]].sent \in Nat
        <5> HIDE DEF Old
        <5>1. call'[orm'[j]].sent <= value[r] /\ value[r] <= value'[r]
          BY <1>6, <3>1, <3>2, <4>1, <4>2
        <5>2. call'[orm'[j]].sent \in Nat
          BY <1>4, <4>2 DEF Old
        <5> QED BY <5>1, <5>2
      <4> QED BY <1>4, <2>1, <3>1, <4>3
    <3> QED BY <1>1, <1>4, <2>1, <3>1, <3>2
  <2>2. CASE Old(i)
    <3>1. stored'[r] <= call'[orm'[i]].sent /\ (up' => call'[orm'[i]].sent <= value'[r])
      <4>1. call'[orm'[i]].sent \in Nat
        BY <1>4, <2>2
      <4> HIDE DEF Old
      <4> QED BY <1>4, <1>6, <1>7, <2>2, <4>1
    <3>2. ASSUME NEW j \in 1 .. i - 1, SavesNext(j, r)
          PROVE  call'[orm'[j]].sent <= call'[orm'[i]].sent
      <4>1. j \in 1 .. Len(orm') /\ j # Len(orm') /\ j + k \in 1 .. (i + k) - 1
        BY <1>3
      <4>2. Old(j)
        BY <1>5, <4>1
      <4>3. Saves(orm[i + k], r) /\ Saves(orm[j + k], r)
        BY <1>7, <2>2, <3>2, <4>2 DEF Saves, SavesNext
      <4> QED BY <1>2, <2>2, <4>1, <4>2, <4>3
    <3> QED BY <3>1, <3>2
  <2> QED BY <1>5, <2>1, <2>2
<1> QED BY <1>1, <1>7

LEMMA MoveChanges ==
  ASSUME Inv, StoreInv, NEW c \in Call, Move(c), StoreMove(c), TypeOK'
  PROVE  ChangesStored'
<1> SUFFICES ASSUME NEW d \in Call, NEW r, r = call'[d].rec,
                    call'[d].kind = "change", answer'[d] = "ok",
                    r \in rows', stored'[r] < call'[d].sent, ~ Overwritten(r)'
             PROVE  FALSE
  BY DEF ChangesStored, Overwritten, NameOf
<1>1. /\ r \in Record /\ \A e \in Call : e # c => call'[e] = call[e] /\ answer'[e] = answer[e]
      /\ stored \in [Record -> Nat] /\ stored' \in [Record -> Nat]
  BY RecordFacts DEF Inv, TypeOK, Move, CallMove, StoreMove, AnswerMove
<1>2. /\ ~ Overwritten(r)
      /\ \/ stored'[r] = stored[r]
         \/ call[c].phase = "create" /\ r = c /\ stored'[r] = 0
         \/ Saves(c, r) /\ stored'[r] = call[c].sent
  BY <1>1, MoveVersion
<1>3. r \in rows \/ (r = c /\ call[c].phase = "create")
  <2>1. RowMove(c)
    BY DEF Move
  <2>2. CASE rows' = rows \cup {c} /\ call[c].phase = "create"
    BY <2>2
  <2>3. CASE rows' \subseteq rows
    BY <2>3
  <2> QED BY <2>1, <2>2, <2>3 DEF RowMove
<1>6. \A e \in Call : call[e].sent \in Nat
  BY RecordFacts DEF Inv, TypeOK
<1>4. CASE d = c
  <2>1. /\ call[c].phase = "save again" /\ r = call[c].rec /\ call'[c].sent = call[c].sent
        /\ r \in rows => stored'[r] = call[c].sent
    BY <1>4 DEF StoreMove, AnswerMove
  <2>2. r \in rows
    BY <1>3, <2>1
  <2>3. stored'[r] = call[c].sent /\ stored'[r] < call[c].sent /\ call[c].sent \in Nat
    BY <1>4, <1>6, <2>1, <2>2
  <2> QED BY <2>3
<1>5. CASE d # c
  <2>1. /\ call'[d] = call[d] /\ answer[d] = "ok" /\ r = call[d].rec /\ call[d].kind = "change"
        /\ call[d].sent \in Nat
    BY <1>1, <1>5, RecordFacts DEF Inv, TypeOK
  <2>2. ~ (r = c /\ call[c].phase = "create")
    <3>1. Known(r)
      BY <1>1, <2>1, AccountsAssumption DEF StoreInv, TargetInv
    <3> QED BY <3>1 DEF Known
  <2>3. r \in rows /\ stored[r] >= call[d].sent
    <3>1. r \in rows
      BY <1>3, <2>2
    <3>2. ~ (stored[r] < call[d].sent)
      BY <1>2, <2>1, <3>1 DEF StoreInv, AcknowledgedStored, ChangesStored, Overwritten
    <3> QED BY <1>1, <2>1, <3>1, <3>2
  <2>4. CASE Saves(c, r) /\ stored'[r] = call[c].sent
    <3>1. PICK k \in {0, 1} : call[c].phase \in OrmPhase => orm[1] = c /\ Len(orm) >= 1
      BY QueueAfter
    <3>2. orm[1] = c /\ 1 \in 1 .. Len(orm) /\ call[c].sent \in Nat
      <4>1. call[c].phase \in OrmPhase
        BY <2>4 DEF Saves, OrmPhase
      <4>2. orm[1] = c /\ Len(orm) >= 1
        BY <3>1, <4>1
      <4>3. Len(orm) \in Nat /\ call[c].sent \in Nat
        BY <1>6 DEF Inv, TypeOK
      <4> QED BY <4>2, <4>3
    <3>3. stored[r] <= call[c].sent
      BY <1>1, <1>2, <2>4, <3>2 DEF StoreInv, VersionInv
    <3> QED BY <1>1, <2>1, <2>3, <2>4, <3>2, <3>3
  <2> QED BY <1>1, <1>2, <2>1, <2>2, <2>3, <2>4
<1> QED BY <1>4, <1>5

LEMMA MoveRegistered ==
  ASSUME Inv, StoreInv, NEW c \in Call, Move(c), StoreMove(c)
  PROVE  RegisteredStored'
<1> SUFFICES ASSUME NEW d \in Call, call'[d].kind = "register", answer'[d] = "ok",
                    d \notin rows'
             PROVE  \E e \in Call : call'[e].kind = "delete" /\ call'[e].row = d
  BY DEF RegisteredStored
<1>1. \A e \in Call : e # c => call'[e] = call[e] /\ answer'[e] = answer[e]
  BY RecordFacts DEF Move, CallMove, StoreMove, AnswerMove
<1>2. d # c
  BY DEF StoreMove, AnswerMove
<1>3. d \in rows \/ \E e \in Call : call[e].kind = "delete" /\ call[e].row = d
  BY <1>1, <1>2 DEF StoreInv, AcknowledgedStored, RegisteredStored
<1>4. KindOK(call[c]) /\ d # None
  BY RecordFacts, AccountsAssumption DEF StoreInv, KindInv
<1>5. CASE d \in rows
  <2>1. d = call[c].row /\ call[c].phase = "remove"
    BY <1>5 DEF Move, RowMove
  <2>2. call'[c].kind = "delete" /\ call'[c].row = d
    BY <1>4, <2>1 DEF StoreMove, KindMove, Move, CallMove, KindOK
  <2> QED BY <2>2
<1>6. ASSUME NEW e \in Call, call[e].kind = "delete", call[e].row = d
      PROVE  call'[e].kind = "delete" /\ call'[e].row = d
  <2>1. CASE e # c
    BY <1>1, <1>6, <2>1
  <2>2. CASE e = c
    <3>1. call[c].phase \notin {"new", "find", "lookup"}
      BY <1>4, <1>6, <2>2 DEF KindOK
    <3> QED BY <1>6, <2>2, <3>1 DEF StoreMove, KindMove, Move, CallMove
  <2> QED BY <2>1, <2>2
<1> QED BY <1>3, <1>5, <1>6

LEMMA MoveStore ==
  ASSUME Inv, StoreInv, NEW c \in Call, Move(c), StoreMove(c), TypeOK'
  PROVE  StoreInv'
BY MoveKind, MoveTarget, MoveVersions, MoveChanges, MoveRegistered
   DEF StoreInv, AcknowledgedStored

LEMMA CrashStore ==
  ASSUME StoreInv, UNCHANGED <<call, answer, orm, rows, stored>>,
         up' => up /\ UNCHANGED value
  PROVE  StoreInv'
<1>1. KindInv' /\ AnswerInv'
  BY DEF StoreInv, KindInv, AnswerInv
<1>2. TargetInv'
  BY DEF StoreInv, TargetInv, Known, NameOf
<1>3. VersionInv'
  BY DEF StoreInv, VersionInv, Overwritten, Saves, NameOf
<1>4. AcknowledgedStored'
  BY DEF StoreInv, AcknowledgedStored, ChangesStored, RegisteredStored, NameOf
<1> QED BY <1>1, <1>2, <1>3, <1>4 DEF StoreInv

LEMMA RestartStore ==
  ASSUME Inv, StoreInv, Restart
  PROVE  StoreInv'
<1>1. /\ UNCHANGED <<answer, orm, rows, stored>> /\ orm = << >> /\ value' = stored
      /\ call' = [c \in Record |->
                    IF call[c].phase = "new" THEN call[c] ELSE [call[c] EXCEPT !.phase = "done"]]
  BY DEF Restart
<1>2. call \in [Record -> Entry] /\ stored \in [Record -> Nat] /\ rows \in SUBSET Record
  BY DEF Inv, TypeOK, Entry
<1>3. \A c \in Record :
        \/ call[c].phase = "new" /\ call'[c] = call[c]
        \/ call[c].phase # "new" /\ AtSent(call'[c], call[c], "done")
  BY <1>1, <1>2 DEF Entry, At, AtSent
<1>4. \A c \in Record : /\ call'[c].kind = call[c].kind /\ call'[c].name = call[c].name
                        /\ call'[c].rec = call[c].rec /\ call'[c].row = call[c].row
                        /\ call'[c].sent = call[c].sent
                        /\ call'[c].phase \in {"new", "done"}
                        /\ call'[c].phase = "new" => call'[c] = call[c]
                        /\ Known(c) => KnownNext(c)
  BY <1>3 DEF AtSent, At, Known, KnownNext
<1> USE RecordFacts
<1>5. KindInv' /\ AnswerInv'
  <2>1. ASSUME NEW c \in Call PROVE KindOK(call'[c])
    BY <1>4 DEF StoreInv, KindInv, KindOK
  <2>2. ASSUME NEW c \in Call, answer'[c] = "ok" PROVE call'[c].phase = "done"
    BY <1>1, <1>3, <2>2 DEF StoreInv, AnswerInv, AtSent, At
  <2> QED BY <2>1, <2>2 DEF KindInv, AnswerInv
<1>6. TargetInv'
  <2>1. ASSUME NEW c \in Call, call'[c].kind = "change", call'[c].rec # None
        PROVE  KnownNext(call'[c].rec)
    <3>1. call'[c].rec \in Record /\ Known(call'[c].rec)
      BY <1>2, <1>4, <2>1 DEF StoreInv, TargetInv, Entry
    <3> QED BY <1>4, <3>1
  <2>2. \A c \in Call : call'[c].phase # "write"
    BY <1>4
  <2> QED BY <2>1, <2>2 DEF TargetInv, Known, KnownNext
<1>7. VersionInv'
  <2>1. Len(orm') = 0 /\ \A r \in Record : stored'[r] <= value'[r]
    BY <1>1, <1>2
  <2> QED BY <2>1 DEF VersionInv
<1>8. AcknowledgedStored'
  <2>1. ChangesStored'
    <3> SUFFICES ASSUME NEW c \in Call, NEW r, r = call'[c].rec,
                        call'[c].kind = "change", answer'[c] = "ok",
                        r \in rows', stored'[r] < call'[c].sent
                 PROVE  \E u \in Call : /\ call'[u].kind \in {"update", "login"}
                                        /\ call'[u].name = call'[r].name
      BY DEF ChangesStored, NameOf
    <3>1. PICK u \in Call : call[u].kind \in {"update", "login"} /\ call[u].name = call[r].name
      BY <1>1, <1>4 DEF StoreInv, AcknowledgedStored, ChangesStored, NameOf
    <3> QED BY <1>1, <1>2, <1>4, <3>1
  <2>2. RegisteredStored'
    BY <1>1, <1>4 DEF StoreInv, AcknowledgedStored, RegisteredStored
  <2> QED BY <2>1, <2>2 DEF AcknowledgedStored
<1> QED BY <1>5, <1>6, <1>7, <1>8 DEF StoreInv

LEMMA InitStore == Init => StoreInv
<1> SUFFICES ASSUME Init PROVE StoreInv
  OBVIOUS
<1>1. \A c \in Call : /\ call[c] = New("change", None)
                      /\ answer[c] = "none"
  BY RecordFacts DEF Init
<1>2. orm = << >> /\ \A r \in Record : stored[r] = 0 /\ value[r] = 0
  BY DEF Init
<1>3. KindInv /\ TargetInv /\ AnswerInv /\ AcknowledgedStored
  <2>1. \A c \in Call : /\ call[c].phase = "new" /\ call[c].kind = "change"
                        /\ call[c].name = None /\ call[c].rec = None
    BY <1>1 DEF New
  <2>2. AnswerInv /\ AcknowledgedStored
    BY <1>1 DEF AnswerInv, AcknowledgedStored, ChangesStored, RegisteredStored
  <2> QED BY <2>1, <2>2 DEF KindInv, KindOK, TargetInv
<1>4. VersionInv
  BY <1>2 DEF VersionInv
<1> QED BY <1>3, <1>4 DEF StoreInv

LEMMA StepStore == Inv /\ StoreInv /\ [Next]_vars => StoreInv'
<1> SUFFICES ASSUME Inv, StoreInv, [Next]_vars PROVE StoreInv'
  OBVIOUS
<1>1. ASSUME NEW c \in Call, Make(c) PROVE TypeOK' /\ Move(c) /\ StoreMove(c)
  <2>1. TypeOK' /\ Move(c)
    BY <1>1, RegisterMove, ChangeMove, LoginMove, UpdateMove, DeleteMove DEF Make
  <2>2. StoreMove(c)
    BY <1>1, RegisterStore, ChangeStore, LoginStore, UpdateStore, DeleteStore DEF Make
  <2> QED BY <2>1, <2>2
<1>2. ASSUME NEW c \in Call, Answered(c) PROVE TypeOK' /\ Move(c) /\ StoreMove(c)
  <2>1. TypeOK' /\ Move(c)
    BY <1>2, FailedMove, UidStoredMove, CreatedMove, AuthenticatedMove, FoundMove,
       WrittenMove, SavedMove, SavedAgainMove, LookedUpMove, RemovedMove DEF Answered
  <2>2. StoreMove(c)
    BY <1>2, FailedStore, UidStoredStore, CreatedStore, AuthenticatedStore, FoundStore,
       WrittenStore, SavedStore, SavedAgainStore, LookedUpStore, RemovedStore DEF Answered
  <2> QED BY <2>1, <2>2
<1>3. ASSUME NEW c \in Call, Make(c) \/ Answered(c) \/ Late(c) PROVE StoreInv'
  BY <1>1, <1>2, <1>3, LateMove, LateStore, MoveStore
<1>4. CASE Crash
  BY <1>4, CrashStore DEF Crash, Down
<1>5. CASE UNCHANGED vars
  BY <1>5, CrashStore DEF vars, memory
<1> QED BY <1>3, <1>4, <1>5, RestartStore DEF Next

\* What a caller was told is stored, is stored, over crashes and whatever calls
\* overlap, unless an update of the name, or a login that makes one, comes
\* between (datastore.js, sync; account.js, "register success").
THEOREM AcknowledgedIsStored == Spec => []AcknowledgedStored
<1>1. Spec => [](Inv /\ StoreInv)
  BY InitInv, StepInv, InitStore, StepStore, PTL DEF Spec
<1>2. StoreInv => AcknowledgedStored
  BY DEF StoreInv
<1> QED BY <1>1, <1>2, PTL

=============================================================================
