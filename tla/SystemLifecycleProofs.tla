----------------------- MODULE SystemLifecycleProofs -----------------------
(* Proofs, for any systems, calls, depth and number of overlapping requests, *)
(* that no verdict outlives the grammar of its own system; and that until    *)
(* requests overlap, chains are whole, what is published stays as it was     *)
(* built, and verdicts are current in every layer.                           *)
EXTENDS SystemLifecycleProps, WellFoundedInduction, TLAPS

----------------------------------------------------------------------------
(* Reading a chain.                                                          *)

\* The lengths of a system's walks have a greatest, so the chain is a walk.
LEMMA ChainIsWalk ==
  ASSUME NEW d, NEW s \in Systems
  PROVE  /\ ChainOf(d, s) \in Walks(d, s)
         /\ \A e \in Walks(d, s) : Len(e) <= Len(ChainOf(d, s))
<1> DEFINE W == Walks(d, s)
           short(c) == MaxDepth - Len(c)
           T == {short(c) : c \in W}
<1>1. \A c \in W : Len(c) \in 1..MaxDepth
  BY DepthAssumption DEF Walks
<1>2. T \subseteq Nat
  BY <1>1, DepthAssumption
<1>3. T # {}
  <2>1. <<s>> \in W
    <3>1. <<s>> \in [1..1 -> Systems] /\ 1 \in 1..MaxDepth
      BY DepthAssumption
    <3>2. Len(<<s>>) = 1 /\ <<s>>[1] = s
      OBVIOUS
    <3>  QED BY <3>1, <3>2 DEF Walks
  <2>  QED BY <2>1
<1>4. PICK m \in T : \A k \in T : ~ (<<k, m>> \in OpToRel(<, Nat))
  <2> HIDE DEF T
  <2>  QED BY <1>2, <1>3, WFMin, NatLessThanWellFounded
<1>5. \A k \in T : ~(k < m)
  BY <1>2, <1>4 DEF OpToRel
<1>6. PICK c \in W : m = short(c)
  BY <1>4
<1>7. \A e \in W : Len(e) <= Len(c)
  <2> TAKE e \in W
  <2>1. short(e) \in T /\ ~(short(e) < short(c))
    BY <1>5, <1>6
  <2>  QED BY <2>1, <1>1, DepthAssumption
<1> HIDE DEF W
<1>  QED BY <1>7 DEF ChainOf, W

\* A chain starts at its system; what comes next is the system's parent, and
\* a chain of one that is whole has none.
LEMMA ChainStarts ==
  ASSUME NEW d, NEW s \in Systems
  PROVE  LET c == ChainOf(d, s) IN
         /\ c \in Seq(Systems) /\ Len(c) \in Nat \ {0}
         /\ c[1] = s
         /\ Len(c) > 1 => c[2] = d.parent[s]
         /\ ~Truncated(d, c) /\ Len(c) = 1 => d.parent[s] = None
<1> DEFINE c == ChainOf(d, s)
<1>0. c \in Walks(d, s)
  BY ChainIsWalk
<1> HIDE DEF c
<1>1. PICK n \in 1..MaxDepth : c \in [1..n -> Systems]
  BY <1>0 DEF Walks
<1>2. /\ c[1] = s
      /\ \A i \in 2..Len(c) : d.parent[c[i - 1]] = c[i]
  BY <1>0 DEF Walks
<1>3. n \in Nat \ {0}
  BY DepthAssumption
<1>4. c \in Seq(Systems) /\ Len(c) = n
  BY <1>1, <1>3
<1>5. Len(c) > 1 => c[2] = d.parent[s]
  BY <1>2, <1>3, <1>4
<1>6. ~Truncated(d, c) /\ Len(c) = 1 => d.parent[s] = None
  BY <1>2 DEF Truncated
<1>  QED BY <1>2, <1>3, <1>4, <1>5, <1>6 DEF c

----------------------------------------------------------------------------
(* Types.                                                                    *)

LEMMA OperationType ==
  ASSUME NEW op \in Operations
  PROVE  /\ op.sys \in Systems
         /\ op.kind \in {"create", "part", "patch", "verify", "delete"}
         /\ op.kind = "create" => op.parent \in Systems \cup {None}
         /\ op.kind = "part" => op.to \in Parts
         /\ op.kind = "patch" => /\ op.parent \in Systems \cup {None, Keep}
                                 /\ op.token \in BOOLEAN \cup {Keep}
                                 /\ op.publish \in BOOLEAN
BY OperationsAssumption DEF AllOperations

\* What is under way is a call, and what is idle is not.
LEMMA CallType ==
  ASSUME TypeOK, NEW r \in Requests, req[r].stage # "idle"
  PROVE  /\ req[r] \in Calls
         /\ req[r].op \in Operations
         /\ req[r].op.sys \in Systems
BY OperationType DEF TypeOK, Idle, Calls

LEMMA UncheckedType == Unchecked \in Verdicts
BY DEF Unchecked, Verdicts

LEMMA EffectiveType ==
  ASSUME TypeOK, NEW s \in Systems
  PROVE  Effective(db, s) \in Verdicts
<1> DEFINE c == ChainOf(db, s)
<1>1. c \in Seq(Systems) /\ DOMAIN c = 1..Len(c) /\ Len(c) \in Nat
  BY ChainStarts
<1>2. Effective(db, s) = [i \in DOMAIN c |-> <<c[i], db.parts[c[i]]>>]
  BY DEF Effective
<1> HIDE DEF c
<1>3. \A i \in DOMAIN c : <<c[i], db.parts[c[i]]>> \in Systems \X Parts
  BY <1>1 DEF TypeOK, Databases
<1>  QED BY <1>1, <1>2, <1>3 DEF Verdicts

LEMMA TypeInit == Init => TypeOK
BY DEF Init, TypeOK, Databases, Statuses, Parts, Unchecked, Verdicts

\* What each commit leaves in each column.
LEMMA CreateEffect ==
  ASSUME TypeOK, NEW r \in Requests, FinishCreate(r), db' # db
  PROVE  LET s == req[r].op.sys IN
         db' = [status  |-> [db.status EXCEPT ![s] = "draft"],
                parent  |-> [db.parent EXCEPT ![s] = req[r].op.parent],
                parts   |-> db.parts,
                token   |-> db.token,
                verdict |-> db.verdict]
<1> DEFINE s == req[r].op.sys
           d == [db EXCEPT !.status[s] = "draft"]
<1>1. db' = [d EXCEPT !.parent[s] = req[r].op.parent]
  BY DEF FinishCreate, Commit, Refuse
<1>2. d = [status |-> [db.status EXCEPT ![s] = "draft"], parent |-> db.parent,
           parts |-> db.parts, token |-> db.token, verdict |-> db.verdict]
  BY DEF TypeOK, Databases
<1> HIDE DEF d
<1>  QED BY <1>1, <1>2

LEMMA PartEffect ==
  ASSUME TypeOK, NEW r \in Requests, FinishPart(r), db' # db
  PROVE  LET s == req[r].op.sys IN
         db' = [status  |-> db.status,
                parent  |-> db.parent,
                parts   |-> [db.parts EXCEPT ![s] = req[r].op.to],
                token   |-> db.token,
                verdict |-> [db.verdict EXCEPT ![s] = Unchecked]]
<1> DEFINE s == req[r].op.sys
           d == DiscardSystemChecks(db, s)
<1>1. db' = [d EXCEPT !.parts[s] = req[r].op.to]
  BY DEF FinishPart, Commit, Refuse
<1>2. d = [status |-> db.status, parent |-> db.parent, parts |-> db.parts,
           token |-> db.token, verdict |-> [db.verdict EXCEPT ![s] = Unchecked]]
  BY DEF TypeOK, Databases, DiscardSystemChecks
<1> HIDE DEF d
<1>  QED BY <1>1, <1>2

LEMMA PatchEffect ==
  ASSUME TypeOK, NEW r \in Requests, FinishPatch(r), db' # db
  PROVE  LET q == req[r]
             s == q.op.sys
         IN
         db' = [status  |-> [db.status EXCEPT ![s] = IF q.op.publish THEN "published" ELSE @],
                parent  |-> [db.parent EXCEPT ![s] = IF Repoints(q) THEN q.op.parent ELSE @],
                parts   |-> db.parts,
                token   |-> [db.token EXCEPT
                              ![s] = IF q.op.token \notin {Keep, q.row.token} THEN q.op.token ELSE @],
                verdict |-> IF Repoints(q) THEN [db.verdict EXCEPT ![s] = Unchecked]
                            ELSE db.verdict]
<1> DEFINE q == req[r]
           s == q.op.sys
           d == IF Repoints(q) THEN DiscardSystemChecks(db, s) ELSE db
           e == [d EXCEPT !.parent[s] = IF Repoints(q) THEN q.op.parent ELSE @]
           f == [e EXCEPT !.token[s] = IF q.op.token \notin {Keep, q.row.token}
                                       THEN q.op.token ELSE @]
<1>1. db' = [f EXCEPT !.status[s] = IF q.op.publish THEN "published" ELSE @]
  BY DEF FinishPatch, Commit, Refuse
<1>2. d = [status |-> db.status, parent |-> db.parent, parts |-> db.parts, token |-> db.token,
           verdict |-> IF Repoints(q) THEN [db.verdict EXCEPT ![s] = Unchecked] ELSE db.verdict]
  BY DEF TypeOK, Databases, DiscardSystemChecks
<1> HIDE DEF d
<1>3. e = [status |-> db.status,
           parent |-> [db.parent EXCEPT ![s] = IF Repoints(q) THEN q.op.parent ELSE @],
           parts |-> db.parts, token |-> db.token,
           verdict |-> IF Repoints(q) THEN [db.verdict EXCEPT ![s] = Unchecked] ELSE db.verdict]
  BY <1>2
<1> HIDE DEF e
<1>4. f = [status |-> db.status,
           parent |-> [db.parent EXCEPT ![s] = IF Repoints(q) THEN q.op.parent ELSE @],
           parts |-> db.parts,
           token |-> [db.token EXCEPT
                       ![s] = IF q.op.token \notin {Keep, q.row.token} THEN q.op.token ELSE @],
           verdict |-> IF Repoints(q) THEN [db.verdict EXCEPT ![s] = Unchecked] ELSE db.verdict]
  BY <1>3
<1> HIDE DEF f
<1>  QED BY <1>1, <1>4

LEMMA DeleteEffect ==
  ASSUME TypeOK, NEW r \in Requests, FinishDelete(r), db' # db
  PROVE  LET s == req[r].op.sys IN
         db' = [status  |-> [db.status EXCEPT ![s] = "gone"],
                parent  |-> [c \in Systems |-> IF c = s \/ db.parent[c] = s THEN None ELSE db.parent[c]],
                parts   |-> db.parts,
                token   |-> db.token,
                verdict |-> [db.verdict EXCEPT ![s] = Unchecked]]
<1> DEFINE s == req[r].op.sys
           d == DiscardSystemChecks(db, s)
           e == [d EXCEPT !.status[s] = "gone"]
<1>1. db' = [e EXCEPT !.parent = [c \in Systems |-> IF c = s \/ @[c] = s THEN None ELSE @[c]]]
  BY DEF FinishDelete, Commit, Refuse
<1>2. d = [status |-> db.status, parent |-> db.parent, parts |-> db.parts,
           token |-> db.token, verdict |-> [db.verdict EXCEPT ![s] = Unchecked]]
  BY DEF TypeOK, Databases, DiscardSystemChecks
<1> HIDE DEF d
<1>3. e = [status |-> [db.status EXCEPT ![s] = "gone"], parent |-> db.parent, parts |-> db.parts,
           token |-> db.token, verdict |-> [db.verdict EXCEPT ![s] = Unchecked]]
  BY <1>2
<1> HIDE DEF e
<1>  QED BY <1>1, <1>3

LEMMA VerifyEffect ==
  ASSUME TypeOK, NEW r \in Requests, FinishVerify(r), db' # db
  PROVE  LET s == req[r].op.sys IN
         db' = [status  |-> db.status, parent |-> db.parent, parts |-> db.parts, token |-> db.token,
                verdict |-> [db.verdict EXCEPT ![s] = req[r].row]]
BY DEF FinishVerify, Commit, Refuse, TypeOK, Databases

\* Whichever way a request ends, it is idle and holds no key.
LEMMA FinishEnds ==
  ASSUME TypeOK, NEW r \in Requests, Finish(r) \/ Refuse(r)
  PROVE  /\ req' = [req EXCEPT ![r] = Idle]
         /\ lock' = [s \in Systems |-> IF lock[s] = r THEN None ELSE lock[s]]
BY DEF Finish, FinishCreate, FinishPart, FinishPatch, FinishDelete, FinishVerify,
       Refuse, Commit, End

\* What each stage is a stage of, and what a verify that has read holds.
Staged ==
  \A r \in Requests :
    /\ req[r].stage = "loaded" => req[r].op.kind = "patch"
    /\ req[r].stage = "entered" => req[r].op.kind = "verify"
    /\ req[r].stage = "ready" /\ req[r].op.kind = "verify" => req[r].row \in Verdicts

LEMMA TypeNext == TypeOK /\ Staged /\ [Next]_vars => TypeOK'
<1> SUFFICES ASSUME TypeOK, Staged, [Next]_vars PROVE TypeOK'
  OBVIOUS
<1>1. ASSUME NEW r \in Requests, NEW op \in Operations, Begin(r, op)
      PROVE  TypeOK'
  <2>1. RowFor(op) \in Rows
    BY OperationType DEF TypeOK, Databases, RowFor, Rows
  <2>2. [stage |-> FirstStage(op), op |-> op, row |-> RowFor(op)] \in Calls
    BY <2>1 DEF FirstStage, Calls
  <2>  QED BY <1>1, <2>2 DEF Begin, TypeOK
<1>2. ASSUME NEW r \in Requests, CheckParent(r)
      PROVE  TypeOK'
  <2>1. req[r] \in Calls
    BY <1>2, CallType DEF CheckParent
  <2>2. CASE Refuse(r)
    BY <2>2, FinishEnds DEF Refuse, TypeOK
  <2>3. CASE ~Refuse(r)
    <3>1. \A x \in {"waiting", "ready"} : [req[r] EXCEPT !.stage = x] \in Calls
      BY <2>1 DEF Calls
    <3>2. PICK x \in {"waiting", "ready"} : req' = [req EXCEPT ![r] = [req[r] EXCEPT !.stage = x]]
      BY <1>2, <2>3 DEF CheckParent
    <3>  QED BY <1>2, <2>3, <3>1, <3>2 DEF CheckParent, TypeOK
  <2>  QED BY <2>2, <2>3
<1>3. ASSUME NEW r \in Requests, Enter(r)
      PROVE  TypeOK'
  <2>1. req[r] \in Calls /\ req[r].op.sys \in Systems
    BY <1>3, CallType DEF Enter
  <2>2. \A x \in {"entered", "ready"} : [req[r] EXCEPT !.stage = x] \in Calls
    BY <2>1 DEF Calls
  <2>3. PICK x \in {"entered", "ready"} : req' = [req EXCEPT ![r] = [req[r] EXCEPT !.stage = x]]
    BY <1>3 DEF Enter
  <2>  QED BY <1>3, <2>1, <2>2, <2>3 DEF Enter, TypeOK
<1>4. ASSUME NEW r \in Requests, Read(r)
      PROVE  TypeOK'
  <2>1. req[r] \in Calls /\ req[r].op.sys \in Systems
    BY <1>4, CallType DEF Read
  <2> DEFINE row == IF Loads(db, req[r].op.sys) THEN Effective(db, req[r].op.sys) ELSE Unchecked
             ready == [req[r] EXCEPT !.stage = "ready"]
  <2>2. row \in Rows
    BY <2>1, EffectiveType DEF Rows, Verdicts, Unchecked
  <2>3. req' = [req EXCEPT ![r] = [ready EXCEPT !.row = row]]
    BY <1>4 DEF Read
  <2> HIDE DEF row
  <2>4. ready \in Calls
    BY <2>1 DEF Calls
  <2> HIDE DEF ready
  <2>5. [ready EXCEPT !.row = row] \in Calls
    BY <2>2, <2>4 DEF Calls
  <2>  QED BY <1>4, <2>3, <2>5 DEF Read, TypeOK
<1>5. ASSUME NEW r \in Requests, Finish(r)
      PROVE  TypeOK'
  <2>1. /\ req[r] \in Calls
        /\ req[r].op \in Operations
        /\ req[r].op.sys \in Systems
    BY <1>5, CallType DEF Finish, FinishCreate, FinishPart, FinishPatch, FinishDelete, FinishVerify, Ready
  <2>2. SUFFICES ASSUME db' # db PROVE db' \in Databases
    BY FinishEnds, <1>5 DEF TypeOK
  <2>3. CASE FinishCreate(r)
    <3>1. req[r].op.parent \in Systems \cup {None}
      BY <2>1, <2>3, OperationType DEF FinishCreate, Ready
    <3>  QED BY <2>1, <2>2, <2>3, <3>1, CreateEffect DEF TypeOK, Databases, Statuses
  <2>4. CASE FinishPart(r)
    <3>1. req[r].op.to \in Parts
      BY <2>1, <2>4, OperationType DEF FinishPart, Ready
    <3>2. [db.verdict EXCEPT ![req[r].op.sys] = Unchecked] \in [Systems -> Verdicts]
      BY UncheckedType DEF TypeOK, Databases
    <3>  QED BY <2>1, <2>2, <2>4, <3>1, <3>2, PartEffect DEF TypeOK, Databases
  <2>5. CASE FinishPatch(r)
    <3>1. /\ req[r].op.parent \in Systems \cup {None, Keep}
          /\ req[r].op.token \in BOOLEAN \cup {Keep}
      BY <2>1, <2>5, OperationType DEF FinishPatch, Ready
    <3>2. (IF Repoints(req[r]) THEN req[r].op.parent ELSE db.parent[req[r].op.sys]) \in Systems \cup {None}
      BY <2>1, <3>1 DEF TypeOK, Databases, Repoints
    <3>3. (IF req[r].op.token \notin {Keep, req[r].row.token} THEN req[r].op.token
           ELSE db.token[req[r].op.sys]) \in BOOLEAN
      BY <2>1, <3>1 DEF TypeOK, Databases
    <3>4. (IF Repoints(req[r]) THEN [db.verdict EXCEPT ![req[r].op.sys] = Unchecked]
           ELSE db.verdict) \in [Systems -> Verdicts]
      BY <2>1, UncheckedType DEF TypeOK, Databases
    <3>5. (IF req[r].op.publish THEN "published" ELSE db.status[req[r].op.sys]) \in Statuses
      BY <2>1 DEF TypeOK, Databases, Statuses
    <3>  QED BY <2>1, <2>2, <2>5, <3>2, <3>3, <3>4, <3>5, PatchEffect DEF TypeOK, Databases
  <2>6. CASE FinishDelete(r)
    <3>1. /\ [db.verdict EXCEPT ![req[r].op.sys] = Unchecked] \in [Systems -> Verdicts]
          /\ [db.status EXCEPT ![req[r].op.sys] = "gone"] \in [Systems -> Statuses]
      BY UncheckedType DEF TypeOK, Databases, Statuses
    <3>2. [c \in Systems |-> IF c = req[r].op.sys \/ db.parent[c] = req[r].op.sys
                            THEN None ELSE db.parent[c]] \in [Systems -> Systems \cup {None}]
      BY DEF TypeOK, Databases
    <3>  QED BY <2>1, <2>2, <2>6, <3>1, <3>2, DeleteEffect DEF TypeOK, Databases
  <2>7. CASE FinishVerify(r)
    <3>1. req[r].row \in Verdicts
      BY <2>7 DEF Staged, FinishVerify, Ready
    <3>2. [db.verdict EXCEPT ![req[r].op.sys] = req[r].row] \in [Systems -> Verdicts]
      BY <3>1 DEF TypeOK, Databases
    <3>  QED BY <2>1, <2>2, <2>7, <3>2, VerifyEffect DEF TypeOK, Databases
  <2>  QED BY <1>5, <2>3, <2>4, <2>5, <2>6, <2>7 DEF Finish
<1>6. CASE UNCHANGED vars
  BY <1>6 DEF vars, TypeOK
<1>  QED BY <1>1, <1>2, <1>3, <1>4, <1>5, <1>6 DEF Next

----------------------------------------------------------------------------
(* How requests move.                                                        *)

\* One request makes the step.
Acts(r) == \/ \E op \in Operations : Begin(r, op)
           \/ CheckParent(r) \/ Enter(r) \/ Read(r) \/ Finish(r)

LEMMA OthersStay ==
  ASSUME TypeOK, NEW r \in Requests, Acts(r)
  PROVE  \A q \in Requests \ {r} : req'[q] = req[q]
BY FinishEnds DEF Acts, Begin, CheckParent, Enter, Read, TypeOK

\* A call goes through its stages with what it was asked.
LEMMA StageMoves ==
  ASSUME TypeOK, Staged, NEW r \in Requests, Acts(r), req'[r].stage # "idle", req[r].stage # "idle"
  PROVE  /\ req'[r].op = req[r].op
         /\ req'[r].stage \in {"waiting", "entered", "ready"}
         /\ db' = db
         /\ \/ /\ CheckParent(r) /\ req'[r].row = req[r].row
               /\ req'[r].stage = IF Repoints(req[r]) THEN "waiting" ELSE "ready"
            \/ /\ Enter(r) /\ req'[r].row = req[r].row
               /\ req'[r].stage = IF req[r].op.kind = "verify" THEN "entered" ELSE "ready"
            \/ /\ Read(r) /\ req'[r].stage = "ready"
               /\ req'[r].row = IF Loads(db, req[r].op.sys) THEN Effective(db, req[r].op.sys)
                                ELSE Unchecked
<1>1. req[r] \in Calls
  BY CallType
<1>2. ~Finish(r) /\ ~Refuse(r)
  BY FinishEnds DEF TypeOK, Idle
<1>3. \A op : ~Begin(r, op)
  BY DEF Begin, Idle
<1>4. CASE CheckParent(r)
  BY <1>1, <1>2, <1>4 DEF CheckParent, TypeOK, Calls
<1>5. CASE Enter(r)
  BY <1>1, <1>5 DEF Enter, TypeOK, Calls
<1>6. CASE Read(r)
  BY <1>1, <1>6 DEF Read, TypeOK, Calls
<1>  QED BY <1>2, <1>3, <1>4, <1>5, <1>6 DEF Acts

----------------------------------------------------------------------------
(* The inductive invariant.                                                  *)

\* Whoever is to write, or to store what it read, under the system's key holds it.
Writes(r) ==
  \/ req[r].stage = "entered"
  \/ /\ req[r].stage = "ready"
     /\ \/ req[r].op.kind \in {"part", "verify"}
        \/ req[r].op.kind = "patch" /\ Repoints(req[r])

Held == \A r \in Requests : Writes(r) => lock[req[r].op.sys] = r

\* A system is new until its one creation ends; nothing else is asked of it.
NewUntouched ==
  /\ \A s \in Systems : db.status[s] = "new" => db.verdict[s] = Unchecked
  /\ \A r \in Requests : req[r].stage # "idle" =>
       IF req[r].op.kind = "create"
       THEN /\ db.status[req[r].op.sys] = "new"
            /\ \A q \in Requests \ {r} : req[q].stage # "idle" => req[q].op.sys # req[r].op.sys
       ELSE db.status[req[r].op.sys] # "new"

\* What a verdict was reached under is the system's own layer, below the parent
\* it has, or had until that was deleted.
UnderOwn(d, v, s) ==
  v # Unchecked =>
    /\ v[1] = <<s, d.parts[s]>>
    /\ \/ Len(v) = 1 /\ d.parent[s] = None
       \/ /\ Len(v) > 1 /\ v[2][1] \in Systems
          /\ \/ d.parent[s] = v[2][1]
             \/ d.parent[s] = None /\ d.status[v[2][1]] = "gone"

VerdictsCurrent == \A s \in Systems : UnderOwn(db, db.verdict[s], s)

ReadingsCurrent ==
  \A r \in Requests :
    req[r].stage = "ready" /\ req[r].op.kind = "verify" /\ db.status[req[r].op.sys] # "gone"
      => UnderOwn(db, req[r].row, req[r].op.sys)

IInv == TypeOK /\ Staged /\ Held /\ NewUntouched /\ VerdictsCurrent /\ ReadingsCurrent

\* A chain that loads is one its system's own parts and parent begin.
LEMMA EffectiveUnderOwn ==
  ASSUME TypeOK, NEW s \in Systems, Loads(db, s)
  PROVE  UnderOwn(db, Effective(db, s), s)
<1> DEFINE c == ChainOf(db, s)
           v == Effective(db, s)
<1>1. /\ c \in Seq(Systems) /\ Len(c) \in Nat \ {0} /\ DOMAIN c = 1..Len(c)
      /\ c[1] = s
      /\ Len(c) > 1 => c[2] = db.parent[s]
      /\ Len(c) = 1 => db.parent[s] = None
  BY ChainStarts DEF Loads
<1>2. v = [i \in DOMAIN c |-> <<c[i], db.parts[c[i]]>>]
  BY DEF Effective
<1> HIDE DEF c, v
<1>3. Len(v) = Len(c) /\ v[1] = <<s, db.parts[s]>>
  BY <1>1, <1>2
<1>4. Len(c) > 1 => v[2][1] = db.parent[s] /\ db.parent[s] \in Systems
  <2> SUFFICES ASSUME Len(c) > 1 PROVE v[2][1] = db.parent[s] /\ db.parent[s] \in Systems
    OBVIOUS
  <2>1. 2 \in DOMAIN c /\ c[2] \in Systems
    BY <1>1
  <2>  QED BY <1>1, <1>2, <2>1
<1>5. Len(c) = 1 \/ Len(c) > 1
  BY <1>1
<1>  QED BY <1>1, <1>3, <1>4, <1>5 DEF UnderOwn, v

\* It stays so while the parts stay, and the parent stays or is deleted.
LEMMA UnderOwnKept ==
  ASSUME NEW s \in Systems, NEW v, UnderOwn(db, v, s),
         db'.parts[s] = db.parts[s],
         \A x \in Systems : db.status[x] = "gone" => db'.status[x] = "gone",
         \/ db'.parent[s] = db.parent[s]
         \/ db'.parent[s] = None /\ db'.status[db.parent[s]] = "gone"
  PROVE  UnderOwn(db', v, s)
BY DEF UnderOwn

----------------------------------------------------------------------------
(* What a commit does to the system it is about, and to the others.          *)

LEMMA CommitMoves ==
  ASSUME IInv, NEW r \in Requests, Finish(r), db' # db
  PROVE  LET s == req[r].op.sys IN
         /\ \A x \in Systems :
              /\ db.status[x] = "gone" => db'.status[x] = "gone"
              /\ db'.status[x] = "new" => db.status[x] = "new" /\ x # s
         /\ \A x \in Systems \ {s} :
              /\ db'.parts[x] = db.parts[x]
              /\ db'.verdict[x] = db.verdict[x]
              /\ db'.status[x] = db.status[x]
              /\ \/ db'.parent[x] = db.parent[x]
                 \/ db'.parent[x] = None /\ db'.status[db.parent[x]] = "gone"
         /\ \/ /\ db'.parts[s] = db.parts[s] /\ db'.parent[s] = db.parent[s]
               /\ \/ db'.verdict[s] = db.verdict[s]
                  \/ /\ db'.verdict[s] = req[r].row /\ req[r].stage = "ready"
                     /\ req[r].op.kind = "verify" /\ db.status[s] # "gone"
            \/ /\ db'.verdict[s] = Unchecked
               /\ \/ lock[s] = r
                  \/ db'.status[s] = "gone"
                  \/ req[r].op.kind = "create"
<1> DEFINE s == req[r].op.sys
<1> USE DEF IInv
<1>1. req[r].stage = "ready" /\ s \in Systems /\ req[r].op \in Operations
  BY CallType DEF Finish, FinishCreate, FinishPart, FinishPatch, FinishDelete, FinishVerify, Ready
<1>2. CASE FinishCreate(r)
  <2>1. req[r].op.kind = "create"
    BY <1>2 DEF FinishCreate, Ready
  <2>2. db.status[s] = "new" /\ db.verdict[s] = Unchecked
    BY <1>1, <2>1 DEF NewUntouched
  <2>  QED BY <1>1, <1>2, <2>1, <2>2, CreateEffect DEF TypeOK, Databases
<1>3. CASE FinishPart(r)
  <2>1. lock[s] = r
    BY <1>1, <1>3 DEF FinishPart, Ready, Held, Writes
  <2>2. db.status[s] # "new"
    BY <1>1, <1>3 DEF FinishPart, Ready, NewUntouched
  <2>  QED BY <1>1, <1>3, <2>1, <2>2, PartEffect DEF TypeOK, Databases
<1>4. CASE FinishPatch(r)
  <2>1. Repoints(req[r]) => lock[s] = r
    BY <1>1, <1>4 DEF FinishPatch, Ready, Held, Writes
  <2>2. db.status[s] # "new" /\ db.status[s] # "gone"
    BY <1>1, <1>4 DEF FinishPatch, Refuse, Exists
  <2>  QED BY <1>1, <1>4, <2>1, <2>2, PatchEffect DEF TypeOK, Databases
<1>5. CASE FinishDelete(r)
  BY <1>1, <1>5, DeleteEffect DEF TypeOK, Databases
<1>6. CASE FinishVerify(r)
  <2>1. db.status[s] # "new" /\ db.status[s] # "gone" /\ req[r].op.kind = "verify"
    BY <1>1, <1>6 DEF FinishVerify, Refuse, Exists, Ready
  <2>  QED BY <1>1, <1>6, <2>1, VerifyEffect DEF TypeOK, Databases
<1>  QED BY <1>2, <1>3, <1>4, <1>5, <1>6 DEF Finish

\* Only the end of a request changes a row.
LEMMA OnlyFinishWrites ==
  ASSUME NEW r \in Requests, Acts(r), ~Finish(r)
  PROVE  db' = db
BY DEF Acts, Begin, CheckParent, Enter, Read, Refuse

----------------------------------------------------------------------------
(* Every conjunct is kept by every step.                                     *)

LEMMA StagedNext ==
  ASSUME IInv, NEW r \in Requests, Acts(r)
  PROVE  Staged'
<1> SUFFICES ASSUME NEW q \in Requests
             PROVE  /\ req'[q].stage = "loaded" => req'[q].op.kind = "patch"
                    /\ req'[q].stage = "entered" => req'[q].op.kind = "verify"
                    /\ req'[q].stage = "ready" /\ req'[q].op.kind = "verify" => req'[q].row \in Verdicts
  BY DEF Staged
<1> USE DEF IInv
<1>1. CASE q # r
  BY <1>1, OthersStay DEF Staged
<1>2. CASE q = r /\ req[r].stage = "idle"
  <2>1. CASE \E op \in Operations : Begin(r, op)
    BY <1>2, <2>1 DEF Begin, FirstStage, TypeOK
  <2>2. CASE ~ \E op \in Operations : Begin(r, op)
    BY <1>2, <2>2 DEF Acts, CheckParent, Enter, Read, Finish, FinishCreate, FinishPart, FinishPatch,
                      FinishDelete, FinishVerify, Ready
  <2>  QED BY <2>1, <2>2
<1>3. CASE q = r /\ req[r].stage # "idle" /\ req'[r].stage # "idle"
  <2>1. req[r].op.sys \in Systems
    BY <1>3, CallType
  <2>2. Effective(db, req[r].op.sys) \in Verdicts /\ Unchecked \in Verdicts
    BY <2>1, EffectiveType, UncheckedType
  <2>3. CheckParent(r) => req[r].op.kind = "patch"
    BY DEF CheckParent, Staged
  <2>4. Enter(r) => (req'[r].stage = "ready" => req[r].op.kind # "verify")
    BY <1>3, StageMoves DEF Enter, CheckParent, Read
  <2>  QED BY <1>3, <2>2, <2>3, <2>4, StageMoves
<1>4. CASE q = r /\ req'[r].stage = "idle"
  BY <1>4
<1>  QED BY <1>1, <1>2, <1>3, <1>4

LEMMA HeldNext ==
  ASSUME IInv, NEW r \in Requests, Acts(r)
  PROVE  Held'
<1> SUFFICES ASSUME NEW q \in Requests, Writes(q)'
             PROVE  lock'[req'[q].op.sys] = q
  BY DEF Held
<1> USE DEF IInv
<1>1. CASE q # r
  <2>1. req'[q] = req[q]
    BY <1>1, OthersStay
  <2>2. Writes(q) /\ req[q].stage # "idle"
    BY <2>1 DEF Writes, Repoints
  <2>3. lock[req[q].op.sys] = q /\ req[q].op.sys \in Systems
    BY <2>2, CallType DEF Held
  <2>4. lock'[req[q].op.sys] = q
    <3>1. CASE Enter(r)
      BY <2>3, <3>1, NoneAssumption DEF Enter, TypeOK
    <3>2. CASE Finish(r) \/ Refuse(r)
      BY <1>1, <2>3, <3>2, FinishEnds
    <3>3. CASE ~Enter(r) /\ ~Finish(r) /\ ~Refuse(r)
      BY <2>3, <3>3 DEF Acts, Begin, CheckParent, Read
    <3>  QED BY <3>1, <3>2, <3>3
  <2>  QED BY <2>1, <2>4
<1>2. CASE q = r /\ req[r].stage = "idle"
  <2>1. PICK op \in Operations : Begin(r, op)
    BY <1>2 DEF Acts, CheckParent, Enter, Read, Finish, FinishCreate, FinishPart, FinishPatch,
                FinishDelete, FinishVerify, Ready, Writes, Refuse, End, Idle, TypeOK
  <2>2. req'[r] = [stage |-> FirstStage(op), op |-> op, row |-> RowFor(op)]
    BY <2>1 DEF Begin, TypeOK
  <2>3. ~Writes(r)'
    BY <2>2 DEF Writes, FirstStage, Repoints
  <2>  QED BY <1>2, <2>3
<1>3. CASE q = r /\ req[r].stage # "idle"
  <2>1. req'[r].stage # "idle"
    BY <1>3 DEF Writes
  <2>2. req[r].op.sys \in Systems /\ req'[r].op = req[r].op
    BY <1>3, <2>1, CallType, StageMoves
  <2>3. CASE CheckParent(r) /\ req'[r].row = req[r].row
             /\ req'[r].stage = IF Repoints(req[r]) THEN "waiting" ELSE "ready"
    <3>1. req[r].op.kind = "patch"
      BY <2>3 DEF CheckParent, Staged
    <3>  QED BY <1>3, <2>2, <2>3, <3>1 DEF Writes, Repoints
  <2>4. CASE Enter(r)
    BY <1>3, <2>2, <2>4 DEF Enter, TypeOK
  <2>5. CASE Read(r)
    BY <1>3, <2>2, <2>5 DEF Read, Held, Writes
  <2>  QED BY <1>3, <2>1, <2>3, <2>4, <2>5, StageMoves
<1>  QED BY <1>1, <1>2, <1>3

LEMMA NewUntouchedNext ==
  ASSUME IInv, NEW r \in Requests, Acts(r)
  PROVE  NewUntouched'
<1> USE DEF IInv
<1>1. ASSUME NEW s \in Systems, db'.status[s] = "new"
      PROVE  db.status[s] = "new" /\ db'.verdict[s] = Unchecked
  <2>1. CASE db' = db
    BY <1>1, <2>1 DEF NewUntouched
  <2>2. CASE db' # db
    BY <1>1, <2>2, OnlyFinishWrites, CommitMoves DEF NewUntouched
  <2>  QED BY <2>1, <2>2
<1>2. ASSUME NEW q \in Requests, req'[q].stage # "idle"
      PROVE  IF req'[q].op.kind = "create"
             THEN /\ db'.status[req'[q].op.sys] = "new"
                  /\ \A x \in Requests \ {q} : req'[x].stage # "idle" => req'[x].op.sys # req'[q].op.sys
             ELSE db'.status[req'[q].op.sys] # "new"
  <2>1. CASE \E op \in Operations : Begin(r, op)
    <3>1. PICK op \in Operations : Begin(r, op)
      BY <2>1
    <3>2. /\ req'[r].op = op /\ req[r].stage = "idle" /\ db' = db
          /\ \A x \in Requests \ {r} : req'[x] = req[x]
      BY <3>1 DEF Begin, TypeOK, Idle
    <3>3. op.kind = "create" => /\ db.status[op.sys] = "new"
                                /\ \A x \in Requests : req[x].stage # "idle" => req[x].op.sys # op.sys
      BY <3>1, OperationType DEF Begin, Admitted, Busy, Idle
    <3>4. op.kind # "create" => db.status[op.sys] # "new"
      BY <3>1, OperationType DEF Begin, Admitted, Exists
    <3>5. CASE q = r
      BY <3>2, <3>3, <3>4, <3>5
    <3>6. CASE q # r
      BY <1>2, <3>2, <3>3, <3>4, <3>6 DEF NewUntouched
    <3>  QED BY <3>5, <3>6
  <2>2. CASE ~ \E op \in Operations : Begin(r, op)
    <3>1. \A x \in Requests : req'[x].stage # "idle" => req[x].stage # "idle" /\ req'[x].op = req[x].op
      <4> TAKE x \in Requests
      <4>1. CASE x # r
        BY <4>1, OthersStay
      <4>2. CASE x = r
        <5>1. req[r].stage # "idle"
          BY <2>2 DEF Acts, CheckParent, Enter, Read, Finish, FinishCreate, FinishPart, FinishPatch,
                      FinishDelete, FinishVerify, Ready
        <5>  QED BY <4>2, <5>1, StageMoves
      <4>  QED BY <4>1, <4>2
    <3>2. CASE db' = db
      BY <1>2, <3>1, <3>2 DEF NewUntouched
    <3>3. CASE db' # db
      <4>1. Finish(r) /\ req'[r].stage = "idle" /\ req[r].stage # "idle"
        <5>1. Finish(r)
          BY <3>3, OnlyFinishWrites
        <5>2. req[r].stage = "ready"
          BY <5>1 DEF Finish, FinishCreate, FinishPart, FinishPatch, FinishDelete, FinishVerify, Ready
        <5>3. req'[r] = Idle
          BY <5>1, FinishEnds DEF TypeOK
        <5>  QED BY <5>1, <5>2, <5>3 DEF Idle
      <4>2. q # r /\ req[q].stage # "idle" /\ req'[q].op = req[q].op /\ req[q].op.sys \in Systems
        BY <1>2, <3>1, <4>1, CallType
      <4>3. CASE req[q].op.kind = "create"
        <5>1. /\ db.status[req[q].op.sys] = "new"
              /\ \A x \in Requests \ {q} : req[x].stage # "idle" => req[x].op.sys # req[q].op.sys
          BY <4>2, <4>3 DEF NewUntouched
        <5>2. req[r].op.sys # req[q].op.sys
          BY <4>1, <4>2, <5>1
        <5>3. db'.status[req[q].op.sys] = "new"
          BY <3>3, <4>1, <4>2, <5>1, <5>2, CommitMoves
        <5>  QED BY <3>1, <4>2, <4>3, <5>1, <5>3
      <4>4. CASE req[q].op.kind # "create"
        <5>1. db.status[req[q].op.sys] # "new"
          BY <4>2, <4>4 DEF NewUntouched
        <5>  QED BY <3>3, <4>1, <4>2, <4>4, <5>1, CommitMoves
      <4>  QED BY <4>3, <4>4
    <3>  QED BY <3>2, <3>3
  <2>  QED BY <2>1, <2>2
<1>  QED BY <1>1, <1>2 DEF NewUntouched

LEMMA GoneStays ==
  ASSUME IInv, NEW r \in Requests, Finish(r), db' # db
  PROVE  \A x \in Systems : db.status[x] = "gone" => db'.status[x] = "gone"
BY CommitMoves

LEMMA VerdictsCurrentNext ==
  ASSUME IInv, NEW r \in Requests, Acts(r)
  PROVE  VerdictsCurrent'
<1> SUFFICES ASSUME NEW x \in Systems PROVE UnderOwn(db', db'.verdict[x], x)
  BY DEF VerdictsCurrent
<1> USE DEF IInv
<1>1. CASE db' = db
  BY <1>1 DEF VerdictsCurrent, UnderOwn
<1>2. CASE db' # db
  <2> DEFINE s == req[r].op.sys
  <2>1. Finish(r)
    BY <1>2, OnlyFinishWrites
  <2>2. UnderOwn(db, db.verdict[x], x)
    BY DEF VerdictsCurrent
  <2>3. CASE x # s
    <3>1. /\ db'.parts[x] = db.parts[x] /\ db'.verdict[x] = db.verdict[x]
          /\ \/ db'.parent[x] = db.parent[x]
             \/ db'.parent[x] = None /\ db'.status[db.parent[x]] = "gone"
      BY <1>2, <2>1, <2>3, CommitMoves
    <3>2. UnderOwn(db', db.verdict[x], x)
      BY <1>2, <2>1, <2>2, <3>1, GoneStays, UnderOwnKept
    <3>  QED BY <3>1, <3>2
  <2>4. CASE x = s /\ db'.verdict[s] = Unchecked
    BY <2>4 DEF UnderOwn
  <2>5. CASE x = s /\ db'.verdict[s] # Unchecked
    <3>1. /\ db'.parts[s] = db.parts[s] /\ db'.parent[s] = db.parent[s]
          /\ \/ db'.verdict[s] = db.verdict[s]
             \/ /\ db'.verdict[s] = req[r].row /\ req[r].stage = "ready"
                /\ req[r].op.kind = "verify" /\ db.status[s] # "gone"
      BY <1>2, <2>1, <2>5, CommitMoves
    <3>2. UnderOwn(db, db'.verdict[s], s)
      BY <2>2, <2>5, <3>1 DEF ReadingsCurrent
    <3>3. \A y \in Systems : db.status[y] = "gone" => db'.status[y] = "gone"
      BY <1>2, <2>1, GoneStays
    <3>4. UnderOwn(db', db'.verdict[s], s)
      BY <2>5, <3>1, <3>2, <3>3, UnderOwnKept
    <3>  QED BY <2>5, <3>4
  <2>  QED BY <2>3, <2>4, <2>5
<1>  QED BY <1>1, <1>2

LEMMA ReadingsCurrentNext ==
  ASSUME IInv, NEW r \in Requests, Acts(r)
  PROVE  ReadingsCurrent'
<1> SUFFICES ASSUME NEW q \in Requests, req'[q].stage = "ready", req'[q].op.kind = "verify",
                    db'.status[req'[q].op.sys] # "gone"
             PROVE  UnderOwn(db', req'[q].row, req'[q].op.sys)
  BY DEF ReadingsCurrent
<1> USE DEF IInv
<1>1. CASE q # r
  <2> DEFINE s == req[r].op.sys
             x == req[q].op.sys
  <2>1. req'[q] = req[q]
    BY <1>1, OthersStay
  <2>2. x \in Systems
    BY <2>1, CallType
  <2>3. CASE db' = db
    BY <2>1, <2>3 DEF ReadingsCurrent, UnderOwn
  <2>4. CASE db' # db
    <3>1. Finish(r)
      BY <2>4, OnlyFinishWrites
    <3>2. db.status[x] # "gone" /\ UnderOwn(db, req[q].row, x)
      BY <2>1, <2>2, <2>4, <3>1, CommitMoves DEF ReadingsCurrent
    <3>3. CASE x # s
      <4>1. /\ db'.parts[x] = db.parts[x]
            /\ \/ db'.parent[x] = db.parent[x]
               \/ db'.parent[x] = None /\ db'.status[db.parent[x]] = "gone"
        BY <2>2, <2>4, <3>1, <3>3, CommitMoves
      <4>2. UnderOwn(db', req[q].row, x)
        BY <2>2, <2>4, <3>1, <3>2, <4>1, GoneStays, UnderOwnKept
      <4>  QED BY <2>1, <4>2
    <3>4. CASE x = s
      <4>1. lock[s] # r
        BY <1>1, <2>1, <3>4 DEF Held, Writes
      <4>2. req[r].op.kind # "create"
        BY <1>1, <2>1, <3>1, <3>4 DEF NewUntouched, Finish, FinishCreate, FinishPart, FinishPatch,
                                      FinishDelete, FinishVerify, Ready
      <4>3. db'.parts[s] = db.parts[s] /\ db'.parent[s] = db.parent[s]
        BY <2>1, <2>4, <3>1, <3>4, <4>1, <4>2, CommitMoves
      <4>4. \A y \in Systems : db.status[y] = "gone" => db'.status[y] = "gone"
        BY <2>4, <3>1, GoneStays
      <4>5. UnderOwn(db, req'[q].row, s)
        BY <2>1, <3>2, <3>4
      <4>6. UnderOwn(db', req'[q].row, s)
        BY <2>2, <3>4, <4>3, <4>4, <4>5, UnderOwnKept
      <4>  QED BY <2>1, <3>4, <4>6
    <3>  QED BY <3>3, <3>4
  <2>  QED BY <2>3, <2>4
<1>2. CASE q = r /\ req[r].stage = "idle"
  <2>1. PICK op \in Operations : Begin(r, op)
    BY <1>2 DEF Acts, CheckParent, Enter, Read, Finish, FinishCreate, FinishPart, FinishPatch,
                FinishDelete, FinishVerify, Ready
  <2>2. req'[r] = [stage |-> FirstStage(op), op |-> op, row |-> RowFor(op)]
    BY <2>1 DEF Begin, TypeOK
  <2>  QED BY <1>2, <2>2 DEF FirstStage
<1>3. CASE q = r /\ req[r].stage # "idle"
  <2>1. req[r].op.sys \in Systems /\ req'[r].op = req[r].op /\ db' = db
    BY <1>3, CallType, StageMoves
  <2>2. CASE CheckParent(r)
    BY <1>3, <2>1, <2>2 DEF CheckParent, Staged
  <2>3. CASE Enter(r) /\ req'[r].stage = IF req[r].op.kind = "verify" THEN "entered" ELSE "ready"
    BY <1>3, <2>1, <2>3
  <2>4. CASE req'[r].row = IF Loads(db, req[r].op.sys) THEN Effective(db, req[r].op.sys) ELSE Unchecked
    <3>1. UnderOwn(db, req'[r].row, req[r].op.sys)
      BY <2>1, <2>4, EffectiveUnderOwn DEF UnderOwn
    <3>  QED BY <1>3, <2>1, <3>1 DEF UnderOwn
  <2>  QED BY <1>3, <2>2, <2>3, <2>4, StageMoves
<1>  QED BY <1>1, <1>2, <1>3

----------------------------------------------------------------------------
(* The theorems.                                                             *)

LEMMA InvInit == Init => IInv
<1> SUFFICES ASSUME Init PROVE IInv
  OBVIOUS
<1>1. \A r \in Requests : req[r].stage = "idle"
  BY DEF Init, Idle
<1>2. \A s \in Systems : db.verdict[s] = Unchecked
  BY DEF Init
<1>  QED BY <1>1, <1>2, TypeInit
        DEF IInv, Staged, Held, Writes, NewUntouched, VerdictsCurrent, ReadingsCurrent, UnderOwn

LEMMA InvNext == IInv /\ [Next]_vars => IInv'
<1>1. ASSUME IInv, UNCHANGED vars PROVE IInv'
  BY <1>1 DEF IInv, TypeOK, Staged, Held, Writes, Repoints, NewUntouched, VerdictsCurrent,
              ReadingsCurrent, UnderOwn, vars
<1>2. ASSUME IInv, Next PROVE IInv'
  <2>1. PICK r \in Requests : Acts(r)
    BY <1>2 DEF Next, Acts
  <2>2. TypeOK'
    BY <1>2, TypeNext DEF IInv
  <2>  QED BY <1>2, <2>1, <2>2, StagedNext, HeldNext, NewUntouchedNext, VerdictsCurrentNext,
              ReadingsCurrentNext DEF IInv
<1>  QED BY <1>1, <1>2

LEMMA InvImplies == IInv => OwnGrammarCurrent
BY DEF IInv, VerdictsCurrent, UnderOwn, OwnGrammarCurrent, Exists

\* Every variable keeps its type, whatever the calls and however they overlap.
THEOREM TypeCorrect == Spec => []TypeOK
<1>1. IInv => TypeOK
  BY DEF IInv
<1>  QED BY <1>1, InvInit, InvNext, PTL DEF Spec

\* However requests overlap, a verdict stands only under its system's own parts
\* as they are now, and below the parent it still has unless that was deleted:
\* what a verify reads once it holds the key, nobody rewrites until it stores.
THEOREM OwnGrammarStaysCurrent == Spec => []OwnGrammarCurrent
BY InvInit, InvNext, InvImplies, PTL DEF Spec

----------------------------------------------------------------------------
(* Chains that are whole.                                                    *)

\* What a walk is.
LEMMA WalkType ==
  ASSUME NEW d, NEW s \in Systems, NEW c \in Walks(d, s)
  PROVE  /\ c \in Seq(Systems) /\ Len(c) \in 1..MaxDepth /\ Len(c) \in Nat \ {0}
         /\ DOMAIN c = 1..Len(c)
         /\ c \in [1..Len(c) -> Systems]
         /\ c[1] = s
         /\ \A i \in 2..Len(c) : d.parent[c[i - 1]] = c[i] /\ Exists(d, c[i])
         /\ \A i, j \in 1..Len(c) : c[i] = c[j] => i = j
<1>1. PICK n \in 1..MaxDepth : c \in [1..n -> Systems]
  BY DEF Walks
<1>2. n \in Nat \ {0}
  BY DepthAssumption
<1>3. c \in Seq(Systems) /\ Len(c) = n
  BY <1>1, <1>2
<1>  QED BY <1>1, <1>2, <1>3 DEF Walks

LEMMA WalkMade ==
  ASSUME NEW d, NEW s \in Systems, NEW n \in 1..MaxDepth, NEW c \in [1..n -> Systems],
         c[1] = s,
         \A i \in 2..n : d.parent[c[i - 1]] = c[i] /\ Exists(d, c[i]),
         \A i, j \in 1..n : c[i] = c[j] => i = j
  PROVE  c \in Walks(d, s)
<1>1. Len(c) = n
  BY DepthAssumption
<1>  QED BY <1>1 DEF Walks

\* A system has one parent, so two walks from it agree as far as both go.
LEMMA WalksAgree ==
  ASSUME NEW d, NEW s \in Systems, NEW c \in Walks(d, s), NEW e \in Walks(d, s)
  PROVE  \A i \in 1..Len(c) : i <= Len(e) => c[i] = e[i]
<1> DEFINE T == {i \in 1..Len(c) : i <= Len(e) /\ c[i] # e[i]}
<1> SUFFICES ASSUME T # {} PROVE FALSE
  OBVIOUS
<1>1. /\ Len(c) \in Nat \ {0} /\ c[1] = s
      /\ \A i \in 2..Len(c) : d.parent[c[i - 1]] = c[i]
  BY WalkType
<1>2. /\ Len(e) \in Nat \ {0} /\ e[1] = s
      /\ \A i \in 2..Len(e) : d.parent[e[i - 1]] = e[i]
  BY WalkType
<1>3. T \subseteq Nat
  BY <1>1
<1>4. PICK m \in T : \A k \in T : ~ (<<k, m>> \in OpToRel(<, Nat))
  <2> HIDE DEF T
  <2>  QED BY <1>3, WFMin, NatLessThanWellFounded
<1>5. \A k \in T : ~(k < m)
  BY <1>3, <1>4 DEF OpToRel
<1>6. m \in 2..Len(c) /\ m \in 2..Len(e)
  BY <1>1, <1>2
<1>7. m - 1 \in 1..Len(c) /\ m - 1 <= Len(e) /\ m - 1 < m
  BY <1>1, <1>2, <1>6
<1>8. c[m - 1] = e[m - 1]
  BY <1>5, <1>7
<1>9. c[m] = e[m]
  BY <1>1, <1>2, <1>6, <1>8
<1>  QED BY <1>4, <1>9

\* A walk that ends at a system without a parent is the chain.
LEMMA WholeIsChain ==
  ASSUME NEW d, NEW s \in Systems, NEW c \in Walks(d, s), d.parent[c[Len(c)]] = None
  PROVE  ChainOf(d, s) = c
<1> DEFINE e == ChainOf(d, s)
<1>1. e \in Walks(d, s) /\ Len(c) <= Len(e)
  BY ChainIsWalk
<1> HIDE DEF e
<1>2. Len(c) \in Nat \ {0} /\ c \in [1..Len(c) -> Systems]
  BY WalkType
<1>3. /\ Len(e) \in Nat \ {0} /\ e \in [1..Len(e) -> Systems]
      /\ \A i \in 2..Len(e) : d.parent[e[i - 1]] = e[i]
  BY <1>1, WalkType
<1>4. \A i \in 1..Len(c) : c[i] = e[i]
  BY <1>1, <1>2, <1>3, WalksAgree
<1>5. Len(e) <= Len(c)
  <2> SUFFICES ASSUME Len(e) > Len(c) PROVE FALSE
    BY <1>2, <1>3
  <2>1. Len(c) + 1 \in 2..Len(e) /\ Len(c) + 1 - 1 = Len(c) /\ Len(c) \in 1..Len(c)
    BY <1>2, <1>3
  <2>2. e[Len(c) + 1] = d.parent[c[Len(c)]]
    BY <1>3, <1>4, <2>1
  <2>3. e[Len(c) + 1] \in Systems
    BY <1>3, <2>1
  <2>  QED BY <2>2, <2>3, NoneAssumption
<1>6. Len(e) = Len(c)
  <2>1. Len(c) \in Nat /\ Len(e) \in Nat /\ Len(c) <= Len(e) /\ Len(e) <= Len(c)
    BY <1>1, <1>2, <1>3, <1>5
  <2>  QED BY <2>1
<1>  QED BY <1>2, <1>3, <1>4, <1>6 DEF e

\* A chain that is whole stays the chain while the rows along it do.
LEMMA SameChain ==
  ASSUME NEW d, NEW e, NEW s \in Systems,
         ~Truncated(d, ChainOf(d, s)),
         \A i \in DOMAIN ChainOf(d, s) : e.parent[ChainOf(d, s)[i]] = d.parent[ChainOf(d, s)[i]],
         \A i \in 2..Len(ChainOf(d, s)) : Exists(e, ChainOf(d, s)[i])
  PROVE  ChainOf(e, s) = ChainOf(d, s) /\ ~Truncated(e, ChainOf(e, s))
<1> DEFINE c == ChainOf(d, s)
<1>1. c \in Walks(d, s)
  BY ChainIsWalk
<1>2. \A i \in DOMAIN c : e.parent[c[i]] = d.parent[c[i]]
  OBVIOUS
<1>3. \A i \in 2..Len(c) : Exists(e, c[i])
  OBVIOUS
<1>4. d.parent[c[Len(c)]] = None
  BY DEF Truncated
<1> HIDE DEF c
<1>5. /\ Len(c) \in 1..MaxDepth /\ Len(c) \in Nat \ {0} /\ DOMAIN c = 1..Len(c)
      /\ c \in [1..Len(c) -> Systems] /\ c[1] = s
      /\ \A i \in 2..Len(c) : d.parent[c[i - 1]] = c[i] /\ Exists(d, c[i])
      /\ \A i, j \in 1..Len(c) : c[i] = c[j] => i = j
  BY <1>1, WalkType
<1>6. \A i \in 2..Len(c) : i - 1 \in 1..Len(c)
  BY <1>5
<1>7. c \in Walks(e, s)
  <2>1. \A i \in 2..Len(c) : e.parent[c[i - 1]] = c[i] /\ Exists(e, c[i])
    BY <1>2, <1>3, <1>5, <1>6
  <2>  QED BY <1>5, <2>1, WalkMade
<1>8. e.parent[c[Len(c)]] = None
  BY <1>2, <1>4, <1>5
<1>9. ChainOf(e, s) = c
  BY <1>7, <1>8, WholeIsChain
<1>  QED BY <1>8, <1>9 DEF c, Truncated

\* Only parents and which rows are there make a chain.
LEMMA SameWalks ==
  ASSUME NEW d, NEW e, NEW s \in Systems, e.parent = d.parent,
         \A y \in Systems : Exists(e, y) <=> Exists(d, y)
  PROVE  ChainOf(e, s) = ChainOf(d, s)
<1>1. ASSUME NEW n \in 1..MaxDepth, NEW c \in [1..n -> Systems]
      PROVE  \A i \in 2..Len(c) : Exists(e, c[i]) <=> Exists(d, c[i])
  <2>1. Len(c) = n
    BY DepthAssumption
  <2>  QED BY <1>1, <2>1
<1>2. Walks(e, s) = Walks(d, s)
  BY <1>1 DEF Walks
<1>  QED BY <1>2 DEF ChainOf

\* From d to e, s is put below p, whose chain is whole, has room and stays.
PutBelow(d, e, s, p) ==
  /\ ~Truncated(d, ChainOf(d, p)) /\ Len(ChainOf(d, p)) < MaxDepth
  /\ e.parent[s] = p
  /\ \A i \in DOMAIN ChainOf(d, p) :
       /\ ChainOf(d, p)[i] # s
       /\ e.parent[ChainOf(d, p)[i]] = d.parent[ChainOf(d, p)[i]]
       /\ e.status[ChainOf(d, p)[i]] = "published"

\* Then its chain is whole: itself and the other's.
LEMMA ChainBelow ==
  ASSUME NEW d, NEW e, NEW s \in Systems, NEW p \in Systems, PutBelow(d, e, s, p)
  PROVE  ~Truncated(e, ChainOf(e, s)) /\ ~DraftAncestors(e, ChainOf(e, s))
<1> DEFINE a == ChainOf(d, p)
           n == Len(a) + 1
           c == [i \in 1..n |-> IF i = 1 THEN s ELSE a[i - 1]]
<1>1. a \in Walks(d, p)
  BY ChainIsWalk
<1>2. \A i \in DOMAIN a : /\ a[i] # s /\ e.parent[a[i]] = d.parent[a[i]]
                          /\ e.status[a[i]] = "published" /\ Exists(e, a[i])
  BY DEF PutBelow, Exists
<1>3. d.parent[a[Len(a)]] = None /\ Len(a) < MaxDepth /\ e.parent[s] = p
  BY DEF PutBelow, Truncated
<1> HIDE DEF a
<1>4. /\ Len(a) \in Nat \ {0} /\ DOMAIN a = 1..Len(a)
      /\ a \in [1..Len(a) -> Systems] /\ a[1] = p
      /\ \A i \in 2..Len(a) : d.parent[a[i - 1]] = a[i]
      /\ \A i, j \in 1..Len(a) : a[i] = a[j] => i = j
  BY <1>1, WalkType
<1>5. n \in 1..MaxDepth /\ n \in Nat /\ n > 1
  BY <1>3, <1>4, DepthAssumption
<1>6. \A i \in 2..n : i - 1 \in 1..Len(a) /\ i # 1 /\ i \in 1..n
  BY <1>4
<1>7. /\ c \in [1..n -> Systems] /\ c[1] = s /\ Len(c) = n
      /\ \A i \in 2..n : c[i] = a[i - 1]
  BY <1>4, <1>5, <1>6
<1> HIDE DEF c
<1>8. ASSUME NEW i \in 2..n PROVE e.parent[c[i - 1]] = c[i] /\ Exists(e, c[i])
  <2>1. c[i] = a[i - 1] /\ i - 1 \in 1..Len(a)
    BY <1>6, <1>7
  <2>2. CASE i = 2
    BY <1>2, <1>3, <1>4, <1>7, <2>1, <2>2
  <2>3. CASE i # 2
    <3>1. i - 1 \in 2..n /\ i - 1 \in 2..Len(a) /\ i - 1 - 1 \in 1..Len(a)
      BY <1>4, <2>3
    <3>2. c[i - 1] = a[i - 1 - 1]
      BY <1>7, <3>1
    <3>3. e.parent[a[i - 1 - 1]] = a[i - 1]
      BY <1>2, <1>4, <3>1
    <3>  QED BY <1>2, <1>4, <2>1, <3>2, <3>3
  <2>  QED BY <2>2, <2>3
<1>9. ASSUME NEW i \in 1..n, NEW j \in 1..n, c[i] = c[j] PROVE i = j
  <2>1. \A k \in 2..n : c[k] # s
    BY <1>2, <1>4, <1>6, <1>7
  <2>2. CASE i = 1 \/ j = 1
    BY <1>5, <1>7, <1>9, <2>1, <2>2
  <2>3. CASE i # 1 /\ j # 1
    <3>1. i \in 2..n /\ j \in 2..n
      BY <1>5, <2>3
    <3>2. a[i - 1] = a[j - 1] /\ i - 1 \in 1..Len(a) /\ j - 1 \in 1..Len(a)
      BY <1>6, <1>7, <1>9, <3>1
    <3>3. i - 1 = j - 1
      BY <1>4, <3>2
    <3>  QED BY <3>1, <3>3
  <2>  QED BY <2>2, <2>3
<1>10. c \in Walks(e, s)
  BY <1>5, <1>7, <1>8, <1>9, WalkMade
<1>11. e.parent[c[Len(c)]] = None
  <2>1. n \in 2..n /\ n - 1 = Len(a) /\ Len(a) \in 1..Len(a)
    BY <1>4
  <2>  QED BY <1>2, <1>3, <1>4, <1>7, <2>1
<1>12. ChainOf(e, s) = c
  BY <1>10, <1>11, WholeIsChain
<1>13. \A i \in 2..n : e.status[c[i]] = "published"
  BY <1>2, <1>4, <1>6, <1>7
<1>  QED BY <1>7, <1>11, <1>12, <1>13 DEF Truncated, DraftAncestors

\* A system without a parent is its whole chain.
LEMMA ChainAlone ==
  ASSUME NEW d, NEW s \in Systems, d.parent[s] = None
  PROVE  Len(ChainOf(d, s)) = 1 /\ ~Truncated(d, ChainOf(d, s))
<1> DEFINE c == <<s>>
<1>1. c \in [1..1 -> Systems] /\ 1 \in 1..MaxDepth /\ c[1] = s /\ Len(c) = 1
  BY DepthAssumption
<1>2. c \in Walks(d, s)
  BY <1>1 DEF Walks
<1> HIDE DEF c
<1>3. ChainOf(d, s) = c
  BY <1>1, <1>2, WholeIsChain
<1>  QED BY <1>1, <1>3 DEF Truncated

----------------------------------------------------------------------------
(* What requests that do not overlap keep.                                   *)

\* A system's chain is whole and published above it, what is published builds,
\* and what a verdict was reached under is what the chain says.
Fine(d, s) ==
  /\ Exists(d, s) => ~Truncated(d, ChainOf(d, s)) /\ ~DraftAncestors(d, ChainOf(d, s))
  /\ d.status[s] = "published" => Loads(d, s)
  /\ d.verdict[s] # Unchecked => Exists(d, s) /\ d.verdict[s] = Effective(d, s)

AllFine(d) == \A s \in Systems : Fine(d, s)

\* What a request checked when it began, or before it waited, is so.
RequestCurrent(r) ==
  LET q  == req[r]
      op == q.op
      s  == op.sys
  IN
  /\ op.kind = "create" => /\ db.status[s] = "new"
                           /\ op.parent # None => Inheritable(db, op.parent, None)
  /\ op.kind \in {"part", "patch"} => db.status[s] = "draft"
  /\ op.kind = "patch" =>
       /\ q.row = [parent |-> db.parent[s], parts |-> db.parts[s], token |-> db.token[s]]
       /\ q.stage # "loaded" /\ op.parent \notin {Keep, None} =>
            op.parent # s /\ Inheritable(db, op.parent, s)
  /\ op.kind \in {"verify", "delete"} => Exists(db, s)
  /\ op.kind = "verify" /\ q.stage = "ready" => q.row \in {Unchecked, Effective(db, s)}
  /\ op.kind = "delete" => ~HasDependents(db, s)

SerialInv ==
  /\ OneAtATime
  /\ AllFine(db)
  /\ \A r \in Busy : RequestCurrent(r)

\* Everything above a system that is there is published.
LEMMA AboveIsPublished ==
  ASSUME NEW d, NEW s \in Systems, Fine(d, s), Exists(d, s)
  PROVE  LET c == ChainOf(d, s) IN
         /\ c[1] = s /\ Len(c) \in Nat \ {0} /\ DOMAIN c = 1..Len(c)
         /\ \A i \in DOMAIN c : c[i] \in Systems /\ Exists(d, c[i])
         /\ \A i \in 2..Len(c) : /\ i \in DOMAIN c /\ i - 1 \in DOMAIN c
                                 /\ c[i] # s
                                 /\ d.status[c[i]] = "published"
                                 /\ d.parent[c[i - 1]] = c[i]
<1> DEFINE c == ChainOf(d, s)
<1>1. c \in Walks(d, s)
  BY ChainIsWalk
<1>2. ~DraftAncestors(d, c)
  BY DEF Fine
<1> HIDE DEF c
<1>3. /\ Len(c) \in Nat \ {0} /\ DOMAIN c = 1..Len(c)
      /\ c \in [1..Len(c) -> Systems] /\ c[1] = s
      /\ \A i \in 2..Len(c) : d.parent[c[i - 1]] = c[i] /\ Exists(d, c[i])
      /\ \A i, j \in 1..Len(c) : c[i] = c[j] => i = j
  BY <1>1, WalkType
<1>4. \A i \in 2..Len(c) : i \in 1..Len(c) /\ i - 1 \in 1..Len(c) /\ i # 1 /\ 1 \in 1..Len(c)
  BY <1>3
<1>5. \A i \in 2..Len(c) : d.status[c[i]] = "published" /\ c[i] # s
  BY <1>2, <1>3, <1>4 DEF DraftAncestors, Exists
<1>6. \A i \in DOMAIN c : c[i] \in Systems /\ Exists(d, c[i])
  <2>1. \A i \in DOMAIN c : i = 1 \/ i \in 2..Len(c)
    BY <1>3
  <2>  QED BY <1>3, <2>1
<1>  QED BY <1>3, <1>4, <1>5, <1>6 DEF c

\* A system that is not published, or that nothing names, is above no other.
LEMMA NotAbove ==
  ASSUME NEW d, NEW s \in Systems, Fine(d, s), Exists(d, s), NEW x \in Systems \ {s},
         d.status[x] # "published" \/ ~HasDependents(d, x)
  PROVE  \A i \in DOMAIN ChainOf(d, s) : ChainOf(d, s)[i] # x
<1> DEFINE c == ChainOf(d, s)
<1>1. /\ c[1] = s /\ Len(c) \in Nat \ {0} /\ DOMAIN c = 1..Len(c)
      /\ \A i \in DOMAIN c : c[i] \in Systems /\ Exists(d, c[i])
      /\ \A i \in 2..Len(c) : /\ i \in DOMAIN c /\ i - 1 \in DOMAIN c
                              /\ d.status[c[i]] = "published"
                              /\ d.parent[c[i - 1]] = c[i]
  BY AboveIsPublished
<1> HIDE DEF c
<1>2. \A i \in DOMAIN c : i = 1 \/ i \in 2..Len(c)
  BY <1>1
<1>3. \A i \in 2..Len(c) : HasDependents(d, c[i])
  BY <1>1 DEF HasDependents
<1>  QED BY <1>1, <1>2, <1>3 DEF c

\* What is built from the same rows is the same.
LEMMA SameBuild ==
  ASSUME NEW d, NEW e, NEW s \in Systems, ChainOf(e, s) = ChainOf(d, s),
         \A i \in DOMAIN ChainOf(d, s) : e.parts[ChainOf(d, s)[i]] = d.parts[ChainOf(d, s)[i]]
  PROVE  /\ Effective(e, s) = Effective(d, s)
         /\ (\A i \in DOMAIN ChainOf(d, s) : e.token[ChainOf(d, s)[i]] = d.token[ChainOf(d, s)[i]])
              => (Builds(e, ChainOf(e, s)) <=> Builds(d, ChainOf(d, s)))
<1> DEFINE c == ChainOf(d, s)
<1>1. \A i \in DOMAIN c : e.parts[c[i]] = d.parts[c[i]]
  OBVIOUS
<1>2. Effective(e, s) = [i \in DOMAIN c |-> <<c[i], e.parts[c[i]]>>]
  BY DEF Effective
<1>3. Effective(d, s) = [i \in DOMAIN c |-> <<c[i], d.parts[c[i]]>>]
  BY DEF Effective
<1> HIDE DEF c
<1>4. Effective(e, s) = Effective(d, s)
  BY <1>1, <1>2, <1>3
<1>5. ASSUME \A i \in DOMAIN c : e.token[c[i]] = d.token[c[i]]
      PROVE  Builds(e, c) <=> Builds(d, c)
  <2>1. {e.parts[c[i]] : i \in DOMAIN c} = {d.parts[c[i]] : i \in DOMAIN c}
    BY <1>1
  <2>  QED BY <1>5, <2>1 DEF Builds
<1>  QED BY <1>4, <1>5 DEF c

\* From d to e only the row of x changes, and parents of what is not there.
OthersKept(d, e, x) ==
  \A y \in Systems \ {x} :
    /\ e.status[y] = d.status[y] /\ e.parts[y] = d.parts[y]
    /\ e.token[y] = d.token[y] /\ e.verdict[y] = d.verdict[y]
    /\ Exists(d, y) => e.parent[y] = d.parent[y]

\* Such a change leaves every system whose chain x is not in as it was.
LEMMA OthersFine ==
  ASSUME NEW d, NEW e, NEW s \in Systems, NEW x \in Systems \ {s}, Fine(d, s),
         d.status[x] # "published" \/ ~HasDependents(d, x), OthersKept(d, e, x)
  PROVE  Fine(e, s) /\ (Exists(d, s) => Effective(e, s) = Effective(d, s))
<1> e.status[s] = d.status[s] /\ e.verdict[s] = d.verdict[s]
  BY DEF OthersKept
<1>1. CASE ~Exists(d, s)
  BY <1>1 DEF Fine, Exists
<1>2. CASE Exists(d, s)
  <2> DEFINE c == ChainOf(d, s)
  <2>1. /\ Len(c) \in Nat \ {0} /\ DOMAIN c = 1..Len(c)
        /\ \A i \in DOMAIN c : c[i] \in Systems /\ Exists(d, c[i]) /\ c[i] # x
        /\ \A i \in 2..Len(c) : i \in DOMAIN c /\ d.status[c[i]] = "published"
    BY <1>2, AboveIsPublished, NotAbove
  <2>2. \A i \in DOMAIN c : /\ e.parent[c[i]] = d.parent[c[i]] /\ e.parts[c[i]] = d.parts[c[i]]
                            /\ e.token[c[i]] = d.token[c[i]] /\ e.status[c[i]] = d.status[c[i]]
    BY <2>1 DEF OthersKept
  <2>3. \A i \in 2..Len(c) : Exists(e, c[i]) /\ e.status[c[i]] = "published"
    BY <2>1, <2>2 DEF Exists
  <2>4. ~Truncated(d, c)
    BY <1>2 DEF Fine
  <2>5. ChainOf(e, s) = c /\ ~Truncated(e, ChainOf(e, s))
    BY <2>2, <2>3, <2>4, SameChain
  <2>6. Effective(e, s) = Effective(d, s) /\ (Builds(e, ChainOf(e, s)) <=> Builds(d, c))
    BY <2>2, <2>5, SameBuild
  <2>7. ~DraftAncestors(e, ChainOf(e, s))
    BY <2>3, <2>5 DEF DraftAncestors
  <2>  QED BY <1>2, <2>4, <2>5, <2>6, <2>7 DEF Fine, Exists, Loads
<1>  QED BY <1>1, <1>2

\* So a change of x keeps all fine if it keeps x fine, and no published x but
\* one that goes.
LEMMA ChangeFine ==
  ASSUME AllFine(db), NEW x \in Systems, Fine(db', x),
         db.status[x] # "published" \/ ~HasDependents(db, x),
         db.status[x] = "published" => db'.status[x] = "gone", OthersKept(db, db', x)
  PROVE  AllFine(db') /\ FreezeStep
<1>1. \A s \in Systems \ {x} : Fine(db', s) /\ (Exists(db, s) => Effective(db', s) = Effective(db, s))
  BY OthersFine DEF AllFine
<1>2. \A s \in Systems \ {x} : db'.status[s] = db.status[s]
  BY DEF OthersKept
<1>  QED BY <1>1, <1>2 DEF AllFine, FreezeStep, Exists

\* A system put below a published one that has room has a chain that is whole.
LEMMA BelowWhole ==
  ASSUME NEW d, NEW e, NEW s \in Systems, NEW p \in Systems, Fine(d, p),
         d.status[p] = "published", Len(ChainOf(d, p)) < MaxDepth,
         \A i \in DOMAIN ChainOf(d, p) : ChainOf(d, p)[i] # s,
         e.parent[s] = p, OthersKept(d, e, s)
  PROVE  ~Truncated(e, ChainOf(e, s)) /\ ~DraftAncestors(e, ChainOf(e, s))
<1> DEFINE a == ChainOf(d, p)
<1>1. Exists(d, p) /\ ~Truncated(d, a)
  BY DEF Fine, Exists
<1>2. /\ a[1] = p /\ Len(a) \in Nat \ {0} /\ DOMAIN a = 1..Len(a)
      /\ \A i \in DOMAIN a : a[i] \in Systems /\ Exists(d, a[i]) /\ a[i] # s
      /\ \A i \in 2..Len(a) : i \in DOMAIN a /\ d.status[a[i]] = "published"
  BY <1>1, AboveIsPublished
<1> HIDE DEF a
<1>3. \A i \in DOMAIN a : i = 1 \/ i \in 2..Len(a)
  BY <1>2
<1>4. \A i \in DOMAIN a : d.status[a[i]] = "published"
  BY <1>2, <1>3
<1>5. \A i \in DOMAIN a : /\ e.parent[a[i]] = d.parent[a[i]]
                          /\ e.status[a[i]] = "published"
  BY <1>2, <1>4 DEF OthersKept
<1>6. PutBelow(d, e, s, p)
  BY <1>1, <1>2, <1>5 DEF a, PutBelow
<1>  QED BY <1>6, ChainBelow

LEMMA CreateFine ==
  ASSUME IInv, AllFine(db), NEW r \in Requests, RequestCurrent(r), FinishCreate(r), db' # db
  PROVE  AllFine(db') /\ FreezeStep
<1> DEFINE op == req[r].op
           x == op.sys
<1>1. /\ TypeOK
      /\ x \in Systems /\ op \in Operations /\ op.kind = "create"
      /\ op.parent \in Systems \cup {None}
      /\ db.status[x] = "new" /\ db.verdict[x] = Unchecked
      /\ op.parent # None => Inheritable(db, op.parent, None)
  <2>1. TypeOK /\ req[r].stage # "idle" /\ op.kind = "create"
    BY DEF IInv, FinishCreate, Ready
  <2>2. x \in Systems /\ op \in Operations
    BY <2>1, CallType
  <2>3. db.status[x] = "new" /\ (op.parent # None => Inheritable(db, op.parent, None))
    BY <2>1 DEF RequestCurrent
  <2>4. db.verdict[x] = Unchecked
    BY <2>2, <2>3 DEF IInv, NewUntouched
  <2>  QED BY <2>1, <2>2, <2>3, <2>4, OperationType
<1>2. db' = [status |-> [db.status EXCEPT ![x] = "draft"], parent |-> [db.parent EXCEPT ![x] = op.parent],
             parts |-> db.parts, token |-> db.token, verdict |-> db.verdict]
  BY <1>1, CreateEffect
<1>3. /\ db'.status[x] = "draft" /\ db'.parent[x] = op.parent /\ db'.verdict[x] = Unchecked
      /\ OthersKept(db, db', x)
  BY <1>1, <1>2 DEF TypeOK, Databases, OthersKept
<1> HIDE DEF x, op
<1>4. ~Truncated(db', ChainOf(db', x)) /\ ~DraftAncestors(db', ChainOf(db', x))
  <2>1. CASE op.parent = None
    <3>1. Len(ChainOf(db', x)) = 1 /\ ~Truncated(db', ChainOf(db', x))
      BY <1>1, <1>3, <2>1, ChainAlone
    <3>  QED BY <3>1 DEF DraftAncestors
  <2>2. CASE op.parent # None
    <3>1. /\ op.parent \in Systems /\ db.status[op.parent] = "published"
          /\ Len(ChainOf(db, op.parent)) < MaxDepth
      BY <1>1, <2>2 DEF Inheritable
    <3>2. Fine(db, op.parent) /\ Exists(db, op.parent)
      BY <3>1 DEF AllFine, Exists
    <3>3. \A i \in DOMAIN ChainOf(db, op.parent) : ChainOf(db, op.parent)[i] # x
      BY <1>1, <3>1, <3>2, AboveIsPublished DEF Exists
    <3>  QED BY <1>1, <1>3, <3>1, <3>2, <3>3, BelowWhole
  <2>  QED BY <2>1, <2>2
<1>5. Fine(db', x)
  BY <1>3, <1>4 DEF Fine
<1>  QED BY <1>1, <1>3, <1>5, ChangeFine

LEMMA PartFine ==
  ASSUME IInv, AllFine(db), NEW r \in Requests, RequestCurrent(r), FinishPart(r), db' # db
  PROVE  AllFine(db') /\ FreezeStep
<1> DEFINE x == req[r].op.sys
<1>1. TypeOK /\ x \in Systems /\ db.status[x] = "draft"
  BY CallType DEF IInv, FinishPart, Ready, RequestCurrent
<1>2. db' = [status |-> db.status, parent |-> db.parent,
             parts |-> [db.parts EXCEPT ![x] = req[r].op.to], token |-> db.token,
             verdict |-> [db.verdict EXCEPT ![x] = Unchecked]]
  BY <1>1, PartEffect
<1>3. /\ db'.status = db.status /\ db'.parent = db.parent /\ db'.verdict[x] = Unchecked
      /\ OthersKept(db, db', x)
  BY <1>1, <1>2 DEF TypeOK, Databases, OthersKept
<1> HIDE DEF x
<1>4. ChainOf(db', x) = ChainOf(db, x)
  BY <1>1, <1>3, SameWalks DEF Exists
<1>5. Fine(db, x) /\ Exists(db, x)
  BY <1>1 DEF AllFine, Exists
<1>6. Fine(db', x)
  BY <1>1, <1>3, <1>4, <1>5 DEF Fine, Exists, Truncated, DraftAncestors
<1>  QED BY <1>1, <1>3, <1>6, ChangeFine

LEMMA DeleteFine ==
  ASSUME IInv, AllFine(db), NEW r \in Requests, RequestCurrent(r), FinishDelete(r), db' # db
  PROVE  AllFine(db') /\ FreezeStep
<1> DEFINE x == req[r].op.sys
<1>1. TypeOK /\ x \in Systems /\ ~HasDependents(db, x)
  BY CallType DEF IInv, FinishDelete, Ready, RequestCurrent
<1>2. db' = [status  |-> [db.status EXCEPT ![x] = "gone"],
             parent  |-> [c \in Systems |-> IF c = x \/ db.parent[c] = x THEN None ELSE db.parent[c]],
             parts   |-> db.parts, token |-> db.token,
             verdict |-> [db.verdict EXCEPT ![x] = Unchecked]]
  BY <1>1, DeleteEffect
<1>3. /\ db'.status[x] = "gone" /\ db'.verdict[x] = Unchecked
      /\ OthersKept(db, db', x)
  BY <1>1, <1>2 DEF TypeOK, Databases, HasDependents, OthersKept
<1> HIDE DEF x
<1>4. Fine(db', x)
  BY <1>3 DEF Fine, Exists
<1>  QED BY <1>1, <1>3, <1>4, ChangeFine

LEMMA VerifyFine ==
  ASSUME IInv, AllFine(db), NEW r \in Requests, RequestCurrent(r), FinishVerify(r), db' # db
  PROVE  AllFine(db') /\ FreezeStep
<1> DEFINE x == req[r].op.sys
<1>1. TypeOK /\ x \in Systems /\ Exists(db, x) /\ req[r].row \in {Unchecked, Effective(db, x)}
  BY CallType DEF IInv, FinishVerify, Ready, RequestCurrent
<1>2. db' = [status |-> db.status, parent |-> db.parent, parts |-> db.parts, token |-> db.token,
             verdict |-> [db.verdict EXCEPT ![x] = req[r].row]]
  BY <1>1, VerifyEffect
<1>3. /\ db'.status = db.status /\ db'.parent = db.parent /\ db'.parts = db.parts
      /\ db'.token = db.token /\ db'.verdict[x] \in {Unchecked, Effective(db, x)}
      /\ \A y \in Systems \ {x} : db'.verdict[y] = db.verdict[y]
  BY <1>1, <1>2 DEF TypeOK, Databases
<1> HIDE DEF x
<1>4. ASSUME NEW s \in Systems
      PROVE  Fine(db', s) /\ Effective(db', s) = Effective(db, s)
  <2>1. ChainOf(db', s) = ChainOf(db, s)
    BY <1>3, SameWalks DEF Exists
  <2>2. Effective(db', s) = Effective(db, s)
        /\ (Builds(db', ChainOf(db', s)) <=> Builds(db, ChainOf(db, s)))
    BY <1>3, <2>1, SameBuild
  <2>3. Fine(db, s)
    BY DEF AllFine
  <2>4. /\ Truncated(db', ChainOf(db', s)) <=> Truncated(db, ChainOf(db, s))
        /\ DraftAncestors(db', ChainOf(db', s)) <=> DraftAncestors(db, ChainOf(db, s))
        /\ Exists(db', s) <=> Exists(db, s)
    BY <1>3, <2>1 DEF Truncated, DraftAncestors, Exists
  <2>5. Loads(db', s) <=> Loads(db, s)
    BY <2>2, <2>4 DEF Loads
  <2>6. db'.verdict[s] # Unchecked => Exists(db, s) /\ db'.verdict[s] = Effective(db, s)
    BY <1>1, <1>3, <2>3 DEF Fine
  <2>  QED BY <1>3, <2>2, <2>3, <2>4, <2>5, <2>6 DEF Fine
<1>  QED BY <1>3, <1>4 DEF AllFine, FreezeStep

LEMMA PatchFine ==
  ASSUME IInv, AllFine(db), NEW r \in Requests, RequestCurrent(r), FinishPatch(r), db' # db
  PROVE  AllFine(db') /\ FreezeStep
<1> DEFINE q == req[r]
           op == q.op
           x == op.sys
           moved == Repoints(q)
<1>1. /\ TypeOK /\ op \in Operations /\ x \in Systems
      /\ db.status[x] = "draft"
      /\ q.row.parent = db.parent[x] /\ q.row.parts = db.parts[x] /\ q.row.token = db.token[x]
      /\ op.parent \notin {Keep, None} => op.parent # x /\ Inheritable(db, op.parent, x)
      /\ op.publish => RequirePublishable(q)
      /\ op.parent \in Systems \cup {None, Keep}
  <2>1. TypeOK /\ op \in Operations /\ x \in Systems /\ op.kind = "patch" /\ q.stage = "ready"
    BY CallType DEF IInv, FinishPatch, Ready
  <2>2. /\ db.status[x] = "draft"
        /\ q.row = [parent |-> db.parent[x], parts |-> db.parts[x], token |-> db.token[x]]
        /\ op.parent \notin {Keep, None} => op.parent # x /\ Inheritable(db, op.parent, x)
    BY <2>1 DEF RequestCurrent
  <2>3. op.publish => RequirePublishable(q)
    BY DEF FinishPatch, Refuse
  <2>  QED BY <2>1, <2>2, <2>3, OperationType
<1>2. db' = [status  |-> [db.status EXCEPT ![x] = IF op.publish THEN "published" ELSE @],
             parent  |-> [db.parent EXCEPT ![x] = IF moved THEN op.parent ELSE @],
             parts   |-> db.parts,
             token   |-> [db.token EXCEPT ![x] = IF op.token \notin {Keep, q.row.token} THEN op.token ELSE @],
             verdict |-> IF moved THEN [db.verdict EXCEPT ![x] = Unchecked] ELSE db.verdict]
  BY <1>1, PatchEffect
<1>3. /\ db'.status[x] = (IF op.publish THEN "published" ELSE "draft")
      /\ db'.parent[x] = (IF moved THEN op.parent ELSE db.parent[x])
      /\ db'.parts = db.parts
      /\ db'.token[x] = (IF op.token \notin {Keep, q.row.token} THEN op.token ELSE db.token[x])
      /\ db'.verdict[x] = (IF moved THEN Unchecked ELSE db.verdict[x])
      /\ \A y \in Systems \ {x} :
            /\ db'.status[y] = db.status[y]
            /\ db'.token[y] = db.token[y] /\ db'.parent[y] = db.parent[y]
      /\ OthersKept(db, db', x)
  BY <1>1, <1>2 DEF TypeOK, Databases, OthersKept
<1>4. /\ db'.parent \in [Systems -> Systems \cup {None}] /\ db.parent \in [Systems -> Systems \cup {None}]
      /\ db.token \in [Systems -> BOOLEAN] /\ db'.token \in [Systems -> BOOLEAN]
      /\ db.parts \in [Systems -> Parts]
      /\ moved <=> op.parent # Keep /\ op.parent # db.parent[x]
  <2>1. moved <=> op.parent # Keep /\ op.parent # db.parent[x]
    BY <1>1 DEF Repoints
  <2>2. op.token \in BOOLEAN \cup {Keep}
    BY <1>1, OperationType DEF FinishPatch, Ready
  <2>  QED BY <1>1, <1>2, <2>1, <2>2 DEF TypeOK, Databases
<1>5. Fine(db, x) /\ Exists(db, x) /\ Exists(db', x)
  BY <1>1, <1>3 DEF AllFine, Exists
<1>6. \A y \in Systems : Exists(db', y) <=> Exists(db, y)
  BY <1>3, <1>5 DEF Exists
<1> HIDE DEF x, op, moved
<1>7. ~moved => ChainOf(db', x) = ChainOf(db, x) /\ db'.parent = db.parent
  <2> SUFFICES ASSUME ~moved PROVE ChainOf(db', x) = ChainOf(db, x) /\ db'.parent = db.parent
    OBVIOUS
  <2>1. db'.parent = db.parent
    <3>1. \A y \in Systems : db'.parent[y] = db.parent[y]
      BY <1>3
    <3>  QED BY <1>4, <3>1
  <2>  QED BY <1>1, <1>6, <2>1, SameWalks
<1>8. ~Truncated(db', ChainOf(db', x)) /\ ~DraftAncestors(db', ChainOf(db', x))
  <2>1. CASE moved /\ op.parent = None
    <3>1. Len(ChainOf(db', x)) = 1 /\ ~Truncated(db', ChainOf(db', x))
      BY <1>1, <1>3, <2>1, ChainAlone
    <3>  QED BY <3>1 DEF DraftAncestors
  <2>2. CASE moved /\ op.parent # None
    <3>1. /\ op.parent \in Systems /\ db.status[op.parent] = "published"
          /\ Len(ChainOf(db, op.parent)) < MaxDepth
          /\ \A i \in DOMAIN ChainOf(db, op.parent) : ChainOf(db, op.parent)[i] # x
      BY <1>1, <1>4, <2>2 DEF Inheritable
    <3>2. Fine(db, op.parent) /\ x \in Systems
      BY <1>1, <3>1 DEF AllFine
    <3>3. db'.parent[x] = op.parent /\ OthersKept(db, db', x)
      BY <1>3, <2>2
    <3>  QED BY <3>1, <3>2, <3>3, BelowWhole
  <2>3. CASE ~moved
    <3> DEFINE c == ChainOf(db, x)
    <3>1. ~Truncated(db, c) /\ ~DraftAncestors(db, c)
      BY <1>5 DEF Fine
    <3>2. \A i \in 2..Len(c) : c[i] \in Systems /\ c[i] # x
      BY <1>1, <1>5, AboveIsPublished
    <3>3. \A i \in 2..Len(c) : db'.status[c[i]] = db.status[c[i]]
      BY <1>3, <3>2
    <3>  QED BY <1>7, <2>3, <3>1, <3>3 DEF Truncated, DraftAncestors
  <2>  QED BY <2>1, <2>2, <2>3
<1>9. db'.status[x] = "published" => Loads(db', x)
  <2> SUFFICES ASSUME op.publish PROVE Loads(db', x)
    BY <1>3
  <2> DEFINE d == Pending(q)
  <2>1. Loads(d, x)
    BY <1>1 DEF RequirePublishable, op, x
  <2>2. /\ d.status = db.status
        /\ d.parent = [db.parent EXCEPT ![x] = IF op.parent = Keep THEN q.row.parent ELSE op.parent]
        /\ d.parts = [db.parts EXCEPT ![x] = q.row.parts]
        /\ d.token = [db.token EXCEPT ![x] = IF op.token = Keep THEN q.row.token ELSE op.token]
    BY <1>1 DEF Pending, TypeOK, Databases, op, x
  <2> HIDE DEF d
  <2>3. d.parent = db'.parent
    <3>1. \A y \in Systems : d.parent[y] = db'.parent[y]
      BY <1>1, <1>3, <1>4, <2>2
    <3>2. d.parent \in [Systems -> Systems \cup {None}]
      BY <1>1, <1>4, <2>2
    <3>  QED BY <1>4, <3>1, <3>2
  <2>4. \A y \in Systems : d.parts[y] = db'.parts[y]
    BY <1>1, <1>3, <1>4, <2>2
  <2>5. \A y \in Systems : d.token[y] = db'.token[y]
    BY <1>1, <1>3, <1>4, <2>2
  <2>6. ChainOf(d, x) = ChainOf(db', x)
    <3>1. \A y \in Systems : Exists(d, y) <=> Exists(db', y)
      BY <1>6, <2>2 DEF Exists
    <3>  QED BY <1>1, <2>3, <3>1, SameWalks
  <2>7. \A i \in DOMAIN ChainOf(db', x) : ChainOf(db', x)[i] \in Systems
    <3>1. ChainOf(db', x) \in Walks(db', x)
      BY <1>1, ChainIsWalk
    <3>  QED BY <1>1, <3>1, WalkType
  <2>8. Builds(d, ChainOf(d, x)) <=> Builds(db', ChainOf(db', x))
    BY <1>1, <2>4, <2>5, <2>6, <2>7, SameBuild
  <2>  QED BY <1>8, <2>1, <2>8 DEF Loads
<1>10. db'.verdict[x] # Unchecked => db'.verdict[x] = Effective(db', x)
  <2> SUFFICES ASSUME db'.verdict[x] # Unchecked PROVE db'.verdict[x] = Effective(db', x)
    OBVIOUS
  <2>1. ~moved /\ db'.verdict[x] = db.verdict[x]
    BY <1>3
  <2>2. db.verdict[x] = Effective(db, x)
    BY <1>5, <2>1 DEF Fine
  <2>3. Effective(db', x) = Effective(db, x)
    BY <1>1, <1>3, <1>7, <2>1, SameBuild
  <2>  QED BY <2>1, <2>2, <2>3
<1>11. Fine(db', x)
  BY <1>5, <1>8, <1>9, <1>10 DEF Fine
<1>  QED BY <1>1, <1>3, <1>11, ChangeFine

LEMMA FinishFine ==
  ASSUME IInv, AllFine(db), NEW r \in Requests, RequestCurrent(r), Finish(r)
  PROVE  AllFine(db') /\ FreezeStep
<1>1. CASE db' = db
  BY <1>1 DEF AllFine, FreezeStep
<1>2. CASE db' # db
  BY <1>2, CreateFine, PartFine, PatchFine, DeleteFine, VerifyFine DEF Finish
<1>  QED BY <1>1, <1>2

----------------------------------------------------------------------------
(* The one request under way.                                                *)

\* What r checks or reads, it checks or reads in the state it leaves.
LEMMA StageCurrent ==
  ASSUME IInv, NEW r \in Requests, Acts(r), r \in Busy => RequestCurrent(r), req'[r] # Idle
  PROVE  RequestCurrent(r)' /\ db' = db
<1>1. TypeOK /\ Staged
  BY DEF IInv
<1>2. ~Finish(r) /\ ~Refuse(r)
  BY <1>1, FinishEnds DEF TypeOK
<1>3. ASSUME NEW op \in Operations, Begin(r, op)
      PROVE  RequestCurrent(r)' /\ db' = db
  <2> DEFINE s == op.sys
  <2>1. /\ Admitted(op) /\ db' = db
        /\ req'[r] = [stage |-> FirstStage(op), op |-> op, row |-> RowFor(op)]
    BY <1>1, <1>3 DEF Begin, TypeOK
  <2>2. op.kind \in {"create", "part", "patch", "verify", "delete"}
    BY OperationType
  <2>3. CASE op.kind = "create"
    BY <2>1, <2>3 DEF Admitted, RequestCurrent
  <2>4. CASE op.kind = "part"
    BY <2>1, <2>4 DEF Admitted, RequestCurrent
  <2>5. CASE op.kind = "patch"
    BY <2>1, <2>5 DEF Admitted, RequestCurrent, RowFor, FirstStage
  <2>6. CASE op.kind = "verify"
    BY <2>1, <2>6 DEF Admitted, RequestCurrent, FirstStage
  <2>7. CASE op.kind = "delete"
    BY <2>1, <2>7 DEF Admitted, RequestCurrent
  <2>  QED BY <2>2, <2>3, <2>4, <2>5, <2>6, <2>7
<1>4. ASSUME ~ \E op \in Operations : Begin(r, op)
      PROVE  RequestCurrent(r)' /\ db' = db
  <2>1. req[r].stage # "idle" /\ req[r] # Idle
    BY <1>2, <1>4 DEF Acts, CheckParent, Enter, Read, Idle
  <2>2. req'[r].stage # "idle"
    <3>1. req'[r] \in Calls
      BY <1>1, <1>2, <1>4, TypeNext DEF TypeOK, Acts, Next
    <3>  QED BY <3>1 DEF Calls
  <2>3. RequestCurrent(r)
    BY <2>1 DEF Busy
  <2>4. req'[r].op = req[r].op /\ db' = db
    BY <1>1, <2>1, <2>2, StageMoves
  <2>5. CASE CheckParent(r)
    <3>1. /\ req'[r].row = req[r].row /\ req[r].op.kind = "patch"
          /\ req[r].op.parent \notin {Keep, None} =>
               req[r].op.parent # req[r].op.sys /\ Inheritable(db, req[r].op.parent, req[r].op.sys)
      BY <1>1, <1>2, <2>1, <2>2, <2>5, StageMoves DEF CheckParent, Staged, Read, Enter
    <3>  QED BY <2>3, <2>4, <3>1 DEF RequestCurrent
  <2>6. CASE Enter(r)
    <3>1. /\ req'[r].row = req[r].row /\ req[r].stage # "loaded"
          /\ req[r].op.kind = "verify" => req'[r].stage = "entered"
      BY <1>1, <2>1, <2>2, <2>6, StageMoves DEF CheckParent, Enter, Read
    <3>  QED BY <2>3, <2>4, <3>1 DEF RequestCurrent
  <2>7. CASE Read(r)
    <3>1. /\ req[r].op.kind = "verify"
          /\ req'[r].row \in {Unchecked, Effective(db, req[r].op.sys)}
      BY <1>1, <2>1, <2>2, <2>7, StageMoves DEF CheckParent, Enter, Read, Staged
    <3>  QED BY <2>3, <2>4, <3>1 DEF RequestCurrent
  <2>  QED BY <1>2, <1>4, <2>5, <2>6, <2>7 DEF Acts
<1>  QED BY <1>3, <1>4

LEMMA SerialInit == Init => SerialInv
<1> SUFFICES ASSUME Init PROVE SerialInv
  OBVIOUS
<1>1. Busy = {}
  BY DEF Init, Busy
<1>2. \A s \in Systems : Fine(db, s)
  BY DEF Init, Fine, Exists
<1>  QED BY <1>1, <1>2 DEF SerialInv, OneAtATime, AllFine

LEMMA SerialNext ==
  ASSUME IInv, SerialInv, Next, OneAtATime'
  PROVE  SerialInv' /\ FreezeStep
<1>1. PICK r \in Requests : Acts(r)
  BY DEF Next, Acts
<1>2. r \in Busy => RequestCurrent(r)
  BY DEF SerialInv
<1>3. \A q \in Requests \ {r} : req'[q] = req[q]
  BY <1>1, OthersStay DEF IInv
<1>4. CASE req'[r] # Idle
  <2>1. RequestCurrent(r)' /\ db' = db
    BY <1>1, <1>2, <1>4, StageCurrent
  <2>2. \A q \in Busy' : q = r
    BY <1>4 DEF OneAtATime, Busy
  <2>  QED BY <2>1, <2>2 DEF SerialInv, AllFine, FreezeStep
<1>5. CASE req'[r] = Idle
  <2>1. r \in Busy
    <3>1. ~ \E op \in Operations : Begin(r, op)
      BY <1>5 DEF Begin, Idle, IInv, TypeOK
    <3>2. req[r].stage # "idle"
      BY <1>1, <3>1 DEF Acts, CheckParent, Enter, Read, Finish, FinishCreate, FinishPart, FinishPatch,
                        FinishDelete, FinishVerify, Ready
    <3>  QED BY <3>2 DEF Busy, Idle
  <2>2. Busy' = {}
    BY <1>3, <1>5, <2>1 DEF SerialInv, OneAtATime, Busy
  <2>3. AllFine(db') /\ FreezeStep
    <3>1. CASE Finish(r)
      BY <1>2, <2>1, <3>1, FinishFine DEF SerialInv
    <3>2. CASE ~Finish(r)
      BY <1>1, <3>2, OnlyFinishWrites DEF SerialInv, AllFine, FreezeStep
    <3>  QED BY <3>1, <3>2
  <2>  QED BY <2>2, <2>3 DEF SerialInv, OneAtATime
<1>  QED BY <1>4, <1>5

LEMMA WatchedInv == WatchedSpec => [](IInv /\ alone \in BOOLEAN /\ (alone => SerialInv))
<1> DEFINE J == IInv /\ alone \in BOOLEAN /\ (alone => SerialInv)
<1>1. WatchedInit => J
  BY InvInit, SerialInit DEF WatchedInit
<1>2. J /\ [WatchedNext]_<<vars, alone>> => J'
  <2> SUFFICES ASSUME J, [WatchedNext]_<<vars, alone>> PROVE J'
    OBVIOUS
  <2>1. CASE WatchedNext
    <3>1. IInv' /\ alone' \in BOOLEAN
      BY <2>1, InvNext DEF WatchedNext
    <3>2. alone' => SerialInv'
      BY <2>1, SerialNext DEF WatchedNext
    <3>  QED BY <3>1, <3>2
  <2>2. CASE UNCHANGED <<vars, alone>>
    <3>1. IInv' /\ alone' \in BOOLEAN
      BY <2>2, InvNext
    <3>2. UNCHANGED <<db, lock, req, alone>>
      BY <2>2 DEF vars
    <3>3. SerialInv => SerialInv'
      BY <3>2 DEF SerialInv, OneAtATime, Busy, RequestCurrent
    <3>  QED BY <3>1, <3>2, <3>3
  <2>  QED BY <2>1, <2>2
<1>  QED BY <1>1, <1>2, PTL DEF WatchedSpec

\* Until requests overlap, every chain loads whole: without a cycle, within the
\* depth that load_chain follows, and published above its own system.
THEOREM ChainsStayWhole == WatchedSpec => []SerialChainsWhole
<1>1. (alone => SerialInv) => SerialChainsWhole
  BY DEF SerialInv, AllFine, Fine, SerialChainsWhole, ChainsWhole
<1>  QED BY <1>1, WatchedInv, PTL

\* Until requests overlap, what _require_publishable passed goes on building.
THEOREM PublishedStaysBuilt == WatchedSpec => []SerialPublishedBuilds
<1>1. (alone => SerialInv) => SerialPublishedBuilds
  BY DEF SerialInv, AllFine, Fine, SerialPublishedBuilds, PublishedBuilds
<1>  QED BY <1>1, WatchedInv, PTL

\* Until requests overlap, a verdict was reached under every layer as it stands.
THEOREM VerdictsStayCurrent == WatchedSpec => []SerialVerdictsMatchParts
<1>1. (alone => SerialInv) => SerialVerdictsMatchParts
  BY DEF SerialInv, AllFine, Fine, SerialVerdictsMatchParts, VerdictsMatchParts
<1>  QED BY <1>1, WatchedInv, PTL

\* Until requests overlap, no step rewrites what a published system is built from.
THEOREM PublishedStaysFrozen == WatchedSpec => SerialPublishedFrozen
<1>1. IInv /\ (alone => SerialInv) /\ [WatchedNext]_<<vars, alone>>
        => [alone' => FreezeStep]_<<vars, alone>>
  BY SerialNext DEF WatchedNext
<1>  QED BY <1>1, WatchedInv, PTL DEF WatchedSpec, SerialPublishedFrozen
=============================================================================
