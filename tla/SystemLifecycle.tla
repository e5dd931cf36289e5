-------------------------- MODULE SystemLifecycle --------------------------
(* The life of a formal system: created as a draft, edited part by part,     *)
(* repointed at a parent, published, deleted, while its proofs are verified  *)
(* (app/routers/systems.py, the guard of app/routers/system_parts.py).       *)
(*                                                                           *)
(* A request is a Python coroutine on its own transaction: what it read      *)
(* before it waited stays as it read it. Parts are the classes a grammar     *)
(* falls into (what it builds to), and one proof stands for each system's.   *)
EXTENDS Naturals, Sequences

CONSTANTS Systems,     \* ids of systems; an id is never used again
          Requests,    \* the requests that may be under way
          MaxDepth,    \* MAX_INHERITANCE_DEPTH, 32 in the code
          Operations,  \* the calls to make, a subset of AllOperations
          Keep,        \* a field the payload of a PATCH leaves out
          None

VARIABLES
    db,    \* the committed rows
    lock,  \* the holder of each system's advisory key
    req    \* each request with the row it loaded

vars == <<db, lock, req>>

Parts == {"plain", "glued", "broken"}
Statuses == {"new", "draft", "published", "gone"}
Unchecked == <<>>

AllOperations ==
       [kind : {"create"}, sys : Systems, parent : Systems \cup {None}]
  \cup [kind : {"part"}, sys : Systems, to : Parts]
  \cup [kind : {"patch"}, sys : Systems, parent : Systems \cup {None, Keep},
        token : BOOLEAN \cup {Keep}, publish : BOOLEAN]
  \cup [kind : {"verify", "delete"}, sys : Systems]

ASSUME OperationsAssumption == Operations \subseteq AllOperations
ASSUME DepthAssumption == MaxDepth \in Nat \ {0}
ASSUME NoneAssumption == None \notin Systems \cup Requests /\ Keep \notin Systems \cup BOOLEAN \cup {None}

----------------------------------------------------------------------------
(* Reading a chain. *)

Exists(d, s) == d.status[s] \in {"draft", "published"}

\* The walks up from a system: through rows that are there, without repetition
\* and within the depth bound.
Walks(d, s) ==
  {c \in UNION {[1..n -> Systems] : n \in 1..MaxDepth} :
     /\ c[1] = s
     /\ \A i \in 2..Len(c) : d.parent[c[i - 1]] = c[i] /\ Exists(d, c[i])
     /\ \A i, j \in 1..Len(c) : c[i] = c[j] => i = j}

\* A system and its ancestors, nearest first: the walk goes on while it can.
ChainOf(d, s) == CHOOSE c \in Walks(d, s) : \A e \in Walks(d, s) : Len(e) <= Len(c)

Truncated(d, chain) == d.parent[chain[Len(chain)]] # None

DraftAncestors(d, chain) == \E i \in 2..Len(chain) : d.status[chain[i]] = "draft"

\* Whether the parts of a chain build: a layer that declares token_separated
\* holds every layer's templates to it.
Builds(d, chain) ==
  LET parts == {d.parts[chain[i]] : i \in DOMAIN chain}
  IN  /\ "broken" \notin parts
      /\ "glued" \in parts => \A i \in DOMAIN chain : ~d.token[chain[i]]

\* What a check in a system rests on: its layers and the parts of each.
Effective(d, s) ==
  LET chain == ChainOf(d, s) IN [i \in DOMAIN chain |-> <<chain[i], d.parts[chain[i]]>>]

Loads(d, s) ==
  LET chain == ChainOf(d, s)
  IN  ~Truncated(d, chain) /\ ~DraftAncestors(d, chain) /\ Builds(d, chain)

\* _require_inheritable_reference: the parent is published (and so visible),
\* not at or below the child, and not already as deep as a chain may be.
WrongInheritable(d, p, child) ==
  /\ d.status[p] = "published"
  /\ \A i \in DOMAIN ChainOf(d, p) : ChainOf(d, p)[i] # child

Inheritable(d, p, child) ==
  /\ d.status[p] = "published"
  /\ \A i \in DOMAIN ChainOf(d, p) : ChainOf(d, p)[i] # child
  /\ Len(ChainOf(d, p)) < MaxDepth

HasDependents(d, s) == \E c \in Systems : Exists(d, c) /\ d.parent[c] = s

----------------------------------------------------------------------------
(* Requests. *)

Idle == [stage |-> "idle"]
Busy == {r \in Requests : req[r] # Idle}

\* What a PATCH loaded of its system; a verify fills it in later (Read).
RowFor(op) ==
  IF op.kind = "patch"
  THEN [parent |-> db.parent[op.sys], parts |-> db.parts[op.sys], token |-> db.token[op.sys]]
  ELSE None

\* The reads before any wait. A refusal changes nothing, and is no action.
Admitted(op) ==
  \/ /\ op.kind = "create"
     /\ db.status[op.sys] = "new" /\ \A q \in Busy : req[q].op.sys # op.sys
     /\ op.parent # None => Inheritable(db, op.parent, None)
  \/ op.kind \in {"part", "patch"} /\ db.status[op.sys] = "draft"
  \/ op.kind = "verify" /\ Exists(db, op.sys)
  \/ op.kind = "delete" /\ Exists(db, op.sys) /\ ~HasDependents(db, op.sys)

FirstStage(op) ==
  IF op.kind \in {"part", "verify"} THEN "waiting"
  ELSE IF op.kind = "patch" /\ op.parent # Keep THEN "loaded"
  ELSE "ready"

Begin(r, op) ==
  /\ req[r] = Idle
  /\ Admitted(op)
  /\ req' = [req EXCEPT ![r] = [stage |-> FirstStage(op), op |-> op, row |-> RowFor(op)]]
  /\ UNCHANGED <<db, lock>>

End(r) ==
  /\ req' = [req EXCEPT ![r] = Idle]
  /\ lock' = [s \in Systems |-> IF lock[s] = r THEN None ELSE lock[s]]

Refuse(r) == End(r) /\ UNCHANGED db

Commit(r, d) == End(r) /\ db' = d

Repoints(q) == q.op.parent # Keep /\ q.op.parent # q.row.parent

\* The checks of the parent a PATCH names, before its change is flushed.
CheckParent(r) ==
  LET q == req[r] IN
  /\ q.stage = "loaded"
  /\ IF q.op.parent # None
        /\ (q.op.parent = q.op.sys \/ ~Inheritable(db, q.op.parent, q.op.sys))
     THEN Refuse(r)
     ELSE /\ req' = [req EXCEPT ![r].stage = IF Repoints(q) THEN "waiting" ELSE "ready"]
          /\ UNCHANGED <<db, lock>>

\* Reading the chain before the key is held.
WrongEnter(r) ==
  LET q == req[r] IN
  /\ q.stage = "waiting"
  /\ lock[q.op.sys] = None
  /\ req' = [req EXCEPT ![r].stage = IF q.op.kind = "verify" THEN "entered" ELSE "ready"]
  /\ UNCHANGED <<db, lock>>

Enter(r) ==
  LET q == req[r] IN
  /\ q.stage = "waiting"
  /\ lock[q.op.sys] = None
  /\ lock' = [lock EXCEPT ![q.op.sys] = r]
  /\ req' = [req EXCEPT ![r].stage = IF q.op.kind = "verify" THEN "entered" ELSE "ready"]
  /\ UNCHANGED db

\* A verify reads the chain once it holds the key, and checks against that.
Read(r) ==
  LET q == req[r] IN
  /\ q.stage = "entered"
  /\ req' = [req EXCEPT ![r].stage = "ready",
                        ![r].row = IF Loads(db, q.op.sys) THEN Effective(db, q.op.sys) ELSE Unchecked]
  /\ UNCHANGED <<db, lock>>

Ready(r, kind) == req[r].stage = "ready" /\ req[r].op.kind = kind

\* The foreign key of inherits_from_id refuses a parent deleted meanwhile.
FinishCreate(r) ==
  LET op == req[r].op IN
  /\ Ready(r, "create")
  /\ IF op.parent # None /\ ~Exists(db, op.parent) THEN Refuse(r)
     ELSE Commit(r, [db EXCEPT !.status[op.sys] = "draft", !.parent[op.sys] = op.parent])

WrongDiscardSystemChecks(d, s) == d
DiscardSystemChecks(d, s) == [d EXCEPT !.verdict[s] = Unchecked]

FinishPart(r) ==
  LET op == req[r].op IN
  /\ Ready(r, "part")
  /\ IF ~Exists(db, op.sys) THEN Refuse(r)
     ELSE Commit(r, [DiscardSystemChecks(db, op.sys) EXCEPT !.parts[op.sys] = op.to])

\* The system as the PATCH sees it: its own row as loaded, with what it assigns.
Pending(q) ==
  [db EXCEPT !.parent[q.op.sys] = IF q.op.parent = Keep THEN q.row.parent ELSE q.op.parent,
             !.parts[q.op.sys] = q.row.parts,
             !.token[q.op.sys] = IF q.op.token = Keep THEN q.row.token ELSE q.op.token]

WrongRequirePublishable(q) == TRUE
RequirePublishable(q) ==
  LET d == Pending(q) IN
  /\ Loads(d, q.op.sys)
  /\ d.parent[q.op.sys] # None => d.status[d.parent[q.op.sys]] = "published"

\* An assignment of what was loaded writes no column.
FinishPatch(r) ==
  LET q == req[r]
      s == q.op.sys
  IN
  /\ Ready(r, "patch")
  /\ IF \/ ~Exists(db, s)
        \/ Repoints(q) /\ q.op.parent # None /\ ~Exists(db, q.op.parent)
        \/ q.op.publish /\ ~RequirePublishable(q)
     THEN Refuse(r)
     ELSE LET d == IF Repoints(q) THEN DiscardSystemChecks(db, s) ELSE db IN
          Commit(r, [d EXCEPT
            !.parent[s] = IF Repoints(q) THEN q.op.parent ELSE @,
            !.token[s] = IF q.op.token \notin {Keep, q.row.token} THEN q.op.token ELSE @,
            !.status[s] = IF q.op.publish THEN "published" ELSE @])

\* inherits_from_id is ON DELETE SET NULL; the proofs go by cascade.
FinishDelete(r) ==
  LET s == req[r].op.sys IN
  /\ Ready(r, "delete")
  /\ IF ~Exists(db, s) THEN Refuse(r)
     ELSE Commit(r, [DiscardSystemChecks(db, s) EXCEPT
            !.status[s] = "gone",
            !.parent = [c \in Systems |-> IF c = s \/ @[c] = s THEN None ELSE @[c]]])

FinishVerify(r) ==
  LET s == req[r].op.sys IN
  /\ Ready(r, "verify")
  /\ IF ~Exists(db, s) THEN Refuse(r)
     ELSE Commit(r, [db EXCEPT !.verdict[s] = req[r].row])

----------------------------------------------------------------------------

Init ==
  /\ db = [status  |-> [s \in Systems |-> "new"],
           parent  |-> [s \in Systems |-> None],
           parts   |-> [s \in Systems |-> "plain"],
           token   |-> [s \in Systems |-> FALSE],
           verdict |-> [s \in Systems |-> Unchecked]]
  /\ lock = [s \in Systems |-> None]
  /\ req = [r \in Requests |-> Idle]

Finish(r) ==
  \/ FinishCreate(r) \/ FinishPart(r) \/ FinishPatch(r)
  \/ FinishDelete(r) \/ FinishVerify(r)

Next ==
  \E r \in Requests :
    \/ \E op \in Operations : Begin(r, op)
    \/ CheckParent(r)
    \/ Enter(r)
    \/ Read(r)
    \/ Finish(r)

Spec == Init /\ [][Next]_vars
=============================================================================
