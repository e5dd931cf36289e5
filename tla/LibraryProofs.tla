--------------------------- MODULE LibraryProofs ---------------------------
(* Proofs, for any tower, proofs, labels and number of overlapping requests, *)
(* that the rows have their types, that a proof warrants one entry, and that *)
(* a debt names entries that stand and an assumption that still is one.      *)
EXTENDS LibraryProps, FiniteSetTheorems, WellFoundedInduction, TLAPS

Sweeps == [root : Systems, label : Labels \cup {NoLabel}, sources : SUBSET Systems]

Steps ==
  [do : {"sweep"}, sweep : Sweeps]
    \cup [do : {"lapse", "drop"}, key : Keys]
    \cup [do : {"insert"}, edge : Edges]

Records ==
  [op : Operations, stage : {"ready", "checked"}, lines : Lines \cup {NoLines},
   rows : SUBSET Keys, heirs : SUBSET Keys,
   gone : SUBSET (Keys \cup (Systems \X Systems)),
   edge : Edges \cup {NoEntry}, todo : Seq(Steps),
   front : SUBSET Systems, swept : SUBSET Systems, queue : {Q \in SUBSET (Nat \X Systems) : IsFiniteSet(Q)},
   clear : SUBSET Proofs, shares : SUBSET (Keys \cup {Primitive, Lapsed}),
   drops : SUBSET Keys]

\* The rows, the locks and the requests.
Typed ==
  /\ entry \in [Keys -> Entries \cup {NoEntry}]
  /\ debts \subseteq Keys \X Keys
  /\ lines \in [Proofs -> Lines \cup {NoLines}]
  /\ edges \subseteq Edges /\ IsFiniteSet(edges)
  /\ lock \in [Systems -> Requests \cup {NoRequest}]
  /\ req \in [Requests -> Records \cup {Idle}]

\* A key is held by a request under way.
Held == \A s \in Systems : lock[s] # NoRequest => req[lock[s]] # Idle

\* The system whose key a call that stores holds, and the entry it stores.
Root(op) == IF op.kind \in {"verify", "promote"} THEN Home[op.proof] ELSE op.system
Target(op) == IF op.kind = "promote" THEN <<Home[op.proof], op.label>> ELSE Key(op)

\* The rows a request still has to delete.
Pending(q) == {q.todo[i].key : i \in {j \in DOMAIN q.todo : q.todo[j].do = "drop"}}

\* The calls that check or store hold their system's key throughout.
HoldsRoot(r, q, lk) == q.op.kind \in {"verify", "promote", "assume"} => lk[Root(q.op)] = r

\* Before a check is stored, what has gone is among what it read.
InCheck(q) ==
  q.stage = "checked" =>
    /\ q.op.kind \in {"verify", "promote"}
    /\ q.todo = <<>> /\ q.heirs = {} /\ q.gone \subseteq q.rows

HasEdge(q) == q.op.kind \in {"relate", "unrelate"} => q.edge \in Edges

\* An assumption's label stays free.
LabelFree(q, es) == q.op.kind = "assume" => es[Key(q.op)] = NoEntry

\* A promotion deletes what its proof warrants and what its label names.
Replaces(q, es) ==
  q.op.kind = "promote" /\ q.stage = "ready" =>
    \A k \in Keys :
      es[k] # NoEntry /\ (k = Target(q.op) \/ es[k].by = q.op.proof)
        => k \in q.drops \/ (k \in Pending(q) /\ k \notin q.gone)

\* An heir stands until another request's deletion of it.
HeirsStand(q, es) == \A h \in q.heirs : es[h] # NoEntry \/ h \in q.gone

Sound(r, q, es, lk) ==
  /\ HoldsRoot(r, q, lk) /\ InCheck(q) /\ HasEdge(q)
  /\ LabelFree(q, es) /\ Replaces(q, es) /\ HeirsStand(q, es)

RequestsSound == \A r \in Requests : req[r] # Idle => Sound(r, req[r], entry, lock)

\* A proof warrants one entry at most.
OneEntryEach ==
  \A j, k \in Keys :
    entry[j] # NoEntry /\ entry[k] # NoEntry /\ entry[j].by = entry[k].by
      /\ entry[j].by # Asserted => j = k

IInv == Typed /\ Held /\ RequestsSound /\ OneEntryEach /\ DebtsNameAssumptions

----------------------------------------------------------------------------
(* Helpers of the model.                                                     *)

LEMMA IdleIsNoRecord == \A q \in Records : q # Idle
BY DEF Records, Idle

\* What each kind of call names.
LEMMA OperationFields ==
  ASSUME NEW op \in Operations
  PROVE  /\ op.kind \in {"verify", "retire", "promote"} => op.proof \in Proofs
         /\ op.kind = "promote" => op.label \in Labels
         /\ op.kind \in {"assume", "withdraw"} => op.system \in Systems /\ op.label \in Labels
         /\ op.kind = "assume" => op.states \in Statements
         /\ op.kind \in {"relate", "unrelate"} => op.source \in Systems /\ op.target \in Systems
         /\ op.kind = "relate" => op.warrant \in Keys \cup {Primitive}
         /\ op.kind \in {"verify", "retire", "promote", "assume", "withdraw",
                         "relate", "unrelate"}
<1>1. op \in AllOperations
  BY ProofAssumption
<1>  QED BY <1>1 DEF AllOperations

\* A set of numbers has a least one.
LEMMA LeastExists ==
  ASSUME NEW T, T \subseteq Nat, T # {}
  PROVE  \E m \in T : \A k \in T : m <= k
<1>1. PICK m \in T : \A k \in T : ~ (<<k, m>> \in OpToRel(<, Nat))
  BY WFMin, NatLessThanWellFounded
<1>2. \A k \in T : ~(k < m)
  BY <1>1 DEF OpToRel
<1>  QED BY <1>2

\* The image of a finite set is finite.
LEMMA ImageIsFinite ==
  ASSUME NEW S, IsFiniteSet(S), NEW f, DOMAIN f = S
  PROVE  IsFiniteSet({f[x] : x \in S})
<1> DEFINE T == {f[x] : x \in S}
<1>1. [x \in S |-> f[x]] \in Surjection(S, T)
  BY DEF Surjection
<1>  QED BY <1>1, FS_Surjection

LEMMA ChainIsSystems ==
  ASSUME NEW s \in Systems
  PROVE  /\ Chain(s) \subseteq Systems
         /\ \A t \in Chain(s) : Distance(s, t) \in Nat
<1>1. Chain(s) = {t \in Systems : \E n \in 0 .. Cardinality(Systems) : Above(s, n) = t}
  BY DEF Chain, Chains
<1>2. Cardinality(Systems) \in Nat
  BY TowerAssumption, FS_CardinalityType
<1>3. ASSUME NEW t \in Chain(s)
      PROVE  Distance(s, t) \in Nat
  <2>1. Distance(s, t) = CHOOSE n \in 0 .. Cardinality(Systems) : Above(s, n) = t
    BY <1>3 DEF Distance, Distances
  <2>2. \E n \in 0 .. Cardinality(Systems) : Above(s, n) = t
    BY <1>1, <1>3
  <2>3. Distance(s, t) \in 0 .. Cardinality(Systems)
    BY <2>1, <2>2
  <2>  QED BY <2>3, <1>2
<1>  QED BY <1>1, <1>3

LEMMA RankIsNatural ==
  ASSUME Typed, NEW s \in Systems, NEW t \in LibraryOf(s)
  PROVE  Rank(s, t) \in Nat
<1> DEFINE size == Cardinality(Systems) + 1
           slot(e) == (e.position * size + Id[e.source]) * size + Id[e.target] + 1
           ranks == IF t \in Chain(s) THEN {Distance(s, t)}
                    ELSE {slot(e) * size + Distance(e.source, t) :
                             e \in {f \in Transferring(s) : t \in Chain(f.source)}}
<1>1. size \in Nat
  BY TowerAssumption, FS_CardinalityType
<1>2. ASSUME NEW e \in Edges, t \in Chain(e.source)
      PROVE  slot(e) * size + Distance(e.source, t) \in Nat
  <2>1. /\ e.position \in Nat /\ e.source \in Systems /\ e.target \in Systems
    BY ProofAssumption DEF Edges
  <2>2. Id[e.source] \in Nat /\ Id[e.target] \in Nat
    BY <2>1, TowerAssumption, FS_CardinalityType
  <2>3. Distance(e.source, t) \in Nat
    BY <2>1, <1>2, ChainIsSystems
  <2> HIDE DEF size
  <2>4. e.position * size \in Nat
    BY <2>1, <1>1
  <2>5. (e.position * size + Id[e.source]) * size \in Nat
    BY <2>2, <2>4, <1>1
  <2>6. slot(e) \in Nat
    BY <2>2, <2>5
  <2> HIDE DEF slot
  <2>7. slot(e) * size \in Nat
    BY <2>6, <1>1
  <2>  QED BY <2>3, <2>7
<1>3. ranks \subseteq Nat /\ ranks # {}
  <2>1. CASE t \in Chain(s)
    BY <2>1, ChainIsSystems
  <2>2. CASE t \notin Chain(s)
    <3>1. PICK e \in Transferring(s) : t \in Chain(e.source)
      BY <2>2 DEF LibraryOf
    <3>2. \A f \in Transferring(s) : f \in Edges
      BY DEF Transferring, Typed
    <3>3. ranks = {slot(f) * size + Distance(f.source, t) :
                     f \in {g \in Transferring(s) : t \in Chain(g.source)}}
      BY <2>2
    <3> HIDE DEF slot, size, ranks
    <3>  QED BY <3>1, <3>2, <3>3, <1>2
  <2>  QED BY <2>1, <2>2
<1>4. Rank(s, t) = CHOOSE n \in ranks : \A m \in ranks : n <= m
  BY DEF Rank
<1> HIDE DEF ranks
<1>5. \E n \in ranks : \A m \in ranks : n <= m
  BY <1>3, LeastExists
<1>  QED BY <1>3, <1>4, <1>5

LEMMA ResolveIsSystem ==
  ASSUME Typed, NEW s \in Systems, NEW l \in Labels
  PROVE  Resolve(s, l) \in Systems \cup {NoSystem}
<1> DEFINE holders == {t \in LibraryOf(s) : entry[t, l] # NoEntry}
           ranks == {Rank(s, t) : t \in holders}
<1>1. LibraryOf(s) \subseteq Systems
  <2>1. \A e \in Transferring(s) : e.source \in Systems
    BY DEF Transferring, Typed, Edges
  <2>  QED BY <2>1, ChainIsSystems DEF LibraryOf
<1>2. CASE IsRule(s, l) \/ holders = {}
  BY <1>2 DEF Resolve
<1>3. CASE ~(IsRule(s, l) \/ holders = {})
  <2>1. ranks \subseteq Nat /\ ranks # {}
    BY <1>3, RankIsNatural
  <2>2. PICK n \in ranks : \A m \in ranks : n <= m
    <3> HIDE DEF ranks
    <3>  QED BY <2>1, LeastExists
  <2>3. \E t \in holders : \A u \in holders : Rank(s, t) <= Rank(s, u)
    BY <2>2
  <2>4. Resolve(s, l) = CHOOSE t \in holders : \A u \in holders : Rank(s, t) <= Rank(s, u)
    BY <1>3 DEF Resolve
  <2>5. Resolve(s, l) \in holders
    <3> HIDE DEF holders
    <3>  QED BY <2>3, <2>4
  <2>  QED BY <2>5, <1>1
<1>  QED BY <1>2, <1>3

LEMMA CheckIsLines ==
  ASSUME Typed, NEW p \in Proofs
  PROVE  Check(p) \in Lines
<1>1. Home[p] \in Systems /\ Citations[p] \subseteq Labels \X Statements /\ Lemmas[p] \subseteq Proofs
  BY ProofAssumption
<1>2. \A c \in Citations[p] : <<c[1], Resolve(Home[p], c[1])>> \in Cites
  BY <1>1, ResolveIsSystem DEF Cites
<1>  QED BY <1>1, <1>2 DEF Check, Lines

LEMMA NamedIsKeys ==
  ASSUME NEW ls \in Lines
  PROVE  Named(ls) \subseteq Keys
BY DEF Named, Lines, Cites, Keys

LEMMA EdgeSweepsAreSteps ==
  ASSUME Typed, NEW k
  PROVE  EdgeSweeps(k) \subseteq Seq(Steps)
<1> DEFINE lost == {e \in edges : e.warrant = k}
<1>1. IsFiniteSet(lost)
  BY FS_Subset DEF Typed
<1>2. Cardinality(lost) \in Nat
  BY <1>1, FS_CardinalityType
<1>3. ASSUME NEW e \in lost
      PROVE  ToSweep(e.target, NoLabel, Chain(e.source)) \in Steps
  <2>1. e.target \in Systems /\ e.source \in Systems
    BY <1>3 DEF Typed, Edges
  <2>  QED BY <2>1, ChainIsSystems DEF ToSweep, Sweep, Steps, Sweeps
<1>4. ASSUME NEW sweeps \in EdgeSweeps(k)
      PROVE  sweeps \in [1 .. Cardinality(lost) -> Steps]
  <2>1. PICK o \in [1 .. Cardinality(lost) -> lost] :
          sweeps = [i \in 1 .. Cardinality(lost) |->
                      ToSweep(o[i].target, NoLabel, Chain(o[i].source))]
    BY <1>4 DEF EdgeSweeps
  <2> HIDE DEF lost
  <2>  QED BY <2>1, <1>3
<1> HIDE DEF lost
<1>  QED BY <1>2, <1>4

LEMMA RetirementsAreSteps ==
  ASSUME NEW ks \in SUBSET Keys
  PROVE  /\ Retirements(ks) \in Seq(Steps)
         /\ \A i \in DOMAIN Retirements(ks) : Retirements(ks)[i].do # "insert"
<1>1. CASE ks = {}
  BY <1>1 DEF Retirements
<1>2. CASE ks # {}
  <2>1. PICK k \in Keys : Retirements(ks) = Retirement(k)
    BY <1>2 DEF Retirements
  <2>2. ToSweep(k[1], k[2], {}) \in Steps /\ ToLapse(k) \in Steps /\ ToDrop(k) \in Steps
    BY DEF ToSweep, ToLapse, ToDrop, Sweep, Steps, Sweeps, Keys
  <2>  QED BY <2>1, <2>2 DEF Retirement, ToSweep, ToLapse, ToDrop
<1>  QED BY <1>1, <1>2

LEMMA BegunIsRecord ==
  ASSUME NEW op \in Operations, NEW ls \in Lines \cup {NoLines}, NEW todo \in Seq(Steps)
  PROVE  Begun(op, ls, todo) \in Records
BY FS_EmptySet DEF Begun, Records

\* The rows a request reads are keys or edges.
LEMMA DeletedIsTyped ==
  ASSUME Typed, NEW r \in Requests, NEW rows, rows \subseteq Keys \cup (Systems \X Systems),
         Deleted(r, rows)
  PROVE  /\ req' \in [Requests -> Records \cup {Idle}]
         /\ req'[r] = Idle
         /\ \A q \in Requests \ {r} :
              IF req[q] = Idle THEN req'[q] = Idle
              ELSE req'[q] = [req[q] EXCEPT !.gone = @ \cup (rows \cap Reads(req[q]))]
         /\ \A q \in Requests \ {r} : req'[q] = Idle <=> req[q] = Idle
<1>1. \A q \in Requests \ {r} :
        IF req[q] = Idle THEN req'[q] = Idle
        ELSE req'[q] = [req[q] EXCEPT !.gone = @ \cup (rows \cap Reads(req[q]))]
  BY DEF Deleted
<1>2. ASSUME NEW q \in Requests \ {r}, req[q] # Idle
      PROVE  [req[q] EXCEPT !.gone = @ \cup (rows \cap Reads(req[q]))] \in Records
  <2>1. req[q] \in Records
    BY <1>2 DEF Typed
  <2>2. req[q].gone \cup (rows \cap Reads(req[q])) \subseteq Keys \cup (Systems \X Systems)
    BY <2>1 DEF Records
  <2>  QED BY <2>1, <2>2 DEF Records
<1>3. \A q \in Requests : req'[q] \in Records \cup {Idle}
  BY <1>1, <1>2 DEF Deleted
<1>4. req' = [q \in Requests |-> req'[q]]
  BY DEF Deleted
<1>  QED BY <1>1, <1>2, <1>3, <1>4, IdleIsNoRecord DEF Deleted

LEMMA ReleaseIsTyped ==
  ASSUME Typed, Held, NEW r \in Requests,
         NEW rows, rows \subseteq Keys \cup (Systems \X Systems),
         Release(r, rows)
  PROVE  /\ req' \in [Requests -> Records \cup {Idle}]
         /\ lock' \in [Systems -> Requests \cup {NoRequest}]
         /\ Held'
<1>1. /\ Deleted(r, rows)
      /\ lock' = [s \in Systems |-> IF lock[s] = r THEN NoRequest ELSE lock[s]]
  BY DEF Release
<1>2. lock' \in [Systems -> Requests \cup {NoRequest}]
  BY <1>1 DEF Typed
<1>3. ASSUME NEW s \in Systems, lock'[s] # NoRequest
      PROVE  req'[lock'[s]] # Idle
  <2>1. lock'[s] = lock[s] /\ lock[s] # r /\ lock[s] \in Requests
    BY <1>1, <1>3 DEF Typed
  <2>  QED BY <2>1, <1>1, <1>3, DeletedIsTyped DEF Held
<1>  QED BY <1>1, <1>2, <1>3, DeletedIsTyped DEF Held

\* A step may take a key that is free.
Takes(r) ==
  /\ lock' \in [Systems -> Requests \cup {NoRequest}]
  /\ \A s \in Systems : lock'[s] = lock[s] \/ (lock[s] = NoRequest /\ lock'[s] = r)

LEMMA TakesNoKey ==
  ASSUME Typed, NEW r \in Requests, lock' = lock
  PROVE  Takes(r)
BY DEF Takes, Typed

\* A step of a request that changes its record, and may take a key.
LEMMA UpdateIsTyped ==
  ASSUME Typed, Held, NEW r \in Requests, NEW record \in Records,
         req' = [req EXCEPT ![r] = record],
         Takes(r),
         UNCHANGED db
  PROVE  Typed' /\ Held'
<1>1. lock' \in [Systems -> Requests \cup {NoRequest}]
  BY DEF Takes
<1>2. \A s \in Systems : lock'[s] # NoRequest => lock'[s] = r \/ lock'[s] = lock[s]
  BY DEF Takes
<1>3. req'[r] = record /\ \A q \in Requests \ {r} : req'[q] = req[q]
  BY DEF Typed
<1>4. Held'
  <2> SUFFICES ASSUME NEW s \in Systems, lock'[s] # NoRequest
               PROVE  req'[lock'[s]] # Idle
    BY DEF Held
  <2>1. CASE lock'[s] = r
    BY <2>1, <1>3, IdleIsNoRecord
  <2>2. CASE lock'[s] # r
    BY <2>2, <1>1, <1>2, <1>3 DEF Held
  <2>  QED BY <2>1, <2>2
<1>5. req' \in [Requests -> Records \cup {Idle}]
  BY DEF Typed
<1>  QED BY <1>1, <1>4, <1>5 DEF Typed, db
----------------------------------------------------------------------------
(* What a request's own step, and its end, leave of the others.              *)

LEMMA RootIsSystem ==
  ASSUME NEW op \in Operations, op.kind \in {"verify", "promote", "assume"}
  PROVE  Root(op) \in Systems
BY OperationFields, ProofAssumption DEF Root

LEMMA TargetIsKey ==
  ASSUME NEW op \in Operations, op.kind \in {"promote", "assume"}
  PROVE  Target(op) \in Keys /\ Target(op)[1] = Root(op)
BY OperationFields, ProofAssumption DEF Target, Key, Root, Keys

LEMMA UpdateIsSound ==
  ASSUME IInv, NEW r \in Requests, NEW record \in Records,
         req' = [req EXCEPT ![r] = record],
         Takes(r),
         UNCHANGED db,
         Sound(r, record, entry, lock')
  PROVE  IInv'
<1>1. Typed' /\ Held'
  BY UpdateIsTyped DEF IInv
<1>2. req'[r] = record /\ \A q \in Requests \ {r} : req'[q] = req[q]
  BY DEF IInv, Typed
<1>3. entry' = entry /\ debts' = debts
  BY DEF db
<1>4. ASSUME NEW q \in Requests \ {r}, req[q] # Idle
      PROVE  Sound(q, req[q], entry, lock')
  <2>1. Sound(q, req[q], entry, lock)
    BY <1>4 DEF IInv, RequestsSound
  <2>2. HoldsRoot(q, req[q], lock')
    <3> SUFFICES ASSUME req[q].op.kind \in {"verify", "promote", "assume"}
                 PROVE  lock'[Root(req[q].op)] = q
      BY DEF HoldsRoot
    <3>1. Root(req[q].op) \in Systems
      BY <1>4, RootIsSystem DEF IInv, Typed, Records
    <3>2. lock[Root(req[q].op)] = q
      BY <2>1 DEF Sound, HoldsRoot
    <3>  QED BY <3>1, <3>2, ProofAssumption DEF IInv, Typed, Takes
  <2>  QED BY <2>1, <2>2 DEF Sound
<1>5. RequestsSound'
  BY <1>2, <1>3, <1>4 DEF RequestsSound
<1>  QED BY <1>1, <1>3, <1>5 DEF IInv, OneEntryEach, DebtsNameAssumptions, IsAssumption

\* What a request that ends may do to an entry.
Stores(op, k) == op.kind \in {"promote", "assume"} /\ k = Target(op)

Ended(r, rows) ==
  \A k \in Keys :
    \/ entry'[k] = (IF k \in rows THEN NoEntry ELSE entry[k])
    \/ /\ Stores(req[r].op, k) /\ entry'[k] # NoEntry
       /\ entry'[k].by = Asserted
            \/ (req[r].op.kind = "promote" /\ entry'[k].by = req[r].op.proof)

LEMMA KeysAreNoEdges == Keys \cap (Systems \X Systems) = {}
BY TowerAssumption DEF Keys

LEMMA ReadsIncludes ==
  ASSUME NEW q \in Records
  PROVE  q.heirs \subseteq Reads(q) /\ Pending(q) \subseteq Reads(q)
<1>1. \A i \in DOMAIN q.todo : q.todo[i].do = "drop" =>
        q.todo[i].key \in {t.key : t \in {x \in {q.todo[j] : j \in DOMAIN q.todo} : x.do \in {"lapse", "drop"}}}
  OBVIOUS
<1>  QED BY <1>1 DEF Reads, Pending
LEMMA ChecksReadTheirRows ==
  ASSUME NEW q \in Records, InCheck(q), q.stage = "checked"
  PROVE  Reads(q) = q.rows
<1>1. /\ q.todo = <<>> /\ q.heirs = {}
      /\ q.op.kind \in {"verify", "promote"}
  BY DEF InCheck
<1>2. DOMAIN q.todo = {}
  BY <1>1
<1>  QED BY <1>1, <1>2 DEF Reads

\* The others when a request ends: one that stores holds its system's key, so no
\* other stores or promotes there.
LEMMA EndIsSound ==
  ASSUME IInv, NEW r \in Requests, req[r] # Idle,
         NEW rows, rows \subseteq Keys \cup (Systems \X Systems),
         Release(r, rows), Ended(r, rows)
  PROVE  RequestsSound' /\ Held'
<1>1. Held' /\ lock' \in [Systems -> Requests \cup {NoRequest}]
  BY ReleaseIsTyped DEF IInv
<1>2. /\ req'[r] = Idle
      /\ \A q \in Requests \ {r} : req'[q] = Idle <=> req[q] = Idle
      /\ \A q \in Requests \ {r} :
            req[q] # Idle => req'[q] = [req[q] EXCEPT !.gone = @ \cup (rows \cap Reads(req[q]))]
  BY DeletedIsTyped DEF IInv, Release
<1>3. SUFFICES ASSUME NEW q \in Requests \ {r}, req[q] # Idle
               PROVE  Sound(q, req'[q], entry', lock')
  BY <1>1, <1>2 DEF RequestsSound
<1> DEFINE old == req[q]
           new == req'[q]
<1>4. /\ old \in Records /\ old.op \in Operations
      /\ new = [old EXCEPT !.gone = @ \cup (rows \cap Reads(old))]
      /\ Sound(q, old, entry, lock)
  BY <1>2, <1>3 DEF IInv, Typed, RequestsSound, Records
<1>5. /\ new.op = old.op /\ new.stage = old.stage /\ new.todo = old.todo
      /\ new.heirs = old.heirs /\ new.rows = old.rows /\ new.edge = old.edge
      /\ new.drops = old.drops
      /\ new.gone = old.gone \cup (rows \cap Reads(old))
  BY <1>4 DEF Records
<1>6. old.op.kind \in {"promote", "assume"} =>
        \A k \in Keys : Stores(req[r].op, k) =>
          k[1] # Root(old.op)
  <2> SUFFICES ASSUME old.op.kind \in {"promote", "assume"}, NEW k \in Keys, Stores(req[r].op, k)
               PROVE  k[1] # Root(old.op)
    OBVIOUS
  <2>1. req[r].op \in Operations /\ Sound(r, req[r], entry, lock)
    BY DEF IInv, Typed, RequestsSound, Records
  <2>2. lock[Root(req[r].op)] = r /\ k[1] = Root(req[r].op)
    BY <2>1, TargetIsKey DEF Sound, HoldsRoot, Stores
  <2>3. lock[Root(old.op)] = q
    BY <1>4 DEF Sound, HoldsRoot
  <2>  QED BY <2>2, <2>3
<1>7. HoldsRoot(q, new, lock')
  <2> SUFFICES ASSUME old.op.kind \in {"verify", "promote", "assume"}
               PROVE  lock'[Root(old.op)] = q
    BY <1>5 DEF HoldsRoot
  <2>1. lock[Root(old.op)] = q /\ Root(old.op) \in Systems
    BY <1>4, RootIsSystem DEF Sound, HoldsRoot
  <2>  QED BY <2>1 DEF Release
<1>8. InCheck(new)
  <2> SUFFICES ASSUME old.stage = "checked"
               PROVE  InCheck(new)
    BY <1>5 DEF InCheck
  <2>1. InCheck(old)
    BY <1>4 DEF Sound
  <2>2. Reads(old) = old.rows
    BY <2>1, <1>4, ChecksReadTheirRows
  <2>  QED BY <2>1, <2>2, <1>5 DEF InCheck
<1>9. HasEdge(new)
  BY <1>4, <1>5 DEF Sound, HasEdge
<1>10. LabelFree(new, entry')
  <2> SUFFICES ASSUME old.op.kind = "assume"
               PROVE  entry'[Key(old.op)] = NoEntry
    BY <1>5 DEF LabelFree
  <2>1. entry[Key(old.op)] = NoEntry
    BY <1>4 DEF Sound, LabelFree
  <2>2. Key(old.op) \in Keys /\ Key(old.op)[1] = Root(old.op)
    BY <1>4, TargetIsKey DEF Target
  <2>  QED BY <2>1, <2>2, <1>6 DEF Ended
<1>11. Replaces(new, entry')
  <2> SUFFICES ASSUME old.op.kind = "promote", old.stage = "ready", NEW k \in Keys,
                      entry'[k] # NoEntry,
                      k = Target(old.op) \/ entry'[k].by = old.op.proof
               PROVE  k \in old.drops \/ (k \in Pending(new) /\ k \notin new.gone)
    BY <1>5 DEF Replaces
  <2>1. Target(old.op)[1] = Root(old.op) /\ Root(old.op) = Home[old.op.proof]
        /\ old.op.proof \in Proofs
    BY <1>4, TargetIsKey, OperationFields DEF Root
  <2>2. ~Stores(req[r].op, k) \/ entry'[k] = (IF k \in rows THEN NoEntry ELSE entry[k])
    <3> SUFFICES ASSUME Stores(req[r].op, k),
                        entry'[k].by = Asserted
                          \/ (req[r].op.kind = "promote" /\ entry'[k].by = req[r].op.proof)
                 PROVE  FALSE
      BY DEF Ended
    <3>1. k[1] # Root(old.op)
      BY <1>6
    <3>2. entry'[k].by = old.op.proof
      BY <3>1, <2>1
    <3>3. req[r].op.kind = "promote" /\ req[r].op.proof = old.op.proof
      BY <3>2, <2>1, ProofAssumption
    <3>4. req[r].op \in Operations
      BY DEF IInv, Typed, Records
    <3>5. k[1] = Root(req[r].op)
      BY <3>3, <3>4, TargetIsKey DEF Stores
    <3>  QED BY <3>1, <3>3, <3>5, <2>1 DEF Root
  <2>3. entry'[k] = entry[k] /\ k \notin rows
    BY <2>2 DEF Ended
  <2>4. k \in old.drops \/ (k \in Pending(old) /\ k \notin old.gone)
    BY <2>3, <1>4 DEF Sound, Replaces
  <2>5. Pending(new) = Pending(old)
    BY <1>5 DEF Pending
  <2>  QED BY <2>3, <2>4, <2>5, <1>5
<1>12. HeirsStand(new, entry')
  <2> SUFFICES ASSUME NEW h \in old.heirs, entry'[h] = NoEntry
               PROVE  h \in new.gone
    BY <1>5 DEF HeirsStand
  <2>1. h \in Keys /\ h \in Reads(old)
    BY <1>4, ReadsIncludes DEF Records
  <2>2. entry[h] # NoEntry \/ h \in old.gone
    BY <1>4 DEF Sound, HeirsStand
  <2>3. h \in rows \/ entry[h] = NoEntry
    BY <2>1 DEF Ended
  <2>  QED BY <2>1, <2>2, <2>3, <1>5
<1>  QED BY <1>7, <1>8, <1>9, <1>10, <1>11, <1>12 DEF Sound
----------------------------------------------------------------------------
(* The steps of a request, one lemma each.                                   *)

LEMMA SoundBegun ==
  ASSUME IInv, NEW r \in Requests, NEW op \in Operations, NEW ls, NEW todo, NEW lk,
         op.kind \notin {"promote", "relate", "unrelate"},
         op.kind \in {"verify", "assume"} => lk[Root(op)] = r,
         op.kind = "assume" => entry[Key(op)] = NoEntry
  PROVE  Sound(r, Begun(op, ls, todo), entry, lk)
BY DEF Sound, Begun, HoldsRoot, InCheck, HasEdge, LabelFree, Replaces, HeirsStand

LEMMA StartCheckSound ==
  ASSUME IInv, NEW r \in Requests, NEW op \in Operations, StartCheck(r, op)
  PROVE  IInv'
<1> DEFINE ls == Check(op.proof)
           record == [Begun(op, ls, <<>>) EXCEPT !.stage = "checked", !.rows = Named(ls)]
<1>1. op.proof \in Proofs /\ op.kind \in {"verify", "promote"} /\ Start(r, Home[op.proof], record)
  BY OperationFields DEF StartCheck
<1>2. ls \in Lines
  BY <1>1, CheckIsLines DEF IInv
<1>3. Named(ls) \subseteq Keys
  BY <1>2, NamedIsKeys
<1>4. Begun(op, ls, <<>>) \in Records
  <2>1. <<>> \in Seq(Steps)
    OBVIOUS
  <2>  QED BY <1>2, <2>1, BegunIsRecord
<1> HIDE DEF ls
<1>5. record \in Records
  BY <1>3, <1>4 DEF Records
<1>6. Home[op.proof] \in Systems /\ Root(op) = Home[op.proof]
  BY <1>1, ProofAssumption DEF Root
<1>7. lock'[Root(op)] = r
  BY <1>1, <1>6 DEF Start, IInv, Typed
<1>8. Sound(r, record, entry, lock')
  BY <1>1, <1>7 DEF Sound, Begun, HoldsRoot, InCheck, HasEdge, LabelFree, Replaces, HeirsStand
<1>9. req' = [req EXCEPT ![r] = record] /\ UNCHANGED db /\ Takes(r)
  BY <1>1 DEF Start, Takes, Typed, IInv
<1> HIDE DEF record
<1>  QED BY <1>5, <1>8, <1>9, UpdateIsSound

LEMMA StartRetireSound ==
  ASSUME IInv, NEW r \in Requests, NEW op \in Operations, StartRetire(r, op)
  PROVE  IInv'
<1> DEFINE record == Begun(op, NoLines, Retirements(WarrantedBy(op.proof)))
<1>1. op.kind = "retire" /\ Enter(r, record)
  BY DEF StartRetire
<1>2. WarrantedBy(op.proof) \in SUBSET Keys
  BY DEF WarrantedBy
<1>3. record \in Records
  BY <1>2, RetirementsAreSteps, BegunIsRecord
<1>4. Sound(r, record, entry, lock')
  BY <1>1, SoundBegun
<1>5. req' = [req EXCEPT ![r] = record] /\ UNCHANGED db /\ Takes(r)
  BY <1>1, TakesNoKey DEF Enter, db, IInv
<1> HIDE DEF record
<1>  QED BY <1>3, <1>4, <1>5, UpdateIsSound

LEMMA StartAssumeSound ==
  ASSUME IInv, NEW r \in Requests, NEW op \in Operations, StartAssume(r, op)
  PROVE  IInv'
<1> DEFINE todo == <<ToSweep(op.system, op.label, {})>>
           record == Begun(op, NoLines, todo)
<1>1. op.kind = "assume" /\ entry[Key(op)] = NoEntry /\ Start(r, op.system, record)
  BY DEF StartAssume
<1>2. op.system \in Systems /\ op.label \in Labels
  BY <1>1, OperationFields
<1>3. todo \in Seq(Steps)
  BY <1>2 DEF ToSweep, Sweep, Steps, Sweeps
<1>4. record \in Records
  BY <1>3, BegunIsRecord
<1>5. lock'[Root(op)] = r
  BY <1>1, <1>2 DEF Start, IInv, Typed, Root
<1>6. Sound(r, record, entry, lock')
  BY <1>1, <1>5, SoundBegun
<1>7. /\ req' = [req EXCEPT ![r] = record] /\ UNCHANGED db
      /\ Takes(r)
  BY <1>1 DEF Start, Takes, Typed, IInv
<1> HIDE DEF record
<1>  QED BY <1>4, <1>6, <1>7, UpdateIsSound

LEMMA StartWithdrawSound ==
  ASSUME IInv, NEW r \in Requests, NEW op \in Operations, StartWithdraw(r, op)
  PROVE  IInv'
<1> DEFINE todo == <<ToDrop(Key(op)), ToSweep(op.system, op.label, {})>>
           record == Begun(op, NoLines, todo)
<1>1. op.kind = "withdraw" /\ Start(r, op.system, record)
  BY DEF StartWithdraw
<1>2. op.system \in Systems /\ op.label \in Labels /\ Key(op) \in Keys
  BY <1>1, OperationFields DEF Key, Keys
<1>3. todo \in Seq(Steps)
  BY <1>2 DEF ToSweep, ToDrop, Sweep, Steps, Sweeps
<1>4. record \in Records
  BY <1>3, BegunIsRecord
<1>5. Sound(r, record, entry, lock')
  BY <1>1, SoundBegun
<1>6. /\ req' = [req EXCEPT ![r] = record] /\ UNCHANGED db
      /\ Takes(r)
  BY <1>1 DEF Start, Takes, Typed, IInv
<1> HIDE DEF record
<1>  QED BY <1>4, <1>5, <1>6, UpdateIsSound

\* A call about the edge e, which takes no key before its first sweep.
LEMMA EnterEdgeSound ==
  ASSUME IInv, NEW r \in Requests, NEW op \in Operations, op.kind \in {"relate", "unrelate"},
         NEW e \in Edges, NEW todo \in Seq(Steps),
         Enter(r, [Begun(op, NoLines, todo) EXCEPT !.edge = e])
  PROVE  IInv'
<1> DEFINE record == [Begun(op, NoLines, todo) EXCEPT !.edge = e]
<1>1. Begun(op, NoLines, todo) \in Records
  BY BegunIsRecord
<1>2. record \in Records
  BY <1>1 DEF Records
<1>3. Sound(r, record, entry, lock')
  BY DEF Sound, Begun, HoldsRoot, InCheck, HasEdge, LabelFree, Replaces, HeirsStand
<1>4. req' = [req EXCEPT ![r] = record] /\ UNCHANGED db /\ Takes(r)
  BY TakesNoKey DEF Enter, db, IInv
<1> HIDE DEF record
<1>  QED BY <1>2, <1>3, <1>4, UpdateIsSound

LEMMA StartRelateSound ==
  ASSUME IInv, NEW r \in Requests, NEW op \in Operations,
         StartRelate(r, op) \/ StartUnrelate(r, op)
  PROVE  IInv'
<1>1. CASE StartRelate(r, op)
  <2>1. /\ op.kind = "relate" /\ op.source \in Systems /\ op.target \in Systems
        /\ op.warrant \in Keys \cup {Primitive}
    BY <1>1, OperationFields DEF StartRelate
  <2> DEFINE edge(n) == [source |-> op.source, target |-> op.target, position |-> n,
                         warrant |-> op.warrant]
             todo(e) == <<ToInsert(e), ToSweep(op.target, NoLabel, Chain(op.source))>>
  <2>2. PICK n \in 0 .. MaxPosition :
          Enter(r, [Begun(op, NoLines, todo(edge(n))) EXCEPT !.edge = edge(n)])
    BY <1>1 DEF StartRelate
  <2>3. edge(n) \in Edges
    BY <2>1 DEF Edges
  <2> HIDE DEF edge
  <2>4. todo(edge(n)) \in Seq(Steps)
    BY <2>1, <2>3, ChainIsSystems DEF ToInsert, ToSweep, Sweep, Steps, Sweeps
  <2>  QED BY <2>1, <2>2, <2>3, <2>4, EnterEdgeSound
<1>2. CASE StartUnrelate(r, op)
  <2>1. /\ op.kind = "unrelate" /\ op.source \in Systems /\ op.target \in Systems
    BY <1>2, OperationFields DEF StartUnrelate
  <2> DEFINE todo == <<ToSweep(op.target, NoLabel, Chain(op.source))>>
  <2>2. PICK e \in edges : Enter(r, [Begun(op, NoLines, todo) EXCEPT !.edge = e])
    BY <1>2 DEF StartUnrelate
  <2>3. e \in Edges
    BY <2>2 DEF IInv, Typed
  <2>4. todo \in Seq(Steps)
    BY <2>1, ChainIsSystems DEF ToSweep, Sweep, Steps, Sweeps
  <2> HIDE DEF todo
  <2>  QED BY <2>1, <2>2, <2>3, <2>4, EnterEdgeSound
<1>  QED BY <1>1, <1>2
\* What is left to delete when the head of the list is done, other steps put first.
LEMMA PendingAfterHead ==
  ASSUME NEW old \in Records, NEW new \in Records, old.todo # <<>>,
         NEW more \in Seq(Steps), new.todo = more \o Tail(old.todo) \/ new.todo = Tail(old.todo),
         NEW k \in Pending(old), Head(old.todo).do = "drop" => k # Head(old.todo).key
  PROVE  k \in Pending(new)
<1>1. old.todo \in Seq(Steps)
  BY DEF Records
<1>2. PICK i \in DOMAIN old.todo : old.todo[i].do = "drop" /\ old.todo[i].key = k
  BY DEF Pending
<1>3. i \in 1 .. Len(old.todo) /\ i # 1
  BY <1>1, <1>2
<1>4. i - 1 \in DOMAIN Tail(old.todo) /\ Tail(old.todo)[i - 1] = old.todo[i]
  BY <1>1, <1>3
<1>5. \E j \in DOMAIN new.todo : new.todo[j] = old.todo[i]
  <2>1. CASE new.todo = Tail(old.todo)
    BY <2>1, <1>4
  <2>2. CASE new.todo = more \o Tail(old.todo)
    <3>1. Tail(old.todo) \in Seq(Steps) /\ i - 1 \in 1 .. Len(Tail(old.todo))
      BY <1>1, <1>4
    <3>2. /\ Len(more) + (i - 1) \in DOMAIN (more \o Tail(old.todo))
          /\ (more \o Tail(old.todo))[Len(more) + (i - 1)] = Tail(old.todo)[i - 1]
      BY <3>1
    <3>  QED BY <3>2, <2>2, <1>4
  <2>  QED BY <2>1, <2>2
<1>  QED BY <1>2, <1>5 DEF Pending

\* A step of the list of a request that forgets no deletion.
LEMMA StepIsSound ==
  ASSUME IInv, NEW r \in Requests, req[r] # Idle, NEW record \in Records,
         req[r].todo # <<>>,
         record.op = req[r].op, record.stage = req[r].stage, record.heirs = req[r].heirs,
         record.edge = req[r].edge, record.gone = req[r].gone,
         req[r].drops \subseteq record.drops,
         Pending(req[r]) \ req[r].gone \subseteq Pending(record) \cup record.drops,
         req' = [req EXCEPT ![r] = record],
         Takes(r),
         UNCHANGED db
  PROVE  IInv'
<1>1. req[r] \in Records /\ Sound(r, req[r], entry, lock) /\ req[r].op \in Operations
  BY DEF IInv, Typed, RequestsSound, Records
<1>2. req[r].stage = "ready"
  BY <1>1 DEF Sound, InCheck, Records
<1>3. HoldsRoot(r, record, lock')
  <2> SUFFICES ASSUME req[r].op.kind \in {"verify", "promote", "assume"}
               PROVE  lock'[Root(req[r].op)] = r
    BY DEF HoldsRoot
  <2>1. lock[Root(req[r].op)] = r /\ Root(req[r].op) \in Systems
    BY <1>1, RootIsSystem DEF Sound, HoldsRoot
  <2>  QED BY <2>1 DEF IInv, Typed, Takes
<1>4. Replaces(record, entry)
  BY <1>1 DEF Sound, Replaces
<1>5. Sound(r, record, entry, lock')
  BY <1>1, <1>2, <1>3, <1>4 DEF Sound, InCheck, HasEdge, LabelFree, HeirsStand
<1>  QED BY <1>5, UpdateIsSound

\* The head of a request's list.
LEMMA HeadIsStep ==
  ASSUME IInv, NEW r \in Requests, NEW step, DoesNext(r, step)
  PROVE  /\ req[r] \in Records /\ req[r] # Idle /\ req[r].todo # <<>>
         /\ Head1(r) = Head(req[r].todo) /\ Head1(r) \in Steps /\ Head1(r).do = step
         /\ Tail(req[r].todo) \in Seq(Steps)
<1>1. req[r] \in Records /\ req[r] # Idle /\ req[r].todo # <<>>
  BY DEF DoesNext, IInv, Typed
<1>2. req[r].todo \in Seq(Steps)
  BY <1>1 DEF Records
<1>  QED BY <1>1, <1>2 DEF DoesNext, Head1

LEMMA FurtherIsSystems ==
  ASSUME Typed, NEW sweep, NEW front, NEW reached
  PROVE  Further(sweep, front, reached) \subseteq Systems
BY DEF Further, Children, Typed, Edges

LEMMA WalkSound ==
  ASSUME IInv, NEW r \in Requests, Walk(r)
  PROVE  IInv'
<1> DEFINE sweep == Head1(r).sweep
           known == req[r].queue \cup {<<0, sweep.root>>}
           next  == Further(sweep, Front(r), req[r].swept \cup {sweep.root})
           depth == Cardinality({x[1] : x \in known})
           record == [req[r] EXCEPT !.front = next,
                                    !.swept = @ \cup {sweep.root} \cup next,
                                    !.queue = known \cup ({depth} \X next)]
<1>1. /\ Sweeping(r) /\ req' = [req EXCEPT ![r] = record]
      /\ UNCHANGED <<entry, debts, lines, edges, lock>>
  BY DEF Walk, Walking, Update
<1>2. /\ req[r] \in Records /\ req[r] # Idle /\ req[r].todo # <<>>
      /\ sweep.root \in Systems
  BY <1>1, HeadIsStep DEF Sweeping, Steps, Sweeps
<1>3. next \subseteq Systems
  BY FurtherIsSystems DEF IInv
<1>4. req[r].swept \cup {sweep.root} \cup next \subseteq Systems
  BY <1>2, <1>3 DEF Records
<1>5. known \cup ({depth} \X next) \in {Q \in SUBSET (Nat \X Systems) : IsFiniteSet(Q)}
  <2>1. known \subseteq Nat \X Systems /\ IsFiniteSet(known)
    <3>1. req[r].queue \subseteq Nat \X Systems /\ IsFiniteSet(req[r].queue)
      BY <1>2 DEF Records
    <3>2. IsFiniteSet(known)
      BY <3>1, FS_AddElement
    <3>  QED BY <3>1, <3>2, <1>2
  <2>2. IsFiniteSet({x[1] : x \in known})
    <3> HIDE DEF known
    <3> DEFINE first == [x \in known |-> x[1]]
    <3>1. IsFiniteSet({first[x] : x \in known})
      BY <2>1, ImageIsFinite
    <3>  QED BY <3>1
  <2>3. depth \in Nat
    BY <2>2, FS_CardinalityType
  <2>4. IsFiniteSet(next)
    BY <1>3, TowerAssumption, FS_Subset
  <2>5. IsFiniteSet({depth} \X next)
    BY <2>4, FS_Singleton, FS_Product
  <2>6. {depth} \X next \subseteq Nat \X Systems
    BY <2>3, <1>3
  <2> HIDE DEF known, depth, next
  <2>  QED BY <2>1, <2>5, <2>6, FS_Union
<1>6. record \in Records
  <2> HIDE DEF sweep, next, known, depth
  <2>  QED BY <1>2, <1>3, <1>4, <1>5 DEF Records
<1>7. /\ record.op = req[r].op /\ record.stage = req[r].stage /\ record.heirs = req[r].heirs
      /\ record.edge = req[r].edge /\ record.gone = req[r].gone
      /\ record.drops = req[r].drops /\ record.todo = req[r].todo
  BY <1>2 DEF Records
<1> HIDE DEF record
<1>8. Pending(record) = Pending(req[r])
  BY <1>7 DEF Pending
<1>9. UNCHANGED db /\ Takes(r)
  BY <1>1, TakesNoKey DEF db, IInv
<1>  QED BY <1>1, <1>2, <1>6, <1>7, <1>8, <1>9, StepIsSound

LEMMA TakeSound ==
  ASSUME IInv, NEW r \in Requests, Take(r)
  PROVE  IInv'
<1> DEFINE key == NextKey(r)
           record == [req[r] EXCEPT !.queue = {x \in @ : x[2] # key}]
<1>1. /\ Sweeping(r) /\ req' = [req EXCEPT ![r] = record] /\ UNCHANGED db
      /\ Takes(r)
  <2>1. lock[key] \in {NoRequest, r} /\ lock' = [lock EXCEPT ![key] = r]
    BY DEF Take
  <2>2. Takes(r)
    BY <2>1 DEF Takes, Typed, IInv
  <2>  QED BY <2>2 DEF Take, Locking, Update
<1>2. req[r] \in Records /\ req[r] # Idle /\ req[r].todo # <<>>
  BY <1>1, HeadIsStep DEF Sweeping
<1>3. {x \in req[r].queue : x[2] # key} \in {Q \in SUBSET (Nat \X Systems) : IsFiniteSet(Q)}
  BY <1>2, FS_Subset DEF Records
<1>4. record \in Records
  BY <1>2, <1>3 DEF Records
<1>5. /\ record.op = req[r].op /\ record.stage = req[r].stage /\ record.heirs = req[r].heirs
      /\ record.edge = req[r].edge /\ record.gone = req[r].gone
      /\ record.drops = req[r].drops /\ record.todo = req[r].todo
  BY <1>2 DEF Records
<1> HIDE DEF record
<1>6. Pending(record) = Pending(req[r])
  BY <1>5 DEF Pending
<1>  QED BY <1>1, <1>2, <1>4, <1>5, <1>6, StepIsSound

LEMMA GatherSound ==
  ASSUME IInv, NEW r \in Requests, Gather(r)
  PROVE  IInv'
<1> DEFINE marked == WithDependents(Citing(View(r), KeptEntries(r), req[r].swept, Head1(r).sweep))
           record == [req[r] EXCEPT !.clear = @ \cup marked, !.swept = {}, !.todo = Tail(@)]
<1>1. /\ Sweeping(r) /\ req' = [req EXCEPT ![r] = record]
      /\ UNCHANGED <<entry, debts, lines, edges, lock>>
  BY DEF Gather, Update
<1>2. /\ req[r] \in Records /\ req[r] # Idle /\ req[r].todo # <<>>
      /\ Head(req[r].todo).do = "sweep" /\ Tail(req[r].todo) \in Seq(Steps)
  BY <1>1, HeadIsStep DEF Sweeping
<1>3. marked \subseteq Proofs
  BY DEF WithDependents
<1> HIDE DEF marked
<1>4. record \in Records
  BY <1>2, <1>3 DEF Records
<1>5. /\ record.op = req[r].op /\ record.stage = req[r].stage /\ record.heirs = req[r].heirs
      /\ record.edge = req[r].edge /\ record.gone = req[r].gone
      /\ record.drops = req[r].drops /\ record.todo = Tail(req[r].todo)
  BY <1>2 DEF Records
<1> HIDE DEF record
<1>6. Pending(req[r]) \subseteq Pending(record)
  BY <1>2, <1>4, <1>5, PendingAfterHead
<1>7. UNCHANGED db /\ Takes(r)
  BY <1>1, TakesNoKey DEF db, IInv
<1>  QED BY <1>1, <1>2, <1>4, <1>5, <1>6, <1>7, StepIsSound

LEMMA LapseSound ==
  ASSUME IInv, NEW r \in Requests, Lapse(r)
  PROVE  IInv'
<1>1. DoesNext(r, "lapse") /\ UNCHANGED <<entry, debts, lines, edges, lock>>
  BY DEF Lapse
<1>2. PICK sweeps \in (IF Head1(r).key \in req[r].gone THEN {<<>>} ELSE EdgeSweeps(Head1(r).key)) :
        req' = [req EXCEPT ![r] = [req[r] EXCEPT !.todo = sweeps \o Tail(@)]]
  BY DEF Lapse, Update
<1>3. sweeps \in Seq(Steps)
  <2>1. <<>> \in Seq(Steps)
    OBVIOUS
  <2>2. Typed
    BY DEF IInv
  <2>  QED BY <1>2, <2>1, <2>2, EdgeSweepsAreSteps
<1> DEFINE left == sweeps \o Tail(req[r].todo)
           record == [req[r] EXCEPT !.todo = left]
<1>4. /\ req[r] \in Records /\ req[r] # Idle /\ req[r].todo # <<>>
      /\ Head(req[r].todo).do = "lapse" /\ Tail(req[r].todo) \in Seq(Steps)
  BY <1>1, HeadIsStep
<1>5. left \in Seq(Steps)
  BY <1>3, <1>4
<1>6. req' = [req EXCEPT ![r] = record]
  BY <1>2
<1> HIDE DEF left
<1>7. /\ record \in Records
      /\ record.op = req[r].op /\ record.stage = req[r].stage /\ record.heirs = req[r].heirs
      /\ record.edge = req[r].edge /\ record.gone = req[r].gone
      /\ record.drops = req[r].drops /\ record.todo = left
  BY <1>4, <1>5 DEF Records
<1> HIDE DEF record
<1>8. Pending(req[r]) \subseteq Pending(record)
  BY <1>3, <1>4, <1>7, PendingAfterHead DEF left
<1>9. UNCHANGED db /\ Takes(r)
  BY <1>1, TakesNoKey DEF db, IInv
<1>  QED BY <1>4, <1>5, <1>6, <1>7, <1>8, <1>9, StepIsSound

LEMMA DropSound ==
  ASSUME IInv, NEW r \in Requests, Drop(r)
  PROVE  IInv'
<1> DEFINE key == Head1(r).key
           record == [req[r] EXCEPT !.drops = @ \cup ({key} \ req[r].gone), !.todo = Tail(@)]
<1>1. /\ DoesNext(r, "drop") /\ req' = [req EXCEPT ![r] = record]
      /\ UNCHANGED <<entry, debts, lines, edges, lock>>
  BY DEF Drop, Dropping, Update
<1>2. /\ req[r] \in Records /\ req[r] # Idle /\ req[r].todo # <<>>
      /\ Head(req[r].todo).key = key /\ Tail(req[r].todo) \in Seq(Steps)
      /\ key \in Keys
  BY <1>1, HeadIsStep DEF Steps
<1> HIDE DEF key
<1>3. record \in Records
  BY <1>2 DEF Records
<1>4. /\ record.op = req[r].op /\ record.stage = req[r].stage /\ record.heirs = req[r].heirs
      /\ record.edge = req[r].edge /\ record.gone = req[r].gone
      /\ record.drops = req[r].drops \cup ({key} \ req[r].gone)
      /\ record.todo = Tail(req[r].todo)
  BY <1>2 DEF Records
<1> HIDE DEF record
<1>5. Pending(req[r]) \ {key} \subseteq Pending(record)
  BY <1>2, <1>3, <1>4, PendingAfterHead
<1>6. UNCHANGED db /\ Takes(r)
  BY <1>1, TakesNoKey DEF db, IInv
<1>  QED BY <1>1, <1>2, <1>3, <1>4, <1>5, <1>6, StepIsSound
----------------------------------------------------------------------------
(* The end of a request.                                                     *)

LEMMA EndPreserves ==
  ASSUME IInv, NEW r \in Requests, req[r] # Idle,
         NEW rows, rows \subseteq Keys \cup (Systems \X Systems),
         Release(r, rows), Ended(r, rows),
         entry' \in [Keys -> Entries \cup {NoEntry}],
         debts' \subseteq Keys \X Keys,
         lines' \in [Proofs -> Lines \cup {NoLines}],
         edges' \subseteq Edges, IsFiniteSet(edges'),
         OneEntryEach', DebtsNameAssumptions'
  PROVE  IInv'
<1>1. RequestsSound' /\ Held'
  BY EndIsSound
<1>2. /\ req' \in [Requests -> Records \cup {Idle}]
      /\ lock' \in [Systems -> Requests \cup {NoRequest}]
  BY ReleaseIsTyped DEF IInv
<1>  QED BY <1>1, <1>2 DEF IInv, Typed

LEMMA RollBackSound ==
  ASSUME IInv, NEW r \in Requests, req[r] # Idle, RollBack(r)
  PROVE  IInv'
<1>1. Release(r, {}) /\ entry' = entry /\ debts' = debts /\ lines' = lines /\ edges' = edges
  BY DEF RollBack, db
<1>2. Ended(r, {})
  BY <1>1 DEF Ended
<1>3. OneEntryEach' /\ DebtsNameAssumptions'
  BY <1>1 DEF IInv, OneEntryEach, DebtsNameAssumptions, IsAssumption
<1>  QED BY <1>1, <1>2, <1>3, EndPreserves DEF IInv, Typed

LEMMA InsertSound ==
  ASSUME IInv, NEW r \in Requests, Insert(r)
  PROVE  IInv'
<1> DEFINE e == Head1(r).edge
           record == [req[r] EXCEPT !.shares = {e.warrant} \ {Primitive}, !.todo = Tail(@)]
<1>1. DoesNext(r, "insert")
  BY DEF Insert, Inserting
<1>2. /\ req[r] \in Records /\ req[r] # Idle /\ req[r].todo # <<>>
      /\ Head(req[r].todo).do = "insert" /\ Tail(req[r].todo) \in Seq(Steps)
      /\ e \in Edges
  BY <1>1, HeadIsStep DEF Steps
<1>3. CASE RollBack(r)
  BY <1>2, <1>3, RollBackSound
<1>4. CASE ~RollBack(r)
  <2>1. /\ req' = [req EXCEPT ![r] = record]
        /\ UNCHANGED <<entry, debts, lines, edges, lock>>
    BY <1>4 DEF Insert, Update
  <2>2. {e.warrant} \ {Primitive} \subseteq Keys \cup {Primitive, Lapsed}
    BY <1>2 DEF Edges
  <2> HIDE DEF e
  <2>3. record \in Records
    BY <1>2, <2>2 DEF Records
  <2>4. /\ record.op = req[r].op /\ record.stage = req[r].stage /\ record.heirs = req[r].heirs
        /\ record.edge = req[r].edge /\ record.gone = req[r].gone
        /\ record.drops = req[r].drops /\ record.todo = Tail(req[r].todo)
    BY <1>2 DEF Records
  <2> HIDE DEF record
  <2>5. Pending(req[r]) \subseteq Pending(record)
    BY <1>2, <2>3, <2>4, PendingAfterHead
  <2>6. UNCHANGED db /\ Takes(r)
    BY <2>1, TakesNoKey DEF db, IInv
  <2>  QED BY <1>1, <1>2, <2>1, <2>3, <2>4, <2>5, <2>6, StepIsSound
<1>  QED BY <1>3, <1>4

\* The deletions in a list of steps, and in two lists joined.
Deletions(s) == {s[i].key : i \in {j \in DOMAIN s : s[j].do = "drop"}}

LEMMA DeletionsJoined ==
  ASSUME NEW s \in Seq(Steps), NEW t \in Seq(Steps)
  PROVE  Deletions(s) \cup Deletions(t) \subseteq Deletions(s \o t)
<1>1. ASSUME NEW i \in DOMAIN s
      PROVE  i \in DOMAIN (s \o t) /\ (s \o t)[i] = s[i]
  BY <1>1
<1>2. ASSUME NEW i \in DOMAIN t
      PROVE  Len(s) + i \in DOMAIN (s \o t) /\ (s \o t)[Len(s) + i] = t[i]
  BY <1>2
<1>3. \A k \in Deletions(s) : k \in Deletions(s \o t)
  BY <1>1 DEF Deletions
<1>4. \A k \in Deletions(t) : k \in Deletions(s \o t)
  BY <1>2 DEF Deletions
<1>  QED BY <1>3, <1>4

LEMMA RetirementDeletes ==
  ASSUME NEW k \in Keys
  PROVE  Retirements({k}) \in Seq(Steps) /\ k \in Deletions(Retirements({k}))
<1>1. Retirements({k}) = Retirement(k)
  BY DEF Retirements
<1>2. Retirement(k)[3] = ToDrop(k) /\ 3 \in DOMAIN Retirement(k)
  BY DEF Retirement
<1>3. ToDrop(k).do = "drop" /\ ToDrop(k).key = k
  BY DEF ToDrop
<1>  QED BY <1>1, <1>2, <1>3, RetirementsAreSteps DEF Deletions

LEMMA StorePromotionSound ==
  ASSUME IInv, NEW r \in Requests, StorePromotion(r)
  PROVE  IInv'
<1> DEFINE q == req[r]
           p == q.op.proof
           k == <<Home[p], q.op.label>>
           discharged == IF IsAssumption(k) THEN <<ToLapse(k), ToDrop(k)>> ELSE <<>>
           retired == Retirements(WarrantedBy(p))
           sweep == <<ToSweep(Home[p], q.op.label, {})>>
           todo == discharged \o retired \o sweep
           heirs == IF IsAssumption(k) THEN DependentEntries(k) ELSE {}
           record == [q EXCEPT !.stage = "ready", !.shares = q.rows, !.rows = {},
                               !.heirs = heirs, !.todo = todo]
<1>1. q # Idle /\ q.op.kind = "promote" /\ q.stage = "checked"
  BY DEF StorePromotion
<1>2. q \in Records /\ q.op \in Operations /\ Sound(r, q, entry, lock)
  BY <1>1 DEF IInv, Typed, RequestsSound, Records
<1>3. p \in Proofs /\ q.op.label \in Labels /\ Home[p] \in Systems /\ k \in Keys /\ k = Target(q.op)
  BY <1>1, <1>2, OperationFields, ProofAssumption DEF Keys, Target
<1>4. CASE Vanished(r) \/ ~Promotable(p, q.op.label, q.lines)
  BY <1>1, <1>4, RollBackSound DEF StorePromotion
<1>5. CASE ~Vanished(r) /\ Promotable(p, q.op.label, q.lines)
  <2>1. req' = [req EXCEPT ![r] = record] /\ UNCHANGED <<entry, debts, lines, edges, lock>>
    BY <1>5 DEF StorePromotion, Update
  <2>2. WarrantedBy(p) \in SUBSET Keys
    BY DEF WarrantedBy
  <2>3. discharged \in Seq(Steps) /\ retired \in Seq(Steps) /\ sweep \in Seq(Steps)
    <3>1. ToLapse(k) \in Steps /\ ToDrop(k) \in Steps
      BY <1>3 DEF ToLapse, ToDrop, Steps
    <3>2. ToSweep(Home[p], q.op.label, {}) \in Steps
      BY <1>3 DEF ToSweep, Sweep, Steps, Sweeps
    <3>3. retired \in Seq(Steps)
      BY <2>2, RetirementsAreSteps
    <3>4. <<ToLapse(k), ToDrop(k)>> \in Seq(Steps) /\ <<>> \in Seq(Steps)
      BY <3>1
    <3>5. sweep \in Seq(Steps)
      BY <3>2
    <3>  QED BY <3>3, <3>4, <3>5
  <2>4. heirs \subseteq Keys /\ \A h \in heirs : entry[h] # NoEntry
    BY DEF DependentEntries, IInv, Typed, DebtsNameAssumptions
  <2>5. q.gone = {}
    BY <1>1, <1>2, <1>5 DEF Sound, InCheck, Vanished
  <2>6. IsAssumption(k) => k \in Deletions(discharged)
    <3> SUFFICES ASSUME IsAssumption(k)
                 PROVE  k \in Deletions(<<ToLapse(k), ToDrop(k)>>)
      OBVIOUS
    <3> DEFINE s == <<ToLapse(k), ToDrop(k)>>
    <3>1. 2 \in DOMAIN s /\ s[2].do = "drop" /\ s[2].key = k
      BY DEF ToDrop
    <3>  QED BY <3>1 DEF Deletions
  <2>7. ASSUME NEW j \in Keys, entry[j] # NoEntry, entry[j].by = p
        PROVE  j \in Deletions(retired)
    <3>1. WarrantedBy(p) = {j}
      BY <1>3, <2>7, ProofAssumption DEF WarrantedBy, IInv, OneEntryEach
    <3>  QED BY <3>1, RetirementDeletes
  <2> HIDE DEF k, p, discharged, retired, sweep, heirs
  <2>8. todo \in Seq(Steps) /\ Deletions(discharged) \cup Deletions(retired) \subseteq Deletions(todo)
    <3>1. discharged \o retired \in Seq(Steps)
      BY <2>3
    <3>2. Deletions(discharged) \cup Deletions(retired) \subseteq Deletions(discharged \o retired)
      BY <2>3, DeletionsJoined
    <3>3. Deletions(discharged \o retired) \subseteq Deletions(todo)
      BY <3>1, <2>3, DeletionsJoined
    <3>4. todo \in Seq(Steps)
      BY <3>1, <2>3
    <3>  QED BY <3>2, <3>3, <3>4
  <2>9. record \in Records
    BY <1>2, <2>4, <2>8 DEF Records
  <2>10. /\ record.op = q.op /\ record.stage = "ready" /\ record.heirs = heirs
         /\ record.edge = q.edge /\ record.gone = q.gone /\ record.drops = q.drops
         /\ record.todo = todo
    BY <1>2 DEF Records
  <2>11. ASSUME NEW j \in Keys, entry[j] # NoEntry, j = k \/ entry[j].by = p
         PROVE  j \in Deletions(todo)
    <3>1. CASE entry[j].by = p
      BY <3>1, <2>7, <2>8, <2>11
    <3>2. CASE j = k /\ entry[j].by # p
      <4>1. IsAssumption(k)
        BY <3>2, <2>11, <1>5 DEF Promotable, k, p
      <4>  QED BY <4>1, <3>2, <2>6, <2>8
    <3>  QED BY <3>1, <3>2, <2>11
  <2>12. Pending(record) = Deletions(todo)
    BY <2>10 DEF Pending, Deletions
  <2>13. HoldsRoot(r, record, lock')
    BY <1>2, <2>1, <2>10 DEF Sound, HoldsRoot
  <2>14. Replaces(record, entry)
    <3> SUFFICES ASSUME NEW j \in Keys, entry[j] # NoEntry, j = Target(q.op) \/ entry[j].by = q.op.proof
                 PROVE  j \in Pending(record) /\ j \notin record.gone
      BY <2>10 DEF Replaces
    <3>  QED BY <1>3, <2>5, <2>10, <2>11, <2>12 DEF p
  <2>15. InCheck(record) /\ HasEdge(record) /\ LabelFree(record, entry) /\ HeirsStand(record, entry)
    BY <1>1, <2>4, <2>10 DEF InCheck, HasEdge, LabelFree, HeirsStand
  <2>16. UNCHANGED db /\ Takes(r)
    BY <2>1, TakesNoKey DEF db, IInv
  <2> HIDE DEF record
  <2>  QED BY <2>1, <2>9, <2>13, <2>14, <2>15, <2>16, UpdateIsSound DEF Sound
<1>  QED BY <1>4, <1>5
\* The request that ends, as the steps of its end see it.
LEMMA UnderWay ==
  ASSUME IInv, NEW r \in Requests, req[r] # Idle
  PROVE  /\ req[r] \in Records /\ req[r].op \in Operations
         /\ Sound(r, req[r], entry, lock)
BY DEF IInv, Typed, RequestsSound, Records

LEMMA KeptIsTyped ==
  ASSUME IInv, NEW r \in Requests, req[r] # Idle
  PROVE  /\ KeptEntries(r) \in [Keys -> Entries \cup {NoEntry}]
         /\ KeptDebts(r) \subseteq debts
         /\ KeptLines(r) \in [Proofs -> Lines \cup {NoLines}]
         /\ KeptEdges(r) \subseteq Edges /\ IsFiniteSet(KeptEdges(r))
<1>1. req[r] \in Records
  BY UnderWay
<1>2. View(r) \in [Proofs -> Lines \cup {NoLines}]
  BY <1>1 DEF View, IInv, Typed, Records
<1>3. ASSUME NEW ls \in Lines
      PROVE  Unlinked(r, ls) \in Lines
  <2> DEFINE cites == {IF <<c[2], c[1]>> \in req[r].drops THEN <<c[1], NoSystem>> ELSE c :
                         c \in ls.cites}
  <2>1. cites \subseteq Cites
    <3>1. ls.cites \subseteq Cites
      BY <1>3 DEF Lines
    <3>2. \A c \in Cites : <<c[1], NoSystem>> \in Cites
      BY DEF Cites
    <3>  QED BY <3>1, <3>2
  <2>2. Unlinked(r, ls) = [ls EXCEPT !.cites = cites]
    BY DEF Unlinked
  <2> HIDE DEF cites
  <2>  QED BY <1>3, <2>1, <2>2 DEF Lines
<1>4. KeptLines(r) \in [Proofs -> Lines \cup {NoLines}]
  BY <1>2, <1>3 DEF KeptLines
<1>5. IsFiniteSet(KeptEdges(r))
  <2> DEFINE kept == [e \in edges |-> [e EXCEPT !.warrant = IF @ \in req[r].drops THEN Lapsed ELSE @]]
  <2>1. IsFiniteSet(edges)
    BY DEF IInv, Typed
  <2>2. DOMAIN kept = edges /\ KeptEdges(r) = {kept[e] : e \in edges}
    BY DEF KeptEdges
  <2> HIDE DEF kept
  <2>  QED BY <2>1, <2>2, ImageIsFinite
<1>6. KeptEdges(r) \subseteq Edges
  BY DEF KeptEdges, IInv, Typed, Edges
<1>  QED BY <1>4, <1>5, <1>6 DEF KeptEntries, KeptDebts, IInv, Typed

LEMMA RestsOnDebts ==
  ASSUME NEW ls, NEW ds, NEW p
  PROVE  RestsOn(ls, ds, p) \subseteq {d[2] : d \in ds}
BY DEF RestsOn

LEMMA FinishVerifySound ==
  ASSUME IInv, NEW r \in Requests, FinishVerify(r)
  PROVE  IInv'
<1>1. req[r] # Idle
  BY DEF FinishVerify
<1>2. CASE RollBack(r)
  BY <1>1, <1>2, RollBackSound
<1>3. CASE ~RollBack(r)
  <2>1. /\ lines' = [lines EXCEPT ![req[r].op.proof] = req[r].lines]
        /\ Release(r, {}) /\ entry' = entry /\ debts' = debts /\ edges' = edges
    BY <1>3 DEF FinishVerify
  <2>2. lines' \in [Proofs -> Lines \cup {NoLines}]
    BY <1>1, <2>1, UnderWay DEF Records, IInv, Typed
  <2>3. Ended(r, {})
    BY <2>1 DEF Ended
  <2>4. OneEntryEach' /\ DebtsNameAssumptions'
    BY <2>1 DEF IInv, OneEntryEach, DebtsNameAssumptions, IsAssumption
  <2>  QED BY <1>1, <2>1, <2>2, <2>3, <2>4, EndPreserves DEF IInv, Typed
<1>  QED BY <1>2, <1>3

\* The debts a request keeps name what it keeps.
LEMMA KeptDebtsGrounded ==
  ASSUME IInv, NEW r \in Requests, NEW d \in KeptDebts(r)
  PROVE  /\ d \in Keys \X Keys /\ d[1] \notin req[r].drops /\ d[2] \notin req[r].drops
         /\ entry[d[1]] # NoEntry /\ entry[d[2]] # NoEntry /\ entry[d[2]].by = Asserted
BY DEF KeptDebts, IInv, Typed, DebtsNameAssumptions, IsAssumption

LEMMA FinishPromoteSound ==
  ASSUME IInv, NEW r \in Requests, FinishPromote(r)
  PROVE  IInv'
<1> DEFINE q == req[r]
           p == q.op.proof
           k == <<Home[p], q.op.label>>
<1>1. q # Idle /\ q.op.kind = "promote" /\ q.stage = "ready" /\ q.todo = <<>>
  BY DEF FinishPromote, Finished
<1>2. q \in Records /\ q.op \in Operations /\ Sound(r, q, entry, lock)
  BY <1>1, UnderWay
<1>3. p \in Proofs /\ k \in Keys /\ k = Target(q.op)
  BY <1>1, <1>2, OperationFields, ProofAssumption DEF Keys, Target
<1>4. CASE RollBack(r)
  BY <1>1, <1>4, RollBackSound
<1>5. CASE ~RollBack(r)
  <2>1. /\ ~Orphaned(r)
        /\ entry' = [KeptEntries(r) EXCEPT ![k] = [by |-> p, states |-> Concludes[p]]]
        /\ debts' = KeptDebts(r) \cup (({k} \cup q.heirs) \X Owed(r))
        /\ lines' = KeptLines(r) /\ edges' = KeptEdges(r)
        /\ Release(r, q.drops)
    BY <1>5 DEF FinishPromote
  <2>2. q.drops \subseteq Keys /\ q.heirs \subseteq Keys
    BY <1>2 DEF Records
  <2>3. [by |-> p, states |-> Concludes[p]] \in Entries
    BY <1>3, ProofAssumption DEF Entries
  <2>4. /\ entry' \in [Keys -> Entries \cup {NoEntry}]
        /\ entry'[k] = [by |-> p, states |-> Concludes[p]] /\ entry'[k] # NoEntry
        /\ \A j \in Keys \ {k} : entry'[j] = IF j \in q.drops THEN NoEntry ELSE entry[j]
    BY <1>1, <1>3, <2>1, <2>3, ProofAssumption, KeptIsTyped DEF KeptEntries
  <2>5. Pending(q) = {}
    BY <1>1 DEF Pending
  <2>6. \A j \in Keys : entry[j] # NoEntry /\ (j = k \/ entry[j].by = p) => j \in q.drops
    BY <1>1, <1>2, <1>3, <2>5 DEF Sound, Replaces
  <2>7. OneEntryEach'
    <3> SUFFICES ASSUME NEW i \in Keys, NEW j \in Keys, entry'[i] # NoEntry, entry'[j] # NoEntry,
                        entry'[i].by = entry'[j].by, entry'[i].by # Asserted
                 PROVE  i = j
      BY DEF OneEntryEach
    <3>1. CASE i # k /\ j # k
      BY <3>1, <2>4 DEF IInv, OneEntryEach
    <3>2. \A h \in Keys \ {k} : entry'[h] # NoEntry => entry'[h].by # p
      BY <2>4, <2>6
    <3>  QED BY <3>1, <3>2, <2>4
  <2>8. ASSUME NEW d \in KeptDebts(r)
        PROVE  d \in Keys \X Keys /\ entry'[d[1]] # NoEntry /\ IsAssumption(d[2])'
    <3>1. /\ d \in Keys \X Keys /\ d[1] \notin q.drops /\ d[2] \notin q.drops
          /\ entry[d[1]] # NoEntry /\ entry[d[2]] # NoEntry /\ entry[d[2]].by = Asserted
      BY KeptDebtsGrounded
    <3>2. d[2] # k
      BY <3>1, <2>6
    <3>3. entry'[d[2]] = entry[d[2]]
      BY <3>1, <3>2, <2>4
    <3>  QED BY <3>1, <3>3, <2>4 DEF IsAssumption
  <2>9. Owed(r) \subseteq {d[2] : d \in KeptDebts(r)}
    BY RestsOnDebts DEF Owed
  <2>10. ASSUME NEW h \in q.heirs, Owed(r) # {}
         PROVE  entry'[h] # NoEntry
    <3>1. h \notin q.gone /\ h \notin q.drops
      BY <2>1, <2>10 DEF Orphaned
    <3>2. entry[h] # NoEntry
      BY <3>1, <1>2 DEF Sound, HeirsStand
    <3>  QED BY <3>1, <3>2, <2>2, <2>4
  <2>11. DebtsNameAssumptions'
    <3> SUFFICES ASSUME NEW d \in debts'
                 PROVE  entry'[d[1]] # NoEntry /\ IsAssumption(d[2])'
      BY DEF DebtsNameAssumptions
    <3>1. CASE d \in KeptDebts(r)
      BY <3>1, <2>8
    <3>2. CASE d \in ({k} \cup q.heirs) \X Owed(r)
      <4>1. d[1] \in {k} \cup q.heirs /\ d[2] \in Owed(r)
        BY <3>2
      <4>2. PICK c \in KeptDebts(r) : c[2] = d[2]
        BY <4>1, <2>9
      <4>  QED BY <4>1, <4>2, <2>4, <2>8, <2>10
    <3>  QED BY <3>1, <3>2, <2>1
  <2>12. debts' \subseteq Keys \X Keys
    <3>1. Owed(r) \subseteq Keys
      BY <2>8, <2>9
    <3>2. KeptDebts(r) \subseteq Keys \X Keys
      BY <2>8
    <3>  QED BY <3>1, <3>2, <1>3, <2>1, <2>2
  <2>13. Ended(r, q.drops)
    BY <1>1, <1>3, <2>4 DEF Ended, Stores
  <2>  QED BY <1>1, <2>1, <2>2, <2>4, <2>7, <2>11, <2>12, <2>13, EndPreserves, KeptIsTyped
<1>  QED BY <1>4, <1>5

LEMMA FinishAssumeSound ==
  ASSUME IInv, NEW r \in Requests, FinishAssume(r)
  PROVE  IInv'
<1> DEFINE q == req[r]
           k == Key(q.op)
<1>1. q # Idle /\ q.op.kind = "assume"
  BY DEF FinishAssume, Finished
<1>2. q.op \in Operations /\ Sound(r, q, entry, lock)
  BY <1>1, UnderWay
<1>3. k \in Keys /\ k = Target(q.op) /\ q.op.states \in Statements
  BY <1>1, <1>2, OperationFields DEF Key, Keys, Target
<1>4. /\ entry' = [entry EXCEPT ![k] = [by |-> Asserted, states |-> q.op.states]]
      /\ debts' = debts \cup {<<k, k>>} /\ lines' = KeptLines(r) /\ edges' = edges
      /\ Release(r, {})
  BY DEF FinishAssume
<1>5. entry[k] = NoEntry
  BY <1>1, <1>2 DEF Sound, LabelFree
<1>6. [by |-> Asserted, states |-> q.op.states] \in Entries
  BY <1>3 DEF Entries
<1>7. /\ entry' \in [Keys -> Entries \cup {NoEntry}]
      /\ entry'[k] = [by |-> Asserted, states |-> q.op.states] /\ entry'[k] # NoEntry
      /\ \A j \in Keys \ {k} : entry'[j] = entry[j]
  BY <1>3, <1>4, <1>6, ProofAssumption DEF IInv, Typed
<1> HIDE DEF k
<1>8. OneEntryEach'
  BY <1>7 DEF IInv, OneEntryEach
<1>9. DebtsNameAssumptions'
  <2> SUFFICES ASSUME NEW d \in debts'
               PROVE  entry'[d[1]] # NoEntry /\ IsAssumption(d[2])'
    BY DEF DebtsNameAssumptions
  <2>1. CASE d = <<k, k>>
    BY <2>1, <1>7 DEF IsAssumption
  <2>2. CASE d \in debts
    BY <2>2, <1>5, <1>7 DEF IInv, Typed, DebtsNameAssumptions, IsAssumption
  <2>  QED BY <2>1, <2>2, <1>4
<1>10. Ended(r, {})
  BY <1>1, <1>3, <1>7 DEF Ended, Stores
<1>  QED BY <1>1, <1>3, <1>4, <1>7, <1>8, <1>9, <1>10, EndPreserves, KeptIsTyped DEF IInv, Typed

LEMMA FinishRemovalSound ==
  ASSUME IInv, NEW r \in Requests, FinishRemoval(r)
  PROVE  IInv'
<1>1. /\ req[r] # Idle /\ Release(r, req[r].drops)
      /\ entry' = KeptEntries(r) /\ debts' = KeptDebts(r)
      /\ lines' = KeptLines(r) /\ edges' = KeptEdges(r)
  BY DEF FinishRemoval, Finished
<1>2. req[r].drops \subseteq Keys
  BY <1>1, UnderWay DEF Records
<1>3. \A k \in Keys : entry'[k] = IF k \in req[r].drops THEN NoEntry ELSE entry[k]
  BY <1>1 DEF KeptEntries
<1>4. OneEntryEach'
  BY <1>3 DEF IInv, OneEntryEach
<1>5. DebtsNameAssumptions'
  BY <1>1, <1>3, KeptDebtsGrounded DEF DebtsNameAssumptions, IsAssumption
<1>6. Ended(r, req[r].drops)
  BY <1>3 DEF Ended
<1>  QED BY <1>1, <1>2, <1>4, <1>5, <1>6, EndPreserves, KeptIsTyped DEF IInv, Typed

LEMMA FinishRelationSound ==
  ASSUME IInv, NEW r \in Requests, FinishRelation(r)
  PROVE  IInv'
<1> DEFINE e == req[r].edge
<1>1. /\ req[r] # Idle /\ req[r].op.kind \in {"relate", "unrelate"}
      /\ lines' = KeptLines(r) /\ entry' = entry /\ debts' = debts
  BY DEF FinishRelation, Finished
<1>2. e \in Edges
  BY <1>1, UnderWay DEF Sound, HasEdge
<1>3. PICK rows \in {{}, {Ends(e)}} :
        Release(r, rows) /\ (edges' = edges \cup {e} \/ edges' \subseteq edges)
  BY DEF FinishRelation
<1>4. rows \subseteq Systems \X Systems
  BY <1>2, <1>3 DEF Ends, Edges
<1>5. \A k \in Keys : k \notin rows
  BY <1>4, KeysAreNoEdges
<1>6. Ended(r, rows)
  BY <1>1, <1>5 DEF Ended
<1>7. edges' \subseteq Edges /\ IsFiniteSet(edges')
  <2>1. edges \subseteq Edges /\ IsFiniteSet(edges)
    BY DEF IInv, Typed
  <2>2. IsFiniteSet(edges \cup {e})
    BY <2>1, FS_AddElement
  <2>  QED BY <1>2, <1>3, <2>1, <2>2, FS_Subset
<1>8. OneEntryEach' /\ DebtsNameAssumptions'
  BY <1>1 DEF IInv, OneEntryEach, DebtsNameAssumptions, IsAssumption
<1>  QED BY <1>1, <1>3, <1>4, <1>6, <1>7, <1>8, EndPreserves, KeptIsTyped DEF IInv, Typed
----------------------------------------------------------------------------
(* The theorems.                                                             *)

LEMMA InitSound == Init => IInv
<1> SUFFICES ASSUME Init
             PROVE  IInv
  OBVIOUS
<1>1. Typed
  BY FS_EmptySet DEF Init, Typed
<1>  QED BY <1>1 DEF Init, IInv, Held, RequestsSound, OneEntryEach, DebtsNameAssumptions

LEMMA StepSound == IInv /\ [Next]_vars => IInv'
<1> SUFFICES ASSUME IInv, [Next]_vars
             PROVE  IInv'
  OBVIOUS
<1>1. ASSUME NEW r \in Requests, NEW op \in Operations, StartAny(r, op)
      PROVE  IInv'
  BY <1>1, StartCheckSound, StartRetireSound, StartAssumeSound, StartWithdrawSound,
     StartRelateSound DEF StartAny
<1>2. ASSUME NEW r \in Requests, Advance(r)
      PROVE  IInv'
  BY <1>2, WalkSound, TakeSound, GatherSound, LapseSound, DropSound, InsertSound,
     StorePromotionSound DEF Advance
<1>3. ASSUME NEW r \in Requests, Abort(r)
      PROVE  IInv'
  <2>1. req[r] # Idle
    BY <1>3 DEF Abort, Deadlocked, WaitsFor
  <2>  QED BY <2>1, <1>3, RollBackSound DEF Abort
<1>4. ASSUME NEW r \in Requests, Finish(r)
      PROVE  IInv'
  BY <1>3, <1>4, FinishVerifySound, FinishPromoteSound, FinishAssumeSound,
     FinishRemovalSound, FinishRelationSound DEF Finish
<1>5. CASE UNCHANGED vars
  BY <1>5 DEF vars, IInv, Typed, Held, RequestsSound, Sound, HoldsRoot, LabelFree, Replaces,
     HeirsStand, OneEntryEach, DebtsNameAssumptions, IsAssumption
<1>  QED BY <1>1, <1>2, <1>4, <1>5 DEF Next

LEMMA InvariantHolds == Spec => []IInv
BY InitSound, StepSound, PTL DEF Spec

\* Rows, locks and requests keep their types, and only a request under way holds
\* a key.
THEOREM TypeCorrect == Spec => []TypeOK
<1>1. IInv => TypeOK
  BY ProofAssumption DEF IInv, Typed, Held, TypeOK, Records
<1>  QED BY <1>1, InvariantHolds, PTL

\* Whatever requests overlap, every recorded debt is of an entry that stands and
\* names an assumption that is still one: no promotion, discharge, retirement or
\* withdrawal leaves a record behind.
THEOREM DebtsStayGrounded == Spec => []DebtsNameAssumptions
<1>1. IInv => DebtsNameAssumptions
  BY DEF IInv
<1>  QED BY <1>1, InvariantHolds, PTL

\* A proof warrants one entry at most, which is what lets a retirement look for
\* the first only (_retire_promotion).
THEOREM EntriesHaveTheirOwnProofs == Spec => []OneEntryEach
<1>1. IInv => OneEntryEach
  BY DEF IInv
<1>  QED BY <1>1, InvariantHolds, PTL
=============================================================================
