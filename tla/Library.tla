------------------------------ MODULE Library ------------------------------
(***************************************************************************)
(* The libraries of a tower of formal systems: what a label cited in one   *)
(* system resolves to, which verdicts a change of it has to reach, and     *)
(* what the entries rest on that nobody has proved.                        *)
(*                                                                         *)
(* Systems inherit from one parent each, and a discharged relation edge    *)
(* lets a system cite another tower's entries (app/routers/                *)
(* system_relations.py).  Proofs are published, their sources do not       *)
(* change here (VerdictStore has the edits), and a check gives one verdict *)
(* and its stored lines together.                                          *)
(*                                                                         *)
(* A request is one transaction.  It takes the advisory lock of the system *)
(* it works on, reads, and goes through its list of steps: a sweep of the  *)
(* systems that may cite a label, which takes their locks one by one, or   *)
(* the deletion of an entry's row.  Its writes are committed at the end.   *)
(* It names a row by the id it read: a row that another request deletes is *)
(* gone for it, whatever is stored under the same label afterwards.        *)
(* Two kinds of lock make it wait: a system's advisory key, and the key    *)
(* share that a foreign key takes on the row of an entry it names, which   *)
(* a deletion of that row excludes until it commits.                       *)
(*                                                                         *)
(* A refusal rolls back and leaves no trace, so it is a disabled step.     *)
(* An operator whose name starts with Wrong is a bug the code might have   *)
(* had: no definition here uses it, and the properties are run against it. *)
(***************************************************************************)
EXTENDS Naturals, FiniteSets, Sequences

CONSTANTS
    Systems,        \* formal systems
    Labels,         \* labels of entries and of inference rules
    Proofs,         \* published proofs
    Statements,     \* what an entry may state
    Parent,         \* [Systems -> Systems \cup {NoSystem}]: inherits_from_id
    Id,             \* [Systems -> Nat]: a system's place in the order of the ids
    Rules,          \* SUBSET (Systems \X Labels): declared inference rules
    Home,           \* [Proofs -> Systems]
    Concludes,      \* [Proofs -> Statements]
    Citations,      \* [Proofs -> SUBSET (Labels \X Statements)]
    Lemmas,         \* [Proofs -> SUBSET Proofs]: proofs whose lines it cites
    Operations,     \* the calls the clients may make
    Requests,       \* request slots: how many calls overlap
    MaxPosition,    \* bound on the positions of the edges into a system
    NoSystem, NoRequest, NoLines, NoEntry,
    Asserted,       \* the warrant of an assumption
    Primitive,      \* an edge discharged by a rule of the target, or an extension,
                    \* which owes nothing
    Lapsed          \* an obligation whose discharging theorem is gone

\* An entry is named by the system whose library holds it and its label.
Keys    == Systems \X Labels
Entries == [by : Proofs \cup {Asserted}, states : Statements]

\* A line's rule label and the system of the entry it resolved to
\* (proof_lines.rule and proof_lines.theorem_id, null for a rule).
Cites == Labels \X (Systems \cup {NoSystem})
Lines == [ok : BOOLEAN, cites : SUBSET Cites, lemmas : SUBSET Proofs]
Edges == [source : Systems, target : Systems, position : 0 .. MaxPosition,
          warrant : Keys \cup {Primitive, Lapsed}]

AllOperations ==
    [kind : {"verify", "retire"}, proof : Proofs]
      \cup [kind : {"promote"}, proof : Proofs, label : Labels]
      \cup [kind : {"assume"}, system : Systems, label : Labels, states : Statements]
      \cup [kind : {"withdraw"}, system : Systems, label : Labels]
      \cup [kind : {"relate"}, source : Systems, target : Systems,
            warrant : Keys \cup {Primitive}]
      \cup [kind : {"unrelate"}, source : Systems, target : Systems]

\* The n-th ancestor of s.
Above(s, n) ==
    LET up[i \in Nat] == IF i = 0 THEN s
                         ELSE IF up[i - 1] = NoSystem THEN NoSystem
                         ELSE Parent[up[i - 1]]
    IN up[n]

ASSUME TowerAssumption ==
    /\ IsFiniteSet(Systems) /\ NoSystem \notin Systems
    /\ Parent \in [Systems -> Systems \cup {NoSystem}]
    /\ \A s \in Systems, n \in 1 .. Cardinality(Systems) : Above(s, n) # s
    /\ Id \in [Systems -> 0 .. Cardinality(Systems) - 1]
    /\ \A s, t \in Systems : Id[s] = Id[t] => s = t
    /\ Rules \subseteq Keys
    /\ Systems \cap Labels = {}

ASSUME ProofAssumption ==
    /\ Home \in [Proofs -> Systems]
    /\ Concludes \in [Proofs -> Statements]
    /\ Citations \in [Proofs -> SUBSET (Labels \X Statements)]
    /\ Lemmas \in [Proofs -> SUBSET Proofs]
    /\ \A p \in Proofs : \A q \in Lemmas[p] : Home[q] = Home[p]
    /\ Operations \subseteq AllOperations
    /\ MaxPosition \in Nat
    /\ NoRequest \notin Requests /\ NoLines \notin Lines /\ NoEntry \notin Entries
    /\ Asserted \notin Proofs
    /\ Primitive # Lapsed /\ Primitive \notin Keys /\ Lapsed \notin Keys

VARIABLES
    entry,  \* [Keys -> Entries \cup {NoEntry}]: promoted_theorems
    debts,  \* SUBSET (Keys \X Keys): theorem_assumptions
    lines,  \* [Proofs -> Lines \cup {NoLines}]: the stored check
    edges,  \* the discharged system_relations
    lock,   \* [Systems -> Requests \cup {NoRequest}]: the advisory keys
    req     \* the requests under way

db   == <<entry, debts, lines, edges>>
vars == <<entry, debts, lines, edges, lock, req>>
-----------------------------------------------------------------------------
(* What a label resolves to.                                               *)

Chains ==
    [s \in Systems |-> {t \in Systems : \E n \in 0 .. Cardinality(Systems) : Above(s, n) = t}]

Chain(s) == Chains[s]

Distances ==
    [s \in Systems |-> [t \in Chain(s) |->
        CHOOSE n \in 0 .. Cardinality(Systems) : Above(s, n) = t]]

Distance(s, t) == Distances[s][t]

\* The edges into s or an ancestor that let theorems across.
Transferring(s) == {e \in edges : e.target \in Chain(s) /\ e.warrant # Lapsed}

LibraryOf(s) == Chain(s) \cup UNION {Chain(e.source) : e \in Transferring(s)}

\* Where t comes in the library order of s: the tower nearest first, then the
\* edges' sources by position and id, each with its own tower.
Rank(s, t) ==
    LET size == Cardinality(Systems) + 1
        slot(e) == (e.position * size + Id[e.source]) * size + Id[e.target] + 1
        ranks == IF t \in Chain(s) THEN {Distance(s, t)}
                 ELSE {slot(e) * size + Distance(e.source, t) :
                          e \in {f \in Transferring(s) : t \in Chain(f.source)}}
    IN CHOOSE n \in ranks : \A m \in ranks : n <= m

IsRule(s, l) == \E t \in Chain(s) : <<t, l>> \in Rules

\* The system whose entry answers l in s; NoSystem when a rule or nothing does.
Resolve(s, l) ==
    LET holders == {t \in LibraryOf(s) : entry[t, l] # NoEntry}
    IN IF IsRule(s, l) \/ holders = {} THEN NoSystem
       ELSE CHOOSE t \in holders : \A u \in holders : Rank(s, t) <= Rank(s, u)

\* The check of p against the stored lemmas and the library as they stand.
Check(p) ==
    LET s == Home[p]
        holds == {c \in Citations[p] :
                    \/ IsRule(s, c[1])
                    \/ /\ Resolve(s, c[1]) # NoSystem
                       /\ entry[Resolve(s, c[1]), c[1]].states = c[2]}
        usable == {q \in Lemmas[p] : lines[q] # NoLines /\ lines[q].ok}
    IN [ok     |-> holds = Citations[p] /\ usable = Lemmas[p],
        cites  |-> {<<c[1], Resolve(s, c[1])>> : c \in holds},
        lemmas |-> usable]

\* The entries some lines name.
Named(ls) == {<<c[2], c[1]>> : c \in {d \in ls.cites : d[2] # NoSystem}}
-----------------------------------------------------------------------------
(* What a change of a label reaches.                                       *)

Children(from) ==
    {s \in Systems : Parent[s] \in from} \cup {e.target : e \in {f \in edges : f.source \in from}}

\* What s says of l is nearer than anything above it.
Claims(s, l) == entry[s, l] # NoEntry \/ <<s, l>> \in Rules

\* A sweep of a label stops at a system that claims it; that of a library
\* (sources is then the systems it is made of) stops nowhere.
NoLabel == "no label"

Sweep(root, l, sources) == [root |-> root, label |-> l, sources |-> sources]

Shadowing(sweep) == {s \in Systems : sweep.label # NoLabel /\ Claims(s, sweep.label)}

\* The next generation of the systems whose proofs may resolve the label here.
Further(sweep, frontier, reached) == (Children(frontier) \ Shadowing(sweep)) \ reached

\* The locks are taken by generation, then by id.
WrongBefore(x, y) == Id[x[2]] < Id[y[2]]

Before(x, y) == x[1] < y[1] \/ (x[1] = y[1] /\ Id[x[2]] < Id[y[2]])

\* Every proof whose lines reach one of the proofs ps, ps included.
WithDependents(ps) ==
    {p \in Proofs : \A R \in SUBSET Proofs :
        (ps \subseteq R /\ \A q \in Proofs : Lemmas[q] \cap R # {} => q \in R) => p \in R}

\* The proofs of the swept systems, in a request's own view of the lines ls and
\* the entries es, that a citation of the label (or of a label of the library)
\* justifies.
Citing(ls, es, swept, sweep) ==
    {p \in Proofs :
        /\ Home[p] \in swept
        /\ ls[p] # NoLines
        /\ \E c \in ls[p].cites :
              IF sweep.label # NoLabel THEN c[1] = sweep.label
              ELSE \E t \in sweep.sources : es[t, c[1]] # NoEntry}
-----------------------------------------------------------------------------
(* What an entry rests on.                                                 *)

\* The proofs whose stored lines those of p reach, p included, by generation.
ReferenceClosure(ls, p) ==
    LET from[frontier \in SUBSET Proofs, reached \in SUBSET Proofs] ==
            LET next == UNION {ls[q].lemmas : q \in {x \in frontier : ls[x] # NoLines}}
                          \ reached
            IN IF next = {} THEN reached ELSE from[next, reached \cup next]
    IN from[{p}, {p}]

\* The debts recorded against the entries that p's stored lines, and those of
\* the lemmas they reach, name.
RestsOn(ls, ds, p) ==
    LET read  == {q \in ReferenceClosure(ls, p) : ls[q] # NoLines}
        cited == UNION {Named(ls[q]) : q \in read}
    IN {d[2] : d \in {x \in ds : x[1] \in cited}}

\* The entries, other than itself, recorded to rest on the assumption k.
DependentEntries(k) == {d[1] : d \in {x \in debts : x[2] = k}} \ {k}

WarrantedBy(p) == {k \in Keys : entry[k] # NoEntry /\ entry[k].by = p}

IsAssumption(k) == entry[k] # NoEntry /\ entry[k].by = Asserted
-----------------------------------------------------------------------------
(* A request.  todo lists what is left before the commit.                  *)

ToSweep(root, l, sources) == [do |-> "sweep", sweep |-> Sweep(root, l, sources)]
ToLapse(k) == [do |-> "lapse", key |-> k]
ToDrop(k) == [do |-> "drop", key |-> k]
ToInsert(e) == [do |-> "insert", edge |-> e]

Key(op) == <<op.system, op.label>>

Idle == [stage |-> "idle"]

Begun(op, ls, todo) ==
    [op     |-> op,
     stage  |-> "ready",    \* "checked": the check is made and not yet stored
     lines  |-> ls,
     rows   |-> {},         \* the entries the check read
     heirs  |-> {},         \* what rested on an assumption being discharged
     gone   |-> {},         \* what it has read and another request deleted
     edge   |-> NoEntry,    \* the edge a relation call writes
     todo   |-> todo,
     front  |-> {},         \* the generation the current sweep has reached
     swept  |-> {},         \* the systems of the current sweep
     queue  |-> {},         \* the locks it still takes, each with its generation
     clear  |-> {},         \* the proofs whose verdict is cleared
     shares |-> {},         \* entries whose rows this transaction has pinned
     drops  |-> {}]         \* entries whose rows it has deleted

Ends(e) == <<e.source, e.target>>

\* The rows the request has read and will name again.
Reads(q) ==
    LET steps == {q.todo[i] : i \in DOMAIN q.todo}
    IN q.rows \cup q.heirs
         \cup {t.key : t \in {x \in steps : x.do \in {"lapse", "drop"}}}
         \cup {t.edge.warrant : t \in {x \in steps : x.do = "insert"}}
         \cup (IF q.op.kind = "unrelate" THEN {Ends(q.edge)} ELSE {})


\* What loses its warrant with the entry k, by target and source.
EdgeSweeps(k) ==
    LET lost == {e \in edges : e.warrant = k}
        before(e, f) == \/ Id[e.target] < Id[f.target]
                        \/ e.target = f.target /\ Id[e.source] <= Id[f.source]
        orders == {o \in [1 .. Cardinality(lost) -> lost] :
                     \A i, j \in DOMAIN o : (i < j => before(o[i], o[j])) /\ (o[i] = o[j] => i = j)}
    IN {[i \in 1 .. Cardinality(lost) |->
            ToSweep(o[i].target, NoLabel, Chain(o[i].source))] : o \in orders}

\* The sweeps that let the entry k go, edges last, and the deletion of its row.
Retirement(k) == <<ToSweep(k[1], k[2], {}), ToLapse(k), ToDrop(k)>>

Retirements(ks) ==
    IF ks = {} THEN <<>> ELSE Retirement(CHOOSE k \in ks : TRUE)

\* A route that reads before it takes a lock.
Enter(r, record) ==
    /\ req[r] = Idle
    /\ req' = [req EXCEPT ![r] = record]
    /\ UNCHANGED <<entry, debts, lines, edges, lock>>

\* A route that takes its system's lock before it reads.
Start(r, root, record) ==
    /\ req[r] = Idle
    /\ lock[root] = NoRequest
    /\ lock' = [lock EXCEPT ![root] = r]
    /\ req' = [req EXCEPT ![r] = record]
    /\ UNCHANGED db

StartCheck(r, op) ==
    /\ op.kind \in {"verify", "promote"}
    /\ LET ls == Check(op.proof)
       IN Start(r, Home[op.proof],
                [Begun(op, ls, <<>>) EXCEPT !.stage = "checked",
                                            !.rows  = Named(ls)])

\* The owner withdraws the entry of a proof, which is read before any lock.
StartRetire(r, op) ==
    /\ op.kind = "retire"
    /\ WarrantedBy(op.proof) # {}
    /\ Enter(r, Begun(op, NoLines, Retirements(WarrantedBy(op.proof))))

StartAssume(r, op) ==
    /\ op.kind = "assume"
    /\ entry[Key(op)] = NoEntry
    /\ ~IsRule(op.system, op.label)
    /\ Start(r, op.system, Begun(op, NoLines, <<ToSweep(op.system, op.label, {})>>))

\* Refused while an entry is recorded to rest on it.
StartWithdraw(r, op) ==
    /\ op.kind = "withdraw"
    /\ IsAssumption(Key(op))
    /\ DependentEntries(Key(op)) = {}
    /\ Start(r, op.system, Begun(op, NoLines,
             <<ToDrop(Key(op)), ToSweep(op.system, op.label, {})>>))

\* The relation routes take no lock before their sweep does.
StartRelate(r, op) ==
    LET into == {e.position : e \in {f \in edges : f.target = op.target}}
    IN /\ op.kind = "relate"
       /\ op.source # op.target
       /\ op.warrant # Primitive => /\ op.warrant[1] \in Chain(op.target)
                                    /\ entry[op.warrant] # NoEntry
       /\ \E next \in 0 .. MaxPosition :
             LET edge == [source |-> op.source, target |-> op.target, position |-> next,
                          warrant |-> op.warrant]
             IN /\ (\A m \in into : m < next) /\ (next = 0 \/ next - 1 \in into)
                /\ Enter(r, [Begun(op, NoLines, <<ToInsert(edge),
                                 ToSweep(op.target, NoLabel, Chain(op.source))>>)
                                 EXCEPT !.edge = edge])

StartUnrelate(r, op) ==
    /\ op.kind = "unrelate"
    /\ \E e \in edges :
          /\ Ends(e) = <<op.source, op.target>>
          /\ Enter(r, [Begun(op, NoLines, <<ToSweep(op.target, NoLabel, Chain(op.source))>>)
                           EXCEPT !.edge = e])
-----------------------------------------------------------------------------
(* Its steps.                                                              *)

Head1(r) == Head(req[r].todo)

DoesNext(r, step) == req[r] # Idle /\ req[r].todo # <<>> /\ Head1(r).do = step

Sweeping(r)  == DoesNext(r, "sweep")
Dropping(r)  == DoesNext(r, "drop")
Inserting(r) == DoesNext(r, "insert")

\* A sweep starts from its root, and takes no key before its walk is over.
Front(r)   == IF req[r].swept = {} THEN {Head1(r).sweep.root} ELSE req[r].front
Walking(r) == Sweeping(r) /\ Front(r) # {}
Locking(r) == Sweeping(r) /\ Front(r) = {} /\ req[r].queue # {}

NextKey(r) == (CHOOSE x \in req[r].queue : \A y \in req[r].queue : y = x \/ Before(x, y))[2]

\* The stored lines as the request's own transaction sees them.
View(r) ==
    IF req[r].op.kind \in {"verify", "promote"} /\ req[r].stage = "ready"
    THEN [lines EXCEPT ![req[r].op.proof] = req[r].lines] ELSE lines

\* What the deletions of the request leave of the entries.
KeptEntries(r) == [k \in Keys |-> IF k \in req[r].drops THEN NoEntry ELSE entry[k]]

\* What those deletions take with them (ON DELETE CASCADE for the debts, SET NULL
\* for the lines and the obligations), and the verdicts the request cleared.

\* The records of what the entry rests on go, and those that rest on it stay.
WrongKeptDebts(r) == {d \in debts : d[1] \notin req[r].drops}

KeptDebts(r) == {d \in debts : {d[1], d[2]} \cap req[r].drops = {}}

Unlinked(r, ls) ==
    [ls EXCEPT !.cites =
        {IF <<c[2], c[1]>> \in req[r].drops THEN <<c[1], NoSystem>> ELSE c : c \in @}]

KeptLines(r) ==
    [p \in Proofs |-> IF p \in req[r].clear \/ View(r)[p] = NoLines THEN NoLines
                      ELSE Unlinked(r, View(r)[p])]

KeptEdges(r) == {[e EXCEPT !.warrant = IF @ \in req[r].drops THEN Lapsed ELSE @] : e \in edges}

\* The debts of the entry a promotion is about to store.
Owed(r) == RestsOn(KeptLines(r), KeptDebts(r), req[r].op.proof)

\* The entries whose rows the request's next write names.
Pins(r) ==
    LET q == req[r]
    IN IF q.stage = "checked" THEN Named(q.lines)
       ELSE IF q.op.kind = "promote" /\ q.todo = <<>> /\ Owed(r) # {}
       THEN Owed(r) \cup q.heirs
       ELSE {}

\* Whom the request waits for: another's advisory key, an uncommitted deletion
\* of a row it names, a pin on a row it deletes, or an uncommitted edge between
\* the systems it relates.
WaitsFor(r) ==
    IF req[r] = Idle THEN {}
    ELSE {q \in Requests \ {r} : req[q] # Idle /\
            \/ Locking(r) /\ lock[NextKey(r)] = q
            \/ Dropping(r) /\ Head1(r).key \in (req[q].shares \cup req[q].drops) \ req[r].gone
            \/ /\ Inserting(r)
               /\ \/ req[r].edge.warrant \in req[q].drops
                  \/ /\ req[q].op.kind = "relate" /\ ~Inserting(q)
                     /\ Ends(req[q].edge) = Ends(req[r].edge)
            \/ Pins(r) \cap req[q].drops # {}}

Update(r, record) == req' = [req EXCEPT ![r] = record]

\* What r deleted is gone for the requests that have read it.
Deleted(r, rows) ==
    req' = [q \in Requests |->
              IF q = r \/ req[q] = Idle THEN Idle
              ELSE [req[q] EXCEPT !.gone = @ \cup (rows \cap Reads(req[q]))]]

\* Session-level keys: they outlive the transaction.
WrongRelease(r, rows) ==
    /\ lock' = lock
    /\ Deleted(r, rows)

\* The transaction ends, and with it the locks it holds.
Release(r, rows) ==
    /\ lock' = [s \in Systems |-> IF lock[s] = r THEN NoRequest ELSE lock[s]]
    /\ Deleted(r, rows)

\* Rolled back: a refusal, a violated key, or the victim of a deadlock.
RollBack(r) == Release(r, {}) /\ UNCHANGED db

\* One generation of the walk, which is over when nothing further is reached.
Walk(r) ==
    LET sweep == Head1(r).sweep
        known == req[r].queue \cup {<<0, sweep.root>>}
        next  == Further(sweep, Front(r), req[r].swept \cup {sweep.root})
    IN /\ Walking(r)
       /\ Update(r, [req[r] EXCEPT
             !.front = next,
             !.swept = @ \cup {sweep.root} \cup next,
             !.queue = known \cup ({Cardinality({x[1] : x \in known})} \X next)])
       /\ UNCHANGED <<entry, debts, lines, edges, lock>>

Take(r) ==
    /\ Locking(r)
    /\ lock[NextKey(r)] \in {NoRequest, r}
    /\ lock' = [lock EXCEPT ![NextKey(r)] = r]
    /\ Update(r, [req[r] EXCEPT !.queue = {x \in @ : x[2] # NextKey(r)}])
    /\ UNCHANGED db

\* With its locks held, the sweep marks the proofs that cite and what cites them.
Gather(r) ==
    /\ Sweeping(r) /\ Front(r) = {} /\ req[r].queue = {}
    /\ Update(r, [req[r] EXCEPT
            !.clear = @ \cup WithDependents(Citing(View(r), KeptEntries(r), req[r].swept, Head1(r).sweep)),
            !.swept = {},
            !.todo  = Tail(@)])
    /\ UNCHANGED <<entry, debts, lines, edges, lock>>

\* The edges the entry warrants are read when its own sweep is done.
Lapse(r) ==
    /\ DoesNext(r, "lapse")
    /\ LET k == Head1(r).key
       IN \E sweeps \in IF k \in req[r].gone THEN {<<>>} ELSE EdgeSweeps(k) :
             Update(r, [req[r] EXCEPT !.todo = sweeps \o Tail(@)])
    /\ UNCHANGED <<entry, debts, lines, edges, lock>>

Drop(r) ==
    /\ Dropping(r) /\ WaitsFor(r) = {}
    /\ Update(r, [req[r] EXCEPT !.drops = @ \cup ({Head1(r).key} \ req[r].gone),
                                !.todo = Tail(@)])
    /\ UNCHANGED <<entry, debts, lines, edges, lock>>

\* The pair is unique, and the warrant's row must still be there.
Insert(r) ==
    LET e == Head1(r).edge
    IN /\ Inserting(r) /\ WaitsFor(r) = {}
       /\ IF e.warrant \in req[r].gone \/ \E f \in edges : Ends(f) = Ends(e)
          THEN RollBack(r)
          ELSE /\ Update(r, [req[r] EXCEPT !.shares = {e.warrant} \ {Primitive},
                                           !.todo   = Tail(@)])
               /\ UNCHANGED <<entry, debts, lines, edges, lock>>
-----------------------------------------------------------------------------
(* Its end.                                                                *)

Finished(r, kind) ==
    /\ req[r] # Idle /\ req[r].op.kind = kind /\ req[r].stage = "ready"
    /\ req[r].todo = <<>> /\ WaitsFor(r) = {}

\* A row that the check read and its lines are to name has been deleted.
Vanished(r) == req[r].rows \cap req[r].gone # {}

FinishVerify(r) ==
    /\ req[r] # Idle /\ req[r].op.kind = "verify"
    /\ WaitsFor(r) = {}
    /\ IF Vanished(r) THEN RollBack(r)
       ELSE /\ lines' = [lines EXCEPT ![req[r].op.proof] = req[r].lines]
            /\ Release(r, {})
            /\ UNCHANGED <<entry, debts, edges>>

\* A proof may discharge the assumption it assumes.
WrongPromotable(p, l, ls) ==
    LET k == <<Home[p], l>>
    IN /\ ls.ok
       /\ ~IsRule(Home[p], l)
       /\ \/ entry[k] = NoEntry
          \/ entry[k].by = p
          \/ IsAssumption(k) /\ entry[k].states = Concludes[p]

\* What a promotion of p under l, with its check ls stored, requires.
Promotable(p, l, ls) ==
    LET k == <<Home[p], l>>
    IN /\ ls.ok
       /\ ~IsRule(Home[p], l)
       /\ \/ entry[k] = NoEntry
          \/ entry[k].by = p
          \/ /\ IsAssumption(k)
             /\ entry[k].states = Concludes[p]
             /\ k \notin RestsOn([lines EXCEPT ![p] = ls], debts, p)

\* The check is stored; then the promotion is refused, or it is planned: pay
\* off the assumption of this label, retire the proof's entry, sweep the label.
StorePromotion(r) ==
    LET q == req[r]
        p == q.op.proof
        k == <<Home[p], q.op.label>>
        discharged == IF IsAssumption(k) THEN <<ToLapse(k), ToDrop(k)>> ELSE <<>>
    IN /\ q # Idle /\ q.op.kind = "promote" /\ q.stage = "checked"
       /\ WaitsFor(r) = {}
       /\ IF Vanished(r) \/ ~Promotable(p, q.op.label, q.lines) THEN RollBack(r)
          ELSE /\ Update(r, [q EXCEPT
                    !.stage  = "ready",
                    !.shares = q.rows,
                    !.rows   = {},
                    !.heirs  = IF IsAssumption(k) THEN DependentEntries(k) ELSE {},
                    !.todo   = discharged \o Retirements(WarrantedBy(p))
                                 \o <<ToSweep(Home[p], q.op.label, {})>>])
               /\ UNCHANGED <<entry, debts, lines, edges, lock>>

\* An heir's row is gone: another request's deletion, or this proof's own entry,
\* which the promotion has just retired.
Orphaned(r) == Owed(r) # {} /\ req[r].heirs \cap (req[r].gone \cup req[r].drops) # {}

\* The debts of the entries that rested on the assumption go with its row.
WrongFinishPromote(r) ==
    LET p == req[r].op.proof
        k == <<Home[p], req[r].op.label>>
    IN /\ Finished(r, "promote") /\ ~Orphaned(r)
       /\ entry' = [KeptEntries(r) EXCEPT ![k] = [by |-> p, states |-> Concludes[p]]]
       /\ debts' = KeptDebts(r) \cup ({k} \X Owed(r))
       /\ lines' = KeptLines(r)
       /\ edges' = KeptEdges(r)
       /\ Release(r, req[r].drops)

\* The entry is stored with what it rests on, which the entries that rested on
\* the assumption it paid off inherit.
FinishPromote(r) ==
    LET p == req[r].op.proof
        k == <<Home[p], req[r].op.label>>
    IN /\ Finished(r, "promote")
       /\ \/ Orphaned(r) /\ RollBack(r)
          \/ /\ ~Orphaned(r)
             /\ entry' = [KeptEntries(r) EXCEPT ![k] = [by |-> p, states |-> Concludes[p]]]
             /\ debts' = KeptDebts(r) \cup (({k} \cup req[r].heirs) \X Owed(r))
             /\ lines' = KeptLines(r)
             /\ edges' = KeptEdges(r)
             /\ Release(r, req[r].drops)

FinishAssume(r) ==
    LET k == Key(req[r].op)
    IN /\ Finished(r, "assume")
       /\ entry' = [entry EXCEPT ![k] = [by |-> Asserted, states |-> req[r].op.states]]
       /\ debts' = debts \cup {<<k, k>>}
       /\ lines' = KeptLines(r)
       /\ Release(r, {})
       /\ UNCHANGED edges

FinishRemoval(r) ==
    /\ \/ Finished(r, "retire")
       \/ Finished(r, "withdraw")
    /\ entry' = KeptEntries(r)
    /\ debts' = KeptDebts(r)
    /\ lines' = KeptLines(r)
    /\ edges' = KeptEdges(r)
    /\ Release(r, req[r].drops)

FinishRelation(r) ==
    LET e    == req[r].edge
        same == {f \in edges : Ends(f) = Ends(e) /\ Ends(e) \notin req[r].gone}
    IN /\ \/ Finished(r, "relate") /\ edges' = edges \cup {e} /\ Release(r, {})
          \/ Finished(r, "unrelate") /\ edges' = edges \ same /\ Release(r, {Ends(e)})
       /\ lines' = KeptLines(r)
       /\ UNCHANGED <<entry, debts>>

\* Postgres ends a circular wait by aborting one of its transactions.
Deadlocked(r) ==
    \E C \in SUBSET Requests : r \in C /\ \A q \in C : WaitsFor(q) \cap C # {}

Abort(r) == Deadlocked(r) /\ RollBack(r)
-----------------------------------------------------------------------------
Init ==
    /\ entry = [k \in Keys |-> NoEntry]
    /\ debts = {}
    /\ lines = [p \in Proofs |-> NoLines]
    /\ edges = {}
    /\ lock = [s \in Systems |-> NoRequest]
    /\ req = [r \in Requests |-> Idle]

StartAny(r, op) ==
    \/ StartCheck(r, op)
    \/ StartRetire(r, op)
    \/ StartAssume(r, op)
    \/ StartWithdraw(r, op)
    \/ StartRelate(r, op)
    \/ StartUnrelate(r, op)

Advance(r) ==
    \/ Walk(r)
    \/ Take(r)
    \/ Gather(r)
    \/ Lapse(r)
    \/ Drop(r)
    \/ Insert(r)
    \/ StorePromotion(r)

Finish(r) ==
    \/ FinishVerify(r)
    \/ FinishPromote(r)
    \/ FinishAssume(r)
    \/ FinishRemoval(r)
    \/ FinishRelation(r)
    \/ Abort(r)

Next ==
    \/ \E r \in Requests, op \in Operations : StartAny(r, op)
    \/ \E r \in Requests : Advance(r) \/ Finish(r)

Spec == Init /\ [][Next]_vars

\* A request under way is served, and the queue of a lock is first in, first out.
Fairness == \A r \in Requests : SF_vars(Advance(r)) /\ SF_vars(Finish(r))

FairSpec == Spec /\ Fairness
=============================================================================
