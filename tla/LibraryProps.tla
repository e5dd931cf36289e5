---------------------------- MODULE LibraryProps ----------------------------
(***************************************************************************)
(* What the libraries of a tower must keep true.                           *)
(***************************************************************************)
EXTENDS Library

\* The rows have their types, and a key is held by a request under way: it is
\* pg_advisory_xact_lock's, which ends with its transaction.
TypeOK ==
    /\ entry \in [Keys -> Entries \cup {NoEntry}]
    /\ debts \subseteq Keys \X Keys
    /\ lines \in [Proofs -> Lines \cup {NoLines}]
    /\ edges \subseteq Edges
    /\ \A s \in Systems : lock[s] = NoRequest \/ (lock[s] \in Requests /\ req[lock[s]] # Idle)
    /\ \A r \in Requests : req[r] = Idle \/
          /\ req[r].op \in Operations
          /\ req[r].clear \subseteq Proofs
          /\ req[r].drops \subseteq Keys
          /\ req[r].gone \subseteq Keys \cup (Systems \X Systems)


\* A debt is recorded of an entry that stands, and it is an assumption that
\* still stands as one: every deletion, replacement and discharge of an entry
\* takes the records that name it along, in either column.
DebtsNameAssumptions ==
    \A d \in debts : entry[d[1]] # NoEntry /\ IsAssumption(d[2])

\* While nothing is assumed and nothing crosses an edge, no transactions that
\* check, promote or retire are in a circular wait for advisory keys and the
\* rows they pin: the sweeps of a tower take its keys in one order
\* (_invalidation.py:125).  Assumptions and edges are another matter.
NoCircularWait ==
    /\ debts = {} /\ edges = {}
    /\ \A r \in Requests : req[r] # Idle => req[r].op.kind \in {"verify", "promote", "retire"}
    => \A r \in Requests : ~Deadlocked(r)

\* The entries some standing verdicts lean on for the entry k: those that the
\* lines of its warrant, and of the lemmas these reach, name.
Supports(k) ==
    IF entry[k] = NoEntry \/ entry[k].by = Asserted THEN {}
    ELSE UNION {Named(lines[q]) :
                  q \in {x \in ReferenceClosure(lines, entry[k].by) : lines[x] # NoLines}}

\* The entries k leans on through any number of warrants, and k.
LeansOn(k) ==
    LET within[n \in Nat] ==
            IF n = 0 THEN {k}
            ELSE within[n - 1] \cup UNION {Supports(j) : j \in within[n - 1]}
    IN within[Cardinality(Keys)]

\* No two entries warrant each other.  The code does not promise it: promoting,
\* retiring and promoting again reaches such a pair, and no debt is involved.
NoCircularWarrant == \A k \in Keys : \A j \in Supports(k) : k \notin LeansOn(j)

\* The debts recorded of an entry are at least those its warrant's standing
\* lines rest on.
DebtsCovered ==
    \A k \in Keys :
        entry[k] # NoEntry /\ entry[k].by \in Proofs
          => RestsOn(lines, debts, entry[k].by) \subseteq {d[2] : d \in {x \in debts : x[1] = k}}
-----------------------------------------------------------------------------
Debts(k) == {d[2] : d \in {x \in debts : x[1] = k}}

\* An assumption that is proved leaves what rested on it owing the debts of its
\* warrant, and nothing it owed besides is forgiven: what is left of it, that is,
\* since the warrant's own earlier entry may be among them and is retired.
DischargeKeepsDebts ==
    [][\A k \in Keys :
         IsAssumption(k) /\ (entry[k] # NoEntry /\ entry[k].by # Asserted)'
           => \A h \in {x \in DependentEntries(k) : (entry[x] # NoEntry)'} :
                (Debts(h) \ {k}) \cup Debts(k)' \subseteq Debts(h)']_vars

\* While the recorded debts cover what standing verdicts rest on, an assumption is
\* never paid off by a proof that leans on it, through however many entries
\* and lemmas: the records alone, which are all the discharge reads, show it.
\* What a later check of an old warrant then makes of it is not promised.
DischargeClosesNoCircle ==
    [][DebtsCovered =>
         \A k \in Keys :
           IsAssumption(k) /\ (entry[k] # NoEntry /\ entry[k].by # Asserted)'
             => \A j \in Supports(k)' : k \notin LeansOn(j)]_vars

\* An assumption is withdrawn only when no entry is recorded to rest on it.
WithdrawnUnowed ==
    [][\A k \in Keys :
         IsAssumption(k) /\ (entry[k] = NoEntry)' => DependentEntries(k) = {}]_vars

\* An entry is stored with the debts its warrant rests on.
PromotedWithDebts ==
    [][\A r \in Requests, k \in Keys :
         /\ req[r] # Idle /\ req[r].op.kind = "promote"
         /\ k = <<Home[req[r].op.proof], req[r].op.label>>
         /\ entry'[k] # entry[k]
         => RestsOn(View(r), debts, req[r].op.proof) \ {k} \subseteq Debts(k)']_vars

\* Every request ends, in a commit, a refusal or an abort.
EveryRequestEnds == \A r \in Requests : req[r] # Idle ~> req[r] = Idle
=============================================================================
