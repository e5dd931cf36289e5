------------------------------ MODULE MCLibrary ------------------------------
(***************************************************************************)
(* Small instances of Library.  A tower base <- mid <- top, a system side  *)
(* beside mid, also over base, and a system apart that inherits nothing;   *)
(* labels l, m, n, o; statements S, and T that no citation is written for. *)
(***************************************************************************)
EXTENDS LibraryProps

CONSTANTS base, mid, top, side, apart, l, m, n, o,
          axiom, direct, weak, echo, late, user, remark, guest, host,
          Scenarios    \* sets of calls: the clients of a behaviour keep to one of them

VARIABLE scenario

MCStatements == {"S", "T"}

MCParent ==
    [s \in Systems |-> CASE s \in {base, apart} -> NoSystem [] s = top -> mid [] OTHER -> base]

\* The ids are ordered against the tower.
MCId ==
    LET order == [s \in Systems |-> CASE s = base -> 5 [] s = mid -> 4 [] s = top -> 3
                                       [] s = apart -> 2 [] OTHER -> 1]
    IN [s \in Systems |-> Cardinality({t \in Systems : order[t] < order[s]})]

\* A rule of mid that carries the label m, which base has no rule for.
MCRules == {<<mid, m>>} \cap Keys

\* axiom, weak and echo are proofs of base, the second citing m and the third
\* l; direct proves in mid what l says; user cites l and m in top, and remark
\* cites user; guest cites l or m across an edge into apart, or into side, and
\* host proves something there.
MCHome ==
    [p \in Proofs |-> CASE p \in {axiom, weak, echo, late} -> base
                        [] p = direct -> mid
                        [] p \in {guest, host} ->
                             IF apart \in Systems THEN apart ELSE side
                        [] OTHER -> top]

MCConcludes == [p \in Proofs |-> "S"]

MCCitations ==
    [p \in Proofs |-> CASE p = weak -> {<<m, "S">>}
                        [] p = echo -> {<<l, "S">>}
                        [] p = late -> {<<n, "S">>}
                        [] p = user -> {<<l, "S">>, <<m, "S">>}
                        [] p = guest -> {<<IF direct \in Proofs THEN l ELSE m, "S">>}
                        [] OTHER -> {}]

MCLemmas == [p \in Proofs |-> IF p = remark THEN {user} \cap Proofs ELSE {}]

Verify(ps)      == [kind : {"verify"}, proof : ps]
Retire(ps)      == [kind : {"retire"}, proof : ps]
Promote(p, ls)  == [kind : {"promote"}, proof : {p}, label : ls]
Assume(s, ls)   == [kind : {"assume"}, system : {s}, label : ls, states : {"S"}]
Withdraw(s, ls) == [kind : {"withdraw"}, system : {s}, label : ls]

-----------------------------------------------------------------------------
(* One client at a time.                                                   *)

\* The whole tower.
TowerOperations ==
    Verify({weak, user, remark}) \cup Retire({axiom, weak, direct, user})
      \cup Promote(axiom, {l, m}) \cup Promote(weak, {l}) \cup Promote(direct, {l})
      \cup Promote(user, {n}) \cup Promote(remark, {n})
      \cup Assume(base, {l, m}) \cup Withdraw(base, {l, m})
      \cup [kind : {"assume"}, system : {base}, label : {l}, states : {"T"}]

Relate(s, t, w) == [kind : {"relate"}, source : {s}, target : {t}, warrant : w]
Unrelate(s, t)  == [kind : {"unrelate"}, source : {s}, target : {t}]

\* Entries cited across an edge, which a rule or a theorem of its target warrants.
EdgeOperations ==
    Verify({guest}) \cup Retire({axiom, direct, host})
      \cup Promote(axiom, {l}) \cup Promote(direct, {l}) \cup Promote(host, {n})
      \cup Relate(mid, apart, {Primitive, <<apart, n>>}) \cup Relate(base, apart, {Primitive})
      \cup Unrelate(mid, apart) \cup Unrelate(base, apart)

\* Two assumptions, and a proof of each that assumes the other.
CircleOperations ==
    Verify({weak, echo}) \cup Promote(weak, {l}) \cup Promote(echo, {m})
      \cup Assume(base, {l, m}) \cup Withdraw(base, {l, m})

\* weak, promoted on m while that rests on l, discharges l when m has been
\* promoted anew, on n or on nothing: its own earlier entry rested on l.
HeirOperations ==
    Verify({weak}) \cup Retire({echo})
      \cup Promote(axiom, {m}) \cup Promote(echo, {m}) \cup Promote(late, {m})
      \cup Promote(weak, {l, o}) \cup Assume(base, {l, n})

\* A theorem, what was promoted on it, its retirement, and its promotion again
\* from what had been promoted on it: two entries then warrant each other.
RedoneOperations ==
    Verify({weak}) \cup Promote(axiom, {m}) \cup Promote(weak, {l}) \cup Promote(echo, {m})
      \cup Retire({axiom, weak}) \cup Assume(base, {m}) \cup Withdraw(base, {m})

MCSerial ==
    {TowerOperations, EdgeOperations, CircleOperations, HeirOperations, RedoneOperations}
-----------------------------------------------------------------------------
(* Two clients.                                                            *)

\* Overlapping requests of three systems, one below the other.
LevelOperations ==
    Verify({user}) \cup Retire({axiom, user})
      \cup Promote(axiom, {l}) \cup Promote(direct, {l}) \cup Promote(user, {n})

\* An assumption of base is discharged or withdrawn while top promotes a proof
\* that rests on it, or retires it, and two calls may write one edge.
DebtOperations ==
    Verify({user}) \cup Promote(user, {n}) \cup Retire({user})
      \cup Promote(axiom, {l}) \cup Assume(base, {l}) \cup Withdraw(base, {l})
      \cup Relate(mid, apart, {Primitive})

MCOverlap == {LevelOperations, DebtOperations, CircleOperations, HeirOperations}
-----------------------------------------------------------------------------
(* Just the calls a counterexample needs: see the README.                  *)

\* A descendant proves, from the ancestor's assumption, what it assumes.
Ancestor ==
    {Verify({user}) \cup Promote(user, {l}) \cup Assume(base, {l, m}) \cup Withdraw(base, {l, m})}

Redone == {RedoneOperations}

\* An edge out of a system whose rule has the label that its parent's entry has.
EdgeRule ==
    {Verify({guest}) \cup Promote(axiom, {m}) \cup Retire({axiom}) \cup Relate(mid, apart, {Primitive})}

\* An edge that an assumption of its target warrants.
EdgeDebt ==
    {Verify({guest}) \cup Promote(direct, {l}) \cup Assume(apart, {n}) \cup Withdraw(apart, {n})
       \cup Relate(mid, apart, {<<apart, n>>})}

\* Assumptions are withdrawn under a check and a promotion.
WithdrawnUnderUse ==
    {Verify({user}) \cup Promote(user, {n}) \cup Assume(base, {l, m}) \cup Withdraw(base, {l})}

\* An edge between two systems that inherit from one parent.
Siblings ==
    {Promote(axiom, {n}) \cup Promote(direct, {l}) \cup Relate(mid, side, {Primitive})}

\* The assumption l of base is discharged by a proof that rests on another.
Discharged ==
    {Verify({user}) \cup Promote(user, {n}) \cup Promote(weak, {l}) \cup Assume(base, {l, m})}
-----------------------------------------------------------------------------
MCOperations == UNION Scenarios

ScenarioInit == Init /\ scenario \in Scenarios

ScenarioNext ==
    /\ Next
    /\ \A r \in Requests : req[r] = Idle /\ req'[r] # Idle => req'[r].op \in scenario
    /\ UNCHANGED scenario

ScenarioSpec == ScenarioInit /\ [][ScenarioNext]_<<vars, scenario>> /\ Fairness
=============================================================================
