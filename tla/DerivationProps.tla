--------------------------- MODULE DerivationProps ---------------------------
(* What registering definitions and deriving with them must keep. *)
EXTENDS Derivation

---------------------------------------------------------------------------
(* What a formula says once every defined form in it is expanded *)

\* A name no author writes, for a binder of the expansion at this depth.
Unwritten(depth, i) == Leaf("name", "v" \o ToString(depth) \o ToString(i))

\* Every defined form replaced by its defining form, outermost first, under
\* the first definition that matches.  Names along a branch are all distinct.
RECURSIVE Expanded(_, _, _)
Expanded(t, order, depth) ==
    LET of == IF depth = 0 THEN <<>>
              ELSE SelectSeq(order, LAMBDA d : Match(d.higher, t, <<>>) # {})
    IN IF IsVar(t) THEN t
       ELSE IF of = <<>>
       THEN [t EXCEPT !.kids = [i \in DOMAIN t.kids |-> Expanded(t.kids[i], order, depth)]]
       ELSE LET d == Head(of)
                b == CHOOSE b \in Match(d.higher, t, <<>>) : TRUE
                n == [k \in BinderKeys(d) |->
                        LET i == CHOOSE i \in DOMAIN d.fresh : BoundLabel(i - 1) = k
                        IN Unwritten(depth, i)]
            IN Expanded(Substitute(d.lower, b @@ n), order, depth - 1)

\* The same formula with each bound name replaced by the depth of its binder.
RECURSIVE AlphaForm(_, _, _)
AlphaForm(t, env, depth) ==
    IF IsVar(t) THEN t
    ELSE IF t.kids = <<>>
    THEN IF t.lit \in DOMAIN env THEN Leaf(t.con, "@" \o ToString(env[t.lit])) ELSE t
    ELSE LET open == Opening(t)
             within(i) ==
               [n \in {t.kids[open[k]].lit : k \in
                         {k \in DOMAIN open :
                            i \in {open[k]} \cup Con[t.con].scopes[open[k]]}} |->
                  depth + (CHOOSE k \in DOMAIN open : t.kids[open[k]].lit = n)] @@ env
         IN [t EXCEPT !.kids = [i \in DOMAIN t.kids |->
                AlphaForm(t.kids[i], within(i), depth + Len(open))]]

MaxExpansion == 6
Meaning(t, order) == AlphaForm(Expanded(t, order, MaxExpansion), <<>>, 0)

---------------------------------------------------------------------------
(* A step of a definition may rename binders and may fold what an unfold    *)
(* never produced, but a line reached by it says what the line it cites     *)
(* says: no name of the one is captured by a binder of the other            *)
(* (kernel/definitions.py, check_definitional_step).                        *)
StepsKeepMeaning ==
    [][\A d \in Range(definitions), n \in DOMAIN lines' \ DOMAIN lines :
         LET new == lines'[n]
         IN new.kind = "definition" /\ new.label = d.label =>
              LET order == <<d>> \o definitions
              IN Meaning(new.formula, order) = Meaning(Formulas[new.cites[1]], order)]_lines

(* Registering a definition leaves what every rule of the system says as it *)
(* was: it gives meaning to a form no rule reasons with, were that form     *)
(* only text when the rule was read (declarative.py,                        *)
(* _require_a_fresh_defined_form).                                          *)
RulesKeepMeaning ==
    [][\A r \in rules : \A s \in {r.deduction} \cup Range(r.antecedents) :
         Meaning(s, definitions') = Meaning(s, definitions)]_definitions

(* Unfolding ends: no registered form is defined through itself, however    *)
(* many definitions lie between and whichever was registered first          *)
(* (declarative.py, _require_a_non_circular_definition).                    *)
UnfoldingEnds ==
    \A d \in Range(definitions) :
        d.higher.con \notin ReachableFrom(Range(definitions), SignaturesIn(d.lower))

(* Capture is avoided by renaming, never by refusing: a defined form can be *)
(* unfolded wherever its proviso holds with names the form does not         *)
(* mention, and whatever unfold answers the checker accepts as a step, in   *)
(* both directions.                                                         *)
FreshNamesUnfold ==
    \A d \in Range(definitions) : \A t \in UNION {Subterms(f) : f \in Range(Formulas)} :
      Match(d.higher, t, <<>>) # {} =>
        /\ \A chosen \in [BinderKeys(d) -> Leaves] : \A u \in Unfold(d, t, chosen) :
             CheckDefinitionalStep(t, u, d) /\ CheckDefinitionalStep(u, t, d)
        /\ LET unwritten == [k \in BinderKeys(d) |->
                               Unwritten(1, CHOOSE i \in DOMAIN d.fresh : BoundLabel(i - 1) = k)]
           IN (\A b \in Match(d.higher, t, <<>>) :
                 Check(d.condition, ConditionBinding(d, b, unwritten)))
              => Unfold(d, t, unwritten) # {}

(* A promoted theorem says no more than its proof: at every instance its    *)
(* provisos admit, the derivation with that instance written for the        *)
(* nominated leaves stands line by line, so no side condition, no binder's  *)
(* freshness, no capture and no axiom's shape was checked of the concrete   *)
(* leaves alone (promotion.py, schematic_theorem).                          *)
InstancesFollow ==
    \A t \in theorems : \A b \in [FreeVars(t.rule.deduction) -> Leaves \cup Premises] :
      Applies(t.rule, <<>>, Substitute(t.rule.deduction, b)) =>
        LET instance == [n \in DOMAIN t.proof |->
                           [t.proof[n] EXCEPT !.formula = Substitute(@, b)]]
        IN \A n \in DOMAIN instance :
             /\ Stands(instance, n)
             /\ instance[n].kind = "axiom" => instance[n].formula \in Axioms

(* The prefilter never hides an entry whose conclusion the goal is an       *)
(* instance of, and the filter in SQL is the comparison of features in      *)
(* memory (fingerprint.py, db/fingerprints.py).                             *)
PrefilterLosesNothing ==
    \A r \in Citable : \A goal \in Range(Formulas) :
      /\ Concludes(r, goal) /\ ~IsVar(r.deduction) => r \in ConclusionCandidates(Citable, goal)
      /\ FingerprintFilter(goal, r.deduction) <=>
           \A i \in DOMAIN FingerprintPositions :
             FeaturesCompatible(Fingerprint(goal)[i], Fingerprint(r.deduction)[i])

\* A renaming of the free leaves of one statement that gives the other.
RECURSIVE Renamed(_, _)
Renamed(t, names) ==
    IF FreeIdentity(t) = {}
    THEN [t EXCEPT !.kids = [i \in DOMAIN t.kids |-> Renamed(t.kids[i], names)]]
    ELSE [t EXCEPT !.lit = names[CHOOSE n \in FreeIdentity(t) : TRUE][3]]
FreeIdentities(t) == UNION {FreeIdentity(u) : u \in Subterms(t)}
AlphaEquivalent(s, t) ==
    \E names \in Bijection(FreeIdentities(s), FreeIdentities(t)) :
        /\ \A n \in DOMAIN names : names[n][1] = n[1] /\ names[n][2] = n[2]
        /\ Renamed(s, names) = t

(* The search proposes a rule or a theorem exactly when some choice of      *)
(* lines, in some order and with repetition, would be accepted, and what it *)
(* proposes is accepted: neither the prefilter nor the per-premise          *)
(* candidates nor the abandoned prefixes lose one, unless the answer says   *)
(* that it was cut, and then no theorem that states the goal is left out    *)
(* for one that does not.  A theorem is called                              *)
(* exact when it states the goal under other names, names kept apart        *)
(* (formal_system/retrieval.py, applications; proofs.py, find_citations;    *)
(* terms_mapping.py, alpha_digest).                                         *)
SearchFindsWhatApplies ==
    /\ PrefilterLosesNothing
    /\ \A goal \in Goals \ Range(Formulas) :
         LET answer == FindCitations(goal, Formulas)
             found == answer.suggestions
             at(c) == [i \in DOMAIN c |-> Formulas[c[i]]]
         IN /\ \A f \in found : \E r \in Citable :
                 r.label = f.label /\ Applies(r, at(f.cites), goal)
            /\ \A r \in Citable :
                 (\E c \in [DOMAIN r.antecedents -> DOMAIN lines] : Applies(r, at(c), goal))
                   => \/ \E f \in found : f.label = r.label
                      \/ /\ answer.truncated
                         /\ r \notin rules /\ Exact(r, goal) => \A f \in found : f.exact
    /\ \A t \in theorems : \A goal \in Goals :
         AlphaDigest(t.rule.deduction) = AlphaDigest(goal)
           <=> AlphaEquivalent(t.rule.deduction, goal)
=============================================================================
