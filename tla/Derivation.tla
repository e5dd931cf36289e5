----------------------------- MODULE Derivation -----------------------------
(***************************************************************************)
(* A derivation in a live system: definitions are registered and rules     *)
(* added between its lines, and each line follows from earlier ones by a   *)
(* rule (formal_system/rules.py) or by one step of a cited definition.     *)
(*                                                                         *)
(* The search for citations is here too (formal_system/retrieval.py, the   *)
(* fingerprints and db/retrieval.py): it proposes what the rules would     *)
(* accept, pruning as it goes.                                             *)
(***************************************************************************)
EXTENDS Definitions

CONSTANTS
    Productions,    \* constructors the grammar declares
    Declarations,   \* definitions an author may write
    BuiltRules,     \* sets of rules a system may be built with
    LateRules,      \* rules that may be added afterwards
    Premises,       \* formulas a derivation may start from
    Goals,          \* formulas it may go on to state
    Axioms,         \* formulas an axiom line grants
    Leaves,         \* leaves a rewritten line may mention
    Nominations,    \* metavariable -> sort, the leaves an author may generalise
    TheoremLabels,
    Candidates,     \* how many library entries a search may try
    Limit,          \* how many answers it may give
    MaxDefinitions, MaxLines, MaxTheorems

VARIABLES
    grammar,        \* constructors that read: productions and notations
    definitions,    \* registered definitions, in order
    rules,          \* rules of the system
    lines,          \* formulas stated, each with what it cites
    theorems        \* what the derivation was promoted to
vars == <<grammar, definitions, rules, lines, theorems>>

\* A promoted theorem is cited as a rule without premises.
Citable == rules \cup {t.rule : t \in theorems}

---------------------------------------------------------------------------
(* Applying a rule *)

\* The joint match of the conclusion, then the premises in citation order.
TermBinding(rule, cited, goal) ==
    MatchAll(<< <<rule.deduction, goal>> >>
             \o [i \in DOMAIN cited |-> <<rule.antecedents[i], cited[i]>>])

\* A proviso that cannot be read refuses rather than raises.
SideConditionsHold(rule, binding) ==
    \A i \in DOMAIN rule.conditions : Check(rule.conditions[i], binding)

Applies(rule, cited, goal) ==
    /\ ~rule.text
    /\ Len(cited) = Len(rule.antecedents)
    /\ \E b \in TermBinding(rule, cited, goal) : SideConditionsHold(rule, b)

---------------------------------------------------------------------------
(* Searching for citations *)

Concludes(rule, goal) == ~rule.text /\ MatchAll(<< <<rule.deduction, goal>> >>) # {}
SlotAdmits(rule, slot, formula) ==
    MatchAll(<< <<rule.antecedents[slot], formula>> >>) # {}

\* The first line each premise could be, and no other.
HastyAdmissibility(rule, pool) ==
    [slot \in DOMAIN rule.antecedents |->
       SelectSeq([j \in DOMAIN pool |-> j],
                 LAMBDA j : /\ SlotAdmits(rule, slot, pool[j])
                            /\ \A i \in 1 .. j - 1 : ~SlotAdmits(rule, slot, pool[i]))]

\* The lines each premise could be on its own.
Admissibility(rule, pool) ==
    [slot \in DOMAIN rule.antecedents |->
       SelectSeq([j \in DOMAIN pool |-> j], LAMBDA j : SlotAdmits(rule, slot, pool[j]))]

PrefixBindingExists(rule, cited, goal) == TermBinding(rule, cited, goal) # {}

\* Depth first over the slots, leaving a prefix that cannot bind, until the
\* first complete choice the rule accepts.
RECURSIVE FirstChoice(_, _, _, _, _)
FirstChoice(rule, goal, pool, adjacency, chosen) ==
    LET slot == Len(chosen) + 1
        at(c) == [i \in DOMAIN c |-> pool[c[i]]]
    IN IF Len(chosen) = Len(rule.antecedents)
       THEN IF Applies(rule, at(chosen), goal) THEN {chosen} ELSE {}
       ELSE FoldLeft(LAMBDA found, j :
                       IF found # {} \/ ~PrefixBindingExists(rule, at(Append(chosen, j)), goal)
                       THEN found
                       ELSE FirstChoice(rule, goal, pool, adjacency, Append(chosen, j)),
                     {}, adjacency[slot])

Applications(rule, goal, pool) ==
    IF ~Concludes(rule, goal) THEN {}
    ELSE LET adjacency == Admissibility(rule, pool)
         IN IF \E slot \in DOMAIN adjacency : adjacency[slot] = <<>> THEN {}
            ELSE FirstChoice(rule, goal, pool, adjacency, <<>>)

---------------------------------------------------------------------------
(* Fingerprints *)

FingerprintPositions ==
    << <<>>, <<1>>, <<2>>, <<1, 1>>, <<1, 2>>, <<2, 1>>, <<2, 2>> >>

Variable == "A"
BelowVar == "B"
Absent   == "N"

RECURSIVE FeatureAt(_, _)
FeatureAt(t, path) ==
    IF path = <<>> THEN IF IsVar(t) THEN Variable ELSE t.con \o ":" \o t.lit
    ELSE IF IsVar(t) THEN BelowVar
    ELSE IF Head(path) \notin DOMAIN t.kids THEN Absent
    ELSE FeatureAt(t.kids[Head(path)], Tail(path))

Fingerprint(t) ==
    [i \in DOMAIN FingerprintPositions |-> FeatureAt(t, FingerprintPositions[i])]

FeaturesCompatible(a, b) ==
    \/ a = b
    \/ BelowVar \in {a, b}
    \/ a = Variable /\ b # Absent
    \/ b = Variable /\ a # Absent

\* The same question as the SQL asks it of a stored feature.
FeatureCondition(query, stored) ==
    CASE query = BelowVar -> TRUE
      [] query = Variable -> stored # Absent
      [] query = Absent   -> stored \in {Absent, BelowVar}
      [] OTHER            -> stored \in {query, BelowVar, Variable}

FingerprintFilter(goal, schema) ==
    \A i \in DOMAIN FingerprintPositions :
        FeatureCondition(Fingerprint(goal)[i], Fingerprint(schema)[i])

\* The prefilter offers the entries whose conclusion has the goal's root.
ConclusionCandidates(entries, goal) ==
    {r \in entries : ~r.text /\ ~IsVar(r.deduction) /\ r.deduction.con = goal.con
                     /\ FingerprintFilter(goal, r.deduction)}

---------------------------------------------------------------------------
(* The digest of a statement up to the names of its free leaves *)

\* The class of a leaf that may be renamed, and its name.
FreeIdentity(t) ==
    CASE t.kind = "var" -> {<<"var", t.con, t.lit>>}
      [] t.kind = "node" /\ t.kids = <<>> /\ ~Con[t.con].constant -> {<<"leaf", t.con, t.lit>>}
      [] OTHER -> {}

\* The free leaves in reading order, each at its first occurrence.
RECURSIVE FreeIndices(_, _)
FreeIndices(t, numbering) ==
    IF FreeIdentity(t) # {}
    THEN numbering \o SetToSeq(FreeIdentity(t) \ Range(numbering))
    ELSE FoldLeft(LAMBDA found, k : FreeIndices(k, found), numbering, t.kids)

\* A free leaf hashes to its class and number, anything else to what it is.
RECURSIVE AlphaHash(_, _)
AlphaHash(t, numbering) ==
    IF FreeIdentity(t) = {}
    THEN [t EXCEPT !.kids = [i \in DOMAIN t.kids |-> AlphaHash(t.kids[i], numbering)]]
    ELSE LET i == CHOOSE i \in DOMAIN numbering : numbering[i] \in FreeIdentity(t)
         IN [kind |-> numbering[i][1], con |-> t.con, lit |-> ToString(i), kids |-> <<>>]

AlphaDigest(t) == AlphaHash(t, FreeIndices(t, <<>>))

---------------------------------------------------------------------------
(* Asking what could justify a line *)

FirstOf(seq, n) == Range(SubSeq(seq, 1, IF n < Len(seq) THEN n ELSE Len(seq)))

Exact(entry, goal) == AlphaDigest(entry.deduction) = AlphaDigest(goal)

\* conclusion_candidates' cut: of the entries that match, as many as are asked
\* for, those that state the goal itself before the others.
Offered(matched, goal) ==
    LET exact == {r \in matched : Exact(r, goal)}
    IN FirstOf(SetToSeq(exact) \o SetToSeq(matched \ exact), Candidates)

\* A rule that justifies every line.
ConcludesAnything(rule) == ~rule.text /\ rule.antecedents = <<>> /\ IsVar(rule.deduction)

Flag(b) == IF b THEN 1 ELSE 0

\* find_citations sorts by this: what says something first, then the goal itself,
\* then the fewest lines, then the system's own rules.
Rank(f) == <<Flag(f.assumption), Flag(~f.exact), Len(f.cites), Flag(f.source # "rule")>>
Before(f, g) ==
    \E i \in DOMAIN Rank(f) : /\ Rank(f)[i] < Rank(g)[i]
                              /\ \A j \in 1 .. i - 1 : Rank(f)[j] = Rank(g)[j]

\* Every rule tried, and of the library what the prefilter offers; each answer is
\* a choice of lines the check has accepted.  Every entry here is of the system
\* itself and was promoted from terms, so that none is shadowed or unindexed.
FindCitations(goal, pool) ==
    LET matched == {r \in ConclusionCandidates({t.rule : t \in theorems}, goal) :
                      \A s \in rules : s.label # r.label}
        offered == Offered(matched, goal)
        answer(r, c) == [label |-> r.label, cites |-> c,
                         source |-> IF r \in offered THEN "theorem" ELSE "rule",
                         assumption |-> r \in rules /\ ConcludesAnything(r),
                         exact |-> r \in offered /\ Exact(r, goal)]
        found == {answer(r, c) : <<r, c>> \in
                    UNION {{r} \X Applications(r, goal, pool) : r \in rules \cup offered}}
    IN [suggestions |-> FirstOf(SetToSortSeq(found, Before), Limit),
        truncated |-> Cardinality(found) > Limit \/ offered # matched]

---------------------------------------------------------------------------
(* The system and the derivation *)

Formulas == [i \in DOMAIN lines |-> lines[i].formula]
Reads(t) == SignaturesIn(t) \subseteq grammar

Init ==
    /\ grammar = Productions
    /\ definitions = <<>>
    /\ rules \in BuiltRules
    /\ lines = <<>>
    /\ theorems = {}

\* register_definition: a notation the grammar does not spell is added with
\* the definition, and withdrawn with it when it is refused.
RegisterDefinition(decl) ==
    /\ Len(definitions) < MaxDefinitions
    /\ \A d \in Range(definitions) : d.label # decl.label
    /\ Layers(decl, grammar)
    /\ \E def \in Finalised(decl, grammar, Range(definitions), rules,
                            {t.rule : t \in theorems}) :
         /\ definitions' = Append(definitions, def)
         /\ grammar' = grammar \cup {decl.higher.con}
    /\ UNCHANGED <<rules, lines, theorems>>

\* add_inference_rule: a rule of the same label is replaced.
AddRule(rule) ==
    /\ \A s \in Range(Append(rule.antecedents, rule.deduction)) : Reads(s)
    /\ rules' = {r \in rules : r.label # rule.label} \cup {rule}
    /\ UNCHANGED <<grammar, definitions, lines, theorems>>

\* An assumption the rest of the derivation stands under.
Premise(formula) ==
    /\ lines = <<>>
    /\ Reads(formula)
    /\ lines' = <<[formula |-> formula, kind |-> "premise", cites |-> <<>>, label |-> ""]>>
    /\ UNCHANGED <<grammar, definitions, rules, theorems>>

\* An axiom line is granted by its own shape, and cites nothing.
Axiom(formula) ==
    /\ Len(lines) < MaxLines
    /\ formula \notin Range(Formulas)
    /\ Reads(formula)
    /\ lines' = Append(lines, [formula |-> formula, kind |-> "axiom",
                               cites |-> <<>>, label |-> ""])
    /\ UNCHANGED <<grammar, definitions, rules, theorems>>

Infer(rule, goal) ==
    /\ Len(lines) < MaxLines
    /\ goal \notin Range(Formulas)       \* bound: nothing is stated twice
    /\ Reads(goal)
    /\ \E chosen \in [DOMAIN rule.antecedents -> DOMAIN lines] :
         /\ Applies(rule, [i \in DOMAIN chosen |-> Formulas[chosen[i]]], goal)
         /\ lines' = Append(lines, [formula |-> goal, kind |-> "rule",
                                    cites |-> chosen, label |-> rule.label])
    /\ UNCHANGED <<grammar, definitions, rules, theorems>>

\* What a line could be rewritten to, rightly or wrongly: one place replaced
\* by the other form of the definition, whatever the names.
RECURSIVE Replacements(_, _, _)
Replacements(t, from, to) ==
    LET open(b) == {u.lit : u \in {v \in Subterms(to) : IsVar(v)}} \ DOMAIN b
        here    == UNION {{Substitute(to, b @@ n) : n \in [open(b) -> Leaves]} :
                            b \in Match(from, t, <<>>)}
    IN here \cup UNION {{[t EXCEPT !.kids[i] = k] : k \in Replacements(t.kids[i], from, to)} :
                            i \in DOMAIN t.kids}

DefinitionalStep(def, from) ==
    /\ Len(lines) \in 1 .. MaxLines - 1
    /\ \E target \in Replacements(Formulas[from], def.higher, def.lower)
                     \cup Replacements(Formulas[from], def.lower, def.higher) :
         /\ target # Formulas[from]
         /\ CheckDefinitionalStep(Formulas[from], target, def)
         /\ lines' = Append(lines, [formula |-> target, kind |-> "definition",
                                    cites |-> <<from>>, label |-> def.label])
    /\ UNCHANGED <<grammar, definitions, rules, theorems>>

---------------------------------------------------------------------------
(* Promoting the derivation schematically *)

\* What checking the abstracted proof would not notice: a step of a rule that
\* matches text, and a definitional step or an axiom line that the nomination
\* changes.  There are no subproofs here, and so no eigenvariables to refuse.
UnsupportedForAbstraction(sorts) ==
    \E n \in DOMAIN lines :
        \/ /\ lines[n].kind = "rule" /\ DOMAIN sorts # {}
           /\ \E r \in Citable : r.label = lines[n].label /\ r.text
        \/ /\ lines[n].kind \in {"definition", "axiom"}
           /\ Abstract(lines[n].formula, sorts) # lines[n].formula

\* The lines with the nominated leaves held schematic.
Abstracted(sorts) ==
    [n \in DOMAIN lines |-> [lines[n] EXCEPT !.formula = Abstract(@, sorts)]]

CitedFormulas(proof, n) ==
    [i \in DOMAIN proof[n].cites |-> proof[proof[n].cites[i]].formula]

\* A line checked again, as it is written in proof.
Stands(proof, n) ==
    CASE proof[n].kind = "rule" ->
           \E r \in Citable : /\ r.label = proof[n].label
                              /\ Applies(r, CitedFormulas(proof, n), proof[n].formula)
      [] proof[n].kind = "definition" ->
           \E d \in Range(definitions) :
             /\ d.label = proof[n].label
             /\ CheckDefinitionalStep(CitedFormulas(proof, n)[1], proof[n].formula, d)
      [] OTHER -> TRUE

\* The provisos a line's step relied on, in the variables of the proof.
StepProvisos(proof, n) ==
    UNION {UNION {Range(Conjuncts(Restated(r.conditions[i], b))) :
                    i \in DOMAIN r.conditions,
                    b \in TermBinding(r, CitedFormulas(proof, n), proof[n].formula)} :
             r \in {s \in Citable : proof[n].kind = "rule" /\ s.label = proof[n].label}}

\* Only what the last line's own step relied on.
LastStepProvisos(proof, sorts) ==
    {c \in StepProvisos(proof, Len(proof)) : References(c) \cap DOMAIN sorts # {}}

\* A fact about ground terms was settled by the check; what is asked of a
\* metavariable goes with the theorem.
CarriedProvisos(proof, sorts) ==
    {c \in UNION {StepProvisos(proof, n) : n \in DOMAIN proof} :
        References(c) \cap DOMAIN sorts # {}}

\* promote_from_source: the statement as a rule without premises, whose
\* provisos are asked of each citation.
PromotedTheorem(label, statement, provisos) ==
    [label |-> label, antecedents |-> <<>>, deduction |-> statement,
     conditions |-> SetToSeq(provisos), text |-> FALSE, built |-> FALSE]

\* schematic_theorem: what the last line concludes, for every instance of the
\* nominated leaves, when every line still stands with them held schematic.
\* What stands under an assumption is no conclusion of the derivation's.
Promote(label, sorts) ==
    /\ Cardinality(theorems) < MaxTheorems
    /\ lines # <<>> /\ \A n \in DOMAIN lines : lines[n].kind # "premise"
    /\ \A r \in Citable : r.label # label
    /\ ~UnsupportedForAbstraction(sorts)
    /\ LET proof     == Abstracted(sorts)
           statement == proof[Len(proof)].formula
           carried   == CarriedProvisos(proof, sorts)
       IN /\ \A n \in DOMAIN proof : Stands(proof, n)
          /\ \A c \in carried : References(c) \subseteq FreeVars(statement) /\ Renders(c)
          /\ theorems' = theorems \cup
               {[rule |-> PromotedTheorem(label, statement, carried), proof |-> proof]}
    /\ UNCHANGED <<grammar, definitions, rules, lines>>

Next ==
    \/ \E label \in TheoremLabels, sorts \in Nominations : Promote(label, sorts)
    \/ \E decl \in Declarations : RegisterDefinition(decl)
    \/ \E rule \in LateRules : AddRule(rule)
    \/ \E formula \in Premises : Premise(formula)
    \/ \E formula \in Axioms : Axiom(formula)
    \/ \E rule \in Citable, goal \in Goals : Infer(rule, goal)
    \/ \E i \in DOMAIN definitions, from \in DOMAIN lines :
         DefinitionalStep(definitions[i], from)

Spec == Init /\ [][Next]_vars
=============================================================================
