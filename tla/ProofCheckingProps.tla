------------------------- MODULE ProofCheckingProps -------------------------
(***************************************************************************)
(* What checking a proof promises: what it accepts follows.  A formula's   *)
(* meaning is the set of the models it holds in, and the axioms and the    *)
(* rules are taken to be sound in those models: what is in question is the *)
(* scoping, the citing and the discharging.                                *)
(***************************************************************************)
EXTENDS ProofChecking

CONSTANTS Models, Extension

Entails(hypotheses, f) ==
    \A m \in Models : (\A h \in hypotheses : m \in Extension[h]) => m \in Extension[f]

ASSUME LanguageAssumption ==
    /\ Variables \cap Formulas = {}
    /\ NoFormula \notin Formulas \cup Variables
    /\ Axioms \subseteq Formulas /\ Hypothesised \subseteq Formulas
    /\ Indents \subseteq Nat
    /\ OrdinaryRules \cap DischargeRules = {}
    /\ {Definition, Theorem, Hole} \cap (OrdinaryRules \cup DischargeRules) = {}
    /\ Definition # Theorem /\ Definition # Hole /\ Theorem # Hole
    /\ \A r \in OrdinaryRules : Arity[r] \in Nat
    /\ \A r \in Rules : Given[r] \subseteq Nat
    /\ \A d \in Definitions : d[1] \in Formulas /\ d[2] \in Formulas

ASSUME AxiomsSound == \A f \in Axioms : Entails({}, f)

ASSUME RulesSound ==
    \A r \in OrdinaryRules : \A i \in Instances[r] :
        /\ i[1] \in [1..Arity[r] -> Formulas] /\ i[2] \in Formulas
        /\ Entails({i[1][k] : k \in 1..Arity[r]}, i[2])

ASSUME DefinitionsSound ==
    \A d \in Definitions : Entails({d[1]}, d[2]) /\ Entails({d[2]}, d[1])

ASSUME DischargesSound ==
    \A r \in DischargeRules : \A d \in Discharges[r] :
        /\ d.conclusion \in Formulas /\ d.deduction \in Formulas
        /\ d.kind = "assumption" =>
              \A hs \in SUBSET Formulas :
                 Entails(hs \cup {d.open}, d.conclusion) => Entails(hs, d.deduction)
        /\ d.kind = "variable" =>
              \A hs \in SUBSET {h \in Formulas : d.open \notin Free[h]} :
                 Entails(hs, d.conclusion) => Entails(hs, d.deduction)

LineType ==
    [kind    : Openers \cup {"statement", "axiom", "comment", "unparsed"},
     formula : Formulas \cup Variables \cup {NoFormula},
     indent  : Nat,
     scope   : SUBSET Nat,
     assumed : BOOLEAN,
     at      : Nat,
     valid   : BOOLEAN]

\* Every line has the fields of one, and subproofs nest: the open ones are
\* indented ever further, which is what lets the stack be kept as a set.
TypeOK ==
    /\ lines \in Seq(LineType)
    /\ numbered \in Seq(1..Len(lines))
    /\ stack \subseteq 1..Len(lines)
    /\ \A i, k \in stack : i < k => lines[i].indent < lines[k].indent
    /\ seeded \subseteq LineType
    /\ theorems \subseteq Formulas
    /\ borrowed \in BOOLEAN
-----------------------------------------------------------------------------
Asserts(line) == line.kind \in {"statement", "assumption", "axiom"}

\* The hypotheses of the subproofs in a scope (Subproof.enclosing_assumptions).
Hypotheses(scope) ==
    {lines[k].formula : k \in {k \in scope : lines[k].kind = "assumption"}}

\* While every line of a proof stands, every line follows from the hypotheses
\* of the subproofs around it and from nothing else: no citation reached into
\* a closed subproof, no hypothesis was dropped but by a discharge, nothing
\* was generalised over a variable a hypothesis still mentions, and no line
\* rests on itself.  Lemma citations are honest when they name lines the
\* lemma proved outright.
LinesFollow ==
    ~borrowed /\ Valid =>
        \A i \in 1..Len(lines) :
            Asserts(lines[i]) => Entails(Hypotheses(lines[i].scope), lines[i].formula)

\* Under the same condition, every theorem promoted to the library holds in
\* every model, as what cites it takes for granted.
TheoremsFollow == ~borrowed => \A f \in theorems : Entails({}, f)

\* What a lemma lends stands on its own: a proof that leans on a lemma never
\* borrows a line the lemma did not establish (_verify_with_references).
LibraryFollows == \A f \in theorems : Entails({}, f)
=============================================================================
