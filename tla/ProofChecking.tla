--------------------------- MODULE ProofChecking ---------------------------
(***************************************************************************)
(* Checking a proof line by line (website/logical/formal_system): each     *)
(* line in source order is numbered, placed in its subproof by its         *)
(* indentation and justified by the rule and the lines it cites.  A proof  *)
(* that stands is seeded as a lemma other proofs cite line by line, and    *)
(* its conclusion becomes a theorem of the library.                        *)
(*                                                                         *)
(* A formula is one of a given set; a rule is the set of its instances,    *)
(* which is what unifying its schemas with some lines decides.             *)
(*                                                                         *)
(* An operator whose name starts with Wrong is a bug the code might have   *)
(* had in place of the operator below it; nothing else uses it.            *)
(***************************************************************************)
EXTENDS Naturals, Sequences, FiniteSets, Functions

CONSTANTS
    Formulas, Variables,  \* what a line states, what a variable line introduces
    Free,                 \* the variables that occur in a formula
    Axioms,               \* what the axiom line types let an author assert
    OrdinaryRules,        \* the rules that cite lines, with for each:
    Arity,                \*   the number of its antecedents
    Instances,            \*   its instances <<antecedents, deduction>>
    TakesExtra,           \*   whether it allows extra antecedents
    DischargeRules,       \* the rules that cite a subproof by its opener, and
    Discharges,           \*   what they match: kind, open, conclusion, deduction
    Definitions,          \* the pairs <<f, g>> where g unfolds f at one place
    Definition, Theorem, Hole,  \* the other things a citation may name
    NoFormula,            \* on a line no formula could be read on
    Indents,              \* the indentations a line may have
    MaxCited,             \* MAX_CITED_ANTECEDENTS
    Given,                \* how many lines authors cite with each rule
    Hypothesised,         \* what authors assume
    MaxLines, MaxFailing, \* bounds: lines of a proof, of the lemma it cites and
    MaxLemma, MaxTheorems \* theorems together, lines of a proof with a failing
                          \* one, lines of a lemma, theorems of the library

VARIABLES
    lines,     \* the proof's lines so far, each with its verdict
    numbered,  \* the positions of the lines a citation can name, in order
    stack,     \* the openers of the subproofs still open
    seeded,    \* the lines of the lemma this proof may cite
    theorems,  \* what has been promoted to the library
    borrowed   \* history: some line was justified by a lemma's line that
               \* stands under a hypothesis of the lemma

vars == <<lines, numbered, stack, seeded, theorems, borrowed>>

Openers == {"assumption", "variable"}
Logical(line) == line.kind \in Openers \cup {"statement"}
-----------------------------------------------------------------------------
(* A line and its place.  A subproof is named by its opener's position, and *)
(* a line's scope is the set of the subproofs that enclose it, so a scope   *)
(* is an ancestor of another when it is a subset of it.  Indentation grows  *)
(* along the stack, so popping while the top is indented at least as far as *)
(* the line leaves those indented less.                                     *)

Here == Len(lines) + 1

Kept(indent) == {k \in stack : lines[k].indent < indent}

ScopeOf(kind, indent) ==
    CASE kind = "comment" -> {}
      [] kind \in Openers -> Kept(indent) \cup {Here}
      [] OTHER -> Kept(indent)

Line(kind, formula, indent) ==
    [kind    |-> kind,
     formula |-> formula,
     indent  |-> IF kind \in Openers THEN indent ELSE 0,
     scope   |-> ScopeOf(kind, indent),
     assumed |-> \/ kind = "assumption"
                 \/ /\ kind # "comment"
                    /\ \E k \in Kept(indent) : lines[k].kind = "assumption",
     at      |-> Here,
     valid   |-> TRUE]

\* The line as another proof sees it.
AsLemma(line) == [line EXCEPT !.at = 0, !.scope = {}, !.indent = 0]
Elsewhere(line) == line.at = 0

\* line_is_accessible: a line of another proof always is.
WrongAccessible(cited, line) == TRUE
Accessible(cited, line) == Elsewhere(cited) \/ cited.scope \subseteq line.scope
Earlier(cited, line) == Elsewhere(cited) \/ cited.at < line.at

(* What a citation may name: a line of this proof by its number - the line  *)
(* being checked already has its own - or a line of the lemma.              *)

Targets == {<<"own", n>> : n \in 1..(Len(numbered) + 2)}
             \cup {<<"lemma", e>> : e \in seeded}

Resolves(target) == target[1] = "own" => target[2] <= Len(numbered) + 1

Resolve(target, line) ==
    IF target[1] = "lemma" THEN target[2]
    ELSE IF target[2] = Len(numbered) + 1 THEN line
    ELSE lines[numbered[target[2]]]
-----------------------------------------------------------------------------
(* Justification by an ordinary rule or a theorem: some assignment of the   *)
(* cited lines to the rule's slots makes an instance of it.                 *)

ArityOf(rule) == IF rule = Theorem THEN 0 ELSE Arity[rule]
InstancesOf(rule) ==
    IF rule = Theorem THEN {<< <<>>, f >> : f \in theorems} ELSE Instances[rule]

Fits(rule, cited, line) ==
    \E i \in InstancesOf(rule) :
        /\ i[2] = line.formula
        /\ \E slots \in Injection(1..ArityOf(rule), DOMAIN cited) :
              /\ \A k \in 1..ArityOf(rule) : cited[slots[k]].formula = i[1][k]
              /\ \/ rule \in TakesExtra
                 \/ \A j \in DOMAIN cited : \E k \in 1..ArityOf(rule) : slots[k] = j

\* justify: the last accessible logical lines above, as many as there are slots.
Above(line) == {i \in 1..Len(lines) : Logical(lines[i]) /\ Accessible(lines[i], line)}
Inferred(rule, line) ==
    {i \in Above(line) : Cardinality({j \in Above(line) : j > i}) < ArityOf(rule)}

ByRule(rule, cited, line) ==
    /\ rule \in OrdinaryRules \cup {Theorem}
    /\ \A k \in DOMAIN cited : Accessible(cited[k], line)
    /\ IF cited = <<>> /\ ArityOf(rule) > 0
       THEN /\ ArityOf(rule) <= MaxCited
            /\ Fits(rule, [i \in Inferred(rule, line) |-> lines[i]], line)
       ELSE /\ Len(cited) <= MaxCited
            /\ \A k \in DOMAIN cited : Earlier(cited[k], line)
            /\ Fits(rule, cited, line)

(* Justification by discharge: the rule cites one subproof, by its opener.  *)

Fresh(opener) ==
    \A k \in opener.scope : lines[k].kind = "assumption" /\ lines[k].formula # NoFormula
        => opener.formula \notin Free[lines[k].formula]

\* The positions directly in a scope that may be its conclusion: the last is.
WrongStated(scope) ==
    {i \in 1..Len(lines) : Logical(lines[i]) /\ lines[i].formula # NoFormula}
Stated(scope) ==
    {i \in 1..Len(lines) : /\ lines[i].scope = scope
                           /\ Logical(lines[i])
                           /\ lines[i].formula # NoFormula}
Concludes(i, scope) == i \in Stated(scope) /\ \A j \in Stated(scope) : j <= i

Completed(opener, line) ==
    /\ ~Elsewhere(opener)
    /\ opener.kind \in Openers
    /\ opener.scope \ {opener.at} \subseteq line.scope
    /\ ~(opener.scope \subseteq line.scope)

ByDischarge(rule, cited, line) ==
    /\ rule \in DischargeRules
    /\ Len(cited) = 1
    /\ Completed(cited[1], line)
    /\ \E i \in 1..Len(lines), d \in Discharges[rule] :
          /\ Concludes(i, cited[1].scope)
          /\ d.kind = cited[1].kind
          /\ d.open = cited[1].formula
          /\ d.conclusion = lines[i].formula
          /\ d.deduction = line.formula
    /\ cited[1].kind = "variable" => Fresh(cited[1])

(* Justification by a definition: it unfolds one of the two lines into the  *)
(* other.                                                                   *)

ByDefinition(rule, cited, line) ==
    /\ rule = Definition
    /\ Len(cited) = 1
    /\ Accessible(cited[1], line)
    /\ Earlier(cited[1], line)
    /\ Logical(cited[1])
    /\ \/ <<line.formula, cited[1].formula>> \in Definitions
       \/ <<cited[1].formula, line.formula>> \in Definitions

Justified(rule, cited, line) ==
    \/ ByRule(rule, cited, line)
    \/ ByDischarge(rule, cited, line)
    \/ ByDefinition(rule, cited, line)
-----------------------------------------------------------------------------
Init ==
    /\ lines = <<>> /\ numbered = <<>> /\ stack = {}
    /\ seeded = {} /\ theorems = {} /\ borrowed = FALSE

Valid == \A i \in 1..Len(lines) : lines[i].valid

\* One step of check_proof's loop, its verdict already decided.
Read(line, valid) ==
    /\ (valid /\ Valid) \/ Here <= MaxFailing
    /\ lines' = Append(lines, [line EXCEPT !.valid = valid])
    /\ IF line.kind = "comment"
       THEN UNCHANGED <<numbered, stack>>
       ELSE /\ numbered' = Append(numbered, Here)
            /\ stack' = line.scope
    /\ UNCHANGED <<seeded, theorems>>

ReadComment == Read(Line("comment", NoFormula, 0), TRUE) /\ UNCHANGED borrowed

ReadUnreadable(kind, indent) ==
    Read(Line(kind, NoFormula, indent), FALSE) /\ UNCHANGED borrowed

ReadAssumption(f, indent) ==
    Read(Line("assumption", f, indent), TRUE) /\ UNCHANGED borrowed

ReadVariable(x, indent) ==
    Read(Line("variable", x, indent), TRUE) /\ UNCHANGED borrowed

ReadAxiom(f, indent) ==
    Read(Line("axiom", f, indent), TRUE) /\ UNCHANGED borrowed

ReadStatement(f, indent, rule, targets) ==
    LET line  == Line("statement", f, indent)
        cited == [k \in DOMAIN targets |-> Resolve(targets[k], line)]
        valid == /\ \A k \in DOMAIN targets : Resolves(targets[k])
                 /\ Justified(rule, cited, line)
    IN  /\ Read(line, valid)
        /\ borrowed' = \/ borrowed
                       \/ valid /\ \E k \in DOMAIN cited :
                                      Elsewhere(cited[k]) /\ cited[k].assumed

\* The next proof, which does or does not cite this one.
Restart == lines' = <<>> /\ numbered' = <<>> /\ stack' = {}

SeedLemma ==
    /\ Valid /\ Len(lines) \in 1..MaxLemma
    /\ Restart
    /\ seeded' = {AsLemma(lines[numbered[n]]) : n \in 1..Len(numbered)}
    /\ UNCHANGED <<theorems, borrowed>>

StartAnother ==
    /\ lines # <<>>
    /\ Restart
    /\ UNCHANGED <<seeded, theorems, borrowed>>

Promote ==
    /\ Valid
    /\ \E i \in 1..Len(lines) :
          /\ Concludes(i, {})
          /\ Cardinality(theorems \cup {lines[i].formula}) <= MaxTheorems
          /\ theorems' = theorems \cup {lines[i].formula}
    /\ UNCHANGED <<lines, numbered, stack, seeded, borrowed>>

Rules == OrdinaryRules \cup DischargeRules \cup {Definition, Theorem, Hole}

\* The bound on the lines read.
Room == Len(lines) + Cardinality(seeded) + Cardinality(theorems) < MaxLines

ReadLine ==
    \/ ReadComment
    \/ \E indent \in Indents :
          \/ \E kind \in Openers \cup {"statement", "axiom", "unparsed"} :
                ReadUnreadable(kind, indent)
          \/ \E f \in Hypothesised : ReadAssumption(f, indent)
          \/ \E x \in Variables : ReadVariable(x, indent)
          \/ \E f \in Axioms : ReadAxiom(f, indent)
          \/ \E f \in Formulas, rule \in Rules : \E n \in Given[rule] :
                \E targets \in [1..n -> Targets] :
                   ReadStatement(f, indent, rule, targets)

Next ==
    \/ Room /\ ReadLine
    \/ SeedLemma
    \/ StartAnother
    \/ Promote

Spec == Init /\ [][Next]_vars
=============================================================================
