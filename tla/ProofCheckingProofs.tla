------------------------ MODULE ProofCheckingProofs ------------------------
(***************************************************************************)
(* Proofs, for any formulas, rules sound in any models, indentations and   *)
(* bounds, that what the checker accepts follows.                          *)
(***************************************************************************)
EXTENDS ProofCheckingProps, TLAPS

\* What a line's kind says of its formula, and of its verdict.
Typed(line) ==
    /\ line.formula # NoFormula => CASE Asserts(line) -> line.formula \in Formulas
                                     [] line.kind = "variable" -> line.formula \in Variables
                                     [] OTHER -> FALSE
    /\ line.valid /\ line.kind \in Openers \cup {"statement", "axiom"}
          => line.formula # NoFormula

\* Where the lines are: an opener is in the scope it opens, and a line not
\* marked as assumed stands under no hypothesis.
Placed ==
    \A i \in 1..Len(lines) :
        /\ lines[i].at = i
        /\ lines[i].scope \subseteq 1..i
        /\ lines[i].kind \in Openers => i \in lines[i].scope
        /\ ~lines[i].assumed => \A k \in lines[i].scope : lines[k].kind # "assumption"
        /\ Typed(lines[i])

\* A lemma's lines that stand under no hypothesis hold in every model.
SeedsFollow ==
    \A e \in seeded :
        /\ e.at = 0 /\ Typed(e)
        /\ ~borrowed /\ Asserts(e) /\ ~e.assumed => Entails({}, e.formula)

IInv == TypeOK /\ Placed /\ SeedsFollow /\ LinesFollow /\ TheoremsFollow
-----------------------------------------------------------------------------
(* Entailment.                                                             *)

LEMMA EntailsWeaker ==
    ASSUME NEW hs, NEW gs, hs \subseteq gs, NEW f, Entails(hs, f)
    PROVE  Entails(gs, f)
BY DEF Entails

LEMMA EntailsCut ==
    ASSUME NEW hs, NEW gs, NEW f, Entails(gs, f), \A g \in gs : Entails(hs, g)
    PROVE  Entails(hs, f)
BY DEF Entails

LEMMA EntailsMember ==
    ASSUME NEW hs, NEW f \in hs PROVE Entails(hs, f)
BY DEF Entails
-----------------------------------------------------------------------------
(* The line being read.                                                    *)

Describes(line, kind, f) ==
    /\ line \in LineType
    /\ line.kind = kind /\ line.formula = f /\ line.valid
    /\ line.at = Len(lines) + 1
    /\ line.scope \subseteq 1..(Len(lines) + 1)
    /\ kind \in Openers => Len(lines) + 1 \in line.scope
    /\ kind \notin Openers => line.scope \subseteq 1..Len(lines)
    /\ ~line.assumed =>
          /\ kind # "assumption"
          /\ \A k \in line.scope : k # Len(lines) + 1 => lines[k].kind # "assumption"

LEMMA LineFacts ==
    ASSUME TypeOK, Placed,
           NEW kind \in Openers \cup {"statement", "axiom", "comment", "unparsed"},
           NEW f \in Formulas \cup Variables \cup {NoFormula},
           NEW indent \in Nat
    PROVE  Describes(Line(kind, f, indent), kind, f)
<1> DEFINE line == Line(kind, f, indent)
<1>1. Len(lines) \in Nat
  BY DEF TypeOK
<1>2. Kept(indent) \subseteq 1..Len(lines)
  BY DEF TypeOK, Kept
<1>3. ScopeOf(kind, indent) \subseteq 1..(Len(lines) + 1)
  BY <1>1, <1>2 DEF ScopeOf, Here
<1>4. line \in LineType
  BY <1>1, <1>3 DEF Line, LineType, Here, Openers
<1>5. kind \in Openers => Len(lines) + 1 \in ScopeOf(kind, indent)
  BY DEF ScopeOf, Here, Openers
<1>6. kind \notin Openers => ScopeOf(kind, indent) \subseteq 1..Len(lines)
  BY <1>2 DEF ScopeOf
<1>7. ~line.assumed =>
         /\ kind # "assumption"
         /\ \A k \in ScopeOf(kind, indent) : k # Len(lines) + 1 =>
               lines[k].kind # "assumption"
  BY DEF Line, ScopeOf, Here, Openers
<1> QED
  BY <1>1, <1>3, <1>4, <1>5, <1>6, <1>7 DEF Line, Here, Describes
-----------------------------------------------------------------------------
(* What a cited line that the new line may use gives it.                   *)

LEMMA CitedFollows ==
    ASSUME IInv, Valid, ~borrowed, NEW line, NEW c,
           (\E i \in 1..Len(lines) : c = lines[i]) \/ (c \in seeded /\ ~c.assumed),
           Accessible(c, line), c.formula \in Formulas
    PROVE  Entails(Hypotheses(line.scope), c.formula)
<1> USE LanguageAssumption
<1>1. CASE \E i \in 1..Len(lines) : c = lines[i]
  <2>1. PICK i \in 1..Len(lines) : c = lines[i]
    BY <1>1
  <2>2. Typed(lines[i]) /\ lines[i].at = i
    BY DEF IInv, Placed
  <2>3. Asserts(lines[i])
    BY <2>1, <2>2 DEF Typed
  <2>4. Entails(Hypotheses(lines[i].scope), lines[i].formula)
    BY <2>3 DEF IInv, LinesFollow
  <2>5. lines[i].scope \subseteq line.scope
    BY <2>1, <2>2 DEF Accessible, Elsewhere
  <2>6. Hypotheses(lines[i].scope) \subseteq Hypotheses(line.scope)
    BY <2>5 DEF Hypotheses
  <2> QED
    BY <2>1, <2>4, <2>6, EntailsWeaker
<1>2. CASE c \in seeded /\ ~c.assumed
  <2>1. Typed(c)
    BY <1>2 DEF IInv, SeedsFollow
  <2>2. Asserts(c)
    BY <2>1 DEF Typed
  <2>3. Entails({}, c.formula)
    BY <1>2, <2>2 DEF IInv, SeedsFollow
  <2> QED
    BY <2>3, EntailsWeaker
<1> QED
  BY <1>1, <1>2

(* An instance of a sound rule whose antecedents such lines state.         *)

LEMMA FitsFollows ==
    ASSUME IInv, Valid, ~borrowed, NEW rule \in OrdinaryRules \cup {Theorem},
           NEW line, NEW cited, Fits(rule, cited, line),
           \A j \in DOMAIN cited :
              /\ Accessible(cited[j], line)
              /\ \/ \E i \in 1..Len(lines) : cited[j] = lines[i]
                 \/ cited[j] \in seeded /\ ~cited[j].assumed
    PROVE  Entails(Hypotheses(line.scope), line.formula)
<1> USE LanguageAssumption
<1> PICK i \in InstancesOf(rule), slots \in Injection(1..ArityOf(rule), DOMAIN cited) :
       /\ i[2] = line.formula
       /\ \A k \in 1..ArityOf(rule) : cited[slots[k]].formula = i[1][k]
  BY DEF Fits
<1>1. CASE rule = Theorem
  <2>1. line.formula \in theorems
    BY <1>1 DEF InstancesOf
  <2>2. Entails({}, line.formula)
    BY <2>1 DEF IInv, TheoremsFollow
  <2> QED
    BY <2>2, EntailsWeaker
<1>2. CASE rule # Theorem
  <2>1. rule \in OrdinaryRules /\ i \in Instances[rule] /\ ArityOf(rule) = Arity[rule]
    BY <1>2 DEF InstancesOf, ArityOf
  <2>2. /\ i[1] \in [1..Arity[rule] -> Formulas]
        /\ Entails({i[1][k] : k \in 1..Arity[rule]}, i[2])
    BY <2>1, RulesSound
  <2>3. slots \in [1..Arity[rule] -> DOMAIN cited]
    BY <2>1 DEF Injection
  <2>4. \A k \in 1..Arity[rule] : Entails(Hypotheses(line.scope), i[1][k])
    <3> TAKE k \in 1..Arity[rule]
    <3> DEFINE c == cited[slots[k]]
    <3>1. slots[k] \in DOMAIN cited
      BY <2>3
    <3>2. c.formula = i[1][k] /\ c.formula \in Formulas
      BY <2>1, <2>2
    <3>3. /\ Accessible(c, line)
          /\ (\E m \in 1..Len(lines) : c = lines[m]) \/ (c \in seeded /\ ~c.assumed)
      BY <3>1
    <3>4. Entails(Hypotheses(line.scope), c.formula)
      <4> HIDE DEF c
      <4> QED BY <3>2, <3>3, CitedFollows
    <3> QED
      BY <3>2, <3>4
  <2>5. \A g \in {i[1][k] : k \in 1..Arity[rule]} : Entails(Hypotheses(line.scope), g)
    BY <2>4
  <2>6. Entails(Hypotheses(line.scope), i[2])
    BY <2>2, <2>5, EntailsCut
  <2> QED
    BY <2>6
<1> QED
  BY <1>1, <1>2
-----------------------------------------------------------------------------
(* A discharge: what the subproof concludes follows from its hypotheses,   *)
(* all but its own of which stand around the line.                         *)

LEMMA DischargeFollows ==
    ASSUME IInv, Valid, ~borrowed, NEW rule, NEW line, NEW cited,
           line.kind = "statement",
           cited[1] = line \/ (\E i \in 1..Len(lines) : cited[1] = lines[i])
             \/ cited[1] \in seeded,
           ByDischarge(rule, cited, line)
    PROVE  Entails(Hypotheses(line.scope), line.formula)
<1> USE LanguageAssumption
<1> DEFINE opener == cited[1]
<1>1. rule \in DischargeRules /\ Completed(opener, line)
  BY DEF ByDischarge
<1>2. PICK o \in 1..Len(lines) : opener = lines[o]
  <2>1. opener \notin seeded
    BY <1>1 DEF Completed, Elsewhere, IInv, SeedsFollow
  <2>2. opener # line
    BY <1>1 DEF Completed, Openers
  <2> QED
    BY <2>1, <2>2
<1>3. PICK i \in 1..Len(lines), d \in Discharges[rule] :
         /\ Concludes(i, opener.scope)
         /\ d.kind = opener.kind
         /\ d.open = opener.formula
         /\ d.conclusion = lines[i].formula
         /\ d.deduction = line.formula
  BY DEF ByDischarge
<1>4. lines[o].at = o /\ lines[o].valid /\ Typed(lines[o]) /\ o \in Nat
  BY DEF IInv, Placed, Valid
<1>5. d.conclusion \in Formulas
  BY <1>1, DischargesSound
<1>6. Entails(Hypotheses(lines[o].scope), d.conclusion)
  <2>1. lines[i].scope = lines[o].scope
    BY <1>2, <1>3 DEF Concludes, Stated
  <2>2. Asserts(lines[i])
    <3>1. Typed(lines[i])
      BY DEF IInv, Placed
    <3> QED
      BY <1>3, <1>5, <3>1 DEF Typed
  <2>3. Entails(Hypotheses(lines[i].scope), lines[i].formula)
    BY <2>2 DEF IInv, LinesFollow
  <2> QED
    BY <1>3, <2>1, <2>3
<1>7. \A k \in lines[o].scope : k \in 1..Len(lines)
  BY DEF IInv, Placed, TypeOK
<1>8. \A k \in lines[o].scope : lines[k].kind = "assumption" =>
         lines[k].formula \in Formulas /\ lines[k].formula # NoFormula
  BY <1>7 DEF IInv, Placed, Valid, Typed, Asserts, Openers
<1>9. lines[o].scope \ {o} \subseteq line.scope
  BY <1>1, <1>2, <1>4 DEF Completed
<1> DEFINE outer == Hypotheses(lines[o].scope \ {o})
<1>10. outer \subseteq Hypotheses(line.scope)
  BY <1>9 DEF Hypotheses
<1>11. Entails(outer, d.deduction)
  <2>1. CASE lines[o].kind = "assumption"
    <3>1. Hypotheses(lines[o].scope) \subseteq outer \cup {d.open}
      BY <1>2, <1>3 DEF Hypotheses
    <3>2. Entails(outer \cup {d.open}, d.conclusion)
      BY <1>6, <3>1 DEF Entails
    <3>3. outer \in SUBSET Formulas
      BY <1>8 DEF Hypotheses
    <3>4. d.kind = "assumption"
      BY <1>2, <1>3, <2>1
    <3> QED
      BY <1>1, <3>2, <3>3, <3>4, DischargesSound
  <2>2. CASE lines[o].kind = "variable"
    <3>1. Hypotheses(lines[o].scope) \subseteq outer
      BY <2>2 DEF Hypotheses
    <3>2. Entails(outer, d.conclusion)
      BY <1>6, <3>1 DEF Entails
    <3>3. Fresh(lines[o])
      BY <1>2, <2>2 DEF ByDischarge
    <3>4. outer \in SUBSET {h \in Formulas : d.open \notin Free[h]}
      BY <1>2, <1>3, <1>8, <3>3 DEF Hypotheses, Fresh
    <3>5. d.kind = "variable"
      BY <1>2, <1>3, <2>2
    <3> QED
      BY <1>1, <3>2, <3>4, <3>5, DischargesSound
  <2>3. lines[o].kind \in Openers
    BY <1>1, <1>2 DEF Completed
  <2> QED
    BY <2>1, <2>2, <2>3 DEF Openers
<1> QED
  BY <1>3, <1>10, <1>11, EntailsWeaker

\* A line does not come before itself.
LEMMA NotItself ==
    ASSUME TypeOK, NEW line, line.at = Len(lines) + 1 PROVE ~Earlier(line, line)
<1>1. Len(lines) \in Nat
  BY DEF TypeOK
<1> QED
  BY <1>1 DEF Earlier, Elsewhere

(* A definitional step from such a line.                                   *)

LEMMA DefinitionFollows ==
    ASSUME IInv, Valid, ~borrowed, NEW rule, NEW line, NEW cited,
           line.at = Len(lines) + 1,
           cited[1] = line \/ (\E i \in 1..Len(lines) : cited[1] = lines[i])
             \/ (cited[1] \in seeded /\ ~cited[1].assumed),
           ByDefinition(rule, cited, line)
    PROVE  Entails(Hypotheses(line.scope), line.formula)
<1> DEFINE c == cited[1]
<1>1. PICK d \in Definitions : \/ d = <<line.formula, c.formula>>
                              \/ d = <<c.formula, line.formula>>
  BY DEF ByDefinition
<1>2. c.formula \in Formulas
  BY <1>1, LanguageAssumption
<1>3. Entails({c.formula}, line.formula)
  <2>1. Entails({d[1]}, d[2]) /\ Entails({d[2]}, d[1])
    BY DefinitionsSound
  <2>2. CASE d = <<line.formula, c.formula>>
    <3>1. d[1] = line.formula /\ d[2] = c.formula
      BY <2>2
    <3> QED
      BY <2>1, <3>1, Zenon
  <2>3. CASE d = <<c.formula, line.formula>>
    <3>1. d[1] = c.formula /\ d[2] = line.formula
      BY <2>3
    <3> QED
      BY <2>1, <3>1, Zenon
  <2> QED
    BY <1>1, <2>2, <2>3
<1>4. Accessible(c, line)
  BY DEF ByDefinition
<1>5. Entails(Hypotheses(line.scope), c.formula)
  <2>1. (\E i \in 1..Len(lines) : c = lines[i]) \/ (c \in seeded /\ ~c.assumed)
    BY NotItself DEF ByDefinition, IInv
  <2> HIDE DEF c
  <2> QED
    BY <1>2, <1>4, <2>1, CitedFollows
<1>6. \A g \in {c.formula} : Entails(Hypotheses(line.scope), g)
  BY <1>5
<1> QED
  BY <1>3, <1>6, EntailsCut
-----------------------------------------------------------------------------
(* A line that states a formula and the checker accepts.                   *)

LEMMA ResolveFacts ==
    ASSUME TypeOK, NEW line, NEW t \in Targets, Resolves(t)
    PROVE  \/ Resolve(t, line) = line
           \/ \E i \in 1..Len(lines) : Resolve(t, line) = lines[i]
           \/ Resolve(t, line) \in seeded
<1>1. CASE \E e \in seeded : t = <<"lemma", e>>
  BY <1>1 DEF Resolve
<1>2. CASE \E n \in 1..(Len(numbered) + 2) : t = <<"own", n>>
  <2>1. PICK n \in 1..(Len(numbered) + 2) : t = <<"own", n>>
    BY <1>2
  <2>2. t[1] = "own" /\ t[2] = n
    BY <2>1
  <2>3. n <= Len(numbered) + 1
    BY <2>2 DEF Resolves
  <2>4. CASE n = Len(numbered) + 1
    BY <2>2, <2>4 DEF Resolve
  <2>5. CASE n # Len(numbered) + 1
    <3>1. n \in 1..Len(numbered)
      BY <2>3, <2>5 DEF TypeOK
    <3>2. numbered[n] \in 1..Len(lines)
      BY <3>1 DEF TypeOK
    <3> QED
      BY <2>2, <2>5, <3>2 DEF Resolve
  <2> QED
    BY <2>4, <2>5
<1> QED
  BY <1>1, <1>2 DEF Targets

LEMMA StatementFollows ==
    ASSUME IInv, Valid, ~borrowed,
           NEW line, line.kind = "statement", line.at = Len(lines) + 1,
           NEW rule, NEW n \in Nat, NEW cited, cited = [k \in 1..n |-> cited[k]],
           \A k \in 1..n : \/ cited[k] = line
                           \/ \E i \in 1..Len(lines) : cited[k] = lines[i]
                           \/ cited[k] \in seeded,
           \A k \in 1..n : ~(Elsewhere(cited[k]) /\ cited[k].assumed),
           Justified(rule, cited, line)
    PROVE  Entails(Hypotheses(line.scope), line.formula)
<1>1. \A e \in seeded : Elsewhere(e)
  BY DEF IInv, SeedsFollow, Elsewhere
<1>2. \A k \in 1..n : \/ cited[k] = line
                      \/ \E i \in 1..Len(lines) : cited[k] = lines[i]
                      \/ cited[k] \in seeded /\ ~cited[k].assumed
  BY <1>1
<1>3. DOMAIN cited = 1..n
  OBVIOUS
<1>4. Len(cited) = 1 => n = 1
  <2>1. cited \in Seq({cited[k] : k \in 1..n})
    BY <1>3
  <2> QED
    BY <1>3, <2>1
<1>5. CASE ByRule(rule, cited, line)
  <2>1. rule \in OrdinaryRules \cup {Theorem}
    BY <1>5 DEF ByRule
  <2>2. CASE cited = <<>> /\ ArityOf(rule) > 0
    <3> DEFINE above == [i \in Inferred(rule, line) |-> lines[i]]
    <3>1. Fits(rule, above, line)
      BY <1>5, <2>2 DEF ByRule
    <3>2. \A j \in DOMAIN above :
             /\ Accessible(above[j], line)
             /\ \E i \in 1..Len(lines) : above[j] = lines[i]
      BY DEF Inferred, Above
    <3> HIDE DEF above
    <3> QED
      BY <2>1, <3>1, <3>2, FitsFollows
  <2>3. CASE ~(cited = <<>> /\ ArityOf(rule) > 0)
    <3>1. Fits(rule, cited, line)
      BY <1>5, <2>3 DEF ByRule
    <3>2. \A j \in 1..n : Accessible(cited[j], line) /\ Earlier(cited[j], line)
      BY <1>3, <1>5, <2>3 DEF ByRule
    <3>3. \A j \in 1..n : cited[j] # line
      <4>1. ~Earlier(line, line)
        BY NotItself DEF IInv
      <4> QED
        BY <3>2, <4>1
    <3> QED
      BY <1>2, <1>3, <2>1, <3>1, <3>2, <3>3, FitsFollows
  <2> QED
    BY <2>2, <2>3
<1>6. CASE ByDischarge(rule, cited, line)
  <2>1. 1 \in 1..n
    BY <1>4, <1>6 DEF ByDischarge
  <2> QED
    BY <1>2, <1>6, <2>1, DischargeFollows
<1>7. CASE ByDefinition(rule, cited, line)
  <2>1. 1 \in 1..n
    BY <1>4, <1>7 DEF ByDefinition
  <2> QED
    BY <1>2, <1>7, <2>1, DefinitionFollows
<1> QED
  BY <1>5, <1>6, <1>7 DEF Justified
-----------------------------------------------------------------------------
(* Reading one line, whatever its kind.                                    *)

LEMMA ReadTypeOK ==
    ASSUME TypeOK, Placed,
           NEW kind \in Openers \cup {"statement", "axiom", "comment", "unparsed"},
           NEW f \in Formulas \cup Variables \cup {NoFormula},
           NEW indent \in Nat, NEW valid \in BOOLEAN,
           Read(Line(kind, f, indent), valid), borrowed' \in BOOLEAN
    PROVE  TypeOK'
<1> DEFINE line == Line(kind, f, indent)
           kept == [line EXCEPT !.valid = valid]
<1>1. Len(lines) \in Nat /\ lines \in Seq(LineType)
  BY DEF TypeOK
<1>2. line \in LineType /\ line.kind = kind /\ line.scope \subseteq 1..(Len(lines) + 1)
  BY LineFacts DEF Describes
<1>3. kept \in LineType
  BY <1>2 DEF LineType
<1>4. lines' = Append(lines, kept)
  BY DEF Read
<1>5. /\ lines' \in Seq(LineType) /\ Len(lines') = Len(lines) + 1
      /\ \A i \in 1..Len(lines) : lines'[i] = lines[i]
      /\ lines'[Len(lines) + 1] = kept
  <2> HIDE DEF kept
  <2> QED BY <1>1, <1>3, <1>4
<1>6. numbered' \in Seq(1..Len(lines'))
  <2>1. numbered \in Seq(1..Len(lines'))
    BY <1>1, <1>5 DEF TypeOK
  <2>2. Here \in 1..Len(lines')
    BY <1>1, <1>5 DEF Here
  <2> QED
    BY <2>1, <2>2, SMTT(30) DEF Read
<1>7. stack' \subseteq 1..Len(lines')
  BY <1>1, <1>2, <1>5 DEF Read, TypeOK
<1>8. \A i, k \in stack' : i < k => lines'[i].indent < lines'[k].indent
  <2>1. CASE kind = "comment"
    <3>1. stack' = stack
      BY <1>2, <2>1 DEF Read
    <3> QED
      BY <1>1, <1>5, <3>1 DEF TypeOK
  <2>2. CASE kind # "comment"
    <3>1. stack' = ScopeOf(kind, indent)
      BY <1>2, <2>2 DEF Read, Line
    <3>2. Kept(indent) \subseteq stack /\ Kept(indent) \subseteq 1..Len(lines)
      BY DEF Kept, TypeOK
    <3>3. \A i \in Kept(indent) : lines[i].indent < indent
      BY DEF Kept
    <3>4. \A i, k \in Kept(indent) : i < k => lines'[i].indent < lines'[k].indent
      BY <1>5, <3>2 DEF TypeOK
    <3>5. CASE kind \in Openers
      <4>1. stack' = Kept(indent) \cup {Len(lines) + 1}
        BY <2>2, <3>1, <3>5 DEF ScopeOf, Here
      <4>2. lines'[Len(lines) + 1].indent = indent
        BY <1>5, <3>5 DEF Line
      <4> TAKE i, k \in stack'
      <4>3. HAVE i < k
      <4>4. i \in Kept(indent) /\ i \in 1..Len(lines)
        BY <1>1, <3>2, <4>1, <4>3
      <4>5. CASE k \in Kept(indent)
        BY <3>4, <4>3, <4>4, <4>5
      <4>6. CASE k = Len(lines) + 1
        <5>1. lines'[i].indent = lines[i].indent
          BY <1>5, <4>4
        <5> QED
          BY <3>3, <4>2, <4>4, <4>6, <5>1
      <4> QED
        BY <4>1, <4>5, <4>6
    <3>6. CASE kind \notin Openers
      BY <2>2, <3>1, <3>4, <3>6 DEF ScopeOf
    <3> QED
      BY <3>5, <3>6
  <2> QED
    BY <2>1, <2>2
<1>9. seeded' = seeded /\ theorems' = theorems
  BY DEF Read
<1> HIDE DEF line, kept
<1> QED
  BY <1>5, <1>6, <1>7, <1>8, <1>9 DEF TypeOK

LEMMA ReadFollows ==
    ASSUME IInv,
           NEW kind \in Openers \cup {"statement", "axiom", "comment", "unparsed"},
           NEW f \in Formulas \cup Variables \cup {NoFormula},
           NEW indent \in Nat, NEW valid \in BOOLEAN,
           Read(Line(kind, f, indent), valid),
           borrowed' \in BOOLEAN, borrowed => borrowed',
           Typed([Line(kind, f, indent) EXCEPT !.valid = valid]),
           Valid /\ valid /\ ~borrowed' /\ kind \in {"statement", "axiom"}
              => Entails(Hypotheses(Line(kind, f, indent).scope), f)
    PROVE  IInv'
<1> DEFINE line == Line(kind, f, indent)
           kept == [line EXCEPT !.valid = valid]
           here == Len(lines) + 1
           After(scope) == {lines'[k].formula : k \in {k \in scope : lines'[k].kind = "assumption"}}
<1>1. Len(lines) \in Nat /\ lines \in Seq(LineType)
  BY DEF IInv, TypeOK
<1>0. Describes(line, kind, f)
  BY LineFacts DEF IInv
<1>4. lines' = Append(lines, kept) /\ seeded' = seeded /\ theorems' = theorems
  BY DEF Read
<1>6. TypeOK'
  BY ReadTypeOK DEF IInv
<1>7. Typed(kept)
  OBVIOUS
<1> HIDE DEF line
<1>2. /\ line \in LineType
      /\ line.kind = kind /\ line.formula = f
      /\ line.at = here
      /\ line.scope \subseteq 1..here
      /\ kind \in Openers => here \in line.scope
      /\ kind \notin Openers => line.scope \subseteq 1..Len(lines)
      /\ ~line.assumed =>
            /\ kind # "assumption"
            /\ \A k \in line.scope : k # here => lines[k].kind # "assumption"
  BY <1>0 DEF Describes
<1>3. /\ kept \in LineType
      /\ kept.kind = kind /\ kept.formula = f /\ kept.at = here
      /\ kept.scope = line.scope /\ kept.assumed = line.assumed /\ kept.valid = valid
  BY <1>2 DEF LineType
<1>5. /\ Len(lines') = here
      /\ \A i \in 1..Len(lines) : lines'[i] = lines[i]
      /\ lines'[here] = kept
  <2> HIDE DEF kept
  <2> QED BY <1>1, <1>3, <1>4
<1> HIDE DEF kept
<1>8. Placed'
  <2> SUFFICES ASSUME NEW i \in 1..here
               PROVE  /\ lines'[i].at = i
                      /\ lines'[i].scope \subseteq 1..i
                      /\ lines'[i].kind \in Openers => i \in lines'[i].scope
                      /\ ~lines'[i].assumed =>
                            \A k \in lines'[i].scope : lines'[k].kind # "assumption"
                      /\ Typed(lines'[i])
    BY <1>5 DEF Placed, Typed, Asserts
  <2>1. CASE i = here
    <3>1. ~kept.assumed => \A k \in kept.scope : lines'[k].kind # "assumption"
      BY <1>1, <1>2, <1>3, <1>5
    <3> QED
      BY <1>1, <1>2, <1>3, <1>5, <1>7, <2>1, <3>1
  <2>2. CASE i \in 1..Len(lines)
    <3>1. /\ lines[i].at = i
          /\ lines[i].scope \subseteq 1..i
          /\ lines[i].kind \in Openers => i \in lines[i].scope
          /\ ~lines[i].assumed =>
                \A k \in lines[i].scope : lines[k].kind # "assumption"
          /\ Typed(lines[i])
      BY <2>2 DEF IInv, Placed
    <3>2. \A k \in lines[i].scope : lines'[k] = lines[k]
      BY <1>1, <1>5, <2>2, <3>1
    <3> QED
      BY <1>5, <2>2, <3>1, <3>2
  <2> QED
    BY <1>1, <2>1, <2>2
<1>9. SeedsFollow'
  BY <1>4 DEF IInv, SeedsFollow, Typed, Asserts, Entails
<1>10. TheoremsFollow'
  BY <1>4 DEF IInv, TheoremsFollow, Entails
<1>11. LinesFollow'
  <2> SUFFICES ASSUME ~borrowed', Valid', NEW i \in 1..here, Asserts(lines'[i])
               PROVE  Entails(After(lines'[i].scope), lines'[i].formula)
    BY <1>5 DEF LinesFollow, Asserts, Hypotheses
  <2> HIDE DEF here
  <2>1. Valid /\ valid /\ ~borrowed
    <3>1. \A j \in 1..Len(lines) : lines[j].valid
      BY <1>1, <1>5 DEF Valid, here
    <3>2. kept.valid
      BY <1>1, <1>5 DEF Valid, here
    <3> QED
      BY <1>3, <3>1, <3>2 DEF Valid
  <2>2. CASE i \in 1..Len(lines)
    <3>1. Entails(Hypotheses(lines[i].scope), lines[i].formula)
      BY <1>5, <2>1, <2>2 DEF IInv, LinesFollow
    <3>2. lines[i].scope \subseteq 1..Len(lines)
      BY <1>1, <2>2 DEF IInv, Placed
    <3>3. Hypotheses(lines[i].scope) \subseteq After(lines'[i].scope)
      BY <1>5, <2>2, <3>2 DEF Hypotheses
    <3> QED
      BY <1>5, <2>2, <3>1, <3>3 DEF Entails
  <2>3. CASE i = here
    <3>1. kind \in {"statement", "assumption", "axiom"}
      BY <1>3, <1>5, <2>3 DEF Asserts
    <3>2. CASE kind = "assumption"
      <4>1. here \in lines'[here].scope /\ lines'[here].kind = "assumption"
        BY <1>2, <1>3, <1>5, <3>2 DEF Openers
      <4>2. lines'[here].formula \in After(lines'[here].scope)
        BY <4>1
      <4> QED
        BY <2>3, <4>2, EntailsMember
    <3>3. CASE kind # "assumption"
      <4>1. Entails(Hypotheses(line.scope), f)
        BY <2>1, <3>1, <3>3 DEF line
      <4>2. line.scope \subseteq 1..Len(lines)
        BY <1>2, <3>1, <3>3 DEF Openers
      <4>3. Hypotheses(line.scope) \subseteq After(lines'[here].scope)
        BY <1>3, <1>5, <4>2 DEF Hypotheses
      <4> QED
        BY <1>3, <1>5, <2>3, <4>1, <4>3 DEF Entails
    <3> QED
      BY <3>2, <3>3
  <2> QED
    BY <1>1, <2>2, <2>3 DEF here
<1> QED
  BY <1>6, <1>8, <1>9, <1>10, <1>11 DEF IInv
-----------------------------------------------------------------------------
(* The actions, one by one.                                                *)

LEMMA InitIInv == Init => IInv
<1> SUFFICES ASSUME Init PROVE IInv
  OBVIOUS
<1>1. lines = <<>> /\ Len(lines) = 0 /\ seeded = {} /\ theorems = {} /\ stack = {}
  BY DEF Init
<1>2. TypeOK
  <2>1. lines \in Seq(LineType)
    BY <1>1
  <2>2. numbered = <<>> /\ borrowed = FALSE
    BY DEF Init
  <2>3. numbered \in Seq(1..Len(lines))
    BY <2>2
  <2> QED
    BY <1>1, <2>1, <2>2, <2>3 DEF TypeOK
<1>3. Placed /\ LinesFollow
  BY <1>1 DEF Placed, LinesFollow
<1>4. SeedsFollow /\ TheoremsFollow
  BY <1>1 DEF SeedsFollow, TheoremsFollow
<1> QED
  BY <1>2, <1>3, <1>4 DEF IInv

LEMMA StatementIInv ==
    ASSUME IInv, NEW f \in Formulas, NEW indent \in Indents, NEW rule,
           NEW n \in Nat, NEW targets \in [1..n -> Targets],
           ReadStatement(f, indent, rule, targets)
    PROVE  IInv'
<1> DEFINE line == Line("statement", f, indent)
           cited == [k \in DOMAIN targets |-> Resolve(targets[k], line)]
           valid == /\ \A k \in DOMAIN targets : Resolves(targets[k])
                    /\ Justified(rule, cited, line)
           lent == valid /\ \E k \in DOMAIN cited : Elsewhere(cited[k]) /\ cited[k].assumed
<1>1. /\ Read(line, valid)
      /\ borrowed' = (borrowed \/ lent)
  BY DEF ReadStatement
<1>2. Describes(line, "statement", f)
  BY LineFacts, LanguageAssumption DEF IInv
<1>3. valid \in BOOLEAN /\ lent \in BOOLEAN
  OBVIOUS
<1>4. borrowed' \in BOOLEAN /\ (borrowed => borrowed')
  BY <1>1, <1>3 DEF IInv, TypeOK
<1>5. Typed([line EXCEPT !.valid = valid])
  BY <1>2, LanguageAssumption DEF Describes, Typed, LineType, Asserts
<1>6. Valid /\ valid /\ ~borrowed' => Entails(Hypotheses(line.scope), f)
  <2> SUFFICES ASSUME Valid, valid, ~borrowed'
               PROVE  Entails(Hypotheses(line.scope), f)
    OBVIOUS
  <2>1. ~borrowed /\ ~lent
    BY <1>1
  <2>2. Justified(rule, cited, line) /\ \A k \in 1..n : Resolves(targets[k])
    OBVIOUS
  <2>3. line.kind = "statement" /\ line.at = Len(lines) + 1 /\ line.formula = f
    BY <1>2 DEF Describes
  <2> HIDE DEF line
  <2>4. \A k \in 1..n : \/ cited[k] = line
                        \/ \E i \in 1..Len(lines) : cited[k] = lines[i]
                        \/ cited[k] \in seeded
    BY <2>2, ResolveFacts DEF IInv
  <2>5. cited = [k \in 1..n |-> cited[k]]
    OBVIOUS
  <2>6. \A k \in 1..n : ~(Elsewhere(cited[k]) /\ cited[k].assumed)
    BY <2>1, <2>2
  <2> HIDE DEF cited, valid, lent
  <2>7. Entails(Hypotheses(line.scope), line.formula)
    BY <2>1, <2>2, <2>3, <2>4, <2>5, <2>6, StatementFollows
  <2> QED
    BY <2>3, <2>7
<1> HIDE DEF valid
<1> QED
  BY <1>1, <1>3, <1>4, <1>5, <1>6, ReadFollows, LanguageAssumption DEF Openers

LEMMA ReadLineIInv == IInv /\ ReadLine => IInv'
<1> SUFFICES ASSUME IInv, ReadLine PROVE IInv'
  OBVIOUS
<1> USE LanguageAssumption
<1>1. IInv => TypeOK /\ Placed
  BY DEF IInv
<1>2. CASE ReadComment
  <2>1. Describes(Line("comment", NoFormula, 0), "comment", NoFormula)
    BY <1>1, LineFacts
  <2>2. Typed([Line("comment", NoFormula, 0) EXCEPT !.valid = TRUE])
    BY <2>1 DEF Describes, Typed, LineType, Openers
  <2> QED
    BY <1>2, <2>2, ReadFollows DEF ReadComment, IInv, TypeOK
<1>3. ASSUME NEW indent \in Indents,
             NEW kind \in Openers \cup {"statement", "axiom", "unparsed"},
             ReadUnreadable(kind, indent)
      PROVE  IInv'
  <2>1. Describes(Line(kind, NoFormula, indent), kind, NoFormula)
    BY <1>1, LineFacts
  <2>2. Typed([Line(kind, NoFormula, indent) EXCEPT !.valid = FALSE])
    BY <2>1 DEF Describes, Typed, LineType
  <2> QED
    BY <1>3, <2>2, ReadFollows DEF ReadUnreadable, IInv, TypeOK
<1>4. ASSUME NEW indent \in Indents, NEW f \in Hypothesised, ReadAssumption(f, indent)
      PROVE  IInv'
  <2>1. Describes(Line("assumption", f, indent), "assumption", f)
    BY <1>1, LineFacts DEF Openers
  <2>2. Typed([Line("assumption", f, indent) EXCEPT !.valid = TRUE])
    BY <2>1 DEF Describes, Typed, LineType, Asserts
  <2> QED
    BY <1>4, <2>2, ReadFollows DEF ReadAssumption, IInv, TypeOK, Openers
<1>5. ASSUME NEW indent \in Indents, NEW x \in Variables, ReadVariable(x, indent)
      PROVE  IInv'
  <2>1. Describes(Line("variable", x, indent), "variable", x)
    BY <1>1, LineFacts DEF Openers
  <2>2. Typed([Line("variable", x, indent) EXCEPT !.valid = TRUE])
    BY <2>1 DEF Describes, Typed, LineType, Asserts
  <2> QED
    BY <1>5, <2>2, ReadFollows DEF ReadVariable, IInv, TypeOK, Openers
<1>6. ASSUME NEW indent \in Indents, NEW f \in Axioms, ReadAxiom(f, indent)
      PROVE  IInv'
  <2>1. Describes(Line("axiom", f, indent), "axiom", f)
    BY <1>1, LineFacts
  <2>2. Typed([Line("axiom", f, indent) EXCEPT !.valid = TRUE])
    BY <2>1 DEF Describes, Typed, LineType, Asserts
  <2>3. Entails(Hypotheses(Line("axiom", f, indent).scope), f)
    BY AxiomsSound, EntailsWeaker
  <2> QED
    BY <1>6, <2>2, <2>3, ReadFollows DEF ReadAxiom, IInv, TypeOK
<1>7. ASSUME NEW indent \in Indents, NEW f \in Formulas, NEW rule \in Rules,
             NEW n \in Given[rule], NEW targets \in [1..n -> Targets],
             ReadStatement(f, indent, rule, targets)
      PROVE  IInv'
  <2>1. n \in Nat
    OBVIOUS
  <2> QED
    BY <1>7, <2>1, StatementIInv
<1> QED
  BY <1>2, <1>3, <1>4, <1>5, <1>6, <1>7 DEF ReadLine

\* A proof with no lines yet, whatever it may cite.
LEMMA RestartIInv ==
    ASSUME IInv, Restart, TypeOK', SeedsFollow', TheoremsFollow' PROVE IInv'
<1>1. lines' = <<>> /\ Len(lines') = 0
  BY DEF Restart
<1>2. Placed' /\ LinesFollow'
  BY <1>1 DEF Placed, LinesFollow
<1> QED
  BY <1>2 DEF IInv

LEMMA StartAnotherIInv == IInv /\ StartAnother => IInv'
<1> SUFFICES ASSUME IInv, StartAnother PROVE IInv'
  OBVIOUS
<1>1. /\ Restart /\ seeded' = seeded /\ theorems' = theorems /\ borrowed' = borrowed
  BY DEF StartAnother
<1>2. TypeOK'
  BY <1>1 DEF IInv, TypeOK, Restart
<1>3. SeedsFollow' /\ TheoremsFollow'
  BY <1>1 DEF IInv, SeedsFollow, TheoremsFollow, Typed, Asserts, Entails
<1> QED
  BY <1>1, <1>2, <1>3, RestartIInv

LEMMA SeedLemmaIInv == IInv /\ SeedLemma => IInv'
<1> SUFFICES ASSUME IInv, SeedLemma PROVE IInv'
  OBVIOUS
<1>1. /\ Valid /\ Restart /\ theorems' = theorems /\ borrowed' = borrowed
      /\ seeded' = {AsLemma(lines[numbered[n]]) : n \in 1..Len(numbered)}
  BY DEF SeedLemma
<1>2. \A e \in seeded' : \E i \in 1..Len(lines) : e = AsLemma(lines[i])
  <2>1. \A n \in 1..Len(numbered) : numbered[n] \in 1..Len(lines)
    BY DEF IInv, TypeOK
  <2> QED
    BY <1>1, <2>1
<1>3. \A i \in 1..Len(lines) :
         LET e == AsLemma(lines[i])
         IN  /\ e \in LineType /\ e.at = 0
             /\ e.kind = lines[i].kind /\ e.formula = lines[i].formula
             /\ e.assumed = lines[i].assumed /\ e.valid = lines[i].valid
  <2> TAKE i \in 1..Len(lines)
  <2>1. lines[i] \in LineType
    BY DEF IInv, TypeOK
  <2> QED
    BY <2>1 DEF AsLemma, LineType
<1>4. TypeOK'
  <2>1. seeded' \subseteq LineType
    BY <1>2, <1>3
  <2> QED
    BY <1>1, <2>1 DEF IInv, TypeOK, Restart
<1>5. SeedsFollow'
  <2> SUFFICES ASSUME NEW e \in seeded'
               PROVE  /\ e.at = 0 /\ Typed(e)
                      /\ ~borrowed /\ Asserts(e) /\ ~e.assumed => Entails({}, e.formula)
    BY <1>1 DEF SeedsFollow, Typed, Asserts, Entails
  <2>1. PICK i \in 1..Len(lines) : e = AsLemma(lines[i])
    BY <1>2
  <2>2. /\ e.at = 0
        /\ e.kind = lines[i].kind /\ e.formula = lines[i].formula
        /\ e.assumed = lines[i].assumed /\ e.valid = lines[i].valid
    BY <1>3, <2>1
  <2>3. Typed(e)
    BY <2>2 DEF IInv, Placed, Typed, Asserts
  <2>4. ASSUME ~borrowed, Asserts(e), ~e.assumed PROVE Entails({}, e.formula)
    <3>1. Entails(Hypotheses(lines[i].scope), lines[i].formula)
      BY <1>1, <2>2, <2>4 DEF IInv, LinesFollow, Asserts
    <3>2. \A k \in lines[i].scope : lines[k].kind # "assumption"
      BY <2>2, <2>4 DEF IInv, Placed
    <3>3. Hypotheses(lines[i].scope) = {}
      BY <3>2 DEF Hypotheses
    <3> QED
      BY <2>2, <3>1, <3>3
  <2> QED
    BY <2>2, <2>3, <2>4
<1>6. TheoremsFollow'
  BY <1>1 DEF IInv, TheoremsFollow, Entails
<1> QED
  BY <1>1, <1>4, <1>5, <1>6, RestartIInv

LEMMA PromoteIInv == IInv /\ Promote => IInv'
<1> SUFFICES ASSUME IInv, Promote PROVE IInv'
  OBVIOUS
<1>1. /\ Valid /\ lines' = lines /\ numbered' = numbered /\ stack' = stack
      /\ seeded' = seeded /\ borrowed' = borrowed
  BY DEF Promote
<1>2. PICK i \in 1..Len(lines) : /\ Concludes(i, {})
                                /\ theorems' = theorems \cup {lines[i].formula}
  BY DEF Promote
<1>3. /\ lines[i].scope = {} /\ Logical(lines[i]) /\ lines[i].formula # NoFormula
      /\ Typed(lines[i])
  BY <1>2 DEF Concludes, Stated, IInv, Placed
<1>4. lines[i].kind # "variable"
  BY <1>3 DEF IInv, Placed, Openers
<1>5. Asserts(lines[i]) /\ lines[i].formula \in Formulas
  BY <1>3, <1>4 DEF Logical, Openers, Asserts, Typed
<1>6. ~borrowed => Entails({}, lines[i].formula)
  <2>1. Hypotheses(lines[i].scope) = {}
    BY <1>3 DEF Hypotheses
  <2> QED
    BY <1>1, <1>5, <2>1 DEF IInv, LinesFollow
<1>7. TypeOK'
  BY <1>1, <1>2, <1>5 DEF IInv, TypeOK
<1>8. TheoremsFollow'
  <2>1. ASSUME ~borrowed, NEW f \in theorems' PROVE Entails({}, f)
    BY <1>2, <1>6, <2>1 DEF IInv, TheoremsFollow
  <2> QED
    BY <1>1, <2>1 DEF TheoremsFollow, Entails
<1>9. Placed' /\ SeedsFollow' /\ LinesFollow'
  BY <1>1 DEF IInv, Placed, SeedsFollow, LinesFollow, Typed, Asserts, Entails,
              Hypotheses, Valid
<1> QED
  BY <1>7, <1>8, <1>9 DEF IInv
-----------------------------------------------------------------------------
LEMMA NextIInv == IInv /\ [Next]_vars => IInv'
<1> SUFFICES ASSUME IInv, [Next]_vars PROVE IInv'
  OBVIOUS
<1>1. CASE Room /\ ReadLine
  BY <1>1, ReadLineIInv
<1>2. CASE SeedLemma
  BY <1>2, SeedLemmaIInv
<1>3. CASE StartAnother
  BY <1>3, StartAnotherIInv
<1>4. CASE Promote
  BY <1>4, PromoteIInv
<1>5. CASE UNCHANGED vars
  BY <1>5 DEF vars, IInv, TypeOK, Placed, SeedsFollow, LinesFollow, TheoremsFollow,
              Typed, Asserts, Entails, Hypotheses, Valid
<1> QED
  BY <1>1, <1>2, <1>3, <1>4, <1>5 DEF Next

LEMMA Inductive == Spec => []IInv
BY InitIInv, NextIInv, PTL DEF Spec

\* Every line has the fields of one, and the open subproofs are indented ever
\* further: popping the stack by indentation is dropping those not below it.
THEOREM TypeCorrect == Spec => []TypeOK
<1>1. IInv => TypeOK
  BY DEF IInv
<1> QED
  BY Inductive, <1>1, PTL

\* Scoping, citing and discharging are sound for any sound rules: the lines of
\* a proof that stands so far follow from the hypotheses around them.
THEOREM AcceptedLinesFollow == Spec => []LinesFollow
<1>1. IInv => LinesFollow
  BY DEF IInv
<1> QED
  BY Inductive, <1>1, PTL

\* What is promoted from such proofs, and from proofs that cite it in turn,
\* holds in every model.
THEOREM PromotedTheoremsFollow == Spec => []TheoremsFollow
<1>1. IInv => TheoremsFollow
  BY DEF IInv
<1> QED
  BY Inductive, <1>1, PTL
=============================================================================
