---------------------------- MODULE MCDerivation ----------------------------
(***************************************************************************)
(* A first-order language small enough to list: names, equality, implication*)
(* and a quantifier; two forms declared as productions and left to be      *)
(* defined, and two that only a definition can introduce.                  *)
(***************************************************************************)
EXTENDS DerivationProps

C(slots, scopes, sort, constant) ==
    [slots |-> slots, scopes |-> scopes, sort |-> sort, constant |-> constant]
BindsNext == [i \in {1} |-> {2}]

MCCon ==
    [name |-> C(<<>>, <<>>, "name", FALSE),
     prop |-> C(<<>>, <<>>, "wff", FALSE),
     bot  |-> C(<<>>, <<>>, "wff", TRUE),
     eq   |-> C(<<"class", "class">>, <<>>, "wff", FALSE),
     imp  |-> C(<<"wff", "wff">>, <<>>, "wff", FALSE),
     all  |-> C(<<"name", "wff">>, BindsNext, "wff", FALSE),
     sub  |-> C(<<"class", "class">>, <<>>, "wff", FALSE),
     uq   |-> C(<<"name", "wff">>, BindsNext, "wff", FALSE),
     sib  |-> C(<<"class">>, <<>>, "wff", FALSE),
     tt   |-> C(<<>>, <<>>, "wff", TRUE)]
MCMembers == [name |-> {}, class |-> {"name"}, wff |-> {}]
MCProductions == {"name", "prop", "bot", "eq", "imp", "all", "sub", "uq"}

x == Leaf("name", "x")
y == Leaf("name", "y")
z == Leaf("name", "z")
P == Leaf("prop", "P")
bot == Leaf("bot", "bot")
Eq(a, b) == Node("eq", <<a, b>>)
Imp(a, b) == Node("imp", <<a, b>>)
All(v, p) == Node("all", <<v, p>>)
Sub(a, b) == Node("sub", <<a, b>>)
Uq(v, p) == Node("uq", <<v, p>>)
Sib(a) == Node("sib", <<a>>)
tt == Leaf("tt", "tt")

---------------------------------------------------------------------------
Unjustified == [label |-> "", statement |-> bot]
D(label, higher, params, lower, fresh, provisos, justification) ==
    [label |-> label, higher |-> higher, params |-> params, lower |-> lower,
     fresh |-> fresh, provisos |-> provisos, justification |-> justification]

OfClasses == [x |-> "class", y |-> "class"]
OfClass == [x |-> "class"]
NameAndWff == [x |-> "name", P |-> "wff"]

\* Inclusion, over one binder the grammar places.
DfSub == D("df-sub", Sub(x, y), OfClasses,
           All(z, Imp(Eq(z, x), Eq(z, y))), <<>>, <<>>, Unjustified)
\* At most one: a binder of its own around one the defined form supplies.
DfUq == D("df-uq", Uq(x, P), NameAndWff,
          All(y, All(x, Imp(P, Eq(x, y)))), <<>>, <<>>, Unjustified)
\* Two binders of disjoint scopes, which may share a name.
DfSib == D("df-sib", Sib(x), OfClass,
           Imp(All(z, Eq(z, x)), All(y, Eq(y, x))), <<>>, <<>>, Unjustified)
\* Two nested binders, the outer declared: it is placed by name.  The same
\* form as df-sib, and as good a definition of it.
DfNest == D("df-nest", Sib(x), OfClass,
            All(z, All(y, Imp(Eq(z, x), Eq(y, z)))),
            <<[name |-> "z", sort |-> "name"]>>, <<>>, Unjustified)
\* Inclusion where the two sides share no name, which a rule asserts.
DfApart == D("df-apart", Sub(x, y), OfClasses, Imp(Eq(x, y), Eq(y, x)), <<>>, <<>>,
             [label |-> "ax-5", statement |-> Imp(Eq(x, y), All(z, Eq(x, y)))])
\* Refused: circular alone, circular with another, capturing, over a form the
\* rules reason with, and with a proviso over nothing it supplies.
DfSelf == D("df-self", Sub(x, y), OfClasses, Imp(Sub(x, y), bot), <<>>, <<>>, Unjustified)
DfBack == D("df-back", Uq(x, P), NameAndWff, Imp(P, Sub(x, x)), <<>>, <<>>, Unjustified)
DfForth == D("df-forth", Sub(x, y), OfClasses, Imp(Eq(x, y), Uq(z, Eq(z, x))), <<>>, <<>>,
             Unjustified)
DfOpen == D("df-open", tt, <<>>, Eq(x, x), <<>>, <<>>, Unjustified)
DfEq == D("df-eq", Eq(x, y), OfClasses, bot, <<>>, <<>>, Unjustified)
DfOver == D("df-over", Sib(x), OfClass, Eq(x, x), <<>>,
            <<DisjointLeaves(Var("x", "class"), Var("w", "class"), "name")>>, Unjustified)

\* Inclusion over a form the grammar declares and nothing has defined yet.
DfVia == D("df-via", Sub(x, y), OfClasses, Uq(z, Eq(z, x)), <<>>, <<>>, Unjustified)

MCDeclarations == {DfSub, DfUq, DfSib, DfNest, DfApart, DfSelf, DfBack, DfForth, DfOpen, DfEq, DfOver}
IndirectDeclarations == {DfVia, DfUq}

---------------------------------------------------------------------------
R(label, antecedents, deduction, conditions, text, built) ==
    [label |-> label, antecedents |-> antecedents, deduction |-> deduction,
     conditions |-> conditions, text |-> text, built |-> built]
VP == Var("P", "wff")
VQ == Var("Q", "wff")
VA == Var("A", "class")
VB == Var("B", "class")
VC == Var("C", "class")
Vx == Var("x", "name")

ModusPonens == R("mp", <<VP, Imp(VP, VQ)>>, VQ, <<>>, FALSE, TRUE)
Transitive == R("trans", <<Eq(VA, VB), Eq(VB, VC)>>, Eq(VA, VC), <<>>, FALSE, TRUE)
Ax5 == R("ax-5", <<>>, Imp(VP, All(Vx, VP)),
         <<Negation(Occurs(Vx, VP))>>, FALSE, TRUE)
Identity == R("id", <<>>, Imp(VP, VP), <<>>, FALSE, TRUE)
\* A rule over a form nothing spells yet is kept as text.
SibText == R("sib", <<>>, Sib(VA), <<>>, TRUE, TRUE)
\* Added to the live system.
SibRefl == R("sib-refl", <<>>, Sib(VA), <<>>, FALSE, FALSE)
SubRefl == R("sub-refl", <<>>, Sub(VA, VA), <<>>, FALSE, FALSE)

MCBuiltRules == {{ModusPonens, Ax5, Transitive}, {ModusPonens, Transitive, SibText}, {Ax5, Identity, Transitive}}
MCLateRules == {SibRefl}
IndirectRules == {SubRefl}

---------------------------------------------------------------------------
MCPremises == {Sub(z, x), All(z, Sub(x, z)), Uq(x, Eq(x, z)), Imp(Sub(y, x), Eq(y, x)),
               Sib(y), All(y, Sib(y)), Eq(x, x),
               All(z, Imp(Eq(z, x), Eq(z, y))),
               All(y, All(x, Imp(Eq(x, z), Eq(x, y)))),
               Imp(All(z, Eq(z, y)), All(z, Eq(z, y)))}
MCGoals == {Eq(y, x), Eq(x, x), Imp(Eq(x, x), All(z, Eq(x, x))),
            Imp(Eq(x, x), All(x, Eq(x, x))), All(z, Eq(x, x)),
            Imp(Sub(z, x), Sub(z, x)), Imp(P, All(z, P))}
MCAxioms == {Eq(z, z), Imp(Eq(x, x), Eq(x, x))}
MCNominations == {<<>>, [z |-> "name"], [z |-> "class"], [P |-> "wff"], [z |-> "name", P |-> "wff"]}
MCLeaves == {x, y, z}

\* Bound: a system with the rule id derives from no assumption, about inclusion
\* alone, and promotes, a second time when it is short; the others derive from an
\* assumption and do not.
Schematic == Identity \in rules
WithinScenario ==
    /\ lines # <<>> => (lines[1].kind = "premise") = ~Schematic
    /\ Schematic => \A d \in Range(definitions) : d.label = "df-sub"
    /\ Cardinality(theorems) = 2 => Len(lines) <= 2 /\ definitions = <<>>
    /\ ~Schematic => theorems = {} /\ \A n \in DOMAIN lines : lines[n].kind # "axiom"

ScenarioSpec == Init /\ [][Next /\ WithinScenario']_vars
=============================================================================
