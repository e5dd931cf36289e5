---------------------------- MODULE Definitions ----------------------------
(***************************************************************************)
(* Definitions as cited axioms: how a defined form and its defining form   *)
(* become a kernel definition (formal_system/definitions.py and the        *)
(* definition half of declarative.py), and the one thing the kernel checks *)
(* about them, a single unfold or fold at one position                     *)
(* (kernel/definitions.py).                                                *)
(*                                                                         *)
(* A declaration is what an author writes: a label, the two forms with     *)
(* their parameters and binders still spelled by name, the sorts of the    *)
(* parameters, the binders a fresh clause declares, a proviso and the      *)
(* label of a theorem that justifies it.                                   *)
(***************************************************************************)
EXTENDS Terms

NoProviso == AllOf(<<>>)

---------------------------------------------------------------------------
(* Building a definition *)

LeafName(t) == IF ~IsVar(t) /\ t.kids = <<>> THEN {t.lit} ELSE {}

FreshBinder(name, sort, enclosing, scoped) ==
    [name |-> name, sort |-> sort, enclosing |-> enclosing, scoped |-> scoped]

\* The binder slots of a node that a name stands in, lowest first.
Opening(t) ==
    SelectSeq([i \in DOMAIN t.kids |-> i],
              LAMBDA i : i \in DOMAIN Con[t.con].scopes /\ LeafName(t.kids[i]) # {})

\* No two binder slots of one node may bind the same name.
ClaimsDistinct(t) ==
    \A i, j \in Range(Opening(t)) : i # j => LeafName(t.kids[i]) # LeafName(t.kids[j])
BindersUnambiguous(t) == \A u \in Subterms(t) : IsVar(u) \/ ClaimsDistinct(u)

\* The grammar's own binders made abstract, each within the slots it reaches:
\* env maps a name to its binder, enclosing names the binders around, and the
\* binders already numbered are carried from left to right.
RECURSIVE BindScoped(_, _, _, _, _)
BindScoped(t, env, enclosing, binders, first) ==
    IF IsVar(t) THEN [term |-> t, binders |-> binders]
    ELSE IF t.kids = <<>>
    THEN [term    |-> IF t.lit \in DOMAIN env THEN env[t.lit] ELSE t,
          binders |-> binders]
    ELSE LET open     == Opening(t)
             index(k) == first + Len(binders) + k - 1
             siblings == {index(k) : k \in DOMAIN open}
             name(k)  == t.kids[open[k]].lit
             sort(k)  == Con[t.con].slots[open[k]]
             reach(k) == {open[k]} \cup Con[t.con].scopes[open[k]]
             opened   == binders \o
                         [k \in DOMAIN open |->
                            FreshBinder(name(k), sort(k),
                                        enclosing \cup (siblings \ {index(k)}), TRUE)]
             over(i)  == {k \in DOMAIN open : i \in reach(k)}
             within(i) == [n \in {name(k) : k \in over(i)} |->
                             LET k == CHOOSE k \in over(i) : name(k) = n
                             IN Bound(index(k), sort(k))] @@ env
             walked   == FoldLeftDomain(
                           LAMBDA acc, i :
                             LET w == BindScoped(t.kids[i], within(i),
                                                 enclosing \cup {index(k) : k \in over(i)},
                                                 acc.binders, first)
                             IN [kids |-> Append(acc.kids, w.term), binders |-> w.binders],
                           [kids |-> <<>>, binders |-> opened], t.kids)
         IN [term |-> Node(t.con, walked.kids), binders |-> walked.binders]

\* The sorts of the binder slots each name stands in.
BinderSlotSorts(t, name) ==
    {Con[u.con].slots[i] : <<u, i>> \in
        {p \in {v \in Subterms(t) : ~IsVar(v)} \X (1 .. 3) :
            /\ p[2] \in DOMAIN Con[p[1].con].scopes
            /\ p[2] \in DOMAIN p[1].kids
            /\ LeafName(p[1].kids[p[2]]) = {name}}}

\* parse_definition: parameters abstracted, declared binders placed by name,
\* then the rest placed by scope.
ParseDefinition(decl) ==
    LET higher   == Abstract(decl.higher, decl.params)
        lower    == Abstract(decl.lower, decl.params)
        declared == [i \in DOMAIN decl.fresh |->
                       FreshBinder(decl.fresh[i].name, decl.fresh[i].sort, {}, FALSE)]
        named    == Bind(lower, [n \in {b.name : b \in Range(declared)} |->
                       LET i == CHOOSE i \in DOMAIN declared : declared[i].name = n
                       IN Bound(i - 1, declared[i].sort)])
        scoped   == BindScoped(named, <<>>, {}, <<>>, Len(declared))
    IN IF /\ \A b \in Range(declared) : BinderSlotSorts(lower, b.name) \subseteq {b.sort}
          /\ BindersUnambiguous(named)
       THEN {[label |-> decl.label, higher |-> higher, lower |-> scoped.term,
              condition |-> NoProviso, fresh |-> declared \o scoped.binders]}
       ELSE {}

GroundLeaves(t) == {u \in Subterms(t) : ~IsVar(u) /\ u.kids = <<>>}

\* Parameters, and leaves other than constants, that only the defining form has.
UnboundParameters(def) == FreeVars(def.lower) \ FreeVars(def.higher)
IntroducedLeaves(def) == GroundLeaves(def.lower) \ GroundLeaves(def.higher)

\* build_kernel_definition: an unfold may conjure neither.
BuildKernelDefinition(decl) ==
    {def \in ParseDefinition(decl) :
        /\ UnboundParameters(def) = {}
        /\ \A leaf \in IntroducedLeaves(def) : Con[leaf.con].constant}

\* A binder's name counts as a reference only when no other binder has it.
Unambiguous(def) ==
    {i \in DOMAIN def.fresh : \A j \in DOMAIN def.fresh \ {i} :
        def.fresh[j].name # def.fresh[i].name}
ConditionIsCheckable(def) ==
    References(def.condition)
        \subseteq FreeVars(def.higher) \cup {def.fresh[i].name : i \in Unambiguous(def)}

---------------------------------------------------------------------------
(* One step *)

BinderKeys(def) == {BoundLabel(i - 1) : i \in DOMAIN def.fresh}

\* A binder's chosen leaf is what the proviso's name for it means.
ConditionBinding(def, binding, chosen) ==
    binding @@ [n \in {def.fresh[i].name :
                         i \in {j \in Unambiguous(def) :
                                  BoundLabel(j - 1) \in DOMAIN chosen}} |->
                  chosen[BoundLabel((CHOOSE i \in Unambiguous(def) :
                                       def.fresh[i].name = n) - 1)]]

\* A binder that need only differ from the binders around it.
LaxBoundsAreFresh(def, binding, chosen) ==
    \A i \in DOMAIN def.fresh :
        /\ BoundLabel(i - 1) \in DOMAIN chosen
        /\ \A j \in def.fresh[i].enclosing :
             chosen[BoundLabel(i - 1)] # chosen[BoundLabel(j)]

\* A binder placed by name asked to differ from itself.
SelfishBoundsAreFresh(def, binding, chosen) ==
    /\ LaxBoundsAreFresh(def, binding, chosen)
    /\ \A i, j \in {k \in DOMAIN def.fresh : ~def.fresh[k].scoped} :
         j <= i => chosen[BoundLabel(i - 1)] # chosen[BoundLabel(j - 1)]

\* Each chosen name is disjoint from every parameter and from the binders
\* whose scope reaches it: those it sits inside, and those placed by name.
BoundsAreFresh(def, binding, chosen) ==
    LET unscoped == {i \in DOMAIN def.fresh : ~def.fresh[i].scoped}
        others(i) == {j + 1 : j \in def.fresh[i].enclosing}
                     \cup (IF def.fresh[i].scoped THEN unscoped
                           ELSE {j \in unscoped : j < i})
        key(i)   == Var(BoundLabel(i - 1), def.fresh[i].sort)
    IN \A i \in DOMAIN def.fresh :
         /\ BoundLabel(i - 1) \in DOMAIN chosen
         /\ \A p \in DOMAIN binding :
              Check(DisjointLeaves(key(i), Var(p, ""), def.fresh[i].sort), binding @@ chosen)
         /\ \A j \in others(i) :
              Check(DisjointLeaves(key(i), key(j), def.fresh[i].sort), chosen)

\* unfold: the redex matched, each binder given a leaf of its sort, the
\* proviso and the freshness asked, the defining form substituted.
Unfold(def, redex, chosen) ==
    {Substitute(def.lower, binding @@ chosen) : binding \in
        {b \in Match(def.higher, redex, <<>>) :
            /\ \A i \in DOMAIN def.fresh :
                 LET leaf == chosen[BoundLabel(i - 1)]
                 IN LeafName(leaf) # {} /\ SortAdmits(def.fresh[i].sort, leaf)
            /\ Check(def.condition, ConditionBinding(def, b, chosen))
            /\ BoundsAreFresh(def, b, chosen)}}

\* The binder names are recovered from the target rather than supplied.
UnfoldsTo(def, source, target) ==
    \E binding \in Match(def.higher, source, <<>>) :
      \E recovered \in Match(def.lower, target, binding) :
        LET chosen == Restrict(recovered, BinderKeys(def) \cap DOMAIN recovered)
        IN /\ DOMAIN recovered \ DOMAIN binding \subseteq BinderKeys(def)
           /\ Check(def.condition, ConditionBinding(def, binding, chosen))
           /\ BoundsAreFresh(def, binding, chosen)
           /\ Substitute(def.lower, recovered) = target

\* At the root, or inside the one child that differs.
RECURSIVE RewritesOnce(_, _, _)
RewritesOnce(source, target, def) ==
    \/ UnfoldsTo(def, source, target)
    \/ /\ ~IsVar(source) /\ ~IsVar(target)
       /\ source.con = target.con
       /\ source.lit = "" /\ target.lit = ""
       /\ \E i \in DOMAIN source.kids :
            /\ \A j \in DOMAIN source.kids : (source.kids[j] # target.kids[j]) <=> (i = j)
            /\ RewritesOnce(source.kids[i], target.kids[i], def)

CheckDefinitionalStep(before, after, def) ==
    RewritesOnce(before, after, def) \/ RewritesOnce(after, before, def)

---------------------------------------------------------------------------
(* Registering a definition against the system's rules and definitions *)

\* The relation "is defined using", over the definitions already registered.
DefinedUsing(definitions, head) ==
    UNION {SignaturesIn(d.lower) : d \in {e \in definitions : e.higher.con = head}}

RECURSIVE ReachableFrom(_, _)
ReachableFrom(definitions, found) ==
    LET more == found \cup UNION {DefinedUsing(definitions, h) : h \in found}
    IN IF more = found THEN found ELSE ReachableFrom(definitions, more)

\* Only the definition itself looked at, not what it is defined over.
ShortSightedNonCircular(decl, grammar, definitions) ==
    decl.higher.con \notin SignaturesIn(decl.lower)

\* Asked only of a defined form the grammar already spells.
NonCircular(decl, grammar, definitions) ==
    \/ ~(SignaturesIn(decl.higher) \subseteq grammar)
    \/ decl.higher.con \notin ReachableFrom(definitions, SignaturesIn(decl.lower))

\* A rule is stated over a form when its schema was read with that form, or
\* when the text it was left as reads with it now that the form is spelled.
\* Only the rules declared with the system are read again.
StatedOver(rule, head, grammar) ==
    LET schemas == UNION {SignaturesIn(s) : s \in {rule.deduction} \cup Range(rule.antecedents)}
    IN head \in schemas /\ (rule.text => rule.built /\ schemas \subseteq grammar)

\* The rules left as text taken to say nothing.
ReadFreshDefinedForm(decl, grammar, rules) ==
    \A r \in rules : ~r.text => ~StatedOver(r, decl.higher.con, grammar)

FreshDefinedForm(decl, grammar, rules) ==
    \A r \in rules : ~StatedOver(r, decl.higher.con, grammar)

\* _discharge_justification: the obligation is an instance of what a rule or
\* theorem without premises asserts, whose provisos the definition inherits.
InheritedProvisos(decl, rules) ==
    IF decl.justification.label = "" THEN {<<>>}
    ELSE UNION {LET obligation == Abstract(decl.justification.statement, decl.params)
                    bindings   == Match(r.deduction, obligation, <<>>)
                IN {[i \in DOMAIN r.conditions |-> Restated(r.conditions[i], b)] :
                      b \in {c \in bindings :
                               \A i \in DOMAIN r.conditions :
                                  References(r.conditions[i]) \subseteq DOMAIN c}}
                : r \in {s \in rules : /\ s.label = decl.justification.label
                                       /\ s.antecedents = <<>> /\ ~s.text}}

\* The definitions a declaration is finalised as: none when it is refused.  A
\* theorem may justify a definition, and is no rule its form must be fresh of.
Finalised(decl, grammar, definitions, rules, theorems) ==
    {[def EXCEPT !.condition = c] : <<def, c>> \in
        {p \in BuildKernelDefinition(decl)
               \X {AllOf(decl.provisos \o inherited) :
                     inherited \in InheritedProvisos(decl, rules \cup theorems)} :
            /\ NonCircular(decl, grammar, definitions)
            /\ FreshDefinedForm(decl, grammar \cup {decl.higher.con}, rules)
            /\ ConditionIsCheckable([p[1] EXCEPT !.condition = p[2]])}}

\* It layers when its defining form reads in the grammar before it.
Layers(decl, grammar) == SignaturesIn(decl.lower) \subseteq grammar
=============================================================================
