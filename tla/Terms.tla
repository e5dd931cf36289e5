------------------------------- MODULE Terms -------------------------------
(***************************************************************************)
(* The term kernel of website/logical/kernel: terms, one-sided matching    *)
(* and the closed vocabulary of side conditions.                           *)
(*                                                                         *)
(* A constructor is a name; Con gives its slots (the sort of each), the    *)
(* slots each binder slot reaches, the sort it builds and whether it       *)
(* denotes a constant.  Parsing is outside: a term arrives as the tree the *)
(* matching engine found, so two constructors are the same here exactly    *)
(* when their signatures are the same in the code.                         *)
(*                                                                         *)
(* A partial operation returns the set of its results: empty when the code *)
(* returns None or raises, one element otherwise.                          *)
(***************************************************************************)
EXTENDS Naturals, Sequences, FiniteSets, Functions, SequencesExt, TLC

CONSTANTS
    Con,      \* constructor -> [slots, scopes, sort, constant]
    Members   \* sort -> the sorts a union of that name is made of

\* A union sort admits itself and, through its members, theirs.
RECURSIVE SortsUnder(_)
SortsUnder(sort) == {sort} \cup UNION {SortsUnder(m) : m \in Members[sort]}

---------------------------------------------------------------------------
(* Terms *)

Node(con, kids) == [kind |-> "node", con |-> con, lit |-> "", kids |-> kids]
Leaf(con, lit)  == [kind |-> "node", con |-> con, lit |-> lit, kids |-> <<>>]
Var(name, sort) == [kind |-> "var", con |-> sort, lit |-> name, kids |-> <<>>]

\* The label of an abstract binder is reserved: no author can spell it.
BoundLabel(i) == "#" \o ToString(i)
Bound(i, sort) ==
    [kind |-> "bound", con |-> sort, lit |-> BoundLabel(i), kids |-> <<>>]

IsVar(t) == t.kind \in {"var", "bound"}
Kids(t) == Range(t.kids)

RECURSIVE FreeVars(_)
FreeVars(t) ==
    CASE t.kind = "var"   -> {t.lit}
      [] t.kind = "bound" -> {}
      [] OTHER            -> UNION {FreeVars(k) : k \in Kids(t)}

\* Simultaneous: what a binding supplies is not substituted into again.
RECURSIVE Substitute(_, _)
Substitute(t, binding) ==
    IF IsVar(t)
    THEN IF t.lit \in DOMAIN binding THEN binding[t.lit] ELSE t
    ELSE [t EXCEPT !.kids = [i \in DOMAIN t.kids |-> Substitute(t.kids[i], binding)]]

\* The leaves a parameter's name spells become that parameter.
RECURSIVE Abstract(_, _)
Abstract(t, variables) ==
    IF IsVar(t) THEN t
    ELSE IF t.kids = <<>>
    THEN IF t.lit \in DOMAIN variables THEN Var(t.lit, variables[t.lit]) ELSE t
    ELSE [t EXCEPT !.kids = [i \in DOMAIN t.kids |-> Abstract(t.kids[i], variables)]]

\* The leaves a declared binder's name spells become that abstract binder,
\* throughout the form.
RECURSIVE Bind(_, _)
Bind(t, bound) ==
    IF IsVar(t) THEN t
    ELSE IF t.kids = <<>>
    THEN IF t.lit \in DOMAIN bound THEN bound[t.lit] ELSE t
    ELSE [t EXCEPT !.kids = [i \in DOMAIN t.kids |-> Bind(t.kids[i], bound)]]

RECURSIVE Subterms(_)
Subterms(t) == {t} \cup UNION {Subterms(k) : k \in Kids(t)}

SignaturesIn(t) == {u.con : u \in {v \in Subterms(t) : ~IsVar(v)}}

---------------------------------------------------------------------------
(* Matching *)

TermSort(t) == IF IsVar(t) THEN t.con ELSE Con[t.con].sort
SortAdmits(sort, t) == TermSort(t) \in SortsUnder(sort)

\* The bindings that extend binding and take the schema to the subject.
RECURSIVE Match(_, _, _)
Match(schema, subject, binding) ==
    IF IsVar(schema)
    THEN IF schema.lit \in DOMAIN binding
         THEN IF binding[schema.lit] = subject THEN {binding} ELSE {}
         ELSE IF SortAdmits(schema.con, subject)
              THEN {binding @@ (schema.lit :> subject)}
              ELSE {}
    ELSE IF IsVar(subject) \/ schema.con # subject.con \/ schema.lit # subject.lit
            \/ Len(schema.kids) # Len(subject.kids)
    THEN {}
    ELSE FoldLeftDomain(LAMBDA found, i :
                          UNION {Match(schema.kids[i], subject.kids[i], b) : b \in found},
                        {binding}, schema.kids)

\* One binding for all the pairs, read left to right.
MatchAll(pairs) ==
    FoldLeft(LAMBDA found, pair : UNION {Match(pair[1], pair[2], b) : b \in found},
             {<<>>}, pairs)

---------------------------------------------------------------------------
(* Side conditions *)

\* A condition names its arguments by the label the match binds.
Occurs(needle, haystack)     == [op |-> "occurs", args |-> <<needle, haystack>>,
                                 sort |-> "", parts |-> <<>>]
DisjointLeaves(l, r, sort)   == [op |-> "disjoint", args |-> <<l, r>>,
                                 sort |-> sort, parts |-> <<>>]
IsAtom(name, sort)           == [op |-> "atom", args |-> <<name>>,
                                 sort |-> sort, parts |-> <<>>]
IsMember(name, sort)         == [op |-> "member", args |-> <<name>>,
                                 sort |-> sort, parts |-> <<>>]
EqualTerms(l, r)             == [op |-> "equal", args |-> <<l, r>>,
                                 sort |-> "", parts |-> <<>>]
Negation(part)               == [op |-> "not", args |-> <<>>, sort |-> "",
                                 parts |-> <<part>>]
AllOf(parts)                 == [op |-> "and", args |-> <<>>, sort |-> "", parts |-> parts]
AnyOf(parts)                 == [op |-> "or", args |-> <<>>, sort |-> "", parts |-> parts]

\* A block of provisos as the lines it was written as.
RECURSIVE Conjuncts(_)
Conjuncts(condition) ==
    IF condition.op = "and" THEN FlattenSeq([i \in DOMAIN condition.parts |->
                                               Conjuncts(condition.parts[i])])
    ELSE <<condition>>

\* Whether a line can be written back: a negation spells one predicate, and a
\* conjunction only a block of lines.
RECURSIVE Renders(_)
Renders(c) ==
    CASE c.op = "not" -> c.parts[1].op \notin {"not", "or", "and"}
      [] c.op = "and" -> FALSE
      [] OTHER        -> \A p \in Range(c.parts) : Renders(p)

RECURSIVE References(_)
References(condition) ==
    UNION {FreeVars(a) : a \in Range(condition.args)}
    \cup UNION {References(p) : p \in Range(condition.parts)}

\* What a condition asks of the metavariables it was stated over, asked of
\* what a match bound to them.  Undefined when one of them is not bound.
RECURSIVE Restated(_, _)
Restated(condition, binding) ==
    [condition EXCEPT
       !.args  = [i \in DOMAIN condition.args |-> Substitute(condition.args[i], binding)],
       !.parts = [i \in DOMAIN condition.parts |-> Restated(condition.parts[i], binding)]]
Restate(condition, binding) ==
    IF References(condition) \subseteq DOMAIN binding
    THEN {Restated(condition, binding)} ELSE {}

\* The spellings of a term's leaves, of one sort when a sort is given.
LeavesOf(t, sort) ==
    {u.lit : u \in {v \in Subterms(t) :
                      (IsVar(v) \/ v.kids = <<>>) /\ (sort = "" \/ SortAdmits(sort, v))}}

RECURSIVE Holds(_)
Holds(c) ==
    CASE c.op = "occurs"   -> c.args[1] \in Subterms(c.args[2])
      [] c.op = "disjoint" ->
           LeavesOf(c.args[1], c.sort) \cap LeavesOf(c.args[2], c.sort) = {}
      [] c.op = "atom"     -> /\ IsVar(c.args[1]) \/ c.args[1].kids = <<>>
                              /\ c.sort = "" \/ SortAdmits(c.sort, c.args[1])
      [] c.op = "member"   -> SortAdmits(c.sort, c.args[1])
      [] c.op = "equal"    -> c.args[1] = c.args[2]
      [] c.op = "not"      -> ~Holds(c.parts[1])
      [] c.op = "and"      -> \A i \in DOMAIN c.parts : Holds(c.parts[i])
      [] OTHER             -> \E i \in DOMAIN c.parts : Holds(c.parts[i])

\* A compound argument must come out ground: what a bare metavariable is bound
\* to may itself be schematic.
RECURSIVE Resolves(_, _)
Resolves(condition, binding) ==
    /\ \A a \in Range(condition.args) :
         a.kind = "var" \/ FreeVars(Substitute(a, binding)) = {}
    /\ \A p \in Range(condition.parts) : Resolves(p, binding)

\* Every part is resolved before any is asked, so a reference the match did
\* not bind is an error whatever the other parts say.
Check(condition, binding) ==
    \E c \in Restate(condition, binding) : Resolves(condition, binding) /\ Holds(c)
=============================================================================
