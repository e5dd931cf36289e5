-------------------------- MODULE MetamathGrammar ---------------------------
(***************************************************************************)
(* The grammars an import checks a Metamath corpus under: the one its walk *)
(* grows position by position (grammar_schedule, corpus.walk), the one     *)
(* built afresh for a single theorem (build_spec), and the specifications  *)
(* of the systems a layered import stores (corpus_specs).                  *)
(***************************************************************************)
EXTENDS MetamathFile

Sort(typecode)         == <<typecode>>
VariableSort(typecode) == <<typecode, "var">>

\* A production: notation of its sort, a variable's leaf, or the inclusion of a
\* sort of variables in the sort itself.  variable_production_name keeps the
\* leaves' names apart from the file's labels.
Notation(db, label)   == [sort |-> Sort(db.assertions[label].typecode), name |-> <<label>>]
Leaf(typecode, v)     == [sort |-> VariableSort(typecode), name |-> <<typecode, "leaf", v>>]
Inclusion(typecode)   == [sort |-> Sort(typecode), name |-> VariableSort(typecode)]

\* typed_from: the first assertion each variable is in scope of, with its sort.
TypedBy(db, label) ==
    {<<db.hypotheses[h].typecode, db.hypotheses[h].tokens[1]>> :
       h \in {x \in db.assertions[label].active : db.hypotheses[x].kind = "$f"}}

Typed(db) == UNION {TypedBy(db, label) : label \in Range(db.order)}

TypedFrom(db, pair) ==
    CHOOSE p \in 0..Len(db.order)-1 :
        /\ pair \in TypedBy(db, Label(db, p))
        /\ \A q \in 0..p-1 : pair \notin TypedBy(db, Label(db, q))

SyntaxBefore(db, before) ==
    Filter(SubSeq(db.order, 1, Position(db, before)),
           {label \in Range(db.order) : IsNotation(db, label)})

DeclaredVariables(db, scope) == {p \in Typed(db) : TypedFrom(db, p) <= Position(db, scope)}

VariableProductions(pairs) ==
    {Leaf(p[1], p[2]) : p \in pairs} \cup {Inclusion(p[1]) : p \in pairs}

\* The sort a |- statement is written in: a conventional one if there is any
\* production of it, and otherwise that of the first notation.
LogicalSort(productions, syntax, db) ==
    LET named == {p.sort : p \in productions}
    IN IF Sort("wff") \in named THEN "wff"
       ELSE IF Sort("formula") \in named THEN "formula"
       ELSE IF syntax = << >> THEN NoSort
       ELSE db.assertions[Head(syntax)].typecode

\* build_spec: notation from before the label, exclusive, and the variables in
\* scope up to another, inclusive.
BuildSpec(db, name, before, scope) ==
    LET syntax      == SyntaxBefore(db, before)
        productions == {Notation(db, label) : label \in Range(syntax)}
                         \cup VariableProductions(DeclaredVariables(db, scope))
    IN [name |-> name, productions |-> productions,
        line |-> LogicalSort(productions, syntax, db)]

\* The statements a walk checks.
Walkable(db, label) == IsLogical(db, label) /\ ~IsAxiom(db, label)

Theorems(db, limit) ==
    LET found == Filter(db.order, {label \in Range(db.order) : Walkable(db, label)})
    IN SubSeq(found, 1, IF limit < Len(found) THEN limit ELSE Len(found))

Horizon(db, limit) == Last(Theorems(db, limit))
-----------------------------------------------------------------------------
(* The walk's schedule.                                                    *)

\* The productions that may join their sort at position p.  A sort of variables
\* joins where the first of its variables is typed.
ScheduledAt(db, horizon, p) ==
    LET pairs == DeclaredVariables(db, horizon)
        first(typecode) == \A x \in pairs : x[1] = typecode => TypedFrom(db, x) >= p
    IN {Notation(db, label) : label \in {x \in Range(SyntaxBefore(db, horizon)) : Position(db, x) = p}}
         \cup UNION {{Leaf(x[1], x[2])} \cup IF first(x[1]) THEN {Inclusion(x[1])} ELSE {} :
                       x \in {y \in pairs : TypedFrom(db, y) = p}}

\* A mutant: what the assertion itself brings joins after it.
WrongAdmit(db, horizon, admitted, p) == UNION {ScheduledAt(db, horizon, q) : q \in admitted..p-1}

\* _admit: from the watermark up to a position, it included.
Admit(db, horizon, admitted, p) == UNION {ScheduledAt(db, horizon, q) : q \in admitted..p}

Never == -1

\* The first position at which a prefix of the file has a sort for |-.
LogicalFrom(db, horizon) ==
    LET conventional == {p \in 0..Position(db, horizon) :
                           \E x \in ScheduledAt(db, horizon, p) : x.sort \in {Sort("wff"), Sort("formula")}}
        syntax == SyntaxBefore(db, horizon)
        found  == conventional \cup IF syntax = << >> THEN {} ELSE {Position(db, Head(syntax))}
    IN IF found = {} THEN Never ELSE CHOOSE p \in found : \A q \in found : p <= q
-----------------------------------------------------------------------------
(* The layers of a plan: a sequence of names, each with the title of the   *)
(* section header that opens it.                                           *)

\* Layering: each layer of the plan that some section opens, with its position.
\* A plan whose layers open out of the file's order is an error.
Opens(db, plan) ==
    LET sections(l) == {i \in 1..Len(db.outline) : db.outline[i].title = l.title}
        first(l) == CHOOSE i \in sections(l) : \A j \in sections(l) : i <= j
        opened == Filter(plan, {l \in Range(plan) : sections(l) # {}})
    IN [i \in 1..Len(opened) |-> [name |-> opened[i].name, index |-> first(opened[i]),
                                  at |-> db.outline[first(opened[i])].at]]

OutOfOrder(db, plan) ==
    LET opens == Opens(db, plan)
    IN \E i, j \in 1..Len(opens) : i < j /\ opens[i].index > opens[j].index

\* The layers that hold something of the walk, and the label each stops before.
Boundaries(db, plan, horizon) ==
    LET opens  == Opens(db, plan)
        kept   == {i \in 1..Len(opens) :
                     /\ opens[i].at <= Position(db, horizon)
                     /\ i < Len(opens) => opens[i + 1].at # opens[i].at}
        within == Filter([i \in 1..Len(opens) |-> i], kept)
    IN [i \in 1..Len(within) |->
          [name |-> opens[within[i]].name, at |-> opens[within[i]].at,
           stop |-> IF i = Len(within) THEN horizon
                    ELSE Label(db, opens[within[i + 1]].at)]]

\* A mutant: the variables of a layer stop where its notation does.
WrongVariableScope(db, stop, horizon) == stop

\* Where a layer's variables stop: at the assertion before the next layer's first.
VariableScope(db, stop, horizon) ==
    IF stop = horizon \/ Position(db, stop) = 0 THEN stop
    ELSE Label(db, Position(db, stop) - 1)

CorpusSpec(db, name, horizon) == BuildSpec(db, name, horizon, horizon)

CorpusSpecs(db, name, plan, horizon) ==
    LET bounds == Boundaries(db, plan, horizon)
        whole  == [i \in 1..Len(bounds) |->
                     BuildSpec(db, bounds[i].name, bounds[i].stop,
                               VariableScope(db, bounds[i].stop, horizon))]
        seen(i) == UNION {whole[j].productions : j \in 1..i-1}
    IN IF bounds = << >> THEN <<CorpusSpec(db, name, horizon)>>
       ELSE IF Len(bounds) = 1 THEN <<CorpusSpec(db, bounds[1].name, horizon)>>
       ELSE [i \in 1..Len(bounds) |->
               [name |-> bounds[i].name, productions |-> whole[i].productions \ seen(i),
                line |-> IF i = 1 THEN Last(whole).line ELSE NoSort]]

\* build_spec has no sort to read |- in, for a layer or for the whole.
SpecsUnreadable(db, plan, horizon) ==
    LET bounds == Boundaries(db, plan, horizon)
        spec(stop) == BuildSpec(db, "", stop, VariableScope(db, stop, horizon))
    IN \/ CorpusSpec(db, "", horizon).line = NoSort
       \/ Len(bounds) > 1 /\ \E i \in 1..Len(bounds) : spec(bounds[i].stop).line = NoSort

\* Where each stored layer opens.
CorpusLayers(db, plan, horizon) ==
    LET bounds == Boundaries(db, plan, horizon)
    IN IF Len(bounds) < 2 THEN <<0>> ELSE [i \in 1..Len(bounds) |-> bounds[i].at]

\* The layer a position falls in; what precedes every layer is the first's.
LayerOf(opens, p) ==
    LET past == {i \in 1..Len(opens) : opens[i] <= p}
    IN IF past = {} THEN 1 ELSE CHOOSE i \in past : \A j \in past : j <= i

\* layered_spec over productions and lines: one layer after another.
Layered(specs) ==
    [productions |-> UNION {specs[i].productions : i \in 1..Len(specs)}, line |-> specs[1].line]
=============================================================================
