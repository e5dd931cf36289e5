--------------------------- MODULE MCSystemParts ---------------------------
(* The parts of one draft under two requests.                                *)
EXTENDS SystemPartsProps, TLC

CONSTANTS r1, r2, a, b, m, n, x, y, e, v, none

TwoRequests == {r1, r2}
TwoSymbols == {a, b}
TwoNames == {m, n}
TwoParts == {x, y}
OneEntry == {e}
OneVar == {v}

Slot(name) == [w \in Vars |-> name]

SymbolOperations ==
       [kind : {"createSymbol"}, id : Symbols, name : Names, sort : {m, None},
        bindings : {Slot(None)}]
  \cup [kind : {"updateSymbol"}, id : Symbols, name : {m}, sort : {m, None}, bindings : {None, Slot(n)}]
  \cup [kind : {"deleteSymbol"}, id : Symbols]
  \cup [kind : {"reorderSymbols"}, union : BOOLEAN, order : {<<a>>, <<b>>, <<a, b>>, <<b, a>>}]

Changes(class) ==
  CASE class = "line" -> [name : {m}] \cup [sort : {m, None}] \cup [comment : BOOLEAN] \cup [scope : BOOLEAN]
    [] class = "definition" -> [sort : {m}] \cup [uses : {{}, {x}, {y}}]
    [] class = "rule" -> [string : BOOLEAN] \cup [subproof : BOOLEAN] \cup [antecedents : BOOLEAN]
                         \cup [bindings : {Slot(None), Slot(m)}]
                         \cup [bindings : {Slot(m)}, provisos : {{}, {<<v, n>>}}]
    [] class = "axiom" -> [bindings : {Slot(None), Slot(m)}]

\* What a create gives, besides the name or the sort it cannot leave out.
News(class) ==
  CASE class = "line" -> [name : Names] \cup [name : {m}, sort : {m}] \cup [name : {m}, comment : {TRUE}]
    [] class = "definition" -> [sort : {m}, uses : {{}, {x}, {y}}]
    [] OTHER -> Changes(class)

PartOperations(classes) ==
  UNION {[kind : {"create"}, class : {c}, id : Parts, payload : News(c)]
         \cup [kind : {"update"}, class : {c}, id : Parts, payload : Changes(c)] : c \in classes}
  \cup [kind : {"delete"}, class : classes, id : Parts]
  \cup [kind : {"reorder"}, class : classes, order : {<<x>>, <<y>>, <<x, y>>, <<y, x>>}]

EntryOperations ==
  [kind : {"assume"}, id : Entries, bindings : {Slot(m)}, provisos : {{<<v, n>>}}]
  \cup [kind : {"withdraw"}, id : Entries]

AllParts == SymbolOperations \cup EntryOperations \cup PartOperations({"line", "definition", "rule"})

Symmetric == Permutations(Requests) \cup Permutations(Symbols) \cup Permutations(Parts)

=============================================================================
