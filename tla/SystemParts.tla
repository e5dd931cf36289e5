---------------------------- MODULE SystemParts ----------------------------
(* The rows a draft's grammar is made of, and the routes that create, patch, *)
(* delete and reorder them (app/routers/system_parts.py).                    *)
(*                                                                           *)
(* Symbols are sorts (unions) and productions; parts are line types,         *)
(* definitions, axioms and rules. The library holds the statements assumed   *)
(* in the draft (app/routers/assumptions.py). A payload names symbols, a row *)
(* holds their ids, and every foreign key to a symbol is ON DELETE CASCADE.  *)
(* A request takes the system's key, reads what it depends on, and commits.  *)
EXTENDS Naturals, Sequences, FiniteSets, Functions

CONSTANTS Requests, Symbols, Names, Parts, Entries, Vars, Operations, None,
          MaxPosition  \* a bound of the model: no row is created past it

VARIABLES
    symbols,  \* the rows of table symbols by id
    parts,    \* the rows of the other tables by id
    library,  \* the rows of the entries assumed here by id
    lock,     \* the holder of the system's advisory key
    req       \* each request with what it will write

vars == <<symbols, parts, library, lock, req>>

Classes == {"line", "definition", "axiom", "rule"}
Unbound == [v \in Vars |-> None]

\* The rows: each names symbols by id, in a column of its own or in its bindings.
\* A proviso is a metavariable and a sort, or no sort.
SymbolRows ==
  [union : BOOLEAN, name : Names, pos : Nat, member : Symbols \cup {None},
   bindings : [Vars -> Symbols \cup {None}]]

PartRows ==
  [class : Classes, pos : Nat, name : Names \cup {None}, sort : Symbols \cup {None},
   bindings : [Vars -> Symbols \cup {None}],
   provisos : SUBSET (Vars \X (Symbols \cup {None})),
   comment : BOOLEAN, scope : BOOLEAN, string : BOOLEAN, subproof : BOOLEAN,
   antecedents : BOOLEAN, uses : SUBSET Parts]

\* The sorts of an entry's metavariables, and its provisos.
EntryRows ==
  [bindings : [Vars -> Symbols \cup {None}], provisos : SUBSET (Vars \X (Symbols \cup {None}))]

\* A new row before its payload: the columns' defaults.
Blank(class) ==
  [class |-> class, pos |-> 0, name |-> None, sort |-> None, bindings |-> Unbound,
   provisos |-> {}, comment |-> FALSE, scope |-> FALSE, string |-> FALSE,
   subproof |-> FALSE, antecedents |-> FALSE, uses |-> {}]

----------------------------------------------------------------------------
(* What a request reads. *)

Stored == {s \in Symbols : symbols[s] # None}
Unions == {s \in Stored : symbols[s].union}
Kind(union) == {s \in Stored : symbols[s].union = union}
Rows(class) == {p \in Parts : parts[p] # None /\ parts[p].class = class}

\* The row of a name, among the symbols as the request's own writes leave them.
Named(syms, name) == {s \in Symbols : syms[s] # None /\ syms[s].name = name}
Resolves(syms, name) == Named(syms, name) # {}
Resolve(syms, name) == CHOOSE s \in Named(syms, name) : TRUE

\* The columns of a row that name a symbol, and the list the delete goes by.
BoundTo(row) == {row.bindings[v] : v \in Vars} \ {None}
ProvisoSorts(row) == {c[2] : c \in row.provisos} \ {None}
References(row) == BoundTo(row) \cup ProvisoSorts(row) \cup ({row.sort} \ {None})

EntryReferences(row) == BoundTo(row) \cup ProvisoSorts(row)

WrongSymbolReferenced(s) ==
  \/ \E p \in Parts : parts[p] # None /\ s \in BoundTo(parts[p]) \cup {parts[p].sort}
  \/ \E q \in Stored : s \in BoundTo(symbols[q])

\* Every column that names a symbol but one: the metavariables of an entry.
SymbolReferenced(s) ==
  \/ \E p \in Parts : parts[p] # None /\ s \in References(parts[p])
  \/ \E q \in Stored : s \in BoundTo(symbols[q])
  \/ \E e \in Entries : library[e] # None /\ s \in ProvisoSorts(library[e])

\* One past the last position; a gap a delete left is not filled.
NextAmong(positions) ==
  IF positions = {} THEN 0 ELSE 1 + CHOOSE n \in positions : \A m \in positions : m <= n
NextSymbolPosition(union) == NextAmong({symbols[s].pos : s \in Kind(union)})
NextPosition(class) == NextAmong({parts[p].pos : p \in Rows(class)})

\* Definitions layer by position: one is recognised when every notation its
\* defining form uses is one an earlier, recognised definition introduces.
Layered(ps) ==
  LET layer[n \in 0..Cardinality(Parts)] ==
        IF n = 0 THEN {}
        ELSE {p \in Parts : /\ ps[p] # None /\ ps[p].class = "definition"
                            /\ \A q \in ps[p].uses : q \in layer[n - 1] /\ ps[q].pos < ps[p].pos}
  IN  layer[Cardinality(Parts)]

----------------------------------------------------------------------------
(* Payloads: a function on the fields that are set, with names for symbols.  *)

\* The fields of each class's schema, and those a create cannot leave out.
Fields(class) ==
  CASE class = "line" -> {"name", "sort", "comment", "scope"}
    [] class = "definition" -> {"sort", "bindings", "provisos", "uses"}
    [] class = "axiom" -> {"bindings"}
    [] class = "rule" -> {"bindings", "provisos", "string", "subproof", "antecedents"}
Required(class) ==
  CASE class = "line" -> {"name"} [] class = "definition" -> {"sort"} [] OTHER -> {}

MaybeName == Names \cup {None}

IsPayload(payload, class) ==
  /\ DOMAIN payload \subseteq Fields(class)
  /\ "name" \in DOMAIN payload => payload.name \in Names
  /\ "sort" \in DOMAIN payload => payload.sort \in MaybeName
  /\ "bindings" \in DOMAIN payload => payload.bindings \in [Vars -> MaybeName]
  /\ "provisos" \in DOMAIN payload => payload.provisos \subseteq Vars \X MaybeName
  /\ \A f \in DOMAIN payload \cap {"comment", "scope", "string", "subproof", "antecedents"} :
       payload[f] \in BOOLEAN
  /\ "uses" \in DOMAIN payload => payload.uses \subseteq Parts

IsOperation(op) ==
  \/ op \in [kind : {"createSymbol"}, id : Symbols, name : Names, sort : MaybeName,
              bindings : [Vars -> MaybeName]]
  \/ op \in [kind : {"updateSymbol"}, id : Symbols, name : Names, sort : MaybeName,
              bindings : [Vars -> MaybeName] \cup {None}]
  \/ op \in [kind : {"deleteSymbol"}, id : Symbols]
  \/ op \in [kind : {"reorderSymbols"}, union : BOOLEAN, order : Seq(Symbols)]
  \/ /\ op.kind \in {"create", "update"}
     /\ op.class \in Classes /\ op.id \in Parts /\ IsPayload(op.payload, op.class)
  \/ op \in [kind : {"delete"}, class : Classes, id : Parts]
  \/ op \in [kind : {"reorder"}, class : Classes, order : Seq(Parts)]
  \/ op \in [kind : {"assume"}, id : Entries, bindings : [Vars -> MaybeName],
              provisos : SUBSET (Vars \X MaybeName)]
  \/ op \in [kind : {"withdraw"}, id : Entries]

\* None is no id, no name and no row.
ASSUME NoneAssumption ==
  None \notin Requests \cup Symbols \cup Names \cup SymbolRows \cup PartRows \cup EntryRows
ASSUME OperationsAssumption == \A op \in Operations : IsOperation(op)
ASSUME MaxPositionAssumption == MaxPosition \in Nat

Has(op, field) == field \in DOMAIN op.payload

NamesIn(op) ==
  ((IF Has(op, "sort") THEN {op.payload.sort} ELSE {})
    \cup (IF Has(op, "bindings") THEN {op.payload.bindings[v] : v \in Vars} ELSE {})
    \cup (IF Has(op, "provisos") THEN {c[2] : c \in op.payload.provisos} ELSE {})) \ {None}

Id(syms, name) == IF name = None THEN None ELSE Resolve(syms, name)

Resolved(op) ==
  [f \in DOMAIN op.payload |->
     CASE f = "sort" -> Id(symbols, op.payload.sort)
       [] f = "bindings" -> [v \in Vars |-> Id(symbols, op.payload.bindings[v])]
       [] f = "provisos" -> {<<c[1], Id(symbols, c[2])>> : c \in op.payload.provisos}
       [] OTHER -> op.payload[f]]

Merged(row, op) ==
  [f \in DOMAIN row |-> IF Has(op, f) THEN Resolved(op)[f] ELSE row[f]]

WrongMetavarsBound(row, op) ==
  Has(op, "provisos") => \A c \in row.provisos : row.bindings[c[1]] # None

\* Provisos are validated when the payload sets them, or moves the bindings
\* from under those the row keeps.
MetavarsBound(row, op) ==
  Has(op, "provisos") \/ Has(op, "bindings")
    => \A c \in row.provisos : row.bindings[c[1]] # None

\* What an assign refuses of the row it is left with, class by class.
Accepts(row, op) ==
  CASE row.class = "line" -> row.comment => row.sort = None /\ ~row.scope
    [] row.class = "definition" -> MetavarsBound(row, op)
    [] row.class = "axiom" -> TRUE
    [] row.class = "rule" ->
         /\ MetavarsBound(row, op)
         /\ ~(row.string /\ row.provisos # {})
         /\ row.subproof => ~row.antecedents /\ row.provisos = {}

\* A name a payload gives is free: among all symbols, among the line types.
NameFree(name, rows, id) == \A x \in DOMAIN rows \ {id} : rows[x] # None => rows[x].name # name

LineNames == [p \in Parts |-> IF p \in Rows("line") THEN parts[p] ELSE None]

\* A line's sort must be a union; the other bindings take any symbol.
SortsResolve(op, class) ==
  /\ \A n \in NamesIn(op) : Resolves(symbols, n)
  /\ class = "line" /\ Has(op, "sort") /\ op.payload.sort # None
       => Resolve(symbols, op.payload.sort) \in Unions

----------------------------------------------------------------------------
(* What each request decides to write: the rows it adds, changes or deletes  *)
(* by id, or None when it is refused.                                        *)

WriteSymbols(rows) == [symbols |-> rows, parts |-> <<>>, library |-> <<>>]
WriteParts(rows) == [symbols |-> <<>>, parts |-> rows, library |-> <<>>]
WriteEntries(rows) == [symbols |-> <<>>, parts |-> <<>>, library |-> rows]
Row(id, row) == [x \in {id} |-> row]

\* The sort a production is declared in is a union; its slots take any symbol.
InUnion(syms, name) ==
  name # None => Resolves(syms, name) /\ Resolve(syms, name) \in Unions
SlotsResolve(syms, bindings) ==
  \A v \in Vars : bindings[v] # None => Resolves(syms, bindings[v])
Slots(syms, bindings) == [v \in Vars |-> Id(syms, bindings[v])]

CreateSymbol(op) ==
  LET union == op.sort = None
      row == [union |-> union, name |-> op.name, pos |-> NextSymbolPosition(union),
              member |-> Id(symbols, op.sort), bindings |-> Slots(symbols, op.bindings)]
  IN  IF /\ symbols[op.id] = None /\ NextSymbolPosition(union) <= MaxPosition
         /\ NameFree(op.name, symbols, op.id)
         /\ InUnion(symbols, op.sort) /\ SlotsResolve(symbols, op.bindings)
      THEN WriteSymbols(Row(op.id, row)) ELSE None

\* A PATCH of a sort renames it; one of a production may also move it and give
\* it other slots. The queries that resolve names flush the new name first.
UpdateSymbol(op) ==
  LET named == [symbols EXCEPT ![op.id].name = op.name]
      moves == op.sort # None /\ op.id \in Kind(FALSE)
      rebinds == op.bindings # None /\ op.id \in Kind(FALSE)
  IN  IF /\ op.id \in Stored
         /\ NameFree(op.name, symbols, op.id)
         /\ moves => InUnion(named, op.sort)
         /\ rebinds => SlotsResolve(named, op.bindings)
      THEN WriteSymbols(Row(op.id, [named[op.id] EXCEPT
             !.member = IF moves THEN Id(named, op.sort) ELSE @,
             !.bindings = IF rebinds THEN Slots(named, op.bindings) ELSE @]))
      ELSE None

DeleteSymbol(op) ==
  IF /\ op.id \in Stored
     /\ ~SymbolReferenced(op.id)
     /\ op.id \in Unions => \A q \in Stored : symbols[q].member # op.id
  THEN WriteSymbols(Row(op.id, None)) ELSE None

\* The order names each member of the collection once.
Covers(order, ids) == Range(order) = ids /\ Len(order) = Cardinality(ids)
Reordered(rows, order) ==
  [x \in Range(order) |-> [rows[x] EXCEPT !.pos = (CHOOSE i \in DOMAIN order : order[i] = x) - 1]]

ReorderSymbols(op) ==
  IF Covers(op.order, Kind(op.union)) THEN WriteSymbols(Reordered(symbols, op.order)) ELSE None

CreatePart(op) ==
  LET row == Merged([Blank(op.class) EXCEPT !.pos = NextPosition(op.class)], op) IN
  IF /\ parts[op.id] = None /\ NextPosition(op.class) <= MaxPosition
     /\ Required(op.class) \subseteq DOMAIN op.payload
     /\ SortsResolve(op, op.class) /\ Accepts(row, op)
     /\ op.class = "line" => NameFree(row.name, LineNames, op.id)
  THEN WriteParts(Row(op.id, row)) ELSE None

UpdatePart(op) ==
  LET row == Merged(parts[op.id], op) IN
  IF /\ op.id \in Rows(op.class)
     /\ SortsResolve(op, op.class) /\ Accepts(row, op)
     /\ op.class = "line" => NameFree(row.name, LineNames, op.id)
  THEN WriteParts(Row(op.id, row)) ELSE None

DeletePart(op) ==
  IF op.id \in Rows(op.class) THEN WriteParts(Row(op.id, None)) ELSE None

After(rows, delta) == [x \in DOMAIN rows |-> IF x \in DOMAIN delta THEN delta[x] ELSE rows[x]]

\* The guard of a reorder: no definition that is recognised may stop being so.
WrongGuardDefinitionReorder(op) == TRUE
GuardDefinitionReorder(op) ==
  op.class = "definition" => Layered(parts) \subseteq Layered(After(parts, Reordered(parts, op.order)))

ReorderParts(op) ==
  IF Covers(op.order, Rows(op.class)) /\ GuardDefinitionReorder(op)
  THEN WriteParts(Reordered(parts, op.order)) ELSE None

\* A statement is assumed under a label that is free; what nothing rests on is
\* withdrawn, and nothing rests on these but themselves.
Assume(op) ==
  IF /\ library[op.id] = None
     /\ SlotsResolve(symbols, op.bindings)
     /\ \A c \in op.provisos : c[2] # None => Resolves(symbols, c[2])
  THEN WriteEntries(Row(op.id, [bindings |-> Slots(symbols, op.bindings),
                                provisos |-> {<<c[1], Id(symbols, c[2])>> : c \in op.provisos}]))
  ELSE None

Withdraw(op) ==
  IF library[op.id] # None THEN WriteEntries(Row(op.id, None)) ELSE None

Outcome(op) ==
  CASE op.kind = "createSymbol" -> CreateSymbol(op)
    [] op.kind = "updateSymbol" -> UpdateSymbol(op)
    [] op.kind = "deleteSymbol" -> DeleteSymbol(op)
    [] op.kind = "reorderSymbols" -> ReorderSymbols(op)
    [] op.kind = "create" -> CreatePart(op)
    [] op.kind = "update" -> UpdatePart(op)
    [] op.kind = "delete" -> DeletePart(op)
    [] op.kind = "reorder" -> ReorderParts(op)
    [] op.kind = "assume" -> Assume(op)
    [] op.kind = "withdraw" -> Withdraw(op)

----------------------------------------------------------------------------
(* A request: it takes the key, reads what it depends on and decides; then   *)
(* it commits. One that is refused changes nothing, and is no action.        *)

Idle == [stage |-> "idle"]

WrongEnter(r, op) ==
  LET write == Outcome(op) IN
  /\ req[r] = Idle
  /\ write # None
  /\ req' = [req EXCEPT ![r] = [stage |-> "read", write |-> write]]
  /\ UNCHANGED <<symbols, parts, library, lock>>

Enter(r, op) ==
  LET write == Outcome(op) IN
  /\ req[r] = Idle
  /\ lock = None
  /\ write # None
  /\ lock' = r
  /\ req' = [req EXCEPT ![r] = [stage |-> "read", write |-> write]]
  /\ UNCHANGED <<symbols, parts, library>>

\* The foreign keys cascade: a column that names a symbol which goes takes its row
\* along, a binding or a proviso only itself. A sort takes its members, and with
\* them the slots that name those.
Bound(bindings, syms) ==
  [v \in Vars |-> IF bindings[v] # None /\ syms[bindings[v]] = None THEN None ELSE bindings[v]]

CascadedSymbols(syms) ==
  LET left == [s \in Symbols |->
                 IF syms[s] # None /\ syms[s].member # None /\ syms[syms[s].member] = None
                 THEN None ELSE syms[s]]
  IN  [s \in Symbols |->
         IF left[s] = None THEN None ELSE [left[s] EXCEPT !.bindings = Bound(@, left)]]

Bearable(provisos, syms) == {c \in provisos : c[2] # None => syms[c[2]] # None}
Unsorted(row, syms) == row.sort # None /\ syms[row.sort] = None

Cascaded(rows, syms) ==
  [p \in Parts |->
     IF rows[p] = None \/ Unsorted(rows[p], syms) THEN None
     ELSE [rows[p] EXCEPT !.bindings = Bound(@, syms), !.provisos = Bearable(@, syms)]]

CascadedEntries(rows, syms) ==
  [e \in Entries |->
     IF rows[e] = None THEN None
     ELSE [rows[e] EXCEPT !.bindings = Bound(@, syms), !.provisos = Bearable(@, syms)]]

\* What the database refuses: a second symbol of a name, a symbol not there.
Violates(write) ==
  LET syms == After(symbols, write.symbols) IN
  \/ \E s, q \in Symbols : s # q /\ syms[s] # None /\ syms[q] # None /\ syms[s].name = syms[q].name
  \/ \E p \in DOMAIN write.parts :
       write.parts[p] # None /\ \E s \in References(write.parts[p]) : symbols[s] = None
  \/ \E e \in DOMAIN write.library :
       write.library[e] # None /\ \E s \in EntryReferences(write.library[e]) : symbols[s] = None

Commit(r) ==
  LET write == req[r].write IN
  /\ req[r].stage = "read"
  /\ IF Violates(write) THEN UNCHANGED <<symbols, parts, library>>
     ELSE /\ symbols' = CascadedSymbols(After(symbols, write.symbols))
          /\ parts' = Cascaded(After(parts, write.parts), symbols')
          /\ library' = CascadedEntries(After(library, write.library), symbols')
  /\ req' = [req EXCEPT ![r] = Idle]
  /\ lock' = IF lock = r THEN None ELSE lock

----------------------------------------------------------------------------

Init ==
  /\ symbols = [s \in Symbols |-> None]
  /\ parts = [p \in Parts |-> None]
  /\ library = [e \in Entries |-> None]
  /\ lock = None
  /\ req = [r \in Requests |-> Idle]

Next ==
  \E r \in Requests :
    \/ \E op \in Operations : Enter(r, op)
    \/ Commit(r)

Spec == Init /\ [][Next]_vars
=============================================================================
