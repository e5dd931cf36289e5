------------------------- MODULE SystemPartsProofs -------------------------
(* Proofs, for any symbols, parts, entries, payloads and number of requests, *)
(* that a delete takes nothing along but the bindings of entries, and that   *)
(* the rows stay distinct and well formed. The key serialises the requests:  *)
(* what one decided is still what it would decide when it commits.           *)
EXTENDS SystemPartsProps, WellFoundedInduction, TLAPS

\* Every reference is to a symbol that is there, a production's own to a sort.
Whole(syms, ps) ==
  /\ \A s \in Symbols : syms[s] # None =>
       /\ syms[s].member # None =>
            ~syms[s].union /\ syms[syms[s].member] # None /\ syms[syms[s].member].union
       /\ \A v \in Vars : syms[s].bindings[v] # None => syms[syms[s].bindings[v]] # None
  /\ \A p \in Parts : ps[p] # None => \A s \in References(ps[p]) : syms[s] # None

\* An entry names no symbol that is not there.
EntriesWhole(syms, lib) ==
  \A e \in Entries : lib[e] # None =>
    /\ \A v \in Vars : lib[e].bindings[v] # None => syms[lib[e].bindings[v]] # None
    /\ \A c \in lib[e].provisos : c[2] # None => syms[c[2]] # None

\* Only the holder of the key has read, and its write is still the outcome of an
\* operation.
Decided ==
  \A r \in Requests :
    \/ req[r] = Idle
    \/ /\ lock = r
       /\ \E op \in Operations :
            /\ Outcome(op) # None
            /\ req[r] = [stage |-> "read", write |-> Outcome(op)]

\* Positions do not grow without bound, so each collection has a last one.
Bounded ==
  \E n \in Nat :
    /\ \A s \in Symbols : symbols[s] # None => symbols[s].pos <= n
    /\ \A p \in Parts : parts[p] # None => parts[p].pos <= n

\* A class leaves the columns of the others blank.
Own(row) ==
  /\ row.class # "line" => row.comment = FALSE /\ row.scope = FALSE
  /\ row.class # "rule" =>
       row.string = FALSE /\ row.subproof = FALSE /\ row.antecedents = FALSE
  /\ row.class \notin {"definition", "rule"} => row.provisos = {}

OwnColumns == \A p \in Parts : parts[p] # None => Own(parts[p])

WellFormed(row) ==
  /\ \A c \in row.provisos : row.bindings[c[1]] # None
  /\ row.string => row.provisos = {}
  /\ row.subproof => row.provisos = {} /\ ~row.antecedents
  /\ row.comment => row.sort = None /\ ~row.scope

RowsSound ==
  /\ Whole(symbols, parts) /\ EntriesWhole(symbols, library) /\ Bounded /\ OwnColumns
  /\ PartsWellFormed /\ CollectionsDistinct

IInv == TypeOK /\ Decided /\ RowsSound

----------------------------------------------------------------------------
(* Helpers of the model.                                                     *)

LEMMA IdleIsNotRead == Idle.stage = "idle" /\ "idle" # "read"
BY DEF Idle

\* A write of nothing.
LEMMA AfterNothing ==
  ASSUME NEW S, NEW T, NEW rows \in [S -> T]
  PROVE  After(rows, <<>>) = rows
<1>1. DOMAIN <<>> = {}
  OBVIOUS
<1>  QED BY <1>1 DEF After

\* A bounded set of positions has a greatest, so the next one is above them all.
LEMMA NextIsAbove ==
  ASSUME NEW ps \in SUBSET Nat, NEW n \in Nat, \A i \in ps : i <= n
  PROVE  NextAmong(ps) \in Nat /\ \A i \in ps : i < NextAmong(ps)
<1>1. CASE ps = {}
  BY <1>1 DEF NextAmong
<1>2. CASE ps # {}
  <2> DEFINE T == {n - i : i \in ps}
  <2>0. \A i \in ps : i \in Nat /\ n - i \in Nat
    OBVIOUS
  <2>1. T \subseteq Nat /\ T # {}
    BY <2>0, <1>2
  <2>2. PICK m \in T : \A k \in T : ~ (<<k, m>> \in OpToRel(<, Nat))
    <3> HIDE DEF T
    <3>  QED BY <2>1, WFMin, NatLessThanWellFounded
  <2>3. \A k \in T : ~(k < m)
    BY <2>1, <2>2 DEF OpToRel
  <2>4. PICK i \in ps : m = n - i
    BY <2>2
  <2>5. \A j \in ps : j <= i
    <3> TAKE j \in ps
    <3>1. n - j \in T
      OBVIOUS
    <3>2. ~(n - j < n - i)
      BY <3>1, <2>3, <2>4
    <3>  QED BY <3>2, <2>0
  <2> DEFINE top == CHOOSE k \in ps : \A j \in ps : j <= k
  <2>6. top \in ps /\ \A j \in ps : j <= top
    BY <2>5
  <2>7. NextAmong(ps) = 1 + top
    BY <1>2 DEF NextAmong
  <2> HIDE DEF top
  <2>  QED BY <2>6, <2>7
<1>  QED BY <1>1, <1>2

\* A name that resolves does so to a row that is there.
LEMMA ResolveIsStored ==
  ASSUME NEW syms, NEW name, Resolves(syms, name)
  PROVE  Resolve(syms, name) \in Symbols /\ syms[Resolve(syms, name)] # None
<1>1. Resolve(syms, name) \in Named(syms, name)
  BY DEF Resolves, Resolve
<1>  QED BY <1>1 DEF Named

\* Where every reference is whole, the foreign keys take nothing along.
LEMMA NothingToCascade ==
  ASSUME NEW syms \in [Symbols -> SymbolRows \cup {None}],
         NEW ps \in [Parts -> PartRows \cup {None}],
         Whole(syms, ps)
  PROVE  CascadedSymbols(syms) = syms /\ Cascaded(ps, syms) = ps
<1>1. ASSUME NEW b \in [Vars -> Symbols \cup {None}],
             \A v \in Vars : b[v] # None => syms[b[v]] # None
      PROVE  Bound(b, syms) = b
  BY <1>1 DEF Bound
<1>2. \A s \in Symbols :
        ~(syms[s] # None /\ syms[s].member # None /\ syms[syms[s].member] = None)
  BY DEF Whole
<1>3. \A s \in Symbols : syms[s] # None => [syms[s] EXCEPT !.bindings = Bound(@, syms)] = syms[s]
  <2> TAKE s \in Symbols
  <2> HAVE syms[s] # None
  <2>1. syms[s] \in SymbolRows
    OBVIOUS
  <2>2. syms[s].bindings \in [Vars -> Symbols \cup {None}]
    BY <2>1 DEF SymbolRows
  <2>3. Bound(syms[s].bindings, syms) = syms[s].bindings
    BY <2>2, <1>1 DEF Whole
  <2>  QED BY <2>1, <2>3 DEF SymbolRows
<1>4. CascadedSymbols(syms) = syms
  <2> DEFINE left == [s \in Symbols |->
                 IF syms[s] # None /\ syms[s].member # None /\ syms[syms[s].member] = None
                 THEN None ELSE syms[s]]
  <2>1. left = syms
    BY <1>2
  <2>2. CascadedSymbols(syms) =
          [s \in Symbols |-> IF left[s] = None THEN None
                             ELSE [left[s] EXCEPT !.bindings = Bound(@, left)]]
    BY DEF CascadedSymbols
  <2> HIDE DEF left
  <2>  QED BY <2>1, <2>2, <1>3
<1>5. \A p \in Parts : ps[p] # None =>
        /\ ~Unsorted(ps[p], syms)
        /\ [ps[p] EXCEPT !.bindings = Bound(@, syms), !.provisos = Bearable(@, syms)] = ps[p]
  <2> TAKE p \in Parts
  <2> HAVE ps[p] # None
  <2>1. ps[p] \in PartRows
    OBVIOUS
  <2>2. \A s \in References(ps[p]) : syms[s] # None
    BY DEF Whole
  <2>3. ps[p].bindings \in [Vars -> Symbols \cup {None}]
    BY <2>1 DEF PartRows
  <2>4. \A v \in Vars : ps[p].bindings[v] # None => syms[ps[p].bindings[v]] # None
    BY <2>2 DEF References, BoundTo
  <2>5. Bound(ps[p].bindings, syms) = ps[p].bindings
    BY <2>3, <2>4, <1>1
  <2>6. Bearable(ps[p].provisos, syms) = ps[p].provisos
    BY <2>2 DEF References, ProvisoSorts, Bearable
  <2>7. ~Unsorted(ps[p], syms)
    BY <2>2 DEF References, Unsorted
  <2>  QED BY <2>1, <2>5, <2>6, <2>7 DEF PartRows
<1>6. Cascaded(ps, syms) = ps
  BY <1>5 DEF Cascaded
<1>  QED BY <1>4, <1>6

----------------------------------------------------------------------------
(* What the operations on symbols decide.                                    *)

\* A row that may be put under an id: what it names is there, it is a symbol of
\* the kind and at the place it was, or else comes after the others of its kind.
SymbolFits(s, row) ==
  /\ row \in SymbolRows
  /\ row.member # None =>
       ~row.union /\ symbols[row.member] # None /\ symbols[row.member].union
  /\ \A v \in Vars : row.bindings[v] # None => row.bindings[v] = s \/ symbols[row.bindings[v]] # None
  /\ symbols[s] # None => row.union = symbols[s].union /\ row.pos = symbols[s].pos
  /\ symbols[s] = None => \A q \in Kind(row.union) : symbols[q].pos < row.pos

LEMMA IdTyped ==
  ASSUME NEW syms, NEW name, name # None => Resolves(syms, name)
  PROVE  /\ Id(syms, name) \in Symbols \cup {None}
         /\ Id(syms, name) # None => name # None /\ syms[Id(syms, name)] # None
BY ResolveIsStored DEF Id

LEMMA SlotsTyped ==
  ASSUME NEW syms, NEW b, SlotsResolve(syms, b)
  PROVE  /\ Slots(syms, b) \in [Vars -> Symbols \cup {None}]
         /\ \A v \in Vars : Slots(syms, b)[v] # None => syms[Slots(syms, b)[v]] # None
<1>1. \A v \in Vars : /\ Id(syms, b[v]) \in Symbols \cup {None}
                      /\ Id(syms, b[v]) # None => syms[Id(syms, b[v])] # None
  BY IdTyped DEF SlotsResolve
<1>  QED BY <1>1 DEF Slots

LEMMA PlaceOfSymbol ==
  ASSUME TypeOK, Bounded, NEW u \in BOOLEAN
  PROVE  /\ NextSymbolPosition(u) \in Nat
         /\ \A q \in Kind(u) : symbols[q].pos < NextSymbolPosition(u)
<1> DEFINE ps == {symbols[q].pos : q \in Kind(u)}
<1>1. PICK n \in Nat : \A s \in Symbols : symbols[s] # None => symbols[s].pos <= n
  BY DEF Bounded
<1>2. \A q \in Kind(u) : symbols[q].pos \in Nat /\ symbols[q].pos <= n
  BY <1>1 DEF Kind, Stored, TypeOK, SymbolRows
<1>3. ps \in SUBSET Nat /\ \A i \in ps : i <= n
  BY <1>2
<1>4. NextSymbolPosition(u) = NextAmong(ps)
  BY DEF NextSymbolPosition
<1>5. \A q \in Kind(u) : symbols[q].pos \in ps
  OBVIOUS
<1> HIDE DEF ps
<1>  QED BY <1>3, <1>4, <1>5, NextIsAbove

LEMMA CreateSymbolFits ==
  ASSUME TypeOK, Bounded, NEW op, IsOperation(op), op.kind = "createSymbol",
         CreateSymbol(op) # None
  PROVE  \E row : SymbolFits(op.id, row) /\ CreateSymbol(op) = WriteSymbols(Row(op.id, row))
<1> DEFINE u == op.sort = None
           row == [union |-> u, name |-> op.name, pos |-> NextSymbolPosition(u),
                   member |-> Id(symbols, op.sort), bindings |-> Slots(symbols, op.bindings)]
<1>1. op.id \in Symbols /\ op.name \in Names
  BY DEF IsOperation
<1>2. /\ symbols[op.id] = None /\ InUnion(symbols, op.sort) /\ SlotsResolve(symbols, op.bindings)
      /\ CreateSymbol(op) = WriteSymbols(Row(op.id, row))
  BY DEF CreateSymbol
<1>3. /\ NextSymbolPosition(u) \in Nat
      /\ \A q \in Kind(u) : symbols[q].pos < NextSymbolPosition(u)
  BY PlaceOfSymbol
<1>4. /\ Id(symbols, op.sort) \in Symbols \cup {None}
      /\ Id(symbols, op.sort) # None =>
           symbols[Id(symbols, op.sort)] # None /\ symbols[Id(symbols, op.sort)].union
  BY <1>2, IdTyped DEF InUnion, Unions, Stored, Id
<1> u \in BOOLEAN /\ (Id(symbols, op.sort) # None => ~u)
  BY DEF Id
<1>5. /\ Slots(symbols, op.bindings) \in [Vars -> Symbols \cup {None}]
      /\ \A v \in Vars : Slots(symbols, op.bindings)[v] # None
                            => symbols[Slots(symbols, op.bindings)[v]] # None
  BY <1>2, SlotsTyped
<1>6. row \in SymbolRows
  BY <1>1, <1>3, <1>4, <1>5 DEF SymbolRows
<1>7. SymbolFits(op.id, row)
  BY <1>2, <1>3, <1>4, <1>5, <1>6 DEF SymbolFits
<1>  QED BY <1>2, <1>7

LEMMA UpdateSymbolFits ==
  ASSUME TypeOK, Whole(symbols, parts), NEW op, IsOperation(op), op.kind = "updateSymbol",
         UpdateSymbol(op) # None
  PROVE  \E row : SymbolFits(op.id, row) /\ UpdateSymbol(op) = WriteSymbols(Row(op.id, row))
<1> DEFINE named == [symbols EXCEPT ![op.id].name = op.name]
           moves == op.sort # None /\ op.id \in Kind(FALSE)
           rebinds == op.bindings # None /\ op.id \in Kind(FALSE)
           row == [named[op.id] EXCEPT
             !.member = IF moves THEN Id(named, op.sort) ELSE @,
             !.bindings = IF rebinds THEN Slots(named, op.bindings) ELSE @]
<1>1. op.id \in Symbols /\ op.name \in Names
  BY DEF IsOperation
<1>2. /\ op.id \in Stored
      /\ moves => InUnion(named, op.sort)
      /\ rebinds => SlotsResolve(named, op.bindings)
      /\ UpdateSymbol(op) = WriteSymbols(Row(op.id, row))
  BY DEF UpdateSymbol
<1>3. symbols[op.id] # None /\ symbols[op.id] \in SymbolRows
  BY <1>1, <1>2 DEF Stored, TypeOK
<1>4. \A q \in Symbols : named[q] # None => symbols[q] # None
  BY <1>3 DEF TypeOK
<1>5. named[op.id] = [symbols[op.id] EXCEPT !.name = op.name]
  BY <1>1 DEF TypeOK
<1> DEFINE member == IF moves THEN Id(named, op.sort) ELSE symbols[op.id].member
           slots == IF rebinds THEN Slots(named, op.bindings) ELSE symbols[op.id].bindings
<1>6. row = [symbols[op.id] EXCEPT !.name = op.name, !.member = member, !.bindings = slots]
  <2> HIDE DEF named, moves, rebinds
  <2>1. symbols[op.id] = [union |-> symbols[op.id].union, name |-> symbols[op.id].name,
                          pos |-> symbols[op.id].pos, member |-> symbols[op.id].member,
                          bindings |-> symbols[op.id].bindings]
    BY <1>3 DEF SymbolRows
  <2>  QED BY <1>5, <2>1
<1>7. /\ member \in Symbols \cup {None}
      /\ member # None =>
           ~symbols[op.id].union /\ symbols[member] # None /\ symbols[member].union
  <2>1. CASE moves
    <3>1. Resolves(named, op.sort) /\ Resolve(named, op.sort) \in Unions
      BY <1>2, <2>1 DEF InUnion
    <3>2. member = Resolve(named, op.sort)
      BY <2>1 DEF Id
    <3>3. ~symbols[op.id].union
      BY <2>1 DEF Kind
    <3> HIDE DEF member, named
    <3>  QED BY <3>1, <3>2, <3>3 DEF Unions, Stored
  <2>2. CASE ~moves
    <3>1. member = symbols[op.id].member
      BY <2>2
    <3>2. member \in Symbols \cup {None}
      BY <1>3, <3>1 DEF SymbolRows
    <3>3. member # None =>
            ~symbols[op.id].union /\ symbols[member] # None /\ symbols[member].union
      BY <1>1, <1>3, <3>1 DEF Whole
    <3>  QED BY <3>1, <3>2, <3>3
  <2>  QED BY <2>1, <2>2
<1>8. /\ slots \in [Vars -> Symbols \cup {None}]
      /\ \A v \in Vars : slots[v] # None => symbols[slots[v]] # None
  <2>1. CASE rebinds
    <3>1. slots = Slots(named, op.bindings) /\ SlotsResolve(named, op.bindings)
      BY <1>2, <2>1
    <3> HIDE DEF slots, named
    <3>2. /\ slots \in [Vars -> Symbols \cup {None}]
          /\ \A v \in Vars : slots[v] # None => named[slots[v]] # None
      BY <3>1, SlotsTyped
    <3>  QED BY <3>2, <1>4
  <2>2. CASE ~rebinds
    <3>1. slots = symbols[op.id].bindings
      BY <2>2
    <3>2. slots \in [Vars -> Symbols \cup {None}]
      BY <1>3, <3>1 DEF SymbolRows
    <3>3. \A v \in Vars : symbols[op.id].bindings[v] # None
                        => symbols[symbols[op.id].bindings[v]] # None
      BY <1>1, <1>3 DEF Whole
    <3> HIDE DEF slots
    <3>  QED BY <3>1, <3>2, <3>3
  <2>  QED BY <2>1, <2>2
<1> HIDE DEF named, moves, rebinds, member, slots
<1>9. /\ row \in SymbolRows /\ row.member = member /\ row.bindings = slots
      /\ row.union = symbols[op.id].union /\ row.pos = symbols[op.id].pos
  <2> HIDE DEF row
  <2>  QED BY <1>1, <1>3, <1>6, <1>7, <1>8 DEF SymbolRows
<1> HIDE DEF row
<1>10. SymbolFits(op.id, row)
  BY <1>3, <1>7, <1>8, <1>9 DEF SymbolFits
<1>  QED BY <1>2, <1>10

\* The rows of some ids, each moved to a place of its own.
Placed(new, rows, ids) ==
  /\ DOMAIN new = ids
  /\ \E n \in Nat : \E place \in [ids -> Nat] : \A x \in ids :
       /\ new[x] = [rows[x] EXCEPT !.pos = place[x]]
       /\ place[x] <= n
       /\ \A y \in ids : place[x] = place[y] => x = y

LEMMA ReorderedRows ==
  ASSUME NEW S, NEW order \in Seq(S), NEW rows
  PROVE  Placed(Reordered(rows, order), rows, Range(order))
<1> DEFINE at(x) == CHOOSE i \in DOMAIN order : order[i] = x
<1>1. /\ \A i \in DOMAIN order : i \in Nat \ {0} /\ i <= Len(order) /\ order[i] \in S
      /\ Len(order) \in Nat
  OBVIOUS
<1>2. \A x \in Range(order) : at(x) \in DOMAIN order /\ order[at(x)] = x
  BY DEF Range
<1>4. /\ DOMAIN Reordered(rows, order) = Range(order)
      /\ \A x \in Range(order) : Reordered(rows, order)[x] = [rows[x] EXCEPT !.pos = at(x) - 1]
  BY DEF Reordered
<1> HIDE DEF at
<1>5. \A x, y \in Range(order) : at(x) - 1 = at(y) - 1 => x = y
  BY <1>1, <1>2
<1>6. \A x \in Range(order) : at(x) - 1 \in Nat /\ at(x) - 1 <= Len(order)
  BY <1>1, <1>2
<1> DEFINE place == [x \in Range(order) |-> at(x) - 1]
<1>7. place \in [Range(order) -> Nat] /\ \A x \in Range(order) : place[x] = at(x) - 1
  BY <1>6
<1> HIDE DEF place
<1>8. \A x \in Range(order) :
        /\ Reordered(rows, order)[x] = [rows[x] EXCEPT !.pos = place[x]]
        /\ place[x] <= Len(order)
        /\ \A y \in Range(order) : place[x] = place[y] => x = y
  BY <1>4, <1>5, <1>6, <1>7
<1>  QED BY <1>1, <1>4, <1>7, <1>8 DEF Placed

\* What a reorder of symbols leaves: the rows of one kind with new places.
SymbolsMoved(u, new) ==
  /\ DOMAIN new = Kind(u)
  /\ \A s \in Kind(u) :
       /\ new[s] = [symbols[s] EXCEPT !.pos = new[s].pos]
       /\ new[s] \in SymbolRows
       /\ \A q \in Kind(u) : new[s].pos = new[q].pos => s = q
  /\ \E n \in Nat : \A s \in Kind(u) : new[s].pos <= n

LEMMA ReorderSymbolsMoves ==
  ASSUME TypeOK, NEW op, IsOperation(op), op.kind = "reorderSymbols",
         ReorderSymbols(op) # None
  PROVE  \E new : SymbolsMoved(op.union, new) /\ ReorderSymbols(op) = WriteSymbols(new)
<1> DEFINE new == Reordered(symbols, op.order)
<1>1. op.order \in Seq(Symbols) /\ op.union \in BOOLEAN
  BY DEF IsOperation
<1>2. Range(op.order) = Kind(op.union) /\ ReorderSymbols(op) = WriteSymbols(new)
  BY DEF ReorderSymbols, Covers
<1>3. Placed(new, symbols, Kind(op.union))
  BY <1>1, <1>2, ReorderedRows
<1> HIDE DEF new
<1> PICK n \in Nat, place \in [Kind(op.union) -> Nat] : \A x \in Kind(op.union) :
      /\ new[x] = [symbols[x] EXCEPT !.pos = place[x]]
      /\ place[x] <= n
      /\ \A y \in Kind(op.union) : place[x] = place[y] => x = y
  BY <1>3 DEF Placed
<1>4. \A s \in Kind(op.union) : symbols[s] \in SymbolRows
  BY DEF Kind, Stored, TypeOK
<1>5. \A s \in Kind(op.union) : new[s] \in SymbolRows /\ new[s].pos = place[s]
  <2> TAKE s \in Kind(op.union)
  <2>1. new[s] = [symbols[s] EXCEPT !.pos = place[s]] /\ place[s] \in Nat
    OBVIOUS
  <2>  QED BY <1>4, <2>1 DEF SymbolRows
<1>6. \A s \in Kind(op.union) : new[s] = [symbols[s] EXCEPT !.pos = new[s].pos]
  BY <1>5
<1>7. SymbolsMoved(op.union, new)
  BY <1>3, <1>5, <1>6 DEF SymbolsMoved, Placed
<1>  QED BY <1>2, <1>7

\* What a delete of a symbol leaves without referrers.
LEMMA DeleteSymbolFrees ==
  ASSUME TypeOK, Whole(symbols, parts), NEW op, IsOperation(op), op.kind = "deleteSymbol",
         DeleteSymbol(op) # None
  PROVE  /\ DeleteSymbol(op) = WriteSymbols(Row(op.id, None))
         /\ op.id \in Symbols
         /\ \A e \in Entries : library[e] # None => op.id \notin ProvisoSorts(library[e])
         /\ \A p \in Parts : parts[p] # None => op.id \notin References(parts[p])
         /\ \A q \in Symbols : symbols[q] # None =>
              symbols[q].member # op.id /\ \A v \in Vars : symbols[q].bindings[v] # op.id
<1>1. op.id \in Symbols
  BY DEF IsOperation
<1>2. /\ DeleteSymbol(op) = WriteSymbols(Row(op.id, None))
      /\ op.id \in Stored /\ ~SymbolReferenced(op.id)
      /\ op.id \in Unions => \A q \in Stored : symbols[q].member # op.id
  BY DEF DeleteSymbol
<1>3. ASSUME NEW q \in Symbols, symbols[q] # None
      PROVE  symbols[q].member # op.id
  <2>1. CASE op.id \in Unions
    BY <1>2, <1>3, <2>1 DEF Stored
  <2>2. CASE op.id \notin Unions
    BY <1>1, <1>2, <1>3, <2>2, NoneAssumption DEF Whole, Unions
  <2>  QED BY <2>1, <2>2
<1>4. ASSUME NEW q \in Symbols, symbols[q] # None, NEW v \in Vars
      PROVE  symbols[q].bindings[v] # op.id
  BY <1>1, <1>2, <1>4, NoneAssumption DEF SymbolReferenced, Stored, BoundTo
<1>  QED BY <1>1, <1>2, <1>3, <1>4 DEF SymbolReferenced

----------------------------------------------------------------------------
(* What the operations on parts decide.                                      *)

PartFits(p, row) ==
  /\ row \in PartRows /\ Own(row) /\ WellFormed(row)
  /\ \A s \in References(row) : symbols[s] # None
  /\ parts[p] # None => row.class = parts[p].class /\ row.pos = parts[p].pos
  /\ parts[p] = None => \A q \in Rows(row.class) : parts[q].pos < row.pos
  /\ row.class = "line" => \A q \in Rows("line") \ {p} : parts[q].name # row.name

\* The fields of a payload whose names resolve.
LEMMA ResolvedFields ==
  ASSUME NEW op, op.class \in Classes, IsPayload(op.payload, op.class),
         SortsResolve(op, op.class)
  PROVE  /\ Has(op, "name") => Resolved(op).name \in Names
         /\ Has(op, "sort") =>
              /\ Resolved(op).sort \in Symbols \cup {None}
              /\ Resolved(op).sort # None => symbols[Resolved(op).sort] # None
         /\ Has(op, "bindings") =>
              /\ Resolved(op).bindings \in [Vars -> Symbols \cup {None}]
              /\ \A v \in Vars : Resolved(op).bindings[v] # None
                                => symbols[Resolved(op).bindings[v]] # None
         /\ Has(op, "provisos") =>
              /\ Resolved(op).provisos \in SUBSET (Vars \X (Symbols \cup {None}))
              /\ \A c \in Resolved(op).provisos : c[2] # None => symbols[c[2]] # None
         /\ Has(op, "uses") => Resolved(op).uses \in SUBSET Parts
         /\ \A f \in {"comment", "scope", "string", "subproof", "antecedents"} :
              Has(op, f) => Resolved(op)[f] \in BOOLEAN
<1>1. ASSUME NEW n, n # None => n \in NamesIn(op)
      PROVE  /\ Id(symbols, n) \in Symbols \cup {None}
             /\ Id(symbols, n) # None => symbols[Id(symbols, n)] # None
  BY <1>1, IdTyped DEF SortsResolve
<1>2. Has(op, "name") => Resolved(op).name \in Names
  BY DEF IsPayload, Resolved, Has
<1>3. Has(op, "sort") =>
        /\ Resolved(op).sort \in Symbols \cup {None}
        /\ Resolved(op).sort # None => symbols[Resolved(op).sort] # None
  <2> HAVE Has(op, "sort")
  <2>1. Resolved(op).sort = Id(symbols, op.payload.sort)
    BY DEF Resolved, Has
  <2>2. op.payload.sort # None => op.payload.sort \in NamesIn(op)
    BY DEF NamesIn
  <2>  QED BY <2>1, <2>2, <1>1
<1>4. Has(op, "bindings") =>
        /\ Resolved(op).bindings \in [Vars -> Symbols \cup {None}]
        /\ \A v \in Vars : Resolved(op).bindings[v] # None
                          => symbols[Resolved(op).bindings[v]] # None
  <2> HAVE Has(op, "bindings")
  <2>1. Resolved(op).bindings = [v \in Vars |-> Id(symbols, op.payload.bindings[v])]
    BY DEF Resolved, Has
  <2>2. \A v \in Vars : op.payload.bindings[v] # None => op.payload.bindings[v] \in NamesIn(op)
    BY DEF NamesIn
  <2>3. \A v \in Vars :
          /\ Id(symbols, op.payload.bindings[v]) \in Symbols \cup {None}
          /\ Id(symbols, op.payload.bindings[v]) # None
               => symbols[Id(symbols, op.payload.bindings[v])] # None
    BY <2>2, <1>1
  <2>  QED BY <2>1, <2>3
<1>5. Has(op, "provisos") =>
        /\ Resolved(op).provisos \in SUBSET (Vars \X (Symbols \cup {None}))
        /\ \A c \in Resolved(op).provisos : c[2] # None => symbols[c[2]] # None
  <2> HAVE Has(op, "provisos")
  <2>1. Resolved(op).provisos = {<<c[1], Id(symbols, c[2])>> : c \in op.payload.provisos}
    BY DEF Resolved, Has
  <2>2. \A c \in op.payload.provisos : c[1] \in Vars /\ (c[2] # None => c[2] \in NamesIn(op))
    BY DEF NamesIn, IsPayload, Has
  <2>3. \A c \in op.payload.provisos :
          /\ Id(symbols, c[2]) \in Symbols \cup {None}
          /\ Id(symbols, c[2]) # None => symbols[Id(symbols, c[2])] # None
    BY <2>2, <1>1
  <2>  QED BY <2>1, <2>2, <2>3
<1>6. Has(op, "uses") => Resolved(op).uses \in SUBSET Parts
  BY DEF IsPayload, Resolved, Has
<1>7. \A f \in {"comment", "scope", "string", "subproof", "antecedents"} :
        Has(op, f) => Resolved(op)[f] \in BOOLEAN
  <2> TAKE f \in {"comment", "scope", "string", "subproof", "antecedents"}
  <2> HAVE Has(op, f)
  <2>1. Resolved(op)[f] = op.payload[f]
    BY DEF Resolved, Has
  <2>2. op.payload[f] \in BOOLEAN
    BY DEF IsPayload, Has
  <2>  QED BY <2>1, <2>2
<1>  QED BY <1>2, <1>3, <1>4, <1>5, <1>6, <1>7

\* A payload merged into a row the class may have leaves one, if it is accepted.
LEMMA MergedRow ==
  ASSUME NEW op, op.class \in Classes, IsPayload(op.payload, op.class),
         SortsResolve(op, op.class),
         NEW row \in PartRows, row.class = op.class, Own(row), WellFormed(row),
         \A s \in References(row) : symbols[s] # None,
         Accepts(Merged(row, op), op)
  PROVE  LET new == Merged(row, op) IN
         /\ new \in PartRows /\ new.class = row.class /\ new.pos = row.pos
         /\ Own(new) /\ WellFormed(new)
         /\ \A s \in References(new) : symbols[s] # None
<1> DEFINE new == Merged(row, op)
<1>1. /\ DOMAIN row = {"class", "pos", "name", "sort", "bindings", "provisos", "comment",
                       "scope", "string", "subproof", "antecedents", "uses"}
      /\ row.class \in Classes /\ row.pos \in Nat /\ row.name \in Names \cup {None}
      /\ row.sort \in Symbols \cup {None}
      /\ row.bindings \in [Vars -> Symbols \cup {None}]
      /\ row.provisos \in SUBSET (Vars \X (Symbols \cup {None}))
      /\ row.comment \in BOOLEAN /\ row.scope \in BOOLEAN /\ row.string \in BOOLEAN
      /\ row.subproof \in BOOLEAN /\ row.antecedents \in BOOLEAN
      /\ row.uses \in SUBSET Parts
  BY DEF PartRows
<1>2. /\ new = [f \in DOMAIN row |-> new[f]]
      /\ \A f \in DOMAIN row : /\ Has(op, f) => new[f] = Resolved(op)[f]
                               /\ ~Has(op, f) => new[f] = row[f]
  BY DEF Merged
<1>3. \A f : Has(op, f) => f \in Fields(op.class)
  BY DEF IsPayload, Has
<1>4. ~Has(op, "class") /\ ~Has(op, "pos")
  BY <1>3 DEF Fields, Classes
<1>5. /\ op.class # "line" => ~Has(op, "comment") /\ ~Has(op, "scope")
      /\ op.class # "rule" => ~Has(op, "string") /\ ~Has(op, "subproof") /\ ~Has(op, "antecedents")
      /\ op.class \notin {"definition", "rule"} => ~Has(op, "provisos")
  BY <1>3 DEF Fields, Classes
<1> HIDE DEF new
<1>6. /\ new.class = row.class /\ new.pos = row.pos
  BY <1>1, <1>2, <1>4
<1>7. /\ new.name \in Names \cup {None}
      /\ new.sort \in Symbols \cup {None}
      /\ new.sort # None => symbols[new.sort] # None
  BY <1>1, <1>2, ResolvedFields DEF References
<1>8. /\ new.bindings \in [Vars -> Symbols \cup {None}]
      /\ \A v \in Vars : new.bindings[v] # None => symbols[new.bindings[v]] # None
  <2>1. \A v \in Vars : row.bindings[v] # None => symbols[row.bindings[v]] # None
    BY DEF References, BoundTo
  <2>  QED BY <1>1, <1>2, <2>1, ResolvedFields
<1>9. /\ new.provisos \in SUBSET (Vars \X (Symbols \cup {None}))
      /\ \A c \in new.provisos : c[2] # None => symbols[c[2]] # None
  <2>1. \A c \in row.provisos : c[2] # None => symbols[c[2]] # None
    BY DEF References, ProvisoSorts
  <2>  QED BY <1>1, <1>2, <2>1, ResolvedFields
<1>10. \A f \in {"comment", "scope", "string", "subproof", "antecedents"} : new[f] \in BOOLEAN
  <2> TAKE f \in {"comment", "scope", "string", "subproof", "antecedents"}
  <2>1. Has(op, f) => Resolved(op)[f] \in BOOLEAN
    BY ResolvedFields
  <2>2. row[f] \in BOOLEAN /\ f \in DOMAIN row
    BY <1>1
  <2>  QED BY <1>2, <2>1, <2>2
<1>11. new.uses \in SUBSET Parts
  BY <1>1, <1>2, ResolvedFields
<1>12. new \in PartRows
  BY <1>1, <1>2, <1>6, <1>7, <1>8, <1>9, <1>10, <1>11 DEF PartRows
<1>13. \A s \in References(new) : symbols[s] # None
  BY <1>7, <1>8, <1>9 DEF References, BoundTo, ProvisoSorts
<1>14. Own(new)
  <2>1. /\ ~Has(op, "comment") => new.comment = row.comment
        /\ ~Has(op, "scope") => new.scope = row.scope
        /\ ~Has(op, "string") => new.string = row.string
        /\ ~Has(op, "subproof") => new.subproof = row.subproof
        /\ ~Has(op, "antecedents") => new.antecedents = row.antecedents
        /\ ~Has(op, "provisos") => new.provisos = row.provisos
    BY <1>1, <1>2
  <2>  QED BY <2>1, <1>5, <1>6 DEF Own
<1>15. WellFormed(new)
  <2>1. \A c \in row.provisos : row.bindings[c[1]] # None
    BY DEF WellFormed
  <2>2. Accepts(new, op)
    BY DEF new
  <2>3. \A c \in new.provisos : new.bindings[c[1]] # None
    <3>1. CASE op.class \in {"definition", "rule"}
      <4>1. MetavarsBound(new, op)
        BY <1>6, <2>2, <3>1 DEF Accepts
      <4>2. CASE Has(op, "provisos") \/ Has(op, "bindings")
        BY <4>1, <4>2 DEF MetavarsBound
      <4>3. CASE ~Has(op, "provisos") /\ ~Has(op, "bindings")
        BY <1>1, <1>2, <2>1, <4>3
      <4>  QED BY <4>2, <4>3
    <3>2. CASE op.class \notin {"definition", "rule"}
      BY <1>6, <1>14, <3>2 DEF Own
    <3>  QED BY <3>1, <3>2
  <2>4. /\ new.string => new.provisos = {}
        /\ new.subproof => new.provisos = {} /\ ~new.antecedents
    <3>1. CASE op.class = "rule"
      BY <1>6, <2>2, <3>1 DEF Accepts
    <3>2. CASE op.class # "rule"
      BY <1>6, <1>14, <3>2 DEF Own
    <3>  QED BY <3>1, <3>2
  <2>5. new.comment => new.sort = None /\ ~new.scope
    <3>1. CASE op.class = "line"
      BY <1>6, <2>2, <3>1 DEF Accepts
    <3>2. CASE op.class # "line"
      BY <1>6, <1>14, <3>2 DEF Own
    <3>  QED BY <3>1, <3>2
  <2>  QED BY <2>3, <2>4, <2>5 DEF WellFormed
<1>  QED BY <1>6, <1>12, <1>13, <1>14, <1>15 DEF new

LEMMA PlaceOfPart ==
  ASSUME TypeOK, Bounded, NEW class \in Classes
  PROVE  /\ NextPosition(class) \in Nat
         /\ \A q \in Rows(class) : parts[q].pos < NextPosition(class)
<1> DEFINE ps == {parts[q].pos : q \in Rows(class)}
<1>1. PICK n \in Nat : \A p \in Parts : parts[p] # None => parts[p].pos <= n
  BY DEF Bounded
<1>2. \A q \in Rows(class) : parts[q].pos \in Nat /\ parts[q].pos <= n
  BY <1>1 DEF Rows, TypeOK, PartRows
<1>3. ps \in SUBSET Nat /\ \A i \in ps : i <= n
  BY <1>2
<1>4. NextPosition(class) = NextAmong(ps)
  BY DEF NextPosition
<1>5. \A q \in Rows(class) : parts[q].pos \in ps
  OBVIOUS
<1> HIDE DEF ps
<1>  QED BY <1>3, <1>4, <1>5, NextIsAbove

\* A name the check found free is no other line's.
LEMMA FreeName ==
  ASSUME TypeOK, NEW p, NEW name, NameFree(name, LineNames, p)
  PROVE  \A q \in Rows("line") \ {p} : parts[q].name # name
<1> TAKE q \in Rows("line") \ {p}
<1>1. q \in Parts /\ parts[q] # None
  BY DEF Rows
<1>2. LineNames[q] = parts[q] /\ q \in DOMAIN LineNames
  BY <1>1 DEF LineNames
<1>  QED BY <1>1, <1>2 DEF NameFree

LEMMA CreatePartFits ==
  ASSUME TypeOK, Bounded, NEW op, IsOperation(op), op.kind = "create", CreatePart(op) # None
  PROVE  /\ op.id \in Parts
         /\ \E row : PartFits(op.id, row) /\ CreatePart(op) = WriteParts(Row(op.id, row))
<1> DEFINE blank == [Blank(op.class) EXCEPT !.pos = NextPosition(op.class)]
           row == Merged(blank, op)
<1>1. op.class \in Classes /\ op.id \in Parts /\ IsPayload(op.payload, op.class)
  BY DEF IsOperation
<1>2. /\ parts[op.id] = None /\ SortsResolve(op, op.class) /\ Accepts(row, op)
      /\ op.class = "line" => NameFree(row.name, LineNames, op.id)
      /\ CreatePart(op) = WriteParts(Row(op.id, row))
  BY DEF CreatePart
<1>3. /\ NextPosition(op.class) \in Nat
      /\ \A q \in Rows(op.class) : parts[q].pos < NextPosition(op.class)
  BY <1>1, PlaceOfPart
<1>4. /\ blank.class = op.class /\ blank.pos = NextPosition(op.class)
      /\ blank.name = None /\ blank.sort = None /\ blank.bindings = Unbound
      /\ blank.provisos = {} /\ blank.uses = {} /\ blank.comment = FALSE /\ blank.scope = FALSE
      /\ blank.string = FALSE /\ blank.subproof = FALSE /\ blank.antecedents = FALSE
      /\ blank = [f \in {"class", "pos", "name", "sort", "bindings", "provisos", "comment", "scope",
                         "string", "subproof", "antecedents", "uses"} |-> blank[f]]
  <2>1. Blank(op.class) =
          [class |-> op.class, pos |-> 0, name |-> None, sort |-> None,
           bindings |-> Unbound, provisos |-> {}, comment |-> FALSE, scope |-> FALSE,
           string |-> FALSE, subproof |-> FALSE, antecedents |-> FALSE, uses |-> {}]
    BY Zenon DEF Blank
  <2> DEFINE b == Blank(op.class)
  <2>2. /\ DOMAIN b = {"class", "pos", "name", "sort", "bindings", "provisos", "comment", "scope",
                     "string", "subproof", "antecedents", "uses"}
        /\ b.class = op.class
        /\ b.name = None /\ b.sort = None /\ b.bindings = Unbound
        /\ b.provisos = {} /\ b.uses = {} /\ b.comment = FALSE /\ b.scope = FALSE
        /\ b.string = FALSE /\ b.subproof = FALSE /\ b.antecedents = FALSE
    BY <2>1
  <2> HIDE DEF b
  <2>3. blank = [f \in DOMAIN b |-> IF f = "pos" THEN NextPosition(op.class) ELSE b[f]]
    <3>1. b = [f \in DOMAIN b |-> b[f]]
      BY <2>1 DEF b
    <3>2. blank = [b EXCEPT !.pos = NextPosition(op.class)]
      BY DEF b
    <3> HIDE DEF blank
    <3>  QED BY <2>2, <3>1, <3>2
  <2> HIDE DEF blank
  <2>  QED BY <2>2, <2>3
<1>5. Unbound \in [Vars -> Symbols \cup {None}] /\ \A v \in Vars : Unbound[v] = None
  BY DEF Unbound
<1> HIDE DEF blank
<1>6. blank \in PartRows
  BY <1>1, <1>3, <1>4, <1>5 DEF PartRows
<1>7. Own(blank) /\ WellFormed(blank)
  BY <1>4 DEF Own, WellFormed
<1>8. References(blank) = {}
  BY <1>4, <1>5 DEF References, BoundTo, ProvisoSorts
<1>9. blank.class = op.class /\ blank.pos = NextPosition(op.class)
  BY <1>4
<1>10. /\ row \in PartRows /\ row.class = op.class /\ row.pos = NextPosition(op.class)
       /\ Own(row) /\ WellFormed(row)
       /\ \A s \in References(row) : symbols[s] # None
  BY <1>1, <1>2, <1>6, <1>7, <1>8, <1>9, MergedRow
<1> HIDE DEF row
<1>11. PartFits(op.id, row)
  BY <1>2, <1>3, <1>10, FreeName DEF PartFits
<1>  QED BY <1>1, <1>2, <1>11

LEMMA UpdatePartFits ==
  ASSUME TypeOK, Whole(symbols, parts), OwnColumns, PartsWellFormed,
         NEW op, IsOperation(op), op.kind = "update", UpdatePart(op) # None
  PROVE  /\ op.id \in Parts
         /\ \E row : PartFits(op.id, row) /\ UpdatePart(op) = WriteParts(Row(op.id, row))
<1> DEFINE old == parts[op.id]
           row == Merged(old, op)
<1>1. op.class \in Classes /\ op.id \in Parts /\ IsPayload(op.payload, op.class)
  BY DEF IsOperation
<1>2. /\ op.id \in Rows(op.class) /\ SortsResolve(op, op.class) /\ Accepts(row, op)
      /\ op.class = "line" => NameFree(row.name, LineNames, op.id)
      /\ UpdatePart(op) = WriteParts(Row(op.id, row))
  BY DEF UpdatePart
<1>3. old # None /\ old.class = op.class
  BY <1>2 DEF Rows
<1>4. old \in PartRows /\ Own(old) /\ WellFormed(old)
  BY <1>1, <1>3 DEF TypeOK, OwnColumns, PartsWellFormed, WellFormed
<1>5. \A s \in References(old) : symbols[s] # None
  BY <1>1, <1>3 DEF Whole
<1> HIDE DEF old
<1>6. /\ row \in PartRows /\ row.class = op.class /\ row.pos = old.pos
      /\ Own(row) /\ WellFormed(row)
      /\ \A s \in References(row) : symbols[s] # None
  BY <1>1, <1>2, <1>3, <1>4, <1>5, MergedRow
<1> HIDE DEF row
<1>7. PartFits(op.id, row)
  BY <1>2, <1>3, <1>6, FreeName DEF PartFits, old
<1>  QED BY <1>1, <1>2, <1>7

\* What a reorder of parts leaves: the rows of one class with new places.
PartsMoved(class, new) ==
  /\ DOMAIN new = Rows(class)
  /\ \A p \in Rows(class) :
       /\ new[p] = [parts[p] EXCEPT !.pos = new[p].pos]
       /\ new[p] \in PartRows
       /\ \A q \in Rows(class) : new[p].pos = new[q].pos => p = q
  /\ \E n \in Nat : \A p \in Rows(class) : new[p].pos <= n

LEMMA ReorderPartsMoves ==
  ASSUME TypeOK, NEW op, IsOperation(op), op.kind = "reorder", ReorderParts(op) # None
  PROVE  \E new : PartsMoved(op.class, new) /\ ReorderParts(op) = WriteParts(new)
<1> DEFINE new == Reordered(parts, op.order)
<1>1. op.order \in Seq(Parts) /\ op.class \in Classes
  BY DEF IsOperation
<1>2. Range(op.order) = Rows(op.class) /\ ReorderParts(op) = WriteParts(new)
  BY DEF ReorderParts, Covers
<1>3. Placed(new, parts, Rows(op.class))
  BY <1>1, <1>2, ReorderedRows
<1> HIDE DEF new
<1> PICK n \in Nat, place \in [Rows(op.class) -> Nat] : \A x \in Rows(op.class) :
      /\ new[x] = [parts[x] EXCEPT !.pos = place[x]]
      /\ place[x] <= n
      /\ \A y \in Rows(op.class) : place[x] = place[y] => x = y
  BY <1>3 DEF Placed
<1>4. \A p \in Rows(op.class) : parts[p] \in PartRows
  BY DEF Rows, TypeOK
<1>5. \A p \in Rows(op.class) : new[p] \in PartRows /\ new[p].pos = place[p]
  <2> TAKE p \in Rows(op.class)
  <2>1. new[p] = [parts[p] EXCEPT !.pos = place[p]] /\ place[p] \in Nat
    OBVIOUS
  <2>  QED BY <1>4, <2>1 DEF PartRows
<1>6. \A p \in Rows(op.class) : new[p] = [parts[p] EXCEPT !.pos = new[p].pos]
  BY <1>5
<1>7. PartsMoved(op.class, new)
  BY <1>3, <1>5, <1>6 DEF PartsMoved, Placed
<1>  QED BY <1>2, <1>7

----------------------------------------------------------------------------
(* A write is one of seven changes, and none of them cascades to a symbol or *)
(* a part.                                                                   *)

Unreferenced(s) ==
  /\ \A p \in Parts : parts[p] # None => s \notin References(parts[p])
  /\ \A q \in Symbols : symbols[q] # None =>
       symbols[q].member # s /\ \A v \in Vars : symbols[q].bindings[v] # s
  /\ \A e \in Entries : library[e] # None => s \notin ProvisoSorts(library[e])

SymbolChange(syms) ==
  \/ \E s \in Symbols : \E row : SymbolFits(s, row) /\ syms = [symbols EXCEPT ![s] = row]
  \/ \E s \in Symbols : Unreferenced(s) /\ syms = [symbols EXCEPT ![s] = None]
  \/ \E u \in BOOLEAN : \E new : SymbolsMoved(u, new) /\ syms = After(symbols, new)

PartChange(ps) ==
  \/ \E p \in Parts : \E row : PartFits(p, row) /\ ps = [parts EXCEPT ![p] = row]
  \/ \E p \in Parts : ps = [parts EXCEPT ![p] = None]
  \/ \E class \in Classes : \E new : PartsMoved(class, new) /\ ps = After(parts, new)

EntryChange(lib) ==
  \E e \in Entries : \E row \in EntryRows \cup {None} : lib = [library EXCEPT ![e] = row]

Change(syms, ps, lib) ==
  \/ SymbolChange(syms) /\ ps = parts /\ lib = library
  \/ syms = symbols /\ PartChange(ps) /\ lib = library
  \/ syms = symbols /\ ps = parts /\ EntryChange(lib)

LEMMA WrittenSymbols ==
  ASSUME TypeOK, NEW rows
  PROVE  /\ After(symbols, WriteSymbols(rows).symbols) = After(symbols, rows)
         /\ After(parts, WriteSymbols(rows).parts) = parts
         /\ After(library, WriteSymbols(rows).library) = library
BY AfterNothing DEF WriteSymbols, TypeOK

LEMMA WrittenParts ==
  ASSUME TypeOK, NEW rows
  PROVE  /\ After(symbols, WriteParts(rows).symbols) = symbols
         /\ After(parts, WriteParts(rows).parts) = After(parts, rows)
         /\ After(library, WriteParts(rows).library) = library
BY AfterNothing DEF WriteParts, TypeOK

LEMMA WrittenEntries ==
  ASSUME TypeOK, NEW rows
  PROVE  /\ After(symbols, WriteEntries(rows).symbols) = symbols
         /\ After(parts, WriteEntries(rows).parts) = parts
         /\ After(library, WriteEntries(rows).library) = After(library, rows)
BY AfterNothing DEF WriteEntries, TypeOK

LEMMA WrittenRow ==
  ASSUME TypeOK
  PROVE  /\ \A s \in Symbols : \A row : After(symbols, Row(s, row)) = [symbols EXCEPT ![s] = row]
         /\ \A p \in Parts : \A row : After(parts, Row(p, row)) = [parts EXCEPT ![p] = row]
         /\ \A e \in Entries : \A row : After(library, Row(e, row)) = [library EXCEPT ![e] = row]
BY DEF After, Row, TypeOK

LEMMA OutcomeIsChange ==
  ASSUME TypeOK, RowsSound, NEW op \in Operations, Outcome(op) # None
  PROVE  Change(After(symbols, Outcome(op).symbols), After(parts, Outcome(op).parts),
                After(library, Outcome(op).library))
<1> DEFINE syms == After(symbols, Outcome(op).symbols)
           ps == After(parts, Outcome(op).parts)
           lib == After(library, Outcome(op).library)
<1>0. IsOperation(op) /\ Whole(symbols, parts) /\ Bounded /\ OwnColumns /\ PartsWellFormed
  BY OperationsAssumption DEF RowsSound
<1>1. CASE op.kind = "createSymbol"
  <2>1. Outcome(op) = CreateSymbol(op) /\ op.id \in Symbols
    BY <1>0, <1>1 DEF Outcome, IsOperation
  <2>2. PICK row : SymbolFits(op.id, row) /\ CreateSymbol(op) = WriteSymbols(Row(op.id, row))
    BY <1>0, <1>1, <2>1, CreateSymbolFits
  <2>3. syms = [symbols EXCEPT ![op.id] = row] /\ ps = parts /\ lib = library
    BY <2>1, <2>2, WrittenSymbols, WrittenRow
  <2> HIDE DEF syms, ps, lib
  <2>  QED BY <2>1, <2>2, <2>3 DEF Change, SymbolChange, syms, ps, lib
<1>2. CASE op.kind = "updateSymbol"
  <2>1. Outcome(op) = UpdateSymbol(op) /\ op.id \in Symbols
    BY <1>0, <1>2 DEF Outcome, IsOperation
  <2>2. PICK row : SymbolFits(op.id, row) /\ UpdateSymbol(op) = WriteSymbols(Row(op.id, row))
    BY <1>0, <1>2, <2>1, UpdateSymbolFits
  <2>3. syms = [symbols EXCEPT ![op.id] = row] /\ ps = parts /\ lib = library
    BY <2>1, <2>2, WrittenSymbols, WrittenRow
  <2>  QED BY <2>1, <2>2, <2>3 DEF Change, SymbolChange
<1>3. CASE op.kind = "deleteSymbol"
  <2>1. Outcome(op) = DeleteSymbol(op)
    BY <1>3 DEF Outcome
  <2>2. op.id \in Symbols /\ Unreferenced(op.id) /\ DeleteSymbol(op) = WriteSymbols(Row(op.id, None))
    BY <1>0, <1>3, <2>1, DeleteSymbolFrees DEF Unreferenced
  <2>3. syms = [symbols EXCEPT ![op.id] = None] /\ ps = parts /\ lib = library
    BY <2>1, <2>2, WrittenSymbols, WrittenRow
  <2>  QED BY <2>2, <2>3 DEF Change, SymbolChange
<1>4. CASE op.kind = "reorderSymbols"
  <2>1. Outcome(op) = ReorderSymbols(op) /\ op.union \in BOOLEAN
    BY <1>0, <1>4 DEF Outcome, IsOperation
  <2>2. PICK new : SymbolsMoved(op.union, new) /\ ReorderSymbols(op) = WriteSymbols(new)
    BY <1>0, <1>4, <2>1, ReorderSymbolsMoves
  <2>3. syms = After(symbols, new) /\ ps = parts /\ lib = library
    BY <2>1, <2>2, WrittenSymbols
  <2>  QED BY <2>1, <2>2, <2>3 DEF Change, SymbolChange
<1>5. CASE op.kind = "create"
  <2>1. Outcome(op) = CreatePart(op)
    BY <1>5 DEF Outcome
  <2>2. PICK row : op.id \in Parts /\ PartFits(op.id, row) /\ CreatePart(op) = WriteParts(Row(op.id, row))
    BY <1>0, <1>5, <2>1, CreatePartFits
  <2>3. syms = symbols /\ ps = [parts EXCEPT ![op.id] = row] /\ lib = library
    BY <2>1, <2>2, WrittenParts, WrittenRow
  <2>  QED BY <2>2, <2>3 DEF Change, PartChange
<1>6. CASE op.kind = "update"
  <2>1. Outcome(op) = UpdatePart(op)
    BY <1>6 DEF Outcome
  <2>2. PICK row : op.id \in Parts /\ PartFits(op.id, row) /\ UpdatePart(op) = WriteParts(Row(op.id, row))
    BY <1>0, <1>6, <2>1, UpdatePartFits
  <2>3. syms = symbols /\ ps = [parts EXCEPT ![op.id] = row] /\ lib = library
    BY <2>1, <2>2, WrittenParts, WrittenRow
  <2>  QED BY <2>2, <2>3 DEF Change, PartChange
<1>7. CASE op.kind = "delete"
  <2>1. Outcome(op) = DeletePart(op) /\ op.id \in Parts
    BY <1>0, <1>7 DEF Outcome, IsOperation
  <2>2. DeletePart(op) = WriteParts(Row(op.id, None))
    BY <2>1 DEF DeletePart
  <2>3. syms = symbols /\ ps = [parts EXCEPT ![op.id] = None] /\ lib = library
    BY <2>1, <2>2, WrittenParts, WrittenRow
  <2>  QED BY <2>1, <2>3 DEF Change, PartChange
<1>8. CASE op.kind = "reorder"
  <2>1. Outcome(op) = ReorderParts(op) /\ op.class \in Classes
    BY <1>0, <1>8 DEF Outcome, IsOperation
  <2>2. PICK new : PartsMoved(op.class, new) /\ ReorderParts(op) = WriteParts(new)
    BY <1>0, <1>8, <2>1, ReorderPartsMoves
  <2>3. syms = symbols /\ ps = After(parts, new) /\ lib = library
    BY <2>1, <2>2, WrittenParts
  <2>  QED BY <2>1, <2>2, <2>3 DEF Change, PartChange
<1>9. CASE op.kind = "assume"
  <2>1. Outcome(op) = Assume(op) /\ op.id \in Entries /\ op.provisos \subseteq Vars \X MaybeName
    BY <1>0, <1>9 DEF Outcome, IsOperation
  <2> DEFINE row == [bindings |-> Slots(symbols, op.bindings),
                     provisos |-> {<<c[1], Id(symbols, c[2])>> : c \in op.provisos}]
  <2>2. /\ Assume(op) = WriteEntries(Row(op.id, row))
        /\ SlotsResolve(symbols, op.bindings)
        /\ \A c \in op.provisos : c[2] # None => Resolves(symbols, c[2])
    BY <2>1 DEF Assume
  <2>3. row \in EntryRows
    <3>1. Slots(symbols, op.bindings) \in [Vars -> Symbols \cup {None}]
      BY <2>2, SlotsTyped
    <3>2. \A c \in op.provisos : c[1] \in Vars /\ Id(symbols, c[2]) \in Symbols \cup {None}
      BY <2>1, <2>2, IdTyped
    <3>  QED BY <3>1, <3>2 DEF EntryRows
  <2> HIDE DEF row
  <2>4. syms = symbols /\ ps = parts /\ lib = [library EXCEPT ![op.id] = row]
    BY <2>1, <2>2, WrittenEntries, WrittenRow
  <2>  QED BY <2>1, <2>3, <2>4 DEF Change, EntryChange
<1>10. CASE op.kind = "withdraw"
  <2>1. Outcome(op) = Withdraw(op) /\ op.id \in Entries
    BY <1>0, <1>10 DEF Outcome, IsOperation
  <2>2. Withdraw(op) = WriteEntries(Row(op.id, None))
    BY <2>1 DEF Withdraw
  <2>3. syms = symbols /\ ps = parts /\ lib = [library EXCEPT ![op.id] = None]
    BY <2>1, <2>2, WrittenEntries, WrittenRow
  <2>  QED BY <2>1, <2>3 DEF Change, EntryChange
<1>  QED BY <1>0, <1>1, <1>2, <1>3, <1>4, <1>5, <1>6, <1>7, <1>8, <1>9, <1>10 DEF IsOperation

\* What is left has its types and names nothing that went.
LEMMA ChangeIsWhole ==
  ASSUME TypeOK, Whole(symbols, parts), NEW syms, NEW ps, NEW lib, Change(syms, ps, lib)
  PROVE  /\ syms \in [Symbols -> SymbolRows \cup {None}]
         /\ ps \in [Parts -> PartRows \cup {None}]
         /\ Whole(syms, ps)
         /\ lib \in [Entries -> EntryRows \cup {None}]
<1>0. /\ symbols \in [Symbols -> SymbolRows \cup {None}]
      /\ parts \in [Parts -> PartRows \cup {None}]
  BY DEF TypeOK
<1>1. ASSUME NEW s \in Symbols, NEW row, SymbolFits(s, row),
             syms = [symbols EXCEPT ![s] = row], ps = parts
      PROVE  syms \in [Symbols -> SymbolRows \cup {None}] /\ Whole(syms, ps)
  <2>1. row \in SymbolRows /\ row # None
    BY <1>1, NoneAssumption DEF SymbolFits
  <2>2. \A q \in Symbols : symbols[q] # None => syms[q] # None
    BY <1>0, <1>1, <2>1
  <2>3. \A q \in Symbols : symbols[q] # None => syms[q].union = symbols[q].union
    BY <1>0, <1>1, <2>1 DEF SymbolFits
  <2>4. ASSUME NEW q \in Symbols, syms[q] # None
        PROVE  /\ syms[q].member # None =>
                    ~syms[q].union /\ syms[syms[q].member] # None /\ syms[syms[q].member].union
               /\ \A v \in Vars : syms[q].bindings[v] # None => syms[syms[q].bindings[v]] # None
    <3>1. CASE q = s
      <4>1. syms[q] = row
        BY <1>0, <1>1, <3>1
      <4>2. row.member \in Symbols \cup {None} /\ row.bindings \in [Vars -> Symbols \cup {None}]
        BY <2>1 DEF SymbolRows
      <4>3. row.member # None =>
              ~row.union /\ symbols[row.member] # None /\ symbols[row.member].union
        BY <1>1 DEF SymbolFits
      <4>4. \A v \in Vars : row.bindings[v] # None
                          => row.bindings[v] = s \/ symbols[row.bindings[v]] # None
        BY <1>1 DEF SymbolFits
      <4>5. syms[s] # None
        BY <2>4, <3>1
      <4>  QED BY <2>2, <2>3, <4>1, <4>2, <4>3, <4>4, <4>5
    <3>2. CASE q # s
      <4>1. syms[q] = symbols[q] /\ symbols[q] # None /\ symbols[q] \in SymbolRows
        BY <1>0, <1>1, <2>4, <3>2
      <4>2. /\ symbols[q].member \in Symbols \cup {None}
            /\ symbols[q].bindings \in [Vars -> Symbols \cup {None}]
        BY <4>1 DEF SymbolRows
      <4>3. /\ symbols[q].member # None =>
                 /\ ~symbols[q].union /\ symbols[symbols[q].member] # None
                 /\ symbols[symbols[q].member].union
            /\ \A v \in Vars : symbols[q].bindings[v] # None
                             => symbols[symbols[q].bindings[v]] # None
        BY <4>1 DEF Whole
      <4>  QED BY <2>2, <2>3, <4>1, <4>2, <4>3
    <3>  QED BY <3>1, <3>2
  <2>5. ASSUME NEW p \in Parts, ps[p] # None, NEW q \in References(ps[p])
        PROVE  syms[q] # None
    <3>1. symbols[q] # None /\ ps[p] \in PartRows
      BY <1>0, <1>1, <2>5 DEF Whole
    <3>2. q \in Symbols
      BY <2>5, <3>1 DEF PartRows, References, BoundTo, ProvisoSorts
    <3>  QED BY <2>2, <3>1, <3>2
  <2>  QED BY <1>0, <1>1, <2>1, <2>4, <2>5 DEF Whole
<1>2. ASSUME NEW s \in Symbols, Unreferenced(s), syms = [symbols EXCEPT ![s] = None], ps = parts
      PROVE  syms \in [Symbols -> SymbolRows \cup {None}] /\ Whole(syms, ps)
  <2>1. \A q \in Symbols : q # s => syms[q] = symbols[q]
    BY <1>0, <1>2
  <2>2. ASSUME NEW q \in Symbols, syms[q] # None
        PROVE  /\ syms[q].member # None =>
                    ~syms[q].union /\ syms[syms[q].member] # None /\ syms[syms[q].member].union
               /\ \A v \in Vars : syms[q].bindings[v] # None => syms[syms[q].bindings[v]] # None
    <3>1. q # s /\ syms[q] = symbols[q] /\ symbols[q] # None /\ symbols[q] \in SymbolRows
      BY <1>0, <1>2, <2>2
    <3>2. /\ symbols[q].member \in Symbols \cup {None}
          /\ symbols[q].bindings \in [Vars -> Symbols \cup {None}]
      BY <3>1 DEF SymbolRows
    <3>3. /\ symbols[q].member # s /\ \A v \in Vars : symbols[q].bindings[v] # s
      BY <1>2, <3>1 DEF Unreferenced
    <3>4. /\ symbols[q].member # None =>
               /\ ~symbols[q].union /\ symbols[symbols[q].member] # None
               /\ symbols[symbols[q].member].union
          /\ \A v \in Vars : symbols[q].bindings[v] # None
                           => symbols[symbols[q].bindings[v]] # None
      BY <3>1 DEF Whole
    <3>  QED BY <2>1, <3>1, <3>2, <3>3, <3>4
  <2>3. ASSUME NEW p \in Parts, ps[p] # None, NEW q \in References(ps[p])
        PROVE  syms[q] # None
    <3>1. symbols[q] # None /\ ps[p] \in PartRows /\ q # s
      BY <1>0, <1>2, <2>3 DEF Whole, Unreferenced
    <3>2. q \in Symbols
      BY <2>3, <3>1 DEF PartRows, References, BoundTo, ProvisoSorts
    <3>  QED BY <2>1, <3>1, <3>2
  <2>  QED BY <1>0, <1>2, <2>2, <2>3 DEF Whole
<1>3. ASSUME NEW u \in BOOLEAN, NEW new, SymbolsMoved(u, new), syms = After(symbols, new), ps = parts
      PROVE  syms \in [Symbols -> SymbolRows \cup {None}] /\ Whole(syms, ps)
  <2>1. \A q \in Kind(u) : q \in Symbols /\ symbols[q] \in SymbolRows /\ new[q] \in SymbolRows
    BY <1>0, <1>3 DEF Kind, Stored, SymbolsMoved
  <2>2. \A q \in Symbols : syms[q] = IF q \in Kind(u) THEN new[q] ELSE symbols[q]
    BY <1>0, <1>3 DEF After, SymbolsMoved
  <2>3. syms \in [Symbols -> SymbolRows \cup {None}]
    <3>1. DOMAIN symbols = Symbols /\ \A q \in Symbols : syms[q] \in SymbolRows \cup {None}
      BY <1>0, <2>1, <2>2
    <3>  QED BY <1>3, <3>1 DEF After
  <2>4. \A q \in Symbols :
          /\ syms[q] # None <=> symbols[q] # None
          /\ symbols[q] # None =>
               /\ syms[q].union = symbols[q].union /\ syms[q].member = symbols[q].member
               /\ syms[q].bindings = symbols[q].bindings
    <3> TAKE q \in Symbols
    <3>1. CASE q \notin Kind(u)
      BY <2>2, <3>1
    <3>2. CASE q \in Kind(u)
      <4>1. syms[q] = [symbols[q] EXCEPT !.pos = new[q].pos] /\ syms[q] # None /\ symbols[q] # None
        BY <1>3, <2>1, <2>2, <3>2, NoneAssumption DEF SymbolsMoved
      <4>  QED BY <2>1, <3>2, <4>1 DEF SymbolRows
    <3>  QED BY <3>1, <3>2
  <2>5. ASSUME NEW q \in Symbols, syms[q] # None
        PROVE  /\ syms[q].member # None =>
                    ~syms[q].union /\ syms[syms[q].member] # None /\ syms[syms[q].member].union
               /\ \A v \in Vars : syms[q].bindings[v] # None => syms[syms[q].bindings[v]] # None
    <3>1. symbols[q] # None /\ symbols[q] \in SymbolRows
      BY <1>0, <2>4, <2>5
    <3>2. /\ symbols[q].member \in Symbols \cup {None}
          /\ symbols[q].bindings \in [Vars -> Symbols \cup {None}]
      BY <3>1 DEF SymbolRows
    <3>3. /\ symbols[q].member # None =>
               /\ ~symbols[q].union /\ symbols[symbols[q].member] # None
               /\ symbols[symbols[q].member].union
          /\ \A v \in Vars : symbols[q].bindings[v] # None
                           => symbols[symbols[q].bindings[v]] # None
      BY <3>1 DEF Whole
    <3>  QED BY <2>4, <3>1, <3>2, <3>3
  <2>6. ASSUME NEW p \in Parts, ps[p] # None, NEW q \in References(ps[p])
        PROVE  syms[q] # None
    <3>1. symbols[q] # None /\ ps[p] \in PartRows
      BY <1>0, <1>3, <2>6 DEF Whole
    <3>2. q \in Symbols
      BY <2>6, <3>1 DEF PartRows, References, BoundTo, ProvisoSorts
    <3>  QED BY <2>4, <3>1, <3>2
  <2>  QED BY <2>3, <2>5, <2>6 DEF Whole
<1>4. ASSUME NEW p \in Parts, NEW row, PartFits(p, row), ps = [parts EXCEPT ![p] = row], syms = symbols
      PROVE  ps \in [Parts -> PartRows \cup {None}] /\ Whole(syms, ps)
  <2>1. ps \in [Parts -> PartRows \cup {None}] /\ \A q \in Parts : ps[q] = IF q = p THEN row ELSE parts[q]
    BY <1>0, <1>4 DEF PartFits
  <2>2. \A q \in Parts : ps[q] # None => \A s \in References(ps[q]) : syms[s] # None
    BY <1>4, <2>1 DEF PartFits, Whole
  <2>  QED BY <1>4, <2>1, <2>2 DEF Whole
<1>5. ASSUME NEW p \in Parts, ps = [parts EXCEPT ![p] = None], syms = symbols
      PROVE  ps \in [Parts -> PartRows \cup {None}] /\ Whole(syms, ps)
  <2>1. ps \in [Parts -> PartRows \cup {None}] /\ \A q \in Parts : ps[q] = IF q = p THEN None ELSE parts[q]
    BY <1>0, <1>5
  <2>2. \A q \in Parts : ps[q] # None => \A s \in References(ps[q]) : syms[s] # None
    BY <1>5, <2>1 DEF Whole
  <2>  QED BY <1>5, <2>1, <2>2 DEF Whole
<1>6. ASSUME NEW class \in Classes, NEW new, PartsMoved(class, new), ps = After(parts, new), syms = symbols
      PROVE  ps \in [Parts -> PartRows \cup {None}] /\ Whole(syms, ps)
  <2>1. \A q \in Rows(class) : q \in Parts /\ parts[q] # None /\ parts[q] \in PartRows /\ new[q] \in PartRows
    BY <1>0, <1>6 DEF Rows, PartsMoved
  <2>2. \A q \in Parts : ps[q] = IF q \in Rows(class) THEN new[q] ELSE parts[q]
    BY <1>0, <1>6 DEF After, PartsMoved
  <2>3. ps \in [Parts -> PartRows \cup {None}]
    <3>1. DOMAIN parts = Parts /\ \A q \in Parts : ps[q] \in PartRows \cup {None}
      BY <1>0, <2>1, <2>2
    <3>  QED BY <1>6, <3>1 DEF After
  <2>4. \A q \in Rows(class) : References(new[q]) = References(parts[q])
    <3> TAKE q \in Rows(class)
    <3>1. new[q] = [parts[q] EXCEPT !.pos = new[q].pos]
      BY <1>6 DEF PartsMoved
    <3>2. /\ new[q].sort = parts[q].sort /\ new[q].bindings = parts[q].bindings
          /\ new[q].provisos = parts[q].provisos
      BY <2>1, <3>1 DEF PartRows
    <3>  QED BY <3>2 DEF References, BoundTo, ProvisoSorts
  <2>5. \A q \in Parts : ps[q] # None => \A s \in References(ps[q]) : syms[s] # None
    BY <1>6, <2>1, <2>2, <2>4 DEF Whole
  <2>  QED BY <1>6, <2>3, <2>5 DEF Whole
<1>7. lib \in [Entries -> EntryRows \cup {None}]
  <2>1. library \in [Entries -> EntryRows \cup {None}]
    BY DEF TypeOK
  <2>2. CASE lib = library
    BY <2>1, <2>2
  <2>3. CASE EntryChange(lib)
    BY <2>1, <2>3 DEF EntryChange
  <2>  QED BY <2>2, <2>3 DEF Change
<1>8. CASE SymbolChange(syms) /\ ps = parts
  BY <1>0, <1>1, <1>2, <1>3, <1>7, <1>8 DEF SymbolChange
<1>9. CASE syms = symbols /\ PartChange(ps)
  BY <1>0, <1>4, <1>5, <1>6, <1>7, <1>9 DEF PartChange
<1>10. CASE syms = symbols /\ ps = parts
  BY <1>0, <1>7, <1>10
<1>  QED BY <1>8, <1>9, <1>10 DEF Change

\* What the foreign keys leave of the entries names only what is there.
LEMMA CascadedAreWhole ==
  ASSUME NEW syms \in [Symbols -> SymbolRows \cup {None}],
         NEW lib \in [Entries -> EntryRows \cup {None}]
  PROVE  /\ CascadedEntries(lib, syms) \in [Entries -> EntryRows \cup {None}]
         /\ EntriesWhole(syms, CascadedEntries(lib, syms))
<1> DEFINE left == CascadedEntries(lib, syms)
<1>1. left = [e \in Entries |->
                IF lib[e] = None THEN None
                ELSE [lib[e] EXCEPT !.bindings = Bound(@, syms), !.provisos = Bearable(@, syms)]]
  BY DEF CascadedEntries
<1> HIDE DEF left
<1>2. ASSUME NEW e \in Entries, lib[e] # None
      PROVE  /\ left[e] \in EntryRows
             /\ \A v \in Vars : left[e].bindings[v] # None => syms[left[e].bindings[v]] # None
             /\ \A c \in left[e].provisos : c[2] # None => syms[c[2]] # None
  <2>1. lib[e] \in EntryRows
    BY <1>2
  <2>2. lib[e].bindings \in [Vars -> Symbols \cup {None}]
        /\ lib[e].provisos \in SUBSET (Vars \X (Symbols \cup {None}))
    BY <2>1 DEF EntryRows
  <2>3. left[e] = [bindings |-> Bound(lib[e].bindings, syms),
                   provisos |-> Bearable(lib[e].provisos, syms)]
    BY <1>1, <1>2, <2>1 DEF EntryRows
  <2>4. /\ Bound(lib[e].bindings, syms) \in [Vars -> Symbols \cup {None}]
        /\ \A v \in Vars : Bound(lib[e].bindings, syms)[v] # None
                            => syms[Bound(lib[e].bindings, syms)[v]] # None
    BY <2>2 DEF Bound
  <2>5. /\ Bearable(lib[e].provisos, syms) \in SUBSET (Vars \X (Symbols \cup {None}))
        /\ \A c \in Bearable(lib[e].provisos, syms) : c[2] # None => syms[c[2]] # None
    BY <2>2 DEF Bearable
  <2>  QED BY <2>3, <2>4, <2>5 DEF EntryRows
<1>3. \A e \in Entries : lib[e] = None => left[e] = None
  BY <1>1
<1>4. left \in [Entries -> EntryRows \cup {None}]
  <2>1. \A e \in Entries : left[e] \in EntryRows \cup {None}
    BY <1>2, <1>3
  <2>2. left = [e \in Entries |-> left[e]]
    BY <1>1
  <2>  QED BY <2>1, <2>2
<1>5. EntriesWhole(syms, left)
  BY <1>2, <1>3 DEF EntriesWhole
<1>  QED BY <1>4, <1>5 DEF left

\* Where only one symbol went, and no proviso named it, only bindings to it did.
LEMMA OneUnbound ==
  ASSUME TypeOK, EntriesWhole(symbols, library), NEW s \in Symbols, Unreferenced(s), NEW syms,
         \A q \in Symbols : syms[q] = IF q = s THEN None ELSE symbols[q]
  PROVE  CascadedEntries(library, syms) =
           [e \in Entries |->
              IF library[e] = None THEN None ELSE [library[e] EXCEPT !.bindings = Unbind(@, s)]]
<1>1. ASSUME NEW e \in Entries, library[e] # None
      PROVE  [library[e] EXCEPT !.bindings = Bound(@, syms), !.provisos = Bearable(@, syms)]
               = [library[e] EXCEPT !.bindings = Unbind(@, s)]
  <2>1. library[e] \in EntryRows
    BY <1>1 DEF TypeOK
  <2>2. /\ library[e].bindings \in [Vars -> Symbols \cup {None}]
        /\ library[e].provisos \in SUBSET (Vars \X (Symbols \cup {None}))
        /\ library[e] = [bindings |-> library[e].bindings, provisos |-> library[e].provisos]
    BY <2>1 DEF EntryRows
  <2>3. None \notin Symbols
    BY NoneAssumption
  <2>4. Bound(library[e].bindings, syms) = Unbind(library[e].bindings, s)
    <3>1. \A v \in Vars : library[e].bindings[v] # None => symbols[library[e].bindings[v]] # None
      BY <1>1 DEF EntriesWhole
    <3>  QED BY <2>2, <2>3, <3>1 DEF Bound, Unbind
  <2>5. Bearable(library[e].provisos, syms) = library[e].provisos
    <3>1. \A c \in library[e].provisos : c[2] # None => symbols[c[2]] # None
      BY <1>1 DEF EntriesWhole
    <3>2. \A c \in library[e].provisos : c[2] # s
      BY <1>1, <2>3 DEF Unreferenced, ProvisoSorts
    <3>  QED BY <2>2, <3>1, <3>2 DEF Bearable
  <2>  QED BY <2>2, <2>4, <2>5
<1>  QED BY <1>1 DEF CascadedEntries

----------------------------------------------------------------------------
(* A change keeps the rows sound.                                            *)

\* What any change leaves of a symbol: it is the one put there, it went, or only
\* its place is another.
LEMMA ChangedSymbols ==
  ASSUME TypeOK, NEW syms, SymbolChange(syms)
  PROVE  \/ \E s \in Symbols : \E row :
              /\ SymbolFits(s, row)
              /\ \A q \in Symbols : syms[q] = IF q = s THEN row ELSE symbols[q]
         \/ \E s \in Symbols :
              /\ Unreferenced(s)
              /\ \A q \in Symbols : syms[q] = IF q = s THEN None ELSE symbols[q]
         \/ \E u \in BOOLEAN : \E new :
              /\ SymbolsMoved(u, new)
              /\ \A q \in Symbols : syms[q] = IF q \in Kind(u) THEN new[q] ELSE symbols[q]
<1>0. DOMAIN symbols = Symbols /\ symbols \in [Symbols -> SymbolRows \cup {None}]
  BY DEF TypeOK
<1>1. ASSUME NEW s \in Symbols, NEW row, syms = [symbols EXCEPT ![s] = row]
      PROVE  \A q \in Symbols : syms[q] = IF q = s THEN row ELSE symbols[q]
  BY <1>0, <1>1
<1>2. ASSUME NEW u \in BOOLEAN, NEW new, SymbolsMoved(u, new), syms = After(symbols, new)
      PROVE  \A q \in Symbols : syms[q] = IF q \in Kind(u) THEN new[q] ELSE symbols[q]
  BY <1>0, <1>2 DEF SymbolsMoved, After
<1>3. CASE \E s \in Symbols : \E row : SymbolFits(s, row) /\ syms = [symbols EXCEPT ![s] = row]
  BY <1>1, <1>3
<1>4. CASE \E s \in Symbols : Unreferenced(s) /\ syms = [symbols EXCEPT ![s] = None]
  BY <1>1, <1>4
<1>5. CASE \E u \in BOOLEAN : \E new : SymbolsMoved(u, new) /\ syms = After(symbols, new)
  BY <1>2, <1>5
<1>  QED BY <1>3, <1>4, <1>5 DEF SymbolChange

LEMMA ChangedParts ==
  ASSUME TypeOK, NEW ps, PartChange(ps)
  PROVE  \/ \E p \in Parts : \E row :
              /\ PartFits(p, row)
              /\ \A q \in Parts : ps[q] = IF q = p THEN row ELSE parts[q]
         \/ \E p \in Parts :
              \A q \in Parts : ps[q] = IF q = p THEN None ELSE parts[q]
         \/ \E class \in Classes : \E new :
              /\ PartsMoved(class, new)
              /\ \A q \in Parts : ps[q] = IF q \in Rows(class) THEN new[q] ELSE parts[q]
<1>0. DOMAIN parts = Parts /\ parts \in [Parts -> PartRows \cup {None}]
  BY DEF TypeOK
<1>1. ASSUME NEW p \in Parts, NEW row, ps = [parts EXCEPT ![p] = row]
      PROVE  \A q \in Parts : ps[q] = IF q = p THEN row ELSE parts[q]
  BY <1>0, <1>1
<1>2. ASSUME NEW class \in Classes, NEW new, PartsMoved(class, new), ps = After(parts, new)
      PROVE  \A q \in Parts : ps[q] = IF q \in Rows(class) THEN new[q] ELSE parts[q]
  BY <1>0, <1>2 DEF PartsMoved, After
<1>3. CASE \E p \in Parts : \E row : PartFits(p, row) /\ ps = [parts EXCEPT ![p] = row]
  BY <1>1, <1>3
<1>4. CASE \E p \in Parts : ps = [parts EXCEPT ![p] = None]
  BY <1>1, <1>4
<1>5. CASE \E class \in Classes : \E new : PartsMoved(class, new) /\ ps = After(parts, new)
  BY <1>2, <1>5
<1>  QED BY <1>3, <1>4, <1>5 DEF PartChange

SymbolsDistinct(syms) ==
  \A s, q \in Symbols :
    /\ syms[s] # None /\ syms[q] # None /\ syms[s].union = syms[q].union
    /\ syms[s].pos = syms[q].pos
    => s = q

PartsDistinct(ps) ==
  \A p, q \in Parts :
    /\ ps[p] # None /\ ps[q] # None /\ ps[p].class = ps[q].class
    /\ ps[p].pos = ps[q].pos \/ (ps[p].class = "line" /\ ps[p].name = ps[q].name)
    => p = q

LEMMA DistinctRows ==
  TypeOK => (CollectionsDistinct <=> SymbolsDistinct(symbols) /\ PartsDistinct(parts))
<1> HAVE TypeOK
<1>1. \A s \in Symbols : symbols[s] # None => symbols[s].union \in BOOLEAN
  BY DEF TypeOK, SymbolRows
<1>2. \A p \in Parts : parts[p] # None => parts[p].class \in Classes
  BY DEF TypeOK, PartRows
<1>3. \A s : \A u : s \in Kind(u) <=> s \in Symbols /\ symbols[s] # None /\ symbols[s].union = u
  BY DEF Kind, Stored
<1>4. \A p : \A c : p \in Rows(c) <=> p \in Parts /\ parts[p] # None /\ parts[p].class = c
  BY DEF Rows
<1>5. (\A u \in BOOLEAN : \A s, q \in Kind(u) : symbols[s].pos = symbols[q].pos => s = q)
        <=> SymbolsDistinct(symbols)
  <2>1. ASSUME \A u \in BOOLEAN : \A s, q \in Kind(u) : symbols[s].pos = symbols[q].pos => s = q,
               NEW s \in Symbols, NEW q \in Symbols, symbols[s] # None, symbols[q] # None,
               symbols[s].union = symbols[q].union, symbols[s].pos = symbols[q].pos
        PROVE  s = q
    <3>1. PICK u \in BOOLEAN : u = symbols[s].union
      BY <1>1, <2>1
    <3>2. s \in Kind(u) /\ q \in Kind(u)
      BY <1>3, <2>1, <3>1, Zenon
    <3>  QED BY <2>1, <3>2
  <2>2. ASSUME SymbolsDistinct(symbols), NEW u \in BOOLEAN, NEW s \in Kind(u), NEW q \in Kind(u),
               symbols[s].pos = symbols[q].pos
        PROVE  s = q
    <3>1. /\ s \in Symbols /\ q \in Symbols /\ symbols[s] # None /\ symbols[q] # None
          /\ symbols[s].union = symbols[q].union
      BY <1>3, Zenon
    <3>  QED BY <2>2, <3>1 DEF SymbolsDistinct
  <2>  QED BY <2>1, <2>2, Zenon DEF SymbolsDistinct
<1>6. /\ \A class \in Classes : \A p, q \in Rows(class) : parts[p].pos = parts[q].pos => p = q
      /\ \A p, q \in Rows("line") : parts[p].name = parts[q].name => p = q
      <=> PartsDistinct(parts)
  BY <1>2, <1>4 DEF PartsDistinct, Classes
<1>  QED BY <1>5, <1>6 DEF CollectionsDistinct

LEMMA SymbolsStayDistinct ==
  ASSUME TypeOK, SymbolsDistinct(symbols), NEW syms, SymbolChange(syms)
  PROVE  SymbolsDistinct(syms)
<1>0. \A q \in Symbols : symbols[q] # None => symbols[q] \in SymbolRows /\ symbols[q].pos \in Nat
  BY DEF TypeOK, SymbolRows
<1>1. ASSUME NEW s \in Symbols, NEW row, SymbolFits(s, row),
             \A q \in Symbols : syms[q] = IF q = s THEN row ELSE symbols[q]
      PROVE  SymbolsDistinct(syms)
  <2>1. ASSUME NEW q \in Symbols, q # s, symbols[q] # None, symbols[q].union = row.union
        PROVE  symbols[q].pos # row.pos
    <3>1. CASE symbols[s] # None
      BY <1>1, <2>1, <3>1 DEF SymbolFits, SymbolsDistinct
    <3>2. CASE symbols[s] = None
      <4>1. q \in Kind(row.union)
        BY <2>1, Zenon DEF Kind, Stored
      <4>2. symbols[q].pos < row.pos /\ row.pos \in Nat
        BY <1>1, <3>2, <4>1 DEF SymbolFits, SymbolRows
      <4>  QED BY <1>0, <2>1, <4>2
    <3>  QED BY <3>1, <3>2
  <2>  QED BY <1>1, <2>1 DEF SymbolsDistinct
<1>2. ASSUME NEW s \in Symbols, \A q \in Symbols : syms[q] = IF q = s THEN None ELSE symbols[q]
      PROVE  SymbolsDistinct(syms)
  BY <1>2 DEF SymbolsDistinct
<1>3. ASSUME NEW u \in BOOLEAN, NEW new, SymbolsMoved(u, new),
             \A q \in Symbols : syms[q] = IF q \in Kind(u) THEN new[q] ELSE symbols[q]
      PROVE  SymbolsDistinct(syms)
  <2>1. \A q \in Symbols : q \in Kind(u) <=> symbols[q] # None /\ symbols[q].union = u
    BY Zenon DEF Kind, Stored
  <2>2. \A q \in Kind(u) : q \in Symbols /\ symbols[q] # None /\ new[q].union = symbols[q].union
    <3> TAKE q \in Kind(u)
    <3>1. q \in Symbols /\ symbols[q] \in SymbolRows /\ symbols[q] # None
      BY <1>0 DEF Kind, Stored
    <3>2. new[q] = [symbols[q] EXCEPT !.pos = new[q].pos]
      BY <1>3 DEF SymbolsMoved
    <3>  QED BY <3>1, <3>2 DEF SymbolRows
  <2>3. \A s, q \in Kind(u) : new[s].pos = new[q].pos => s = q
    BY <1>3 DEF SymbolsMoved
  <2>4. \A q \in Symbols : syms[q] # None => symbols[q] # None /\ syms[q].union = symbols[q].union
    BY <1>3, <2>2
  <2>5. ASSUME NEW s \in Symbols, NEW q \in Symbols, syms[s] # None, syms[q] # None,
               syms[s].union = syms[q].union, syms[s].pos = syms[q].pos
        PROVE  s = q
    <3>1. /\ symbols[s] # None /\ symbols[q] # None /\ symbols[s].union = symbols[q].union
      BY <2>4, <2>5
    <3>2. CASE s \in Kind(u)
      <4>1. q \in Kind(u)
        BY <2>1, <3>1, <3>2
      <4>  QED BY <1>3, <2>3, <2>5, <3>2, <4>1
    <3>3. CASE s \notin Kind(u)
      <4>1. q \notin Kind(u)
        BY <2>1, <3>1, <3>3
      <4>  QED BY <1>3, <2>5, <3>1, <3>3, <4>1 DEF SymbolsDistinct
    <3>  QED BY <3>2, <3>3
  <2>  QED BY <2>5 DEF SymbolsDistinct
<1>  QED BY <1>1, <1>2, <1>3, ChangedSymbols

LEMMA PartsStayDistinct ==
  ASSUME TypeOK, PartsDistinct(parts), NEW ps, PartChange(ps)
  PROVE  PartsDistinct(ps)
<1>0. \A q \in Parts : parts[q] # None => parts[q] \in PartRows /\ parts[q].pos \in Nat
  BY DEF TypeOK, PartRows
<1>1. ASSUME NEW p \in Parts, NEW row, PartFits(p, row),
             \A q \in Parts : ps[q] = IF q = p THEN row ELSE parts[q]
      PROVE  PartsDistinct(ps)
  <2>1. ASSUME NEW q \in Parts, q # p, parts[q] # None, parts[q].class = row.class
        PROVE  /\ parts[q].pos # row.pos
               /\ row.class = "line" => parts[q].name # row.name
    <3>0. q \in Rows(row.class)
      BY <2>1 DEF Rows
    <3>1. parts[q].pos # row.pos
      <4>1. CASE parts[p] # None
        BY <1>1, <2>1, <4>1 DEF PartFits, PartsDistinct
      <4>2. CASE parts[p] = None
        <5>1. parts[q].pos < row.pos /\ row.pos \in Nat
          BY <1>1, <3>0, <4>2 DEF PartFits, PartRows
        <5>  QED BY <1>0, <2>1, <5>1
      <4>  QED BY <4>1, <4>2
    <3>2. row.class = "line" => parts[q].name # row.name
      BY <1>1, <2>1, <3>0 DEF PartFits
    <3>  QED BY <3>1, <3>2
  <2>  QED BY <1>1, <2>1 DEF PartsDistinct
<1>2. ASSUME NEW p \in Parts, \A q \in Parts : ps[q] = IF q = p THEN None ELSE parts[q]
      PROVE  PartsDistinct(ps)
  BY <1>2 DEF PartsDistinct
<1>3. ASSUME NEW class \in Classes, NEW new, PartsMoved(class, new),
             \A q \in Parts : ps[q] = IF q \in Rows(class) THEN new[q] ELSE parts[q]
      PROVE  PartsDistinct(ps)
  <2>1. \A q \in Parts : q \in Rows(class) <=> parts[q] # None /\ parts[q].class = class
    BY DEF Rows
  <2>2. \A q \in Rows(class) :
          /\ q \in Parts /\ parts[q] # None
          /\ new[q].class = parts[q].class /\ new[q].name = parts[q].name
    <3> TAKE q \in Rows(class)
    <3>1. q \in Parts /\ parts[q] \in PartRows /\ parts[q] # None
      BY <1>0 DEF Rows
    <3>2. new[q] = [parts[q] EXCEPT !.pos = new[q].pos]
      BY <1>3 DEF PartsMoved
    <3>  QED BY <3>1, <3>2 DEF PartRows
  <2>3. \A p, q \in Rows(class) : new[p].pos = new[q].pos => p = q
    BY <1>3 DEF PartsMoved
  <2>4. \A q \in Parts : ps[q] # None =>
          /\ parts[q] # None
          /\ ps[q].class = parts[q].class /\ ps[q].name = parts[q].name
    BY <1>3, <2>2
  <2>5. ASSUME NEW p \in Parts, NEW q \in Parts, ps[p] # None, ps[q] # None,
               ps[p].class = ps[q].class,
               ps[p].pos = ps[q].pos \/ (ps[p].class = "line" /\ ps[p].name = ps[q].name)
        PROVE  p = q
    <3>1. /\ parts[p] # None /\ parts[q] # None /\ parts[p].class = parts[q].class
          /\ \/ parts[p].class = "line" /\ parts[p].name = parts[q].name
             \/ ps[p].pos = ps[q].pos
      BY <2>4, <2>5
    <3>2. CASE parts[p].class = "line" /\ parts[p].name = parts[q].name
      BY <3>1, <3>2 DEF PartsDistinct
    <3>3. CASE ps[p].pos = ps[q].pos
      <4>1. CASE p \in Rows(class)
        <5>1. q \in Rows(class)
          BY <2>1, <3>1, <4>1
        <5>  QED BY <1>3, <2>3, <3>3, <4>1, <5>1
      <4>2. CASE p \notin Rows(class)
        <5>1. q \notin Rows(class)
          BY <2>1, <3>1, <4>2
        <5>  QED BY <1>3, <3>1, <3>3, <4>2, <5>1 DEF PartsDistinct
      <4>  QED BY <4>1, <4>2
    <3>  QED BY <3>1, <3>2, <3>3
  <2>  QED BY <2>5 DEF PartsDistinct
<1>  QED BY <1>1, <1>2, <1>3, ChangedParts

LEMMA SymbolsStayBounded ==
  ASSUME TypeOK, Bounded, NEW syms, SymbolChange(syms)
  PROVE  \E n \in Nat : \A s \in Symbols : syms[s] # None => syms[s].pos <= n
<1>0. PICK m \in Nat : \A s \in Symbols : symbols[s] # None => symbols[s].pos <= m
  BY DEF Bounded
<1>1. ASSUME NEW s \in Symbols, NEW row, SymbolFits(s, row),
             \A q \in Symbols : syms[q] = IF q = s THEN row ELSE symbols[q]
      PROVE  \E n \in Nat : \A q \in Symbols : syms[q] # None => syms[q].pos <= n
  <2>1. row.pos \in Nat
    BY <1>1 DEF SymbolFits, SymbolRows
  <2>2. \A q \in Symbols : symbols[q] # None => symbols[q].pos \in Nat
    BY DEF TypeOK, SymbolRows
  <2>3. /\ m + row.pos \in Nat
        /\ \A q \in Symbols : syms[q] # None => syms[q].pos <= m + row.pos
    BY <1>0, <1>1, <2>1, <2>2
  <2>  QED BY <2>3
<1>2. ASSUME NEW s \in Symbols, \A q \in Symbols : syms[q] = IF q = s THEN None ELSE symbols[q]
      PROVE  \E n \in Nat : \A q \in Symbols : syms[q] # None => syms[q].pos <= n
  BY <1>0, <1>2
<1>3. ASSUME NEW u \in BOOLEAN, NEW new, SymbolsMoved(u, new),
             \A q \in Symbols : syms[q] = IF q \in Kind(u) THEN new[q] ELSE symbols[q]
      PROVE  \E n \in Nat : \A q \in Symbols : syms[q] # None => syms[q].pos <= n
  <2>1. PICK k \in Nat : \A s \in Kind(u) : new[s].pos <= k
    BY <1>3 DEF SymbolsMoved
  <2>2. \A s \in Kind(u) : new[s].pos \in Nat
    BY <1>3 DEF SymbolsMoved, SymbolRows
  <2>3. \A q \in Symbols : symbols[q] # None => symbols[q].pos \in Nat
    BY DEF TypeOK, SymbolRows
  <2>4. m + k \in Nat /\ \A q \in Symbols : syms[q] # None => syms[q].pos <= m + k
    BY <1>0, <1>3, <2>1, <2>2, <2>3
  <2>  QED BY <2>4
<1>  QED BY <1>1, <1>2, <1>3, ChangedSymbols

LEMMA PartsStayBounded ==
  ASSUME TypeOK, Bounded, NEW ps, PartChange(ps)
  PROVE  \E n \in Nat : \A p \in Parts : ps[p] # None => ps[p].pos <= n
<1>0. PICK m \in Nat : \A p \in Parts : parts[p] # None => parts[p].pos <= m
  BY DEF Bounded
<1>1. ASSUME NEW p \in Parts, NEW row, PartFits(p, row),
             \A q \in Parts : ps[q] = IF q = p THEN row ELSE parts[q]
      PROVE  \E n \in Nat : \A q \in Parts : ps[q] # None => ps[q].pos <= n
  <2>1. row.pos \in Nat
    BY <1>1 DEF PartFits, PartRows
  <2>2. \A q \in Parts : parts[q] # None => parts[q].pos \in Nat
    BY DEF TypeOK, PartRows
  <2>3. /\ m + row.pos \in Nat
        /\ \A q \in Parts : ps[q] # None => ps[q].pos <= m + row.pos
    BY <1>0, <1>1, <2>1, <2>2
  <2>  QED BY <2>3
<1>2. ASSUME NEW p \in Parts, \A q \in Parts : ps[q] = IF q = p THEN None ELSE parts[q]
      PROVE  \E n \in Nat : \A q \in Parts : ps[q] # None => ps[q].pos <= n
  BY <1>0, <1>2
<1>3. ASSUME NEW class \in Classes, NEW new, PartsMoved(class, new),
             \A q \in Parts : ps[q] = IF q \in Rows(class) THEN new[q] ELSE parts[q]
      PROVE  \E n \in Nat : \A q \in Parts : ps[q] # None => ps[q].pos <= n
  <2>1. PICK k \in Nat : \A q \in Rows(class) : new[q].pos <= k
    BY <1>3 DEF PartsMoved
  <2>2. \A q \in Rows(class) : new[q].pos \in Nat
    BY <1>3 DEF PartsMoved, PartRows
  <2>3. \A q \in Parts : parts[q] # None => parts[q].pos \in Nat
    BY DEF TypeOK, PartRows
  <2>4. m + k \in Nat /\ \A q \in Parts : ps[q] # None => ps[q].pos <= m + k
    BY <1>0, <1>3, <2>1, <2>2, <2>3
  <2>  QED BY <2>4
<1>  QED BY <1>1, <1>2, <1>3, ChangedParts

LEMMA PartsStayWellFormed ==
  ASSUME TypeOK, OwnColumns, PartsWellFormed, NEW ps, PartChange(ps)
  PROVE  \A p \in Parts : ps[p] # None => Own(ps[p]) /\ WellFormed(ps[p])
<1>0. \A p \in Parts : parts[p] # None =>
        parts[p] \in PartRows /\ Own(parts[p]) /\ WellFormed(parts[p])
  BY DEF TypeOK, OwnColumns, PartsWellFormed, WellFormed
<1>1. ASSUME NEW p \in Parts, NEW row, PartFits(p, row),
             \A q \in Parts : ps[q] = IF q = p THEN row ELSE parts[q]
      PROVE  \A q \in Parts : ps[q] # None => Own(ps[q]) /\ WellFormed(ps[q])
  BY <1>0, <1>1 DEF PartFits
<1>2. ASSUME NEW p \in Parts, \A q \in Parts : ps[q] = IF q = p THEN None ELSE parts[q]
      PROVE  \A q \in Parts : ps[q] # None => Own(ps[q]) /\ WellFormed(ps[q])
  BY <1>0, <1>2
<1>3. ASSUME NEW class \in Classes, NEW new, PartsMoved(class, new),
             \A q \in Parts : ps[q] = IF q \in Rows(class) THEN new[q] ELSE parts[q]
      PROVE  \A q \in Parts : ps[q] # None => Own(ps[q]) /\ WellFormed(ps[q])
  <2>1. ASSUME NEW q \in Rows(class)
        PROVE  Own(new[q]) /\ WellFormed(new[q])
    <3>1. parts[q] \in PartRows /\ Own(parts[q]) /\ WellFormed(parts[q])
      BY <1>0 DEF Rows
    <3>2. new[q] = [parts[q] EXCEPT !.pos = new[q].pos]
      BY <1>3 DEF PartsMoved
    <3>3. /\ new[q].class = parts[q].class /\ new[q].sort = parts[q].sort
          /\ new[q].bindings = parts[q].bindings /\ new[q].provisos = parts[q].provisos
          /\ new[q].comment = parts[q].comment /\ new[q].scope = parts[q].scope
          /\ new[q].string = parts[q].string /\ new[q].subproof = parts[q].subproof
          /\ new[q].antecedents = parts[q].antecedents
      BY <3>1, <3>2 DEF PartRows
    <3>  QED BY <3>1, <3>3 DEF Own, WellFormed
  <2>  QED BY <1>0, <1>3, <2>1
<1>  QED BY <1>1, <1>2, <1>3, ChangedParts

----------------------------------------------------------------------------
(* The steps.                                                                *)

\* A commit makes the change that was decided, or none.
LEMMA CommitIsChange ==
  ASSUME IInv, NEW r \in Requests, Commit(r)
  PROVE  \/ UNCHANGED <<symbols, parts, library>>
         \/ \E lib : /\ Change(symbols', parts', lib)
                     /\ library' = CascadedEntries(lib, symbols')
<1> DEFINE write == req[r].write
           syms == After(symbols, write.symbols)
           ps == After(parts, write.parts)
           lib == After(library, write.library)
<1>1. PICK op \in Operations : Outcome(op) # None /\ req[r] = [stage |-> "read", write |-> Outcome(op)]
  BY IdleIsNotRead DEF IInv, Decided, Commit
<1>2. write = Outcome(op)
  BY <1>1
<1>3. Change(syms, ps, lib)
  BY <1>1, <1>2, OutcomeIsChange DEF IInv
<1>4. CASE Violates(write)
  BY <1>4 DEF Commit
<1>5. CASE ~Violates(write)
  <2>1. /\ symbols' = CascadedSymbols(syms) /\ parts' = Cascaded(ps, symbols')
        /\ library' = CascadedEntries(lib, symbols')
    BY <1>5 DEF Commit
  <2> HIDE DEF syms, ps, lib
  <2>2. /\ syms \in [Symbols -> SymbolRows \cup {None}] /\ ps \in [Parts -> PartRows \cup {None}]
        /\ Whole(syms, ps)
    BY <1>3, ChangeIsWhole DEF IInv, RowsSound
  <2>3. CascadedSymbols(syms) = syms /\ Cascaded(ps, syms) = ps
    BY <2>2, NothingToCascade
  <2>4. symbols' = syms /\ parts' = ps
    BY <2>1, <2>3
  <2>  QED BY <1>3, <2>1, <2>4
<1>  QED BY <1>4, <1>5

LEMMA ChangeKeepsRows ==
  ASSUME TypeOK, RowsSound, NEW lib, Change(symbols', parts', lib),
         library' = CascadedEntries(lib, symbols'), DOMAIN req' = Requests,
         lock' \in Requests \cup {None}, \A r \in Requests : req'[r].stage \in {"idle", "read"}
  PROVE  TypeOK' /\ RowsSound'
<1>1. /\ Whole(symbols, parts) /\ Bounded /\ OwnColumns /\ PartsWellFormed
      /\ SymbolsDistinct(symbols) /\ PartsDistinct(parts)
  BY DistinctRows DEF RowsSound
<1>2. /\ symbols' \in [Symbols -> SymbolRows \cup {None}]
      /\ parts' \in [Parts -> PartRows \cup {None}]
      /\ Whole(symbols', parts')
      /\ library' \in [Entries -> EntryRows \cup {None}]
      /\ EntriesWhole(symbols', library')
  BY <1>1, ChangeIsWhole, CascadedAreWhole
<1>3. TypeOK'
  BY <1>2 DEF TypeOK
<1>4. \/ SymbolChange(symbols') /\ parts' = parts
      \/ symbols' = symbols /\ PartChange(parts')
      \/ symbols' = symbols /\ parts' = parts
  BY DEF Change
<1>5. /\ \E n \in Nat : \A s \in Symbols : symbols'[s] # None => symbols'[s].pos <= n
      /\ \E n \in Nat : \A p \in Parts : parts'[p] # None => parts'[p].pos <= n
  <2>1. /\ \E n \in Nat : \A s \in Symbols : symbols[s] # None => symbols[s].pos <= n
        /\ \E n \in Nat : \A p \in Parts : parts[p] # None => parts[p].pos <= n
    BY <1>1 DEF Bounded
  <2>  QED BY <1>1, <1>4, <2>1, SymbolsStayBounded, PartsStayBounded
<1>6. Bounded'
  <2>1. PICK n \in Nat : \A s \in Symbols : symbols'[s] # None => symbols'[s].pos <= n
    BY <1>5
  <2>2. PICK m \in Nat : \A p \in Parts : parts'[p] # None => parts'[p].pos <= m
    BY <1>5
  <2>3. /\ \A s \in Symbols : symbols'[s] # None => symbols'[s].pos \in Nat
        /\ \A p \in Parts : parts'[p] # None => parts'[p].pos \in Nat
    BY <1>2 DEF SymbolRows, PartRows
  <2>4. /\ n + m \in Nat
        /\ \A s \in Symbols : symbols'[s] # None => symbols'[s].pos <= n + m
        /\ \A p \in Parts : parts'[p] # None => parts'[p].pos <= n + m
    BY <2>1, <2>2, <2>3
  <2>  QED BY <2>4 DEF Bounded
<1>7. SymbolsDistinct(symbols') /\ PartsDistinct(parts')
  BY <1>1, <1>4, SymbolsStayDistinct, PartsStayDistinct
<1>8. CollectionsDistinct'
  <2>1. (CollectionsDistinct <=> SymbolsDistinct(symbols) /\ PartsDistinct(parts))'
    BY <1>3, DistinctRows, PTL
  <2>  QED BY <1>7, <2>1
<1>9. \A p \in Parts : parts'[p] # None => Own(parts'[p]) /\ WellFormed(parts'[p])
  <2>1. \A p \in Parts : parts[p] # None => Own(parts[p]) /\ WellFormed(parts[p])
    BY <1>1 DEF OwnColumns, PartsWellFormed, WellFormed
  <2>  QED BY <1>1, <1>4, <2>1, PartsStayWellFormed
<1>10. OwnColumns' /\ PartsWellFormed'
  BY <1>9 DEF OwnColumns, PartsWellFormed, WellFormed
<1>11. EntriesWhole(symbols, library)'
  BY <1>2 DEF EntriesWhole
<1>  QED BY <1>2, <1>3, <1>6, <1>8, <1>10, <1>11 DEF RowsSound

\* What an operation would write depends on the rows alone.
LEMMA OutcomeStands ==
  ASSUME symbols' = symbols, parts' = parts, library' = library, NEW op
  PROVE  Outcome(op)' = Outcome(op)
<1>1. Stored' = Stored
  BY DEF Stored
<1>2. Unions' = Unions
  BY <1>1 DEF Unions
<1>3. \A u : Kind(u)' = Kind(u)
  BY <1>1 DEF Kind
<1>4. \A c : Rows(c)' = Rows(c)
  BY DEF Rows
<1>5. \A u : NextSymbolPosition(u)' = NextSymbolPosition(u)
  BY <1>3 DEF NextSymbolPosition
<1>6. \A c : NextPosition(c)' = NextPosition(c)
  BY <1>4 DEF NextPosition
<1>7. \A s : SymbolReferenced(s)' <=> SymbolReferenced(s)
  BY <1>1 DEF SymbolReferenced
<1>8. LineNames' = LineNames
  BY <1>4 DEF LineNames
<1>9. \A c : SortsResolve(op, c)' <=> SortsResolve(op, c)
  BY <1>2 DEF SortsResolve
<1>10. Resolved(op)' = Resolved(op)
  BY DEF Resolved
<1>11. \A row : Merged(row, op)' = Merged(row, op)
  BY <1>10 DEF Merged
<1>12. \A syms, name : InUnion(syms, name)' <=> InUnion(syms, name)
  BY <1>2 DEF InUnion
<1>13. CreateSymbol(op)' = CreateSymbol(op)
  BY <1>5, <1>12 DEF CreateSymbol
<1>14. UpdateSymbol(op)' = UpdateSymbol(op)
  <2> DEFINE named(syms) == [syms EXCEPT ![op.id].name = op.name]
             moves(kind) == op.sort # None /\ op.id \in kind
             rebinds(kind) == op.bindings # None /\ op.id \in kind
             fits(syms, kind, stored, unions) ==
               /\ op.id \in stored
               /\ NameFree(op.name, syms, op.id)
               /\ moves(kind) => (op.sort # None => /\ Resolves(named(syms), op.sort)
                                                  /\ Resolve(named(syms), op.sort) \in unions)
               /\ rebinds(kind) => SlotsResolve(named(syms), op.bindings)
             write(syms, kind) == WriteSymbols(Row(op.id, [named(syms)[op.id] EXCEPT
               !.member = IF moves(kind) THEN Id(named(syms), op.sort) ELSE @,
               !.bindings = IF rebinds(kind) THEN Slots(named(syms), op.bindings) ELSE @]))
  <2>1. UpdateSymbol(op) =
          IF fits(symbols, Kind(FALSE), Stored, Unions) THEN write(symbols, Kind(FALSE)) ELSE None
    BY DEF UpdateSymbol, InUnion
  <2>2. UpdateSymbol(op)' =
          IF fits(symbols', Kind(FALSE)', Stored', Unions') THEN write(symbols', Kind(FALSE)') ELSE None
    BY DEF UpdateSymbol, InUnion
  <2>3. Kind(FALSE)' = Kind(FALSE)
    BY <1>3
  <2> HIDE DEF fits, write
  <2>  QED BY <1>1, <1>2, <2>1, <2>2, <2>3, Zenon
<1>15. DeleteSymbol(op)' = DeleteSymbol(op)
  BY <1>1, <1>2, <1>7 DEF DeleteSymbol
<1>16. ReorderSymbols(op)' = ReorderSymbols(op)
  BY <1>3 DEF ReorderSymbols
<1>17. CreatePart(op)' = CreatePart(op)
  BY <1>6, <1>8, <1>9, <1>11 DEF CreatePart
<1>18. UpdatePart(op)' = UpdatePart(op)
  BY <1>4, <1>8, <1>9, <1>11 DEF UpdatePart
<1>19. DeletePart(op)' = DeletePart(op)
  BY <1>4 DEF DeletePart
<1>20. ReorderParts(op)' = ReorderParts(op)
  BY <1>4 DEF ReorderParts, GuardDefinitionReorder
<1>21. Assume(op)' = Assume(op) /\ Withdraw(op)' = Withdraw(op)
  BY DEF Assume, Withdraw
<1>  QED BY <1>13, <1>14, <1>15, <1>16, <1>17, <1>18, <1>19, <1>20, <1>21 DEF Outcome

LEMMA Initially == Init => IInv
<1> HAVE Init
<1>1. TypeOK
  BY DEF Init, TypeOK, Idle
<1>2. Decided
  BY DEF Init, Decided
<1>3. /\ Whole(symbols, parts) /\ EntriesWhole(symbols, library)
      /\ OwnColumns /\ PartsWellFormed /\ Bounded
  BY DEF Init, Whole, EntriesWhole, OwnColumns, PartsWellFormed, Bounded
<1>4. CollectionsDistinct
  BY <1>1, DistinctRows DEF Init, SymbolsDistinct, PartsDistinct
<1>  QED BY <1>1, <1>2, <1>3, <1>4 DEF IInv, RowsSound

LEMMA EnterKeeps ==
  ASSUME IInv, NEW r \in Requests, NEW op \in Operations, Enter(r, op)
  PROVE  IInv'
<1>1. /\ req[r] = Idle /\ lock = None /\ Outcome(op) # None /\ lock' = r
      /\ req' = [req EXCEPT ![r] = [stage |-> "read", write |-> Outcome(op)]]
      /\ symbols' = symbols /\ parts' = parts /\ library' = library
  BY DEF Enter
<1>2. TypeOK'
  BY <1>1 DEF IInv, TypeOK
<1>3. RowsSound'
  BY <1>1 DEF IInv, RowsSound, Bounded, OwnColumns, PartsWellFormed, CollectionsDistinct, Kind,
              Stored, Rows
<1>4. \A q \in Requests : q # r => req'[q] = Idle
  BY <1>1, NoneAssumption DEF IInv, Decided, TypeOK
<1>5. Outcome(op)' # None /\ req'[r] = [stage |-> "read", write |-> Outcome(op)']
  BY <1>1, OutcomeStands DEF IInv, TypeOK
<1>6. Decided'
  BY <1>1, <1>4, <1>5 DEF Decided, Idle
<1>  QED BY <1>2, <1>3, <1>6 DEF IInv

LEMMA CommitKeeps ==
  ASSUME IInv, NEW r \in Requests, Commit(r)
  PROVE  IInv'
<1>1. /\ req[r].stage = "read" /\ req' = [req EXCEPT ![r] = Idle]
      /\ lock' = IF lock = r THEN None ELSE lock
  BY DEF Commit
<1>2. \A q \in Requests : req'[q] = Idle
  BY <1>1, IdleIsNotRead DEF IInv, Decided, TypeOK
<1>3. Decided'
  BY <1>2 DEF Decided, Idle
<1>4. /\ DOMAIN req' = Requests /\ lock' \in Requests \cup {None}
      /\ \A q \in Requests : req'[q].stage \in {"idle", "read"}
  BY <1>1, <1>2, IdleIsNotRead DEF IInv, TypeOK
<1>5. TypeOK' /\ RowsSound'
  <2>1. CASE UNCHANGED <<symbols, parts, library>>
    <3>1. TypeOK'
      BY <1>4, <2>1 DEF IInv, TypeOK
    <3>2. RowsSound'
      BY <2>1 DEF IInv, RowsSound, Bounded, OwnColumns, PartsWellFormed, CollectionsDistinct, Kind,
                  Stored, Rows
    <3>  QED BY <3>1, <3>2
  <2>2. ASSUME NEW lib, Change(symbols', parts', lib), library' = CascadedEntries(lib, symbols')
        PROVE  TypeOK' /\ RowsSound'
    BY <1>4, <2>2, ChangeKeepsRows DEF IInv
  <2>  QED BY <2>1, <2>2, CommitIsChange
<1>  QED BY <1>3, <1>5 DEF IInv

LEMMA StepKeeps == IInv /\ [Next]_vars => IInv'
<1> SUFFICES ASSUME IInv, [Next]_vars
             PROVE  IInv'
  OBVIOUS
<1>1. CASE Next
  BY <1>1, EnterKeeps, CommitKeeps DEF Next
<1>2. CASE UNCHANGED vars
  <2>1. /\ symbols' = symbols /\ parts' = parts /\ library' = library
        /\ lock' = lock /\ req' = req
    BY <1>2 DEF vars
  <2>2. TypeOK'
    BY <2>1 DEF IInv, TypeOK
  <2>3. RowsSound'
    BY <2>1 DEF IInv, RowsSound, Bounded, OwnColumns, PartsWellFormed, CollectionsDistinct, Kind,
                Stored, Rows
  <2>4. Decided'
    BY <2>1, OutcomeStands DEF IInv, Decided, Idle
  <2>  QED BY <2>2, <2>3, <2>4 DEF IInv
<1>  QED BY <1>1, <1>2

\* Whatever requests overlap, the rows keep their types.
THEOREM TypeCorrect == Spec => []TypeOK
BY Initially, StepKeeps, PTL DEF Spec, IInv

\* Rows of one collection have places of their own, and line types names.
THEOREM CollectionsStayDistinct == Spec => []CollectionsDistinct
BY Initially, StepKeeps, PTL DEF Spec, IInv, RowsSound

\* No sequence of partial PATCHes adds up to an ill-formed part.
THEOREM PartsStayWhole == Spec => []PartsWellFormed
BY Initially, StepKeeps, PTL DEF Spec, IInv, RowsSound

\* A symbol goes only by a delete of it, which changes no other symbol and no
\* part, and of the entries only what ranged over it.
THEOREM DeletesOnlyUnbind == Spec => OnlyEntriesUnbound
<1> DEFINE Alone ==
      \A s \in Symbols : symbols[s] # None /\ symbols'[s] = None
        => /\ parts' = parts /\ \A q \in Symbols \ {s} : symbols'[q] = symbols[q]
           /\ library' = [e \in Entries |->
                IF library[e] = None THEN None
                ELSE [library[e] EXCEPT !.bindings = Unbind(@, s)]]
<1>1. IInv /\ [Next]_vars => [Alone]_vars
  <2> SUFFICES ASSUME IInv, Next
               PROVE  Alone
    BY DEF vars
  <2>1. CASE UNCHANGED <<symbols, parts, library>>
    BY <2>1
  <2>2. ASSUME NEW lib, Change(symbols', parts', lib), library' = CascadedEntries(lib, symbols')
        PROVE  Alone
    <3> SUFFICES ASSUME NEW s \in Symbols, symbols[s] # None, symbols'[s] = None
                 PROVE  /\ parts' = parts /\ \A q \in Symbols \ {s} : symbols'[q] = symbols[q]
                        /\ library' = [e \in Entries |->
                             IF library[e] = None THEN None
                             ELSE [library[e] EXCEPT !.bindings = Unbind(@, s)]]
      OBVIOUS
    <3>1. SymbolChange(symbols') /\ parts' = parts /\ lib = library
      BY <2>2 DEF Change
    <3>2. TypeOK /\ EntriesWhole(symbols, library)
      BY DEF IInv, RowsSound
    <3>3. ASSUME NEW q \in Symbols, NEW row, SymbolFits(q, row),
                 \A x \in Symbols : symbols'[x] = IF x = q THEN row ELSE symbols[x]
          PROVE  FALSE
      BY <3>3, NoneAssumption DEF SymbolFits
    <3>4. ASSUME NEW u \in BOOLEAN, NEW new, SymbolsMoved(u, new),
                 \A x \in Symbols : symbols'[x] = IF x \in Kind(u) THEN new[x] ELSE symbols[x]
          PROVE  FALSE
      BY <3>4, NoneAssumption DEF SymbolsMoved
    <3>5. PICK q \in Symbols :
            /\ Unreferenced(q)
            /\ \A x \in Symbols : symbols'[x] = IF x = q THEN None ELSE symbols[x]
      BY <3>1, <3>2, <3>3, <3>4, ChangedSymbols
    <3>6. q = s
      BY <3>5
    <3>7. library' = [e \in Entries |->
            IF library[e] = None THEN None ELSE [library[e] EXCEPT !.bindings = Unbind(@, s)]]
      BY <2>2, <3>1, <3>2, <3>5, <3>6, OneUnbound
    <3>  QED BY <3>1, <3>5, <3>6, <3>7
  <2>3. ASSUME NEW r \in Requests, NEW op \in Operations, Enter(r, op)
        PROVE  Alone
    BY <2>3 DEF Enter
  <2>  QED BY <2>1, <2>2, <2>3, CommitIsChange DEF Next
<1>  QED BY <1>1, Initially, StepKeeps, PTL DEF Spec, OnlyEntriesUnbound
=============================================================================
