-------------------------- MODULE SystemPartsProps --------------------------
(* What must stay true of the parts of a draft, whoever edits them.          *)
EXTENDS SystemParts

\* The rows have the columns of their tables, and a request is waiting or has
\* read.
TypeOK ==
  /\ symbols \in [Symbols -> SymbolRows \cup {None}]
  /\ parts \in [Parts -> PartRows \cup {None}]
  /\ library \in [Entries -> EntryRows \cup {None}]
  /\ lock \in Requests \cup {None}
  /\ DOMAIN req = Requests
  /\ \A r \in Requests : req[r].stage \in {"idle", "read"}

\* Every foreign key to a symbol cascades, yet a DELETE of one takes no sort,
\* production, part, entry or proviso with it, whatever is written meanwhile.
\* It does take what _SYMBOL_REFERENCES leaves out, and nothing else: the
\* bindings of the entries whose metavariables range over it.
Unbind(bindings, s) == [v \in Vars |-> IF bindings[v] = s THEN None ELSE bindings[v]]
OnlyEntriesUnbound ==
  [][\A s \in Symbols : symbols[s] # None /\ symbols'[s] = None =>
       /\ parts' = parts /\ \A q \in Symbols \ {s} : symbols'[q] = symbols[q]
       /\ library' = [e \in Entries |->
            IF library[e] = None THEN None ELSE [library[e] EXCEPT !.bindings = Unbind(@, s)]]]_vars

\* "The API blocks deleting a still-referenced symbol (409) so the cascade never
\* silently removes a live reference" (app/db/systems.py:57).  False of the
\* metavariables of an entry.
NothingUnbound ==
  [][\A s \in Symbols : symbols[s] # None /\ symbols'[s] = None => library' = library]_vars

\* Rows of one collection have positions of their own, whatever was deleted and
\* whoever else is creating one; and no two line types share a name, which no
\* index of the database says.
CollectionsDistinct ==
  /\ \A union \in BOOLEAN : \A s, q \in Kind(union) : symbols[s].pos = symbols[q].pos => s = q
  /\ \A class \in Classes : \A p, q \in Rows(class) : parts[p].pos = parts[q].pos => p = q
  /\ \A p, q \in Rows("line") : parts[p].name = parts[q].name => p = q

\* However a rule or a line came to be by partial PATCHes, it is one the checker
\* reads as it is written: no side conditions on a string rule, none and no
\* antecedents on a discharge rule, no proviso on an unbound metavariable, and
\* a comment line that neither holds a formula nor opens a scope.
PartsWellFormed ==
  \A p \in Parts : parts[p] # None =>
    /\ \A c \in parts[p].provisos : parts[p].bindings[c[1]] # None
    /\ parts[p].string => parts[p].provisos = {}
    /\ parts[p].subproof => parts[p].provisos = {} /\ ~parts[p].antecedents
    /\ parts[p].comment => parts[p].sort = None /\ ~parts[p].scope

\* A definition that is recognised stays so until it, or one its notation is
\* built on, is itself edited or deleted: no reorder un-defines one.
BuiltOn(ps, p) ==
  LET on[n \in 0..Cardinality(Parts)] ==
        IF n = 0 THEN {p} ELSE on[n - 1] \cup UNION {ps[q].uses : q \in on[n - 1]}
  IN  on[Cardinality(Parts)]

LiveDefinitionsStay ==
  [][\A p \in Layered(parts) :
       \/ p \in Layered(parts')
       \/ \E q \in BuiltOn(parts, p) :
            parts'[q] = None \/ parts'[q].uses # parts[q].uses]_vars
=============================================================================
