----------------------------- MODULE Transfer -----------------------------
(***************************************************************************)
(* Reading a theorem of one formal system in another: the renames of a     *)
(* relation edge (website/logical/translation.py), its statement template  *)
(* (wrapping.py), the rebuilding of a stored term over the citing system's *)
(* productions (app/db/terms_mapping.py) and the promotion of a library    *)
(* entry there (app/db/promoted_theorems_mapping.py, promotion.py).        *)
(*                                                                         *)
(* A name is <<n>> for a declared sort or production, and <<sort, template>>*)
(* for the notation of a definition.  A grammar maps names to productions. *)
(* A text is a tree of surface pieces, so two productions that are spelled *)
(* alike have the same texts.  A partial operation returns the set of its  *)
(* results, and where the parser may pick one of several readings the set  *)
(* has them all.                                                           *)
(***************************************************************************)
EXTENDS Naturals, Sequences, FiniteSets, Functions, SequencesExt, TLC

Pick(S) == CHOOSE x \in S : TRUE
Nothing == [x \in {} |-> x]
Pieces(spell, parts) == [spell |-> spell, parts |-> parts]

---------------------------------------------------------------------------
(* Grammars *)

\* A production has its kind, the sort it is declared in, its slot labels and
\* their sorts in order, the pairs of a binder slot and a slot it reaches, its
\* surface (skeleton, token, or base of a family), the tokens it reads, its
\* place in the order of declaration, and whether it is the notation of a
\* definition.
NoProduction == [kind |-> "none", sort |-> <<>>, slots |-> <<>>, sorts |-> <<>>,
                 scopes |-> {}, spell |-> "", tokens |-> {}, at |-> 0, notation |-> FALSE]
IsSort(p) == p.kind = "union"
Signature(n, p) == IF IsSort(p) THEN <<"named", n>> ELSE <<p.kind, p.spell>>

\* What a sort admits: itself, its productions, and what a sort included in
\* it admits.  A production admits itself.
RECURSIVE Admits(_, _)
Admits(g, n) ==
    {n} \cup UNION {Admits(g, m) : m \in {k \in DOMAIN g : IsSort(g[n]) /\ g[k].sort = n
                                                          /\ ~g[k].notation}}

---------------------------------------------------------------------------
(* Renames *)

Identity == [sorts |-> Nothing, symbols |-> Nothing]
IsIdentity(tr) == DOMAIN tr.sorts = {} /\ DOMAIN tr.symbols = {}
Declared(tr) == DOMAIN tr.sorts \cup DOMAIN tr.symbols

\* A symbol by itself, a sort by itself, a notation by its sort.
Name(tr, n) ==
    IF n \in DOMAIN tr.symbols THEN tr.symbols[n]
    ELSE IF n \in DOMAIN tr.sorts THEN tr.sorts[n]
    ELSE IF Len(n) = 2 /\ <<n[1]>> \in DOMAIN tr.sorts
    THEN <<tr.sorts[<<n[1]>>][1], n[2]>>
    ELSE n

\* A mutant: the notation of a definition is looked for as it is named here.
PlainStoredName(tr, m) ==
    LET from(map) == {s \in DOMAIN map : map[s] = m}
    IN IF from(tr.symbols) # {} THEN {Pick(from(tr.symbols))}
       ELSE IF from(tr.sorts) # {} THEN {Pick(from(tr.sorts))} ELSE {m}

\* The name a stored term has where the citing system says m.
StoredName(tr, m) ==
    LET symbols   == {s \in DOMAIN tr.symbols : tr.symbols[s] = m}
        sorts     == {s \in DOMAIN tr.sorts : tr.sorts[s] = m}
        notations == {s \in DOMAIN tr.sorts : Len(m) = 2 /\ tr.sorts[s] = <<m[1]>>}
    IN IF symbols # {} THEN {Pick(symbols)}
       ELSE IF sorts # {} THEN {Pick(sorts)}
       ELSE IF notations # {} THEN {<<Pick(notations)[1], m[2]>>}
       ELSE IF Name(tr, m) # m THEN {} ELSE {m}

ImagesDistinct(src, tr) ==
    \A m, n \in {k \in DOMAIN src : ~src[k].notation} : Name(tr, m) = Name(tr, n) => m = n

\* A mutant: what a slot binds is not compared.
SameSlots(p, q) == p.kind = q.kind /\ p.slots = q.slots

\* The slots are compared by label: what sort a slot has is not.
SameShape(p, q) ==
    /\ p.kind = q.kind /\ p.slots = q.slots /\ p.scopes = q.scopes
    /\ (p.kind = "family") = (q.kind = "family")
    /\ p.kind = "family" => p.spell = q.spell

Corresponds(src, tgt, tr, n) ==
    LET m == Name(tr, n) IN
    /\ m \in DOMAIN tgt /\ ~tgt[m].notation
    /\ SameShape(src[n], tgt[m])
    /\ n \in Declared(tr) \/ Signature(n, src[n]) = Signature(m, tgt[m])
    /\ {Name(tr, b) : b \in Admits(src, n)} \subseteq Admits(tgt, m)

\* translation_errors finds nothing: asked of the whole source grammar, and of
\* an edge without a map nothing at all.
Admitted(src, tgt, tr) ==
    \/ IsIdentity(tr)
    \/ /\ Declared(tr) \subseteq {n \in DOMAIN src : ~src[n].notation}
       /\ ImagesDistinct(src, tr)
       /\ \A n \in DOMAIN src :
            IF src[n].notation
            THEN Name(tr, n) \in DOMAIN tgt /\ tgt[Name(tr, n)].notation
            ELSE Corresponds(src, tgt, tr, n)

---------------------------------------------------------------------------
(* Terms *)

\* A term holds the production each node is over, and its children with the
\* slot each is in.
Node(n, p, kids) ==
    [kind |-> "node", con |-> n, prod |-> p, lit |-> "", slots |-> p.slots, kids |-> kids]
Leaf(n, p, lit)  == [Node(n, p, <<>>) EXCEPT !.lit = lit]
Var(name, sort)  == [kind |-> "var", con |-> sort, prod |-> NoProduction, lit |-> name,
                     slots |-> <<>>, kids |-> <<>>]

\* What is stored: names, and children under their slot labels.
RECURSIVE Row(_)
Row(t) == [kind |-> t.kind, name |-> t.con, lit |-> t.lit,
           kids |-> [i \in DOMAIN t.kids |-> [slot |-> t.slots[i], row |-> Row(t.kids[i])]]]

RECURSIVE Subterms(_)
Subterms(t) == {t} \cup UNION {Subterms(k) : k \in Range(t.kids)}

NamesIn(t) == {u.lit : u \in {v \in Subterms(t) : v.kids = <<>>}}
TermSort(t) == IF t.prod.notation THEN t.prod.sort ELSE t.con

\* Terms are matched slot by slot of their production: one with a slot that
\* holds nothing matches no term.
Matchable(t) == \A u \in Subterms(t) : u.lit = "" => Range(u.prod.slots) \subseteq Range(u.slots)
SortAdmits(g, sort, t) == TermSort(t) \in Admits(g, sort)

\* A constant's token is the production's, so it follows the rename.
Literal(row, p) == IF p.kind = "const" THEN p.spell ELSE row.lit

\* The stored term over the productions of grammar g: none when a name of it
\* has no production there.  Children keep the slots they were stored under,
\* whatever slots the production has here.
RECURSIVE Rebuild(_, _, _)
Rebuild(row, g, tr) ==
    LET n    == Name(tr, row.name)
        kids == [i \in DOMAIN row.kids |-> Rebuild(row.kids[i].row, g, tr)]
    IN IF n \notin DOMAIN g \/ {} \in Range(kids) THEN {}
       ELSE IF row.kind = "var" THEN {Var(row.lit, n)}
       ELSE {[Node(n, g[n], [i \in DOMAIN kids |-> Pick(kids[i])])
                EXCEPT !.lit = Literal(row, g[n]),
                       !.slots = [i \in DOMAIN kids |-> row.kids[i].slot]]}

\* The surface of the production, a slot without a child printed by its label.
RECURSIVE ToText(_)
ToText(t) ==
    LET in(slot) == {i \in DOMAIN t.kids : t.slots[i] = slot}
        piece(slot) == IF in(slot) = {} THEN Pieces(slot, <<>>) ELSE ToText(t.kids[Pick(in(slot))])
    IN IF t.lit # "" THEN Pieces(t.lit, <<>>)
       ELSE Pieces(t.prod.spell, [i \in DOMAIN t.prod.slots |-> piece(t.prod.slots[i])])

RECURSIVE Substitute(_, _, _)
Substitute(t, name, by) ==
    IF t.kind = "var" THEN IF t.lit = name THEN by ELSE t
    ELSE [t EXCEPT !.kids = [i \in DOMAIN t.kids |-> Substitute(t.kids[i], name, by)]]

---------------------------------------------------------------------------
(* Reading a statement *)

\* The terms a text can be read as at a sort, vars being its metavariables.
RECURSIVE Readings(_, _, _, _)
Readings(text, g, vars, sort) ==
    LET here == {n \in Admits(g, sort) : ~IsSort(g[n])}
                  \cup {n \in DOMAIN g : g[n].notation /\ g[n].sort \in Admits(g, sort)}
    IN IF text.parts = <<>>
       THEN IF text.spell \in DOMAIN vars
            THEN IF vars[text.spell] \in Admits(g, sort)
                 THEN {Var(text.spell, vars[text.spell])} ELSE {}
            ELSE {Leaf(n, g[n], text.spell) :
                    n \in {m \in here : g[m].slots = <<>> /\ text.spell \in g[m].tokens}}
       ELSE UNION {
              LET p == g[n]
                  kid(i) == Readings(text.parts[i], g, vars, p.sorts[i])
                  every == UNION {kid(i) : i \in DOMAIN p.slots}
              IN {Node(n, p, ks) : ks \in
                    {f \in [DOMAIN p.slots -> every] : \A i \in DOMAIN p.slots : f[i] \in kid(i)}}
              : n \in {m \in here : g[m].slots # <<>> /\ g[m].spell = text.spell
                                    /\ Len(g[m].slots) = Len(text.parts)}}

RECURSIVE TokensIn(_)
TokensIn(text) ==
    IF text.parts = <<>> THEN {text.spell} ELSE UNION {TokensIn(p) : p \in Range(text.parts)}

\* The schema of a statement: its term, and whether a term is there to be
\* cached.  A metavariable alone and a constant alone have none, nor has what
\* no production reads.
Schema(term, cacheable) == [term |-> term, cacheable |-> cacheable]
Unread == Schema(Var("", <<>>), FALSE)
Broken == Schema(Var("!", <<>>), FALSE)

\* A statement with metavariables is composed without the definitions; a
\* ground one with them, and at the sorts of a proof's lines only.
Composed(text, g, vars, logical) ==
    LET own        == Restrict(g, {n \in DOMAIN g : ~g[n].notation})
        at(h, sorts) == UNION {Readings(text, h, vars, s) : s \in sorts}
    IN IF TokensIn(text) \cap DOMAIN vars = {} THEN at(g, logical)
       ELSE IF at(own, logical) # {} THEN at(own, logical)
       ELSE at(own, {n \in DOMAIN g : IsSort(g[n])})

\* A production used as a statement by itself: a constant is that constant,
\* anything else ranges over what the production reads.
Denoted(n, p) ==
    IF p.kind = "const" THEN Leaf(n, p, p.spell)
    ELSE IF p.slots = <<>> THEN Var(n[1], n)
    ELSE Node(n, p, [i \in DOMAIN p.slots |-> Var(p.slots[i], p.sorts[i])])

\* What a text that is no metavariable names: the production of that name, else
\* the first constant declared with that token.
Named(text, g) ==
    LET named     == {<<text.spell>>} \cap DOMAIN g
        constants == {n \in DOMAIN g : g[n].kind = "const" /\ g[n].spell = text.spell}
    IN IF text.parts # <<>> THEN {}
       ELSE IF named # {} THEN named
       ELSE {n \in constants : \A m \in constants : g[n].at <= g[m].at}

\* What a statement means in a system when cached is the term stored for it,
\* if there is one.  A ground statement that cannot be read is an error.
TheoremSchema(text, g, vars, logical, matching, cached) ==
    LET composed == Composed(text, g, vars, logical)
    IN IF text.parts = <<>> /\ text.spell \in DOMAIN vars
       THEN {Schema(Var(text.spell, vars[text.spell]), FALSE)}
       ELSE IF Named(text, g) # {}
       THEN {Schema(Denoted(n, g[n]), FALSE) : n \in Named(text, g)}
       ELSE IF cached # {} THEN {Schema(t, TRUE) : t \in cached}
       ELSE IF composed # {} THEN {Schema(t, TRUE) : t \in composed}
       ELSE IF matching # "string" /\ TokensIn(text) \cap DOMAIN vars = {} THEN {Broken}
       ELSE {Unread}

---------------------------------------------------------------------------
(* Statement templates *)

\* A text with a sort in braces where a statement goes, and the metavariables
\* it brings.
NoTemplate == [text |-> Pieces("", <<>>), braced |-> {}, extras |-> Nothing]
IsPlain(template) == template = NoTemplate
HoleToken(sort) == "{" \o sort[1] \o "}"
Holes(g, template) == {n \in template.braced : n \in DOMAIN g}

\* The shapes a template composes to in a system: none, and nothing crosses.
BuildTemplate(g, logical, template) ==
    IF Cardinality(Holes(g, template)) # 1 \/ ~(Range(template.extras) \subseteq DOMAIN g)
    THEN {}
    ELSE LET hole == Pick(Holes(g, template))
             vars == template.extras @@ (HoleToken(hole) :> hole)
         IN {[shape |-> t, hole |-> hole, extras |-> template.extras] :
               t \in UNION {Readings(template.text, g, vars, s) : s \in logical}}

Wrap(g, built, t) ==
    IF SortAdmits(g, built.hole, t)
    THEN {Substitute(built.shape, HoleToken(built.hole), t)} ELSE {}
=============================================================================
