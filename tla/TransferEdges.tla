--------------------------- MODULE TransferEdges ---------------------------
(***************************************************************************)
(* The library a system cites from: its own entries, those of the systems  *)
(* it inherits from, and those that relation edges carry here under a      *)
(* rename and a statement template (app/db/system_relations_mapping.py,    *)
(* app/db/promoted_theorems_mapping.py, app/routers/system_relations.py).  *)
(*                                                                         *)
(* One system, the draft, is being edited; every other one is published    *)
(* and keeps its grammar.  Proofs of the draft cite one label each and are *)
(* checked at any time; a verdict remembers the theorem its citation was   *)
(* read as.  Requests are whole here: Library has their interleavings.     *)
(* An edge is either a legal write of the relations router or one that a   *)
(* later edit of the draft has made unreadable.                            *)
(***************************************************************************)
EXTENDS Transfer

CONSTANTS
    Draft,        \* the citing system
    Chain,        \* [system -> sequence]: the system, then what it inherits from
    Published,    \* [system -> grammar]: what each published system declares itself
    Grammars,     \* what the draft may declare itself
    LineSorts,    \* the logical sorts of the draft
    Library,      \* the entries of the published systems
    Statements,   \* what the draft's own entry may state
    Pairs,        \* <<source, target>>: where an edge may be written
    Contents,     \* [Pairs -> sets of edge contents]
    Cited,        \* the labels the proofs of the draft cite
    NoEdge, NoVerdict, NoDigest

VARIABLES
    own,       \* what the draft declares now
    shelf,     \* the draft's own entries (at most one)
    edges,     \* [Pairs -> edge content or NoEdge]
    verdict    \* the standing check or NoVerdict
vars == <<own, shelf, edges, verdict>>

Systems == DOMAIN Chain
Declares(s) == IF s = Draft THEN own ELSE Published[s]

\* layered_spec: an inheritance chain is one grammar, each name declared once.
Grammar(s) == FoldLeft(LAMBDA g, t : g @@ Declares(t), Nothing, Chain[s])

\* theorem_digest: the owner's own grammar; an entry's text never changes.
Digest(s) == Grammar(s)
Entries == Library \cup shelf
Fresh(e) == e.digest = Digest(e.system)

---------------------------------------------------------------------------
(* Layers *)

Obliged(edge) == edge.owes \subseteq {"discharged"}
Transfers(edge) == edge # NoEdge /\ edge.status = "discharged" /\ Obliged(edge)

\* The edges into the draft's chain, by position and then by id.
Reaching ==
    SetToSortSeq({p \in Pairs : p[2] \in Range(Chain[Draft]) /\ Transfers(edges[p])},
                 LAMBDA p, q : \/ edges[p].position < edges[q].position
                               \/ edges[p].position = edges[q].position
                                    /\ edges[p].id < edges[q].id)

Layer(s, tr, template) == [system |-> s, translation |-> tr, template |-> template]

\* related_layers: each source with its chain, a system seen before left out,
\* and nothing of an edge whose map does not read the source here.
RelatedLayers ==
    FoldLeft(LAMBDA layers, p :
               LET edge == edges[p]
                   seen == Range(Chain[Draft]) \cup {l.system : l \in Range(layers)}
               IN IF ~Admitted(Grammar(p[1]), Grammar(Draft), edge.translation) THEN layers
                  ELSE layers \o [i \in DOMAIN SelectSeq(Chain[p[1]], LAMBDA s : s \notin seen) |->
                         Layer(SelectSeq(Chain[p[1]], LAMBDA s : s \notin seen)[i],
                               edge.translation, edge.template)],
             <<>>, Reaching)

OwnLayers == [i \in DOMAIN Chain[Draft] |-> Layer(Chain[Draft][i], Identity, NoTemplate)]
Layers == OwnLayers \o RelatedLayers
Rank(layers, s) == CHOOSE i \in DOMAIN layers : layers[i].system = s

\* _nearest: one entry for a label, of the first layer that has one.
Nearest(layers, label) ==
    LET having == {e \in Entries : e.label = label /\ \E l \in Range(layers) : l.system = e.system}
    IN {e \in having : \A f \in having : Rank(layers, e.system) <= Rank(layers, f.system)}

---------------------------------------------------------------------------
(* Promotion *)

Refused == [status |-> "refused"]
Failed  == [status |-> "failed"]
Is(theorem) == [status |-> "read", theorem |-> theorem]

IsPlainLayer(l) == IsIdentity(l.translation) /\ IsPlain(l.template)

\* _require_a_citable_entry.
Citable(e, layer, rank) ==
    /\ Fresh(e) \/ rank = 1
    /\ IsPlainLayer(layer)
         \/ /\ \A c \in e.provisos : c.args \subseteq DOMAIN e.variables
            /\ e.matching # "string"

Texts(e) == <<e.statement>> \o e.premises

\* The stored terms read here, one set for each text: empty where none is
\* stored or the entry is stale.
ReadTerms(e, layer, g) ==
    [i \in DOMAIN Texts(e) |->
       UNION {Rebuild(row, g, layer.translation) : row \in IF Fresh(e) THEN e.terms[i] ELSE {}}]
TermsReadable(e, layer, g) ==
    \A i \in DOMAIN Texts(e) :
      Fresh(e) /\ e.terms[i] # {} => \E row \in e.terms[i] : Rebuild(row, g, layer.translation) # {}

\* _translated: the sorts renamed, and a statement spelled from its term where
\* one was read.
TranslatedTexts(e, layer, terms) ==
    [i \in DOMAIN terms |->
       IF IsIdentity(layer.translation) \/ terms[i] = {} THEN Texts(e)[i] ELSE ToText(Pick(terms[i]))]
TranslatedVariables(e, tr) == [v \in DOMAIN e.variables |-> Name(tr, e.variables[v])]
TranslatedProvisos(e, tr) ==
    {[c EXCEPT !.sort = IF c.sort = <<>> THEN c.sort ELSE Name(tr, c.sort)] : c \in e.provisos}

\* _require_the_extras_capture_nothing.
CapturesNothing(e, built, names, terms) ==
    DOMAIN built.extras \cap (UNION {NamesIn(t) : t \in UNION Range(terms)} \cup DOMAIN names
                                \cup UNION {c.args : c \in e.provisos}) = {}

\* _wrapped: each text's term, or the metavariable it is, inside the template.
WrappedTerms(g, built, texts, names, terms) ==
    [i \in DOMAIN texts |->
       LET held == IF terms[i] # {} THEN terms[i]
                   ELSE IF texts[i].parts = <<>> /\ texts[i].spell \in DOMAIN names
                   THEN {Var(texts[i].spell, names[texts[i].spell])} ELSE {}
       IN UNION {Wrap(g, built, t) : t \in held}]

\* promote_spec, and _require_nothing_was_composed for what is not the draft's.
Promoted(e, g, texts, names, terms, provisos, foreign) ==
    LET schemas(i) == TheoremSchema(texts[i], g, names, LineSorts, e.matching, terms[i])
        composedHere(i, schema) == foreign /\ terms[i] = {} /\ schema.cacheable
        every == UNION {schemas(i) : i \in DOMAIN texts}
    IN IF ~(Range(names) \subseteq DOMAIN g) \/ \E i \in DOMAIN texts : Broken \in schemas(i)
       THEN {Failed}
       ELSE {IF \E i \in DOMAIN texts : composedHere(i, f[i]) THEN Refused
             ELSE Is([texts |-> texts, schemas |-> [i \in DOMAIN texts |-> f[i].term],
                      variables |-> {<<v, names[v]>> : v \in DOMAIN names}, provisos |-> provisos])
             : f \in {h \in [DOMAIN texts -> every] : \A i \in DOMAIN texts : h[i] \in schemas(i)}}

Promote(e, layers) ==
    LET rank     == Rank(layers, e.system)
        layer    == layers[rank]
        g        == Grammar(Draft)
        terms    == ReadTerms(e, layer, g)
        texts    == TranslatedTexts(e, layer, terms)
        names    == TranslatedVariables(e, layer.translation)
        provisos == TranslatedProvisos(e, layer.translation)
        builts   == BuildTemplate(g, LineSorts, layer.template)
    IN IF ~Citable(e, layer, rank) \/ ~TermsReadable(e, layer, g) THEN {Refused}
       ELSE IF IsPlain(layer.template)
       THEN Promoted(e, g, texts, names, terms, provisos, rank > 1)
       ELSE IF builts = {} THEN {Refused}
       ELSE UNION {
              LET wrapped == WrappedTerms(g, b, texts, names, terms) IN
              IF ~CapturesNothing(e, b, names, terms) \/ {} \in Range(wrapped) THEN {Refused}
              ELSE Promoted(e, g, [i \in DOMAIN texts |-> ToText(Pick(wrapped[i]))],
                            names @@ b.extras, wrapped, provisos, FALSE)
              : b \in builts}

\* What a citation of the label is read as: by verify, and by the search.
Outcomes(label) == UNION {Promote(e, Layers) : e \in Nearest(Layers, label)}

---------------------------------------------------------------------------
(* Requests *)

Init ==
    /\ own \in Grammars
    /\ shelf = {}
    /\ edges = [p \in Pairs |-> NoEdge]
    /\ verdict = NoVerdict

\* A refusal anywhere fails the whole check: only what was read can stand.  A
\* schema nothing composed is one flat production, which no line's term is,
\* and a term whose slots hold nothing matches no line.
Verify(label) ==
    /\ LET layers == Layers IN
       \E e \in Nearest(layers, label) : \E o \in Promote(e, layers) :
         /\ o.status = "read" /\ Unread.term \notin Range(o.theorem.schemas)
         /\ \A t \in Range(o.theorem.schemas) : Matchable(t)
         /\ verdict' = [label |-> label, system |-> e.system, theorem |-> o.theorem]
    /\ UNCHANGED <<own, shelf, edges>>

\* A part of the draft is written: its checks are discarded, and no other
\* system can have cited it.
EditGrammar ==
    /\ \E g \in Grammars \ {own} : own' = g
    /\ verdict' = NoVerdict
    /\ UNCHANGED <<shelf, edges>>

Unless(labels) ==
    IF verdict # NoVerdict /\ verdict.label \in labels THEN NoVerdict ELSE verdict

\* store_theorem for a proof of the draft: the terms it composes to now, under
\* the digest of the grammar it composed in.
StoreTheorem(spec) ==
    LET schema == TheoremSchema(spec.statement, Grammar(Draft), spec.variables, LineSorts,
                                "structural", {})
    IN /\ shelf = {}
       /\ \E s \in schema \ {Broken, Unread} :
            shelf' = {[system |-> Draft, label |-> spec.label, statement |-> spec.statement,
                       premises |-> <<>>, variables |-> spec.variables, provisos |-> {},
                       matching |-> "structural", digest |-> Digest(Draft),
                       terms |-> <<IF s.cacheable THEN {Row(s.term)} ELSE {}>>,
                       proved |-> <<s.term>>]}
       /\ verdict' = Unless({spec.label})
       /\ UNCHANGED <<own, edges>>

RetireTheorem ==
    /\ shelf # {}
    /\ shelf' = {}
    /\ verdict' = Unless({e.label : e \in shelf})
    /\ UNCHANGED <<own, edges>>

\* A mutant: what cites a label of the source itself.
SourceReach(source) == {e.label : e \in {f \in Entries : f.system = source}}

\* invalidate_library_reach: what cites a label of the source's chain.
LibraryReach(source) == {e.label : e \in {f \in Entries : f.system \in Range(Chain[source])}}
Invalidate(source) == verdict' = Unless(LibraryReach(source))

HonoursItsKind(edge) ==
    /\ edge.kind = "extension" => IsPlain(edge.template)
    /\ edge.kind = "interpretation" /\ edge.status = "discharged" => edge.owes # {}
MapChecks(p, edge) == Admitted(Grammar(p[1]), Grammar(p[2]), edge.translation)
TemplateComposes(p, edge) ==
    IF IsPlain(edge.template) THEN DOMAIN edge.template.extras = {}
    ELSE BuildTemplate(Grammar(p[2]), LineSorts, edge.template) # {}

CreateRelation(p, edge) ==
    /\ edges[p] = NoEdge
    /\ HonoursItsKind(edge) /\ MapChecks(p, edge) /\ TemplateComposes(p, edge)
    /\ edges' = [edges EXCEPT ![p] = edge]
    /\ Invalidate(p[1])
    /\ UNCHANGED <<own, shelf>>

\* A PATCH: what it does not name stays, and only what it names is checked.
UpdateRelation(p, edge) ==
    /\ edges[p] # NoEdge /\ edge # edges[p] /\ edge.id = edges[p].id
    /\ HonoursItsKind(edge)
    /\ edge.translation # edges[p].translation => MapChecks(p, edge)
    /\ edge.template # edges[p].template => TemplateComposes(p, edge)
    /\ edges' = [edges EXCEPT ![p] = edge]
    /\ Invalidate(p[1])
    /\ UNCHANGED <<own, shelf>>

DeleteRelation(p) ==
    /\ edges[p] # NoEdge
    /\ Invalidate(p[1])
    /\ edges' = [edges EXCEPT ![p] = NoEdge]
    /\ UNCHANGED <<own, shelf>>

Next ==
    \/ \E label \in Cited : Verify(label)
    \/ EditGrammar
    \/ \E spec \in Statements : StoreTheorem(spec)
    \/ RetireTheorem
    \/ \E p \in Pairs : \/ \E edge \in Contents[p] : CreateRelation(p, edge) \/ UpdateRelation(p, edge)
                        \/ DeleteRelation(p)

Spec == Init /\ [][Next]_vars
=============================================================================
