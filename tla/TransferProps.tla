--------------------------- MODULE TransferProps ---------------------------
(***************************************************************************)
(* What a theorem cited from another system must keep.                     *)
(***************************************************************************)
EXTENDS TransferEdges

\* Two terms built alike: the same binders over the same slots, the same
\* metavariables in the same places, the same tokens but a constant's.
RECURSIVE BuiltAlike(_, _)
BuiltAlike(t, u) ==
    /\ t.kind = u.kind /\ Len(t.kids) = Len(u.kids)
    /\ t.slots = u.slots
    /\ t.prod.kind = u.prod.kind /\ t.prod.slots = u.prod.slots /\ t.prod.scopes = u.prod.scopes
    /\ t.prod.kind = "const" \/ t.lit = u.lit
    /\ \A i \in DOMAIN t.kids : BuiltAlike(t.kids[i], u.kids[i])

RECURSIVE Pairing(_, _)
Pairing(t, u) == {<<t.con, u.con>>} \cup UNION {Pairing(t.kids[i], u.kids[i]) : i \in DOMAIN t.kids}
OneToOne(R) == \A a, b \in R : a[1] = b[1] <=> a[2] = b[2]

\* A name the map does not mention stands for the same production.
SpelledAsBefore(t, u, tr) ==
    \A v \in Subterms(t), w \in Subterms(u) :
      v.con = w.con /\ v.con \notin Declared(tr) => v.prod.spell = w.prod.spell

Metavariables(t) == {v.lit : v \in {w \in Subterms(t) : w.kind = "var"}}

\* The proved statement is read here as itself, or as itself inside the
\* template, whose metavariables are none of its own.
ReadHereAs(proved, schema, layer) ==
    \E core \in Subterms(schema) :
      /\ BuiltAlike(proved, core)
      /\ OneToOne(Pairing(proved, core))
      /\ \A pair \in Pairing(proved, core) : pair[2] = Name(layer.translation, pair[1])
      /\ SpelledAsBefore(proved, core, layer.translation)
      /\ IF IsPlain(layer.template) THEN core = schema
         ELSE /\ \E b \in BuildTemplate(Grammar(Draft), LineSorts, layer.template) :
                    schema \in Wrap(Grammar(Draft), b, core)
              /\ Metavariables(core) \cap DOMAIN layer.template.extras = {}

\* An edge without a map: its two grammars are never compared.
ThroughPlainEdge(s) == \E l \in Range(RelatedLayers) : l.system = s /\ IsIdentity(l.translation)

\* Read here, an entry of the cited system says what the standing verdict took it
\* to say.
SaysWhatWasProved ==
    \E e \in Entries, l \in Range(Layers) :
      /\ e.label = verdict.label /\ e.system = verdict.system /\ l.system = e.system
      /\ Len(e.proved) = Len(verdict.theorem.schemas)
      /\ \A i \in DOMAIN e.proved : ReadHereAs(e.proved[i], verdict.theorem.schemas[i], l)
      /\ \A c \in verdict.theorem.provisos : c.sort = <<>> \/ c.sort \in DOMAIN Grammar(Draft)

\* A standing citation of another system's theorem, inherited or carried by an
\* edge that renames, says what that system proved: whatever renames,
\* templates, edits of the grammar here and lost or stale cached terms lay
\* between the proof and the citation (translation.py: "reading a theorem from
\* one as a theorem about the other is the silent version of the failure this
\* module exists to prevent").  Of an edge without a map it is false: see README.
CitedIsWhatWasProved ==
    verdict # NoVerdict /\ verdict.system # Draft /\ ~ThroughPlainEdge(verdict.system) =>
      SaysWhatWasProved

\* The same of every edge, one without a map among them, which the code does not
\* keep.
CitedThroughAnyEdge ==
    verdict # NoVerdict /\ verdict.system # Draft => SaysWhatWasProved

\* A check that stands is one that would be given again: no write of an edge,
\* of the grammar or of an entry leaves behind a verdict whose citation now
\* resolves elsewhere, reads differently or is refused
\* (system_relations.py:156, an edge changed in place).
ReadingsCurrent ==
    LET layers == Layers IN
    verdict # NoVerdict =>
      \E e \in Nearest(layers, verdict.label) :
        /\ e.system = verdict.system
        /\ Is(verdict.theorem) \in Promote(e, layers)

\* A search asks each layer it can for the name the layer stored: no theorem
\* that can be cited here is missed because its head is spelled otherwise there.
SearchAsksTheStoredName ==
    LET layers == Layers IN
    \A label \in Cited : \A e \in Nearest(layers, label) :
      LET l == layers[Rank(layers, e.system)] IN
      Fresh(e) /\ IsPlain(l.template) /\ e.terms[1] # {} =>
        \A o \in Promote(e, layers) : o.status = "read" =>
          StoredName(l.translation, o.theorem.schemas[1].con) = {Pick(e.terms[1]).name}

\* A search is over what it can promote: an entry it cannot is left out of the
\* offer, never a reason for the whole request to fail (load_citable_theorems).
SearchNeverFails == \A label \in Cited : Failed \notin Outcomes(label)
=============================================================================
