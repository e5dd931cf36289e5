--------------------------- MODULE MCVerdictStore ---------------------------
(***************************************************************************)
(* Small instances of VerdictStore: proofs a, b and c, one label, and      *)
(* texts whose citations make a chain of lemmas a <- b <- c, a citation of *)
(* a library entry, and edits that break what rests on them.               *)
(***************************************************************************)
EXTENDS VerdictRefinement, TLC

CONSTANTS a, b, c, thm, x, y

MCTexts == {"x", "y", "doubt", "garbled", "b.lemma", "c.lemma", "c.library"}

MCClass == [t \in MCTexts |-> CASE t = "doubt" -> "warned"
                                [] t = "garbled" -> "unreadable"
                                [] OTHER -> "sound"]

MCConcludes == [t \in MCTexts |-> IF t \in {"x", "doubt"} THEN x ELSE y]

MCLemmaCitations ==
    [t \in MCTexts |-> CASE t = "b.lemma" -> {<<a, x>>}
                         [] t = "c.lemma" -> {<<b, y>>}
                         [] OTHER -> {}]

MCTheoremCitations ==
    [t \in MCTexts |-> IF t = "c.library" THEN {<<thm, y>>} ELSE {}]

OnProof(kinds) == [kind : kinds, proof : Proofs]
Source(kind, p, texts) == [kind : {kind}, proof : {p}, text : texts]
Edit(p, texts) == [kind : {"patch"}, proof : {p}, text : texts, publish : {"keep"}]
Publishing == [kind : {"patch"}, proof : Proofs, text : {NoText}, publish : {"yes", "no"}]
Refer(p, sets) == [kind : {"references"}, proof : {p}, targets : sets]
Promote(p) == [kind : {"promote"}, proof : {p}, label : Labels]

\* One client at a time: a lemma, the proof that cites it and is promoted, a
\* proof that cites both, and every way to change any of them.
SerialOperations ==
    Source("create", a, {"x"}) \cup Source("create", b, {"b.lemma"})
      \cup Source("create", c, {"c.lemma", "c.library"})
      \cup OnProof({"verify", "delete", "retire"}) \cup Publishing
      \cup Edit(a, {"x", "y", "doubt", "garbled"}) \cup Edit(c, {"c.library"})
      \cup [kind : {"patch"}, proof : {a}, text : {"y"}, publish : {"yes", "no"}]
      \cup Source("rewrite", a, {"x", "y"}) \cup Source("rewrite", b, {"b.lemma", "y"})
      \cup Refer(a, {{c}}) \cup Refer(b, {{}, {a}}) \cup Refer(c, {{}, {b}, {a, b}})
      \cup Promote(b)

Symmetric == Permutations(Requests)

\* Overlapping clients, on the graph.
GraphOperations ==
    Source("create", a, {"x"}) \cup Source("create", b, {"b.lemma"})
      \cup Source("create", c, {"c.lemma"})
      \cup [kind : {"verify", "delete"}, proof : {a, b}]
      \cup Refer(a, {{b}, {c}}) \cup Refer(b, {{}, {a}, {c}}) \cup Refer(c, {{}, {a}})

\* Overlapping clients, on the library: b is promoted and c cites it.
LibraryOperations ==
    Source("create", a, {"x"}) \cup Source("create", b, {"b.lemma"})
      \cup Source("create", c, {"c.library"})
      \cup [kind : {"verify"}, proof : {b, c}]
      \cup [kind : {"retire", "delete"}, proof : {b}]
      \cup [kind : {"patch"}, proof : {b}, text : {NoText}, publish : {"yes", "no"}]
      \cup Edit(b, {"y"}) \cup Source("rewrite", c, {"c.library"})
      \cup Promote(b)
-----------------------------------------------------------------------------
(* Two clients, and just the calls a counterexample needs.                 *)

\* A check and an edit of one proof.
CheckAndEdit ==
    Source("create", a, {"x"}) \cup Edit(a, {"x", "y", "doubt"})
      \cup [kind : {"verify"}, proof : {a}]

\* Publishing a proof and unpublishing its lemma.
PublishAndUnpublish ==
    Source("create", a, {"x"}) \cup Source("create", b, {"b.lemma"})
      \cup Publishing \cup Refer(b, {{a}})

\* Publishing, unpublishing, editing and promoting one proof.
PublishAndPromote ==
    Source("create", b, {"y"}) \cup Publishing \cup Promote(b)

PublishAndEdit ==
    Source("create", a, {"x"}) \cup Publishing \cup Edit(a, {"garbled"})

\* Two replacements of one proof's references.
ReferTwice ==
    [kind : {"create"}, proof : Proofs, text : {"x"}] \cup Refer(c, {{a}, {b}})
=============================================================================
