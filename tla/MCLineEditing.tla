--------------------------- MODULE MCLineEditing ---------------------------
(* Proofs of a few lines.                                                    *)
EXTENDS LineEditingProps, TLC

CONSTANTS r1, r2, p, q, none

OneRequest == {r1}
TwoRequests == {r1, r2}
Statements == {p, q}

Line(kind, indent, formula, needs, cites) ==
  [kind |-> kind, indent |-> indent, formula |-> formula, needs |-> needs, cites |-> cites]
Given(indent, formula) == Line("statement", indent, formula, {}, {})
Derived(indent, cites) == Line("statement", indent, q, {p}, cites)
Assumed(indent) == Line("assumption", indent, p, {}, {})
Comment == Line("comment", 0, p, {}, {})

\* A proof with a comment and two lines that state the same, a subproof with
\* the line that infers what it needs, and a line that cites what is not there.
Proofs ==
  {<<Comment, Given(0, p), Given(0, p), Derived(0, {1})>>,
   <<Assumed(0), Derived(1, Inferred), Given(0, p)>>,
   <<Given(0, p), Derived(0, {4}), Derived(0, {1})>>}

Stated ==
  {[kind |-> "statement", formula |-> p, needs |-> {}, cites |-> {}],
   [kind |-> "assumption", formula |-> p, needs |-> {}, cites |-> {}],
   [kind |-> "statement", formula |-> q, needs |-> {p}, cites |-> Inferred]}
  \cup [kind : {"statement"}, formula : {q}, needs : {{p}}, cites : {{1}}]

Scopes == {None} \cup [opener : {1}, inside : BOOLEAN]

Edits ==
       [kind : {"line"}, at : (1..MaxLines) \cup {None}, scope : Scopes, named : {TRUE}, line : Stated]
  \cup [kind : {"line"}, at : (1..MaxLines) \cup {None}, scope : {None}, named : {FALSE}, line : Stated]
  \cup [kind : {"remove"}, at : 1..MaxLines]
  \cup [kind : {"cite"}, at : 1..MaxLines, needs : {{p}}, cites : {{2}}]
=============================================================================
