---------------------------- MODULE LineEditing ----------------------------
(* Editing a proof line by line: a statement is added above a line or at the *)
(* end, a line is removed, a citation is replaced (proofs.py, propose_line,  *)
(* remove_line, propose_citation; formal_system/system.py, renumber).        *)
(*                                                                           *)
(* Citations are numbers in the text, so an edit above a line rewrites it;   *)
(* subproofs are read off the indentation, so an edit may move one. A rule   *)
(* is what it needs: the formulas of the lines it cites, or of the nearest   *)
(* ones above when it cites none.                                            *)
EXTENDS Integers, Sequences, FiniteSets, SequencesExt

CONSTANTS Requests,
          Formulas,    \* what a line may state
          Seeds,       \* the sources a proof may start from, checked
          Operations,  \* the payloads to send
          MaxLines, MaxIndent,  \* bounds of the model
          None

\* A line of a source. It cites the numbers of others or leaves its citation out,
\* and a comment has none.
Inferred == {-1}
Citations == {Inferred} \cup SUBSET Nat
Lines ==
  [kind : {"statement", "assumption", "comment"}, indent : Nat, formula : Formulas,
   needs : SUBSET Formulas, cites : Citations]
Sources == {src \in Seq(Lines) : \A i \in DOMAIN src : src[i].kind = "comment" => src[i].cites = {}}

\* What a payload asks for: a line always states a formula.
LinePayloads ==
  [kind : {"line"}, at : {None} \cup Nat, scope : {None} \cup [opener : Nat, inside : BOOLEAN],
   named : BOOLEAN,
   line : [kind : {"statement", "assumption"}, formula : Formulas, needs : SUBSET Formulas,
           cites : Citations]]
RemovePayloads == [kind : {"remove"}, at : Nat]
CitePayloads ==
  [kind : {"cite"}, at : Nat, needs : SUBSET Formulas, cites : Citations]

ASSUME EditingAssumption ==
  /\ Seeds \subseteq Sources
  /\ Operations \subseteq LinePayloads \cup RemovePayloads \cup CitePayloads
  /\ None \notin Nat

VARIABLES
    source,  \* the stored text as a sequence of lines
    req      \* each request: its edit and the text it makes of what it loaded

vars == <<source, req>>

IndentStep == 1

----------------------------------------------------------------------------
(* Reading a source: numbers, subproofs, verdicts.                           *)

Counted(src) == {i \in DOMAIN src : src[i].kind # "comment"}
NumberAt(src, i) == Cardinality({j \in Counted(src) : j <= i})
Count(src) == Cardinality(Counted(src))
HasNumber(src, n) == n \in 1..Count(src)
PositionOf(src, n) == CHOOSE i \in Counted(src) : NumberAt(src, i) = n

\* A subproof is open until the first line that is not indented past its opener.
Encloses(src, j, i) ==
  /\ j < i /\ src[j].kind = "assumption"
  /\ \A k \in (j + 1)..i : k \in Counted(src) => src[k].indent > src[j].indent
Around(src, i) == {j \in Counted(src) : Encloses(src, j, i)}
Innermost(src, i) == IF Around(src, i) = {} THEN None ELSE CHOOSE j \in Around(src, i) : \A k \in Around(src, i) : k <= j

\* What an opener assumes is inside the subproof it opens.
Within(src, i) == Around(src, i) \cup (IF src[i].kind = "assumption" THEN {i} ELSE {})
Visible(src, j, i) == j < i /\ Within(src, j) \subseteq Within(src, i)

Above(src, i) == {j \in Counted(src) : Visible(src, j, i)}
Nearest(src, i, n) == {j \in Above(src, i) : Cardinality({k \in Above(src, i) : k > j}) < n}

Justified(src, i, cited) ==
  /\ \A j \in cited : Visible(src, j, i)
  /\ {src[j].formula : j \in cited} = src[i].needs

Valid(src, i) ==
  LET line == src[i] IN
  \/ line.kind # "statement"
  \/ /\ line.cites = Inferred
     /\ Justified(src, i, Nearest(src, i, Cardinality(line.needs)))
  \/ /\ line.cites # Inferred
     /\ \A n \in line.cites : HasNumber(src, n)
     /\ Justified(src, i, {PositionOf(src, n) : n \in line.cites})

----------------------------------------------------------------------------
(* Rewriting a source.                                                       *)

WrongRenumber(src, at, by) ==
  [i \in DOMAIN src |-> [src[i] EXCEPT
     !.cites = IF @ = Inferred THEN Inferred ELSE {IF n > at THEN n + by ELSE n : n \in @}]]

\* renumber: every citation at or past a number, whatever line it is on.
Renumber(src, at, by) ==
  [i \in DOMAIN src |-> [src[i] EXCEPT
     !.cites = IF @ = Inferred THEN Inferred ELSE {IF n >= at THEN n + by ELSE n : n \in @}]]

Shifted(n, at, by) == IF n >= at THEN n + by ELSE n

\* A line that stood before and does not stand where the edit moved it.
WrongBroken(rows, after, at, by, dropped) == FALSE
Broken(rows, after, at, by, dropped) ==
  \E i \in Counted(rows) :
    LET n == NumberAt(rows, i)
        moved == Shifted(n, at, by)
    IN  /\ n # dropped /\ Valid(rows, i)
        /\ ~HasNumber(after, moved) \/ ~Valid(after, PositionOf(after, moved))

\* The opener of the subproof a line is in, by number; 0 at the top level.
ScopeNumber(src, i) == IF Innermost(src, i) = None THEN 0 ELSE NumberAt(src, Innermost(src, i))
Gone == -1

\* A line that is no longer in the subproof it was in.
WrongRescoped(rows, after, at, by, dropped) == FALSE
Rescoped(rows, after, at, by, dropped) ==
  \E i \in Counted(rows) :
    LET n == NumberAt(rows, i)
        moved == Shifted(n, at, by)
        was == ScopeNumber(rows, i)
    IN  /\ n # dropped /\ HasNumber(after, moved)
        /\ ScopeNumber(after, PositionOf(after, moved))
             # IF was = dropped THEN Gone ELSE Shifted(was, at, by)

\* Where a new line goes: as deep as its anchor, as the named opener, or as
\* what that opener already holds.
Children(rows, j) == {i \in Counted(rows) : Innermost(rows, i) = j}
Placement(rows, anchor, scope) ==
  IF scope = None THEN rows[anchor].indent
  ELSE LET opener == PositionOf(rows, scope.opener)
           held == Children(rows, opener)
       IN  IF ~scope.inside THEN rows[opener].indent
           ELSE IF held = {} THEN rows[opener].indent + IndentStep
           ELSE rows[CHOOSE i \in held : \A j \in held : i <= j].indent

\* The scope a payload asks for, by the number of its opener.
Wanted(rows, scope) ==
  IF scope.inside THEN scope.opener ELSE ScopeNumber(rows, PositionOf(rows, scope.opener))

----------------------------------------------------------------------------
(* What each request would write: a source, or None when it is refused.      *)

\* The new line's shape is its anchor's, or that of the kind the payload names.
ShapeFits(op, anchor) == op.named \/ (anchor.kind = "statement" /\ op.line.kind = "statement")

ProposeLine(op, src) ==
  LET number == IF op.at = None THEN Count(src) + 1 ELSE op.at
      anchor == PositionOf(src, IF op.at = None THEN Count(src) ELSE op.at)
      indent == Placement(src, anchor, op.scope)
      line == [kind |-> op.line.kind, indent |-> indent, formula |-> op.line.formula,
               needs |-> op.line.needs, cites |-> op.line.cites]
      lines == IF op.at = None THEN Append(src, line)
               ELSE InsertAt(Renumber(src, number, 1), anchor, line)
  IN  IF /\ Count(src) > 0
         /\ op.at # None => HasNumber(src, op.at)
         /\ op.scope # None => /\ HasNumber(src, op.scope.opener)
                               /\ src[PositionOf(src, op.scope.opener)].kind = "assumption"
         /\ ShapeFits(op, src[anchor])
         /\ Len(src) < MaxLines /\ indent <= MaxIndent
         /\ op.scope # None => /\ HasNumber(lines, number)
                               /\ ScopeNumber(lines, PositionOf(lines, number)) = Wanted(src, op.scope)
         /\ ~Broken(src, lines, number, 1, None)
         /\ ~Rescoped(src, lines, number, 1, None)
      THEN lines ELSE None

Cites(line, n) == line.cites # Inferred /\ n \in line.cites

RemoveLine(op, src) ==
  LET going == PositionOf(src, op.at)
      lines == RemoveAt(Renumber(src, op.at + 1, -1), going)
  IN  IF /\ HasNumber(src, op.at)
         /\ \A i \in Counted(src) : ~Cites(src[i], op.at)
         /\ ~Broken(src, lines, op.at, -1, op.at)
         /\ ~Rescoped(src, lines, op.at, -1, op.at)
      THEN lines ELSE None

\* The statement stays, so nothing that cites it can break.
ProposeCitation(op, src) ==
  LET at == PositionOf(src, op.at) IN
  IF HasNumber(src, op.at) /\ src[at].kind = "statement"
  THEN [src EXCEPT ![at].needs = op.needs, ![at].cites = op.cites] ELSE None

Outcome(op, src) ==
  CASE op.kind = "line" -> ProposeLine(op, src)
    [] op.kind = "remove" -> RemoveLine(op, src)
    [] op.kind = "cite" -> ProposeCitation(op, src)

----------------------------------------------------------------------------
(* A request loads the proof and the rows of its check, and rewrites the     *)
(* text it loaded; it waits for the system's key before it checks and        *)
(* stores the result, which depends on nothing read after that. One that is  *)
(* refused changes nothing, and is no action.                                *)

Idle == [stage |-> "idle"]

Begin(r, op) ==
  LET written == Outcome(op, source) IN
  /\ req[r] = Idle
  /\ written # None
  /\ req' = [req EXCEPT ![r] = [stage |-> "waiting", kind |-> op.kind, at |-> op.at, written |-> written]]
  /\ UNCHANGED source

Finish(r) ==
  /\ req[r].stage = "waiting"
  /\ source' = req[r].written
  /\ req' = [req EXCEPT ![r] = Idle]

Init ==
  /\ source \in Seeds
  /\ req = [r \in Requests |-> Idle]

Next ==
  \E r \in Requests :
    \/ \E op \in Operations : Begin(r, op)
    \/ Finish(r)

Spec == Init /\ [][Next]_vars
=============================================================================
