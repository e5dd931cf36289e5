-------------------------- MODULE LineEditingProps --------------------------
(* What an edit of a proof must not do to the lines it leaves.               *)
EXTENDS LineEditing

Ends(r) == req[r] # Idle /\ req'[r] = Idle

\* Where an edit leaves each line it does not remove; a citation replaced is
\* left out, as what it cites changes on purpose.
Kept(op, src) ==
  LET At == PositionOf(src, op.at) IN
  IF op.kind = "line"
  THEN [i \in DOMAIN src |-> IF op.at # None /\ i >= At THEN i + 1 ELSE i]
  ELSE [i \in DOMAIN src \ {At} |-> IF op.kind = "remove" /\ i > At THEN i - 1 ELSE i]

CitedAt(src, i) ==
  IF src[i].cites = Inferred THEN {} ELSE {PositionOf(src, n) : n \in {m \in src[i].cites : HasNumber(src, m)}}

\* A line that an edit leaves goes on citing the lines it cited, whatever their
\* numbers have become, and comes to cite no other line that was there: also
\* when its citation is wrong, and when two lines state the same.
CitationsFollow ==
  [][\A r \in Requests : Ends(r) => LET at == Kept(req[r], source) IN
       \A i \in DOMAIN at :
         CitedAt(source', at[i]) \cap Range(at) = {at[j] : j \in CitedAt(source, i) \cap DOMAIN at}]_vars

\* A line that stood goes on standing: no edit of another line breaks it.
StandingKept ==
  [][\A r \in Requests : Ends(r) => LET at == Kept(req[r], source) IN
       \A i \in DOMAIN at : Valid(source, i) => Valid(source', at[i])]_vars

\* No line that an edit leaves moves into another subproof.
ScopesKept ==
  [][\A r \in Requests : Ends(r) => LET at == Kept(req[r], source) IN
       \A i \in DOMAIN at \cap Counted(source) :
         LET was == Innermost(source, i)
         IN  Innermost(source', at[i]) = IF was = None THEN None ELSE at[was]]_vars

\* An edit changes one line: what another request added meanwhile is still
\* there. It holds one request at a time and not when two overlap.
EditsLast ==
  [][\A r \in Requests : Ends(r) =>
       Len(source') = Len(source) + (CASE req[r].kind = "line" -> 1
                                       [] req[r].kind = "remove" -> -1
                                       [] req[r].kind = "cite" -> 0)]_vars

\* Nothing of the above survives an overlap: a request writes what it made of
\* the text it loaded.
OneAtATime == \A r, s \in Requests : req[r] # Idle /\ req[s] # Idle => r = s

SerialSpec == Init /\ [][Next /\ OneAtATime']_vars
=============================================================================
