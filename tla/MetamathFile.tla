---------------------------- MODULE MetamathFile ----------------------------
(***************************************************************************)
(* A Metamath file as website/logical/metamath reads it: the parser, with  *)
(* its nested scopes; the compressed proofs, a label table and a string of *)
(* letters; and the stack machine that turns one into the lines of an      *)
(* Edifyce proof.                                                          *)
(*                                                                         *)
(* A file is a sequence of statements, already cut at their $. and with    *)
(* the comments that are section headers among them; a formula is a        *)
(* sequence of tokens.                                                     *)
(***************************************************************************)
EXTENDS Integers, Sequences, SequencesExt

CONSTANTS
    Variables,    \* the tokens the file declares with $v
    LowDigits,    \* the letters that end a number in a compressed proof: A..T
    HighDigits    \* the letters that continue one: U..Y

Logical == "|-"

\* No statement is of it: there are no blanks in a token.
NoSort == "no sort"
Typecode == STRING \ {NoSort}

\* What read_header finds in a comment that is one.
Header(level, title) == [kind |-> "header", level |-> level, title |-> title]

Open  == [kind |-> "${"]
Close == [kind |-> "$}"]
Distinct(vars) == [kind |-> "$d", vars |-> vars]
Floating(label, sort, v) ==
    [kind |-> "$f", label |-> label, typecode |-> sort, tokens |-> <<v>>]
Essential(label, tokens) ==
    [kind |-> "$e", label |-> label, typecode |-> Logical, tokens |-> tokens]
Axiom(label, sort, tokens) ==
    [kind |-> "$a", label |-> label, typecode |-> sort, tokens |-> tokens]
Theorem(label, tokens, table, letters) ==
    [kind |-> "$p", label |-> label, typecode |-> Logical, tokens |-> tokens,
     table |-> table, letters |-> letters]

\* A $p with nothing after its $=.
Bare(label, tokens) ==
    [kind |-> "$p", label |-> label, typecode |-> Logical, tokens |-> tokens]

\* What a statement of a file may be, and a letter of its proof.
Letter == [kind : {"low", "high", "save"}, digit : Nat]
Statement ==
    [kind : {"header"}, level : Nat, title : STRING]
      \cup [kind : {"${", "$}"}]
      \cup [kind : {"$d"}, vars : Seq(STRING)]
      \cup [kind : {"$f", "$e", "$a", "$p"}, label : STRING, typecode : Typecode, tokens : Seq(STRING)]
      \cup [kind : {"$p"}, label : STRING, typecode : Typecode, tokens : Seq(STRING),
            table : Seq(STRING), letters : Seq(Letter)]

\* A dictionary with one more key.
With(f, key, value) == [x \in DOMAIN f \cup {key} |-> IF x = key THEN value ELSE f[x]]

\* The elements of a sequence that are in a set, in their order.  It, and what is
\* gathered from the scopes, are recursions of their own and not SelectSeq or
\* FlattenSeq so that they can be reasoned about.
Filter(s, set) ==
    LET kept[i \in 0..Len(s)] ==
          IF i = 0 THEN << >> ELSE IF s[i] \in set THEN Append(kept[i - 1], s[i]) ELSE kept[i - 1]
    IN kept[Len(s)]
-----------------------------------------------------------------------------
(* parse                                                                   *)

NoScope == [hypotheses |-> << >>, distinct |-> << >>]

Empty ==
    [scopes |-> <<NoScope>>, hypotheses |-> << >>, assertions |-> << >>,
     order |-> << >>, outline |-> << >>, error |-> FALSE]

Mentions(tokens) == Range(tokens) \cap Variables

\* What the open scopes hold, the outermost first.
Gathered(d, field) ==
    LET all[i \in 0..Len(d.scopes)] == IF i = 0 THEN << >> ELSE all[i - 1] \o d.scopes[i][field]
    IN all[Len(d.scopes)]
Active(d)   == Gathered(d, "hypotheses")
Standing(d) == Gathered(d, "distinct")

\* Every essential hypothesis in scope, and a floating one for every variable
\* that these and the statement mention, as the file declares them.
Mandatory(d, tokens) ==
    LET active    == Active(d)
        essential == {h \in Range(active) : d.hypotheses[h].kind = "$e"}
        mentioned == Mentions(tokens) \cup UNION {Mentions(d.hypotheses[h].tokens) : h \in essential}
        floating  == {h \in Range(active) \ essential : d.hypotheses[h].tokens[1] \in mentioned}
    IN Filter(active, essential \cup floating)

Duplicate(d, s) == s.label \in DOMAIN d.assertions \cup DOMAIN d.hypotheses

\* A $f types exactly one variable.
Untypable(s) == s.kind = "$f" /\ Len(s.tokens) # 1

\* Whether a proof stands after the statement, and not only whether it is a $p.
HasProof(s) == "letters" \in DOMAIN s

ReadHypothesis(d, s) ==
    LET top == Len(d.scopes)
        h   == [kind |-> s.kind, typecode |-> s.typecode, tokens |-> s.tokens, at |-> Len(d.order)]
    IN [d EXCEPT !.hypotheses = With(@, s.label, h),
                 !.scopes[top].hypotheses = Append(@, s.label)]

ReadAssertion(d, s) ==
    LET a == [proved |-> HasProof(s), typecode |-> s.typecode, tokens |-> s.tokens,
              mandatory |-> Mandatory(d, s.tokens), active |-> Range(Active(d)),
              distinct |-> Standing(d),
              table   |-> IF HasProof(s) THEN s.table ELSE << >>,
              letters |-> IF HasProof(s) THEN s.letters ELSE << >>]
    IN [d EXCEPT !.assertions = With(@, s.label, a), !.order = Append(@, s.label)]

Read(d, s) ==
    LET top == Len(d.scopes)
        failed == [d EXCEPT !.error = TRUE]
    IN CASE d.error -> d
         [] ~d.error /\ s.kind = "${" -> [d EXCEPT !.scopes = Append(@, NoScope)]
         [] ~d.error /\ s.kind = "$}" -> IF top = 1 THEN failed ELSE [d EXCEPT !.scopes = Front(@)]
         [] ~d.error /\ s.kind = "$d" -> [d EXCEPT !.scopes[top].distinct = Append(@, s.vars)]
         [] ~d.error /\ s.kind = "header" ->
              [d EXCEPT !.outline = Append(@, [level |-> s.level, title |-> s.title,
                                               at |-> Len(d.order)])]
         [] ~d.error /\ s.kind \in {"$f", "$e"} -> 
              IF Duplicate(d, s) \/ Untypable(s) THEN failed ELSE ReadHypothesis(d, s)
         [] ~d.error /\ s.kind \in {"$a", "$p"} -> IF Duplicate(d, s) THEN failed ELSE ReadAssertion(d, s)

Parse(file) ==
    LET d == FoldLeft(Read, Empty, file)
    IN [d EXCEPT !.error = @ \/ Len(d.scopes) # 1]

\* Positions count assertions from zero, as Database.order's indices do.
Position(db, label) == (CHOOSE i \in 1..Len(db.order) : db.order[i] = label) - 1
Label(db, position) == db.order[position + 1]

IsLogical(db, label) == db.assertions[label].typecode = Logical
\* Asserted: nothing proves it.
IsAxiom(db, label)   == ~db.assertions[label].proved
IsNotation(db, label) == IsAxiom(db, label) /\ ~IsLogical(db, label)
Essentials(db, label) ==
    SelectSeq(db.assertions[label].mandatory, LAMBDA h : db.hypotheses[h].kind = "$e")
-----------------------------------------------------------------------------
(* Compressed proofs.  A letter ends a number, continues one, or is Z.     *)

Low(i)  == [kind |-> "low", digit |-> i]
High(i) == [kind |-> "high", digit |-> i]
Save    == [kind |-> "save", digit |-> 0]

\* What the n-th choice selects: a mandatory hypothesis, a label of the table, a
\* saved step.
SelectStep(n, table, mandatory) ==
    LET past == n - Len(mandatory)
    IN IF past < 1 THEN [by |-> "hypothesis", of |-> mandatory[n], saved |-> FALSE]
       ELSE IF past <= Len(table) THEN [by |-> "label", of |-> table[past], saved |-> FALSE]
       ELSE [by |-> "step", of |-> past - Len(table), saved |-> FALSE]

TakeLetter(table, mandatory, s, l) ==
    CASE s.error -> s
      [] ~s.error /\ l.kind = "high" ->
           [s EXCEPT !.value = HighDigits * @ + l.digit + 1, !.started = TRUE]
      [] ~s.error /\ l.kind = "low" ->
           [s EXCEPT !.value = 0, !.started = FALSE,
                     !.steps = Append(@, SelectStep(LowDigits * s.value + l.digit + 1,
                                                    table, mandatory))]
      [] ~s.error /\ l.kind = "save" ->
           IF s.steps = << >> \/ s.started THEN [s EXCEPT !.error = TRUE]
           ELSE [s EXCEPT !.steps[Len(s.steps)].saved = TRUE]

NoneTaken == [steps |-> << >>, value |-> 0, started |-> FALSE, error |-> FALSE]

Decode(letters, table, mandatory) ==
    LET end == FoldLeft(LAMBDA s, l : TakeLetter(table, mandatory, s, l), NoneTaken, letters)
    IN [steps |-> end.steps, error |-> end.error \/ end.started]
-----------------------------------------------------------------------------
(* import_proof: one line for each logical step.                           *)

NoLine == 0

\* A proof's label table may name what is in scope and what comes before.
ForwardCitation(db, label) ==
    \E name \in Range(db.assertions[label].table) :
        IF name \in DOMAIN db.hypotheses THEN name \notin db.assertions[label].active
        ELSE name \notin DOMAIN db.assertions \/ Position(db, name) >= Position(db, label)

Substitute(tokens, sigma) ==
    FlattenSeq([i \in 1..Len(tokens) |->
                  IF tokens[i] \in DOMAIN sigma THEN sigma[tokens[i]] ELSE <<tokens[i]>>])

\* A hypothesis: a floating one stands for its variable, and an essential one is
\* stated once, as a line, however often it is pushed.
PushHypothesis(db, m, name) ==
    LET h == db.hypotheses[name]
        n == Len(m.lines) + 1
        entry == [typecode |-> h.typecode, tokens |-> h.tokens, line |-> n]
    IN IF h.kind = "$f" THEN [m EXCEPT !.top = [entry EXCEPT !.line = NoLine]]
       ELSE IF name \in DOMAIN m.premises THEN [m EXCEPT !.top = m.premises[name]]
       ELSE [m EXCEPT !.top = entry,
                      !.premises = With(@, name, entry),
                      !.lines = Append(@, [tokens |-> h.tokens, by |-> name, cites |-> << >>])]

\* An assertion takes its mandatory hypotheses off the stack: the floating ones
\* are its substitution, and the lines of the essential ones what it cites.
ApplyAssertion(db, m, name) ==
    LET a      == db.assertions[name]
        arity  == Len(a.mandatory)
        base   == Len(m.stack) - arity
        slots  == {i \in 1..arity : db.hypotheses[a.mandatory[i]].kind = "$f"}
        sigma  == [v \in {db.hypotheses[a.mandatory[i]].tokens[1] : i \in slots} |->
                     m.stack[base + (CHOOSE i \in slots :
                                       db.hypotheses[a.mandatory[i]].tokens[1] = v)].tokens]
        tokens == Substitute(a.tokens, sigma)
        cites  == Filter([i \in 1..arity |-> IF i \in slots THEN NoLine ELSE m.stack[base + i].line],
                         Nat \ {NoLine})
    IN IF base < 0 THEN [m EXCEPT !.error = TRUE]
       ELSE IF a.typecode # Logical
       THEN [m EXCEPT !.stack = SubSeq(@, 1, base),
                      !.top = [typecode |-> a.typecode, tokens |-> tokens, line |-> NoLine]]
       ELSE [m EXCEPT !.stack = SubSeq(@, 1, base),
                      !.top = [typecode |-> a.typecode, tokens |-> tokens,
                               line |-> Len(m.lines) + 1],
                      !.lines = Append(@, [tokens |-> tokens, by |-> name, cites |-> cites])]

TakeStep(db, m, step) ==
    LET got == CASE m.error -> m
                 [] ~m.error /\ step.by = "step" ->
                      IF step.of > Len(m.saved) THEN [m EXCEPT !.error = TRUE]
                      ELSE [m EXCEPT !.top = m.saved[step.of]]
                 [] ~m.error /\ step.by # "step" ->
                      IF step.of \in DOMAIN db.hypotheses THEN PushHypothesis(db, m, step.of)
                      ELSE ApplyAssertion(db, m, step.of)
    IN IF got.error THEN got
       ELSE [got EXCEPT !.stack = Append(@, got.top),
                        !.saved = IF step.saved THEN Append(@, got.top) ELSE @]

\* A mutant: whatever is left will do.
WrongConcludes(db, m, label) == Len(m.stack) = 1

\* The proof has left one entry, and it is what the theorem states.
Concludes(db, m, label) ==
    /\ Len(m.stack) = 1
    /\ m.stack[1].tokens = db.assertions[label].tokens
    /\ m.stack[1].typecode = db.assertions[label].typecode

NothingPushed(failed) ==
    [stack |-> << >>, saved |-> << >>, lines |-> << >>, premises |-> << >>,
     top |-> [typecode |-> Logical, tokens |-> << >>, line |-> NoLine], error |-> failed]

ImportProof(db, label) ==
    LET a    == db.assertions[label]
        read == Decode(a.letters, a.table, a.mandatory)
        end  == FoldLeft(LAMBDA m, s : TakeStep(db, m, s),
                         NothingPushed(ForwardCitation(db, label) \/ read.error), read.steps)
    IN [ok |-> ~end.error /\ Concludes(db, end, label), lines |-> end.lines]
=============================================================================
