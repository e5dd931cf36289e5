----------------------------- MODULE MCTransfer -----------------------------
(***************************************************************************)
(* A draft T over a published base B, and two published sources X and Y    *)
(* over one base S, in another vocabulary.  An edge from X reaches T, one  *)
(* from Y reaches B; either may rename well, swap, collapse or leave out,  *)
(* and may restate with a template.  The one from Y may have no map: B has *)
(* productions of Y's and S's names, spelled or slotted otherwise.         *)
(***************************************************************************)
EXTENDS TransferProps

CONSTANT Constants   \* whether S has the entry with a constant as its premise

F == <<"f">>   W == <<"w">>   V == <<"v">>   Seq_ == <<"s">>

Sort(n) == n :> [NoProduction EXCEPT !.kind = "union", !.spell = n[1]]
Tokens(n, sort, spell, tokens) ==
    n :> [NoProduction EXCEPT !.kind = "regex", !.sort = sort, !.spell = spell, !.tokens = tokens]
Const(n, sort, token, at) ==
    n :> [NoProduction EXCEPT !.kind = "const", !.sort = sort, !.spell = token, !.tokens = {token},
                              !.at = at]
Template(n, sort, spell, slots, sorts, scopes) ==
    n :> [NoProduction EXCEPT !.kind = "string", !.sort = sort, !.spell = spell,
                              !.slots = slots, !.sorts = sorts, !.scopes = scopes]
Binary(n, sort, spell) == Template(n, sort, spell, <<"p", "q">>, <<sort, sort>>, {})
Notation(sort, spell) ==
    <<sort[1], spell>> :> [Binary(<<"n">>, sort, spell)[<<"n">>] EXCEPT !.notation = TRUE]
Binder(n, sort, scopes) == Template(n, sort, "A.", <<"x", "p">>, <<V, sort>>, scopes)

---------------------------------------------------------------------------
(* The systems *)

MCChain == ("T" :> <<"T", "B">>) @@ ("B" :> <<"B">>) @@ ("X" :> <<"X", "S">>)
           @@ ("Y" :> <<"Y", "S">>) @@ ("S" :> <<"S">>)
SBase == Sort(F) @@ Sort(V) @@ Tokens(<<"fv">>, F, "[A-Z]", {"A", "B"}) @@ Tokens(<<"sv">>, V, "x", {"x"})
         @@ Binary(<<"imp">>, F, "->") @@ Const(<<"falsum">>, F, "#", 1)
XOwn == Binary(<<"bi">>, F, "<->") @@ Binder(<<"all">>, F, {<<"x", "p">>}) @@ Notation(F, "or")
Nor(n, sort, slots) == Template(n, sort, "!|", slots, <<sort, sort>>, {})
YOwn == Binary(<<"nand">>, F, "|") @@ Nor(<<"nor">>, F, <<"l", "r">>)
BBase == (W :> [NoProduction EXCEPT !.kind = "union", !.spell = "w", !.sort = F]) @@ Sort(F) @@ Sort(V) @@ Sort(Seq_) @@ Tokens(<<"wv">>, W, "[A-Z]", {"A", "B"})
         @@ Tokens(<<"sv">>, V, "x", {"x"}) @@ Binary(<<"imp">>, W, "=>") @@ Binary(<<"nand">>, W, "|")
         @@ Nor(<<"nor">>, W, <<"p", "q">>) @@ Nor(<<"vee">>, W, <<"l", "r">>)
         @@ Const(<<"bot">>, W, "!", 1) @@ Const(<<"verum">>, W, "#", 2) @@ Const(<<"top">>, W, "#", 3)
         @@ Template(<<"ent">>, Seq_, "|-", <<"g", "q">>, <<W, W>>, {})
MCPublished == ("B" :> BBase) @@ ("S" :> SBase) @@ ("X" :> XOwn) @@ ("Y" :> YOwn)

\* The draft as it should be, with a binder that binds nothing, with a second
\* production that spells what S spells, and without the biconditional.
Full     == Binary(<<"bi">>, W, "<=>") @@ Binder(<<"all">>, W, {<<"x", "p">>}) @@ Notation(W, "or")
MCGrammars == {Full,
               Binary(<<"bi">>, W, "<=>") @@ Binder(<<"all">>, W, {}) @@ Notation(W, "or"),
               Full @@ Binary(<<"cap">>, W, "->"),
               Binder(<<"all">>, W, {<<"x", "p">>}) @@ Binary(<<"bi">>, Seq_, "<=>") @@ Notation(W, "or")}
MCLineSorts == {W, Seq_}

---------------------------------------------------------------------------
(* The library *)

MCGrammar(sys) == FoldLeft(LAMBDA g, t : g @@ MCPublished[t], Nothing, MCChain[sys])
Apply(sys, n, kids) == Node(n, MCGrammar(sys)[n], kids)
Both(sys, n, t) == Apply(sys, n, <<t, t>>)
P == Var("P", F)   G == Var("G", F)
Falsum == Leaf(<<"falsum">>, SBase[<<"falsum">>], "#")

Entry(sys, label, proved, names) ==
    [system |-> sys, label |-> label, statement |-> ToText(proved[1]),
     premises |-> [i \in 1 .. Len(proved) - 1 |-> ToText(proved[i + 1])],
     variables |-> names, provisos |-> {}, matching |-> "structural",
     digest |-> MCGrammar(sys),
     terms |-> [i \in DOMAIN proved |-> IF proved[i].kids = <<>> THEN {} ELSE {Row(proved[i])}],
     proved |-> proved]
OfP == "P" :> F

MCLibrary ==
    {Entry("X", "a", <<Both("X", <<"imp">>, P)>>, OfP),
     \* a binder, a bare metavariable as premise, and a proviso with a sort
     [Entry("X", "b", <<Apply("X", <<"all">>, <<Var("y", V), Apply("X", <<"bi">>, <<P, Both("X", <<"imp">>, P)>>)>>), P>>,
            OfP @@ ("y" :> V)) EXCEPT !.provisos = {[args |-> {"y", "P"}, sort |-> F]}],
     Entry("X", "n", <<Both("X", <<"f", "or">>, P)>>, OfP),
     Entry("X", "g", <<Both("X", <<"imp">>, G)>>, "G" :> F),
     \* the row of its term is gone, its terms were never stored
     [Entry("X", "lost", <<Both("X", <<"imp">>, P)>>, OfP) EXCEPT !.terms = <<{}>>],
     [Entry("X", "old", <<Both("X", <<"imp">>, P)>>, OfP) EXCEPT !.digest = NoDigest],
     [Entry("X", "str", <<Both("X", <<"imp">>, P)>>, OfP) EXCEPT !.matching = "string"],
     [Entry("X", "far", <<Both("X", <<"imp">>, P)>>, OfP) EXCEPT !.provisos = {[args |-> {"P", "A"}, sort |-> <<>>]}],
     Entry("S", "s", <<Apply("S", <<"imp">>, <<Falsum, P>>)>>, OfP),
     Entry("Y", "a", <<Both("Y", <<"nand">>, P)>>, OfP),
     Entry("Y", "imp", <<Both("Y", <<"imp">>, P)>>, OfP),
     Entry("Y", "nor", <<Both("Y", <<"nor">>, P)>>, OfP),
     Entry("B", "str", <<Apply("B", <<"imp">>, <<Var("P", W), Var("P", W)>>)>>, "P" :> W)}
    \cup (IF Constants THEN {Entry("S", "efq", <<P, Falsum>>, OfP)} ELSE {})

MCStatements ==
    {[label |-> "a", statement |-> Pieces("=>", <<Pieces("Q", <<>>), Pieces("Q", <<>>)>>), variables |-> "Q" :> W],
     [label |-> "own", statement |-> Pieces("<=>", <<Pieces("A", <<>>), Pieces("A", <<>>)>>), variables |-> Nothing]}
MCCited == {e.label : e \in MCLibrary} \cup {"own"}

---------------------------------------------------------------------------
(* The edges *)

Map(symbols) == [sorts |-> F :> W, symbols |-> symbols]
Usual   == (<<"fv">> :> <<"wv">>) @@ (<<"falsum">> :> <<"bot">>)
Good    == Map(Usual @@ (<<"imp">> :> <<"imp">>) @@ (<<"nor">> :> <<"vee">>))
Swap    == Map(Usual @@ (<<"imp">> :> <<"bi">>) @@ (<<"bi">> :> <<"imp">>))
Merged  == Map(Usual @@ (<<"imp">> :> <<"imp">>) @@ (<<"bi">> :> <<"imp">>))
GoodBi  == Map(Usual @@ (<<"imp">> :> <<"imp">>) @@ (<<"bi">> :> <<"bi">>))
Silent  == Map(Usual @@ (<<"bi">> :> <<"bi">>))

Hole == Pieces("{w}", <<>>)
Under(name) == [text |-> Pieces("|-", <<Pieces(name, <<>>), Hole>>), braced |-> {W}, extras |-> name :> W]
Twice == [text |-> Pieces("|-", <<Hole, Hole>>), braced |-> {W, Seq_}, extras |-> Nothing]

Content(id, tr, template, position, status, owes) ==
    [id |-> id, kind |-> IF IsPlain(template) THEN "extension" ELSE "interpretation",
     translation |-> tr, template |-> template, position |-> position, status |-> status, owes |-> owes]
Now(id, tr, template, position) == Content(id, tr, template, position, "discharged", {"discharged"})

MCPairs == {<<"X", "T">>, <<"Y", "B">>}
MCContents ==
    [p \in MCPairs |->
       IF p[1] = "X"
       THEN {Now(1, tr, NoTemplate, 1) : tr \in {GoodBi, Swap, Merged, Silent}}
            \cup {Now(1, GoodBi, t, 1) : t \in {Under("G"), Under("P"), Twice}}
            \cup {Content(1, GoodBi, NoTemplate, 1, "draft", {"discharged"}),
                  Content(1, Swap, NoTemplate, 1, "discharged", {"open"})}
       ELSE {Now(2, Good, NoTemplate, 2), Now(2, Good, NoTemplate, 0), Now(2, Good, Under("G"), 0),
             Now(2, Identity, NoTemplate, 2)}]
=============================================================================
