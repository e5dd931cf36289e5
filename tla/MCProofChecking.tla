-------------------------- MODULE MCProofChecking --------------------------
(***************************************************************************)
(* A small predicate logic: a predicate P of the variable x, a sentence Q, *)
(* two implications, the universal closure of P and a name for P>P, read   *)
(* in the models of a domain of two with a value for x.                    *)
(***************************************************************************)
EXTENDS ProofCheckingProps

Implications == {<<"P", "P", "P>P">>, <<"P", "Q", "P>Q">>}

Closures == {<<"P", "AP">>}

MCFormulas == {"P", "Q", "AP", "P>P", "P>Q", "Self"}
MCFree == [f \in MCFormulas |-> IF f \in {"Q", "AP"} THEN {} ELSE {"x"}]

\* P of everything, of x's value alone, of the other value alone, of nothing.
MCModels == {"all", "here", "there", "none"} \X BOOLEAN

Holds(m, f) == CASE f = "P"  -> m[1] \in {"all", "here"}
                 [] f = "Q"  -> m[2]
                 [] f = "AP" -> m[1] = "all"

MCExtension ==
    [f \in MCFormulas |->
        {m \in MCModels :
            IF f \in {"P", "Q", "AP"} THEN Holds(m, f)
            ELSE f = "Self" \/ \E i \in Implications : i[3] = f /\ (Holds(m, i[1]) => Holds(m, i[2]))}]

MCArity == [MP |-> 2, R |-> 1, UI |-> 1]

MCInstances ==
    [MP |-> {<< <<i[3], i[1]>>, i[2] >> : i \in Implications},
     R  |-> {<< <<f>>, f >> : f \in MCFormulas},
     UI |-> {<< <<c[2]>>, c[1] >> : c \in Closures}]

MCDischarges ==
    [CP |-> {[kind |-> "assumption", open |-> i[1], conclusion |-> i[2], deduction |-> i[3]]
               : i \in Implications},
     UG |-> {[kind |-> "variable", open |-> "x", conclusion |-> c[1], deduction |-> c[2]]
               : c \in Closures}]

MCDefinitions == {<<"Self", "P>P">>}

MCGiven == [MP |-> {0, 2}, R |-> {1, 2}, UI |-> {1}, CP |-> {1}, UG |-> {1},
            Def |-> {1}, Thm |-> {0}, Hole |-> {0}]
=============================================================================
