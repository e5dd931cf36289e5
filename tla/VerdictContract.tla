--------------------------- MODULE VerdictContract ---------------------------
(***************************************************************************)
(* What a reader of verdicts relies on, without the rows, the snapshots or *)
(* the lock: the proofs that are claimed to hold, each with the lemmas and *)
(* the library entries its claim rests on.  The module VerdictStore        *)
(* implements it when requests do not overlap (VerdictRefinement).         *)
(***************************************************************************)
CONSTANTS Proofs, Labels, Statements, NoClaim, NoEntry

Claims == [states   : Statements,
           lemmas   : SUBSET (Proofs \X Statements),
           theorems : SUBSET (Labels \X Statements)]

Entries == [by : Proofs, states : Statements]

VARIABLES
    claim,      \* [Proofs -> Claims \cup {NoClaim}]
    library     \* [Labels -> Entries \cup {NoEntry}]

vars == <<claim, library>>

\* The claims cs and the library lib hold everything the claim c rests on.
Supported(c, cs, lib) ==
    /\ \A u \in c.lemmas : cs[u[1]] # NoClaim /\ cs[u[1]].states = u[2]
    /\ \A u \in c.theorems : lib[u[1]] # NoEntry /\ lib[u[1]].states = u[2]

RestsOn(c, p) == c # NoClaim /\ \E u \in c.lemmas : u[1] = p

Init ==
    /\ claim = [p \in Proofs |-> NoClaim]
    /\ library = [l \in Labels |-> NoEntry]

\* The entry e was made from the claim its proof p had reached before the step,
\* with cs and lib as they were; after it p has that claim still or has none.
Warranted(e, p, cs, lib, after) ==
    /\ e.by = p
    /\ \E c \in Claims : /\ Supported(c, cs, lib)
                         /\ e.states = c.states
                         /\ after \in {c, NoClaim}

\* A step is about one proof.  It may gain, change or lose its claim, and with
\* it the entries it warrants; the others keep their claims or lose them.
\* Nothing is left standing on a claim that went or changed.  A new entry says
\* what its proof then claimed: the step that makes it takes back what rested on
\* the entries it replaces, and with it, possibly, that very claim.
Move(p) ==
    /\ claim' \in [Proofs -> Claims \cup {NoClaim}]
    /\ library' \in [Labels -> Entries \cup {NoEntry}]
    /\ \A q \in Proofs \ {p} : claim'[q] \in {claim[q], NoClaim}
    /\ \A l \in Labels : library'[l] # library[l] =>
          /\ library[l] # NoEntry => library[l].by = p
          /\ library'[l] # NoEntry =>
                Warranted(library'[l], p, claim, library, claim'[p])
    /\ \A q \in Proofs : claim'[q] # NoClaim => Supported(claim'[q], claim', library')
    /\ claim'[p] # claim[p] => \A q \in Proofs : ~RestsOn(claim'[q], p)

Next == \E p \in Proofs : Move(p)

Spec == Init /\ [][Next]_vars
-----------------------------------------------------------------------------
\* No claims rest on one another in a circle, so every claim bottoms out in
\* proofs that cite no lemma.
Grounded ==
    \A S \in (SUBSET Proofs) \ {{}} :
        \E p \in S : \A q \in S : ~RestsOn(claim[p], q)
=============================================================================
