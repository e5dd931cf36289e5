-------------------------- MODULE VerdictRefinement --------------------------
(***************************************************************************)
(* VerdictStore implements VerdictContract when requests do not overlap: a *)
(* proof is claimed exactly when its cached verdict is valid, and the      *)
(* claim is read off the stored lines of its last check.                   *)
(***************************************************************************)
EXTENDS VerdictStoreProps

CONSTANT NoClaim

\* The claim that the rows d make for p.
ClaimIn(d, p) ==
    IF d.verdict[p] # "valid" \/ d.lines[p] = NoLines THEN NoClaim
    ELSE [states   |-> Concludes[d.lines[p].text],
          lemmas   |-> d.lines[p].lemmas,
          theorems |-> d.lines[p].theorems]

Contract == INSTANCE VerdictContract WITH
    claim   <- [p \in Proofs |-> ClaimIn(db, p)],
    library <- db.entry

ASSUME ClaimAssumption == NoClaim \notin Contract!Claims

\* Each request's commit is a step of the contract or leaves every claim and
\* every entry alone: whatever a route clears, retires or records, no claim is
\* left resting on something that went, and no other proof gains one.
ImplementsContract == Contract!Spec
=============================================================================
