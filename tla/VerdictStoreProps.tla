-------------------------- MODULE VerdictStoreProps --------------------------
(***************************************************************************)
(* What the store of proofs, verdicts and library entries promises.  The   *)
(* first group holds however requests overlap.  The second holds when they *)
(* do not, and is what the overlapping runs look for counterexamples to.   *)
(***************************************************************************)
EXTENDS VerdictStore

\* The database, the lock and every request under way have their types, a proof
\* that exists has a source, and the lock is held by a request under way.
TypeOK ==
    /\ db \in Databases
    /\ \A p \in db.exists : db.source[p] # NoText
    /\ lock \in Requests \cup {NoRequest}
    /\ req \in [Requests -> [op : Operations, snap : Snapshots] \cup {Idle}]
    /\ lock # NoRequest => req[lock] # Idle
-----------------------------------------------------------------------------
(* However requests overlap.                                               *)

\* The reference graph never has a cycle: no nonempty set of proofs each of
\* which references a member of the set.  The check in set_proof_references
\* reads the edges under the system's lock, and a link another request
\* inserted meanwhile is kept beside the new ones.
Acyclic ==
    \A S \in (SUBSET Proofs) \ {{}} : \E p \in S : db.refs[p] \cap S = {}

\* A stored line justified by a library entry has that entry in the library,
\* stating what the line took from it: retiring, replacing and deleting an
\* entry clear the checks that resolved to it (_retire_promotion,
\* invalidate_citations), and a check reads the library under the lock.
CitationsStand ==
    \A p \in Proofs : db.lines[p] # NoLines =>
        \A c \in db.lines[p].theorems :
            db.entry[c[1]] # NoEntry /\ db.entry[c[1]].states = c[2]

\* An entry is warranted by a proof that still exists (proved_by_id cascades,
\* and delete_proof retires first).
WarrantsExist ==
    \A l \in Labels : db.entry[l] # NoEntry => db.entry[l].by \in db.exists
-----------------------------------------------------------------------------
(* When requests do not overlap.                                           *)

\* Requests overlap only when one of the two deletes the proof that the other
\* checks or deletes.
OneAtATime ==
    \A q, r \in Requests : q # r /\ req[q] # Idle /\ req[r] # Idle =>
        /\ req[q].op.proof = req[r].op.proof
        /\ "delete" \in {req[q].op.kind, req[r].op.kind}
        /\ {req[q].op.kind, req[r].op.kind} \subseteq {"verify", "delete"}

SerialSpec == Init /\ [][Next /\ OneAtATime']_vars

\* The stored lines are the lines of the source the proof has now: a check
\* stores what it read, and an edit of the source discards it (_discard_check).
LinesMatchSource ==
    \A p \in Proofs : db.lines[p] # NoLines => db.lines[p].text = db.source[p]

\* A cached verdict and the stored lines are one check (_record_verdict).
VerdictHasLines ==
    \A p \in Proofs : db.verdict[p] = VerdictOf(db.lines[p])

\* Checking a proof whose verdict is valid again, from its source as it stands
\* and with the lemmas and the library as they stand, finds it valid: nothing
\* a valid verdict rests on changes without clearing the verdict.
ValidIsReproducible ==
    \A p \in Proofs : db.verdict[p] = "valid" =>
        Stands(Check(db, p, db.refs[p], db.source[p]))

\* What is public rests on what is public: a published proof references
\* published proofs only, and the proof that warrants a library entry is one.
PublishedClosed ==
    /\ \A p \in db.published : db.refs[p] \subseteq db.published
    /\ \A l \in Labels : db.entry[l] # NoEntry => db.entry[l].by \in db.published

\* A step that changes the source of a proof and leaves it published leaves it
\* verified: update_proof, propose_citation, propose_line and remove_line all
\* pass an edit of a published proof through _require_publishable.
PublishedEditsStand ==
    [][\A p \in db.published \cap db'.published :
          db'.source[p] # db.source[p] => db'.verdict[p] = "valid"]_vars

\* Replacing a proof's references leaves exactly the set that was asked for,
\* or what there was.
ReferencesReplaced ==
    [][\A r \in Requests :
          req[r] # Idle /\ req[r].op.kind = "references" /\ req'[r] = Idle =>
              db'.refs[req[r].op.proof] \in
                  {req[r].op.targets, db.refs[req[r].op.proof]}]_vars

\* A library entry's proof verifies as it stands.
EntriesWarranted ==
    \A l \in Labels : db.entry[l] # NoEntry =>
        LET p == db.entry[l].by
        IN Stands(Check(db, p, db.refs[p], db.source[p]))
=============================================================================
