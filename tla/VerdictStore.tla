---------------------------- MODULE VerdictStore ----------------------------
(***************************************************************************)
(* The proofs of one published formal system, the verdicts cached on them, *)
(* the reference graph between them and the library entries they warrant,  *)
(* as the API requests of app/routers/proofs.py read and write them.       *)
(*                                                                         *)
(* A request is one database transaction under READ COMMITTED.  Its route  *)
(* loads the proof into the session's identity map first (Begin), waits    *)
(* for the system's advisory lock (Enter), and then decides, writes and    *)
(* commits (one of the Finish actions).  Nothing refreshes the identity    *)
(* map after the lock is granted, so a request goes on using the source,   *)
(* the reference links, the publication dates and the cached verdict it    *)
(* loaded before it waited: that copy is the request's snapshot.  Queries  *)
(* that select columns or rows not yet loaded see the committed database.  *)
(*                                                                         *)
(* The unit of work writes an attribute only when its new value differs    *)
(* from the one loaded, which is Written below.                            *)
(*                                                                         *)
(* The content of a source text is abstracted to what decides a verdict:   *)
(* the class of its own lines, the statement it concludes, and what it     *)
(* cites (lines of lemma proofs, library entries).                         *)
(*                                                                         *)
(* An operator whose name starts with Wrong is a bug the code might have   *)
(* had: no definition here uses it, and the properties are run against it. *)
(***************************************************************************)
EXTENDS FiniteSets

CONSTANTS
    Proofs,             \* ids a proof row may have
    Labels,             \* labels of library entries
    Statements,         \* what a proof may conclude
    Texts,              \* source texts
    Class,              \* [Texts -> TextClasses]: the text's own lines
    Concludes,          \* [Texts -> Statements]
    LemmaCitations,     \* [Texts -> SUBSET (Proofs \X Statements)]
    TheoremCitations,   \* [Texts -> SUBSET (Labels \X Statements)]
    Operations,         \* the API calls the clients may make
    Requests,           \* request slots: how many calls overlap
    NoRequest, NoLines, NoEntry, Idle, NoText

TextClasses == {"sound", "warned", "broken", "unreadable"}

\* The structure a check stores with its verdict (proof_lines rows).
Lines == [text : Texts, ok : BOOLEAN,
          lemmas : SUBSET (Proofs \X Statements),
          theorems : SUBSET (Labels \X Statements)]

\* A row of promoted_theorems that a proof of this system warrants.
Entries == [by : Proofs, states : Statements]

Verdicts == {"unchecked", "valid", "invalid"}

Databases == [exists    : SUBSET Proofs,
              source    : [Proofs -> Texts \cup {NoText}],
              refs      : [Proofs -> SUBSET Proofs],
              published : SUBSET Proofs,
              verdict   : [Proofs -> Verdicts],
              lines     : [Proofs -> Lines \cup {NoLines}],
              entry     : [Labels -> Entries \cup {NoEntry}]]

\* What a route holds in its identity map when it starts to wait.
Snapshots == [source    : Texts,
              refs      : SUBSET Proofs,
              lemmasOut : SUBSET Proofs,   \* referenced proofs seen published
              published : BOOLEAN,
              verdict   : Verdicts,
              warrants  : SUBSET Labels,   \* entries the proof established
              replaced  : SUBSET Labels]   \* those that have a new row since

AllOperations ==
    [kind : {"create", "rewrite"}, proof : Proofs, text : Texts]
      \cup [kind : {"verify", "retire", "delete"}, proof : Proofs]
      \cup [kind : {"patch"}, proof : Proofs, text : Texts \cup {NoText},
            publish : {"keep", "yes", "no"}]
      \cup [kind : {"references"}, proof : Proofs, targets : SUBSET Proofs]
      \cup [kind : {"promote"}, proof : Proofs, label : Labels]

ASSUME TextAssumption ==
    /\ Class \in [Texts -> TextClasses]
    /\ Concludes \in [Texts -> Statements]
    /\ LemmaCitations \in [Texts -> SUBSET (Proofs \X Statements)]
    /\ TheoremCitations \in [Texts -> SUBSET (Labels \X Statements)]

ASSUME OperationAssumption ==
    /\ Operations \subseteq AllOperations
    /\ NoText \notin Texts

ASSUME NoneAssumption ==
    /\ NoRequest \notin Requests
    /\ NoLines \notin Lines
    /\ NoEntry \notin Entries
    /\ Idle \notin [op : Operations, snap : Snapshots]

VARIABLES
    db,     \* the committed rows
    lock,   \* holder of pg_advisory_xact_lock for this system
    req     \* the requests under way: the call and what its route has loaded

vars == <<db, lock, req>>
-----------------------------------------------------------------------------
(* The reference graph.                                                    *)

\* Every proof that the walk along refs meets, starting from the set from.
ReachableFrom(refs, from) ==
    {p \in Proofs : \A R \in SUBSET Proofs :
        (from \subseteq R /\ \A q \in R : refs[q] \subseteq R) => p \in R}

\* Only cycles of two proofs are looked for.
WrongWouldCycle(d, p, targets) == \E t \in targets : p \in d.refs[t]

\* Pointing p at targets closes a cycle: a target reaches p without p's own
\* edges, which are being replaced.
WouldCycle(d, p, targets) ==
    p \in ReachableFrom([d.refs EXCEPT ![p] = {}], targets)

\* Only the proofs that reference a root directly.
WrongDependentClosure(d, roots) ==
    {p \in Proofs : d.refs[p] \cap roots # {}} \ roots

\* Every proof that transitively references a member of roots, roots excluded.
DependentClosure(d, roots) ==
    {p \in Proofs : \A R \in SUBSET Proofs :
        (/\ roots \subseteq R
         /\ \A q \in Proofs : d.refs[q] \cap R # {} => q \in R) => p \in R}
      \ roots

\* The proof's own references are looked at, for its dependents.
WrongHasPublishedDependents(d, p) == \E q \in d.exists : q \in d.refs[p] /\ q \notin d.published

HasPublishedDependents(d, p) ==
    \E q \in d.exists : p \in d.refs[q] /\ q \in d.published
-----------------------------------------------------------------------------
(* Invalidation: each operator maps the database to the database.          *)

\* An assignment to a loaded attribute reaches the row only as a net change.
Written(loaded, new, stored) == IF new = loaded THEN stored ELSE new

ClearVerdicts(d, ps) ==
    [d EXCEPT !.verdict = [p \in Proofs |-> IF p \in ps THEN "unchecked" ELSE @[p]],
              !.lines   = [p \in Proofs |-> IF p \in ps THEN NoLines ELSE @[p]]]

\* The proofs with a stored line that a citation of one of the labels justified.
Citing(d, labels) ==
    {p \in Proofs : d.lines[p] # NoLines
                    /\ \E c \in d.lines[p].theorems : c[1] \in labels}

\* The closure of the citing proofs is taken to hold them.
WrongInvalidateCitations(d, labels) ==
    ClearVerdicts(d, DependentClosure(d, Citing(d, labels)))

InvalidateCitations(d, labels) ==
    ClearVerdicts(d, Citing(d, labels) \cup DependentClosure(d, Citing(d, labels)))

\* The dependents lose their verdicts, and theirs keep them.
WrongInvalidateDependents(d, p) == ClearVerdicts(d, {q \in Proofs : p \in d.refs[q]})

InvalidateDependents(d, p) == ClearVerdicts(d, DependentClosure(d, {p}))

\* The verdict goes and the stored lines stay.
WrongDiscardCheck(d, p, loaded) ==
    [d EXCEPT !.verdict[p] = Written(loaded, "unchecked", @)]

DiscardCheck(d, p, loaded) ==
    [d EXCEPT !.verdict[p] = Written(loaded, "unchecked", @),
              !.lines[p]   = NoLines]

WarrantedBy(d, p) == {l \in Labels : d.entry[l] # NoEntry /\ d.entry[l].by = p}

\* What cites the entry is cleared, and the entry stays.
WrongRetirePromotion(d, p, labels) == InvalidateCitations(d, labels)

\* Withdraw the entries p warrants among labels, and every verdict citing them.
RetirePromotion(d, p, labels) ==
    [InvalidateCitations(d, labels) EXCEPT
        !.entry = [l \in Labels |-> IF l \in labels /\ l \in WarrantedBy(d, p)
                                    THEN NoEntry ELSE @[l]]]

\* The same, by the rows a snapshot s found: the sweep goes by the label, and a
\* row that a promotion has stored since has another id.
RetireLoaded(d, p, s) ==
    InvalidateCitations(RetirePromotion(d, p, s.warrants \ s.replaced), s.warrants)

\* Everything a change to p's text or references undoes.
Undo(d, p, loaded) ==
    LET cleared == InvalidateDependents(DiscardCheck(d, p, loaded), p)
    IN RetirePromotion(cleared, p, WarrantedBy(cleared, p))
-----------------------------------------------------------------------------
(* Checking a proof.                                                       *)

\* A lemma whose stored check stands and carries no warning.
IsUsableLemma(d, p) ==
    d.lines[p] # NoLines /\ d.lines[p].ok /\ Class[d.lines[p].text] = "sound"

\* The check of text as the source of p, with the lemmas refs: every citation
\* is resolved against the stored lines and the library.  NoLines when the
\* check gives no structure at all.
Check(d, p, refs, text) ==
    LET lemmas   == {c \in LemmaCitations[text] :
                        /\ c[1] \in refs
                        /\ IsUsableLemma(d, c[1])
                        /\ Concludes[d.lines[c[1]].text] = c[2]}
        theorems == {c \in TheoremCitations[text] :
                        d.entry[c[1]] # NoEntry /\ d.entry[c[1]].states = c[2]}
    IN IF Class[text] = "unreadable" \/ WouldCycle(d, p, refs)
       THEN NoLines
       ELSE [text     |-> text,
             ok       |-> /\ Class[text] \in {"sound", "warned"}
                          /\ lemmas = LemmaCitations[text]
                          /\ theorems = TheoremCitations[text],
             lemmas   |-> lemmas,
             theorems |-> theorems]

Stands(lines) == lines # NoLines /\ lines.ok

\* A proof with stored lines is checked from them, any other from its source
\* as the request has it.
TextToCheck(d, p, source) ==
    IF d.lines[p] # NoLines THEN d.lines[p].text ELSE source

VerdictOf(lines) ==
    IF lines = NoLines THEN "unchecked" ELSE IF lines.ok THEN "valid" ELSE "invalid"

RecordVerdict(d, p, loaded, lines) ==
    [d EXCEPT !.verdict[p] = Written(loaded, VerdictOf(lines), @),
              !.lines[p]   = lines]
-----------------------------------------------------------------------------
(* A request, up to the lock.                                              *)

SnapshotOf(p) ==
    [source    |-> db.source[p],
     refs      |-> db.refs[p],
     lemmasOut |-> db.refs[p] \cap db.published,
     published |-> p \in db.published,
     verdict   |-> db.verdict[p],
     warrants  |-> WarrantedBy(db, p),
     replaced  |-> {}]

\* What each route refuses before it waits for the lock.
Admitted(op) ==
    /\ op.proof \in db.exists
    /\ op.kind = "promote" => op.proof \in db.published
    /\ op.kind = "rewrite" => db.lines[op.proof] # NoLines
    /\ op.kind = "delete"  => ~HasPublishedDependents(db, op.proof)
    /\ op.kind = "patch" /\ op.text = NoText /\ op.publish = "no"
         => ~HasPublishedDependents(db, op.proof)

Begin(r, op) ==
    /\ op.kind # "create"
    /\ req[r] = Idle
    /\ Admitted(op)
    /\ req' = [req EXCEPT ![r] = [op |-> op, snap |-> SnapshotOf(op.proof)]]
    /\ UNCHANGED <<db, lock>>

\* An unpublish or a retirement that found no entry to withdraw, and a patch
\* of nothing that is checked, never reach lock_system.
TakesLock(q) ==
    CASE q.op.kind = "retire" -> q.snap.warrants # {}
      [] q.op.kind = "patch"  -> \/ q.op.text # NoText
                                 \/ q.op.publish = "yes"
                                 \/ q.op.publish = "no" /\ q.snap.warrants # {}
      [] OTHER -> TRUE

Enter(r) ==
    /\ req[r] # Idle
    /\ TakesLock(req[r])
    /\ lock = NoRequest
    /\ lock' = r
    /\ UNCHANGED <<db, req>>
-----------------------------------------------------------------------------
(* A request, from the lock to the commit.  A refusal rolls back: it       *)
(* commits the database it found.                                          *)

Granted(r, kind) ==
    /\ req[r] # Idle
    /\ req[r].op.kind = kind
    /\ TakesLock(req[r]) => lock = r

Commit(r, d) ==
    /\ db' = d
    /\ lock' = IF lock = r THEN NoRequest ELSE lock
    /\ req' = [req EXCEPT ![r] = Idle]

\* A commit that stores a new row for the label l.
CommitEntry(r, d, l) ==
    /\ db' = d
    /\ lock' = IF lock = r THEN NoRequest ELSE lock
    /\ req' = [q \in Requests |->
                 IF q = r \/ req[q] = Idle THEN Idle
                 ELSE [req[q] EXCEPT
                         !.snap.replaced = @ \cup ({l} \cap req[q].snap.warrants)]]

Refuse(r) == Commit(r, db)

\* The proof was deleted while the request waited.
FinishGone(r) ==
    /\ \E kind \in {"verify", "patch", "references", "promote", "rewrite", "delete"} :
          Granted(r, kind)
    /\ req[r].op.proof \notin db.exists
    /\ Refuse(r)

FinishVerify(r) ==
    LET p == req[r].op.proof
        s == req[r].snap
    IN /\ Granted(r, "verify")
       /\ p \in db.exists
       /\ Commit(r, RecordVerdict(db, p, s.verdict,
                        Check(db, p, s.refs, TextToCheck(db, p, s.source))))

\* PATCH: a source edit undoes what the old text established, and whatever is
\* or becomes published must pass the publication gate as it then stands.
FinishPatch(r) ==
    LET op     == req[r].op
        p      == op.proof
        s      == req[r].snap
        edited == op.text # NoText
        source == IF edited THEN op.text ELSE s.source
        loaded == IF edited THEN "unchecked" ELSE s.verdict
        d      == IF edited
                  THEN Undo([db EXCEPT !.source[p] = Written(s.source, op.text, @)],
                            p, s.verdict)
                  ELSE db
        gated  == \/ op.publish = "yes"
                  \/ op.publish = "keep" /\ edited /\ s.published
        lines  == Check(d, p, s.refs, TextToCheck(d, p, source))
        passes == s.lemmasOut = s.refs /\ Stands(lines)
    IN /\ Granted(r, "patch")
       /\ p \in db.exists
       /\ \/ /\ gated /\ passes
             /\ Commit(r, [RecordVerdict(d, p, loaded, lines) EXCEPT
                    !.published = IF op.publish = "yes" THEN @ \cup {p} ELSE @])
          \/ /\ gated /\ ~passes
             /\ Refuse(r)
          \/ /\ op.publish = "no"
             /\ edited /\ HasPublishedDependents(d, p)
             /\ Refuse(r)
          \/ /\ op.publish = "no"
             /\ ~(edited /\ HasPublishedDependents(d, p))
             /\ Commit(r, [IF edited THEN RetirePromotion(d, p, WarrantedBy(d, p))
                                     ELSE RetireLoaded(d, p, s) EXCEPT
                    !.published = IF s.published THEN @ \ {p} ELSE @])
          \/ /\ op.publish = "keep" /\ ~gated
             /\ Commit(r, d)

\* PUT references: the links the request loaded are deleted, the new ones
\* inserted; a link some other request inserted meanwhile is not deleted, and
\* inserting it again violates the table's key.
FinishReferences(r) ==
    LET p       == req[r].op.proof
        targets == req[r].op.targets
        s       == req[r].snap
        added   == db.refs[p] \ s.refs
        isOut(t) == IF t \in s.refs THEN t \in s.lemmasOut ELSE t \in db.published
        accepted == /\ p \notin targets
                    /\ targets \subseteq db.exists
                    /\ s.published => \A t \in targets : isOut(t)
                    /\ ~WouldCycle(db, p, targets)
                    /\ targets \cap added = {}
    IN /\ Granted(r, "references")
       /\ p \in db.exists
       /\ \/ /\ accepted
             /\ Commit(r, Undo([db EXCEPT !.refs[p] = added \cup targets],
                               p, s.verdict))
          \/ /\ ~accepted
             /\ Refuse(r)

FinishPromote(r) ==
    LET p     == req[r].op.proof
        l     == req[r].op.label
        s     == req[r].snap
        lines == Check(db, p, s.refs, TextToCheck(db, p, s.source))
        checked  == RecordVerdict(db, p, s.verdict, lines)
        retired  == RetirePromotion(checked, p, WarrantedBy(checked, p))
        accepted == /\ IsUsableLemma(checked, p)
                    /\ db.entry[l] # NoEntry => db.entry[l].by = p
    IN /\ Granted(r, "promote")
       /\ p \in db.exists
       /\ \/ /\ accepted
             /\ CommitEntry(r, [InvalidateCitations(retired, {l}) EXCEPT
                    !.entry[l] = [by |-> p, states |-> Concludes[lines.text]]], l)
          \/ /\ ~accepted
             /\ Refuse(r)

\* POST cite, lines and lines/remove with apply: the new text is the loaded one
\* with a line rewritten, checked before anything is undone.  The lines written
\* name the entries that check resolved, so none of them may be p's own.  A check
\* without structure stops the line editors, and cite applies it all the same.
FinishRewrite(r) ==
    LET p     == req[r].op.proof
        text  == req[r].op.text
        s     == req[r].snap
        lines == Check(db, p, s.refs, text)
        d     == Undo([db EXCEPT !.source[p] = Written(s.source, text, @)],
                      p, s.verdict)
        accepted == /\ lines # NoLines =>
                          \A c \in lines.theorems : c[1] \notin WarrantedBy(db, p)
                    /\ s.published => /\ s.lemmasOut = s.refs
                                      /\ Stands(Check(d, p, s.refs, text))
    IN /\ Granted(r, "rewrite")
       /\ p \in db.exists
       /\ \/ /\ accepted
             /\ Commit(r, RecordVerdict(d, p, "unchecked", lines))
          \/ /\ ~accepted \/ lines = NoLines
             /\ Refuse(r)

FinishRetire(r) ==
    /\ Granted(r, "retire")
    /\ Commit(r, RetireLoaded(db, req[r].op.proof, req[r].snap))

\* The row takes its edges, its lines and its entries with it.
Without(d, p) ==
    [d EXCEPT !.exists    = @ \ {p},
              !.published = @ \ {p},
              !.source[p] = NoText,
              !.refs      = [q \in Proofs |-> IF q = p THEN {} ELSE @[q] \ {p}],
              !.verdict[p] = "unchecked",
              !.lines[p]  = NoLines]

FinishDelete(r) ==
    LET p == req[r].op.proof
        d == InvalidateDependents(db, p)
    IN /\ Granted(r, "delete")
       /\ p \in db.exists
       /\ Commit(r, Without(RetirePromotion(d, p, WarrantedBy(d, p)), p))

\* A new row's id is one no request under way can have met.
Unmet(p) ==
    /\ p \notin db.exists
    /\ \A r \in Requests : req[r] # Idle =>
          /\ req[r].op.proof # p
          /\ p \notin req[r].snap.refs
          /\ req[r].op.kind = "references" => p \notin req[r].op.targets

\* POST proofs: one insert, without the lock.
Create(op) ==
    /\ op.kind = "create"
    /\ Unmet(op.proof)
    /\ db' = [db EXCEPT !.exists = @ \cup {op.proof},
                        !.source[op.proof] = op.text]
    /\ UNCHANGED <<lock, req>>
-----------------------------------------------------------------------------
Init ==
    /\ db = [exists    |-> {},
             source    |-> [p \in Proofs |-> NoText],
             refs      |-> [p \in Proofs |-> {}],
             published |-> {},
             verdict   |-> [p \in Proofs |-> "unchecked"],
             lines     |-> [p \in Proofs |-> NoLines],
             entry     |-> [l \in Labels |-> NoEntry]]
    /\ lock = NoRequest
    /\ req = [r \in Requests |-> Idle]

Finish(r) ==
    \/ FinishGone(r)
    \/ FinishVerify(r)
    \/ FinishPatch(r)
    \/ FinishReferences(r)
    \/ FinishPromote(r)
    \/ FinishRewrite(r)
    \/ FinishRetire(r)
    \/ FinishDelete(r)

Next ==
    \/ \E op \in Operations : Create(op)
    \/ \E r \in Requests, op \in Operations : Begin(r, op)
    \/ \E r \in Requests : Enter(r) \/ Finish(r)

Spec == Init /\ [][Next]_vars
=============================================================================
