--------------------------- MODULE MetamathImport ---------------------------
(***************************************************************************)
(* import_corpus (app/db/metamath_store.py): one run over a Metamath file, *)
(* in one session that it commits every few theorems.  The walk checks     *)
(* each theorem against the library before it, hands the proof over to be  *)
(* stored, and then promotes the theorem; a proof or an entry that will    *)
(* not store costs itself and not the run; the end of the run links the    *)
(* proofs to their entries and publishes them.                             *)
(*                                                                         *)
(* The run may die at any moment, and be started again; the owner of an    *)
(* owned import can have a proof that has been committed verified anew     *)
(* while the run goes on.                                                  *)
(***************************************************************************)
EXTENDS MetamathGrammar, FiniteSets

CONSTANTS
    Jobs,       \* the imports: file, plan, limit, batch, owned
    MaxRuns     \* how often one is started

\* What a file and the options of its import look like.
ASSUME JobsAssumption ==
    /\ Jobs \subseteq [file : Seq(Statement), plan : Seq([name : STRING, title : STRING]),
                       limit : Nat, batch : Nat, owned : BOOLEAN]
    /\ LowDigits \in Nat /\ HighDigits \in Nat

NoBatch == 0
NoEntry == << >>
NoFolder == 0

VARIABLES
    job,       \* the import that is run, and what it reads off its file
    store,     \* the committed rows
    session,   \* the rows as the run's session has them
    run        \* the run

vars == <<job, store, session, run>>

db      == job.db
horizon == job.horizon
opens   == job.opens
reach   == Position(db, horizon)

\* What a run reads before it writes: the file, and each layer's opening.
Loaded(j) ==
    LET d == Parse(j.file)
        h == Horizon(d, j.limit)
    IN [db |-> d, horizon |-> h, opens |-> CorpusLayers(d, j.plan, h),
        logicalFrom |-> LogicalFrom(d, h),
        proofs |-> [t \in Range(Theorems(d, j.limit)) |-> ImportProof(d, t)],
        plan |-> j.plan, limit |-> j.limit, batch |-> j.batch, owned |-> j.owned]

\* The files that parse, declare a theorem, and have a grammar for each layer.
Importable(j) ==
    LET d == Parse(j.file)
    IN /\ ~d.error
       /\ Theorems(d, j.limit) # << >>
       /\ ~OutOfOrder(d, j.plan)
       /\ ~SpecsUnreadable(d, j.plan, Horizon(d, j.limit))

Checked == DOMAIN job.proofs

\* A system of the spine: which run stored it, and its layer.
Systems(n) == {<<n, i>> : i \in 1..Len(opens)}
SystemAt(n, p) == <<n, LayerOf(opens, p)>>
Chain(s) == {<<s[1], i>> : i \in 1..s[2]}

\* The sections the walk reaches, by the layer they fall in.
SectionsOf(i) ==
    {k \in 1..Len(db.outline) :
       db.outline[k].at <= reach /\ LayerOf(opens, db.outline[k].at) = i}

\* folder_for: the last section of the layer that opens at or before p.
FolderFor(p) ==
    LET past == {k \in SectionsOf(LayerOf(opens, p)) : db.outline[k].at <= p}
    IN IF past = {} THEN NoFolder ELSE CHOOSE k \in past : \A x \in past : x <= k

\* store_outline's parent: the section on top of the stack of open ones.
FolderParent(i, k) ==
    LET open == {x \in SectionsOf(i) :
                   /\ x < k /\ db.outline[x].level < db.outline[k].level
                   /\ \A y \in SectionsOf(i) :
                        y \in x+1..k-1 => db.outline[y].level > db.outline[x].level}
    IN IF open = {} THEN NoFolder ELSE CHOOSE x \in open : \A y \in open : y <= x

Folders(n) ==
    UNION {{[system |-> <<n, i>>, section |-> k, parent |-> FolderParent(i, k)] :
              k \in SectionsOf(i)} : i \in 1..Len(opens)}

\* _descriptions_of and describe: every label up to the horizon, hypotheses with
\* the assertions they stand before.
DescribedAt(label) ==
    IF label \in DOMAIN db.hypotheses THEN db.hypotheses[label].at ELSE Position(db, label)
Descriptions(n) ==
    {<<SystemAt(n, DescribedAt(x)), x>> :
       x \in {y \in DOMAIN db.hypotheses \cup DOMAIN db.assertions : DescribedAt(y) <= reach}}

NoRows == [systems |-> {}, folders |-> {}, entries |-> {}, proofs |-> {},
           described |-> {}, notation |-> {}]

NoRun == [n |-> 0, stage |-> "none", at |-> 0, checked |-> 0, admitted |-> {}, watermark |-> 0,
          library |-> {}, ids |-> << >>, unstored |-> {}]

Init ==
    /\ job \in {Loaded(j) : j \in {x \in Jobs : Importable(x)}}
    /\ store = NoRows
    /\ session = NoRows
    /\ run = NoRun
-----------------------------------------------------------------------------
\* _refuse_a_slug_collision: an owner has no two systems of one name.
Collides == job.owned /\ store.systems # {}

\* layered_systems: the spine, root first, each system published as it is made;
\* _Layers: their folders.
Begin ==
    /\ run.stage = "none" /\ run.n < MaxRuns
    /\ IF Collides
       THEN run' = [run EXCEPT !.stage = "refused"] /\ UNCHANGED session
       ELSE /\ run' = [NoRun EXCEPT !.n = run.n + 1, !.stage = "walk"]
            /\ session' = [session EXCEPT !.systems = @ \cup Systems(run.n + 1),
                                          !.folders = @ \cup Folders(run.n + 1)]
    /\ UNCHANGED <<job, store>>

label == Label(db, run.at)

\* A statement that asserts no truth is only notation, which the schedule has.
SkipSyntax ==
    /\ run.stage = "walk" /\ run.at <= reach /\ ~IsLogical(db, label)
    /\ run' = [run EXCEPT !.at = @ + 1]
    /\ UNCHANGED <<job, store, session>>

\* The grammar grows up to a logical assertion's own position.
Grown(r) ==
    [r EXCEPT !.admitted = @ \cup Admit(db, horizon, r.watermark, r.at), !.watermark = r.at + 1]

\* The labels a proof's lines name, and those among them the walk's library has.
Cites(t) == {line.by : line \in Range(job.proofs[t].lines)}
Uses(t)  == {x \in Cites(t) : x \in run.library}

\* What the kernel may say: a line that cites what is not there, or as many
\* lines as it does not take, does not follow.
Accepted(t) ==
    \A line \in Range(job.proofs[t].lines) :
        \/ line.by \in DOMAIN db.hypotheses
        \/ line.by \in run.library /\ Len(line.cites) = Len(Essentials(db, line.by))

\* A mutant: a verified proof is readable as soon as it is stored.
EagerProofRow(t, valid) ==
    LET resolvable == Uses(t) \cap run.unstored = {}
    IN [label |-> t, system |-> SystemAt(run.n, run.at), folder |-> FolderFor(run.at),
        valid |-> valid, uses |-> Uses(t), recorded |-> resolvable,
        refs |-> IF resolvable THEN {run.ids[x] : x \in Uses(t) \cap DOMAIN run.ids} ELSE {},
        theorem |-> NoEntry, published |-> valid, again |-> FALSE]

\* A mutant: a label with no stored entry is taken for a rule's.
HastyProofRow(t, valid) ==
    [label |-> t, system |-> SystemAt(run.n, run.at), folder |-> FolderFor(run.at),
     valid |-> valid, uses |-> Uses(t), recorded |-> TRUE,
     refs |-> {run.ids[x] : x \in Uses(t) \cap DOMAIN run.ids},
     theorem |-> NoEntry, published |-> FALSE, again |-> FALSE]

\* _store: the row, with what each line's label resolved to unless one of them
\* is an entry that did not store.
ProofRow(t, valid) ==
    LET resolvable == Uses(t) \cap run.unstored = {}
    IN [label |-> t, system |-> SystemAt(run.n, run.at), folder |-> FolderFor(run.at),
        valid |-> valid, uses |-> Uses(t), recorded |-> resolvable,
        refs |-> IF resolvable THEN {run.ids[x] : x \in Uses(t) \cap DOMAIN run.ids} ELSE {},
        theorem |-> NoEntry, published |-> FALSE, again |-> FALSE]

\* _checkpoint, every so many theorems checked.
Checkpoint(checked) == job.batch # NoBatch /\ checked % job.batch = 0

StoreProof(rows) ==
    LET checked == run.checked + 1
    IN /\ session' = [session EXCEPT !.proofs = @ \cup rows]
       /\ store' = IF Checkpoint(checked) THEN session' ELSE store
       /\ run' = [Grown(run) EXCEPT !.checked = checked, !.stage = "promote"]
       /\ UNCHANGED job

Reaches(t) == run.stage = "walk" /\ run.at <= reach /\ label = t /\ t \in Checked

\* Which sort |- is written in cannot be told yet, or the proof does not decode.
Unread(t) ==
    \/ job.logicalFrom = Never \/ run.at < job.logicalFrom
    \/ ~job.proofs[t].ok

CheckUnread(t) == Reaches(t) /\ Unread(t) /\ StoreProof({})

\* A proof the kernel raised on was never checked, and one that does not store
\* is undone alone.
CheckLost(t) == Reaches(t) /\ ~Unread(t) /\ StoreProof({})

CheckTheorem(t, valid) ==
    /\ Reaches(t) /\ ~Unread(t)
    /\ valid => Accepted(t)
    /\ StoreProof({ProofRow(t, valid)})

\* The assertion whose turn it is to be promoted, whatever was said of its proof.
Due(t) ==
    /\ run.at <= reach /\ label = t /\ IsLogical(db, t)
    /\ run.stage = IF t \in Checked THEN "promote" ELSE "walk"

Passed(r) == [Grown(r) EXCEPT !.stage = "walk", !.at = @ + 1]

\* It joins the library, and its entry is stored in its layer;
Promote(t) ==
    LET id == <<SystemAt(run.n, run.at), t>>
    IN /\ Due(t)
       /\ session' = [session EXCEPT !.entries = @ \cup {id}]
       /\ run' = [Passed(run) EXCEPT !.library = @ \cup {t}, !.ids = With(@, t, id)]
       /\ UNCHANGED <<job, store>>

\* or it joins the library and its entry does not store;
PromoteUnstored(t) ==
    /\ Due(t)
    /\ run' = [Passed(run) EXCEPT !.library = @ \cup {t}, !.unstored = @ \cup {t}]
    /\ UNCHANGED <<job, store, session>>

\* or it cannot be promoted, and is dropped.
Drop(t) ==
    /\ Due(t)
    /\ run' = Passed(run)
    /\ UNCHANGED <<job, store, session>>

\* _link_proofs_to_theorems, over the run's spine, by name.
Linked(p) ==
    IF p.system \in Systems(run.n) /\ p.label \in DOMAIN run.ids
    THEN [p EXCEPT !.theorem = run.ids[p.label]] ELSE p

\* _publish: the proofs of the run's systems whose rows say they are valid.
Published(p) ==
    IF p.system \in Systems(run.n) /\ p.valid THEN [p EXCEPT !.published = TRUE] ELSE p

\* The end of the run: one transaction from the last checkpoint on.
Finish ==
    /\ run.stage = "walk" /\ run.at > reach
    /\ session' = [session EXCEPT !.proofs = {Published(Linked(p)) : p \in @},
                                  !.described = @ \cup Descriptions(run.n),
                                  !.notation = @ \cup {<<run.n, 1>>}]
    /\ IF job.batch = NoBatch
       THEN run' = [run EXCEPT !.stage = "handed"] /\ UNCHANGED store
       ELSE run' = [run EXCEPT !.stage = "done"] /\ store' = session'
    /\ UNCHANGED job

\* A run with no batches leaves the commit to its caller.
CallerCommits ==
    /\ run.stage = "handed"
    /\ store' = session
    /\ run' = [run EXCEPT !.stage = "done"]
    /\ UNCHANGED <<job, session>>

\* The process dies, or what is raised outside a savepoint ends it.
Crash ==
    /\ run.stage \in {"walk", "promote", "handed"}
    /\ session' = store
    /\ run' = [run EXCEPT !.stage = "none"]
    /\ UNCHANGED <<job, store>>

\* POST /proofs/{id}/verify by the owner of an owned import, on a committed proof,
\* public or not: each label resolves to a committed entry up the chain, or not at
\* all, and what the check says is what the row says from then on. It waits for a row
\* the import has written and not committed. again marks, for the properties, a proof
\* its owner has had checked since it was made public.
Verify(p, valid) ==
    LET found == {e \in store.entries : e[1] \in Chain(p.system) /\ e[2] \in Cites(p.label)}
        whole == \A x \in Cites(p.label) \ DOMAIN db.hypotheses : \E e \in found : e[2] = x
        row   == [p EXCEPT !.valid = valid, !.uses = {e[2] : e \in found},
                           !.refs = found, !.recorded = TRUE, !.again = p.published]
    IN /\ job.owned /\ p \in store.proofs \cap session.proofs
       /\ valid => whole
       /\ store' = [store EXCEPT !.proofs = (@ \ {p}) \cup {row}]
       /\ session' = [session EXCEPT !.proofs = (@ \ {p}) \cup {row}]
       /\ UNCHANGED <<job, run>>

Progress ==
    \/ Begin
    \/ SkipSyntax
    \/ \E t \in Checked : CheckUnread(t)
    \/ \E t \in Checked, valid \in BOOLEAN : CheckTheorem(t, valid)
    \/ \E t \in Range(db.order) : Promote(t)
    \/ Finish
    \/ CallerCommits

Mishap ==
    \/ \E t \in Checked : CheckLost(t)
    \/ \E t \in Range(db.order) : PromoteUnstored(t)
    \/ \E t \in Range(db.order) : Drop(t)
    \/ Crash
    \/ \E p \in store.proofs, valid \in BOOLEAN : Verify(p, valid)

Next == Progress \/ Mishap

Spec == Init /\ [][Next]_vars
=============================================================================
