------------------------- MODULE VerdictStoreProofs -------------------------
(***************************************************************************)
(* Proofs, for any proofs, labels, texts and calls: first, for any number  *)
(* of overlapping requests, of what VerdictStoreProps says holds however   *)
(* requests overlap, and that stored citations name entries the library    *)
(* has and that entries have their proofs; then, for calls that do not     *)
(* overlap, of what it says holds until then, and that the store           *)
(* implements the contract of VerdictContract, under which no claims rest  *)
(* on one another in a circle.                                             *)
(***************************************************************************)
EXTENDS VerdictRefinement, TLAPS

(* What the calls of the clients look like.                                *)

LEMMA OperationType ==
    ASSUME NEW op \in Operations
    PROVE  /\ op.proof \in Proofs
           /\ op.kind \in {"create", "rewrite"} => op.text \in Texts
           /\ op.kind = "patch" => op.text \in Texts \cup {NoText}
           /\ op.kind = "references" => op.targets \in SUBSET Proofs
           /\ op.kind = "promote" => op.label \in Labels
BY OperationAssumption DEF AllOperations
-----------------------------------------------------------------------------
(* Every helper from databases to databases returns a database.            *)

LEMMA ClearVerdictsType ==
    ASSUME NEW d \in Databases, NEW ps PROVE ClearVerdicts(d, ps) \in Databases
BY DEF Databases, ClearVerdicts, Verdicts

LEMMA InvalidateType ==
    ASSUME NEW d \in Databases
    PROVE  /\ \A labels : InvalidateCitations(d, labels) \in Databases
           /\ \A p : InvalidateDependents(d, p) \in Databases
BY ClearVerdictsType DEF InvalidateCitations, InvalidateDependents

LEMMA DiscardCheckType ==
    ASSUME NEW d \in Databases, NEW p \in Proofs, NEW loaded \in Verdicts
    PROVE  DiscardCheck(d, p, loaded) \in Databases
BY DEF Databases, DiscardCheck, Written, Verdicts

LEMMA RetirePromotionType ==
    ASSUME NEW d \in Databases, NEW p \in Proofs, NEW labels
    PROVE  RetirePromotion(d, p, labels) \in Databases
<1> DEFINE e == InvalidateCitations(d, labels)
<1>1. e \in Databases
  BY InvalidateType
<1> HIDE DEF e
<1>2. [e EXCEPT !.entry = [l \in Labels |-> IF l \in labels /\ l \in WarrantedBy(d, p)
                                            THEN NoEntry ELSE e.entry[l]]] \in Databases
  BY <1>1 DEF Databases
<1>  QED BY <1>2 DEF RetirePromotion, e

LEMMA RetireLoadedType ==
    ASSUME NEW d \in Databases, NEW p \in Proofs, NEW s
    PROVE  RetireLoaded(d, p, s) \in Databases
BY RetirePromotionType, InvalidateType DEF RetireLoaded

LEMMA UndoType ==
    ASSUME NEW d \in Databases, NEW p \in Proofs, NEW loaded \in Verdicts
    PROVE  Undo(d, p, loaded) \in Databases
BY DiscardCheckType, InvalidateType, RetirePromotionType DEF Undo

LEMMA CheckType ==
    ASSUME NEW d \in Databases, NEW p, NEW refs, NEW text \in Texts
    PROVE  Check(d, p, refs, text) \in Lines \cup {NoLines}
BY TextAssumption DEF Check, Lines

LEMMA RecordVerdictType ==
    ASSUME NEW d \in Databases, NEW p \in Proofs, NEW loaded \in Verdicts,
           NEW lines \in Lines \cup {NoLines}
    PROVE  RecordVerdict(d, p, loaded, lines) \in Databases
BY DEF Databases, RecordVerdict, Written, VerdictOf, Verdicts

LEMMA TextToCheckType ==
    ASSUME NEW d \in Databases, NEW p \in Proofs, NEW source \in Texts
    PROVE  TextToCheck(d, p, source) \in Texts
BY DEF TextToCheck, Databases, Lines
-----------------------------------------------------------------------------
(* What the helpers leave alone.                                           *)

SameRows(d, e) ==
    /\ e.exists = d.exists
    /\ e.source = d.source
    /\ e.refs = d.refs
    /\ e.published = d.published

LEMMA InvalidateFrame ==
    ASSUME NEW d \in Databases, NEW p, NEW labels
    PROVE  /\ SameRows(d, InvalidateCitations(d, labels))
           /\ InvalidateCitations(d, labels).entry = d.entry
           /\ SameRows(d, InvalidateDependents(d, p))
           /\ InvalidateDependents(d, p).entry = d.entry
BY DEF InvalidateCitations, InvalidateDependents, ClearVerdicts, SameRows, Databases

LEMMA RetirePromotionFrame ==
    ASSUME NEW d \in Databases, NEW p, NEW labels
    PROVE  SameRows(d, RetirePromotion(d, p, labels))
<1> DEFINE e == InvalidateCitations(d, labels)
<1>1. e \in Databases /\ SameRows(d, e)
  BY InvalidateType, InvalidateFrame
<1> HIDE DEF e
<1>2. SameRows(d, [e EXCEPT !.entry = [l \in Labels |->
                      IF l \in labels /\ l \in WarrantedBy(d, p)
                      THEN NoEntry ELSE e.entry[l]]])
  BY <1>1 DEF SameRows, Databases
<1>  QED BY <1>2 DEF RetirePromotion, e

LEMMA RetireLoadedFrame ==
    ASSUME NEW d \in Databases, NEW p \in Proofs, NEW s
    PROVE  SameRows(d, RetireLoaded(d, p, s))
<1> DEFINE e == RetirePromotion(d, p, s.warrants \ s.replaced)
<1>1. e \in Databases /\ SameRows(d, e)
  BY RetirePromotionType, RetirePromotionFrame
<1>2. RetireLoaded(d, p, s) = InvalidateCitations(e, s.warrants)
  BY DEF RetireLoaded
<1> HIDE DEF e
<1>  QED BY <1>1, <1>2, InvalidateFrame DEF SameRows

LEMMA UndoFrame ==
    ASSUME NEW d \in Databases, NEW p \in Proofs, NEW loaded \in Verdicts
    PROVE  SameRows(d, Undo(d, p, loaded))
<1>1. DiscardCheck(d, p, loaded) \in Databases /\ SameRows(d, DiscardCheck(d, p, loaded))
  BY DiscardCheckType DEF DiscardCheck, SameRows, Databases
<1>  QED BY <1>1, InvalidateType, InvalidateFrame, RetirePromotionFrame DEF Undo, SameRows

LEMMA RecordVerdictFrame ==
    ASSUME NEW d \in Databases, NEW p \in Proofs, NEW loaded, NEW lines
    PROVE  /\ SameRows(d, RecordVerdict(d, p, loaded, lines))
           /\ RecordVerdict(d, p, loaded, lines).entry = d.entry
BY DEF RecordVerdict, SameRows, Databases
-----------------------------------------------------------------------------
(* Types.                                                                  *)

\* A commit of a database whose proofs have their sources keeps the types.
LEMMA CommitType ==
    ASSUME TypeOK, NEW r \in Requests, NEW d \in Databases,
           \A p \in d.exists : d.source[p] # NoText,
           Commit(r, d)
    PROVE  TypeOK'
BY NoneAssumption DEF TypeOK, Commit

LEMMA CommitEntryType ==
    ASSUME TypeOK, NEW r \in Requests, NEW d \in Databases,
           \A p \in d.exists : d.source[p] # NoText,
           NEW l, CommitEntry(r, d, l)
    PROVE  TypeOK'
<1>1. /\ db' = d
      /\ lock' \in Requests \cup {NoRequest}
      /\ lock' # r
  BY NoneAssumption DEF CommitEntry, TypeOK
<1>2. ASSUME NEW q \in Requests, q # r, req[q] # Idle
      PROVE  /\ req'[q] \in [op : Operations, snap : Snapshots]
             /\ req'[q] # Idle
  <2> DEFINE kept == req[q].snap.replaced \cup ({l} \cap req[q].snap.warrants)
  <2>1. req[q] \in [op : Operations, snap : Snapshots]
    BY <1>2 DEF TypeOK
  <2>2. req'[q] = [req[q] EXCEPT !.snap.replaced = kept]
    BY <1>2 DEF CommitEntry
  <2>3. kept \in SUBSET Labels
    BY <2>1 DEF Snapshots
  <2>4. [req[q] EXCEPT !.snap.replaced = kept] \in [op : Operations, snap : Snapshots]
    BY <2>1, <2>3 DEF Snapshots
  <2>  QED BY <2>2, <2>4, NoneAssumption
<1>3. \A q \in Requests : q = r \/ req[q] = Idle => req'[q] = Idle
  BY DEF CommitEntry
<1>4. req' \in [Requests -> [op : Operations, snap : Snapshots] \cup {Idle}]
  <2>1. \A q \in Requests : req'[q] \in [op : Operations, snap : Snapshots] \cup {Idle}
    BY <1>2, <1>3
  <2>2. req' = [q \in Requests |-> req'[q]]
    BY DEF CommitEntry
  <2>  QED BY <2>1, <2>2
<1>5. lock' # NoRequest => req'[lock'] # Idle
  BY <1>1, <1>2 DEF CommitEntry, TypeOK
<1>  QED BY <1>1, <1>4, <1>5 DEF TypeOK

LEMMA BeginType ==
    ASSUME TypeOK, NEW r \in Requests, NEW op \in Operations, Begin(r, op)
    PROVE  TypeOK'
<1>1. op.proof \in Proofs /\ op.proof \in db.exists
  BY OperationType DEF Begin, Admitted
<1>2. SnapshotOf(op.proof) \in Snapshots
  BY <1>1 DEF TypeOK, Databases, Snapshots, SnapshotOf, WarrantedBy
<1>3. [op |-> op, snap |-> SnapshotOf(op.proof)] # Idle
  BY <1>2, NoneAssumption
<1>  QED BY <1>2, <1>3 DEF TypeOK, Begin

LEMMA CreateType ==
    ASSUME TypeOK, NEW op \in Operations, Create(op) PROVE TypeOK'
<1>1. op.proof \in Proofs /\ op.text \in Texts
  BY OperationType DEF Create
<1>2. db' \in Databases
  BY <1>1 DEF Create, TypeOK, Databases
<1>3. \A p \in db'.exists : db'.source[p] # NoText
  BY <1>1, OperationAssumption DEF Create, TypeOK, Databases
<1>  QED BY <1>2, <1>3 DEF Create, TypeOK

\* The parts of a request that has been granted what it waits for.
LEMMA GrantedType ==
    ASSUME TypeOK, NEW r \in Requests, NEW kind, Granted(r, kind)
    PROVE  /\ req[r].op \in Operations
           /\ req[r].op.kind = kind
           /\ req[r].op.proof \in Proofs
           /\ req[r].snap \in Snapshots
           /\ req[r].snap.source \in Texts
           /\ req[r].snap.verdict \in Verdicts
<1>1. req[r].op \in Operations /\ req[r].snap \in Snapshots /\ req[r].op.kind = kind
  BY DEF TypeOK, Granted
<1>  QED BY <1>1, OperationType DEF Snapshots

LEMMA FinishVerifyCommits ==
    ASSUME TypeOK, NEW r \in Requests, FinishVerify(r)
    PROVE  \E d \in Databases : Commit(r, d) /\ SameRows(db, d)
<1> DEFINE p == req[r].op.proof
           s == req[r].snap
           lines == Check(db, p, s.refs, TextToCheck(db, p, s.source))
           d == RecordVerdict(db, p, s.verdict, lines)
<1>1. /\ p \in Proofs
      /\ s.source \in Texts
      /\ s.verdict \in Verdicts
  BY GrantedType DEF FinishVerify
<1>2. db \in Databases
  BY DEF TypeOK
<1>3. lines \in Lines \cup {NoLines}
  BY <1>1, <1>2, CheckType, TextToCheckType
<1>4. d \in Databases /\ SameRows(db, d)
  BY <1>1, <1>2, <1>3, RecordVerdictType, RecordVerdictFrame
<1>5. Commit(r, d)
  BY DEF FinishVerify
<1> HIDE DEF d
<1>  QED BY <1>4, <1>5

\* PUT references leaves the edges, or gives p those it asked for beside some
\* that p has already.
LEMMA FinishReferencesCommits ==
    ASSUME TypeOK, NEW r \in Requests, FinishReferences(r)
    PROVE  \E d \in Databases :
             /\ Commit(r, d)
             /\ d.exists = db.exists
             /\ d.source = db.source
             /\ \/ d.refs = db.refs
                \/ \E p \in Proofs, targets, added \in SUBSET Proofs :
                     /\ ~WouldCycle(db, p, targets)
                     /\ added \subseteq db.refs[p]
                     /\ d.refs = [db.refs EXCEPT ![p] = added \cup targets]
<1> DEFINE p == req[r].op.proof
           s == req[r].snap
           targets == req[r].op.targets
           added == db.refs[p] \ s.refs
           e == [db EXCEPT !.refs[p] = added \cup targets]
           d == Undo(e, p, s.verdict)
<1>1. /\ p \in Proofs
      /\ targets \in SUBSET Proofs
      /\ s.verdict \in Verdicts
  BY GrantedType, OperationType DEF FinishReferences
<1>2. db \in Databases /\ added \in SUBSET Proofs /\ added \subseteq db.refs[p]
  BY <1>1 DEF TypeOK, Databases
<1>3. \/ Commit(r, db)
      \/ Commit(r, d) /\ ~WouldCycle(db, p, targets)
  BY DEF FinishReferences, Refuse
<1> HIDE DEF added
<1>4. /\ e \in Databases /\ e.exists = db.exists /\ e.source = db.source
      /\ e.refs = [db.refs EXCEPT ![p] = added \cup targets]
  BY <1>1, <1>2 DEF Databases
<1> HIDE DEF e
<1>5. d \in Databases /\ SameRows(e, d)
  BY <1>1, <1>4, UndoType, UndoFrame
<1> HIDE DEF d
<1>6. CASE Commit(r, db)
  BY <1>2, <1>6
<1>7. CASE Commit(r, d) /\ ~WouldCycle(db, p, targets)
  <2>1. /\ d.exists = db.exists /\ d.source = db.source
        /\ d.refs = [db.refs EXCEPT ![p] = added \cup targets]
    BY <1>4, <1>5 DEF SameRows
  <2> HIDE DEF p, targets
  <2>2. \E q \in Proofs, ts, as \in SUBSET Proofs :
          /\ ~WouldCycle(db, q, ts)
          /\ as \subseteq db.refs[q]
          /\ d.refs = [db.refs EXCEPT ![q] = as \cup ts]
    BY <1>1, <1>2, <1>7, <2>1
  <2>3. d \in Databases /\ Commit(r, d)
    BY <1>5, <1>7
  <2>  QED BY <2>1, <2>2, <2>3
<1>  QED BY <1>3, <1>6, <1>7

\* The edit of a source that PATCH and the line editors share.
LEMMA EditType ==
    ASSUME TypeOK, NEW p \in db.exists, NEW loaded \in Verdicts,
           NEW old \in Texts, NEW new \in Texts
    PROVE  LET e == [db EXCEPT !.source[p] = Written(old, new, db.source[p])]
           IN /\ e \in Databases
              /\ Undo(e, p, loaded) \in Databases
              /\ Undo(e, p, loaded).exists = db.exists
              /\ Undo(e, p, loaded).refs = db.refs
              /\ \A q \in db.exists : Undo(e, p, loaded).source[q] # NoText
<1> DEFINE e == [db EXCEPT !.source[p] = Written(old, new, db.source[p])]
<1>1. p \in Proofs
  BY DEF TypeOK, Databases
<1>2. /\ e \in Databases
      /\ e.exists = db.exists
      /\ e.refs = db.refs
      /\ \A q \in db.exists : e.source[q] # NoText
  BY <1>1, OperationAssumption DEF TypeOK, Databases, Written
<1> HIDE DEF e
<1>3. Undo(e, p, loaded) \in Databases /\ SameRows(e, Undo(e, p, loaded))
  BY <1>1, <1>2, UndoType, UndoFrame
<1>4. e \in Databases /\ Undo(e, p, loaded) \in Databases
      /\ Undo(e, p, loaded).exists = db.exists
      /\ Undo(e, p, loaded).refs = db.refs
      /\ \A q \in db.exists : Undo(e, p, loaded).source[q] # NoText
  BY <1>2, <1>3 DEF SameRows
<1>  QED BY <1>4 DEF e

\* Setting publication dates is type correct and touches nothing else.
LEMMA PublicationFrame ==
    ASSUME NEW d \in Databases, NEW ps \in SUBSET Proofs
    PROVE  LET e == [d EXCEPT !.published = ps]
           IN /\ e \in Databases
              /\ e.exists = d.exists /\ e.source = d.source /\ e.refs = d.refs
              /\ e.lines = d.lines /\ e.entry = d.entry
BY DEF Databases

\* What PATCH may commit: the database it found, or one with the rows d of the
\* edit, its verdict recorded or its entry retired, and a new publication date.
LEMMA FinishPatchCommits ==
    ASSUME TypeOK, NEW r \in Requests, FinishPatch(r)
    PROVE  \E d \in Databases :
             /\ Commit(r, d)
             /\ d.exists = db.exists
             /\ d.refs = db.refs
             /\ \A q \in d.exists : d.source[q] # NoText
<1> DEFINE op     == req[r].op
           p      == op.proof
           s      == req[r].snap
           edited == op.text # NoText
           source == IF edited THEN op.text ELSE s.source
           loaded == IF edited THEN "unchecked" ELSE s.verdict
           e      == [db EXCEPT !.source[p] = Written(s.source, op.text, db.source[p])]
           d      == IF edited THEN Undo(e, p, s.verdict) ELSE db
           lines  == Check(d, p, s.refs, TextToCheck(d, p, source))
           v      == RecordVerdict(d, p, loaded, lines)
           w      == IF edited THEN RetirePromotion(d, p, WarrantedBy(d, p))
                               ELSE RetireLoaded(d, p, s)
           vPub   == IF op.publish = "yes" THEN v.published \cup {p} ELSE v.published
           wPub   == IF s.published THEN w.published \ {p} ELSE w.published
<1>1. /\ p \in Proofs /\ p \in db.exists
      /\ op.text \in Texts \cup {NoText}
      /\ s.source \in Texts
      /\ s.verdict \in Verdicts
  BY GrantedType, OperationType DEF FinishPatch
<1>2. source \in Texts /\ loaded \in Verdicts
  BY <1>1 DEF Verdicts
<1>3. /\ d \in Databases
      /\ d.exists = db.exists /\ d.refs = db.refs
      /\ \A q \in d.exists : d.source[q] # NoText
  <2>1. CASE edited
    <3>1. op.text \in Texts
      BY <1>1, <2>1
    <3>  QED BY <1>1, <2>1, <3>1, EditType
  <2>2. CASE ~edited
    BY <2>2 DEF TypeOK
  <2>  QED BY <2>1, <2>2
<1>4. \/ Commit(r, db)
      \/ Commit(r, d)
      \/ Commit(r, [v EXCEPT !.published = vPub])
      \/ Commit(r, [w EXCEPT !.published = wPub])
  BY DEF FinishPatch, Refuse
<1> HIDE DEF d, source, loaded
<1>5. lines \in Lines \cup {NoLines}
  BY <1>1, <1>2, <1>3, CheckType, TextToCheckType
<1> HIDE DEF lines
<1>6. /\ v \in Databases /\ SameRows(d, v)
      /\ w \in Databases /\ SameRows(d, w)
  BY <1>1, <1>2, <1>3, <1>5, RecordVerdictType, RecordVerdictFrame,
     RetirePromotionType, RetirePromotionFrame, RetireLoadedType, RetireLoadedFrame
<1> HIDE DEF v, w
<1>7. vPub \in SUBSET Proofs /\ wPub \in SUBSET Proofs
  BY <1>1, <1>6 DEF Databases
<1> HIDE DEF vPub, wPub
<1>8. CASE Commit(r, db)
  BY <1>8 DEF TypeOK
<1>9. CASE Commit(r, d)
  BY <1>3, <1>9
<1>10. CASE Commit(r, [v EXCEPT !.published = vPub])
  <2> DEFINE u == [v EXCEPT !.published = vPub]
  <2>1. u \in Databases /\ u.exists = v.exists /\ u.source = v.source
        /\ u.refs = v.refs
    BY <1>6, <1>7, PublicationFrame
  <2>2. Commit(r, u)
    BY <1>10
  <2> HIDE DEF u
  <2>3. /\ u.exists = db.exists /\ u.refs = db.refs
        /\ \A q \in u.exists : u.source[q] # NoText
    BY <1>3, <1>6, <2>1 DEF SameRows
  <2>  QED BY <2>1, <2>2, <2>3
<1>11. CASE Commit(r, [w EXCEPT !.published = wPub])
  <2> DEFINE u == [w EXCEPT !.published = wPub]
  <2>1. u \in Databases /\ u.exists = w.exists /\ u.source = w.source
        /\ u.refs = w.refs
    BY <1>6, <1>7, PublicationFrame
  <2>2. Commit(r, u)
    BY <1>11
  <2> HIDE DEF u
  <2>3. /\ u.exists = db.exists /\ u.refs = db.refs
        /\ \A q \in u.exists : u.source[q] # NoText
    BY <1>3, <1>6, <2>1 DEF SameRows
  <2>  QED BY <2>1, <2>2, <2>3
<1>  QED BY <1>4, <1>8, <1>9, <1>10, <1>11

LEMMA FinishPromoteCommits ==
    ASSUME TypeOK, NEW r \in Requests, FinishPromote(r)
    PROVE  \E d \in Databases :
             /\ Commit(r, d) \/ \E l : CommitEntry(r, d, l)
             /\ SameRows(db, d)
<1> DEFINE p == req[r].op.proof
           l == req[r].op.label
           s == req[r].snap
           lines == Check(db, p, s.refs, TextToCheck(db, p, s.source))
           checked == RecordVerdict(db, p, s.verdict, lines)
           retired == RetirePromotion(checked, p, WarrantedBy(checked, p))
           cleared == InvalidateCitations(retired, {l})
           new     == [by |-> p, states |-> Concludes[lines.text]]
<1>1. /\ p \in Proofs
      /\ l \in Labels
      /\ s.source \in Texts
      /\ s.verdict \in Verdicts
  BY GrantedType, OperationType DEF FinishPromote
<1>2. db \in Databases
  BY DEF TypeOK
<1>3. lines \in Lines \cup {NoLines}
  BY <1>1, <1>2, CheckType, TextToCheckType
<1>4. \/ Commit(r, db)
      \/ /\ IsUsableLemma(checked, p)
         /\ CommitEntry(r, [cleared EXCEPT !.entry[l] = new], l)
  BY DEF FinishPromote, Refuse
<1>5. IsUsableLemma(checked, p) => lines # NoLines
  BY <1>1, <1>2 DEF IsUsableLemma, RecordVerdict, Databases
<1> HIDE DEF lines
<1>6. checked \in Databases /\ SameRows(db, checked)
  BY <1>1, <1>2, <1>3, RecordVerdictType, RecordVerdictFrame
<1> HIDE DEF checked
<1>7. retired \in Databases /\ SameRows(checked, retired)
  BY <1>1, <1>6, RetirePromotionType, RetirePromotionFrame
<1> HIDE DEF retired
<1>8. cleared \in Databases /\ SameRows(retired, cleared)
  BY <1>7, InvalidateType, InvalidateFrame
<1> HIDE DEF cleared
<1>9. lines # NoLines => new \in Entries
  BY <1>1, <1>3, TextAssumption DEF Lines, Entries
<1> HIDE DEF new
<1>10. CASE Commit(r, db)
  BY <1>2, <1>10 DEF SameRows
<1>11. CASE IsUsableLemma(checked, p) /\ CommitEntry(r, [cleared EXCEPT !.entry[l] = new], l)
  <2>1. new \in Entries
    BY <1>5, <1>9, <1>11
  <2>2. /\ [cleared EXCEPT !.entry[l] = new] \in Databases
        /\ SameRows(cleared, [cleared EXCEPT !.entry[l] = new])
    BY <1>1, <1>8, <2>1 DEF Databases, SameRows
  <2>  QED BY <1>6, <1>7, <1>8, <1>11, <2>2 DEF SameRows
<1>  QED BY <1>4, <1>10, <1>11

LEMMA FinishRewriteCommits ==
    ASSUME TypeOK, NEW r \in Requests, FinishRewrite(r)
    PROVE  \E d \in Databases :
             /\ Commit(r, d)
             /\ d.exists = db.exists
             /\ d.refs = db.refs
             /\ \A q \in d.exists : d.source[q] # NoText
<1> DEFINE p     == req[r].op.proof
           text  == req[r].op.text
           s     == req[r].snap
           lines == Check(db, p, s.refs, text)
           d     == Undo([db EXCEPT !.source[p] = Written(s.source, text, db.source[p])],
                         p, s.verdict)
           v     == RecordVerdict(d, p, "unchecked", lines)
<1>1. /\ p \in Proofs /\ p \in db.exists
      /\ text \in Texts
      /\ s.source \in Texts
      /\ s.verdict \in Verdicts
      /\ "unchecked" \in Verdicts
  BY GrantedType, OperationType DEF FinishRewrite, Verdicts
<1>2. db \in Databases
  BY DEF TypeOK
<1>3. lines \in Lines \cup {NoLines}
  BY <1>1, <1>2, CheckType
<1>4. /\ d \in Databases
      /\ d.exists = db.exists /\ d.refs = db.refs
      /\ \A q \in d.exists : d.source[q] # NoText
  BY <1>1, EditType
<1>5. Commit(r, db) \/ Commit(r, v)
  BY DEF FinishRewrite, Refuse
<1> HIDE DEF lines, d
<1>6. v \in Databases /\ SameRows(d, v)
  BY <1>1, <1>3, <1>4, RecordVerdictType, RecordVerdictFrame
<1> HIDE DEF v
<1>7. CASE Commit(r, db)
  BY <1>7 DEF TypeOK
<1>8. CASE Commit(r, v)
  BY <1>4, <1>6, <1>8 DEF SameRows
<1>  QED BY <1>5, <1>7, <1>8

LEMMA FinishRetireCommits ==
    ASSUME TypeOK, NEW r \in Requests, FinishRetire(r)
    PROVE  \E d \in Databases : Commit(r, d) /\ SameRows(db, d)
<1>1. req[r].op.proof \in Proofs
  BY GrantedType DEF FinishRetire
<1>  QED BY <1>1, RetireLoadedType, RetireLoadedFrame DEF FinishRetire, TypeOK

\* DELETE removes the row and every edge to and from it.
LEMMA FinishDeleteCommits ==
    ASSUME TypeOK, NEW r \in Requests, FinishDelete(r)
    PROVE  \E d \in Databases :
             /\ Commit(r, d)
             /\ \A q \in Proofs : d.refs[q] \subseteq db.refs[q]
             /\ \A q \in d.exists : d.source[q] # NoText
<1> DEFINE p == req[r].op.proof
           i == InvalidateDependents(db, p)
           e == RetirePromotion(i, p, WarrantedBy(i, p))
           d == Without(e, p)
<1>1. p \in Proofs
  BY GrantedType DEF FinishDelete
<1>2. db \in Databases /\ \A q \in db.exists : db.source[q] # NoText
  BY DEF TypeOK
<1>3. Commit(r, d)
  BY DEF FinishDelete
<1>4. i \in Databases /\ SameRows(db, i)
  BY <1>2, InvalidateType, InvalidateFrame
<1> HIDE DEF i
<1>5. e \in Databases /\ SameRows(i, e)
  BY <1>1, <1>4, RetirePromotionType, RetirePromotionFrame
<1> HIDE DEF e
<1>6. SameRows(db, e)
  BY <1>4, <1>5 DEF SameRows
<1>7. d \in Databases
  BY <1>1, <1>5, ZenonT(60) DEF Without, Databases, Verdicts
<1>8. \A q \in Proofs : d.refs[q] \subseteq e.refs[q]
  BY <1>1, <1>5 DEF Without, Databases
<1>9. /\ d.exists = e.exists \ {p}
      /\ \A q \in d.exists : d.source[q] = e.source[q]
  BY <1>1, <1>5 DEF Without, Databases
<1> HIDE DEF d
<1>  QED BY <1>2, <1>3, <1>6, <1>7, <1>8, <1>9 DEF SameRows

LEMMA FinishType ==
    ASSUME TypeOK, NEW r \in Requests, Finish(r) PROVE TypeOK'
<1>1. db \in Databases /\ \A q \in db.exists : db.source[q] # NoText
  BY DEF TypeOK
<1>2. CASE FinishGone(r)
  BY <1>1, <1>2, CommitType DEF FinishGone, Refuse
<1>3. CASE FinishVerify(r)
  BY <1>1, <1>3, FinishVerifyCommits, CommitType DEF SameRows
<1>4. CASE FinishPatch(r)
  BY <1>4, FinishPatchCommits, CommitType
<1>5. CASE FinishReferences(r)
  BY <1>1, <1>5, FinishReferencesCommits, CommitType
<1>6. CASE FinishPromote(r)
  BY <1>1, <1>6, FinishPromoteCommits, CommitType, CommitEntryType DEF SameRows
<1>7. CASE FinishRewrite(r)
  BY <1>7, FinishRewriteCommits, CommitType
<1>8. CASE FinishRetire(r)
  BY <1>1, <1>8, FinishRetireCommits, CommitType DEF SameRows
<1>9. CASE FinishDelete(r)
  BY <1>9, FinishDeleteCommits, CommitType
<1>  QED BY <1>2, <1>3, <1>4, <1>5, <1>6, <1>7, <1>8, <1>9 DEF Finish

\* Every reachable state has its types: every helper that a request composes
\* returns a database, and every check has a source to read.
THEOREM TypeCorrect == Spec => []TypeOK
<1>1. Init => TypeOK
  BY NoneAssumption DEF Init, TypeOK, Databases, Verdicts
<1>2. TypeOK /\ [Next]_vars => TypeOK'
  <2> SUFFICES ASSUME TypeOK, [Next]_vars PROVE TypeOK'
    OBVIOUS
  <2>1. CASE \E op \in Operations : Create(op)
    BY <2>1, CreateType
  <2>2. CASE \E r \in Requests, op \in Operations : Begin(r, op)
    BY <2>2, BeginType
  <2>3. ASSUME NEW r \in Requests, Enter(r) PROVE TypeOK'
    BY <2>3 DEF Enter, TypeOK
  <2>4. ASSUME NEW r \in Requests, Finish(r) PROVE TypeOK'
    BY <2>4, FinishType
  <2>5. CASE UNCHANGED vars
    BY <2>5 DEF vars, TypeOK
  <2>  QED BY <2>1, <2>2, <2>3, <2>4, <2>5 DEF Next
<1>  QED BY <1>1, <1>2, PTL DEF Spec
-----------------------------------------------------------------------------
(* The reference graph.                                                    *)

NoCycle(refs) ==
    \A S \in (SUBSET Proofs) \ {{}} : \E p \in S : refs[p] \cap S = {}

\* Fewer edges make no cycle.
LEMMA FewerEdges ==
    ASSUME NEW refs, NEW fewer, NoCycle(refs),
           \A p \in Proofs : fewer[p] \subseteq refs[p]
    PROVE  NoCycle(fewer)
<1> SUFFICES ASSUME NEW S \in (SUBSET Proofs) \ {{}}
             PROVE  \E p \in S : fewer[p] \cap S = {}
  BY DEF NoCycle
<1>1. PICK p \in S : refs[p] \cap S = {}
  BY DEF NoCycle
<1>  QED BY <1>1

\* Replacing the edges of p by ones to targets that do not reach p, beside some
\* it had, makes no cycle.  A cycle S of the new graph either avoids all that
\* the targets reach, and then was there before, or meets it, and then the part
\* it shares with what they reach was a cycle before.
LEMMA NewEdges ==
    ASSUME NEW refs \in [Proofs -> SUBSET Proofs], NoCycle(refs),
           NEW p \in Proofs, NEW targets \in SUBSET Proofs,
           NEW added \in SUBSET Proofs, added \subseteq refs[p],
           p \notin ReachableFrom([refs EXCEPT ![p] = {}], targets)
    PROVE  NoCycle([refs EXCEPT ![p] = added \cup targets])
<1> DEFINE new == [refs EXCEPT ![p] = added \cup targets]
<1> SUFFICES ASSUME NEW S \in (SUBSET Proofs) \ {{}},
                    \A q \in S : new[q] \cap S # {}
             PROVE  FALSE
  BY DEF NoCycle
<1>1. PICK R \in SUBSET Proofs :
          /\ targets \subseteq R
          /\ \A q \in R : [refs EXCEPT ![p] = {}][q] \subseteq R
          /\ p \notin R
  BY DEF ReachableFrom
<1>2. \A q \in R : refs[q] \subseteq R
  BY <1>1
<1>3. \A q \in S \ {p} : refs[q] \cap S # {}
  OBVIOUS
<1>4. CASE S \cap R = {}
  <2>1. \A q \in S : refs[q] \cap S # {}
    BY <1>1, <1>3, <1>4
  <2>  QED BY <2>1 DEF NoCycle
<1>5. CASE S \cap R # {}
  <2>1. \A q \in S \cap R : refs[q] \cap (S \cap R) # {}
    BY <1>1, <1>2, <1>3
  <2>2. S \cap R \in (SUBSET Proofs) \ {{}}
    BY <1>5
  <2>  QED BY <2>1, <2>2 DEF NoCycle
<1>  QED BY <1>4, <1>5

LEMMA CommitEdges ==
    ASSUME NoCycle(db.refs), NEW r, NEW d, Commit(r, d) \/ \E l : CommitEntry(r, d, l),
           \A p \in Proofs : d.refs[p] \subseteq db.refs[p]
    PROVE  NoCycle(db'.refs)
BY FewerEdges DEF Commit, CommitEntry

LEMMA FinishAcyclic ==
    ASSUME TypeOK, NoCycle(db.refs), NEW r \in Requests, Finish(r)
    PROVE  NoCycle(db'.refs)
<1>1. CASE FinishGone(r)
  BY <1>1, CommitEdges DEF FinishGone, Refuse
<1>2. CASE FinishVerify(r)
  BY <1>2, FinishVerifyCommits, CommitEdges DEF SameRows
<1>3. CASE FinishPatch(r)
  BY <1>3, FinishPatchCommits, CommitEdges
<1>4. CASE FinishReferences(r)
  <2>1. PICK d \in Databases :
          /\ Commit(r, d)
          /\ \/ d.refs = db.refs
             \/ \E p \in Proofs, targets, added \in SUBSET Proofs :
                  /\ ~WouldCycle(db, p, targets)
                  /\ added \subseteq db.refs[p]
                  /\ d.refs = [db.refs EXCEPT ![p] = added \cup targets]
    BY <1>4, FinishReferencesCommits
  <2>2. db.refs \in [Proofs -> SUBSET Proofs]
    BY DEF TypeOK, Databases
  <2>3. CASE d.refs = db.refs
    BY <2>1, <2>3, CommitEdges
  <2>4. ASSUME NEW p \in Proofs, NEW targets \in SUBSET Proofs,
               NEW added \in SUBSET Proofs,
               ~WouldCycle(db, p, targets),
               added \subseteq db.refs[p],
               d.refs = [db.refs EXCEPT ![p] = added \cup targets]
        PROVE  NoCycle(db'.refs)
    <3>1. NoCycle([db.refs EXCEPT ![p] = added \cup targets])
      BY <2>2, <2>4, NewEdges DEF WouldCycle
    <3>  QED BY <2>1, <2>4, <3>1 DEF Commit
  <2>  QED BY <2>1, <2>3, <2>4
<1>5. CASE FinishPromote(r)
  BY <1>5, FinishPromoteCommits, CommitEdges DEF SameRows
<1>6. CASE FinishRewrite(r)
  BY <1>6, FinishRewriteCommits, CommitEdges
<1>7. CASE FinishRetire(r)
  BY <1>7, FinishRetireCommits, CommitEdges DEF SameRows
<1>8. CASE FinishDelete(r)
  BY <1>8, FinishDeleteCommits, CommitEdges
<1>  QED BY <1>1, <1>2, <1>3, <1>4, <1>5, <1>6, <1>7, <1>8 DEF Finish

\* The reference graph never has a cycle, however many requests replace
\* references at once and whatever links each of them had loaded.
THEOREM GraphAcyclic == Spec => []Acyclic
<1>1. Init => Acyclic
  BY DEF Init, Acyclic
<1>2. TypeOK /\ Acyclic /\ [Next]_vars => Acyclic'
  <2> SUFFICES ASSUME TypeOK, NoCycle(db.refs), [Next]_vars PROVE NoCycle(db'.refs)
    BY DEF Acyclic, NoCycle
  <2>1. ASSUME NEW op \in Operations, Create(op) PROVE NoCycle(db'.refs)
    <3>1. db'.refs = db.refs
      BY <2>1 DEF Create, TypeOK, Databases
    <3>  QED BY <3>1
  <2>2. ASSUME NEW r \in Requests, Finish(r) PROVE NoCycle(db'.refs)
    BY <2>2, FinishAcyclic
  <2>3. CASE UNCHANGED db
    BY <2>3
  <2>  QED BY <2>1, <2>2, <2>3 DEF Next, Begin, Enter, vars
<1>  QED BY <1>1, <1>2, TypeCorrect, PTL DEF Spec

-----------------------------------------------------------------------------
(* The library: citations and warrants, however requests overlap.          *)

LinesStand(d) ==
    \A p \in Proofs : d.lines[p] # NoLines =>
        \A c \in d.lines[p].theorems :
            d.entry[c[1]] # NoEntry /\ d.entry[c[1]].states = c[2]

WarrantsStand(d) == \A l \in Labels : d.entry[l] # NoEntry => d.entry[l].by \in d.exists

\* The two facts, of one database: together they are inductive.
Standing(d) == LinesStand(d) /\ WarrantsStand(d)
-----------------------------------------------------------------------------
(* The helpers.                                                            *)

LEMMA CitationType ==
    ASSUME NEW d \in Databases, NEW p \in Proofs, d.lines[p] # NoLines
    PROVE  d.lines[p].theorems \in SUBSET (Labels \X Statements)
BY DEF Databases, Lines

LEMMA ClearVerdictsStands ==
    ASSUME NEW d \in Databases, Standing(d), NEW ps
    PROVE  Standing(ClearVerdicts(d, ps))
<1> DEFINE e == ClearVerdicts(d, ps)
<1>1. e.entry = d.entry /\ e.exists = d.exists
  BY DEF ClearVerdicts, Databases
<1>2. \A p \in Proofs : e.lines[p] \in {d.lines[p], NoLines}
  BY DEF ClearVerdicts, Databases
<1> HIDE DEF e
<1>  QED BY <1>1, <1>2 DEF Standing, LinesStand, WarrantsStand, e

\* Invalidating the citations of labels leaves no stored line that cites one.
LEMMA InvalidateStands ==
    ASSUME NEW d \in Databases, Standing(d), NEW labels, NEW q
    PROVE  /\ Standing(InvalidateCitations(d, labels))
           /\ Standing(InvalidateDependents(d, q))
           /\ \A p \in Proofs : InvalidateCitations(d, labels).lines[p] # NoLines =>
                \A c \in InvalidateCitations(d, labels).lines[p].theorems :
                    c[1] \notin labels
<1>1. \A p \in Proofs : InvalidateCitations(d, labels).lines[p] # NoLines =>
         /\ InvalidateCitations(d, labels).lines[p] = d.lines[p]
         /\ p \notin Citing(d, labels)
  BY DEF InvalidateCitations, ClearVerdicts, Databases
<1>2. \A p \in Proofs : p \notin Citing(d, labels) /\ d.lines[p] # NoLines =>
         \A c \in d.lines[p].theorems : c[1] \notin labels
  BY DEF Citing
<1>  QED BY <1>1, <1>2, ClearVerdictsStands DEF InvalidateCitations, InvalidateDependents

LEMMA DiscardCheckStands ==
    ASSUME NEW d \in Databases, Standing(d), NEW p \in Proofs, NEW loaded
    PROVE  Standing(DiscardCheck(d, p, loaded))
<1> DEFINE e == DiscardCheck(d, p, loaded)
<1>1. e.entry = d.entry /\ e.exists = d.exists
  BY DEF DiscardCheck, Databases
<1>2. \A q \in Proofs : e.lines[q] \in {d.lines[q], NoLines}
  BY DEF DiscardCheck, Databases
<1> HIDE DEF e
<1>  QED BY <1>1, <1>2 DEF Standing, LinesStand, WarrantsStand, e

\* Retiring entries leaves no citation of them, and every entry that p warrants
\* among labels is gone.
LEMMA RetirePromotionStands ==
    ASSUME NEW d \in Databases, Standing(d), NEW p \in Proofs, NEW labels
    PROVE  /\ Standing(RetirePromotion(d, p, labels))
           /\ \A l \in Labels :
                RetirePromotion(d, p, labels).entry[l] =
                    IF l \in labels /\ l \in WarrantedBy(d, p)
                    THEN NoEntry ELSE d.entry[l]
<1> DEFINE e == InvalidateCitations(d, labels)
           f == [e EXCEPT !.entry = [l \in Labels |->
                    IF l \in labels /\ l \in WarrantedBy(d, p) THEN NoEntry ELSE e.entry[l]]]
<1>1. e \in Databases /\ SameRows(d, e) /\ e.entry = d.entry
  BY InvalidateType, InvalidateFrame
<1>2. Standing(e)
  BY InvalidateStands
<1>3. \A q \in Proofs : e.lines[q] # NoLines =>
        \A c \in e.lines[q].theorems : c[1] \notin labels
  BY InvalidateStands
<1>4. \A q \in Proofs : e.lines[q] # NoLines =>
        e.lines[q].theorems \in SUBSET (Labels \X Statements)
  BY <1>1, CitationType
<1> HIDE DEF e
<1>5. /\ f.lines = e.lines
      /\ f.exists = e.exists
      /\ \A l \in Labels : f.entry[l] = IF l \in labels /\ l \in WarrantedBy(d, p)
                                        THEN NoEntry ELSE e.entry[l]
  BY <1>1 DEF Databases
<1>6. RetirePromotion(d, p, labels) = f
  BY DEF RetirePromotion, e
<1> HIDE DEF f
<1>7. LinesStand(f)
  <2> SUFFICES ASSUME NEW q \in Proofs, f.lines[q] # NoLines,
                      NEW c \in f.lines[q].theorems
               PROVE  f.entry[c[1]] # NoEntry /\ f.entry[c[1]].states = c[2]
    BY DEF LinesStand
  <2>1. c[1] \in Labels /\ c[1] \notin labels
    BY <1>3, <1>4, <1>5
  <2>2. e.entry[c[1]] # NoEntry /\ e.entry[c[1]].states = c[2]
    BY <1>2, <1>5 DEF Standing, LinesStand
  <2>  QED BY <1>5, <2>1, <2>2
<1>8. WarrantsStand(f)
  BY <1>2, <1>5 DEF Standing, WarrantsStand
<1>  QED BY <1>1, <1>5, <1>6, <1>7, <1>8 DEF Standing

LEMMA RetireLoadedStands ==
    ASSUME NEW d \in Databases, Standing(d), NEW p \in Proofs, NEW s
    PROVE  Standing(RetireLoaded(d, p, s))
BY RetirePromotionStands, RetirePromotionType, InvalidateStands DEF RetireLoaded

LEMMA UndoStands ==
    ASSUME NEW d \in Databases, Standing(d), NEW p \in Proofs, NEW loaded \in Verdicts
    PROVE  /\ Standing(Undo(d, p, loaded))
           /\ \A l \in Labels : Undo(d, p, loaded).entry[l] =
                                IF l \in WarrantedBy(d, p) THEN NoEntry ELSE d.entry[l]
<1> DEFINE f == DiscardCheck(d, p, loaded)
           e == InvalidateDependents(f, p)
<1>1. f \in Databases /\ Standing(f) /\ f.entry = d.entry
  BY DiscardCheckType, DiscardCheckStands DEF DiscardCheck, Databases
<1> HIDE DEF f
<1>2. e \in Databases /\ Standing(e) /\ e.entry = d.entry
  BY <1>1, InvalidateType, InvalidateStands, InvalidateFrame
<1>3. Undo(d, p, loaded) = RetirePromotion(e, p, WarrantedBy(e, p))
  BY DEF Undo, f
<1> HIDE DEF e
<1>4. WarrantedBy(e, p) = WarrantedBy(d, p)
  BY <1>2 DEF WarrantedBy
<1>  QED BY <1>2, <1>3, <1>4, RetirePromotionStands

\* Lines that cite only entries the library has can be stored.
LEMMA RecordVerdictStands ==
    ASSUME NEW d \in Databases, Standing(d), NEW p \in Proofs, NEW loaded, NEW lines,
           lines # NoLines => \A c \in lines.theorems :
               d.entry[c[1]] # NoEntry /\ d.entry[c[1]].states = c[2]
    PROVE  Standing(RecordVerdict(d, p, loaded, lines))
<1> DEFINE e == RecordVerdict(d, p, loaded, lines)
<1>1. e.entry = d.entry /\ e.exists = d.exists
  BY DEF RecordVerdict, Databases
<1>2. \A q \in Proofs : e.lines[q] = IF q = p THEN lines ELSE d.lines[q]
  BY DEF RecordVerdict, Databases
<1> HIDE DEF e
<1>  QED BY <1>1, <1>2 DEF Standing, LinesStand, WarrantsStand, e

\* What a check resolved to a library entry, the library has.
LEMMA CheckStands ==
    ASSUME NEW d, NEW p, NEW refs, NEW text, Check(d, p, refs, text) # NoLines
    PROVE  \A c \in Check(d, p, refs, text).theorems :
               d.entry[c[1]] # NoEntry /\ d.entry[c[1]].states = c[2]
BY DEF Check
-----------------------------------------------------------------------------
(* The requests.                                                           *)

\* Rows that agree on the lines, the entries and who exists stand alike.
LEMMA SameStands ==
    ASSUME NEW d, NEW e, Standing(d),
           e.lines = d.lines, e.entry = d.entry, e.exists = d.exists
    PROVE  Standing(e)
BY DEF Standing, LinesStand, WarrantsStand

LEMMA VerifyStands ==
    ASSUME TypeOK, Standing(db), NEW r \in Requests, FinishVerify(r)
    PROVE  Standing(db')
<1>1. req[r].op.proof \in Proofs /\ db \in Databases
  BY GrantedType DEF FinishVerify, TypeOK
<1>  QED BY <1>1, CheckStands, RecordVerdictStands DEF FinishVerify, Commit

LEMMA PatchStands ==
    ASSUME TypeOK, Standing(db), NEW r \in Requests, FinishPatch(r)
    PROVE  Standing(db')
<1> DEFINE op     == req[r].op
           p      == op.proof
           s      == req[r].snap
           edited == op.text # NoText
           source == IF edited THEN op.text ELSE s.source
           loaded == IF edited THEN "unchecked" ELSE s.verdict
           e      == [db EXCEPT !.source[p] = Written(s.source, op.text, db.source[p])]
           d      == IF edited THEN Undo(e, p, s.verdict) ELSE db
           lines  == Check(d, p, s.refs, TextToCheck(d, p, source))
           v      == RecordVerdict(d, p, loaded, lines)
           w      == IF edited THEN RetirePromotion(d, p, WarrantedBy(d, p))
                               ELSE RetireLoaded(d, p, s)
           vPub   == IF op.publish = "yes" THEN v.published \cup {p} ELSE v.published
           wPub   == IF s.published THEN w.published \ {p} ELSE w.published
<1>1. /\ p \in Proofs /\ p \in db.exists /\ db \in Databases
      /\ op.text \in Texts \cup {NoText}
      /\ s.source \in Texts
      /\ s.verdict \in Verdicts
  BY GrantedType, OperationType DEF FinishPatch, TypeOK
<1>2. source \in Texts /\ loaded \in Verdicts
  BY <1>1 DEF Verdicts
<1>3. d \in Databases /\ Standing(d)
  <2>1. CASE edited
    <3>1. e \in Databases
      BY <1>1, <2>1, EditType
    <3>2. Standing(e)
      BY <1>1, SameStands DEF Databases
    <3> HIDE DEF e
    <3>  QED BY <1>1, <2>1, <3>1, <3>2, UndoStands, UndoType
  <2>2. CASE ~edited
    BY <1>1, <2>2
  <2>  QED BY <2>1, <2>2
<1>4. \/ db' = db
      \/ db' = d
      \/ db' = [v EXCEPT !.published = vPub]
      \/ db' = [w EXCEPT !.published = wPub]
  BY DEF FinishPatch, Refuse, Commit
<1> HIDE DEF d, source, loaded
<1>5. /\ v \in Databases /\ Standing(v)
      /\ w \in Databases /\ Standing(w)
  <2>1. lines \in Lines \cup {NoLines}
    BY <1>1, <1>2, <1>3, CheckType, TextToCheckType
  <2>2. v \in Databases /\ w \in Databases
    BY <1>1, <1>2, <1>3, <2>1, RecordVerdictType, RetirePromotionType, RetireLoadedType
  <2>3. Standing(v)
    BY <1>1, <1>3, CheckStands, RecordVerdictStands
  <2>4. Standing(w)
    BY <1>1, <1>3, RetirePromotionStands, RetireLoadedStands
  <2>  QED BY <2>2, <2>3, <2>4
<1> HIDE DEF v, w, vPub, wPub
<1>6. /\ Standing([v EXCEPT !.published = vPub])
      /\ Standing([w EXCEPT !.published = wPub])
  <2>1. \A u \in Databases : \A ps : Standing(u) => Standing([u EXCEPT !.published = ps])
    BY SameStands DEF Databases
  <2>  QED BY <1>5, <2>1
<1>  QED BY <1>3, <1>4, <1>6

LEMMA ReferencesStand ==
    ASSUME TypeOK, Standing(db), NEW r \in Requests, FinishReferences(r)
    PROVE  Standing(db')
<1> DEFINE p == req[r].op.proof
           s == req[r].snap
           e == [db EXCEPT !.refs[p] = (db.refs[p] \ s.refs) \cup req[r].op.targets]
<1>1. /\ p \in Proofs /\ db \in Databases
      /\ req[r].op.targets \in SUBSET Proofs
      /\ s.verdict \in Verdicts
  BY GrantedType, OperationType DEF FinishReferences, TypeOK
<1>2. e \in Databases /\ Standing(e)
  BY <1>1, SameStands DEF Databases
<1>3. db' = db \/ db' = Undo(e, p, s.verdict)
  BY DEF FinishReferences, Refuse, Commit
<1> HIDE DEF e
<1>  QED BY <1>1, <1>2, <1>3, UndoStands

\* A label changes what it states only after every line that cites it is gone.
LEMMA PromoteStands ==
    ASSUME TypeOK, Standing(db), NEW r \in Requests, FinishPromote(r)
    PROVE  Standing(db')
<1> DEFINE p == req[r].op.proof
           l == req[r].op.label
           s == req[r].snap
           lines == Check(db, p, s.refs, TextToCheck(db, p, s.source))
           checked == RecordVerdict(db, p, s.verdict, lines)
           retired == RetirePromotion(checked, p, WarrantedBy(checked, p))
           cleared == InvalidateCitations(retired, {l})
           new     == [by |-> p, states |-> Concludes[lines.text]]
           after   == [cleared EXCEPT !.entry[l] = new]
<1>1. /\ p \in Proofs /\ p \in db.exists
      /\ l \in Labels
      /\ s.source \in Texts
      /\ s.verdict \in Verdicts
      /\ db \in Databases
  BY GrantedType, OperationType DEF FinishPromote, TypeOK
<1>2. db' = db \/ db' = after
  BY DEF FinishPromote, Refuse, Commit, CommitEntry
<1>3. lines \in Lines \cup {NoLines}
  BY <1>1, CheckType, TextToCheckType
<1>4. checked \in Databases /\ Standing(checked) /\ SameRows(db, checked)
  BY <1>1, <1>3, CheckStands, RecordVerdictStands, RecordVerdictType, RecordVerdictFrame
<1> HIDE DEF lines, checked
<1>5. retired \in Databases /\ Standing(retired) /\ SameRows(checked, retired)
  BY <1>1, <1>4, RetirePromotionType, RetirePromotionFrame, RetirePromotionStands
<1> HIDE DEF retired
<1>6. /\ cleared \in Databases /\ Standing(cleared) /\ SameRows(retired, cleared)
      /\ \A q \in Proofs : cleared.lines[q] # NoLines =>
            \A c \in cleared.lines[q].theorems : c[1] # l
  BY <1>5, InvalidateType, InvalidateFrame, InvalidateStands
<1>7. p \in cleared.exists
  BY <1>1, <1>4, <1>5, <1>6 DEF SameRows
<1>8. \A q \in Proofs : cleared.lines[q] # NoLines =>
        cleared.lines[q].theorems \in SUBSET (Labels \X Statements)
  BY <1>6, CitationType
<1> HIDE DEF cleared
<1>9. /\ after.lines = cleared.lines
      /\ after.exists = cleared.exists
      /\ \A k \in Labels : after.entry[k] = IF k = l THEN new ELSE cleared.entry[k]
  BY <1>1, <1>6 DEF Databases
<1>10. new.by = p
  OBVIOUS
<1> HIDE DEF after, new
<1>11. LinesStand(after)
  <2> SUFFICES ASSUME NEW q \in Proofs, after.lines[q] # NoLines,
                      NEW c \in after.lines[q].theorems
               PROVE  after.entry[c[1]] # NoEntry /\ after.entry[c[1]].states = c[2]
    BY DEF LinesStand
  <2>1. c[1] \in Labels /\ c[1] # l
    BY <1>6, <1>8, <1>9
  <2>2. cleared.entry[c[1]] # NoEntry /\ cleared.entry[c[1]].states = c[2]
    BY <1>6, <1>9 DEF Standing, LinesStand
  <2>  QED BY <1>9, <2>1, <2>2
<1>12. WarrantsStand(after)
  BY <1>6, <1>7, <1>9, <1>10 DEF Standing, WarrantsStand
<1>  QED BY <1>2, <1>11, <1>12 DEF Standing

\* The lines a rewrite stores were checked before its own entries were retired,
\* and cite none of them.
LEMMA RewriteStands ==
    ASSUME TypeOK, Standing(db), NEW r \in Requests, FinishRewrite(r)
    PROVE  Standing(db')
<1> DEFINE p     == req[r].op.proof
           text  == req[r].op.text
           s     == req[r].snap
           lines == Check(db, p, s.refs, text)
           e     == [db EXCEPT !.source[p] = Written(s.source, text, db.source[p])]
           d     == Undo(e, p, s.verdict)
           v     == RecordVerdict(d, p, "unchecked", lines)
<1>1. /\ p \in Proofs /\ p \in db.exists /\ db \in Databases
      /\ text \in Texts
      /\ s.source \in Texts
      /\ s.verdict \in Verdicts
  BY GrantedType, OperationType DEF FinishRewrite, TypeOK
<1>2. \/ db' = db
      \/ /\ db' = v
         /\ lines # NoLines => \A c \in lines.theorems : c[1] \notin WarrantedBy(db, p)
  BY DEF FinishRewrite, Refuse, Commit
<1>3. e \in Databases /\ d \in Databases
  BY <1>1, EditType
<1>4. Standing(e) /\ e.entry = db.entry
  BY <1>1, SameStands DEF Databases
<1>5. lines # NoLines => \A c \in lines.theorems :
        db.entry[c[1]] # NoEntry /\ db.entry[c[1]].states = c[2]
  BY CheckStands
<1>6. lines # NoLines => lines.theorems \in SUBSET (Labels \X Statements)
  BY <1>1, CheckType DEF Lines
<1> HIDE DEF lines, e
<1>7. WarrantedBy(e, p) = WarrantedBy(db, p)
  BY <1>4 DEF WarrantedBy
<1>8. /\ Standing(d)
      /\ \A l \in Labels : l \notin WarrantedBy(db, p) => d.entry[l] = db.entry[l]
  BY <1>1, <1>3, <1>4, <1>7, UndoStands
<1> HIDE DEF d
<1>9. CASE db' = db
  BY <1>9
<1>10. CASE /\ db' = v
            /\ lines # NoLines => \A c \in lines.theorems : c[1] \notin WarrantedBy(db, p)
  <2>1. lines # NoLines => \A c \in lines.theorems :
          d.entry[c[1]] # NoEntry /\ d.entry[c[1]].states = c[2]
    BY <1>5, <1>6, <1>8, <1>10
  <2>  QED BY <1>1, <1>3, <1>8, <1>10, <2>1, RecordVerdictStands
<1>  QED BY <1>2, <1>9, <1>10

LEMMA RetireStands ==
    ASSUME TypeOK, Standing(db), NEW r \in Requests, FinishRetire(r)
    PROVE  Standing(db')
<1>1. req[r].op.proof \in Proofs /\ db \in Databases
  BY GrantedType DEF FinishRetire, TypeOK
<1>  QED BY <1>1, RetireLoadedStands DEF FinishRetire, Commit

\* A proof goes only after the entries it warrants have gone.
LEMMA DeleteStands ==
    ASSUME TypeOK, Standing(db), NEW r \in Requests, FinishDelete(r)
    PROVE  Standing(db')
<1> DEFINE p == req[r].op.proof
           i == InvalidateDependents(db, p)
           e == RetirePromotion(i, p, WarrantedBy(i, p))
           d == Without(e, p)
<1>1. p \in Proofs /\ db \in Databases
  BY GrantedType DEF FinishDelete, TypeOK
<1>2. db' = d
  BY DEF FinishDelete, Commit
<1>3. i \in Databases /\ Standing(i)
  BY <1>1, InvalidateType, InvalidateStands
<1> HIDE DEF i
<1>4. e \in Databases /\ Standing(e)
  BY <1>1, <1>3, RetirePromotionType, RetirePromotionStands
<1>5. \A l \in Labels : e.entry[l] # NoEntry => e.entry[l].by # p
  BY <1>1, <1>3, RetirePromotionStands DEF WarrantedBy
<1> HIDE DEF e
<1>6. /\ d.entry = e.entry
      /\ d.exists = e.exists \ {p}
      /\ \A q \in Proofs : d.lines[q] \in {e.lines[q], NoLines}
  BY <1>1, <1>4 DEF Without, Databases
<1> HIDE DEF d
<1>  QED BY <1>2, <1>4, <1>5, <1>6 DEF Standing, LinesStand, WarrantsStand

LibraryStands == Standing(db)

LEMMA AlwaysStanding == Spec => []LibraryStands
<1>1. Init => LibraryStands
  BY DEF Init, LibraryStands, Standing, LinesStand, WarrantsStand
<1>2. TypeOK /\ LibraryStands /\ [Next]_vars => LibraryStands'
  <2> SUFFICES ASSUME TypeOK, Standing(db), [Next]_vars PROVE Standing(db')
    BY DEF LibraryStands, Standing, LinesStand, WarrantsStand
  <2>1. ASSUME NEW op \in Operations, Create(op) PROVE Standing(db')
    BY <2>1 DEF Create, TypeOK, Databases, Standing, LinesStand, WarrantsStand
  <2>2. ASSUME NEW r \in Requests, Finish(r) PROVE Standing(db')
    BY <2>2, VerifyStands, PatchStands, ReferencesStand, PromoteStands, RewriteStands,
       RetireStands, DeleteStands DEF Finish, FinishGone, Refuse, Commit
  <2>3. CASE UNCHANGED db
    BY <2>3
  <2>  QED BY <2>1, <2>2, <2>3 DEF Next, Begin, Enter, vars
<1>  QED BY <1>1, <1>2, TypeCorrect, PTL DEF Spec

\* A stored citation of the library is good for as long as it is stored, whoever
\* promotes, retires, edits or deletes meanwhile.
THEOREM StoredCitationsStand == Spec => []CitationsStand
<1>1. LibraryStands => CitationsStand
  BY DEF LibraryStands, Standing, LinesStand, CitationsStand
<1>  QED BY <1>1, AlwaysStanding, PTL

\* No entry outlives the proof that warrants it.
THEOREM EntriesHaveProofs == Spec => []WarrantsExist
<1>1. LibraryStands => WarrantsExist
  BY DEF LibraryStands, Standing, WarrantsStand, WarrantsExist
<1>  QED BY <1>1, AlwaysStanding, PTL

-----------------------------------------------------------------------------
(* Requests that do not overlap.                                           *)

\* The lines that a check of t stores when every citation in it is resolved.
FullLines(t) == [text |-> t, ok |-> TRUE, lemmas |-> LemmaCitations[t],
                 theorems |-> TheoremCitations[t]]

\* The lemmas that t cites are among refs, and their checks stand.
LemmasStand(d, refs, t) ==
    \A c \in LemmaCitations[t] :
        c[1] \in refs /\ IsUsableLemma(d, c[1]) /\ Concludes[d.lines[c[1]].text] = c[2]

\* The verdict and the lines of p are of one check of the source p has, and when
\* it stands it resolved everything to what is there now.
CheckedAs(d, p) ==
    /\ d.verdict[p] = VerdictOf(d.lines[p])
    /\ d.lines[p] # NoLines => p \in d.exists /\ d.lines[p].text = d.source[p]
    /\ Stands(d.lines[p]) =>
          /\ Class[d.source[p]] \in {"sound", "warned"}
          /\ d.lines[p] = FullLines(d.source[p])
          /\ LemmasStand(d, d.refs[p], d.source[p])

Checked(d) == \A p \in Proofs : CheckedAs(d, p)

\* What is public exists and rests on what is public.
Public(d) ==
    /\ d.published \subseteq d.exists
    /\ \A p \in d.published : d.refs[p] \subseteq d.published
    /\ \A l \in Labels : d.entry[l] # NoEntry => d.entry[l].by \in d.published

\* The snapshot that a route makes of p in the database d.
SnapshotIn(d, p) ==
    [source    |-> d.source[p],
     refs      |-> d.refs[p],
     lemmasOut |-> d.refs[p] \cap d.published,
     published |-> p \in d.published,
     verdict   |-> d.verdict[p],
     warrants  |-> WarrantedBy(d, p),
     replaced  |-> {}]

\* A request's proof is there and is what it loaded, unless the request deletes
\* it, or checks it while it is deleted; and what its route asked still holds.
RequestCurrent(r) ==
    LET op == req[r].op
        p  == op.proof
    IN /\ op.kind \notin {"verify", "delete"} => p \in db.exists
       /\ p \in db.exists =>
             /\ op.kind # "delete" => req[r].snap = SnapshotIn(db, p)
             /\ op.kind = "promote" => p \in db.published
             /\ \/ op.kind = "delete"
                \/ op.kind = "patch" /\ op.text = NoText /\ op.publish = "no"
                => ~HasPublishedDependents(db, p)

RequestsCurrent == \A r \in Requests : req[r] # Idle => RequestCurrent(r)

\* Together these are inductive when requests do not overlap.
SerialInv == /\ OneAtATime
             /\ Checked(db)
             /\ Public(db)
             /\ RequestsCurrent
-----------------------------------------------------------------------------
(* The graph.                                                              *)

\* What references a member of ps is in ps.
Closed(refs, ps) == \A q \in Proofs : refs[q] \cap ps # {} => q \in ps

\* The roots and everything that rests on them are closed, and nothing in the
\* closure but the roots is without a reference into it.
LEMMA ClosureClosed ==
    ASSUME NEW d \in Databases, NEW roots \in SUBSET Proofs
    PROVE  /\ Closed(d.refs, roots \cup DependentClosure(d, roots))
           /\ \A q \in DependentClosure(d, roots) :
                d.refs[q] \cap (roots \cup DependentClosure(d, roots)) # {}
<1> DEFINE A == roots \cup DependentClosure(d, roots)
<1>1. \A q \in Proofs : q \in A <=>
         \A R \in SUBSET Proofs :
            (/\ roots \subseteq R
             /\ \A u \in Proofs : d.refs[u] \cap R # {} => u \in R) => q \in R
  BY DEF DependentClosure
<1>2. A \in SUBSET Proofs /\ roots \subseteq A
  BY DEF DependentClosure
<1> HIDE DEF A
<1>3. ASSUME NEW q \in Proofs, d.refs[q] \cap A # {} PROVE q \in A
  <2>1. PICK u \in A : u \in d.refs[q]
    BY <1>3
  <2> SUFFICES ASSUME NEW R \in SUBSET Proofs, roots \subseteq R,
                      \A w \in Proofs : d.refs[w] \cap R # {} => w \in R
               PROVE  q \in R
    BY <1>1
  <2>2. u \in R
    BY <1>1, <1>2, <2>1
  <2>  QED BY <2>1, <2>2
<1>4. ASSUME NEW q \in A, q \notin roots, d.refs[q] \cap A = {} PROVE FALSE
  <2>1. A \ {q} \in SUBSET Proofs /\ roots \subseteq A \ {q}
    BY <1>2, <1>4
  <2>2. \A u \in Proofs : d.refs[u] \cap (A \ {q}) # {} => u \in A \ {q}
    BY <1>3, <1>4
  <2>  QED BY <1>1, <1>2, <2>1, <2>2
<1>5. Closed(d.refs, A)
  BY <1>3 DEF Closed
<1>6. \A q \in DependentClosure(d, roots) : q \in A /\ q \notin roots
  BY DEF A, DependentClosure
<1>7. \A q \in DependentClosure(d, roots) : d.refs[q] \cap A # {}
  BY <1>4, <1>6
<1>  QED BY <1>5, <1>7 DEF A

\* In a graph without a cycle p references nothing that rests on p.
LEMMA OwnClosure ==
    ASSUME NEW d \in Databases, NoCycle(d.refs), NEW p \in Proofs
    PROVE  /\ d.refs[p] \cap ({p} \cup DependentClosure(d, {p})) = {}
           /\ Closed(d.refs, DependentClosure(d, {p}))
           /\ \A q \in Proofs : p \in d.refs[q] => q \in DependentClosure(d, {p})
<1> DEFINE A == {p} \cup DependentClosure(d, {p})
<1>1. /\ Closed(d.refs, A)
      /\ \A q \in DependentClosure(d, {p}) : d.refs[q] \cap A # {}
  BY ClosureClosed
<1>2. A \in SUBSET Proofs /\ A # {} /\ p \notin DependentClosure(d, {p})
  BY DEF DependentClosure
<1>3. d.refs[p] \cap A = {}
  <2>1. PICK q \in A : d.refs[q] \cap A = {}
    BY <1>2 DEF NoCycle
  <2>  QED BY <1>1, <2>1
<1>4. \A q \in Proofs : d.refs[q] \cap A # {} => q \in DependentClosure(d, {p})
  BY <1>1, <1>3 DEF Closed
<1>  QED BY <1>3, <1>4 DEF Closed

\* So the references a proof has close no cycle when a check looks.
LEMMA OwnReferences ==
    ASSUME NEW d \in Databases, NoCycle(d.refs), NEW p \in Proofs
    PROVE  ~WouldCycle(d, p, d.refs[p])
<1> DEFINE A == {p} \cup DependentClosure(d, {p})
           R == Proofs \ A
           cut == [d.refs EXCEPT ![p] = {}]
<1>1. d.refs[p] \cap A = {} /\ Closed(d.refs, A)
  BY OwnClosure, ClosureClosed
<1>2. d.refs[p] \subseteq R
  BY <1>1 DEF Databases
<1>3. ASSUME NEW q \in R PROVE cut[q] \subseteq R
  <2>1. cut[q] \in {{}, d.refs[q]} /\ d.refs[q] \subseteq Proofs
    BY DEF Databases
  <2>2. d.refs[q] \cap A = {}
    BY <1>1 DEF Closed
  <2> HIDE DEF cut, A
  <2>  QED BY <2>1, <2>2
<1>4. p \notin R /\ R \in SUBSET Proofs
  OBVIOUS
<1> HIDE DEF R
<1>  QED BY <1>2, <1>3, <1>4 DEF WouldCycle, ReachableFrom
-----------------------------------------------------------------------------
(* Checks.                                                                 *)

\* What t cites of the library is there.
CitationsHold(d, t) ==
    \A c \in TheoremCitations[t] : d.entry[c[1]] # NoEntry /\ d.entry[c[1]].states = c[2]

\* A check stands exactly when it finds everything, and is then full.
LEMMA CheckFull ==
    ASSUME NEW d, NEW p, NEW refs, NEW t \in Texts, ~WouldCycle(d, p, refs)
    PROVE  /\ Stands(Check(d, p, refs, t)) <=>
                /\ Class[t] \in {"sound", "warned"}
                /\ LemmasStand(d, refs, t)
                /\ CitationsHold(d, t)
           /\ Stands(Check(d, p, refs, t)) => Check(d, p, refs, t) = FullLines(t)
           /\ Check(d, p, refs, t) # NoLines => Check(d, p, refs, t).text = t
<1> DEFINE lemmas == {c \in LemmaCitations[t] :
                        /\ c[1] \in refs
                        /\ IsUsableLemma(d, c[1])
                        /\ Concludes[d.lines[c[1]].text] = c[2]}
           theorems == {c \in TheoremCitations[t] :
                          d.entry[c[1]] # NoEntry /\ d.entry[c[1]].states = c[2]}
           lines == [text |-> t,
                     ok |-> /\ Class[t] \in {"sound", "warned"}
                            /\ lemmas = LemmaCitations[t]
                            /\ theorems = TheoremCitations[t],
                     lemmas |-> lemmas,
                     theorems |-> theorems]
<1>1. lemmas = LemmaCitations[t] <=> LemmasStand(d, refs, t)
  BY DEF LemmasStand
<1>2. theorems = TheoremCitations[t] <=> CitationsHold(d, t)
  BY DEF CitationsHold
<1>3. Check(d, p, refs, t) = IF Class[t] = "unreadable" THEN NoLines ELSE lines
  BY DEF Check
<1>4. lines \in Lines
  BY TextAssumption DEF Lines
<1>5. lines # NoLines
  BY <1>4, NoneAssumption
<1> HIDE DEF lemmas, theorems
<1>6. lines.ok => lines = FullLines(t)
  BY DEF FullLines
<1>7. lines.ok <=> /\ Class[t] \in {"sound", "warned"}
                   /\ LemmasStand(d, refs, t)
                   /\ CitationsHold(d, t)
  BY <1>1, <1>2
<1>8. lines.text = t
  OBVIOUS
<1> HIDE DEF lines
<1>9. CASE Class[t] = "unreadable"
  BY <1>3, <1>9 DEF Stands
<1>10. CASE Class[t] # "unreadable"
  <2>1. Check(d, p, refs, t) = lines
    BY <1>3, <1>10
  <2>  QED BY <2>1, <1>5, <1>6, <1>7, <1>8 DEF Stands
<1>  QED BY <1>9, <1>10
-----------------------------------------------------------------------------
(* Clearing verdicts.                                                      *)

\* The checks of ps are gone, and the others are as they were.
Cleared(d, f, ps) ==
    \A q \in Proofs : IF q \in ps
                      THEN f.lines[q] = NoLines /\ f.verdict[q] = "unchecked"
                      ELSE f.lines[q] = d.lines[q] /\ f.verdict[q] = d.verdict[q]

\* The text of a check that stands is the source, and cites proofs.
LEMMA StandingText ==
    ASSUME NEW d \in Databases, NEW p \in Proofs, CheckedAs(d, p), Stands(d.lines[p])
    PROVE  /\ d.source[p] \in Texts
           /\ \A c \in LemmaCitations[d.source[p]] : c[1] \in Proofs
<1>1. d.lines[p] \in Lines /\ d.lines[p].text = d.source[p]
  BY DEF Databases, CheckedAs, Stands
<1>2. d.source[p] \in Texts
  BY <1>1 DEF Lines
<1>  QED BY <1>2, TextAssumption

\* When the checks that go are those of ps and of all that rests on ps, what is
\* left rests on checks that are left: the rows of ps may change as they like.
LEMMA ClearedChecked ==
    ASSUME NEW d \in Databases, Checked(d),
           NEW ps \in SUBSET Proofs, Closed(d.refs, ps),
           NEW f, Cleared(d, f, ps),
           \A q \in Proofs \ ps : /\ f.source[q] = d.source[q]
                                  /\ d.refs[q] \ ps \subseteq f.refs[q]
                                  /\ q \in d.exists => q \in f.exists
    PROVE  Checked(f)
<1> SUFFICES ASSUME NEW q \in Proofs PROVE CheckedAs(f, q)
  BY DEF Checked
<1>1. CASE q \in ps
  BY <1>1 DEF CheckedAs, Cleared, Stands, VerdictOf
<1>2. CASE q \notin ps
  <2>1. /\ f.lines[q] = d.lines[q]
        /\ f.verdict[q] = d.verdict[q]
        /\ f.source[q] = d.source[q]
        /\ q \in d.exists => q \in f.exists
    BY <1>2 DEF Cleared
  <2>2. CheckedAs(d, q)
    BY DEF Checked
  <2>3. ASSUME Stands(d.lines[q]), NEW c \in LemmaCitations[d.source[q]]
        PROVE  /\ c[1] \in f.refs[q]
               /\ IsUsableLemma(f, c[1])
               /\ Concludes[f.lines[c[1]].text] = c[2]
    <3>1. c[1] \in Proofs
      BY <2>2, <2>3, StandingText
    <3>2. /\ c[1] \in d.refs[q]
          /\ IsUsableLemma(d, c[1])
          /\ Concludes[d.lines[c[1]].text] = c[2]
      BY <2>2, <2>3 DEF CheckedAs, LemmasStand
    <3>3. c[1] \notin ps
      BY <1>2, <3>2 DEF Closed
    <3>4. f.lines[c[1]] = d.lines[c[1]]
      BY <3>1, <3>3 DEF Cleared
    <3>5. c[1] \in f.refs[q]
      BY <1>2, <3>2, <3>3
    <3>  QED BY <3>2, <3>4, <3>5 DEF IsUsableLemma
  <2>  QED BY <2>1, <2>2, <2>3 DEF CheckedAs, LemmasStand
<1>  QED BY <1>1, <1>2

LEMMA ClearVerdictsChecked ==
    ASSUME NEW d \in Databases, Checked(d),
           NEW ps \in SUBSET Proofs, Closed(d.refs, ps)
    PROVE  Checked(ClearVerdicts(d, ps)) /\ Cleared(d, ClearVerdicts(d, ps), ps)
<1> DEFINE f == ClearVerdicts(d, ps)
<1>1. f.source = d.source /\ f.refs = d.refs /\ f.exists = d.exists
  BY DEF ClearVerdicts, Databases
<1>2. Cleared(d, f, ps)
  BY DEF ClearVerdicts, Databases, Cleared
<1> HIDE DEF f
<1>3. Checked(f)
  BY <1>1, <1>2, ClearedChecked
<1>  QED BY <1>2, <1>3 DEF f

\* Invalidating the citations of labels clears a closed set of checks, and none
\* when there are no labels.
LEMMA CitationsChecked ==
    ASSUME NEW d \in Databases, Checked(d), NEW labels
    PROVE  /\ Checked(InvalidateCitations(d, labels))
           /\ \A q \in Proofs : InvalidateCitations(d, labels).lines[q] \in {d.lines[q], NoLines}
           /\ labels = {} => /\ InvalidateCitations(d, labels).lines = d.lines
                             /\ InvalidateCitations(d, labels).verdict = d.verdict
<1> DEFINE C == Citing(d, labels)
           A == C \cup DependentClosure(d, C)
           f == ClearVerdicts(d, A)
<1>1. C \in SUBSET Proofs
  BY DEF Citing
<1>2. A \in SUBSET Proofs
  BY <1>1 DEF DependentClosure
<1>3. labels = {} => C = {}
  BY DEF Citing
<1> HIDE DEF C
<1>4. Closed(d.refs, A)
  BY <1>1, ClosureClosed
<1>5. C = {} => A = {}
  <2> HAVE C = {}
  <2>1. {} \in SUBSET Proofs /\ C \subseteq {} /\ \A q \in Proofs : d.refs[q] \cap {} # {} => q \in {}
    OBVIOUS
  <2>  QED BY <2>1 DEF DependentClosure
<1> HIDE DEF A
<1>6. Checked(f) /\ Cleared(d, f, A)
  BY <1>2, <1>4, ClearVerdictsChecked
<1>7. \A q \in Proofs : f.lines[q] \in {d.lines[q], NoLines}
  BY <1>6 DEF Cleared
<1>8. A = {} => f.lines = d.lines /\ f.verdict = d.verdict
  BY DEF ClearVerdicts, Databases
<1>9. InvalidateCitations(d, labels) = f
  BY DEF InvalidateCitations, f, A, C
<1>  QED BY <1>3, <1>5, <1>6, <1>7, <1>8, <1>9

LEMMA RetireChecked ==
    ASSUME NEW d \in Databases, Checked(d), NEW p \in Proofs, NEW labels
    PROVE  /\ Checked(RetirePromotion(d, p, labels))
           /\ \A q \in Proofs : RetirePromotion(d, p, labels).lines[q] \in {d.lines[q], NoLines}
           /\ labels = {} => /\ RetirePromotion(d, p, labels).lines = d.lines
                             /\ RetirePromotion(d, p, labels).verdict = d.verdict
<1> DEFINE e == InvalidateCitations(d, labels)
           f == [e EXCEPT !.entry = [l \in Labels |->
                    IF l \in labels /\ l \in WarrantedBy(d, p) THEN NoEntry ELSE e.entry[l]]]
<1>1. e \in Databases
  BY InvalidateType
<1>2. /\ Checked(e)
      /\ \A q \in Proofs : e.lines[q] \in {d.lines[q], NoLines}
      /\ labels = {} => e.lines = d.lines /\ e.verdict = d.verdict
  BY CitationsChecked
<1>3. RetirePromotion(d, p, labels) = f
  BY DEF RetirePromotion
<1> HIDE DEF e
<1>4. /\ f.lines = e.lines /\ f.verdict = e.verdict /\ f.source = e.source
      /\ f.refs = e.refs /\ f.exists = e.exists
  BY <1>1 DEF Databases
<1> HIDE DEF f
<1>5. Checked(f)
  BY <1>2, <1>4 DEF Checked, CheckedAs, LemmasStand, IsUsableLemma
<1>  QED BY <1>2, <1>3, <1>4, <1>5

\* The entries that go are those p warrants among labels.
LEMMA RetireEntries ==
    ASSUME NEW d \in Databases, NEW p \in Proofs, NEW labels
    PROVE  \A l \in Labels : RetirePromotion(d, p, labels).entry[l] =
             IF l \in labels /\ l \in WarrantedBy(d, p) THEN NoEntry ELSE d.entry[l]
<1> DEFINE e == InvalidateCitations(d, labels)
<1>1. e \in Databases /\ e.entry = d.entry
  BY InvalidateType, InvalidateFrame
<1> HIDE DEF e
<1>2. \A l \in Labels : [e EXCEPT !.entry = [k \in Labels |->
           IF k \in labels /\ k \in WarrantedBy(d, p) THEN NoEntry ELSE e.entry[k]]].entry[l] =
         IF l \in labels /\ l \in WarrantedBy(d, p) THEN NoEntry ELSE d.entry[l]
  BY <1>1 DEF Databases
<1>  QED BY <1>2 DEF RetirePromotion, e

LEMMA RetireLoadedChecked ==
    ASSUME NEW d \in Databases, Checked(d), NEW p \in Proofs, NEW s
    PROVE  /\ Checked(RetireLoaded(d, p, s))
           /\ \A q \in Proofs : RetireLoaded(d, p, s).lines[q] \in {d.lines[q], NoLines}
           /\ \A l \in Labels : RetireLoaded(d, p, s).entry[l] =
                IF l \in s.warrants \ s.replaced /\ l \in WarrantedBy(d, p)
                THEN NoEntry ELSE d.entry[l]
<1> DEFINE e == RetirePromotion(d, p, s.warrants \ s.replaced)
<1>1. e \in Databases
  BY RetirePromotionType
<1>2. Checked(e) /\ \A q \in Proofs : e.lines[q] \in {d.lines[q], NoLines}
  BY RetireChecked
<1>3. \A l \in Labels : e.entry[l] =
        IF l \in s.warrants \ s.replaced /\ l \in WarrantedBy(d, p)
        THEN NoEntry ELSE d.entry[l]
  BY RetireEntries
<1>4. RetireLoaded(d, p, s) = InvalidateCitations(e, s.warrants)
  BY DEF RetireLoaded
<1> HIDE DEF e
<1>5. /\ Checked(InvalidateCitations(e, s.warrants))
      /\ \A q \in Proofs : InvalidateCitations(e, s.warrants).lines[q] \in {e.lines[q], NoLines}
      /\ InvalidateCitations(e, s.warrants).entry = e.entry
  BY <1>1, <1>2, CitationsChecked, InvalidateFrame
<1>  QED BY <1>2, <1>3, <1>4, <1>5

\* The dependents of p lose their checks, in a graph without a cycle; p keeps its.
LEMMA DependentsChecked ==
    ASSUME NEW d \in Databases, Checked(d), NoCycle(d.refs), NEW p \in Proofs
    PROVE  /\ Checked(InvalidateDependents(d, p))
           /\ Cleared(d, InvalidateDependents(d, p), DependentClosure(d, {p}))
<1>1. DependentClosure(d, {p}) \in SUBSET Proofs /\ Closed(d.refs, DependentClosure(d, {p}))
  BY OwnClosure DEF DependentClosure
<1>  QED BY <1>1, ClearVerdictsChecked DEF InvalidateDependents

\* e is d with another source or other references of p.
EditOf(d, e, p) ==
    /\ e.exists = d.exists /\ e.published = d.published
    /\ e.lines = d.lines /\ e.verdict = d.verdict /\ e.entry = d.entry
    /\ \A q \in Proofs \ {p} : e.source[q] = d.source[q] /\ e.refs[q] = d.refs[q]

\* What an edit e of p in d undoes, leaving f: p and all that rests on it lose
\* their checks, and nothing else does unless p warrants an entry.
Undone(d, e, f, p) ==
    /\ Checked(f)
    /\ \A q \in Proofs : f.lines[q] \in {d.lines[q], NoLines}
    /\ \A q \in {p} \cup DependentClosure(e, {p}) : f.lines[q] = NoLines
    /\ WarrantedBy(e, p) = {} =>
          \A q \in Proofs \ ({p} \cup DependentClosure(e, {p})) : f.lines[q] = d.lines[q]

LEMMA UndoChecked ==
    ASSUME NEW d \in Databases, Checked(d), NEW p \in Proofs,
           NEW e \in Databases, EditOf(d, e, p)
    PROVE  Undone(d, e, Undo(e, p, d.verdict[p]), p)
<1>0. /\ e.exists = d.exists /\ e.lines = d.lines /\ e.verdict = d.verdict
      /\ \A q \in Proofs \ {p} : e.source[q] = d.source[q] /\ e.refs[q] = d.refs[q]
  BY DEF EditOf
<1> DEFINE g  == DiscardCheck(e, p, d.verdict[p])
           h  == InvalidateDependents(g, p)
           ps == {p} \cup DependentClosure(e, {p})
           f  == RetirePromotion(h, p, WarrantedBy(h, p))
<1>1. /\ g \in Databases /\ SameRows(e, g) /\ g.entry = e.entry
      /\ g.lines = [d.lines EXCEPT ![p] = NoLines]
      /\ g.verdict = [d.verdict EXCEPT ![p] = "unchecked"]
  <2>1. d.verdict[p] \in Verdicts
    BY DEF Databases
  <2>2. g \in Databases
    BY <2>1, DiscardCheckType
  <2>3. SameRows(e, g) /\ g.entry = e.entry
    BY DEF DiscardCheck, SameRows, Databases
  <2>4. g.lines = [d.lines EXCEPT ![p] = NoLines]
    BY <1>0 DEF DiscardCheck, Databases
  <2>5. g.verdict = [d.verdict EXCEPT ![p] = "unchecked"]
    BY <1>0 DEF DiscardCheck, Databases, Written
  <2>  QED BY <2>2, <2>3, <2>4, <2>5
<1>2. Undo(e, p, d.verdict[p]) = f
  BY DEF Undo
<1> HIDE DEF g
<1>3. ps \in SUBSET Proofs /\ Closed(e.refs, ps)
  BY ClosureClosed DEF DependentClosure
<1>4. DependentClosure(g, {p}) = DependentClosure(e, {p})
  BY <1>1 DEF DependentClosure, SameRows
<1>5. /\ h \in Databases /\ SameRows(e, h) /\ h.entry = e.entry
      /\ Cleared(d, h, ps)
  <2>1. h \in Databases /\ SameRows(g, h) /\ h.entry = g.entry
    BY <1>1, InvalidateType, InvalidateFrame
  <2>2. Cleared(g, h, DependentClosure(e, {p}))
    BY <1>1, <1>4 DEF InvalidateDependents, ClearVerdicts, Cleared, Databases
  <2>3. /\ \A q \in Proofs \ {p} : g.lines[q] = d.lines[q] /\ g.verdict[q] = d.verdict[q]
        /\ g.lines[p] = NoLines /\ g.verdict[p] = "unchecked"
    BY <1>1 DEF Databases
  <2> HIDE DEF h
  <2>4. Cleared(d, h, ps)
    BY <2>2, <2>3 DEF Cleared
  <2>  QED BY <1>1, <2>1, <2>4 DEF SameRows
<1> HIDE DEF h
<1>6. Checked(h)
  <2>1. Closed(d.refs, ps)
    BY <1>0, <1>3 DEF Closed
  <2>2. \A q \in Proofs \ ps : /\ h.source[q] = d.source[q]
                               /\ d.refs[q] \ ps \subseteq h.refs[q]
                               /\ q \in d.exists => q \in h.exists
    BY <1>0, <1>5 DEF SameRows
  <2>  QED BY <1>3, <1>5, <2>1, <2>2, ClearedChecked
<1>7. WarrantedBy(h, p) = WarrantedBy(e, p)
  BY <1>5 DEF WarrantedBy
<1>8. /\ Checked(f)
      /\ \A q \in Proofs : f.lines[q] \in {h.lines[q], NoLines}
      /\ WarrantedBy(e, p) = {} => f.lines = h.lines
  BY <1>5, <1>6, <1>7, RetireChecked
<1> HIDE DEF f
<1>9. /\ \A q \in Proofs : h.lines[q] \in {d.lines[q], NoLines}
      /\ \A q \in ps : h.lines[q] = NoLines
      /\ \A q \in Proofs \ ps : h.lines[q] = d.lines[q]
  BY <1>3, <1>5 DEF Cleared
<1>10. ps \subseteq Proofs
  BY <1>3
<1> HIDE DEF ps
<1>11. /\ Checked(f)
       /\ \A q \in Proofs : f.lines[q] \in {d.lines[q], NoLines}
       /\ \A q \in ps : f.lines[q] = NoLines
       /\ WarrantedBy(e, p) = {} => \A q \in Proofs \ ps : f.lines[q] = d.lines[q]
  BY <1>8, <1>9, <1>10
<1>  QED BY <1>2, <1>11 DEF ps, Undone
-----------------------------------------------------------------------------
(* Recording a check.                                                      *)

\* Storing the check of the source a proof has, with the references it has,
\* leaves every check standing: where the old one stood the new one is the same,
\* and where it did not nothing rested on it.
LEMMA RecordChecked ==
    ASSUME NEW d \in Databases, Checked(d), Standing(d), NoCycle(d.refs),
           NEW p \in d.exists, d.source[p] \in Texts
    PROVE  LET lines == Check(d, p, d.refs[p], d.source[p])
               f     == RecordVerdict(d, p, d.verdict[p], lines)
           IN /\ Checked(f)
              /\ Stands(d.lines[p]) => lines = d.lines[p]
              /\ f.lines = [d.lines EXCEPT ![p] = lines]
<1> DEFINE t == d.source[p]
           lines == Check(d, p, d.refs[p], t)
           f == RecordVerdict(d, p, d.verdict[p], lines)
<1>0. p \in Proofs
  BY DEF Databases
<1>1. /\ Stands(lines) <=> /\ Class[t] \in {"sound", "warned"}
                           /\ LemmasStand(d, d.refs[p], t)
                           /\ CitationsHold(d, t)
      /\ Stands(lines) => lines = FullLines(t)
      /\ lines # NoLines => lines.text = t
  BY <1>0, OwnReferences, CheckFull
<1>2. Stands(d.lines[p]) => lines = d.lines[p]
  <2> SUFFICES ASSUME Stands(d.lines[p]) PROVE lines = d.lines[p]
    OBVIOUS
  <2>1. /\ Class[t] \in {"sound", "warned"}
        /\ d.lines[p] = FullLines(t)
        /\ LemmasStand(d, d.refs[p], t)
    BY <1>0 DEF Checked, CheckedAs
  <2>2. CitationsHold(d, t)
    BY <1>0, <2>1 DEF Standing, LinesStand, Stands, CitationsHold, FullLines
  <2> HIDE DEF lines, t
  <2>  QED BY <1>1, <2>1, <2>2
<1>3. /\ f.lines = [d.lines EXCEPT ![p] = lines]
      /\ f.verdict = [d.verdict EXCEPT ![p] = VerdictOf(lines)]
      /\ f.source = d.source /\ f.refs = d.refs /\ f.exists = d.exists
  BY <1>0 DEF RecordVerdict, Databases, Written
<1> HIDE DEF lines, f
<1>4. ASSUME NEW q \in Proofs PROVE CheckedAs(f, q)
  <2>1. \A c \in Proofs : IsUsableLemma(d, c) => f.lines[c] = d.lines[c]
    BY <1>0, <1>2, <1>3 DEF IsUsableLemma, Stands, Databases
  <2>2. CASE q # p
    <3>1. CheckedAs(d, q)
      BY DEF Checked
    <3>2. f.lines[q] = d.lines[q] /\ f.verdict[q] = d.verdict[q]
      BY <1>3, <2>2 DEF Databases
    <3>3. Stands(d.lines[q]) => LemmasStand(f, f.refs[q], f.source[q])
      <4> SUFFICES ASSUME Stands(d.lines[q]), NEW c \in LemmaCitations[d.source[q]]
                   PROVE  /\ c[1] \in d.refs[q]
                          /\ IsUsableLemma(f, c[1])
                          /\ Concludes[f.lines[c[1]].text] = c[2]
        BY <1>3 DEF LemmasStand
      <4>1. c[1] \in Proofs
        BY <3>1, StandingText
      <4>2. /\ c[1] \in d.refs[q]
            /\ IsUsableLemma(d, c[1])
            /\ Concludes[d.lines[c[1]].text] = c[2]
        BY <3>1 DEF CheckedAs, LemmasStand
      <4>  QED BY <2>1, <4>1, <4>2 DEF IsUsableLemma
    <3>  QED BY <1>3, <3>1, <3>2, <3>3 DEF CheckedAs
  <2>3. CASE q = p
    <3>1. f.lines[p] = lines /\ f.verdict[p] = VerdictOf(lines)
      BY <1>0, <1>3 DEF Databases
    <3>2. Stands(lines) => LemmasStand(f, d.refs[p], t)
      <4> SUFFICES ASSUME Stands(lines), NEW c \in LemmaCitations[t]
                   PROVE  /\ c[1] \in d.refs[p]
                          /\ IsUsableLemma(f, c[1])
                          /\ Concludes[f.lines[c[1]].text] = c[2]
        BY DEF LemmasStand
      <4>1. c[1] \in Proofs
        BY TextAssumption
      <4>2. /\ c[1] \in d.refs[p]
            /\ IsUsableLemma(d, c[1])
            /\ Concludes[d.lines[c[1]].text] = c[2]
        BY <1>1 DEF LemmasStand
      <4>  QED BY <2>1, <4>1, <4>2 DEF IsUsableLemma
    <3>  QED BY <1>1, <1>3, <2>3, <3>1, <3>2 DEF CheckedAs
  <2>  QED BY <2>2, <2>3
<1>5. Checked(f)
  BY <1>4 DEF Checked
<1>  QED BY <1>2, <1>3, <1>5 DEF lines, f
-----------------------------------------------------------------------------
(* What a request about p does to the others.                              *)

\* The others keep their checks or lose them; they lose them when p gets another
\* source and they reference it; and the entries that go were p's.
QuietStep(d, e, p) ==
    /\ \A q \in Proofs \ {p} : e.lines[q] \in {d.lines[q], NoLines}
    /\ e.source[p] # d.source[p] =>
          \A q \in Proofs \ {p} : p \in d.refs[q] => e.lines[q] = NoLines
    /\ \A l \in Labels : e.entry[l] # d.entry[l] =>
          e.entry[l] = NoEntry /\ d.entry[l].by = p

\* The entry states what p had proved before the step, and p has that check still
\* or has none.
Made(entry, d, e, p) ==
    /\ entry.by = p
    /\ \E t \in Texts :
          /\ LemmasStand(d, d.refs[p], t)
          /\ CitationsHold(d, t)
          /\ entry.states = Concludes[t]
          /\ e.lines[p] \in {FullLines(t), NoLines}

StepOf(d, e, p) ==
    /\ \A q \in Proofs \ {p} : e.lines[q] \in {d.lines[q], NoLines}
    /\ e.source[p] # d.source[p] =>
          \A q \in Proofs \ {p} : p \in d.refs[q] => e.lines[q] = NoLines
    /\ \A l \in Labels : e.entry[l] # d.entry[l] =>
          /\ d.entry[l] # NoEntry => d.entry[l].by = p
          /\ e.entry[l] # NoEntry => Made(e.entry[l], d, e, p)

LEMMA QuietIsStep == ASSUME NEW d, NEW e, NEW p, QuietStep(d, e, p) PROVE StepOf(d, e, p)
BY DEF QuietStep, StepOf

\* A further step that leaves the sources.
LEMMA QuietThen ==
    ASSUME NEW d, NEW e, NEW f, NEW p, QuietStep(d, e, p), f.source = e.source,
           \A q \in Proofs \ {p} : f.lines[q] \in {e.lines[q], NoLines},
           \A l \in Labels : f.entry[l] # e.entry[l] =>
                f.entry[l] = NoEntry /\ e.entry[l].by = p
    PROVE  QuietStep(d, f, p)
<1>1. \A l \in Labels : f.entry[l] # d.entry[l] =>
        f.entry[l] = NoEntry /\ d.entry[l].by = p
  BY DEF QuietStep
<1>2. \A q \in Proofs \ {p} : f.lines[q] \in {d.lines[q], NoLines}
  BY DEF QuietStep
<1>3. f.source[p] # d.source[p] =>
          \A q \in Proofs \ {p} : p \in d.refs[q] => f.lines[q] = NoLines
  BY DEF QuietStep
<1>  QED BY <1>1, <1>2, <1>3 DEF QuietStep

LEMMA SamePublic ==
    ASSUME NEW d, NEW e, Public(d), e.exists = d.exists, e.published = d.published,
           e.refs = d.refs, \A l \in Labels : e.entry[l] \in {d.entry[l], NoEntry}
    PROVE  Public(e)
BY DEF Public

\* What holds when a request has been granted what it waits for, and what its
\* commit leaves.
Ready(r) ==
    /\ TypeOK
    /\ Standing(db)
    /\ NoCycle(db.refs)
    /\ Checked(db)
    /\ Public(db)
    /\ RequestCurrent(r)

Done(p) == Checked(db') /\ Public(db') /\ StepOf(db, db', p)

LEMMA UnchangedDone ==
    ASSUME NEW r, Ready(r), NEW p, db' = db PROVE Done(p)
BY DEF Ready, Done, StepOf

LEMMA ReadyType ==
    ASSUME NEW r \in Requests, Ready(r), NEW kind, Granted(r, kind),
           req[r].op.proof \in db.exists
    PROVE  /\ db \in Databases /\ db.refs \in [Proofs -> SUBSET Proofs]
           /\ req[r].op \in Operations
           /\ req[r].op.kind = kind
           /\ req[r].op.proof \in Proofs
           /\ db.source[req[r].op.proof] \in Texts
           /\ db.verdict[req[r].op.proof] \in Verdicts
           /\ kind # "delete" =>
                /\ req[r].snap = SnapshotIn(db, req[r].op.proof)
                /\ TextToCheck(db, req[r].op.proof, req[r].snap.source)
                     = db.source[req[r].op.proof]
<1> DEFINE p == req[r].op.proof
<1>1. /\ TypeOK /\ db \in Databases
      /\ req[r].op \in Operations
      /\ req[r].op.kind = kind
      /\ p \in Proofs
  BY GrantedType DEF Ready, TypeOK
<1>2. db.source[p] \in Texts /\ db.verdict[p] \in Verdicts
  BY <1>1 DEF TypeOK, Databases
<1>3. kind # "delete" => req[r].snap = SnapshotIn(db, p)
  BY <1>1 DEF Ready, RequestCurrent
<1>4. CheckedAs(db, p)
  BY <1>1 DEF Ready, Checked
<1>5. kind # "delete" => TextToCheck(db, p, req[r].snap.source) = db.source[p]
  BY <1>3, <1>4 DEF TextToCheck, SnapshotIn, CheckedAs
<1>6. db.refs \in [Proofs -> SUBSET Proofs]
  BY <1>1 DEF Databases
<1>  QED BY <1>1, <1>2, <1>3, <1>5, <1>6
-----------------------------------------------------------------------------
(* The requests.                                                           *)

LEMMA VerifyDone ==
    ASSUME NEW r \in Requests, Ready(r), FinishVerify(r) PROVE Done(req[r].op.proof)
<1> DEFINE p == req[r].op.proof
           lines == Check(db, p, db.refs[p], db.source[p])
           f == RecordVerdict(db, p, db.verdict[p], lines)
<1>1. Granted(r, "verify") /\ p \in db.exists
  BY DEF FinishVerify
<1>2. /\ db \in Databases /\ p \in Proofs /\ db.source[p] \in Texts
      /\ req[r].snap = SnapshotIn(db, p)
      /\ TextToCheck(db, p, req[r].snap.source) = db.source[p]
  BY <1>1, ReadyType
<1>3. req[r].snap.refs = db.refs[p] /\ req[r].snap.verdict = db.verdict[p]
  BY <1>2 DEF SnapshotIn
<1>4. db' = f
  BY <1>2, <1>3 DEF FinishVerify, Commit
<1>5. Checked(f) /\ f.lines = [db.lines EXCEPT ![p] = lines]
  BY <1>1, <1>2, RecordChecked DEF Ready
<1>6. SameRows(db, f) /\ f.entry = db.entry
  BY <1>2, RecordVerdictFrame
<1> HIDE DEF f, lines
<1>7. QuietStep(db, f, p)
  <2>1. \A q \in Proofs \ {p} : f.lines[q] = db.lines[q]
    BY <1>2, <1>5 DEF Databases
  <2>  QED BY <1>6, <2>1 DEF QuietStep, SameRows
<1>8. Public(f)
  BY <1>6, SamePublic DEF SameRows, Ready
<1>  QED BY <1>4, <1>5, <1>7, <1>8, QuietIsStep DEF Done

LEMMA RetireDone ==
    ASSUME NEW r \in Requests, Ready(r), FinishRetire(r) PROVE Done(req[r].op.proof)
<1> DEFINE p == req[r].op.proof
           s == req[r].snap
           f == RetireLoaded(db, p, s)
<1>1. Granted(r, "retire") /\ db' = f /\ TypeOK
  BY DEF FinishRetire, Commit, Ready
<1>2. p \in Proofs /\ db \in Databases /\ Checked(db)
  BY <1>1, GrantedType DEF TypeOK, Ready
<1> HIDE DEF p, s
<1>3. /\ Checked(f)
      /\ \A q \in Proofs : f.lines[q] \in {db.lines[q], NoLines}
      /\ \A l \in Labels : f.entry[l] =
            IF l \in s.warrants \ s.replaced /\ l \in WarrantedBy(db, p)
            THEN NoEntry ELSE db.entry[l]
  BY <1>2, RetireLoadedChecked
<1>4. SameRows(db, f)
  BY <1>2, RetireLoadedFrame
<1> HIDE DEF f
<1>5. \A l \in Labels : f.entry[l] # db.entry[l] =>
        f.entry[l] = NoEntry /\ db.entry[l].by = p
  BY <1>3 DEF WarrantedBy
<1>6. QuietStep(db, f, p)
  BY <1>3, <1>4, <1>5 DEF QuietStep, SameRows
<1>7. Public(f)
  BY <1>4, <1>5, SamePublic DEF SameRows, Ready
<1>  QED BY <1>1, <1>3, <1>6, <1>7, QuietIsStep DEF Done, p

\* What an edit of p undoes, in a database that is as it should be.
UndoneQuietly(d, e, f, p) ==
    /\ f \in Databases /\ SameRows(e, f)
    /\ Checked(f)
    /\ Standing(f)
    /\ QuietStep(d, f, p)
    /\ f.lines[p] = NoLines /\ f.verdict[p] = "unchecked"
    /\ \A l \in Labels : f.entry[l] = IF l \in WarrantedBy(d, p) THEN NoEntry ELSE d.entry[l]

LEMMA UndoDone ==
    ASSUME NEW d \in Databases, Checked(d), Standing(d), NEW p \in Proofs,
           NEW e \in Databases, EditOf(d, e, p)
    PROVE  UndoneQuietly(d, e, Undo(e, p, d.verdict[p]), p)
<1> DEFINE f == Undo(e, p, d.verdict[p])
           ps == {p} \cup DependentClosure(e, {p})
<1>1. d.verdict[p] \in Verdicts
  BY DEF Databases
<1>2. Standing(e) /\ WarrantedBy(e, p) = WarrantedBy(d, p) /\ e.entry = d.entry
  BY SameStands DEF EditOf, WarrantedBy
<1>3. /\ f \in Databases
      /\ SameRows(e, f)
      /\ Standing(f)
      /\ \A l \in Labels : f.entry[l] =
            IF l \in WarrantedBy(d, p) THEN NoEntry ELSE d.entry[l]
  BY <1>1, <1>2, UndoType, UndoFrame, UndoStands
<1>4. Undone(d, e, f, p)
  BY UndoChecked
<1> HIDE DEF f
<1>5. /\ Checked(f)
      /\ \A q \in Proofs : f.lines[q] \in {d.lines[q], NoLines}
      /\ \A q \in ps : f.lines[q] = NoLines
  BY <1>4 DEF Undone
<1>6. Closed(e.refs, ps)
  BY ClosureClosed
<1>7. f.lines[p] = NoLines /\ f.verdict[p] = "unchecked"
  BY <1>5 DEF Checked, CheckedAs, VerdictOf
<1>8. ASSUME NEW q \in Proofs \ {p}, p \in d.refs[q] PROVE f.lines[q] = NoLines
  BY <1>5, <1>6, <1>8 DEF Closed, EditOf
<1>9. \A l \in Labels : f.entry[l] # d.entry[l] =>
        f.entry[l] = NoEntry /\ d.entry[l].by = p
  BY <1>3 DEF WarrantedBy
<1>10. QuietStep(d, f, p)
  BY <1>5, <1>8, <1>9 DEF QuietStep
<1>  QED BY <1>3, <1>5, <1>7, <1>10 DEF f, UndoneQuietly

LEMMA ReferencesDone ==
    ASSUME NEW r \in Requests, Ready(r), FinishReferences(r) PROVE Done(req[r].op.proof)
<1> DEFINE p == req[r].op.proof
           s == req[r].snap
           targets == req[r].op.targets
           e == [db EXCEPT !.refs[p] = (db.refs[p] \ s.refs) \cup targets]
           f == Undo(e, p, db.verdict[p])
<1>1. Granted(r, "references") /\ p \in db.exists
  BY DEF FinishReferences
<1>2. /\ db \in Databases /\ p \in Proofs /\ req[r].op \in Operations
      /\ s = SnapshotIn(db, p) /\ req[r].op.kind = "references"
      /\ Checked(db) /\ Standing(db)
  BY <1>1, ReadyType DEF Ready
<1>3. /\ s.refs = db.refs[p] /\ s.verdict = db.verdict[p]
      /\ s.lemmasOut = db.refs[p] \cap db.published
      /\ s.published = (p \in db.published)
  BY <1>2 DEF SnapshotIn
<1>4. targets \in SUBSET Proofs
  BY <1>2, OperationType
<1>5. \/ db' = db
      \/ /\ db' = f
         /\ s.published => \A t \in targets :
              IF t \in s.refs THEN t \in s.lemmasOut ELSE t \in db.published
  BY <1>3 DEF FinishReferences, Refuse, Commit
<1>6. CASE db' = db
  BY <1>6, UnchangedDone
<1>7. CASE /\ db' = f
           /\ s.published => \A t \in targets :
                IF t \in s.refs THEN t \in s.lemmasOut ELSE t \in db.published
  <2>1. /\ e \in Databases /\ e.exists = db.exists /\ e.lines = db.lines
        /\ e.verdict = db.verdict /\ e.entry = db.entry /\ e.published = db.published
        /\ e.source = db.source
        /\ e.refs = [db.refs EXCEPT ![p] = targets]
    BY <1>2, <1>3, <1>4 DEF Databases
  <2> HIDE DEF e
  <2>2. EditOf(db, e, p)
    BY <1>2, <2>1 DEF Databases, EditOf
  <2> HIDE DEF p, s, targets
  <2>3. /\ SameRows(e, f) /\ Checked(f) /\ QuietStep(db, f, p)
        /\ \A l \in Labels : f.entry[l] =
              IF l \in WarrantedBy(db, p) THEN NoEntry ELSE db.entry[l]
    BY <1>2, <2>1, <2>2, UndoDone DEF UndoneQuietly
  <2> HIDE DEF f
  <2>4. Public(f)
    <3>1. p \in db.published => targets \subseteq db.published
      BY <1>3, <1>7
    <3>2. /\ f.exists = db.exists /\ f.published = db.published
          /\ f.refs = [db.refs EXCEPT ![p] = targets]
      BY <2>1, <2>3 DEF SameRows
    <3>3. db.published \subseteq Proofs /\ db.refs \in [Proofs -> SUBSET Proofs]
      BY <1>2 DEF Databases
    <3>4. \A q \in f.published : f.refs[q] \subseteq f.published
      BY <3>1, <3>2, <3>3 DEF Ready, Public
    <3>5. \A l \in Labels : f.entry[l] \in {db.entry[l], NoEntry}
      BY <2>3
    <3>  QED BY <3>2, <3>4, <3>5 DEF Ready, Public
  <2>  QED BY <1>7, <2>3, <2>4, QuietIsStep DEF Done, p
<1>  QED BY <1>5, <1>6, <1>7

\* The check of a text that p may get finds the same before and after the edit
\* undoes what it undoes, unless it fails then: it cannot have found a lemma that
\* rests on p, and finds no less when p warrants no entry.
LEMMA RewriteChecksAlike ==
    ASSUME NEW d \in Databases, NEW f \in Databases, NoCycle(d.refs), f.refs = d.refs,
           NEW p \in Proofs, NEW t \in Texts,
           \A q \in Proofs : f.lines[q] \in {d.lines[q], NoLines},
           \A l \in Labels : f.entry[l] \in {d.entry[l], NoEntry},
           \/ Stands(Check(f, p, f.refs[p], t))
           \/ /\ f.entry = d.entry
              /\ \A q \in Proofs \ ({p} \cup DependentClosure(d, {p})) : f.lines[q] = d.lines[q]
    PROVE  Check(d, p, d.refs[p], t) = Check(f, p, f.refs[p], t)
<1>1. /\ ~WouldCycle(d, p, d.refs[p]) /\ ~WouldCycle(f, p, f.refs[p])
      /\ \A c \in LemmaCitations[t] : c[1] \in Proofs
      /\ \A c \in TheoremCitations[t] : c[1] \in Labels
  BY OwnReferences, TextAssumption
<1>2. CASE Stands(Check(f, p, f.refs[p], t))
  <2>1. /\ Class[t] \in {"sound", "warned"}
        /\ LemmasStand(f, f.refs[p], t)
        /\ CitationsHold(f, t)
        /\ Check(f, p, f.refs[p], t) = FullLines(t)
    BY <1>1, <1>2, CheckFull
  <2>2. LemmasStand(d, d.refs[p], t)
    BY <1>1, <2>1 DEF LemmasStand, IsUsableLemma
  <2>3. CitationsHold(d, t)
    BY <1>1, <2>1 DEF CitationsHold
  <2>  QED BY <1>1, <2>1, <2>2, <2>3, CheckFull
<1>3. CASE /\ f.entry = d.entry
           /\ \A q \in Proofs \ ({p} \cup DependentClosure(d, {p})) : f.lines[q] = d.lines[q]
  <2>1. d.refs[p] \cap ({p} \cup DependentClosure(d, {p})) = {}
    BY OwnClosure
  <2>2. \A q \in d.refs[p] : f.lines[q] = d.lines[q]
    BY <1>3, <2>1 DEF Databases
  <2>3. \A c \in LemmaCitations[t] :
          (/\ c[1] \in d.refs[p] /\ IsUsableLemma(d, c[1])
           /\ Concludes[d.lines[c[1]].text] = c[2])
          <=> (/\ c[1] \in f.refs[p] /\ IsUsableLemma(f, c[1])
               /\ Concludes[f.lines[c[1]].text] = c[2])
    BY <2>2 DEF IsUsableLemma
  <2>4. {c \in LemmaCitations[t] : /\ c[1] \in d.refs[p] /\ IsUsableLemma(d, c[1])
                                   /\ Concludes[d.lines[c[1]].text] = c[2]}
        = {c \in LemmaCitations[t] : /\ c[1] \in f.refs[p] /\ IsUsableLemma(f, c[1])
                                     /\ Concludes[f.lines[c[1]].text] = c[2]}
    BY <2>3
  <2>  QED BY <1>1, <1>3, <2>4 DEF Check
<1>  QED BY <1>2, <1>3

LEMMA RewriteDone ==
    ASSUME NEW r \in Requests, Ready(r), FinishRewrite(r) PROVE Done(req[r].op.proof)
<1> DEFINE p == req[r].op.proof
           s == req[r].snap
           text == req[r].op.text
           lines == Check(db, p, db.refs[p], text)
           e == [db EXCEPT !.source[p] = text]
           d == Undo(e, p, db.verdict[p])
           f == RecordVerdict(d, p, "unchecked", lines)
<1>1. Granted(r, "rewrite") /\ p \in db.exists
  BY DEF FinishRewrite
<1>2. /\ db \in Databases /\ p \in Proofs /\ req[r].op \in Operations
      /\ s = SnapshotIn(db, p) /\ req[r].op.kind = "rewrite"
      /\ Checked(db) /\ Standing(db) /\ NoCycle(db.refs) /\ Public(db)
  BY <1>1, ReadyType DEF Ready
<1>3. /\ s.refs = db.refs[p] /\ s.verdict = db.verdict[p]
      /\ s.source = db.source[p]
      /\ s.published = (p \in db.published)
  BY <1>2 DEF SnapshotIn
<1>4. text \in Texts
  BY <1>2, OperationType
<1>5. [db EXCEPT !.source[p] = Written(s.source, text, db.source[p])] = e
  BY <1>3 DEF Written
<1>6. \/ db' = db
      \/ /\ db' = f
         /\ p \in db.published => Stands(Check(d, p, db.refs[p], text))
  BY <1>3, <1>5 DEF FinishRewrite, Refuse, Commit
<1>7. CASE db' = db
  BY <1>7, UnchangedDone
<1>8. CASE /\ db' = f
           /\ p \in db.published => Stands(Check(d, p, db.refs[p], text))
  <2>1. /\ e \in Databases /\ e.exists = db.exists /\ e.lines = db.lines
        /\ e.verdict = db.verdict /\ e.entry = db.entry /\ e.published = db.published
        /\ e.refs = db.refs
        /\ e.source = [db.source EXCEPT ![p] = text]
    BY <1>2, <1>4 DEF Databases
  <2> HIDE DEF e, p, s, text
  <2>2. EditOf(db, e, p) /\ e.source[p] = text
    BY <1>2, <2>1 DEF Databases, EditOf
  <2>3. /\ d \in Databases /\ SameRows(e, d) /\ Checked(d) /\ Standing(d)
        /\ QuietStep(db, d, p)
        /\ d.lines[p] = NoLines /\ d.verdict[p] = "unchecked"
        /\ \A l \in Labels : d.entry[l] =
              IF l \in WarrantedBy(db, p) THEN NoEntry ELSE db.entry[l]
    BY <1>2, <2>1, <2>2, UndoDone DEF UndoneQuietly
  <2>4. d.refs = db.refs /\ d.exists = db.exists /\ d.source[p] = text
        /\ d.published = db.published
    BY <2>1, <2>2, <2>3 DEF SameRows
  <2>5. /\ \A q \in Proofs : d.lines[q] \in {db.lines[q], NoLines}
        /\ \A l \in Labels : d.entry[l] \in {db.entry[l], NoEntry}
    BY <2>3 DEF QuietStep
  <2>6. p \notin db.published =>
          /\ d.entry = db.entry
          /\ \A q \in Proofs \ ({p} \cup DependentClosure(db, {p})) : d.lines[q] = db.lines[q]
    <3> SUFFICES ASSUME p \notin db.published
                 PROVE  /\ d.entry = db.entry
                        /\ \A q \in Proofs \ ({p} \cup DependentClosure(db, {p})) :
                             d.lines[q] = db.lines[q]
      OBVIOUS
    <3>1. WarrantedBy(db, p) = {} /\ WarrantedBy(e, p) = {}
      BY <1>2, <2>1 DEF WarrantedBy, Public
    <3>2. DependentClosure(e, {p}) = DependentClosure(db, {p})
      BY <2>1 DEF DependentClosure
    <3>3. \A q \in Proofs \ ({p} \cup DependentClosure(e, {p})) : d.lines[q] = db.lines[q]
      BY <1>2, <2>1, <2>2, <3>1, UndoChecked DEF Undone
    <3>4. d.entry = db.entry
      <4>1. \A l \in Labels : d.entry[l] = db.entry[l]
        BY <2>3, <3>1
      <4>2. d.entry \in [Labels -> Entries \cup {NoEntry}]
            /\ db.entry \in [Labels -> Entries \cup {NoEntry}]
        BY <1>2, <2>3 DEF Databases
      <4> HIDE DEF d
      <4>  QED BY <4>1, <4>2
    <3>  QED BY <3>2, <3>3, <3>4
  <2> HIDE DEF d
  <2>7. lines = Check(d, p, d.refs[p], d.source[p])
    BY <1>2, <1>4, <1>8, <2>3, <2>4, <2>5, <2>6, RewriteChecksAlike
  <2> HIDE DEF lines
  <2>8. Checked(f) /\ f.lines = [d.lines EXCEPT ![p] = lines]
    BY <1>1, <1>2, <1>4, <2>3, <2>4, <2>7, RecordChecked
  <2>9. SameRows(d, f) /\ f.entry = d.entry
    BY <1>2, <2>3, RecordVerdictFrame
  <2> HIDE DEF f
  <2>10. QuietStep(db, f, p)
    <3>1. \A q \in Proofs \ {p} : f.lines[q] = d.lines[q]
      BY <2>3, <2>8 DEF Databases
    <3>  QED BY <2>3, <2>9, <3>1, QuietThen DEF SameRows
  <2>11. Public(f)
    BY <1>2, <2>4, <2>5, <2>9, SamePublic DEF SameRows
  <2>  QED BY <1>8, <2>8, <2>10, <2>11, QuietIsStep DEF Done, p
<1>  QED BY <1>6, <1>7, <1>8

LEMMA DeleteDone ==
    ASSUME NEW r \in Requests, Ready(r), FinishDelete(r) PROVE Done(req[r].op.proof)
<1> DEFINE p == req[r].op.proof
           D == DependentClosure(db, {p})
           i == InvalidateDependents(db, p)
           e == RetirePromotion(i, p, WarrantedBy(i, p))
           f == Without(e, p)
<1>1. Granted(r, "delete") /\ p \in db.exists /\ db' = f
  BY DEF FinishDelete, Commit
<1>2. /\ db \in Databases /\ p \in Proofs /\ req[r].op.kind = "delete"
      /\ Checked(db) /\ NoCycle(db.refs) /\ Public(db)
      /\ ~HasPublishedDependents(db, p)
  BY <1>1, ReadyType DEF Ready, RequestCurrent
<1>3. /\ i \in Databases /\ SameRows(db, i) /\ i.entry = db.entry
      /\ Checked(i) /\ Cleared(db, i, D)
  BY <1>2, InvalidateType, InvalidateFrame, DependentsChecked
<1> HIDE DEF i
<1>4. WarrantedBy(i, p) = WarrantedBy(db, p)
  BY <1>3 DEF WarrantedBy
<1>5. /\ e \in Databases /\ SameRows(i, e) /\ Checked(e)
      /\ \A q \in Proofs : e.lines[q] \in {i.lines[q], NoLines}
      /\ \A l \in Labels : e.entry[l] =
            IF l \in WarrantedBy(db, p) THEN NoEntry ELSE db.entry[l]
  BY <1>2, <1>3, <1>4, RetirePromotionType, RetirePromotionFrame, RetireChecked,
     RetireEntries
<1> HIDE DEF e
<1>6. e.refs = db.refs /\ e.source = db.source /\ e.exists = db.exists
      /\ e.published = db.published
  BY <1>3, <1>5 DEF SameRows
<1>7. /\ D \in SUBSET Proofs
      /\ Closed(db.refs, {p} \cup D)
      /\ \A q \in Proofs : p \in db.refs[q] => q \in D
  <2>1. D \in SUBSET Proofs
    BY DEF DependentClosure
  <2>2. {p} \in SUBSET Proofs
    BY <1>2
  <2> HIDE DEF p
  <2>  QED BY <1>2, <2>1, <2>2, OwnClosure, ClosureClosed
<1> HIDE DEF D
<1>8. /\ \A q \in Proofs : e.lines[q] \in {db.lines[q], NoLines}
      /\ \A q \in D : e.lines[q] = NoLines /\ e.verdict[q] = "unchecked"
  <2>1. \A q \in D : e.lines[q] = NoLines
    BY <1>3, <1>5, <1>7 DEF Cleared
  <2>2. \A q \in D : e.verdict[q] = "unchecked"
    BY <1>5, <1>7, <2>1 DEF Checked, CheckedAs, VerdictOf
  <2>3. \A q \in Proofs : e.lines[q] \in {db.lines[q], NoLines}
    BY <1>3, <1>5 DEF Cleared
  <2>  QED BY <2>1, <2>2, <2>3
<1>9. /\ f.exists = e.exists \ {p}
      /\ f.published = e.published \ {p}
      /\ f.source = [e.source EXCEPT ![p] = NoText]
      /\ f.refs = [q \in Proofs |-> IF q = p THEN {} ELSE e.refs[q] \ {p}]
      /\ f.verdict = [e.verdict EXCEPT ![p] = "unchecked"]
      /\ f.lines = [e.lines EXCEPT ![p] = NoLines]
      /\ f.entry = e.entry
  BY <1>5 DEF Without, Databases
<1> HIDE DEF f
<1>10. /\ \A q \in Proofs \ {p} : /\ f.lines[q] = e.lines[q]
                                  /\ f.verdict[q] = e.verdict[q]
                                  /\ f.source[q] = e.source[q]
                                  /\ f.refs[q] = e.refs[q] \ {p}
       /\ f.lines[p] = NoLines /\ f.verdict[p] = "unchecked" /\ f.refs[p] = {}
  BY <1>2, <1>5, <1>9 DEF Databases
<1>11. Checked(f)
  <2>1. Cleared(e, f, {p} \cup D)
    BY <1>8, <1>10 DEF Cleared
  <2>2. \A q \in Proofs \ ({p} \cup D) :
          /\ f.source[q] = e.source[q]
          /\ e.refs[q] \ ({p} \cup D) \subseteq f.refs[q]
          /\ q \in e.exists => q \in f.exists
    BY <1>9, <1>10
  <2>3. {p} \cup D \in SUBSET Proofs /\ Closed(e.refs, {p} \cup D)
    BY <1>2, <1>6, <1>7
  <2>  QED BY <1>5, <2>1, <2>2, <2>3, ClearedChecked
<1>12. QuietStep(db, f, p)
  <2>1. \A q \in Proofs \ {p} : f.lines[q] \in {db.lines[q], NoLines}
    BY <1>8, <1>10
  <2>2. \A q \in Proofs \ {p} : p \in db.refs[q] => f.lines[q] = NoLines
    BY <1>7, <1>8, <1>10
  <2>3. \A l \in Labels : f.entry[l] # db.entry[l] =>
          f.entry[l] = NoEntry /\ db.entry[l].by = p
    BY <1>5, <1>9 DEF WarrantedBy
  <2>  QED BY <2>1, <2>2, <2>3 DEF QuietStep
<1>13. Public(f)
  <2>1. f.published \subseteq f.exists
    BY <1>2, <1>6, <1>9 DEF Public
  <2>2. db.published \subseteq Proofs
    BY <1>2 DEF Databases
  <2>3. ASSUME NEW q \in f.published PROVE f.refs[q] \subseteq f.published
    BY <1>2, <1>6, <1>9, <1>10, <2>2, <2>3 DEF Public
  <2>4. ASSUME NEW l \in Labels, f.entry[l] # NoEntry PROVE f.entry[l].by \in f.published
    <3>1. f.entry[l] = db.entry[l] /\ f.entry[l].by # p
      BY <1>5, <1>9, <2>4 DEF WarrantedBy
    <3>  QED BY <1>2, <1>6, <1>9, <2>4, <3>1 DEF Public
  <2>  QED BY <2>1, <2>3, <2>4 DEF Public
<1>  QED BY <1>1, <1>11, <1>12, <1>13, QuietIsStep DEF Done

\* Setting publication dates disturbs no check and no step.
LEMMA PublicationQuiet ==
    ASSUME NEW d \in Databases, NEW ps \in SUBSET Proofs, NEW p \in Proofs,
           Checked(d), QuietStep(db, d, p)
    PROVE  /\ Checked([d EXCEPT !.published = ps])
           /\ QuietStep(db, [d EXCEPT !.published = ps], p)
<1> DEFINE e == [d EXCEPT !.published = ps]
<1>1. /\ e.exists = d.exists /\ e.source = d.source /\ e.refs = d.refs
      /\ e.verdict = d.verdict /\ e.lines = d.lines /\ e.entry = d.entry
  BY DEF Databases
<1> HIDE DEF e
<1>2. Checked(e)
  BY <1>1 DEF Checked, CheckedAs, LemmasStand, IsUsableLemma
<1>3. QuietStep(db, e, p)
  BY <1>1 DEF QuietStep
<1>  QED BY <1>2, <1>3 DEF e

\* What PATCH starts from once the new source, if there is one, has undone what
\* the old one established.
PatchFrom(d, p) ==
    /\ d \in Databases
    /\ Checked(d) /\ Standing(d) /\ Public(d) /\ QuietStep(db, d, p)
    /\ d.exists = db.exists /\ d.refs = db.refs /\ d.published = db.published
    /\ d.source[p] \in Texts

LEMMA PatchStarts ==
    ASSUME NEW r \in Requests, Ready(r), Granted(r, "patch"), req[r].op.proof \in db.exists
    PROVE  LET op == req[r].op
               p  == op.proof
               d  == IF op.text # NoText
                     THEN Undo([db EXCEPT !.source[p] =
                                   Written(req[r].snap.source, op.text, db.source[p])],
                               p, req[r].snap.verdict)
                     ELSE db
           IN /\ PatchFrom(d, p)
              /\ d.verdict[p] = IF op.text # NoText THEN "unchecked" ELSE req[r].snap.verdict
              /\ d.source[p] = TextToCheck(d, p, IF op.text # NoText THEN op.text
                                                 ELSE req[r].snap.source)
              /\ op.text # NoText =>
                   \A l \in Labels : d.entry[l] =
                      IF l \in WarrantedBy(db, p) THEN NoEntry ELSE db.entry[l]
<1> DEFINE op == req[r].op
           p  == op.proof
           s  == req[r].snap
           e  == [db EXCEPT !.source[p] = op.text]
           f  == Undo(e, p, db.verdict[p])
<1>1. /\ db \in Databases /\ p \in Proofs /\ op \in Operations /\ op.kind = "patch"
      /\ db.source[p] \in Texts
      /\ s = SnapshotIn(db, p)
      /\ TextToCheck(db, p, s.source) = db.source[p]
      /\ Checked(db) /\ Standing(db) /\ Public(db)
  BY ReadyType DEF Ready
<1>2. s.source = db.source[p] /\ s.verdict = db.verdict[p]
  BY <1>1 DEF SnapshotIn
<1>3. op.text \in Texts \cup {NoText}
  BY <1>1, OperationType
<1>4. [db EXCEPT !.source[p] = Written(s.source, op.text, db.source[p])] = e
  BY <1>2 DEF Written
<1>5. ASSUME op.text # NoText
      PROVE  /\ PatchFrom(f, p)
             /\ f.verdict[p] = "unchecked"
             /\ f.source[p] = TextToCheck(f, p, op.text)
             /\ \A l \in Labels : f.entry[l] =
                   IF l \in WarrantedBy(db, p) THEN NoEntry ELSE db.entry[l]
  <2>1. /\ e \in Databases /\ e.exists = db.exists /\ e.lines = db.lines
        /\ e.verdict = db.verdict /\ e.entry = db.entry /\ e.published = db.published
        /\ e.refs = db.refs
        /\ e.source = [db.source EXCEPT ![p] = op.text]
    BY <1>1, <1>3 DEF Databases
  <2> DEFINE t == op.text
  <2>2. t \in Texts
    BY <1>3, <1>5
  <2> HIDE DEF e, p, s, t
  <2>3. EditOf(db, e, p) /\ e.source[p] = t
    BY <1>1, <2>1 DEF Databases, EditOf, t
  <2>4. UndoneQuietly(db, e, f, p)
    BY <1>1, <2>1, <2>3, UndoDone
  <2> HIDE DEF f
  <2>5. /\ f.exists = db.exists /\ f.refs = db.refs /\ f.published = db.published
        /\ f.source[p] = t
    BY <2>1, <2>3, <2>4 DEF UndoneQuietly, SameRows
  <2>6. Public(f)
    BY <1>1, <2>4, <2>5, SamePublic DEF UndoneQuietly
  <2>7. PatchFrom(f, p)
    BY <2>2, <2>4, <2>5, <2>6 DEF UndoneQuietly, PatchFrom
  <2>8. TextToCheck(f, p, t) = t
    BY <2>4 DEF UndoneQuietly, TextToCheck
  <2>  QED BY <2>4, <2>5, <2>7, <2>8 DEF UndoneQuietly, t
<1>6. PatchFrom(db, p)
  BY <1>1 DEF PatchFrom, QuietStep
<1>7. CASE op.text # NoText
  BY <1>2, <1>4, <1>5, <1>7
<1>8. CASE op.text = NoText
  BY <1>1, <1>2, <1>6, <1>8
<1>  QED BY <1>7, <1>8

\* What a commit of d, about p, that makes no entry leaves.
QuietDone(d, p) == Checked(d) /\ Public(d) /\ QuietStep(db, d, p)

\* Recording the check that a publication passes.
LEMMA PatchRecords ==
    ASSUME NEW p \in Proofs, NEW d, PatchFrom(d, p), NoCycle(db.refs), p \in db.exists,
           NEW ps, \/ ps = db.published
                   \/ ps = db.published \cup {p} /\ db.refs[p] \subseteq db.published
    PROVE  QuietDone([RecordVerdict(d, p, d.verdict[p], Check(d, p, d.refs[p], d.source[p]))
                         EXCEPT !.published = ps], p)
<1> DEFINE lines == Check(d, p, d.refs[p], d.source[p])
           v == RecordVerdict(d, p, d.verdict[p], lines)
           f == [v EXCEPT !.published = ps]
<1>1. /\ d \in Databases /\ Checked(d) /\ Standing(d) /\ Public(d) /\ QuietStep(db, d, p)
      /\ d.exists = db.exists /\ d.refs = db.refs /\ d.published = db.published
      /\ d.source[p] \in Texts /\ d.verdict[p] \in Verdicts
  BY DEF PatchFrom, Databases
<1>2. Checked(v) /\ v.lines = [d.lines EXCEPT ![p] = lines]
  BY <1>1, RecordChecked
<1>3. /\ SameRows(d, v) /\ v.entry = d.entry
  BY <1>1, RecordVerdictFrame
<1>4. v \in Databases
  BY <1>1, CheckType, RecordVerdictType
<1> HIDE DEF v
<1>5. \A q \in Proofs \ {p} : v.lines[q] = d.lines[q]
  BY <1>1, <1>2 DEF Databases
<1>6. QuietStep(db, v, p)
  BY <1>1, <1>3, <1>5, QuietThen DEF SameRows
<1>7. ps \in SUBSET Proofs
  BY <1>1 DEF Databases
<1>8. Checked(f) /\ QuietStep(db, f, p)
  BY <1>2, <1>4, <1>6, <1>7, PublicationQuiet
<1>9. /\ f.exists = db.exists /\ f.refs = db.refs /\ f.entry = d.entry
      /\ f.published = ps
  BY <1>1, <1>3, <1>4 DEF SameRows, Databases
<1> HIDE DEF f
<1>10. Public(f)
  BY <1>1, <1>9 DEF Public
<1>  QED BY <1>8, <1>10 DEF f, v, QuietDone

\* Withdrawing the publication of p and the entries it warrants.
LEMMA PatchWithdraws ==
    ASSUME NEW p \in Proofs, NEW d, PatchFrom(d, p), ~HasPublishedDependents(d, p),
           NEW w \in Databases, Checked(w), SameRows(d, w),
           \A q \in Proofs : w.lines[q] \in {d.lines[q], NoLines},
           \A l \in Labels : w.entry[l] = IF l \in WarrantedBy(d, p) THEN NoEntry ELSE d.entry[l],
           NEW ps, ps = IF p \in db.published THEN db.published \ {p} ELSE db.published
    PROVE  QuietDone([w EXCEPT !.published = ps], p)
<1> DEFINE f == [w EXCEPT !.published = ps]
<1>1. /\ d \in Databases /\ Public(d) /\ QuietStep(db, d, p)
      /\ d.exists = db.exists /\ d.refs = db.refs /\ d.published = db.published
  BY DEF PatchFrom
<1>2. \A l \in Labels : w.entry[l] # d.entry[l] => w.entry[l] = NoEntry /\ d.entry[l].by = p
  BY DEF WarrantedBy
<1>3. QuietStep(db, w, p)
  BY <1>1, <1>2, QuietThen DEF SameRows
<1>4. ps = db.published \ {p} /\ ps \in SUBSET Proofs
  BY <1>1 DEF Databases
<1>5. Checked(f) /\ QuietStep(db, f, p)
  BY <1>3, <1>4, PublicationQuiet
<1>6. /\ f.exists = d.exists /\ f.refs = d.refs /\ f.entry = w.entry
      /\ f.published = d.published \ {p}
  BY <1>1, <1>4 DEF SameRows, Databases
<1> HIDE DEF f
<1>7. Public(f)
  <2>1. \A q \in f.published : f.refs[q] \subseteq f.published
    <3> SUFFICES ASSUME NEW q \in d.published, q # p, NEW u \in d.refs[q]
                 PROVE  u \in d.published /\ u # p
      BY <1>6
    <3>  QED BY <1>1 DEF Public, HasPublishedDependents
  <2>2. ASSUME NEW l \in Labels, f.entry[l] # NoEntry PROVE f.entry[l].by \in f.published
    <3>1. f.entry[l] = d.entry[l] /\ d.entry[l].by # p
      BY <1>6, <2>2 DEF WarrantedBy
    <3>  QED BY <1>1, <1>6, <2>2, <3>1 DEF Public
  <2>3. f.published \subseteq f.exists
    BY <1>1, <1>6 DEF Public
  <2>  QED BY <2>1, <2>2, <2>3 DEF Public
<1>  QED BY <1>5, <1>7 DEF f, QuietDone

LEMMA PatchDone ==
    ASSUME NEW r \in Requests, Ready(r), FinishPatch(r) PROVE Done(req[r].op.proof)
<1> DEFINE op     == req[r].op
           p      == op.proof
           s      == req[r].snap
           edited == op.text # NoText
           source == IF edited THEN op.text ELSE s.source
           loaded == IF edited THEN "unchecked" ELSE s.verdict
           d      == IF edited
                     THEN Undo([db EXCEPT !.source[p] =
                                   Written(s.source, op.text, db.source[p])], p, s.verdict)
                     ELSE db
           lines  == Check(d, p, s.refs, TextToCheck(d, p, source))
           v      == RecordVerdict(d, p, loaded, lines)
           w      == IF edited THEN RetirePromotion(d, p, WarrantedBy(d, p))
                               ELSE RetireLoaded(d, p, s)
           vPub   == IF op.publish = "yes" THEN v.published \cup {p} ELSE v.published
           wPub   == IF s.published THEN w.published \ {p} ELSE w.published
<1>1. Granted(r, "patch") /\ p \in db.exists
  BY DEF FinishPatch
<1>2. /\ db \in Databases /\ p \in Proofs /\ op.kind = "patch"
      /\ s = SnapshotIn(db, p)
      /\ NoCycle(db.refs)
      /\ op.text = NoText /\ op.publish = "no" => ~HasPublishedDependents(db, p)
  BY <1>1, ReadyType DEF Ready, RequestCurrent
<1>3. /\ s.refs = db.refs[p]
      /\ s.lemmasOut = db.refs[p] \cap db.published
      /\ s.published = (p \in db.published)
      /\ s.warrants = WarrantedBy(db, p) /\ s.replaced = {}
  BY <1>2 DEF SnapshotIn
<1>4. \/ db' = db
      \/ db' = d
      \/ /\ db' = [v EXCEPT !.published = vPub]
         /\ s.lemmasOut = s.refs
      \/ /\ db' = [w EXCEPT !.published = wPub]
         /\ op.publish = "no"
         /\ ~(edited /\ HasPublishedDependents(d, p))
  BY DEF FinishPatch, Refuse, Commit
<1>5. /\ PatchFrom(d, p)
      /\ d.verdict[p] = loaded
      /\ d.source[p] = TextToCheck(d, p, source)
      /\ ~edited => d = db
  BY <1>1, PatchStarts
<1> HIDE DEF d, source, loaded
<1>6. /\ d \in Databases /\ Checked(d) /\ Public(d) /\ QuietStep(db, d, p)
      /\ d.refs = db.refs /\ d.published = db.published
  BY <1>5 DEF PatchFrom
<1>7. CASE db' = db
  BY <1>7, UnchangedDone
<1>8. CASE db' = d
  BY <1>6, <1>8, QuietIsStep DEF Done
<1>9. CASE db' = [v EXCEPT !.published = vPub] /\ s.lemmasOut = s.refs
  <2>1. lines = Check(d, p, d.refs[p], d.source[p])
    BY <1>3, <1>5, <1>6
  <2>2. SameRows(d, v)
    BY <1>2, <1>6, RecordVerdictFrame
  <2>3. v = RecordVerdict(d, p, d.verdict[p], lines)
    BY <1>5
  <2> HIDE DEF lines, v
  <2>4. \/ vPub = db.published
        \/ vPub = db.published \cup {p} /\ db.refs[p] \subseteq db.published
    BY <1>3, <1>6, <1>9, <2>2 DEF SameRows
  <2> HIDE DEF vPub, p
  <2>5. QuietDone([v EXCEPT !.published = vPub], p)
    BY <1>1, <1>2, <1>5, <2>1, <2>3, <2>4, PatchRecords DEF p
  <2>  QED BY <1>9, <2>5, QuietIsStep DEF Done, QuietDone, p
<1>10. CASE /\ db' = [w EXCEPT !.published = wPub]
            /\ op.publish = "no"
            /\ ~(edited /\ HasPublishedDependents(d, p))
  <2>1. ~HasPublishedDependents(d, p)
    BY <1>2, <1>5, <1>10
  <2>2. /\ w \in Databases /\ Checked(w) /\ SameRows(d, w)
        /\ \A q \in Proofs : w.lines[q] \in {d.lines[q], NoLines}
        /\ \A l \in Labels : w.entry[l] = IF l \in WarrantedBy(d, p)
                                          THEN NoEntry ELSE d.entry[l]
    <3>1. CASE edited
      <4>1. w = RetirePromotion(d, p, WarrantedBy(d, p))
        BY <3>1
      <4> HIDE DEF w, p
      <4>  QED BY <1>2, <1>6, <4>1, RetirePromotionType, RetirePromotionFrame,
              RetireChecked, RetireEntries
    <3>2. CASE ~edited
      <4>1. w = RetireLoaded(d, p, s) /\ s.warrants \ s.replaced = WarrantedBy(d, p)
        BY <1>3, <1>5, <3>2
      <4> HIDE DEF w, p, s
      <4>2. /\ w \in Databases /\ Checked(w) /\ SameRows(d, w)
            /\ \A q \in Proofs : w.lines[q] \in {d.lines[q], NoLines}
        BY <1>2, <1>6, <4>1, RetireLoadedType, RetireLoadedFrame, RetireLoadedChecked
      <4>3. \A l \in Labels : w.entry[l] =
               IF l \in s.warrants \ s.replaced /\ l \in WarrantedBy(d, p)
               THEN NoEntry ELSE d.entry[l]
        BY <1>2, <1>6, <4>1, RetireLoadedChecked
      <4>  QED BY <4>1, <4>2, <4>3
    <3>  QED BY <3>1, <3>2
  <2> HIDE DEF w
  <2>3. wPub = IF p \in db.published THEN db.published \ {p} ELSE db.published
    BY <1>3, <1>6, <2>2 DEF SameRows
  <2> HIDE DEF wPub, p
  <2>4. QuietDone([w EXCEPT !.published = wPub], p)
    BY <1>2, <1>5, <2>1, <2>2, <2>3, PatchWithdraws
  <2>  QED BY <1>10, <2>4, QuietIsStep DEF Done, QuietDone, p
<1>  QED BY <1>4, <1>7, <1>8, <1>9, <1>10

\* The new entry states what the check that made it found; clearing what cites
\* the labels p had, and the new one, may take that check away again.
LEMMA PromoteDone ==
    ASSUME NEW r \in Requests, Ready(r), FinishPromote(r) PROVE Done(req[r].op.proof)
<1> DEFINE p == req[r].op.proof
           l == req[r].op.label
           t == db.source[p]
           lines == Check(db, p, db.refs[p], t)
           checked == RecordVerdict(db, p, db.verdict[p], lines)
           retired == RetirePromotion(checked, p, WarrantedBy(checked, p))
           cleared == InvalidateCitations(retired, {l})
           new     == [by |-> p, states |-> Concludes[lines.text]]
           after   == [cleared EXCEPT !.entry[l] = new]
<1>1. Granted(r, "promote") /\ p \in db.exists
  BY DEF FinishPromote
<1>2. /\ db \in Databases /\ p \in Proofs /\ t \in Texts /\ req[r].op \in Operations
      /\ db.verdict[p] \in Verdicts
      /\ req[r].op.kind = "promote"
      /\ req[r].snap = SnapshotIn(db, p)
      /\ TextToCheck(db, p, req[r].snap.source) = t
      /\ p \in db.published
      /\ Checked(db) /\ Standing(db) /\ Public(db) /\ NoCycle(db.refs)
  BY <1>1, ReadyType DEF Ready, RequestCurrent
<1>3. l \in Labels
  BY <1>2, OperationType
<1>4. req[r].snap.refs = db.refs[p] /\ req[r].snap.verdict = db.verdict[p]
  BY <1>2 DEF SnapshotIn
<1>5. \/ db' = db
      \/ /\ db' = after
         /\ IsUsableLemma(checked, p)
         /\ db.entry[l] # NoEntry => db.entry[l].by = p
  BY <1>2, <1>4 DEF FinishPromote, Refuse, Commit, CommitEntry
<1>6. CASE db' = db
  BY <1>6, UnchangedDone
<1>7. CASE /\ db' = after
           /\ IsUsableLemma(checked, p)
           /\ db.entry[l] # NoEntry => db.entry[l].by = p
  <2>1. /\ Stands(lines) => /\ LemmasStand(db, db.refs[p], t)
                            /\ CitationsHold(db, t)
                            /\ lines = FullLines(t)
        /\ lines \in Lines \cup {NoLines}
    BY <1>2, OwnReferences, CheckFull, CheckType
  <2> HIDE DEF p, l, lines
  <2>2. Checked(checked) /\ checked.lines = [db.lines EXCEPT ![p] = lines]
    BY <1>1, <1>2, RecordChecked DEF lines, p
  <2>3. checked \in Databases /\ SameRows(db, checked) /\ checked.entry = db.entry
    BY <1>2, <2>1, RecordVerdictType, RecordVerdictFrame
  <2> HIDE DEF checked
  <2>4. Stands(lines)
    BY <1>2, <1>7, <2>2 DEF IsUsableLemma, Stands, Databases
  <2>5. WarrantedBy(checked, p) = WarrantedBy(db, p)
    BY <2>3 DEF WarrantedBy
  <2>6. /\ retired \in Databases /\ SameRows(checked, retired) /\ Checked(retired)
        /\ \A q \in Proofs : retired.lines[q] \in {checked.lines[q], NoLines}
        /\ \A k \in Labels : retired.entry[k] = IF k \in WarrantedBy(db, p)
                                                THEN NoEntry ELSE db.entry[k]
    <3> DEFINE W == WarrantedBy(db, p)
    <3>1. retired = RetirePromotion(checked, p, W)
      BY <2>5
    <3> HIDE DEF retired, W
    <3>2. retired \in Databases /\ SameRows(checked, retired)
      BY <1>2, <2>3, <3>1, RetirePromotionType, RetirePromotionFrame
    <3>3. /\ Checked(retired)
          /\ \A q \in Proofs : retired.lines[q] \in {checked.lines[q], NoLines}
      BY <1>2, <2>2, <2>3, <3>1, RetireChecked
    <3>4. \A k \in Labels : retired.entry[k] = IF k \in W /\ k \in WarrantedBy(checked, p)
                                               THEN NoEntry ELSE checked.entry[k]
      BY <1>2, <2>3, <3>1, RetireEntries
    <3>  QED BY <2>3, <2>5, <3>2, <3>3, <3>4 DEF W
  <2> HIDE DEF retired
  <2>7. /\ cleared \in Databases /\ SameRows(retired, cleared) /\ Checked(cleared)
        /\ \A q \in Proofs : cleared.lines[q] \in {retired.lines[q], NoLines}
        /\ cleared.entry = retired.entry
    BY <2>6, InvalidateType, InvalidateFrame, CitationsChecked
  <2> HIDE DEF cleared
  <2>8. /\ after.exists = db.exists /\ after.source = db.source /\ after.refs = db.refs
        /\ after.published = db.published
        /\ after.lines = cleared.lines /\ after.verdict = cleared.verdict
        /\ after.source = cleared.source /\ after.refs = cleared.refs
        /\ after.exists = cleared.exists
        /\ \A k \in Labels : after.entry[k] = IF k = l THEN new ELSE cleared.entry[k]
    <3>1. /\ after.exists = cleared.exists /\ after.source = cleared.source
          /\ after.refs = cleared.refs /\ after.published = cleared.published
          /\ after.lines = cleared.lines /\ after.verdict = cleared.verdict
          /\ \A k \in Labels : after.entry[k] = IF k = l THEN new ELSE cleared.entry[k]
      BY <1>3, <2>7 DEF Databases
    <3> HIDE DEF after
    <3>  QED BY <2>3, <2>6, <2>7, <3>1 DEF SameRows
  <2>9. new.by = p /\ new.states = Concludes[lines.text]
    OBVIOUS
  <2> HIDE DEF after, new
  <2>10. Checked(after)
    BY <2>7, <2>8 DEF Checked, CheckedAs, LemmasStand, IsUsableLemma
  <2>11. lines = FullLines(t) /\ lines.text = t
    BY <2>1, <2>4 DEF FullLines
  <2>12. /\ \A q \in Proofs \ {p} : after.lines[q] \in {db.lines[q], NoLines}
         /\ after.lines[p] \in {lines, NoLines}
    <3>1. /\ \A q \in Proofs \ {p} : checked.lines[q] = db.lines[q]
          /\ checked.lines[p] = lines
      BY <1>2, <2>2 DEF Databases
    <3>  QED BY <1>2, <2>6, <2>7, <2>8, <3>1
  <2>13. Made(new, db, after, p)
    BY <1>2, <2>1, <2>4, <2>9, <2>11, <2>12 DEF Made
  <2>14. \A k \in Labels : after.entry[k] # db.entry[k] =>
           /\ db.entry[k] # NoEntry => db.entry[k].by = p
           /\ after.entry[k] # NoEntry => after.entry[k] = new
    BY <1>7, <2>6, <2>7, <2>8 DEF WarrantedBy
  <2>15. StepOf(db, after, p)
    BY <2>8, <2>12, <2>13, <2>14 DEF StepOf
  <2>16. Public(after)
    <3>1. \A k \in Labels : after.entry[k] # NoEntry =>
            after.entry[k] = db.entry[k] \/ after.entry[k].by = p
      BY <2>9, <2>14
    <3>  QED BY <1>2, <2>8, <3>1 DEF Public
  <2>  QED BY <1>7, <2>10, <2>15, <2>16 DEF Done, p
<1>  QED BY <1>5, <1>6, <1>7
-----------------------------------------------------------------------------
(* The requests under way.                                                 *)

LEMMA FinishDone ==
    ASSUME NEW r \in Requests, Ready(r), Finish(r) PROVE Done(req[r].op.proof)
<1>1. CASE FinishGone(r)
  BY <1>1, UnchangedDone DEF FinishGone, Refuse, Commit
<1>  QED BY <1>1, VerifyDone, PatchDone, ReferencesDone, PromoteDone, RewriteDone,
        RetireDone, DeleteDone DEF Finish

LEMMA SameCurrent ==
    ASSUME NEW q, RequestCurrent(q), req'[q] = req[q], db' = db
    PROVE  RequestCurrent(q)'
BY DEF RequestCurrent, SnapshotIn, WarrantedBy, HasPublishedDependents

\* A commit leaves the other requests current: only a check or a deletion of the
\* proof they delete or check can have others under way.
LEMMA FinishCurrent ==
    ASSUME TypeOK, OneAtATime, RequestsCurrent, NEW r \in Requests, Finish(r)
    PROVE  RequestsCurrent'
<1> SUFFICES ASSUME NEW q \in Requests, req'[q] # Idle PROVE RequestCurrent(q)'
  BY DEF RequestsCurrent
<1>1. req[r] # Idle /\ \E kind : Granted(r, kind)
  BY DEF Finish, FinishGone, FinishVerify, FinishPatch, FinishReferences, FinishPromote,
         FinishRewrite, FinishRetire, FinishDelete, Granted
<1>2. \/ \E d : Commit(r, d)
      \/ FinishPromote(r) /\ \E d, l : CommitEntry(r, d, l)
  BY DEF Finish, FinishGone, FinishVerify, FinishPatch, FinishReferences, FinishPromote,
         FinishRewrite, FinishRetire, FinishDelete, Refuse
<1>3. q # r /\ req[q] # Idle
  BY <1>1, <1>2 DEF Commit, CommitEntry, TypeOK
<1>4. /\ req[q].op.proof = req[r].op.proof
      /\ req[r].op.kind \in {"verify", "delete"}
      /\ req[q].op.kind \in {"verify", "delete"}
      /\ req[r].op.kind = "verify" => req[q].op.kind = "delete"
  BY <1>1, <1>3 DEF OneAtATime
<1>5. FinishGone(r) \/ FinishVerify(r) \/ FinishDelete(r)
  BY <1>4 DEF Finish, FinishPatch, FinishReferences, FinishPromote, FinishRewrite,
         FinishRetire, Granted
<1>6. req'[q] = req[q]
  BY <1>3, <1>5 DEF FinishGone, FinishVerify, FinishDelete, Refuse, Commit, TypeOK
<1>7. RequestCurrent(q)
  BY <1>3 DEF RequestsCurrent
<1>8. CASE FinishGone(r)
  BY <1>6, <1>7, <1>8, SameCurrent DEF FinishGone, Refuse, Commit
<1>9. CASE FinishVerify(r)
  <2>1. SameRows(db, db')
    BY <1>9, FinishVerifyCommits DEF Commit
  <2>2. req[q].op.kind = "delete"
    BY <1>4, <1>9 DEF FinishVerify, Granted
  <2>  QED BY <1>6, <1>7, <2>1, <2>2 DEF RequestCurrent, SameRows, HasPublishedDependents
<1>10. CASE FinishDelete(r)
  <2>1. req[r].op.proof \notin db'.exists
    <3> DEFINE p == req[r].op.proof
               e == RetirePromotion(InvalidateDependents(db, p), p,
                                    WarrantedBy(InvalidateDependents(db, p), p))
    <3>1. db' = Without(e, p) /\ p \in Proofs
      BY <1>10, GrantedType DEF FinishDelete, Commit
    <3>2. e \in Databases
      BY <3>1, InvalidateType, RetirePromotionType DEF TypeOK
    <3> HIDE DEF e
    <3>  QED BY <3>1, <3>2 DEF Without, Databases
  <2>  QED BY <1>4, <1>6, <2>1 DEF RequestCurrent
<1>  QED BY <1>5, <1>8, <1>9, <1>10

LEMMA BeginCurrent ==
    ASSUME TypeOK, RequestsCurrent, NEW r \in Requests, NEW op \in Operations, Begin(r, op)
    PROVE  RequestsCurrent'
<1> SUFFICES ASSUME NEW q \in Requests, req'[q] # Idle PROVE RequestCurrent(q)'
  BY DEF RequestsCurrent
<1>1. CASE q = r
  <2>1. req'[q].op = op /\ req'[q].snap = SnapshotIn(db, op.proof) /\ db' = db
    BY <1>1 DEF Begin, TypeOK, SnapshotOf, SnapshotIn
  <2>2. /\ op.proof \in db.exists
        /\ op.kind = "promote" => op.proof \in db.published
        /\ \/ op.kind = "delete"
           \/ op.kind = "patch" /\ op.text = NoText /\ op.publish = "no"
           => ~HasPublishedDependents(db, op.proof)
    BY DEF Begin, Admitted
  <2>  QED BY <2>1, <2>2 DEF RequestCurrent
<1>2. CASE q # r
  <2>1. req'[q] = req[q] /\ db' = db
    BY <1>2 DEF Begin, TypeOK
  <2>  QED BY <2>1, SameCurrent DEF RequestsCurrent
<1>  QED BY <1>1, <1>2

\* A new proof is one that no request has met.
LEMMA CreateKeeps ==
    ASSUME TypeOK, Checked(db), Public(db), RequestsCurrent,
           NEW op \in Operations, Create(op)
    PROVE  /\ Checked(db') /\ Public(db') /\ RequestsCurrent'
           /\ db'.lines = db.lines /\ db'.verdict = db.verdict /\ db'.entry = db.entry
<1>1. /\ op.proof \in Proofs /\ op.proof \notin db.exists
      /\ \A r \in Requests : req[r] # Idle => req[r].op.proof # op.proof
  BY OperationType DEF Create, Unmet
<1>2. /\ db'.exists = db.exists \cup {op.proof}
      /\ db'.source = [db.source EXCEPT ![op.proof] = op.text]
      /\ db'.refs = db.refs /\ db'.published = db.published
      /\ db'.verdict = db.verdict /\ db'.lines = db.lines /\ db'.entry = db.entry
      /\ req' = req
  BY DEF Create, TypeOK, Databases
<1>3. \A q \in Proofs \ {op.proof} : db'.source[q] = db.source[q]
  BY <1>2 DEF TypeOK, Databases
<1>4. ASSUME NEW q \in Proofs PROVE CheckedAs(db, q)'
  <2>1. CheckedAs(db, q)
    BY DEF Checked
  <2>2. CASE q # op.proof
    BY <1>2, <1>3, <2>1, <2>2 DEF CheckedAs, LemmasStand, IsUsableLemma
  <2>3. CASE q = op.proof
    BY <1>1, <1>2, <2>1, <2>3 DEF CheckedAs, Stands
  <2>  QED BY <2>2, <2>3
<1>5. Checked(db')
  BY <1>4 DEF Checked
<1>6. Public(db')
  BY <1>2 DEF Public
<1>7. ASSUME NEW r \in Requests, req[r] # Idle PROVE RequestCurrent(r)'
  <2>1. RequestCurrent(r) /\ req[r].op.proof # op.proof
    BY <1>1, <1>7 DEF RequestsCurrent
  <2>2. req[r].op.proof \in Proofs
    BY <1>7, OperationType DEF TypeOK
  <2>3. db'.source[req[r].op.proof] = db.source[req[r].op.proof]
    BY <1>3, <2>1, <2>2
  <2>4. SnapshotIn(db', req[r].op.proof) = SnapshotIn(db, req[r].op.proof)
    BY <1>2, <2>3 DEF SnapshotIn, WarrantedBy
  <2>5. HasPublishedDependents(db', req[r].op.proof)
          => HasPublishedDependents(db, req[r].op.proof)
    BY <1>2 DEF HasPublishedDependents, Public
  <2>  QED BY <1>2, <2>1, <2>4, <2>5 DEF RequestCurrent
<1>8. RequestsCurrent'
  BY <1>2, <1>7 DEF RequestsCurrent
<1>  QED BY <1>2, <1>5, <1>6, <1>8
-----------------------------------------------------------------------------
(* The invariant.                                                          *)

LEMMA SerialIsSpec == SerialSpec => Spec
<1>1. [Next /\ OneAtATime']_vars => [Next]_vars
  OBVIOUS
<1>  QED BY <1>1, PTL DEF SerialSpec, Spec

\* What holds of the graph and of the library however requests overlap.
AnyOverlap == TypeOK /\ Acyclic /\ LibraryStands

LEMMA AlwaysAnyOverlap == SerialSpec => []AnyOverlap
<1>1. TypeOK /\ Acyclic /\ LibraryStands => AnyOverlap
  BY DEF AnyOverlap
<1>  QED BY <1>1, SerialIsSpec, TypeCorrect, GraphAcyclic, AlwaysStanding, PTL

LEMMA FinishReady ==
    ASSUME AnyOverlap, SerialInv, NEW r \in Requests, Finish(r)
    PROVE  Ready(r)
<1>1. req[r] # Idle
  BY DEF Finish, FinishGone, FinishVerify, FinishPatch, FinishReferences, FinishPromote,
         FinishRewrite, FinishRetire, FinishDelete, Granted
<1>  QED BY <1>1 DEF Ready, AnyOverlap, Acyclic, NoCycle, LibraryStands, SerialInv,
        RequestsCurrent

LEMMA AlwaysSerialInv == SerialSpec => []SerialInv
<1>1. Init => SerialInv
  BY DEF Init, SerialInv, OneAtATime, Checked, CheckedAs, Stands, VerdictOf, Public,
         RequestsCurrent
<1>2. AnyOverlap /\ SerialInv /\ [Next /\ OneAtATime']_vars => SerialInv'
  <2> SUFFICES ASSUME AnyOverlap, SerialInv, [Next /\ OneAtATime']_vars
               PROVE  SerialInv'
    OBVIOUS
  <2>1. OneAtATime'
    BY DEF SerialInv, OneAtATime, vars
  <2>2. TypeOK /\ OneAtATime /\ RequestsCurrent /\ Checked(db) /\ Public(db)
    BY DEF AnyOverlap, SerialInv
  <2>3. ASSUME NEW op \in Operations, Create(op)
        PROVE  Checked(db') /\ Public(db') /\ RequestsCurrent'
    BY <2>2, <2>3, CreateKeeps
  <2>4. ASSUME NEW r \in Requests, NEW op \in Operations, Begin(r, op)
        PROVE  Checked(db') /\ Public(db') /\ RequestsCurrent'
    BY <2>2, <2>4, BeginCurrent DEF Begin
  <2>5. ASSUME NEW r \in Requests, Finish(r)
        PROVE  Checked(db') /\ Public(db') /\ RequestsCurrent'
    BY <2>2, <2>5, FinishReady, FinishDone, FinishCurrent DEF Done
  <2>6. ASSUME UNCHANGED <<db, req>>
        PROVE  Checked(db') /\ Public(db') /\ RequestsCurrent'
    BY <2>2, <2>6, SameCurrent DEF RequestsCurrent
  <2>7. Checked(db') /\ Public(db') /\ RequestsCurrent'
    BY <2>3, <2>4, <2>5, <2>6 DEF Next, Enter, vars
  <2>  QED BY <2>1, <2>7 DEF SerialInv
<1>  QED BY <1>1, <1>2, AlwaysAnyOverlap, PTL DEF SerialSpec

\* When requests do not overlap, stored lines are the lines of the source the
\* proof has: an edit discards them in the transaction that stores the source.
THEOREM LinesAreOfTheSource == SerialSpec => []LinesMatchSource
<1>1. SerialInv => LinesMatchSource
  BY DEF SerialInv, Checked, CheckedAs, LinesMatchSource
<1>  QED BY <1>1, AlwaysSerialInv, PTL

\* When requests do not overlap, a cached verdict and the stored lines are of
\* one check.
THEOREM VerdictsHaveLines == SerialSpec => []VerdictHasLines
<1>1. SerialInv => VerdictHasLines
  BY DEF SerialInv, Checked, CheckedAs, VerdictHasLines
<1>  QED BY <1>1, AlwaysSerialInv, PTL

\* When requests do not overlap, what is public rests on what is public.
THEOREM PublicRestsOnPublic == SerialSpec => []PublishedClosed
<1>1. SerialInv => PublishedClosed
  BY DEF SerialInv, Public, PublishedClosed
<1>  QED BY <1>1, AlwaysSerialInv, PTL

\* When requests do not overlap, a valid verdict would be reached again: each
\* change to a lemma, an entry or a source clears every verdict that rests on it.
THEOREM ValidVerdictsReproduce == SerialSpec => []ValidIsReproducible
<1>1. AnyOverlap /\ SerialInv => ValidIsReproducible
  <2> SUFFICES ASSUME AnyOverlap, SerialInv, NEW p \in Proofs, db.verdict[p] = "valid"
               PROVE  Stands(Check(db, p, db.refs[p], db.source[p]))
    BY DEF ValidIsReproducible
  <2>1. /\ db \in Databases /\ NoCycle(db.refs) /\ Standing(db) /\ CheckedAs(db, p)
    BY DEF AnyOverlap, TypeOK, Acyclic, NoCycle, LibraryStands, SerialInv, Checked
  <2>2. Stands(db.lines[p])
    BY <2>1 DEF CheckedAs, VerdictOf, Stands
  <2>3. db.source[p] \in Texts /\ p \in db.exists
    BY <2>1, <2>2, StandingText DEF CheckedAs, Stands
  <2>4. Checked(db)
    BY DEF SerialInv
  <2>  QED BY <2>1, <2>2, <2>3, <2>4, RecordChecked
<1>  QED BY <1>1, AlwaysSerialInv, AlwaysAnyOverlap, PTL
-----------------------------------------------------------------------------
(* The contract.                                                           *)

\* The claim of a text whose every citation is resolved.
TextClaim(t) == [states |-> Concludes[t], lemmas |-> LemmaCitations[t],
                 theorems |-> TheoremCitations[t]]

ClaimsIn(d) == [p \in Proofs |-> ClaimIn(d, p)]

LEMMA TextClaimType ==
    ASSUME NEW t \in Texts
    PROVE  TextClaim(t) \in Contract!Claims /\ TextClaim(t) # NoClaim
<1>1. TextClaim(t) \in Contract!Claims
  BY TextAssumption DEF TextClaim, Contract!Claims
<1>  QED BY <1>1, ClaimAssumption

\* A proof claims what its source says exactly when its check stands.
LEMMA ClaimIsTheText ==
    ASSUME NEW d \in Databases, NEW p \in Proofs, CheckedAs(d, p)
    PROVE  /\ Stands(d.lines[p]) => /\ d.source[p] \in Texts
                                    /\ ClaimIn(d, p) = TextClaim(d.source[p])
           /\ ~Stands(d.lines[p]) => ClaimIn(d, p) = NoClaim
<1>1. d.verdict[p] = "valid" <=> Stands(d.lines[p])
  BY DEF CheckedAs, VerdictOf, Stands
<1>2. Stands(d.lines[p]) => d.source[p] \in Texts /\ d.lines[p] = FullLines(d.source[p])
  BY StandingText DEF CheckedAs
<1>3. Stands(d.lines[p]) => d.lines[p] # NoLines
  BY DEF Stands
<1>  QED BY <1>1, <1>2, <1>3 DEF ClaimIn, TextClaim, FullLines

\* What a standing check resolved supports the claim of its text.
LEMMA ClaimSupported ==
    ASSUME NEW d \in Databases, Checked(d), NEW t \in Texts, NEW refs,
           LemmasStand(d, refs, t), CitationsHold(d, t)
    PROVE  Contract!Supported(TextClaim(t), ClaimsIn(d), d.entry)
<1>1. ASSUME NEW c \in LemmaCitations[t]
      PROVE  ClaimsIn(d)[c[1]] # NoClaim /\ ClaimsIn(d)[c[1]].states = c[2]
  <2>1. c[1] \in Proofs
    BY TextAssumption
  <2>2. /\ Stands(d.lines[c[1]])
        /\ Concludes[d.lines[c[1]].text] = c[2]
    BY DEF LemmasStand, IsUsableLemma, Stands
  <2>3. CheckedAs(d, c[1])
    BY <2>1 DEF Checked
  <2>4. /\ d.source[c[1]] \in Texts
        /\ ClaimIn(d, c[1]) = TextClaim(d.source[c[1]])
    BY <2>1, <2>2, <2>3, ClaimIsTheText
  <2>5. d.lines[c[1]].text = d.source[c[1]]
    BY <2>2, <2>3 DEF CheckedAs, Stands
  <2>6. TextClaim(d.source[c[1]]) # NoClaim
    BY <2>4, TextClaimType
  <2>7. TextClaim(d.source[c[1]]).states = c[2]
    BY <2>2, <2>5 DEF TextClaim
  <2>  QED BY <2>1, <2>4, <2>6, <2>7 DEF ClaimsIn
<1>2. \A c \in TheoremCitations[t] : d.entry[c[1]] # NoEntry /\ d.entry[c[1]].states = c[2]
  BY DEF CitationsHold
<1>  QED BY <1>1, <1>2 DEF Contract!Supported, TextClaim

\* The claims of a sound database are all supported.
LEMMA StandingSupported ==
    ASSUME NEW d \in Databases, Checked(d), Standing(d), NEW p \in Proofs,
           ClaimIn(d, p) # NoClaim
    PROVE  /\ Stands(d.lines[p]) /\ d.source[p] \in Texts
           /\ ClaimIn(d, p) = TextClaim(d.source[p])
           /\ d.lines[p] = FullLines(d.source[p])
           /\ LemmasStand(d, d.refs[p], d.source[p])
           /\ Contract!Supported(ClaimIn(d, p), ClaimsIn(d), d.entry)
<1>1. CheckedAs(d, p)
  BY DEF Checked
<1>2. /\ Stands(d.lines[p]) /\ d.source[p] \in Texts
      /\ ClaimIn(d, p) = TextClaim(d.source[p])
  BY <1>1, ClaimIsTheText
<1>3. d.lines[p] = FullLines(d.source[p]) /\ LemmasStand(d, d.refs[p], d.source[p])
  BY <1>1, <1>2 DEF CheckedAs
<1>4. CitationsHold(d, d.source[p])
  BY <1>2, <1>3 DEF Standing, LinesStand, Stands, CitationsHold, FullLines
<1>5. Contract!Supported(TextClaim(d.source[p]), ClaimsIn(d), d.entry)
  BY <1>2, <1>3, <1>4, ClaimSupported
<1>  QED BY <1>2, <1>3, <1>5

\* A step of the store about p is a step of the contract about p.
LEMMA StepMoves ==
    ASSUME NEW p \in Proofs,
           db \in Databases, Checked(db), Standing(db),
           db' \in Databases, Checked(db'), Standing(db'), NoCycle(db'.refs),
           StepOf(db, db', p)
    PROVE  Contract!Move(p)
<1> DEFINE d == db
           e == db'
<1>1. \A q \in Proofs : /\ ClaimIn(d, q) \in Contract!Claims \cup {NoClaim}
                        /\ ClaimIn(e, q) \in Contract!Claims \cup {NoClaim}
  BY StandingSupported, TextClaimType
<1>2. ASSUME NEW q \in Proofs \ {p} PROVE ClaimIn(e, q) \in {ClaimIn(d, q), NoClaim}
  <2>1. e.lines[q] \in {d.lines[q], NoLines}
    BY DEF StepOf
  <2>2. CASE e.lines[q] = NoLines
    BY <2>2 DEF ClaimIn
  <2>3. CASE e.lines[q] = d.lines[q]
    <3>1. e.verdict[q] = d.verdict[q]
      BY <2>3 DEF Checked, CheckedAs
    <3>  QED BY <2>3, <3>1 DEF ClaimIn
  <2>  QED BY <2>1, <2>2, <2>3
<1>3. ASSUME NEW l \in Labels, e.entry[l] # d.entry[l]
      PROVE  /\ d.entry[l] # NoEntry => d.entry[l].by = p
             /\ e.entry[l] # NoEntry =>
                  Contract!Warranted(e.entry[l], p, ClaimsIn(d), d.entry, ClaimIn(e, p))
  <2>1. /\ d.entry[l] # NoEntry => d.entry[l].by = p
        /\ e.entry[l] # NoEntry => Made(e.entry[l], d, e, p)
    BY <1>3 DEF StepOf
  <2>2. ASSUME Made(e.entry[l], d, e, p)
        PROVE  Contract!Warranted(e.entry[l], p, ClaimsIn(d), d.entry, ClaimIn(e, p))
    <3>1. PICK t \in Texts :
            /\ LemmasStand(d, d.refs[p], t)
            /\ CitationsHold(d, t)
            /\ e.entry[l].states = Concludes[t]
            /\ e.lines[p] \in {FullLines(t), NoLines}
      BY <2>2 DEF Made
    <3>2. e.entry[l].by = p
      BY <2>2 DEF Made
    <3>3. Contract!Supported(TextClaim(t), ClaimsIn(d), d.entry)
      BY <3>1, ClaimSupported
    <3>4. ClaimIn(e, p) \in {TextClaim(t), NoClaim}
      BY <3>1 DEF ClaimIn, TextClaim, FullLines
    <3>5. TextClaim(t) \in Contract!Claims /\ TextClaim(t).states = Concludes[t]
      BY TextClaimType DEF TextClaim
    <3>  QED BY <3>1, <3>2, <3>3, <3>4, <3>5 DEF Contract!Warranted
  <2>  QED BY <2>1, <2>2
<1>4. \A q \in Proofs : ClaimIn(e, q) # NoClaim =>
        Contract!Supported(ClaimIn(e, q), ClaimsIn(e), e.entry)
  BY StandingSupported
<1>5. ASSUME NEW q \in Proofs, Contract!RestsOn(ClaimIn(e, q), p)
      PROVE  ClaimIn(e, p) = ClaimIn(d, p)
  <2>1. ClaimIn(e, q) # NoClaim
    BY <1>5 DEF Contract!RestsOn
  <2>2. /\ Stands(e.lines[q]) /\ e.lines[q] = FullLines(e.source[q])
        /\ e.source[q] \in Texts
        /\ ClaimIn(e, q) = TextClaim(e.source[q])
        /\ LemmasStand(e, e.refs[q], e.source[q])
    BY <2>1, StandingSupported
  <2>3. PICK c \in LemmaCitations[e.source[q]] : c[1] = p
    BY <1>5, <2>2 DEF Contract!RestsOn, TextClaim
  <2>4. p \in e.refs[q] /\ Stands(e.lines[p])
    BY <2>2, <2>3 DEF LemmasStand, IsUsableLemma, Stands
  <2>5. q # p
    <3>1. e.refs[p] \cap ({p} \cup DependentClosure(e, {p})) = {}
      BY OwnClosure
    <3>  QED BY <2>4, <3>1
  <2>6. e.lines[q] = d.lines[q] /\ e.lines[q] # NoLines
    BY <2>2, <2>5 DEF StepOf, Stands
  <2>7. CheckedAs(d, q) /\ CheckedAs(e, q) /\ CheckedAs(d, p) /\ CheckedAs(e, p)
    BY DEF Checked
  <2>8. d.source[q] = e.source[q]
    BY <2>6, <2>7 DEF CheckedAs
  <2>9. LemmasStand(d, d.refs[q], e.source[q])
    BY <2>2, <2>6, <2>7, <2>8 DEF CheckedAs
  <2>10. p \in d.refs[q] /\ Stands(d.lines[p])
    BY <2>3, <2>9 DEF LemmasStand, IsUsableLemma, Stands
  <2>11. e.source[p] = d.source[p]
    BY <2>5, <2>6, <2>10 DEF StepOf
  <2>  QED BY <2>4, <2>7, <2>10, <2>11, ClaimIsTheText
<1>6. /\ ClaimsIn(d) = [q \in Proofs |-> ClaimIn(db, q)]
      /\ ClaimsIn(e) = [q \in Proofs |-> ClaimIn(db', q)]
  BY DEF ClaimsIn
<1>7. e.entry \in [Labels -> Contract!Entries \cup {NoEntry}]
  BY DEF Databases, Entries, Contract!Entries
<1>8. ClaimsIn(e) \in [Proofs -> Contract!Claims \cup {NoClaim}]
  BY <1>1 DEF ClaimsIn
<1>9. \A q \in Proofs : ClaimsIn(d)[q] = ClaimIn(d, q) /\ ClaimsIn(e)[q] = ClaimIn(e, q)
  BY DEF ClaimsIn
<1>  QED
  <2>1. \A q \in Proofs \ {p} : ClaimsIn(e)[q] \in {ClaimsIn(d)[q], NoClaim}
    BY <1>2, <1>9
  <2>2. \A l \in Labels : e.entry[l] # d.entry[l] =>
          /\ d.entry[l] # NoEntry => d.entry[l].by = p
          /\ e.entry[l] # NoEntry =>
               Contract!Warranted(e.entry[l], p, ClaimsIn(d), d.entry, ClaimsIn(e)[p])
    BY <1>3, <1>9
  <2>3. \A q \in Proofs : ClaimsIn(e)[q] # NoClaim =>
          Contract!Supported(ClaimsIn(e)[q], ClaimsIn(e), e.entry)
    BY <1>4, <1>9
  <2>4. ClaimsIn(e)[p] # ClaimsIn(d)[p] =>
          \A q \in Proofs : ~Contract!RestsOn(ClaimsIn(e)[q], p)
    BY <1>5, <1>9
  <2>  QED BY <1>6, <1>7, <1>8, <2>1, <2>2, <2>3, <2>4 DEF Contract!Move

\* The store implements the contract when requests do not overlap, for every
\* instance: so a verdict that is shown rests, as long as it is shown, on claims
\* and entries that are there.
THEOREM StoreKeepsTheContract == SerialSpec => ImplementsContract
<1>1. Init => Contract!Init
  BY DEF Init, Contract!Init, ClaimIn
<1>2. ASSUME AnyOverlap, SerialInv, AnyOverlap', SerialInv', [Next /\ OneAtATime']_vars
      PROVE  [Contract!Next]_(Contract!vars)
  <2>1. /\ db \in Databases /\ Checked(db) /\ Standing(db)
        /\ db' \in Databases /\ Checked(db') /\ Standing(db') /\ NoCycle(db'.refs)
    BY <1>2 DEF AnyOverlap, TypeOK, Acyclic, NoCycle, LibraryStands, SerialInv
  <2>2. ASSUME NEW r \in Requests, Finish(r) PROVE Contract!Next
    <3>1. Done(req[r].op.proof) /\ req[r].op.proof \in Proofs
      <4>1. Ready(r)
        BY <1>2, <2>2, FinishReady
      <4>2. req[r].op \in Operations
        BY <1>2, <2>2 DEF AnyOverlap, TypeOK, Finish, FinishGone, FinishVerify, FinishPatch,
           FinishReferences, FinishPromote, FinishRewrite, FinishRetire, FinishDelete, Granted
      <4>  QED BY <2>2, <4>1, <4>2, FinishDone, OperationType
    <3>2. Contract!Move(req[r].op.proof)
      BY <2>1, <3>1, StepMoves DEF Done
    <3>  QED BY <3>1, <3>2 DEF Contract!Next
  <2>3. ASSUME NEW op \in Operations, Create(op)
        PROVE  db'.lines = db.lines /\ db'.verdict = db.verdict /\ db'.entry = db.entry
    BY <1>2, <2>3, CreateKeeps DEF AnyOverlap, SerialInv
  <2>4. ASSUME db'.lines = db.lines, db'.verdict = db.verdict, db'.entry = db.entry
        PROVE  UNCHANGED Contract!vars
    BY <2>4 DEF Contract!vars, ClaimIn
  <2>5. CASE UNCHANGED db
    BY <2>4, <2>5
  <2>  QED BY <1>2, <2>2, <2>3, <2>4, <2>5 DEF Next, Begin, Enter, vars
<1>  QED BY <1>1, <1>2, AlwaysAnyOverlap, AlwaysSerialInv, PTL
        DEF SerialSpec, ImplementsContract, Contract!Spec

(* What the contract keeps, and with it the store.                         *)

\* After a step about p, a circle of claims would leave a circle without p that
\* was there before the step: p cannot be on it when its claim changed, since
\* then nothing rests on p.
LEMMA CirclesNeedNoChange ==
  ASSUME NEW c, NEW d, NEW p \in Proofs,
         \A S \in (SUBSET Proofs) \ {{}} : \E q \in S : \A u \in S : ~Contract!RestsOn(c[q], u),
         \A q \in Proofs \ {p} : d[q] \in {c[q], NoClaim},
         d[p] # c[p] => \A q \in Proofs : ~Contract!RestsOn(d[q], p)
  PROVE  \A S \in (SUBSET Proofs) \ {{}} : \E q \in S : \A u \in S : ~Contract!RestsOn(d[q], u)
<1> SUFFICES ASSUME NEW S \in SUBSET Proofs, S # {},
                    \A q \in S : \E u \in S : Contract!RestsOn(d[q], u)
             PROVE  FALSE
  OBVIOUS
<1>1. \A q \in S : d[q] # NoClaim
  BY DEF Contract!RestsOn
<1>2. \A q \in S \ {p} : d[q] = c[q]
  BY <1>1
<1>3. CASE d[p] = c[p] \/ p \notin S
  <2>1. \A q \in S : d[q] = c[q]
    BY <1>2, <1>3
  <2>2. \A q \in S : \E u \in S : Contract!RestsOn(c[q], u)
    BY <2>1
  <2>  QED BY <2>2
<1>4. CASE d[p] # c[p] /\ p \in S
  <2>1. \A q \in S : \E u \in S \ {p} : Contract!RestsOn(d[q], u)
    BY <1>4
  <2>2. S \ {p} # {}
    BY <1>4, <2>1
  <2>3. \A q \in S \ {p} : \E u \in S \ {p} : Contract!RestsOn(c[q], u)
    BY <1>2, <2>1
  <2>  QED BY <2>2, <2>3
<1>  QED BY <1>3, <1>4

LEMMA ClaimsBottomOut ==
  /\ Contract!Grounded = \A S \in (SUBSET Proofs) \ {{}} :
                           \E q \in S : \A u \in S : ~Contract!RestsOn(ClaimsIn(db)[q], u)
  /\ Contract!Grounded' = \A S \in (SUBSET Proofs) \ {{}} :
                            \E q \in S : \A u \in S : ~Contract!RestsOn(ClaimsIn(db')[q], u)
BY DEF Contract!Grounded, Contract!RestsOn, ClaimsIn

LEMMA MoveGrounded == ASSUME NEW p \in Proofs, Contract!Grounded, Contract!Move(p) PROVE Contract!Grounded'
<1>1. /\ \A q \in Proofs \ {p} : ClaimsIn(db')[q] \in {ClaimsIn(db)[q], NoClaim}
      /\ ClaimsIn(db')[p] # ClaimsIn(db)[p] => \A q \in Proofs : ~Contract!RestsOn(ClaimsIn(db')[q], p)
  BY DEF Contract!Move, ClaimsIn
<1>  QED BY <1>1, CirclesNeedNoChange, ClaimsBottomOut

\* Under the contract no claims ever rest on one another in a circle: clearing
\* every dependent of a changed proof is enough for that.
THEOREM ContractGrounded == ImplementsContract => []Contract!Grounded
<1>1. Contract!Init => Contract!Grounded
  BY DEF Contract!Init, Contract!Grounded, Contract!RestsOn
<1>2. Contract!Grounded /\ [Contract!Next]_(Contract!vars) => Contract!Grounded'
  <2>1. CASE Contract!Next
    BY <2>1, MoveGrounded DEF Contract!Next
  <2>2. CASE UNCHANGED Contract!vars
    <3>1. ClaimsIn(db') = ClaimsIn(db)
      BY <2>2 DEF Contract!vars, ClaimsIn
    <3>  QED BY <3>1, ClaimsBottomOut
  <2>  QED BY <2>1, <2>2
<1>  QED BY <1>1, <1>2, PTL DEF ImplementsContract, Contract!Spec

\* So the valid verdicts of the store never rest on one another in a circle
\* while requests do not overlap: each bottoms out in proofs that cite no lemma.
THEOREM ClaimsGrounded == SerialSpec => []Contract!Grounded
BY StoreKeepsTheContract, ContractGrounded
=============================================================================
