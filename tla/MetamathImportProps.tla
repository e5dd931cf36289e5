------------------------ MODULE MetamathImportProps -------------------------
(***************************************************************************)
(* What an import of a Metamath file must keep true.                       *)
(***************************************************************************)
EXTENDS MetamathImport

\* A proof of the corpus is readable by everyone only once its run is whole:
\* it verified, unless its owner has had it checked since, it points at the entry
\* it establishes if that one stored, and everything its file documents is there (_publish: "a run that fails anywhere
\* leaves everything a draft").
PublishedWhole ==
    \A p \in store.proofs : p.published =>
        /\ p.valid \/ p.again
        /\ (p.theorem = NoEntry) = (<<p.system, p.label>> \notin store.entries)
        /\ Descriptions(p.system[1]) \subseteq store.described
        /\ <<p.system[1], 1>> \in store.notation

\* A proof whose row says its citations are recorded has, for every library
\* label its lines name, a committed entry of a system its own inherits from,
\* and of a statement the file makes before the theorem (_store: "half of it is
\* the state the flag exists to make impossible").
CitationsRecorded ==
    \A p \in store.proofs : p.recorded =>
        \A x \in p.uses :
            \E e \in p.refs \cap store.entries :
                e[2] = x /\ e[1] \in Chain(p.system) /\ Position(db, x) < Position(db, p.label)

\* A theorem is checked under the grammar its own position has, though the walk
\* grows one system for the whole file: the sorts hold the productions that
\* build_spec would give a system made for this theorem alone, and a |- statement
\* is refused exactly when that system could not be built for want of a sort.
GrammarAsOf ==
    run.stage = "promote" =>
        LET fresh == BuildSpec(db, "", label, label)
        IN /\ run.admitted = fresh.productions
           /\ (job.logicalFrom = Never \/ run.at < job.logicalFrom) = (fresh.line = NoSort)

DeclaredAt(x) ==
    IF x \in {Notation(db, l) : l \in {y \in Range(db.order) : IsNotation(db, y)}}
    THEN Position(db, x.name[1])
    ELSE LET of == {y \in Typed(db) : x = Leaf(y[1], y[2]) \/ x = Inclusion(y[1])}
         IN CHOOSE q \in {TypedFrom(db, y) : y \in of} : \A y \in of : q <= TypedFrom(db, y)

Specs == CorpusSpecs(db, "corpus", job.plan, horizon)

\* The layers of an import together declare what one system would, and no
\* production twice (corpus_specs: the split "moves nothing about what the grammar
\* is"), and they are the layers its rows are stored by.
LayersPartition ==
    run = NoRun =>
        LET whole == CorpusSpec(db, "corpus", horizon)
        IN /\ Layered(Specs).productions = whole.productions
           /\ Layered(Specs).line = whole.line
           /\ Len(Specs) = Len(opens)
           /\ \A i, j \in 1..Len(Specs) :
                i # j => Specs[i].productions \cap Specs[j].productions = {}

\* A layer declares what its own part of the file does.
LayersKeepTheirOwn ==
    \A i \in 1..Len(Specs) : \A x \in Specs[i].productions : LayerOf(opens, DeclaredAt(x)) = i

\* So it is when no layer opens at the last theorem walked.
InnerLayersKeepTheirOwn == run = NoRun /\ Last(opens) # reach => LayersKeepTheirOwn

\* _variable_scope: "a $f first typed at the next layer's opening assertion would
\* be declared by the layer before it, which is the one thing the partition exists
\* to prevent".
OpeningVariablesFollow == run = NoRun => LayersKeepTheirOwn

\* Splitting the outline among the layers files no proof elsewhere: it is in a
\* folder of its own system, which is the last section the file opens before it.
FiledUnderSection ==
    \A p \in store.proofs :
        LET before == {k \in 1..Len(db.outline) : db.outline[k].at <= Position(db, p.label)}
        IN IF before = {} THEN p.folder = NoFolder
           ELSE /\ p.folder = CHOOSE k \in before : \A x \in before : x <= k
                /\ \E f \in store.folders : f.system = p.system /\ f.section = p.folder

\* The variables of the files are of sorts, and not of |-, the typecode that asserts.
VariablesSorted ==
    \A j \in Jobs : \A i \in 1..Len(j.file) :
        j.file[i].kind = "$f" => j.file[i].typecode # Logical

\* The lines of a proof that decodes establish the theorem and nothing else: the
\* last of them states it, each cites lines above it, an essential hypothesis is
\* stated once, and every label is in scope or of an earlier assertion.
LinesReachStatement ==
    run = NoRun =>
        \A t \in Checked : job.proofs[t].ok =>
            LET lines == job.proofs[t].lines
            IN /\ lines # << >> /\ Last(lines).tokens = db.assertions[t].tokens
               /\ \A i \in 1..Len(lines) :
                    /\ \A c \in Range(lines[i].cites) : c < i
                    /\ IF lines[i].by \in DOMAIN db.hypotheses
                       THEN /\ lines[i].by \in db.assertions[t].active
                            /\ \A j \in 1..i-1 : lines[j].by # lines[i].by
                       ELSE Position(db, lines[i].by) < Position(db, t)
=============================================================================
