-------------------------- MODULE MCMetamathImport --------------------------
(***************************************************************************)
(* Small files: one with two layers, nested scopes and proofs that cite    *)
(* one another, imported in every way; the permutations of a few           *)
(* statements; and every short proof of one theorem.                       *)
(***************************************************************************)
EXTENDS MetamathImportProps

ASSUME SortedFiles == VariablesSorted

CONSTANT MaxMishaps   \* how many things go wrong, or are asked for meanwhile

VARIABLE mishaps

MCInit == Init /\ mishaps = 0

MCNext ==
    \/ Progress /\ UNCHANGED mishaps
    \/ mishaps < MaxMishaps /\ Mishap /\ mishaps' = mishaps + 1

MCSpec == MCInit /\ [][MCNext]_<<vars, mishaps>>

MCVariables == {"ph", "ps", "x"}

wph == Floating("wph", "wff", "ph")
wps == Floating("wps", "wff", "ps")
vx  == Floating("vx", "setvar", "x")
wn  == Axiom("wn", "wff", <<"-.", "ph">>)
wal == Axiom("wal", "wff", <<"A.", "x", "ph">>)
ax  == Axiom("ax", Logical, <<"-.", "ph">>)
One == Header(1, "One")
Two == Header(1, "Two")
Sub == Header(2, "Sub")

\* The letters of a number, with two digits of each kind.
Number(n) ==
    CASE n = 1 -> <<Low(0)>> [] n = 2 -> <<Low(1)>>
      [] n = 3 -> <<High(0), Low(0)>> [] n = 4 -> <<High(0), Low(1)>>
      [] n = 5 -> <<High(1), Low(0)>>

Letters(ns) == FlattenSeq([i \in 1..Len(ns) |-> IF ns[i] = 0 THEN <<Save>> ELSE Number(ns[i])])

\* negate: from ph, -. ph.  twice: from ph, -. -. ph, by it.  last: -. -. -. ph,
\* by ax and twice.
Corpus ==
    << One, wph, wn, ax,
       Open, Essential("negate.1", <<"ph">>), Axiom("negate", Logical, <<"-.", "ph">>), Close,
       Theorem("first", <<"-.", "ph">>, <<"ax">>, Letters(<<1, 2>>)),
       Two, Sub,
       Open, Essential("twice.1", <<"ph">>),
       Theorem("twice", <<"-.", "-.", "ph">>, <<"wn", "negate">>, Letters(<<1, 3, 1, 2, 4, 4>>)), Close,
       vx, wal,
       Theorem("last", <<"-.", "-.", "-.", "ph">>, <<"wn", "ax", "twice">>,
               Letters(<<1, 0, 2, 5, 3, 4>>)) >>

TwoLayers == <<[name |-> "one", title |-> "One"], [name |-> "two", title |-> "Two"]>>

Job(file, plan, limit, batch, owned) ==
    [file |-> file, plan |-> plan, limit |-> limit, batch |-> batch, owned |-> owned]

CorpusJobs ==
    {Job(Corpus, plan, limit, batch, owned) :
       plan \in {<< >>, TwoLayers}, limit \in 2..3, batch \in 0..2, owned \in BOOLEAN}

\* The orders a few statements may come in: notation of a second sort, or a
\* second variable of the first, or a $p that nothing proves.
given == Bare("given", <<"-.", "ph">>)
c2 == Axiom("c2", "class", <<"2">>)
Shuffled ==
    UNION {{<<One>> \o file : file \in SetToSeqs({wph, other, wn, Two,
              Theorem("t1", <<"-.", "ph">>, <<"wn">>, Letters(<<1, 2>>)),
              Theorem("t2", <<"ps">>, << >>, Letters(<<1>>))})} : other \in {wps, c2, given}}

ShuffledJobs == {Job(file, TwoLayers, 2, 1, FALSE) : file \in Shuffled}

\* Every string of up to so many letters as the proof of one theorem.
MaxLetters == 5
Spelled(letters) ==
    << wph, wn, Open, Essential("r.1", <<"ph">>), Axiom("r", Logical, <<"-.", "ph">>), Close,
       Open, Essential("t.1", <<"ph">>), Theorem("t", <<"-.", "ph">>, <<"r", "wn">>, letters), Close >>

SpelledJobs ==
    {Job(Spelled(letters), << >>, 1, 1, FALSE) :
       letters \in UNION {[1..n -> {Low(0), Low(1), High(0), Save}] : n \in 1..MaxLetters}}

AllJobs == CorpusJobs \cup ShuffledJobs \cup SpelledJobs

\* A layer that opens at the last theorem.
EdgeJobs ==
    {Job(<<One, wph, wn, ax, Theorem("t1", <<"-.", "ph">>, <<"ax">>, Letters(<<1, 2>>)),
           Two, wps, Theorem("t2", <<"-.", "ps">>, <<"ax">>, Letters(<<1, 2>>))>>,
         TwoLayers, limit, 1, FALSE) : limit \in 1..2}
=============================================================================
