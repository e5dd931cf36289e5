------------------------ MODULE MetamathImportProofs ------------------------
(***************************************************************************)
(* Proofs, for any files and plans and any number of runs, that what an    *)
(* import publishes is whole, that the citations it records resolve, that  *)
(* its walk checks a theorem under the grammar of its own position, that   *)
(* the lines of a proof establish its theorem and that a layer declares    *)
(* its own part of the file; and, for them, of what a file that parses and *)
(* a proof that decodes are.                                               *)
(***************************************************************************)
EXTENDS MetamathImportProps, WellFoundedInduction, TLAPS

(* Sequences.                                                              *)

FilterStep(c, kept, x) == IF x \in c.set THEN Append(kept, x) ELSE kept
Filtered(c, n, kept) ==
    /\ kept \in Seq(c.set)
    /\ \A k \in 1..n : c.seq[k] \in c.set => \E j \in 1..Len(kept) : kept[j] = c.seq[k]
    /\ \A j \in 1..Len(kept) : \E k \in 1..n : c.seq[k] = kept[j]
    /\ Len(kept) # 0 =>
         \E k \in 1..n : kept[1] = c.seq[k] /\ \A l \in 1..(k - 1) : c.seq[l] \notin c.set
Filtering == INSTANCE FoldProofs WITH Op <- FilterStep, Keeps <- Filtered

LEMMA FilterKeeps ==
  ASSUME NEW c, NEW n \in Nat \ {0}, NEW kept, Filtered(c, n - 1, kept)
  PROVE  Filtered(c, n, FilterStep(c, kept, c.seq[n]))
<1> DEFINE x == c.seq[n]
           m == Len(kept)
<1>1. /\ kept \in Seq(c.set) /\ m \in Nat
      /\ \A k \in 1..(n - 1) : c.seq[k] \in c.set => \E j \in 1..m : kept[j] = c.seq[k]
      /\ \A j \in 1..m : \E k \in 1..(n - 1) : c.seq[k] = kept[j]
      /\ m # 0 => \E k \in 1..(n - 1) : /\ kept[1] = c.seq[k]
                                       /\ \A l \in 1..(k - 1) : c.seq[l] \notin c.set
  BY DEF Filtered
<1>2. 1..(n - 1) \subseteq 1..n /\ n \in 1..n /\ \A k \in 1..n : k = n \/ k \in 1..(n - 1)
  OBVIOUS
<1>3. CASE x \notin c.set
  <2>1. FilterStep(c, kept, x) = kept
    BY <1>3 DEF FilterStep
  <2>2. \A k \in 1..n : c.seq[k] \in c.set => \E j \in 1..m : kept[j] = c.seq[k]
    BY <1>1, <1>2, <1>3
  <2>3. Filtered(c, n, kept)
    BY <1>1, <1>2, <2>2 DEF Filtered
  <2>  QED BY <2>1, <2>3
<1>4. CASE x \in c.set
  <2> DEFINE r == Append(kept, x)
  <2>1. /\ r \in Seq(c.set) /\ Len(r) = m + 1 /\ r[m + 1] = x
        /\ \A j \in 1..m : r[j] = kept[j]
    <3>1. kept \in Seq(c.set) /\ x \in c.set
      BY <1>1, <1>4
    <3> HIDE DEF x
    <3>  QED BY <3>1
  <2>2. 1..m \subseteq 1..(m + 1) /\ m + 1 \in 1..(m + 1)
        /\ \A j \in 1..(m + 1) : j = m + 1 \/ j \in 1..m
    BY <1>1
  <2> HIDE DEF r, m, x
  <2>3. \A k \in 1..n : c.seq[k] \in c.set => \E j \in 1..(m + 1) : r[j] = c.seq[k]
    <3> SUFFICES ASSUME NEW k \in 1..n, c.seq[k] \in c.set
                 PROVE  \E j \in 1..(m + 1) : r[j] = c.seq[k]
      OBVIOUS
    <3>1. CASE k = n
      BY <2>1, <2>2, <3>1 DEF x
    <3>2. CASE k \in 1..(n - 1)
      BY <1>1, <2>1, <2>2, <3>2
    <3>  QED BY <1>2, <3>1, <3>2
  <2>4. \A j \in 1..(m + 1) : \E k \in 1..n : c.seq[k] = r[j]
    <3> SUFFICES ASSUME NEW j \in 1..(m + 1) PROVE \E k \in 1..n : c.seq[k] = r[j]
      OBVIOUS
    <3>1. CASE j = m + 1
      BY <1>2, <2>1, <3>1 DEF x
    <3>2. CASE j \in 1..m
      <4>1. r[j] = kept[j]
        BY <2>1, <3>2
      <4>2. PICK k \in 1..(n - 1) : c.seq[k] = kept[j]
        BY <1>1, <3>2
      <4>  QED BY <1>2, <4>1, <4>2
    <3>  QED BY <2>2, <3>1, <3>2
  <2>5. \E k \in 1..n : r[1] = c.seq[k] /\ \A l \in 1..(k - 1) : c.seq[l] \notin c.set
    <3>1. CASE m = 0
      <4>1. r[1] = c.seq[n]
        BY <2>1, <3>1 DEF x
      <4>2. \A j \in 1..m : FALSE
        BY <3>1
      <4>3. \A k \in 1..(n - 1) : c.seq[k] \notin c.set
        BY <1>1, <4>2
      <4>  QED BY <1>2, <4>1, <4>3
    <3>2. CASE m # 0
      <4>1. 1 \in 1..m
        BY <1>1, <3>2
      <4>2. r[1] = kept[1]
        BY <2>1, <4>1
      <4>  QED BY <1>1, <1>2, <3>2, <4>2
    <3>  QED BY <3>1, <3>2
  <2>6. Filtered(c, n, r)
    BY <2>1, <2>3, <2>4, <2>5 DEF Filtered
  <2>7. FilterStep(c, kept, c.seq[n]) = r
    BY <1>4 DEF FilterStep, r, x
  <2>  QED BY <2>6, <2>7
<1>  QED BY <1>3, <1>4 DEF x

\* A filtered sequence has the elements of the sequence that are in the set, and
\* begins with the first of them.
LEMMA FilterType ==
  ASSUME NEW S, NEW s \in Seq(S), NEW set
  PROVE  /\ Filter(s, set) \in Seq(set)
         /\ Range(Filter(s, set)) = Range(s) \cap set
         /\ Filter(s, set) # << >> =>
              \E k \in 1..Len(s) :
                 Filter(s, set)[1] = s[k] /\ \A l \in 1..(k - 1) : s[l] \notin set
<1> DEFINE c == [set |-> set, seq |-> s]
           f == Filter(s, set)
<1>1. c.set = set /\ c.seq = s
  OBVIOUS
<1>2. f = Filtering!Recursion(c, << >>, s)
  BY <1>1 DEF Filter, FilterStep, Filtering!Recursion, Filtering!Recurs
<1> HIDE DEF c, f
<1>3. Filtered(c, 0, << >>)
  BY DEF Filtered
<1>4. DOMAIN s = 1..Len(s) /\ Len(s) \in Nat
  OBVIOUS
<1>5. ASSUME NEW a, NEW i \in 1..Len(s), Filtered(c, i - 1, a)
      PROVE  Filtered(c, i, FilterStep(c, a, s[i]))
  <2>1. i \in Nat \ {0}
    BY <1>4
  <2>  QED BY <1>1, <1>5, <2>1, FilterKeeps
<1>6. Filtered(c, Len(s), f)
  <2>1. Filtered(c, Len(s), Filtering!Recursion(c, << >>, s))
    <3> HIDE DEF Filtered, FilterStep
    <3>  QED BY <1>3, <1>4, <1>5, Filtering!RecursionKeeps
  <2>  QED BY <1>2, <2>1
<1>7. /\ f \in Seq(set) /\ Len(f) \in Nat
      /\ \A k \in 1..Len(s) : s[k] \in set => \E j \in 1..Len(f) : f[j] = s[k]
      /\ \A j \in 1..Len(f) : \E k \in 1..Len(s) : s[k] = f[j]
      /\ Len(f) # 0 =>
           \E k \in 1..Len(s) : f[1] = s[k] /\ \A l \in 1..(k - 1) : s[l] \notin set
  <2>1. Len(f) \in Nat
    BY <1>6 DEF Filtered
  <2>  QED BY <1>1, <1>6, <2>1, Zenon DEF Filtered
<1>8. Range(f) = {f[j] : j \in 1..Len(f)} /\ Range(s) = {s[k] : k \in 1..Len(s)}
  BY <1>7 DEF Range
<1>9. \A j \in 1..Len(f) : f[j] \in set
  BY <1>7
<1>10. Range(f) = Range(s) \cap set
  <2>1. ASSUME NEW x \in Range(f) PROVE x \in Range(s) \cap set
    BY <1>7, <1>8, <1>9
  <2>2. ASSUME NEW x \in Range(s) \cap set PROVE x \in Range(f)
    <3>1. PICK k \in 1..Len(s) : s[k] = x
      BY <1>8
    <3>2. s[k] \in set
      BY <3>1
    <3>3. PICK j \in 1..Len(f) : f[j] = s[k]
      BY <1>7, <3>2
    <3>  QED BY <1>8, <3>1, <3>3
  <2>  QED BY <2>1, <2>2
<1>11. f # << >> => Len(f) # 0
  BY <1>7
<1>  QED BY <1>7, <1>10, <1>11 DEF f

GatherStep(c, all, scope) == all \o scope[c.field]
Gathering(c, n, all) == all \in Seq(c.set)
Joining == INSTANCE FoldProofs WITH Op <- GatherStep, Keeps <- Gathering

\* What all scopes hold is of the type of what each holds.
LEMMA GatheredType ==
  ASSUME NEW d, NEW field, NEW S, DOMAIN d.scopes = 1..Len(d.scopes), Len(d.scopes) \in Nat,
         \A i \in 1..Len(d.scopes) : d.scopes[i][field] \in Seq(S)
  PROVE  Gathered(d, field) \in Seq(S)
<1> DEFINE c == [field |-> field, set |-> S]
<1>1. c.field = field /\ c.set = S
  OBVIOUS
<1>2. Gathered(d, field) = Joining!Recursion(c, << >>, d.scopes)
  BY <1>1 DEF Gathered, GatherStep, Joining!Recursion, Joining!Recurs
<1> HIDE DEF c
<1>3. Gathering(c, 0, << >>)
  BY DEF Gathering
<1>4. ASSUME NEW a, NEW i \in 1..Len(d.scopes), Gathering(c, i - 1, a)
      PROVE  Gathering(c, i, GatherStep(c, a, d.scopes[i]))
  BY <1>1, <1>4 DEF Gathering, GatherStep
<1>5. Gathering(c, Len(d.scopes), Joining!Recursion(c, << >>, d.scopes))
  <2> HIDE DEF Gathering, GatherStep
  <2>  QED BY <1>3, <1>4, Joining!RecursionKeeps
<1>  QED BY <1>1, <1>2, <1>5 DEF Gathering
-----------------------------------------------------------------------------
(* A file that has been read.                                              *)

Scopes == [hypotheses : Seq(STRING), distinct : Seq(Seq(STRING))]
Hypotheses == [kind : {"$f", "$e"}, typecode : Typecode, tokens : Seq(STRING), at : Nat]
Assertions ==
    [proved : BOOLEAN, typecode : Typecode, tokens : Seq(STRING), mandatory : Seq(STRING),
     active : SUBSET STRING, distinct : Seq(Seq(STRING)), table : Seq(STRING),
     letters : Seq(Letter)]
Sections == [level : Nat, title : STRING, at : Nat]
Dictionaries(V) == UNION {[X -> V] : X \in SUBSET STRING}
Databases ==
    [scopes : Seq(Scopes), hypotheses : Dictionaries(Hypotheses),
     assertions : Dictionaries(Assertions), order : Seq(STRING), outline : Seq(Sections),
     error : BOOLEAN]

\* A label is declared once, and what scopes and assertions name is a hypothesis.
Declared(d) ==
    /\ Len(d.scopes) >= 1
    /\ Range(d.order) = DOMAIN d.assertions
    /\ \A i, j \in 1..Len(d.order) : d.order[i] = d.order[j] => i = j
    /\ DOMAIN d.hypotheses \cap DOMAIN d.assertions = {}
    /\ \A i \in 1..Len(d.scopes) : d.scopes[i].hypotheses \in Seq(DOMAIN d.hypotheses)
    /\ \A a \in DOMAIN d.assertions : d.assertions[a].mandatory \in Seq(DOMAIN d.hypotheses)

Parsed(d) == d \in Databases /\ Declared(d)

LEMMA DictionaryType ==
  ASSUME NEW V, NEW f \in Dictionaries(V)
  PROVE  DOMAIN f \in SUBSET STRING /\ f \in [DOMAIN f -> V]
<1>1. PICK X \in SUBSET STRING : f \in [X -> V]
  BY DEF Dictionaries
<1>2. DOMAIN f = X
  BY <1>1
<1>  QED BY <1>1, <1>2

LEMMA WithType ==
  ASSUME NEW V, NEW f \in Dictionaries(V), NEW k \in STRING, NEW v \in V
  PROVE  With(f, k, v) \in Dictionaries(V)
<1> DEFINE X == DOMAIN f \cup {k}
<1>1. f \in [DOMAIN f -> V] /\ X \in SUBSET STRING
  BY DictionaryType
<1>2. With(f, k, v) \in [X -> V]
  BY <1>1 DEF With
<1>  QED BY <1>1, <1>2 DEF Dictionaries

LEMMA DatabaseType ==
  ASSUME NEW d \in Databases
  PROVE  /\ d.scopes \in Seq(Scopes) /\ Len(d.scopes) \in Nat
         /\ d.hypotheses \in Dictionaries(Hypotheses) /\ DOMAIN d.hypotheses \subseteq STRING
         /\ d.assertions \in Dictionaries(Assertions) /\ DOMAIN d.assertions \subseteq STRING
         /\ \A h \in DOMAIN d.hypotheses : d.hypotheses[h] \in Hypotheses
         /\ \A a \in DOMAIN d.assertions : d.assertions[a] \in Assertions
         /\ d.order \in Seq(STRING) /\ d.outline \in Seq(Sections) /\ d.error \in BOOLEAN
<1>1. /\ d.scopes \in Seq(Scopes)
      /\ d.hypotheses \in Dictionaries(Hypotheses)
      /\ d.assertions \in Dictionaries(Assertions)
      /\ d.order \in Seq(STRING) /\ d.outline \in Seq(Sections) /\ d.error \in BOOLEAN
  BY DEF Databases
<1>2. /\ DOMAIN d.hypotheses \in SUBSET STRING /\ d.hypotheses \in [DOMAIN d.hypotheses -> Hypotheses]
      /\ DOMAIN d.assertions \in SUBSET STRING /\ d.assertions \in [DOMAIN d.assertions -> Assertions]
  BY <1>1, DictionaryType
<1>  QED BY <1>1, <1>2

\* What is active is what the scopes hold, and what is mandatory is active.
LEMMA ScopesType ==
  ASSUME NEW d \in Databases, Declared(d), NEW tokens
  PROVE  /\ Active(d) \in Seq(DOMAIN d.hypotheses)
         /\ Mandatory(d, tokens) \in Seq(DOMAIN d.hypotheses)
         /\ Standing(d) \in Seq(Seq(STRING))
<1>1. DOMAIN d.scopes = 1..Len(d.scopes) /\ Len(d.scopes) \in Nat
  BY DatabaseType
<1>2. Active(d) \in Seq(DOMAIN d.hypotheses)
  <2>1. \A i \in 1..Len(d.scopes) : d.scopes[i]["hypotheses"] \in Seq(DOMAIN d.hypotheses)
    BY DEF Declared
  <2>  QED BY <1>1, <2>1, GatheredType DEF Active
<1>3. Standing(d) \in Seq(Seq(STRING))
  <2>1. \A i \in 1..Len(d.scopes) : d.scopes[i] \in Scopes
    BY <1>1, DatabaseType
  <2>2. \A i \in 1..Len(d.scopes) : d.scopes[i]["distinct"] \in Seq(Seq(STRING))
    BY <2>1 DEF Scopes
  <2>  QED BY <1>1, <2>2, GatheredType DEF Standing
<1>4. Mandatory(d, tokens) \in Seq(DOMAIN d.hypotheses)
  <2> DEFINE H == DOMAIN d.hypotheses
             essential == {h \in Range(Active(d)) : d.hypotheses[h].kind = "$e"}
             mentioned == Mentions(tokens) \cup UNION {Mentions(d.hypotheses[h].tokens) : h \in essential}
             floating == {h \in Range(Active(d)) \ essential : d.hypotheses[h].tokens[1] \in mentioned}
             K == essential \cup floating
  <2>1. Mandatory(d, tokens) = Filter(Active(d), K)
    BY DEF Mandatory
  <2>2. Range(Active(d)) \subseteq H
    BY <1>2 DEF Range
  <2>3. K \subseteq H
    BY <2>2
  <2> HIDE DEF K, H
  <2>4. Filter(Active(d), K) \in Seq(K)
    BY <1>2, FilterType DEF H
  <2>5. Filter(Active(d), K) \in Seq(H)
    BY <2>3, <2>4
  <2>  QED BY <2>1, <2>5 DEF H
<1>  QED BY <1>2, <1>3, <1>4

LEMMA EmptyParsed == Parsed(Empty)
<1>1. Empty \in Databases
  <2>1. << >> \in Dictionaries(Hypotheses) /\ << >> \in Dictionaries(Assertions)
    <3>1. \A V : << >> \in [{} -> V]
      OBVIOUS
    <3>  QED BY <3>1 DEF Dictionaries
  <2>2. <<NoScope>> \in Seq(Scopes)
    BY DEF NoScope, Scopes
  <2>3. << >> \in Seq(STRING) /\ << >> \in Seq(Sections)
    OBVIOUS
  <2>  QED BY <2>1, <2>2, <2>3 DEF Empty, Databases
<1>2. Declared(Empty)
  <2>1. Empty.scopes = <<NoScope>> /\ Empty.order = << >> /\ Empty.hypotheses = << >>
        /\ Empty.assertions = << >>
    BY DEF Empty
  <2>2. DOMAIN Empty.hypotheses = {} /\ DOMAIN Empty.assertions = {} /\ Range(Empty.order) = {}
    BY <2>1 DEF Range
  <2>3. Len(Empty.scopes) = 1 /\ Empty.scopes[1].hypotheses = << >> /\ Len(Empty.order) = 0
    BY <2>1 DEF NoScope
  <2>4. \A S : << >> \in Seq(S)
    OBVIOUS
  <2>5. \A i \in 1..Len(Empty.scopes) : Empty.scopes[i].hypotheses \in Seq(DOMAIN Empty.hypotheses)
    <3>1. \A i \in 1..Len(Empty.scopes) : i = 1
      BY <2>3
    <3>  QED BY <2>3, <2>4, <3>1
  <2>6. 1..Len(Empty.order) = {}
    BY <2>3
  <2>7. Len(Empty.scopes) >= 1
    BY <2>3
  <2>  QED BY <2>2, <2>5, <2>6, <2>7 DEF Declared
<1>  QED BY <1>1, <1>2 DEF Parsed

LEMMA StatementType ==
  ASSUME NEW s \in Statement
  PROVE  /\ s.kind \in {"header", "${", "$}", "$d", "$f", "$e", "$a", "$p"}
         /\ s.kind = "header" => s.level \in Nat /\ s.title \in STRING
         /\ s.kind = "$d" => s.vars \in Seq(STRING)
         /\ s.kind \in {"$f", "$e", "$a", "$p"} =>
              s.label \in STRING /\ s.typecode \in Typecode /\ s.tokens \in Seq(STRING)
         /\ HasProof(s) => s.table \in Seq(STRING) /\ s.letters \in Seq(Letter)
BY DEF Statement, HasProof

\* The parts of what is declared.
LEMMA DeclaredFacts ==
  ASSUME NEW d \in Databases, Declared(d)
  PROVE  /\ d.scopes \in Seq(Scopes) /\ Len(d.scopes) \in Nat \ {0}
         /\ \A i \in 1..Len(d.scopes) : d.scopes[i].hypotheses \in Seq(DOMAIN d.hypotheses)
         /\ d.order \in Seq(STRING) /\ Len(d.order) \in Nat
         /\ \A i \in 1..Len(d.order) : d.order[i] \in DOMAIN d.assertions
         /\ \A i, j \in 1..Len(d.order) : d.order[i] = d.order[j] => i = j
<1>1. d.scopes \in Seq(Scopes) /\ Len(d.scopes) \in Nat /\ d.order \in Seq(STRING)
  BY DatabaseType
<1>2. Len(d.scopes) >= 1
  BY DEF Declared
<1>3. Len(d.scopes) # 0
  BY <1>1, <1>2
<1>4. Range(d.order) = DOMAIN d.assertions
  BY DEF Declared
<1>5. \A i \in 1..Len(d.order) : d.order[i] \in DOMAIN d.assertions
  BY <1>1, <1>4 DEF Range
<1>6. Len(d.order) \in Nat
  BY <1>1
<1>  QED BY <1>1, <1>3, <1>5, <1>6, Zenon DEF Declared

\* One part of a database replaced.
LEMMA SetScopes ==
  ASSUME NEW d \in Databases, NEW S \in Seq(Scopes)
  PROVE  LET e == [d EXCEPT !.scopes = S] IN
         /\ e \in Databases /\ e.scopes = S
         /\ e.hypotheses = d.hypotheses /\ e.assertions = d.assertions /\ e.order = d.order
BY DEF Databases

\* Changes that leave labels alone keep what is declared.
LEMMA ScopesMove ==
  ASSUME NEW d \in Databases, Declared(d), NEW e \in Databases,
         e.hypotheses = d.hypotheses, e.assertions = d.assertions, e.order = d.order,
         Len(e.scopes) >= 1,
         \A i \in 1..Len(e.scopes) : e.scopes[i].hypotheses \in Seq(DOMAIN d.hypotheses)
  PROVE  Parsed(e)
BY Zenon DEF Declared, Parsed

LEMMA OpensScope ==
  ASSUME NEW d \in Databases, Declared(d)
  PROVE  Parsed([d EXCEPT !.scopes = Append(@, NoScope)])
<1> DEFINE S == Append(d.scopes, NoScope)
           e == [d EXCEPT !.scopes = S]
           n == Len(d.scopes)
<1>1. d.scopes \in Seq(Scopes) /\ n \in Nat \ {0}
      /\ \A i \in 1..n : d.scopes[i].hypotheses \in Seq(DOMAIN d.hypotheses)
  BY DeclaredFacts
<1>2. NoScope \in Scopes /\ NoScope.hypotheses = << >>
  BY DEF NoScope, Scopes
<1>3. S \in Seq(Scopes) /\ Len(S) = n + 1
      /\ (\A i \in 1..n : S[i] = d.scopes[i]) /\ S[n + 1] = NoScope
  BY <1>1, <1>2
<1> HIDE DEF S
<1>4. e \in Databases /\ e.scopes = S
      /\ e.hypotheses = d.hypotheses /\ e.assertions = d.assertions /\ e.order = d.order
  BY <1>3, SetScopes
<1> HIDE DEF e, n
<1>5. ASSUME NEW i \in 1..Len(e.scopes)
      PROVE  e.scopes[i].hypotheses \in Seq(DOMAIN d.hypotheses)
  <2>1. CASE i \in 1..n
    BY <2>1, <1>1, <1>3, <1>4
  <2>2. CASE i = n + 1
    <3>1. e.scopes[i].hypotheses = << >>
      BY <2>2, <1>2, <1>3, <1>4
    <3>  QED BY <3>1
  <2>  QED BY <2>1, <2>2, <1>1, <1>3, <1>4
<1>6. Len(e.scopes) >= 1
  BY <1>1, <1>3, <1>4
<1>7. Parsed(e)
  BY <1>4, <1>5, <1>6, ScopesMove
<1>  QED BY <1>7 DEF e, S

LEMMA ClosesScope ==
  ASSUME NEW d \in Databases, Declared(d), Len(d.scopes) # 1
  PROVE  Parsed([d EXCEPT !.scopes = Front(@)])
<1> DEFINE S == Front(d.scopes)
           e == [d EXCEPT !.scopes = S]
           n == Len(d.scopes)
<1>1. d.scopes \in Seq(Scopes) /\ n \in Nat \ {0}
      /\ \A i \in 1..n : d.scopes[i].hypotheses \in Seq(DOMAIN d.hypotheses)
  BY DeclaredFacts
<1>2. S \in Seq(Scopes) /\ Len(S) = n - 1 /\ \A i \in 1..(n - 1) : S[i] = d.scopes[i]
  BY <1>1 DEF Front
<1> HIDE DEF S
<1>3. e \in Databases /\ e.scopes = S
      /\ e.hypotheses = d.hypotheses /\ e.assertions = d.assertions /\ e.order = d.order
  BY <1>2, SetScopes
<1>4. n # 1
  OBVIOUS
<1> HIDE DEF e, n
<1>5. ASSUME NEW i \in 1..Len(e.scopes)
      PROVE  e.scopes[i].hypotheses \in Seq(DOMAIN d.hypotheses)
  <2>1. i \in 1..(n - 1)
    BY <1>2, <1>3
  <2>2. i \in 1..n
    BY <1>1, <2>1
  <2>3. e.scopes[i] = d.scopes[i]
    BY <1>2, <1>3, <2>1
  <2>  QED BY <1>1, <2>2, <2>3
<1>6. Len(e.scopes) >= 1
  BY <1>1, <1>2, <1>3, <1>4
<1>7. Parsed(e)
  BY <1>3, <1>5, <1>6, ScopesMove
<1>  QED BY <1>7 DEF e, S

\* The innermost scope replaced by one that names what is declared.
LEMMA SetTop ==
  ASSUME NEW d \in Databases, Declared(d), NEW t \in Scopes, NEW H,
         DOMAIN d.hypotheses \subseteq H, t.hypotheses \in Seq(H)
  PROVE  LET S == [d.scopes EXCEPT ![Len(d.scopes)] = t] IN
         /\ S \in Seq(Scopes) /\ Len(S) >= 1
         /\ \A i \in 1..Len(S) : S[i].hypotheses \in Seq(H)
<1> DEFINE n == Len(d.scopes)
           S == [d.scopes EXCEPT ![n] = t]
<1>1. d.scopes \in Seq(Scopes) /\ n \in Nat \ {0}
      /\ \A i \in 1..n : d.scopes[i].hypotheses \in Seq(DOMAIN d.hypotheses)
  BY DeclaredFacts
<1>2. \A i \in 1..n : d.scopes[i].hypotheses \in Seq(H)
  <2> TAKE i \in 1..n
  <2>1. d.scopes[i].hypotheses \in Seq(DOMAIN d.hypotheses)
    BY <1>1
  <2>  QED BY <2>1
<1>3. S \in Seq(Scopes) /\ Len(S) = n /\ \A i \in 1..n : S[i] = IF i = n THEN t ELSE d.scopes[i]
  BY <1>1
<1> HIDE DEF S, n
<1>4. \A i \in 1..Len(S) : S[i].hypotheses \in Seq(H)
  BY <1>2, <1>3
<1>5. Len(S) >= 1
  BY <1>1, <1>3
<1>6. S = [d.scopes EXCEPT ![Len(d.scopes)] = t]
  BY DEF S, n
<1>  QED BY <1>3, <1>4, <1>5, <1>6

LEMMA TopType ==
  ASSUME NEW d \in Databases, Declared(d)
  PROVE  /\ d.scopes[Len(d.scopes)] \in Scopes
         /\ d.scopes[Len(d.scopes)].hypotheses \in Seq(DOMAIN d.hypotheses)
<1> DEFINE n == Len(d.scopes)
<1>1. d.scopes \in Seq(Scopes) /\ n \in Nat \ {0}
      /\ \A i \in 1..n : d.scopes[i].hypotheses \in Seq(DOMAIN d.hypotheses)
  BY DeclaredFacts
<1>2. n \in 1..n
  BY <1>1
<1>  QED BY <1>1, <1>2

LEMMA ReadsDistinct ==
  ASSUME NEW d \in Databases, Declared(d), NEW group \in Seq(STRING)
  PROVE  Parsed([d EXCEPT !.scopes[Len(d.scopes)].distinct = Append(@, group)])
<1> DEFINE top == d.scopes[Len(d.scopes)]
           t == [top EXCEPT !.distinct = Append(@, group)]
           S == [d.scopes EXCEPT ![Len(d.scopes)] = t]
           e == [d EXCEPT !.scopes = S]
<1>1. top \in Scopes /\ top.hypotheses \in Seq(DOMAIN d.hypotheses)
  BY TopType
<1> HIDE DEF top
<1>2. Append(top.distinct, group) \in Seq(Seq(STRING))
  <2>1. top.distinct \in Seq(Seq(STRING))
    BY <1>1 DEF Scopes
  <2>  QED BY <2>1
<1>3. t \in Scopes /\ t.hypotheses = top.hypotheses
  BY <1>1, <1>2 DEF Scopes
<1> HIDE DEF t
<1>4. S \in Seq(Scopes) /\ Len(S) >= 1
      /\ \A i \in 1..Len(S) : S[i].hypotheses \in Seq(DOMAIN d.hypotheses)
  BY <1>1, <1>3, SetTop
<1> HIDE DEF S
<1>5. e \in Databases /\ e.scopes = S
      /\ e.hypotheses = d.hypotheses /\ e.assertions = d.assertions /\ e.order = d.order
  BY <1>4, SetScopes
<1> HIDE DEF e
<1>6. Parsed(e)
  BY <1>4, <1>5, ScopesMove
<1>7. e = [d EXCEPT !.scopes[Len(d.scopes)].distinct = Append(@, group)]
  BY DEF e, S, t, top
<1>  QED BY <1>6, <1>7

LEMMA ReadsHeader ==
  ASSUME NEW d \in Databases, Declared(d), NEW x \in Sections
  PROVE  Parsed([d EXCEPT !.outline = Append(@, x)])
<1> DEFINE O == Append(d.outline, x)
           e == [d EXCEPT !.outline = O]
<1>1. O \in Seq(Sections)
  <2>1. d.outline \in Seq(Sections)
    BY DatabaseType
  <2>  QED BY <2>1
<1> HIDE DEF O
<1>2. e \in Databases /\ e.hypotheses = d.hypotheses /\ e.assertions = d.assertions
      /\ e.order = d.order /\ e.scopes = d.scopes
  BY <1>1 DEF Databases
<1> HIDE DEF e
<1>3. Len(e.scopes) >= 1
      /\ \A i \in 1..Len(e.scopes) : e.scopes[i].hypotheses \in Seq(DOMAIN d.hypotheses)
  BY <1>2, Zenon DEF Declared
<1>4. Parsed(e)
  BY <1>2, <1>3, ScopesMove
<1>  QED BY <1>4 DEF e, O

LEMMA Fails ==
  ASSUME NEW d \in Databases, Declared(d)
  PROVE  Parsed([d EXCEPT !.error = TRUE])
<1> DEFINE e == [d EXCEPT !.error = TRUE]
<1>1. e \in Databases /\ e.hypotheses = d.hypotheses /\ e.assertions = d.assertions
      /\ e.order = d.order /\ e.scopes = d.scopes
  BY DEF Databases
<1> HIDE DEF e
<1>2. Len(e.scopes) >= 1
      /\ \A i \in 1..Len(e.scopes) : e.scopes[i].hypotheses \in Seq(DOMAIN d.hypotheses)
  BY <1>1, Zenon DEF Declared
<1>3. Parsed(e)
  BY <1>1, <1>2, ScopesMove
<1>  QED BY <1>3 DEF e

LEMMA ReadsHypothesis ==
  ASSUME NEW d \in Databases, Declared(d), NEW s \in Statement, s.kind \in {"$f", "$e"},
         ~Duplicate(d, s)
  PROVE  Parsed(ReadHypothesis(d, s))
<1> DEFINE top == d.scopes[Len(d.scopes)]
           h == [kind |-> s.kind, typecode |-> s.typecode, tokens |-> s.tokens, at |-> Len(d.order)]
           t == [top EXCEPT !.hypotheses = Append(@, s.label)]
           H == With(d.hypotheses, s.label, h)
           S == [d.scopes EXCEPT ![Len(d.scopes)] = t]
           e == [d EXCEPT !.hypotheses = H, !.scopes = S]
<1>1. top \in Scopes /\ top.hypotheses \in Seq(DOMAIN d.hypotheses)
  BY TopType
<1>2. s.label \in STRING /\ s.typecode \in Typecode /\ s.tokens \in Seq(STRING)
  BY StatementType
<1>3. h \in Hypotheses
  <2>1. Len(d.order) \in Nat
    BY DeclaredFacts
  <2>  QED BY <1>2, <2>1 DEF Hypotheses
<1> HIDE DEF h
<1>4. H \in Dictionaries(Hypotheses) /\ DOMAIN H = DOMAIN d.hypotheses \cup {s.label}
  <2>1. d.hypotheses \in Dictionaries(Hypotheses) /\ s.label \in STRING
    BY <1>2, DatabaseType
  <2>2. With(d.hypotheses, s.label, h) \in Dictionaries(Hypotheses)
    BY <1>3, <2>1, WithType, Zenon
  <2>3. DOMAIN With(d.hypotheses, s.label, h) = DOMAIN d.hypotheses \cup {s.label}
    BY DEF With
  <2>  QED BY <2>2, <2>3
<1> HIDE DEF H, top
<1>5. Append(top.hypotheses, s.label) \in Seq(DOMAIN H)
  <2>1. top.hypotheses \in Seq(DOMAIN H) /\ s.label \in DOMAIN H
    BY <1>1, <1>4
  <2>  QED BY <2>1
<1>6. t \in Scopes /\ t.hypotheses = Append(top.hypotheses, s.label)
  <2>1. Append(top.hypotheses, s.label) \in Seq(STRING)
    <3>1. top.hypotheses \in Seq(STRING)
      BY <1>1 DEF Scopes
    <3>  QED BY <3>1, <1>2
  <2>  QED BY <2>1, <1>1 DEF Scopes
<1> HIDE DEF t
<1>7. S \in Seq(Scopes) /\ Len(S) >= 1 /\ \A i \in 1..Len(S) : S[i].hypotheses \in Seq(DOMAIN H)
  <2>1. DOMAIN d.hypotheses \subseteq DOMAIN H /\ t.hypotheses \in Seq(DOMAIN H)
    BY <1>4, <1>5, <1>6
  <2>  QED BY <1>6, <2>1, SetTop
<1> HIDE DEF S
<1>8. e \in Databases /\ e.scopes = S /\ e.hypotheses = H
      /\ e.assertions = d.assertions /\ e.order = d.order
  BY <1>4, <1>7 DEF Databases
<1> HIDE DEF e
<1>9. DOMAIN H \cap DOMAIN d.assertions = {}
  BY <1>4 DEF Duplicate, Declared
<1>10. \A a \in DOMAIN d.assertions : d.assertions[a].mandatory \in Seq(DOMAIN H)
  <2> TAKE a \in DOMAIN d.assertions
  <2>1. d.assertions[a].mandatory \in Seq(DOMAIN d.hypotheses)
    BY Zenon DEF Declared
  <2>  QED BY <2>1, <1>4
<1>11. Range(d.order) = DOMAIN d.assertions
       /\ \A i, j \in 1..Len(d.order) : d.order[i] = d.order[j] => i = j
  BY Zenon DEF Declared
<1>12. Parsed(e)
  BY <1>7, <1>8, <1>9, <1>10, <1>11, Zenon DEF Parsed, Declared
<1>13. e = ReadHypothesis(d, s)
  BY DEF e, S, t, top, H, h, ReadHypothesis
<1>  QED BY <1>12, <1>13

LEMMA ReadsAssertion ==
  ASSUME NEW d \in Databases, Declared(d), NEW s \in Statement, s.kind \in {"$a", "$p"},
         ~Duplicate(d, s)
  PROVE  Parsed(ReadAssertion(d, s))
<1> DEFINE a == [proved |-> HasProof(s), typecode |-> s.typecode, tokens |-> s.tokens,
                 mandatory |-> Mandatory(d, s.tokens), active |-> Range(Active(d)),
                 distinct |-> Standing(d),
                 table   |-> IF HasProof(s) THEN s.table ELSE << >>,
                 letters |-> IF HasProof(s) THEN s.letters ELSE << >>]
           A == With(d.assertions, s.label, a)
           O == Append(d.order, s.label)
           e == [d EXCEPT !.assertions = A, !.order = O]
           n == Len(d.order)
<1>1. s.label \in STRING /\ s.typecode \in Typecode /\ s.tokens \in Seq(STRING)
      /\ (HasProof(s) => s.table \in Seq(STRING) /\ s.letters \in Seq(Letter))
  BY StatementType
<1>2. /\ Active(d) \in Seq(DOMAIN d.hypotheses)
      /\ Mandatory(d, s.tokens) \in Seq(DOMAIN d.hypotheses)
      /\ Standing(d) \in Seq(Seq(STRING))
      /\ DOMAIN d.hypotheses \subseteq STRING
  BY ScopesType, DatabaseType
<1>3. a.mandatory \in Seq(DOMAIN d.hypotheses)
  BY <1>2
<1>4. a \in Assertions
  <2>1. Range(Active(d)) \subseteq STRING
    BY <1>2 DEF Range
  <2>2. Mandatory(d, s.tokens) \in Seq(STRING)
    BY <1>2
  <2>3. << >> \in Seq(STRING) /\ << >> \in Seq(Letter)
    OBVIOUS
  <2>4. HasProof(s) \in BOOLEAN
    BY DEF HasProof
  <2>  QED BY <1>1, <1>2, <2>1, <2>2, <2>3, <2>4 DEF Assertions
<1> HIDE DEF a
<1>5. s.label \notin DOMAIN d.assertions /\ s.label \notin DOMAIN d.hypotheses
  BY DEF Duplicate
<1>6. A \in Dictionaries(Assertions) /\ DOMAIN A = DOMAIN d.assertions \cup {s.label}
      /\ A[s.label] = a /\ \A x \in DOMAIN d.assertions : A[x] = d.assertions[x]
  <2>1. d.assertions \in Dictionaries(Assertions)
    BY DatabaseType
  <2>2. A \in Dictionaries(Assertions) /\ DOMAIN A = DOMAIN d.assertions \cup {s.label}
        /\ A[s.label] = a /\ \A x \in DOMAIN d.assertions : x # s.label => A[x] = d.assertions[x]
    <3>1. s.label \in STRING
      BY <1>1
    <3>2. With(d.assertions, s.label, a) \in Dictionaries(Assertions)
      BY <3>1, <1>4, <2>1, WithType, Zenon
    <3>3. /\ DOMAIN With(d.assertions, s.label, a) = DOMAIN d.assertions \cup {s.label}
          /\ With(d.assertions, s.label, a)[s.label] = a
          /\ \A x \in DOMAIN d.assertions : x # s.label => With(d.assertions, s.label, a)[x] = d.assertions[x]
      BY DEF With
    <3>  QED BY <3>2, <3>3
  <2> HIDE DEF A
  <2>  QED BY <1>5, <2>2
<1> HIDE DEF A
<1>7. /\ d.order \in Seq(STRING) /\ n \in Nat
      /\ \A i \in 1..n : d.order[i] \in DOMAIN d.assertions
      /\ \A i, j \in 1..n : d.order[i] = d.order[j] => i = j
  BY DeclaredFacts
<1>8. O \in Seq(STRING) /\ Len(O) = n + 1 /\ (\A i \in 1..n : O[i] = d.order[i]) /\ O[n + 1] = s.label
  BY <1>1, <1>7
<1> HIDE DEF O, n
<1>9. e \in Databases /\ e.assertions = A /\ e.order = O
      /\ e.hypotheses = d.hypotheses /\ e.scopes = d.scopes
  BY <1>6, <1>8 DEF Databases
<1> HIDE DEF e
<1>10. Range(O) = DOMAIN A
  <2>1. DOMAIN O = 1..(n + 1) /\ DOMAIN d.order = 1..n
    BY <1>7, <1>8 DEF n
  <2>2. 1..(n + 1) = 1..n \cup {n + 1}
    BY <1>7
  <2>3. Range(d.order) = DOMAIN d.assertions
    BY Zenon DEF Declared
  <2>4. Range(O) = Range(d.order) \cup {s.label}
    BY <2>1, <2>2, <1>8 DEF Range
  <2>  QED BY <2>3, <2>4, <1>6
<1>11. \A i, j \in 1..(n + 1) : O[i] = O[j] => i = j
  BY <1>5, <1>7, <1>8
<1>12. \A x \in DOMAIN A : A[x].mandatory \in Seq(DOMAIN d.hypotheses)
  <2>1. \A x \in DOMAIN d.assertions : d.assertions[x].mandatory \in Seq(DOMAIN d.hypotheses)
    BY Zenon DEF Declared
  <2>  QED BY <2>1, <1>3, <1>6
<1>13. DOMAIN d.hypotheses \cap DOMAIN A = {}
  <2>1. DOMAIN d.hypotheses \cap DOMAIN d.assertions = {}
    BY Zenon DEF Declared
  <2>  QED BY <2>1, <1>5, <1>6
<1>14. Len(d.scopes) >= 1
       /\ \A i \in 1..Len(d.scopes) : d.scopes[i].hypotheses \in Seq(DOMAIN d.hypotheses)
  BY Zenon DEF Declared
<1>15. Len(e.order) = n + 1
  BY <1>8, <1>9
<1>16. Parsed(e)
  BY <1>9, <1>10, <1>11, <1>12, <1>13, <1>14, <1>15, Zenon DEF Parsed, Declared
<1>17. e = ReadAssertion(d, s)
  BY DEF e, A, O, a, ReadAssertion
<1>  QED BY <1>16, <1>17

LEMMA ReadParses ==
  ASSUME NEW d, Parsed(d), NEW s \in Statement
  PROVE  Parsed(Read(d, s))
<1>1. d \in Databases /\ Declared(d) /\ d.error \in BOOLEAN
  BY DatabaseType DEF Parsed
<1>2. CASE d.error
  BY <1>2 DEF Read
<1>3. CASE ~d.error /\ s.kind = "${"
  BY <1>1, <1>3, OpensScope DEF Read
<1>4. CASE ~d.error /\ s.kind = "$}"
  BY <1>1, <1>4, ClosesScope, Fails DEF Read
<1>5. CASE ~d.error /\ s.kind = "$d"
  BY <1>1, <1>5, ReadsDistinct, StatementType DEF Read
<1>6. CASE ~d.error /\ s.kind = "header"
  <2> DEFINE x == [level |-> s.level, title |-> s.title, at |-> Len(d.order)]
  <2>1. x \in Sections
    <3>1. Len(d.order) \in Nat
      BY <1>1, DeclaredFacts
    <3>2. s.level \in Nat /\ s.title \in STRING
      BY <1>6, StatementType
    <3>  QED BY <3>1, <3>2 DEF Sections
  <2>2. Parsed([d EXCEPT !.outline = Append(@, x)])
    BY <1>1, <2>1, ReadsHeader
  <2>  QED BY <1>6, <2>2 DEF Read
<1>7. CASE ~d.error /\ s.kind \in {"$f", "$e"}
  BY <1>1, <1>7, ReadsHypothesis, Fails DEF Read
<1>8. CASE ~d.error /\ s.kind \in {"$a", "$p"}
  BY <1>1, <1>8, ReadsAssertion, Fails DEF Read
<1>  QED BY <1>1, <1>2, <1>3, <1>4, <1>5, <1>6, <1>7, <1>8, StatementType

ReadStep(ctx, d, s) == Read(d, s)
ReadKeeps(ctx, n, d) == Parsed(d)
Reading == INSTANCE FoldProofs WITH Op <- ReadStep, Keeps <- ReadKeeps

\* What parse makes of any statements: a label is of one assertion or of one
\* hypothesis, and what scopes and assertions name is a hypothesis.
THEOREM FilesParse ==
  ASSUME NEW file \in Seq(Statement)
  PROVE  Parse(file) \in Databases /\ Declared(Parse(file))
<1> DEFINE d == FoldLeft(Read, Empty, file)
<1>1. d = Reading!Fold(0, Empty, file)
  BY DEF ReadStep, FoldLeft, MapThenFoldSet, Reading!Fold, Reading!Iterates, Max, Reading!Max
<1>2. ASSUME NEW a, NEW i \in 1..Len(file), ReadKeeps(0, i - 1, a)
      PROVE  ReadKeeps(0, i, ReadStep(0, a, file[i]))
  <2>1. file[i] \in Statement
    OBVIOUS
  <2>  QED BY <1>2, <2>1, ReadParses DEF ReadStep, ReadKeeps
<1>3. DOMAIN file = 1..Len(file) /\ Len(file) \in Nat
  OBVIOUS
<1>4. ReadKeeps(0, Len(file), Reading!Fold(0, Empty, file))
  <2>1. ReadKeeps(0, 0, Empty)
    BY EmptyParsed DEF ReadKeeps
  <2> HIDE DEF ReadKeeps, ReadStep
  <2>  QED BY <1>2, <1>3, <2>1, Reading!FoldKeeps
<1>5. d \in Databases /\ Declared(d)
  BY <1>1, <1>4 DEF ReadKeeps, Parsed
<1> HIDE DEF d
<1> DEFINE e == [d EXCEPT !.error = @ \/ Len(d.scopes) # 1]
<1>6. e \in Databases /\ e.hypotheses = d.hypotheses /\ e.assertions = d.assertions
      /\ e.order = d.order /\ e.scopes = d.scopes
  BY <1>5 DEF Databases
<1>7. Parse(file) = e
  BY DEF Parse, d
<1> HIDE DEF e
<1>8. Len(e.scopes) >= 1
      /\ \A i \in 1..Len(e.scopes) : e.scopes[i].hypotheses \in Seq(DOMAIN d.hypotheses)
  BY <1>5, <1>6, Zenon DEF Declared
<1>  QED BY <1>5, <1>6, <1>7, <1>8, ScopesMove DEF Parsed
-----------------------------------------------------------------------------
(* Positions, the last theorem walked, and layers.                         *)

LEMMA PositionType ==
  ASSUME NEW d \in Databases, Declared(d)
  PROVE  /\ \A i \in 1..Len(d.order) : Position(d, d.order[i]) = i - 1
         /\ \A x \in Range(d.order) :
              /\ Position(d, x) \in 0..(Len(d.order) - 1)
              /\ Label(d, Position(d, x)) = x
<1>1. d.order \in Seq(STRING) /\ Len(d.order) \in Nat
      /\ \A i, j \in 1..Len(d.order) : d.order[i] = d.order[j] => i = j
  BY DeclaredFacts
<1>2. ASSUME NEW i \in 1..Len(d.order) PROVE Position(d, d.order[i]) = i - 1
  BY <1>1 DEF Position
<1>3. ASSUME NEW x \in Range(d.order)
      PROVE  Position(d, x) \in 0..(Len(d.order) - 1) /\ Label(d, Position(d, x)) = x
  <2>1. PICK i \in 1..Len(d.order) : d.order[i] = x
    BY <1>1 DEF Range
  <2>2. Position(d, x) = i - 1
    BY <1>2, <2>1
  <2>3. (i - 1) + 1 = i
    BY <2>1
  <2>  QED BY <1>1, <2>1, <2>2, <2>3 DEF Label
<1>  QED BY <1>2, <1>3

LEMMA TheoremsType ==
  ASSUME NEW d \in Databases, NEW limit \in Nat
  PROVE  /\ Range(Theorems(d, limit)) \subseteq {x \in Range(d.order) : Walkable(d, x)}
         /\ Theorems(d, limit) # << >> => Horizon(d, limit) \in Range(d.order)
<1> DEFINE W == {x \in Range(d.order) : Walkable(d, x)}
           found == Filter(d.order, W)
           k == IF limit < Len(found) THEN limit ELSE Len(found)
<1>1. found \in Seq(W)
  <2>1. d.order \in Seq(STRING)
    BY DatabaseType
  <2> HIDE DEF W
  <2>  QED BY <2>1, FilterType
<1>2. Theorems(d, limit) = SubSeq(found, 1, k)
  BY DEF Theorems
<1>3. W \subseteq Range(d.order)
  OBVIOUS
<1> HIDE DEF W, found
<1>4. k \in Nat /\ k <= Len(found)
  BY <1>1
<1> HIDE DEF k
<1>5. SubSeq(found, 1, k) \in Seq(W)
  BY <1>1, <1>4
<1>6. Range(SubSeq(found, 1, k)) \subseteq W
  BY <1>5 DEF Range
<1>7. ASSUME Theorems(d, limit) # << >> PROVE Horizon(d, limit) \in W
  <2>1. Len(SubSeq(found, 1, k)) \in Nat \ {0}
    BY <1>2, <1>5, <1>7
  <2>  QED BY <1>2, <1>5, <2>1 DEF Horizon, Last
<1>  QED BY <1>2, <1>3, <1>6, <1>7 DEF W

\* Every layer that is open opens at a position.
LEMMA OpensType ==
  ASSUME NEW d \in Databases, NEW S, NEW plan \in Seq(S)
  PROVE  LET o == Opens(d, plan) IN
         Len(o) \in Nat /\ \A i \in 1..Len(o) : o[i].at \in Nat
<1> DEFINE sections(l) == {i \in 1..Len(d.outline) : d.outline[i].title = l.title}
           first(l) == CHOOSE i \in sections(l) : \A j \in sections(l) : i <= j
           P == {l \in Range(plan) : sections(l) # {}}
           opened == Filter(plan, P)
<1>1. opened \in Seq(P)
  <2> HIDE DEF P
  <2>  QED BY FilterType
<1>2. d.outline \in Seq(Sections)
  BY DatabaseType
<1>3. ASSUME NEW l \in P PROVE d.outline[first(l)].at \in Nat
  <2>1. sections(l) # {} /\ sections(l) \in SUBSET Nat
    OBVIOUS
  <2>2. \E i \in sections(l) : \A j \in sections(l) : i <= j
    <3> HIDE DEF sections
    <3>  QED BY <2>1, Filtering!Least
  <2>3. first(l) \in sections(l)
    <3> HIDE DEF sections
    <3>  QED BY <2>2
  <2>4. first(l) \in 1..Len(d.outline)
    BY <2>3
  <2> HIDE DEF first
  <2>5. d.outline[first(l)] \in Sections
    BY <1>2, <2>4
  <2>  QED BY <2>5 DEF Sections
<1>4. Opens(d, plan) = [i \in 1..Len(opened) |->
                          [name |-> opened[i].name, index |-> first(opened[i]),
                           at |-> d.outline[first(opened[i])].at]]
  BY DEF Opens
<1> HIDE DEF opened, P, first
<1>5. Len(opened) \in Nat /\ \A i \in 1..Len(opened) : opened[i] \in P
  BY <1>1
<1>  QED BY <1>3, <1>4, <1>5

LEMMA LayersType ==
  ASSUME NEW d \in Databases, NEW S, NEW plan \in Seq(S), NEW last
  PROVE  LET o == CorpusLayers(d, plan, last) IN
         Len(o) \in Nat /\ \A i \in 1..Len(o) : o[i] \in Nat
<1> DEFINE o == Opens(d, plan)
           kept == {i \in 1..Len(o) : /\ o[i].at <= Position(d, last)
                                      /\ i < Len(o) => o[i + 1].at # o[i].at}
           numbers == [i \in 1..Len(o) |-> i]
           within == Filter(numbers, kept)
           bounds == Boundaries(d, plan, last)
<1>1. Len(o) \in Nat /\ \A i \in 1..Len(o) : o[i].at \in Nat
  BY OpensType
<1>2. bounds = [i \in 1..Len(within) |->
                  [name |-> o[within[i]].name, at |-> o[within[i]].at,
                   stop |-> IF i = Len(within) THEN last
                            ELSE Label(d, o[within[i + 1]].at)]]
  BY DEF Boundaries
<1>3. kept \subseteq 1..Len(o)
  OBVIOUS
<1> HIDE DEF o, kept
<1>4. within \in Seq(kept)
  <2>1. numbers \in Seq(1..Len(o))
    BY <1>1
  <2> HIDE DEF numbers
  <2>  QED BY <2>1, FilterType
<1> HIDE DEF within
<1>5. Len(within) \in Nat /\ \A i \in 1..Len(within) : o[within[i]].at \in Nat
  <2>1. Len(within) \in Nat /\ \A i \in 1..Len(within) : within[i] \in kept
    BY <1>4
  <2>2. \A i \in 1..Len(within) : within[i] \in 1..Len(o)
    BY <1>3, <2>1
  <2>  QED BY <1>1, <2>1, <2>2
<1>6. Len(bounds) \in Nat /\ \A i \in 1..Len(bounds) : bounds[i].at \in Nat
  BY <1>2, <1>5
<1> HIDE DEF bounds
<1>7. CorpusLayers(d, plan, last) =
        IF Len(bounds) < 2 THEN <<0>> ELSE [i \in 1..Len(bounds) |-> bounds[i].at]
  BY DEF CorpusLayers, bounds
<1>  QED BY <1>6, <1>7

\* What comes later in the file is in the same layer or in a later one.
LEMMA LaterLayer ==
  ASSUME NEW o, Len(o) \in Nat, \A i \in 1..Len(o) : o[i] \in Nat,
         NEW p \in Nat, NEW q \in Nat, p <= q
  PROVE  LayerOf(o, p) \in 1..LayerOf(o, q)
<1> DEFINE past(r) == {i \in 1..Len(o) : o[i] <= r}
<1>1. ASSUME NEW r \in Nat, past(r) # {}
      PROVE  LayerOf(o, r) \in past(r) /\ \A j \in past(r) : j <= LayerOf(o, r)
  <2>1. past(r) \in SUBSET (1..Len(o))
    OBVIOUS
  <2>2. \E i \in past(r) : \A j \in past(r) : j <= i
    <3> HIDE DEF past
    <3>  QED BY <1>1, <2>1, Filtering!Greatest
  <2>3. LayerOf(o, r) = CHOOSE i \in past(r) : \A j \in past(r) : j <= i
    BY <1>1 DEF LayerOf
  <2> HIDE DEF past
  <2>  QED BY <2>2, <2>3
<1>2. ASSUME NEW r \in Nat, past(r) = {} PROVE LayerOf(o, r) = 1
  BY <1>2 DEF LayerOf
<1>3. past(p) \subseteq past(q) /\ past(q) \subseteq 1..Len(o)
  OBVIOUS
<1> HIDE DEF past
<1>4. CASE past(p) = {} /\ past(q) = {}
  BY <1>2, <1>4
<1>5. CASE past(p) = {} /\ past(q) # {}
  BY <1>1, <1>2, <1>3, <1>5
<1>6. CASE past(p) # {}
  BY <1>1, <1>3, <1>6
<1>  QED BY <1>3, <1>4, <1>5, <1>6
-----------------------------------------------------------------------------
(* Proofs: the choices a compressed proof makes, and the lines they give.  *)

Selections(c) ==
    [by : {"step"}, of : Nat \ {0}, saved : BOOLEAN]
      \cup [by : {"hypothesis"}, of : Range(c.mandatory), saved : BOOLEAN]
      \cup [by : {"label"}, of : Range(c.table), saved : BOOLEAN]
Chosen(c, s) ==
    s \in [steps : Seq(Selections(c)), value : Nat, started : BOOLEAN, error : BOOLEAN]
LetterStep(c, s, l) == TakeLetter(c.table, c.mandatory, s, l)
LettersKeep(c, n, s) == Chosen(c, s)
Spelling == INSTANCE FoldProofs WITH Op <- LetterStep, Keeps <- LettersKeep

LEMMA SelectType ==
  ASSUME NEW c, NEW S, NEW T, c.mandatory \in Seq(S), c.table \in Seq(T), NEW n \in Nat, n >= 1
  PROVE  SelectStep(n, c.table, c.mandatory) \in Selections(c)
<1> DEFINE past == n - Len(c.mandatory)
<1>1. Len(c.mandatory) \in Nat /\ Len(c.table) \in Nat /\ past \in Int
  OBVIOUS
<1>2. CASE past < 1
  <2>1. n \in 1..Len(c.mandatory)
    BY <1>1, <1>2
  <2>2. c.mandatory[n] \in Range(c.mandatory)
    BY <2>1 DEF Range
  <2>3. SelectStep(n, c.table, c.mandatory) = [by |-> "hypothesis", of |-> c.mandatory[n], saved |-> FALSE]
    BY <1>2 DEF SelectStep
  <2>  QED BY <2>2, <2>3 DEF Selections
<1>3. CASE past >= 1 /\ past <= Len(c.table)
  <2>1. c.table[past] \in Range(c.table)
    BY <1>1, <1>3 DEF Range
  <2>2. SelectStep(n, c.table, c.mandatory) = [by |-> "label", of |-> c.table[past], saved |-> FALSE]
    BY <1>1, <1>3 DEF SelectStep
  <2> HIDE DEF past
  <2>  QED BY <2>1, <2>2 DEF Selections
<1>4. CASE past >= 1 /\ ~(past <= Len(c.table))
  <2>1. SelectStep(n, c.table, c.mandatory) = [by |-> "step", of |-> past - Len(c.table), saved |-> FALSE]
    BY <1>1, <1>4 DEF SelectStep
  <2> HIDE DEF past
  <2>2. past - Len(c.table) \in Nat \ {0}
    <3> DEFINE k == Len(c.table)
    <3>1. k \in Nat /\ past \in Int /\ past > k
      BY <1>1, <1>4
    <3> HIDE DEF k
    <3>2. past - k \in Nat \ {0}
      BY <3>1
    <3>  QED BY <3>2 DEF k
  <2>  QED BY <2>1, <2>2 DEF Selections
<1> HIDE DEF past
<1>  QED BY <1>1, <1>2, <1>3, <1>4

LEMMA ReplaceType ==
  ASSUME NEW S, NEW s \in Seq(S), NEW n \in 1..Len(s), NEW x \in S
  PROVE  [s EXCEPT ![n] = x] \in Seq(S)
<1> DEFINE r == [s EXCEPT ![n] = x]
<1>1. r \in [1..Len(s) -> S] /\ Len(s) \in Nat
  OBVIOUS
<1> HIDE DEF r
<1>2. r \in Seq(S)
  BY <1>1
<1>  QED BY <1>2 DEF r

LEMMA LetterType ==
  ASSUME NEW c, NEW S, NEW T, c.mandatory \in Seq(S), c.table \in Seq(T),
         NEW s, Chosen(c, s), NEW l \in Letter
  PROVE  Chosen(c, LetterStep(c, s, l))
<1>0. LowDigits \in Nat /\ HighDigits \in Nat
  BY JobsAssumption
<1>1. /\ s.steps \in Seq(Selections(c)) /\ s.value \in Nat /\ s.started \in BOOLEAN /\ s.error \in BOOLEAN
      /\ l.kind \in {"low", "high", "save"} /\ l.digit \in Nat
  BY DEF Chosen, Letter
<1>2. \A a, b \in Nat : a * b \in Nat
  OBVIOUS
<1>3. CASE s.error
  BY <1>3 DEF LetterStep, TakeLetter
<1>4. CASE ~s.error /\ l.kind = "high"
  <2>1. HighDigits * s.value \in Nat
    BY <1>0, <1>1, <1>2
  <2>2. HighDigits * s.value + l.digit + 1 \in Nat
    BY <1>1, <2>1
  <2>3. LetterStep(c, s, l) = [s EXCEPT !.value = HighDigits * s.value + l.digit + 1, !.started = TRUE]
    BY <1>4 DEF LetterStep, TakeLetter
  <2> DEFINE v == HighDigits * s.value + l.digit + 1
  <2> HIDE DEF v
  <2>4. v \in Nat
    BY <2>2 DEF v
  <2>5. Chosen(c, [s EXCEPT !.value = v, !.started = TRUE])
    BY <2>4 DEF Chosen
  <2>  QED BY <2>3, <2>5 DEF v
<1>5. CASE ~s.error /\ l.kind = "low"
  <2> DEFINE n == LowDigits * s.value + l.digit + 1
             x == SelectStep(n, c.table, c.mandatory)
  <2>1. LowDigits * s.value \in Nat
    BY <1>0, <1>1, <1>2
  <2>2. n \in Nat /\ n >= 1
    BY <1>1, <2>1
  <2>3. LetterStep(c, s, l) = [s EXCEPT !.value = 0, !.started = FALSE, !.steps = Append(s.steps, x)]
    BY <1>5 DEF LetterStep, TakeLetter
  <2> HIDE DEF n
  <2>4. x \in Selections(c)
    BY <2>2, SelectType
  <2> HIDE DEF x
  <2>5. Append(s.steps, x) \in Seq(Selections(c))
    BY <1>1, <2>4
  <2>6. Chosen(c, [s EXCEPT !.value = 0, !.started = FALSE, !.steps = Append(s.steps, x)])
    BY <2>5 DEF Chosen
  <2>  QED BY <2>3, <2>6
<1>6. CASE ~s.error /\ l.kind = "save"
  <2>1. CASE s.steps = << >> \/ s.started
    <3>1. LetterStep(c, s, l) = [s EXCEPT !.error = TRUE]
      BY <1>6, <2>1 DEF LetterStep, TakeLetter
    <3>  QED BY <3>1 DEF Chosen
  <2>2. CASE ~(s.steps = << >> \/ s.started)
    <3> DEFINE n == Len(s.steps)
               x == [s.steps[n] EXCEPT !.saved = TRUE]
    <3>1. LetterStep(c, s, l) = [s EXCEPT !.steps = [s.steps EXCEPT ![n] = x]]
      BY <1>6, <2>2 DEF LetterStep, TakeLetter
    <3>2. n \in 1..n
      BY <1>1, <2>2
    <3>3. s.steps[n] \in Selections(c)
      BY <1>1, <3>2
    <3>4. x \in Selections(c)
      BY <3>3 DEF Selections
    <3> HIDE DEF x
    <3>5. [s.steps EXCEPT ![n] = x] \in Seq(Selections(c))
      BY <1>1, <3>2, <3>4, ReplaceType
    <3>6. Chosen(c, [s EXCEPT !.steps = [s.steps EXCEPT ![n] = x]])
      BY <3>5 DEF Chosen
    <3>  QED BY <3>1, <3>6
  <2>  QED BY <2>1, <2>2
<1>  QED BY <1>1, <1>3, <1>4, <1>5, <1>6

\* A step of a proof is a mandatory hypothesis, a label of its table or a step.
LEMMA DecodeType ==
  ASSUME NEW letters \in Seq(Letter), NEW table, NEW mandatory, NEW S, NEW T,
         mandatory \in Seq(S), table \in Seq(T)
  PROVE  LET steps == Decode(letters, table, mandatory).steps IN
         /\ DOMAIN steps = 1..Len(steps) /\ Len(steps) \in Nat
         /\ \A i \in 1..Len(steps) :
              \/ steps[i].by = "step" /\ steps[i].of \in Nat \ {0}
              \/ steps[i].by # "step" /\ steps[i].of \in Range(mandatory) \cup Range(table)
<1> DEFINE c == [table |-> table, mandatory |-> mandatory]
<1>0. c.table = table /\ c.mandatory = mandatory
  OBVIOUS
<1> DEFINE end == FoldLeft(LAMBDA s, l : TakeLetter(table, mandatory, s, l), NoneTaken, letters)
<1>1. end = Spelling!Fold(c, NoneTaken, letters)
  BY <1>0 DEF LetterStep, FoldLeft, MapThenFoldSet, Spelling!Fold, Spelling!Iterates, Max, Spelling!Max
<1>2. Decode(letters, table, mandatory).steps = end.steps
  BY DEF Decode
<1> HIDE DEF c, end
<1>3. LettersKeep(c, 0, NoneTaken)
  BY DEF LettersKeep, Chosen, NoneTaken
<1>4. ASSUME NEW a, NEW i \in 1..Len(letters), LettersKeep(c, i - 1, a)
      PROVE  LettersKeep(c, i, LetterStep(c, a, letters[i]))
  <2>1. letters[i] \in Letter
    OBVIOUS
  <2>  QED BY <1>0, <1>4, <2>1, LetterType DEF LettersKeep
<1>5. DOMAIN letters = 1..Len(letters) /\ Len(letters) \in Nat
  OBVIOUS
<1>6. Chosen(c, end)
  <2>1. LettersKeep(c, Len(letters), Spelling!Fold(c, NoneTaken, letters))
    <3> HIDE DEF LettersKeep, LetterStep
    <3>  QED BY <1>3, <1>4, <1>5, Spelling!FoldKeeps
  <2>  QED BY <1>1, <2>1 DEF LettersKeep
<1>7. end.steps \in Seq(Selections(c))
  BY <1>6 DEF Chosen
<1>8. DOMAIN end.steps = 1..Len(end.steps) /\ Len(end.steps) \in Nat
      /\ \A i \in 1..Len(end.steps) : end.steps[i] \in Selections(c)
  BY <1>7
<1>9. \A x \in Selections(c) :
        \/ x.by = "step" /\ x.of \in Nat \ {0}
        \/ x.by # "step" /\ x.of \in Range(c.mandatory) \cup Range(c.table)
  BY DEF Selections
<1>  QED BY <1>0, <1>2, <1>8, <1>9

\* Every line of a proof is by a hypothesis or by a label of its table.
Sourced(c, m) ==
    /\ DOMAIN m = {"stack", "saved", "lines", "premises", "top", "error"}
    /\ \E S : m.lines \in Seq(S)
    /\ \A i \in 1..Len(m.lines) : m.lines[i].by \in DOMAIN c.db.hypotheses \cup c.labels
    /\ c.failed => m.error
MachineStep(c, m, s) == TakeStep(c.db, m, s)
MachineKeeps(c, n, m) == Sourced(c, m)
Running == INSTANCE FoldProofs WITH Op <- MachineStep, Keeps <- MachineKeeps

\* What the lines and the error of a machine are settles whether it is sourced.
LEMMA SourcedKept ==
  ASSUME NEW c, NEW m, NEW n, Sourced(c, m), DOMAIN n = DOMAIN m,
         n.lines = m.lines, m.error => n.error
  PROVE  Sourced(c, n)
BY DEF Sourced

LEMMA SourcedGrown ==
  ASSUME NEW c, NEW m, NEW n, NEW l, Sourced(c, m), DOMAIN n = DOMAIN m,
         l.by \in DOMAIN c.db.hypotheses \cup c.labels,
         n.lines = Append(m.lines, l), m.error => n.error
  PROVE  Sourced(c, n)
<1> DEFINE N == Len(m.lines)
<1>1. PICK S : m.lines \in Seq(S)
  BY DEF Sourced
<1>2. \A i \in 1..N : m.lines[i].by \in DOMAIN c.db.hypotheses \cup c.labels
  BY DEF Sourced
<1>3. m.lines \in Seq(S \cup {l}) /\ N \in Nat
  BY <1>1
<1>4. /\ n.lines \in Seq(S \cup {l}) /\ Len(n.lines) = N + 1
      /\ \A i \in 1..(N + 1) : n.lines[i] = IF i = N + 1 THEN l ELSE m.lines[i]
  BY <1>3
<1> HIDE DEF N
<1>5. \A i \in 1..(N + 1) : n.lines[i].by \in DOMAIN c.db.hypotheses \cup c.labels
  BY <1>2, <1>3, <1>4
<1>6. \E T : n.lines \in Seq(T)
  BY <1>4
<1>  QED BY <1>4, <1>5, <1>6 DEF Sourced

LEMMA PushSourced ==
  ASSUME NEW c, NEW m, Sourced(c, m), NEW name \in DOMAIN c.db.hypotheses
  PROVE  Sourced(c, PushHypothesis(c.db, m, name))
<1> DEFINE h == c.db.hypotheses[name]
           entry == [typecode |-> h.typecode, tokens |-> h.tokens, line |-> Len(m.lines) + 1]
           l == [tokens |-> h.tokens, by |-> name, cites |-> << >>]
           p == PushHypothesis(c.db, m, name)
<1>0. DOMAIN m = {"stack", "saved", "lines", "premises", "top", "error"}
  BY DEF Sourced
<1>1. CASE h.kind = "$f"
  <2>1. p = [m EXCEPT !.top = [entry EXCEPT !.line = NoLine]]
    BY <1>1 DEF PushHypothesis
  <2>2. DOMAIN p = DOMAIN m /\ p.lines = m.lines /\ p.error = m.error
    BY <1>0, <2>1
  <2>  QED BY <2>2, SourcedKept
<1>2. CASE h.kind # "$f" /\ name \in DOMAIN m.premises
  <2>1. p = [m EXCEPT !.top = m.premises[name]]
    BY <1>2 DEF PushHypothesis
  <2>2. DOMAIN p = DOMAIN m /\ p.lines = m.lines /\ p.error = m.error
    BY <1>0, <2>1
  <2>  QED BY <2>2, SourcedKept
<1>3. CASE h.kind # "$f" /\ name \notin DOMAIN m.premises
  <2>1. p = [m EXCEPT !.top = entry, !.premises = With(m.premises, name, entry),
                      !.lines = Append(m.lines, l)]
    BY <1>3 DEF PushHypothesis
  <2> HIDE DEF entry, p
  <2>2. DOMAIN p = DOMAIN m /\ p.lines = Append(m.lines, l) /\ p.error = m.error
    BY <1>0, <2>1
  <2>3. l.by \in DOMAIN c.db.hypotheses \cup c.labels
    OBVIOUS
  <2> HIDE DEF l
  <2>4. Sourced(c, p)
    BY <2>2, <2>3, SourcedGrown
  <2>  QED BY <2>4 DEF p
<1>  QED BY <1>1, <1>2, <1>3

LEMMA ApplySourced ==
  ASSUME NEW c, NEW m, Sourced(c, m), NEW name \in c.labels
  PROVE  Sourced(c, ApplyAssertion(c.db, m, name))
<1> DEFINE a      == c.db.assertions[name]
           arity  == Len(a.mandatory)
           base   == Len(m.stack) - arity
           slots  == {i \in 1..arity : c.db.hypotheses[a.mandatory[i]].kind = "$f"}
           sigma  == [v \in {c.db.hypotheses[a.mandatory[i]].tokens[1] : i \in slots} |->
                        m.stack[base + (CHOOSE i \in slots :
                                          c.db.hypotheses[a.mandatory[i]].tokens[1] = v)].tokens]
           tokens == Substitute(a.tokens, sigma)
           p == ApplyAssertion(c.db, m, name)
<1>0. DOMAIN m = {"stack", "saved", "lines", "premises", "top", "error"}
  BY DEF Sourced
<1>1. CASE base < 0
  <2>1. p = [m EXCEPT !.error = TRUE]
    BY <1>1, Zenon DEF ApplyAssertion
  <2>2. DOMAIN p = DOMAIN m /\ p.lines = m.lines /\ p.error = TRUE
    BY <1>0, <2>1
  <2>  QED BY <2>2, SourcedKept
<1>2. CASE ~(base < 0) /\ a.typecode # Logical
  <2> DEFINE top == [typecode |-> a.typecode, tokens |-> tokens, line |-> NoLine]
  <2>1. p = [m EXCEPT !.stack = SubSeq(m.stack, 1, base), !.top = top]
    BY <1>2, Zenon DEF ApplyAssertion
  <2> HIDE DEF top, p, base
  <2>2. DOMAIN p = DOMAIN m /\ p.lines = m.lines /\ p.error = m.error
    BY <1>0, <2>1
  <2>3. Sourced(c, p)
    BY <2>2, SourcedKept
  <2>  QED BY <2>3 DEF p
<1>3. CASE ~(base < 0) /\ a.typecode = Logical
  <2>1. PICK cites, top :
          p = [m EXCEPT !.stack = SubSeq(m.stack, 1, base), !.top = top,
                        !.lines = Append(m.lines, [tokens |-> tokens, by |-> name, cites |-> cites])]
    BY <1>3, Zenon DEF ApplyAssertion
  <2> DEFINE l == [tokens |-> tokens, by |-> name, cites |-> cites]
  <2>2. l.by \in DOMAIN c.db.hypotheses \cup c.labels
    OBVIOUS
  <2> HIDE DEF l, p, base
  <2>3. p = [m EXCEPT !.stack = SubSeq(m.stack, 1, base), !.top = top, !.lines = Append(m.lines, l)]
    BY <2>1, Zenon DEF l
  <2>4. DOMAIN p = DOMAIN m /\ p.lines = Append(m.lines, l) /\ p.error = m.error
    BY <1>0, <2>3
  <2>5. Sourced(c, p)
    BY <2>2, <2>4, SourcedGrown
  <2>  QED BY <2>5 DEF p
<1>  QED BY <1>1, <1>2, <1>3

LEMMA StepSourced ==
  ASSUME NEW c, NEW m, Sourced(c, m), NEW s,
         s.by = "step" \/ (s.by # "step" /\ s.of \in DOMAIN c.db.hypotheses \cup c.labels)
  PROVE  Sourced(c, MachineStep(c, m, s))
<1> DEFINE got == CASE m.error -> m
                    [] ~m.error /\ s.by = "step" ->
                         IF s.of > Len(m.saved) THEN [m EXCEPT !.error = TRUE]
                         ELSE [m EXCEPT !.top = m.saved[s.of]]
                    [] ~m.error /\ s.by # "step" ->
                         IF s.of \in DOMAIN c.db.hypotheses THEN PushHypothesis(c.db, m, s.of)
                         ELSE ApplyAssertion(c.db, m, s.of)
<1>0. DOMAIN m = {"stack", "saved", "lines", "premises", "top", "error"}
  BY DEF Sourced
<1>1. Sourced(c, got)
  <2>1. CASE m.error
    BY <2>1
  <2>2. CASE ~m.error /\ s.by = "step" /\ s.of > Len(m.saved)
    <3> DEFINE p == [m EXCEPT !.error = TRUE]
    <3>1. DOMAIN p = DOMAIN m /\ p.lines = m.lines /\ p.error = TRUE
      BY <1>0
    <3>2. got = p
      BY <2>2
    <3> HIDE DEF p, got
    <3>  QED BY <3>1, <3>2, SourcedKept
  <2>3. CASE ~m.error /\ s.by = "step" /\ ~(s.of > Len(m.saved))
    <3> DEFINE p == [m EXCEPT !.top = m.saved[s.of]]
    <3>1. DOMAIN p = DOMAIN m /\ p.lines = m.lines /\ p.error = m.error
      BY <1>0
    <3>2. got = p
      BY <2>3
    <3> HIDE DEF p, got
    <3>  QED BY <3>1, <3>2, SourcedKept
  <2>4. CASE ~m.error /\ s.by # "step" /\ s.of \in DOMAIN c.db.hypotheses
    <3>1. got = PushHypothesis(c.db, m, s.of)
      BY <2>4
    <3> HIDE DEF got
    <3>  QED BY <2>4, <3>1, PushSourced
  <2>5. CASE ~m.error /\ s.by # "step" /\ s.of \notin DOMAIN c.db.hypotheses
    <3>1. got = ApplyAssertion(c.db, m, s.of) /\ s.of \in c.labels
      BY <2>5
    <3> HIDE DEF got
    <3>  QED BY <3>1, ApplySourced
  <2>  QED BY <2>1, <2>2, <2>3, <2>4, <2>5
<1>2. MachineStep(c, m, s) =
        IF got.error THEN got
        ELSE [got EXCEPT !.stack = Append(@, got.top),
                         !.saved = IF s.saved THEN Append(@, got.top) ELSE @]
  BY DEF MachineStep, TakeStep
<1> HIDE DEF got
<1>3. CASE got.error
  BY <1>1, <1>2, <1>3
<1>4. CASE ~got.error
  <2>1. PICK stack, saved : MachineStep(c, m, s) = [got EXCEPT !.stack = stack, !.saved = saved]
    BY <1>2, <1>4
  <2>2. DOMAIN got = {"stack", "saved", "lines", "premises", "top", "error"}
    BY <1>1 DEF Sourced
  <2> DEFINE p == [got EXCEPT !.stack = stack, !.saved = saved]
  <2>3. DOMAIN p = DOMAIN got /\ p.lines = got.lines /\ p.error = got.error
    BY <2>2
  <2> HIDE DEF p
  <2>4. Sourced(c, p)
    BY <1>1, <2>3, SourcedKept
  <2>  QED BY <2>1, <2>4 DEF p
<1>  QED BY <1>3, <1>4

\* A proof that import_proof makes lines of names hypotheses and what the file
\* asserts before its theorem (_reject_forward_citations, decode).
THEOREM ProofsCiteEarlier ==
  ASSUME NEW d \in Databases, Declared(d), NEW t \in DOMAIN d.assertions,
         ImportProof(d, t).ok
  PROVE  \A line \in Range(ImportProof(d, t).lines) :
           \/ line.by \in DOMAIN d.hypotheses
           \/ line.by \in DOMAIN d.assertions /\ Position(d, line.by) < Position(d, t)
<1> DEFINE a == d.assertions[t]
           read == Decode(a.letters, a.table, a.mandatory)
           failed == ForwardCitation(d, t) \/ read.error
           c == [db |-> d, labels |-> Range(a.table), failed |-> failed]
           end == FoldLeft(LAMBDA m, s : TakeStep(d, m, s), NothingPushed(failed), read.steps)
<1>0. c.db = d /\ c.labels = Range(a.table) /\ c.failed = failed
  OBVIOUS
<1>1. end = Running!Fold(c, NothingPushed(failed), read.steps)
  <2> HIDE DEF failed, a, read
  <2>  QED BY <1>0 DEF MachineStep, FoldLeft, MapThenFoldSet, Running!Fold, Running!Iterates, Max,
           Running!Max
<1>2. ImportProof(d, t) = [ok |-> ~end.error /\ Concludes(d, end, t), lines |-> end.lines]
  BY DEF ImportProof
<1> HIDE DEF c, end
<1>3. a.letters \in Seq(Letter) /\ a.table \in Seq(STRING) /\ a.mandatory \in Seq(DOMAIN d.hypotheses)
  <2>1. a \in Assertions
    BY DatabaseType
  <2>2. a.mandatory \in Seq(DOMAIN d.hypotheses)
    BY DEF Declared
  <2> HIDE DEF a
  <2>  QED BY <2>1, <2>2 DEF Assertions
<1>4. /\ DOMAIN read.steps = 1..Len(read.steps) /\ Len(read.steps) \in Nat
      /\ \A i \in 1..Len(read.steps) :
           \/ read.steps[i].by = "step"
           \/ read.steps[i].by # "step" /\ read.steps[i].of \in Range(a.mandatory) \cup Range(a.table)
  <2> HIDE DEF a
  <2>  QED BY <1>3, DecodeType
<1> HIDE DEF read
<1>5. Range(a.mandatory) \subseteq DOMAIN d.hypotheses
  <2> HIDE DEF a
  <2>  QED BY <1>3 DEF Range
<1> HIDE DEF a
<1>6. MachineKeeps(c, 0, NothingPushed(failed))
  <2>1. DOMAIN NothingPushed(failed) = {"stack", "saved", "lines", "premises", "top", "error"}
        /\ NothingPushed(failed).lines = << >> /\ NothingPushed(failed).error = failed
    BY DEF NothingPushed
  <2>2. << >> \in Seq({}) /\ 1..Len(<< >>) = {}
    OBVIOUS
  <2> HIDE DEF failed
  <2>  QED BY <1>0, <2>1, <2>2 DEF Sourced, MachineKeeps
<1> HIDE DEF failed
<1>7. ASSUME NEW m, NEW i \in 1..Len(read.steps), MachineKeeps(c, i - 1, m)
      PROVE  MachineKeeps(c, i, MachineStep(c, m, read.steps[i]))
  BY <1>0, <1>4, <1>5, <1>7, StepSourced DEF MachineKeeps
<1>8. Sourced(c, end)
  <2>1. MachineKeeps(c, Len(read.steps), Running!Fold(c, NothingPushed(failed), read.steps))
    <3> HIDE DEF MachineKeeps, MachineStep
    <3>  QED BY <1>4, <1>6, <1>7, Running!FoldKeeps
  <2>  QED BY <1>1, <2>1 DEF MachineKeeps
<1>9. ~ForwardCitation(d, t) /\ ImportProof(d, t).lines = end.lines
  <2> DEFINE good == ~end.error /\ Concludes(d, end, t)
  <2>01. good \in BOOLEAN
    OBVIOUS
  <2>02. ImportProof(d, t) = [ok |-> good, lines |-> end.lines]
    BY <1>2, Zenon
  <2> HIDE DEF good
  <2>03. ImportProof(d, t).ok = good /\ ImportProof(d, t).lines = end.lines
    BY <2>01, <2>02
  <2>1. ~end.error /\ ImportProof(d, t).lines = end.lines
    BY <2>01, <2>03 DEF good
  <2>2. c.failed => end.error
    BY <1>8 DEF Sourced
  <2>3. ~failed
    BY <1>0, <2>1, <2>2
  <2>  QED BY <2>1, <2>3 DEF failed
<1>10. \A name \in Range(a.table) :
         \/ name \in DOMAIN d.hypotheses
         \/ name \in DOMAIN d.assertions /\ ~(Position(d, name) >= Position(d, t))
  BY <1>9 DEF ForwardCitation, a
<1>11. ASSUME NEW line \in Range(end.lines)
       PROVE  line.by \in DOMAIN d.hypotheses \cup Range(a.table)
  <2>1. PICK S : end.lines \in Seq(S)
    BY <1>8 DEF Sourced
  <2>2. \A i \in 1..Len(end.lines) : end.lines[i].by \in DOMAIN d.hypotheses \cup Range(a.table)
    BY <1>0, <1>8 DEF Sourced
  <2>3. PICK i \in 1..Len(end.lines) : line = end.lines[i]
    BY <2>1 DEF Range
  <2>  QED BY <2>2, <2>3
<1>12. ASSUME NEW x \in DOMAIN d.assertions, ~(Position(d, x) >= Position(d, t))
       PROVE  Position(d, x) < Position(d, t)
  <2>1. x \in Range(d.order) /\ t \in Range(d.order) /\ d.order \in Seq(STRING)
    BY DatabaseType DEF Declared
  <2>2. Position(d, x) \in 0..(Len(d.order) - 1) /\ Position(d, t) \in 0..(Len(d.order) - 1)
    BY <2>1, PositionType
  <2>  QED BY <1>12, <2>1, <2>2
<1>  QED BY <1>9, <1>10, <1>11, <1>12
-----------------------------------------------------------------------------
(* The import: what is true all along.                                     *)

\* What a run reads off its file.
JobTyped ==
    /\ db \in Databases /\ Declared(db)
    /\ reach \in 0..(Len(db.order) - 1)
    /\ Len(opens) \in Nat /\ \A i \in 1..Len(opens) : opens[i] \in Nat
    /\ Checked \subseteq Range(db.order)
    /\ \A t \in Checked : job.proofs[t].ok =>
         \A x \in Cites(t) :
            \/ x \in DOMAIN db.hypotheses
            \/ x \in Range(db.order) /\ Position(db, x) < Position(db, t)

RunFields == {"n", "stage", "at", "checked", "admitted", "watermark", "library", "ids", "unstored"}
RowFields == {"systems", "folders", "entries", "proofs", "described", "notation"}
ProofFields == {"label", "system", "folder", "valid", "uses", "recorded", "refs", "theorem",
                "published", "again"}

\* A run's library holds what is behind it, and each of that either has an entry,
\* in the layer of its position, or failed to store.
RunTyped(r) ==
    /\ DOMAIN r = RunFields /\ r.n \in Nat /\ r.at \in Nat
    /\ r.stage \in {"none", "refused", "walk", "promote", "handed", "done"}
    /\ r.library = DOMAIN r.ids \cup r.unstored
    /\ \A t \in r.library : t \in Range(db.order) /\ Position(db, t) < r.at
    /\ \A t \in DOMAIN r.ids : r.ids[t] = <<SystemAt(r.n, Position(db, t)), t>>

\* A stored proof was read, and is filed in the layer of its theorem.
ProofTyped(p) ==
    /\ DOMAIN p = ProofFields
    /\ p.label \in Checked /\ job.proofs[p.label].ok
    /\ p.system = SystemAt(p.system[1], Position(db, p.label))

\* An entry is of a run that has begun.
EntryTyped(n, e) == e[1][1] \in Nat /\ e[1][1] <= n /\ e[2] \in Range(db.order)

Draft(p) == ~p.published /\ p.theorem = NoEntry

\* What PublishedWhole and CitationsRecorded say of one proof, of any rows.
WholeProof(rows, p) ==
    p.published =>
        /\ p.valid \/ p.again
        /\ (p.theorem = NoEntry) = (<<p.system, p.label>> \notin rows.entries)
        /\ Descriptions(p.system[1]) \subseteq rows.described
        /\ <<p.system[1], 1>> \in rows.notation
RecordedProof(rows, p) ==
    p.recorded =>
        \A x \in p.uses :
            \E e \in p.refs \cap rows.entries :
                e[2] = x /\ e[1] \in Chain(p.system) /\ Position(db, x) < Position(db, p.label)

Rows(n, rows) ==
    /\ DOMAIN rows = RowFields
    /\ \A e \in rows.entries : EntryTyped(n, e)
    /\ \A p \in rows.proofs :
         ProofTyped(p) /\ WholeProof(rows, p) /\ RecordedProof(rows, p)

\* While a run walks the file, the entries of its systems are those it knows.
Walking(r) == r.stage \in {"walk", "promote"}
Own(r, rows) ==
    Walking(r) =>
        /\ \A e \in rows.entries : e[1][1] = r.n => e[2] \in DOMAIN r.ids
        /\ \A t \in DOMAIN r.ids : r.ids[t] \in rows.entries

\* Until a run ends, every proof is a draft, and what is committed until it commits.
Ended(r) == r.stage \in {"handed", "done"}
Unpublished(r, rows, committed) ==
    /\ ~Ended(r) => \A p \in rows.proofs : Draft(p)
    /\ r.stage # "done" => \A p \in committed.proofs : Draft(p)

Kept(r, rows, committed) ==
    /\ RunTyped(r) /\ Rows(r.n, rows) /\ Rows(r.n, committed)
    /\ committed.entries \subseteq rows.entries
    /\ Own(r, rows) /\ Unpublished(r, rows, committed)

ImportInv == JobTyped /\ Kept(run, session, store)

\* The job of a run does not change: it is enough to show what a step leaves of it.
LEMMA JobStays ==
  ASSUME job' = job
  PROVE  /\ JobTyped => JobTyped'
         /\ Kept(run', session', store') => Kept(run, session, store)'
<1>1. JobTyped => JobTyped'
  BY DEF JobTyped, db, reach, horizon, opens, Checked, Cites
<1>2. RunTyped(run') => RunTyped(run)'
  BY DEF RunTyped, db, SystemAt, opens
<1>3. \A n : Descriptions(n)' = Descriptions(n)
  BY DEF Descriptions, DescribedAt, SystemAt, db, reach, horizon, opens
<1>4. \A p : /\ ProofTyped(p) => ProofTyped(p)'
             /\ WholeProof(session', p) => WholeProof(session, p)'
             /\ WholeProof(store', p) => WholeProof(store, p)'
             /\ RecordedProof(session', p) => RecordedProof(session, p)'
             /\ RecordedProof(store', p) => RecordedProof(store, p)'
  BY <1>3 DEF ProofTyped, WholeProof, RecordedProof, db, SystemAt, opens, Checked
<1>5. \A e : EntryTyped(run'.n, e) => EntryTyped(run.n, e)'
  BY DEF EntryTyped, db
<1>6. Rows(run'.n, session') => Rows(run.n, session)'
  BY <1>4, <1>5 DEF Rows
<1>7. Rows(run'.n, store') => Rows(run.n, store)'
  BY <1>4, <1>5 DEF Rows
<1>8. /\ Own(run', session') => Own(run, session)'
      /\ Unpublished(run', session', store') => Unpublished(run, session, store)'
  BY DEF Own, Unpublished, Walking, Ended, Draft
<1>  QED BY <1>1, <1>2, <1>6, <1>7, <1>8 DEF Kept

LEMMA JobPositions ==
  ASSUME JobTyped
  PROVE  /\ \A x \in Range(db.order) : Position(db, x) \in Nat
         /\ \A p \in 0..reach : /\ Label(db, p) \in Range(db.order)
                                /\ Position(db, Label(db, p)) = p
         /\ reach \in Nat
<1>1. db \in Databases /\ Declared(db) /\ reach \in 0..(Len(db.order) - 1)
  BY DEF JobTyped
<1>2. db.order \in Seq(STRING) /\ Len(db.order) \in Nat
  BY <1>1, DatabaseType
<1>3. /\ \A i \in 1..Len(db.order) : Position(db, db.order[i]) = i - 1
      /\ \A x \in Range(db.order) : Position(db, x) \in 0..(Len(db.order) - 1)
  BY <1>1, PositionType
<1>4. ASSUME NEW p \in 0..reach
      PROVE  Label(db, p) \in Range(db.order) /\ Position(db, Label(db, p)) = p
  <2>1. p + 1 \in 1..Len(db.order) /\ (p + 1) - 1 = p
    BY <1>1, <1>2
  <2>  QED BY <1>2, <1>3, <2>1 DEF Label, Range
<1>  QED BY <1>1, <1>2, <1>3, <1>4

LEMMA RowsLater ==
  ASSUME NEW n \in Nat, NEW m \in Nat, n <= m, NEW rows, Rows(n, rows)
  PROVE  Rows(m, rows)
<1>1. \A e : EntryTyped(n, e) => EntryTyped(m, e)
  BY DEF EntryTyped
<1>  QED BY <1>1 DEF Rows

\* A run that moves on, and knows what it knew.
LEMMA RunMoves ==
  ASSUME JobTyped, NEW r, NEW rows, NEW committed, Kept(r, rows, committed), NEW q,
         DOMAIN q = RunFields, q.n = r.n, q.at \in Nat, r.at <= q.at,
         q.library = r.library, q.ids = r.ids, q.unstored = r.unstored,
         Walking(r), Walking(q)
  PROVE  Kept(q, rows, committed)
<1>1. RunTyped(r) /\ r.at \in Nat
  BY DEF Kept, RunTyped
<1>2. ASSUME NEW t \in q.library PROVE t \in Range(db.order) /\ Position(db, t) < q.at
  <2>1. t \in Range(db.order) /\ Position(db, t) < r.at
    BY <1>1, <1>2 DEF RunTyped
  <2>2. Position(db, t) \in Int
    BY <2>1, JobPositions
  <2>  QED BY <1>1, <2>1, <2>2
<1>3. q.stage \in {"none", "refused", "walk", "promote", "handed", "done"}
  BY DEF Walking
<1>4. RunTyped(q)
  BY <1>1, <1>2, <1>3 DEF RunTyped
<1>5. Own(q, rows)
  BY DEF Own, Kept
<1>6. Unpublished(q, rows, committed)
  BY DEF Unpublished, Kept, Walking, Ended
<1>  QED BY <1>4, <1>5, <1>6 DEF Kept

\* A proof that joins the rows of the session.
LEMMA ProofsJoin ==
  ASSUME NEW r, NEW rows, NEW committed, Kept(r, rows, committed), Walking(r), NEW new,
         \A p \in new : ProofTyped(p) /\ Draft(p) /\ RecordedProof(rows, p)
  PROVE  Kept(r, [rows EXCEPT !.proofs = @ \cup new], committed)
<1> DEFINE rows2 == [rows EXCEPT !.proofs = @ \cup new]
<1>1. DOMAIN rows = RowFields
  BY DEF Kept, Rows
<1>2. DOMAIN rows2 = RowFields /\ rows2.proofs = rows.proofs \cup new
      /\ rows2.entries = rows.entries /\ rows2.described = rows.described
      /\ rows2.notation = rows.notation
  BY <1>1 DEF RowFields
<1> HIDE DEF rows2
<1>3. \A p : /\ WholeProof(rows, p) => WholeProof(rows2, p)
             /\ RecordedProof(rows, p) => RecordedProof(rows2, p)
  BY <1>2 DEF WholeProof, RecordedProof
<1>4. \A p \in new : WholeProof(rows, p)
  BY DEF Draft, WholeProof
<1>5. Rows(r.n, rows2)
  BY <1>2, <1>3, <1>4 DEF Rows, Kept
<1>6. Own(r, rows2)
  BY <1>2 DEF Own, Kept
<1>7. Unpublished(r, rows2, committed)
  BY <1>2 DEF Unpublished, Kept, Walking, Ended
<1>8. Kept(r, rows2, committed)
  BY <1>2, <1>5, <1>6, <1>7 DEF Kept
<1>  QED BY <1>8 DEF rows2

LEMMA Commits ==
  ASSUME NEW r, NEW rows, NEW committed, Kept(r, rows, committed), Walking(r)
  PROVE  Kept(r, rows, rows)
BY DEF Kept, Unpublished, Walking, Ended

LEMMA Begins ==
  ASSUME NEW r, NEW rows, NEW committed, Kept(r, rows, committed), r.stage = "none",
         NEW systems, NEW folders
  PROVE  Kept([NoRun EXCEPT !.n = r.n + 1, !.stage = "walk"],
              [rows EXCEPT !.systems = @ \cup systems, !.folders = @ \cup folders], committed)
<1> DEFINE q == [NoRun EXCEPT !.n = r.n + 1, !.stage = "walk"]
           rows2 == [rows EXCEPT !.systems = @ \cup systems, !.folders = @ \cup folders]
<1>1. DOMAIN rows = RowFields /\ r.n \in Nat
  BY DEF Kept, Rows, RunTyped
<1>2. DOMAIN rows2 = RowFields /\ rows2.proofs = rows.proofs
      /\ rows2.entries = rows.entries /\ rows2.described = rows.described
      /\ rows2.notation = rows.notation
  BY <1>1 DEF RowFields
<1>3. DOMAIN q = RunFields /\ q.n = r.n + 1 /\ q.stage = "walk" /\ q.at = 0
      /\ q.library = {} /\ q.ids = << >> /\ q.unstored = {}
  BY DEF NoRun, RunFields
<1>4. DOMAIN << >> = {}
  OBVIOUS
<1> HIDE DEF q, rows2
<1>5. RunTyped(q)
  BY <1>1, <1>3, <1>4 DEF RunTyped
<1>6. Rows(q.n, rows2) /\ Rows(q.n, committed)
  <2>1. q.n \in Nat /\ r.n <= q.n
    BY <1>1, <1>3
  <2>2. Rows(q.n, rows) /\ Rows(q.n, committed)
    BY <1>1, <2>1, RowsLater DEF Kept
  <2>  QED BY <1>2, <2>2 DEF Rows, WholeProof, RecordedProof
<1>7. Own(q, rows2)
  <2>1. \A e \in rows2.entries : e[1][1] # q.n
    BY <1>1, <1>2, <1>3 DEF Kept, Rows, EntryTyped
  <2>  QED BY <1>3, <1>4, <2>1 DEF Own
<1>8. Unpublished(q, rows2, committed)
  BY <1>2, <1>3 DEF Unpublished, Kept, Ended
<1>9. Kept(q, rows2, committed)
  BY <1>2, <1>5, <1>6, <1>7, <1>8 DEF Kept
<1>  QED BY <1>9 DEF q, rows2

\* A label joins the library at its position, with an entry or without one.
LEMMA Enters ==
  ASSUME JobTyped, NEW r, NEW rows, NEW committed, Kept(r, rows, committed), Walking(r),
         NEW t \in Range(db.order), Position(db, t) = r.at, NEW q, DOMAIN q = RunFields,
         q.n = r.n, q.at = r.at + 1, Walking(q), q.library = r.library \cup {t},
         q.ids = With(r.ids, t, <<SystemAt(r.n, r.at), t>>), q.unstored = r.unstored
  PROVE  Kept(q, [rows EXCEPT !.entries = @ \cup {<<SystemAt(r.n, r.at), t>>}], committed)
<1> DEFINE id == <<SystemAt(r.n, r.at), t>>
           rows2 == [rows EXCEPT !.entries = @ \cup {id}]
<1>1. DOMAIN rows = RowFields /\ r.n \in Nat /\ r.at \in Nat
  BY DEF Kept, Rows, RunTyped
<1>2. DOMAIN rows2 = RowFields /\ rows2.proofs = rows.proofs
      /\ rows2.entries = rows.entries \cup {id} /\ rows2.described = rows.described
      /\ rows2.notation = rows.notation
  BY <1>1 DEF RowFields
<1>3. DOMAIN q.ids = DOMAIN r.ids \cup {t}
      /\ \A x \in DOMAIN q.ids : q.ids[x] = IF x = t THEN id ELSE r.ids[x]
  BY DEF With
<1>4. id[1] = SystemAt(r.n, r.at) /\ id[2] = t /\ id[1][1] = r.n
  BY DEF SystemAt
<1>5. q.stage \in {"none", "refused", "walk", "promote", "handed", "done"}
  BY DEF Walking
<1> HIDE DEF id, rows2
<1>6. RunTyped(q)
  <2>1. ASSUME NEW x \in q.library PROVE x \in Range(db.order) /\ Position(db, x) < q.at
    <3>1. x = t \/ (x \in Range(db.order) /\ Position(db, x) < r.at)
      BY DEF Kept, RunTyped
    <3>2. Position(db, x) \in Nat
      BY <3>1, JobPositions
    <3>  QED BY <1>1, <3>1, <3>2
  <2>2. ASSUME NEW x \in DOMAIN q.ids PROVE q.ids[x] = <<SystemAt(q.n, Position(db, x)), x>>
    BY <1>3 DEF Kept, RunTyped, id
  <2>3. q.library = DOMAIN q.ids \cup q.unstored
    BY <1>3 DEF Kept, RunTyped
  <2>4. q.n \in Nat /\ q.at \in Nat
    BY <1>1
  <2>  QED BY <1>5, <2>1, <2>2, <2>3, <2>4 DEF RunTyped
<1>7. Rows(q.n, rows2)
  <2>1. \A e \in rows2.entries : EntryTyped(q.n, e)
    <3>1. EntryTyped(q.n, id)
      BY <1>1, <1>4 DEF EntryTyped
    <3>  QED BY <1>2, <3>1 DEF Kept, Rows
  <2>2. \A p \in rows.proofs : ~p.published
    BY DEF Kept, Unpublished, Walking, Ended, Draft
  <2>3. \A p \in rows2.proofs : WholeProof(rows2, p)
    BY <1>2, <2>2 DEF WholeProof
  <2>4. \A p : RecordedProof(rows, p) => RecordedProof(rows2, p)
    BY <1>2 DEF RecordedProof
  <2>  QED BY <1>2, <2>1, <2>3, <2>4 DEF Kept, Rows
<1>8. Own(q, rows2)
  <2>1. \A e \in rows2.entries : e[1][1] = q.n => e[2] \in DOMAIN q.ids
    BY <1>2, <1>3, <1>4 DEF Kept, Own
  <2>2. \A x \in DOMAIN q.ids : q.ids[x] \in rows2.entries
    BY <1>2, <1>3 DEF Kept, Own
  <2>  QED BY <2>1, <2>2 DEF Own
<1>9. Unpublished(q, rows2, committed)
  BY <1>2 DEF Unpublished, Kept, Walking, Ended
<1>10. Kept(q, rows2, committed)
  BY <1>2, <1>6, <1>7, <1>8, <1>9 DEF Kept
<1>  QED BY <1>10 DEF rows2, id

LEMMA EntersUnstored ==
  ASSUME JobTyped, NEW r, NEW rows, NEW committed, Kept(r, rows, committed), Walking(r),
         NEW t \in Range(db.order), Position(db, t) = r.at, NEW q, DOMAIN q = RunFields,
         q.n = r.n, q.at = r.at + 1, Walking(q), q.library = r.library \cup {t},
         q.ids = r.ids, q.unstored = r.unstored \cup {t}
  PROVE  Kept(q, rows, committed)
<1>1. r.n \in Nat /\ r.at \in Nat
  BY DEF Kept, RunTyped
<1>2. q.stage \in {"none", "refused", "walk", "promote", "handed", "done"}
  BY DEF Walking
<1>3. RunTyped(q)
  <2>1. ASSUME NEW x \in q.library PROVE x \in Range(db.order) /\ Position(db, x) < q.at
    <3>1. x = t \/ (x \in Range(db.order) /\ Position(db, x) < r.at)
      BY DEF Kept, RunTyped
    <3>2. Position(db, x) \in Nat
      BY <3>1, JobPositions
    <3>  QED BY <1>1, <3>1, <3>2
  <2>2. q.library = DOMAIN q.ids \cup q.unstored
    BY DEF Kept, RunTyped
  <2>3. q.n \in Nat /\ q.at \in Nat
    BY <1>1
  <2>4. \A x \in DOMAIN q.ids : q.ids[x] = <<SystemAt(q.n, Position(db, x)), x>>
    BY DEF Kept, RunTyped
  <2>  QED BY <1>2, <2>1, <2>2, <2>3, <2>4 DEF RunTyped
<1>4. Own(q, rows)
  BY DEF Own, Kept
<1>5. Unpublished(q, rows, committed)
  BY DEF Unpublished, Kept, Walking, Ended
<1>  QED BY <1>3, <1>4, <1>5 DEF Kept

\* What is stored of a proof that was read: its labels are of entries before it.
LEMMA RowRecorded ==
  ASSUME JobTyped, Kept(run, session, store), NEW t, Reaches(t), ~Unread(t), NEW valid
  PROVE  LET p == ProofRow(t, valid) IN
         ProofTyped(p) /\ Draft(p) /\ RecordedProof(session, p)
<1> DEFINE p == ProofRow(t, valid)
<1>1. Walking(run) /\ run.at \in Nat /\ run.at <= reach /\ t = Label(db, run.at) /\ t \in Checked
  BY DEF Reaches, label, Kept, RunTyped, Walking
<1>2. reach \in Nat /\ Position(db, t) = run.at
  BY <1>1, JobPositions
<1>3. job.proofs[t].ok
  BY DEF Unread
<1>4. /\ DOMAIN p = ProofFields
      /\ p.label = t /\ p.system = SystemAt(run.n, run.at) /\ p.uses = Uses(t)
      /\ p.recorded = (Uses(t) \cap run.unstored = {})
      /\ p.recorded => p.refs = {run.ids[x] : x \in Uses(t) \cap DOMAIN run.ids}
      /\ ~p.published /\ p.theorem = NoEntry
  BY DEF ProofRow, ProofFields
<1> HIDE DEF p
<1>5. ProofTyped(p)
  <2>1. SystemAt(run.n, run.at)[1] = run.n
    BY DEF SystemAt
  <2>  QED BY <1>1, <1>2, <1>3, <1>4, <2>1 DEF ProofTyped
<1>6. ASSUME p.recorded, NEW x \in p.uses
      PROVE  \E e \in p.refs \cap session.entries :
                e[2] = x /\ e[1] \in Chain(p.system) /\ Position(db, x) < Position(db, p.label)
  <2>1. x \in run.library /\ x \in Uses(t)
    BY <1>4, <1>6 DEF Uses
  <2>2. x \in DOMAIN run.ids
    BY <1>4, <1>6, <2>1 DEF Kept, RunTyped
  <2>3. x \in Range(db.order) /\ Position(db, x) < run.at
        /\ run.ids[x] = <<SystemAt(run.n, Position(db, x)), x>>
    BY <2>1, <2>2 DEF Kept, RunTyped
  <2>4. Position(db, x) \in Nat
    BY <2>3, JobPositions
  <2>5. run.ids[x] \in session.entries
    BY <1>1, <2>2 DEF Kept, Own
  <2>6. run.ids[x] \in p.refs
    BY <1>4, <1>6, <2>1, <2>2
  <2>7. LayerOf(opens, Position(db, x)) \in 1..LayerOf(opens, run.at)
    <3>1. Len(opens) \in Nat /\ \A i \in 1..Len(opens) : opens[i] \in Nat
      BY DEF JobTyped
    <3>2. Position(db, x) <= run.at
      BY <1>1, <2>3, <2>4
    <3>  QED BY <1>1, <2>4, <3>1, <3>2, LaterLayer
  <2>8. SystemAt(run.n, Position(db, x)) \in Chain(p.system)
    BY <1>4, <2>7 DEF SystemAt, Chain
  <2>  QED BY <1>2, <1>4, <2>3, <2>5, <2>6, <2>8
<1>7. RecordedProof(session, p)
  BY <1>6 DEF RecordedProof
<1>8. Draft(p)
  BY <1>4 DEF Draft
<1>  QED BY <1>5, <1>7, <1>8 DEF p

\* The end of a run: its proofs are linked to the entries it knows, and those
\* that are valid are published.
LEMMA Finishes ==
  ASSUME JobTyped, Kept(run, session, store), run.stage = "walk"
  PROVE  LET rows == [session EXCEPT !.proofs = {Published(Linked(p)) : p \in @},
                                     !.described = @ \cup Descriptions(run.n),
                                     !.notation = @ \cup {<<run.n, 1>>}]
         IN /\ Kept([run EXCEPT !.stage = "handed"], rows, store)
            /\ Kept([run EXCEPT !.stage = "done"], rows, rows)
<1> DEFINE rows == [session EXCEPT !.proofs = {Published(Linked(p)) : p \in @},
                                   !.described = @ \cup Descriptions(run.n),
                                   !.notation = @ \cup {<<run.n, 1>>}]
           q(stage) == [run EXCEPT !.stage = stage]
<1>1. DOMAIN session = RowFields /\ DOMAIN run = RunFields
  BY DEF Kept, Rows, RunTyped
<1>2. DOMAIN rows = RowFields /\ rows.proofs = {Published(Linked(p)) : p \in session.proofs}
      /\ rows.entries = session.entries
      /\ rows.described = session.described \cup Descriptions(run.n)
      /\ rows.notation = session.notation \cup {<<run.n, 1>>}
  BY <1>1 DEF RowFields
<1> HIDE DEF rows
<1>3. ASSUME NEW p \in session.proofs
      PROVE  LET l == Linked(p)
                 x == Published(l)
             IN ProofTyped(x) /\ WholeProof(rows, x) /\ RecordedProof(rows, x)
  <2> DEFINE l == Linked(p)
             x == Published(l)
  <2>1. ProofTyped(p) /\ RecordedProof(session, p) /\ ~p.published /\ p.theorem = NoEntry
    BY DEF Kept, Rows, Unpublished, Ended, Draft
  <2>2. DOMAIN p = ProofFields
    BY <2>1 DEF ProofTyped
  <2>3. /\ DOMAIN l = ProofFields /\ l.label = p.label /\ l.system = p.system
        /\ l.uses = p.uses /\ l.refs = p.refs /\ l.recorded = p.recorded
        /\ l.valid = p.valid /\ l.published = p.published
        /\ l.theorem = IF p.system \in Systems(run.n) /\ p.label \in DOMAIN run.ids
                       THEN run.ids[p.label] ELSE p.theorem
    BY <2>2 DEF Linked, ProofFields
  <2> HIDE DEF l
  <2>4. /\ DOMAIN x = ProofFields /\ x.label = l.label /\ x.system = l.system
        /\ x.uses = l.uses /\ x.refs = l.refs /\ x.recorded = l.recorded
        /\ x.valid = l.valid /\ x.theorem = l.theorem
        /\ x.published => l.published \/ (l.system \in Systems(run.n) /\ l.valid)
    BY <2>3 DEF Published, ProofFields
  <2> HIDE DEF x
  <2>5. ProofTyped(x)
    BY <2>1, <2>3, <2>4 DEF ProofTyped
  <2>6. RecordedProof(rows, x)
    BY <1>2, <2>1, <2>3, <2>4 DEF RecordedProof
  <2>7. ASSUME x.published
        PROVE  /\ x.valid
               /\ (x.theorem = NoEntry) = (<<x.system, x.label>> \notin rows.entries)
               /\ Descriptions(x.system[1]) \subseteq rows.described
               /\ <<x.system[1], 1>> \in rows.notation
    <3>1. p.system \in Systems(run.n) /\ x.valid
      BY <2>1, <2>3, <2>4, <2>7
    <3>2. p.system[1] = run.n
      BY <3>1 DEF Systems
    <3>3. p.system = SystemAt(run.n, Position(db, p.label))
      BY <2>1, <3>2 DEF ProofTyped
    <3>4. CASE p.label \in DOMAIN run.ids
      <4>1. x.theorem = <<p.system, p.label>>
        BY <2>3, <2>4, <3>1, <3>3, <3>4 DEF Kept, RunTyped
      <4>2. run.ids[p.label] = <<p.system, p.label>>
        BY <3>3, <3>4 DEF Kept, RunTyped
      <4>3. <<x.system, x.label>> \in rows.entries
        BY <1>2, <2>3, <2>4, <3>4, <4>2 DEF Kept, Own, Walking
      <4>4. <<p.system, p.label>> # << >>
        OBVIOUS
      <4>5. x.theorem # NoEntry
        BY <4>1, <4>4 DEF NoEntry
      <4>  QED BY <1>2, <2>3, <2>4, <3>1, <3>2, <4>3, <4>5
    <3>5. CASE p.label \notin DOMAIN run.ids
      <4>1. x.theorem = NoEntry
        BY <2>1, <2>3, <2>4, <3>5
      <4>2. ASSUME <<p.system, p.label>> \in session.entries PROVE FALSE
        <5> DEFINE e == <<p.system, p.label>>
        <5>1. e \in session.entries /\ e[1] = p.system /\ e[2] = p.label
          BY <4>2
        <5> HIDE DEF e
        <5>2. e[2] \in DOMAIN run.ids
          BY <3>2, <5>1 DEF Kept, Own, Walking
        <5>  QED BY <3>5, <5>1, <5>2
      <4>  QED BY <1>2, <2>3, <2>4, <3>1, <3>2, <4>1, <4>2
    <3>  QED BY <3>4, <3>5
  <2>8. WholeProof(rows, x)
    BY <2>7 DEF WholeProof
  <2>  QED BY <2>5, <2>6, <2>8 DEF x, l
<1>4. Rows(run.n, rows)
  <2>1. \A e \in rows.entries : EntryTyped(run.n, e)
    BY <1>2 DEF Kept, Rows
  <2>  QED BY <1>2, <1>3, <2>1 DEF Rows
<1>5. ASSUME NEW stage \in {"handed", "done"}
      PROVE  /\ RunTyped(q(stage)) /\ q(stage).n = run.n /\ q(stage).stage = stage
             /\ ~Walking(q(stage)) /\ Ended(q(stage))
  <2>1. /\ DOMAIN q(stage) = RunFields /\ q(stage).n = run.n /\ q(stage).stage = stage
        /\ q(stage).at = run.at /\ q(stage).library = run.library /\ q(stage).ids = run.ids
        /\ q(stage).unstored = run.unstored
    BY <1>1 DEF RunFields
  <2> HIDE DEF q
  <2>2. RunTyped(q(stage))
    BY <2>1 DEF Kept, RunTyped
  <2>  QED BY <2>1, <2>2 DEF Walking, Ended
<1> HIDE DEF q
<1>6. Kept(q("handed"), rows, store)
  BY <1>2, <1>4, <1>5 DEF Kept, Own, Unpublished
<1>7. Kept(q("done"), rows, rows)
  BY <1>4, <1>5 DEF Kept, Own, Unpublished
<1>  QED BY <1>6, <1>7 DEF rows, q

\* A committed proof is checked again against the committed entries.
LEMMA Verifies ==
  ASSUME JobTyped, Kept(run, session, store), NEW p, NEW valid, Verify(p, valid)
  PROVE  Kept(run', session', store')
<1> DEFINE found == {e \in store.entries : e[1] \in Chain(p.system) /\ e[2] \in Cites(p.label)}
           row == [p EXCEPT !.valid = valid, !.uses = {e[2] : e \in found},
                            !.refs = found, !.recorded = TRUE, !.again = p.published]
<1>1. /\ p \in store.proofs /\ p \in session.proofs
      /\ store' = [store EXCEPT !.proofs = (@ \ {p}) \cup {row}]
      /\ session' = [session EXCEPT !.proofs = (@ \ {p}) \cup {row}]
      /\ run' = run
  BY DEF Verify
<1>2. DOMAIN session = RowFields /\ DOMAIN store = RowFields
  BY DEF Kept, Rows
<1>3. /\ DOMAIN session' = RowFields /\ session'.proofs = (session.proofs \ {p}) \cup {row}
      /\ session'.entries = session.entries /\ session'.described = session.described
      /\ session'.notation = session.notation
      /\ DOMAIN store' = RowFields /\ store'.proofs = (store.proofs \ {p}) \cup {row}
      /\ store'.entries = store.entries /\ store'.described = store.described
      /\ store'.notation = store.notation
  <2> HIDE DEF row
  <2>  QED BY <1>1, <1>2 DEF RowFields
<1>4. ProofTyped(p)
  BY <1>1 DEF Kept, Rows
<1>5. /\ DOMAIN row = ProofFields /\ row.label = p.label /\ row.system = p.system
      /\ row.uses = {e[2] : e \in found} /\ row.refs = found
      /\ row.theorem = p.theorem /\ row.published = p.published /\ row.again = p.published
  <2>1. DOMAIN p = ProofFields
    BY <1>4 DEF ProofTyped
  <2> HIDE DEF found
  <2>  QED BY <2>1 DEF ProofFields
<1> HIDE DEF row
<1>6. ProofTyped(row)
  BY <1>4, <1>5 DEF ProofTyped
<1>7. ASSUME NEW x \in row.uses
      PROVE  \E e \in row.refs \cap store.entries :
                e[2] = x /\ e[1] \in Chain(row.system) /\ Position(db, x) < Position(db, row.label)
  <2>1. PICK e \in found : e[2] = x
    BY <1>5
  <2>2. e \in store.entries /\ e[1] \in Chain(p.system) /\ x \in Cites(p.label)
    BY <2>1
  <2>3. x \in Range(db.order)
    BY <2>1, <2>2 DEF Kept, Rows, EntryTyped
  <2>4. x \notin DOMAIN db.hypotheses
    BY <2>3 DEF JobTyped, Declared
  <2>5. Position(db, x) < Position(db, p.label)
    BY <1>4, <2>2, <2>4 DEF ProofTyped, JobTyped
  <2>6. e \in row.refs
    BY <1>5, <2>1
  <2> HIDE DEF found
  <2>  QED BY <1>5, <2>1, <2>2, <2>5, <2>6
<1>8. RecordedProof(session', row) /\ RecordedProof(store', row)
  <2>1. store.entries \subseteq session.entries
    BY DEF Kept
  <2>2. \A x \in row.uses :
          \E e \in row.refs \cap session.entries :
             e[2] = x /\ e[1] \in Chain(row.system) /\ Position(db, x) < Position(db, row.label)
    BY <1>7, <2>1
  <2>  QED BY <1>3, <1>7, <2>2 DEF RecordedProof
<1>9. WholeProof(session', row) /\ WholeProof(store', row)
  <2>1. WholeProof(session, p) /\ WholeProof(store, p)
    BY <1>1 DEF Kept, Rows
  <2>2. row.published => row.again = TRUE
    BY <1>5
  <2> HIDE DEF found
  <2>  QED BY <1>3, <1>5, <2>1, <2>2 DEF WholeProof
<1>10. \A x : /\ WholeProof(session, x) => WholeProof(session', x)
              /\ WholeProof(store, x) => WholeProof(store', x)
              /\ RecordedProof(session, x) => RecordedProof(session', x)
              /\ RecordedProof(store, x) => RecordedProof(store', x)
  BY <1>3 DEF WholeProof, RecordedProof
<1>11. Rows(run.n, session') /\ Rows(run.n, store')
  BY <1>3, <1>6, <1>8, <1>9, <1>10 DEF Kept, Rows
<1>12. Unpublished(run, session', store')
  <2>1. run.stage # "done" => Draft(row)
    BY <1>1, <1>5 DEF Kept, Unpublished, Draft
  <2>  QED BY <1>3, <2>1 DEF Kept, Unpublished, Ended
<1>13. Own(run, session')
  BY <1>3 DEF Kept, Own
<1>  QED BY <1>1, <1>3, <1>11, <1>12, <1>13 DEF Kept

LEMMA JobLoads ==
  ASSUME NEW j \in Jobs, Importable(j), job = Loaded(j)
  PROVE  JobTyped
<1> DEFINE d == Parse(j.file)
           h == Horizon(d, j.limit)
<1>1. j.file \in Seq(Statement) /\ j.plan \in Seq([name : STRING, title : STRING]) /\ j.limit \in Nat
  BY JobsAssumption
<1>2. d \in Databases /\ Declared(d)
  BY <1>1, FilesParse
<1>3. /\ Range(Theorems(d, j.limit)) \subseteq Range(d.order)
      /\ h \in Range(d.order)
  <2>1. Theorems(d, j.limit) # << >>
    BY DEF Importable
  <2>  QED BY <1>1, <1>2, <2>1, TheoremsType
<1>4. Len(CorpusLayers(d, j.plan, h)) \in Nat
      /\ \A i \in 1..Len(CorpusLayers(d, j.plan, h)) : CorpusLayers(d, j.plan, h)[i] \in Nat
  BY <1>1, <1>2, LayersType
<1>5. /\ db = d /\ horizon = h /\ opens = CorpusLayers(d, j.plan, h)
      /\ job.proofs = [t \in Range(Theorems(d, j.limit)) |-> ImportProof(d, t)]
  BY DEF Loaded, db, horizon, opens
<1> HIDE DEF d, h
<1>6. Checked \subseteq Range(db.order) /\ \A t \in Checked : job.proofs[t] = ImportProof(db, t)
  BY <1>3, <1>5 DEF Checked
<1>7. reach \in 0..(Len(db.order) - 1)
  BY <1>2, <1>3, <1>5, PositionType DEF reach
<1>8. Range(db.order) = DOMAIN db.assertions
  BY <1>2, <1>5 DEF Declared
<1>9. ASSUME NEW t \in Checked, job.proofs[t].ok, NEW x \in Cites(t)
      PROVE  \/ x \in DOMAIN db.hypotheses
             \/ x \in Range(db.order) /\ Position(db, x) < Position(db, t)
  <2>1. t \in DOMAIN db.assertions /\ ImportProof(db, t).ok
    BY <1>6, <1>8, <1>9
  <2>2. PICK line \in Range(ImportProof(db, t).lines) : line.by = x
    BY <1>6, <1>9 DEF Cites
  <2>  QED BY <1>2, <1>5, <1>8, <2>1, <2>2, ProofsCiteEarlier
<1>  QED BY <1>2, <1>4, <1>5, <1>6, <1>7, <1>9 DEF JobTyped

LEMMA ImportInit == Init => ImportInv
<1> SUFFICES ASSUME Init PROVE ImportInv
  OBVIOUS
<1>1. JobTyped
  <2>1. PICK j \in Jobs : Importable(j) /\ job = Loaded(j)
    BY DEF Init
  <2>  QED BY <2>1, JobLoads
<1>2. session = NoRows /\ store = NoRows /\ run = NoRun
  BY DEF Init
<1>3. DOMAIN NoRows = RowFields /\ NoRows.proofs = {} /\ NoRows.entries = {}
  BY DEF NoRows, RowFields
<1>4. DOMAIN NoRun = RunFields /\ NoRun.n = 0 /\ NoRun.at = 0 /\ NoRun.stage = "none"
      /\ NoRun.library = {} /\ NoRun.ids = << >> /\ NoRun.unstored = {} /\ DOMAIN << >> = {}
  BY DEF NoRun, RunFields
<1>5. RunTyped(run)
  BY <1>2, <1>4 DEF RunTyped
<1>6. Rows(run.n, session) /\ Rows(run.n, store)
  BY <1>2, <1>3 DEF Rows
<1>7. Own(run, session) /\ Unpublished(run, session, store)
  BY <1>2, <1>3, <1>4 DEF Own, Walking, Unpublished
<1>  QED BY <1>1, <1>2, <1>5, <1>6, <1>7 DEF ImportInv, Kept

\* What a label that is due to be checked or promoted is.
LEMMA AtLabel ==
  ASSUME ImportInv, run.at <= reach
  PROVE  /\ label \in Range(db.order) /\ Position(db, label) = run.at
         /\ run.at \in Nat /\ run.at + 1 \in Nat /\ DOMAIN run = RunFields /\ run.n \in Nat
<1>1. run.at \in Nat /\ DOMAIN run = RunFields /\ run.n \in Nat
  BY DEF ImportInv, Kept, RunTyped
<1>2. run.at \in 0..reach
  BY <1>1, JobPositions DEF ImportInv
<1>  QED BY <1>1, <1>2, JobPositions DEF ImportInv, label

LEMMA StoresProof ==
  ASSUME ImportInv, NEW t, Reaches(t), NEW rows, StoreProof(rows),
         \A p \in rows : ProofTyped(p) /\ Draft(p) /\ RecordedProof(session, p)
  PROVE  ImportInv'
<1>1. run.at <= reach /\ Walking(run)
  BY DEF Reaches, Walking
<1>2. run.at \in Nat /\ DOMAIN run = RunFields
  BY <1>1, AtLabel
<1>3. Kept(run, session', store)
  BY <1>1, ProofsJoin DEF StoreProof, ImportInv
<1>4. Kept(run, session', store')
  <2>1. store' = session' \/ store' = store
    BY DEF StoreProof
  <2>  QED BY <1>1, <1>3, <2>1, Commits
<1>5. /\ DOMAIN run' = RunFields /\ run'.n = run.n /\ run'.at = run.at
      /\ run'.library = run.library /\ run'.ids = run.ids /\ run'.unstored = run.unstored
      /\ run'.stage = "promote"
  <2>1. run' = [Grown(run) EXCEPT !.checked = run.checked + 1, !.stage = "promote"]
    BY DEF StoreProof
  <2>  QED BY <1>2, <2>1 DEF Grown, RunFields
<1>6. Kept(run', session', store')
  <2>1. Walking(run') /\ run'.at \in Nat /\ run.at <= run'.at
    BY <1>2, <1>5 DEF Walking
  <2>  QED BY <1>1, <1>4, <1>5, <2>1, RunMoves DEF ImportInv
<1>  QED BY <1>6, JobStays DEF StoreProof, ImportInv

\* The run once it has passed a label.
LEMMA PassedRun ==
  ASSUME ImportInv, NEW t, Due(t)
  PROVE  LET q == Passed(run) IN
         /\ Walking(run) /\ Walking(q)
         /\ t \in Range(db.order) /\ Position(db, t) = run.at
         /\ run.at \in Nat /\ run.n \in Nat
         /\ DOMAIN q = RunFields /\ q.n = run.n /\ q.at = run.at + 1 /\ q.stage = "walk"
         /\ q.library = run.library /\ q.ids = run.ids /\ q.unstored = run.unstored
<1>1. run.at <= reach /\ label = t /\ Walking(run)
  BY DEF Due, Walking
<1>2. /\ t \in Range(db.order) /\ Position(db, t) = run.at
      /\ run.at \in Nat /\ DOMAIN run = RunFields /\ run.n \in Nat
  BY <1>1, AtLabel
<1>3. LET q == Passed(run) IN
      /\ DOMAIN q = RunFields /\ q.n = run.n /\ q.at = run.at + 1 /\ q.stage = "walk"
      /\ q.library = run.library /\ q.ids = run.ids /\ q.unstored = run.unstored
  BY <1>2 DEF Passed, Grown, RunFields
<1>  QED BY <1>1, <1>2, <1>3 DEF Walking

LEMMA ImportStep == ImportInv /\ [Next]_vars => ImportInv'
<1> SUFFICES ASSUME ImportInv, [Next]_vars PROVE ImportInv'
  OBVIOUS
<1>0. JobTyped /\ Kept(run, session, store)
  BY DEF ImportInv
<1>1. DOMAIN run = RunFields /\ run.n \in Nat /\ run.at \in Nat
  BY <1>0 DEF Kept, RunTyped
<1>2. ASSUME Begin PROVE ImportInv'
  <2>1. CASE Collides
    <3>1. run' = [run EXCEPT !.stage = "refused"] /\ run.stage = "none"
          /\ UNCHANGED <<job, store, session>>
      BY <1>2, <2>1 DEF Begin
    <3>2. /\ DOMAIN run' = RunFields /\ run'.n = run.n /\ run'.at = run.at
          /\ run'.library = run.library /\ run'.ids = run.ids /\ run'.unstored = run.unstored
          /\ run'.stage = "refused"
      BY <1>1, <3>1 DEF RunFields
    <3>3. RunTyped(run')
      BY <1>0, <3>2 DEF Kept, RunTyped
    <3>4. Own(run', session) /\ Unpublished(run', session, store)
      BY <1>0, <3>1, <3>2 DEF Kept, Own, Unpublished, Walking, Ended
    <3>5. Kept(run', session', store')
      BY <1>0, <3>1, <3>2, <3>3, <3>4 DEF Kept
    <3>  QED BY <1>0, <3>1, <3>5, JobStays DEF ImportInv
  <2>2. CASE ~Collides
    <3>1. run.stage = "none" /\ run' = [NoRun EXCEPT !.n = run.n + 1, !.stage = "walk"]
          /\ session' = [session EXCEPT !.systems = @ \cup Systems(run.n + 1),
                                        !.folders = @ \cup Folders(run.n + 1)]
          /\ UNCHANGED <<job, store>>
      BY <1>2, <2>2 DEF Begin
    <3>2. Kept(run', session', store')
      BY <1>0, <3>1, Begins
    <3>  QED BY <1>0, <3>1, <3>2, JobStays DEF ImportInv
  <2>  QED BY <2>1, <2>2
<1>3. ASSUME SkipSyntax PROVE ImportInv'
  <2>1. run.stage = "walk" /\ run' = [run EXCEPT !.at = run.at + 1] /\ UNCHANGED <<job, store, session>>
    BY <1>3 DEF SkipSyntax
  <2>2. /\ DOMAIN run' = RunFields /\ run'.n = run.n /\ run'.at = run.at + 1
        /\ run'.library = run.library /\ run'.ids = run.ids /\ run'.unstored = run.unstored
        /\ run'.stage = "walk"
    BY <1>1, <2>1 DEF RunFields
  <2>3. Walking(run) /\ Walking(run') /\ run'.at \in Nat /\ run.at <= run'.at
    BY <1>1, <2>1, <2>2 DEF Walking
  <2>4. Kept(run', session', store')
    BY <1>0, <2>1, <2>2, <2>3, RunMoves
  <2>  QED BY <1>0, <2>1, <2>4, JobStays DEF ImportInv
<1>4. ASSUME NEW t, CheckUnread(t) \/ CheckLost(t) PROVE ImportInv'
  BY <1>4, StoresProof DEF CheckUnread, CheckLost
<1>5. ASSUME NEW t, NEW valid, CheckTheorem(t, valid) PROVE ImportInv'
  <2>1. Reaches(t) /\ ~Unread(t) /\ StoreProof({ProofRow(t, valid)})
    BY <1>5 DEF CheckTheorem
  <2>2. \A p \in {ProofRow(t, valid)} : ProofTyped(p) /\ Draft(p) /\ RecordedProof(session, p)
    BY <1>0, <2>1, RowRecorded
  <2>  QED BY <2>1, <2>2, StoresProof
<1>6. ASSUME NEW t, Promote(t) PROVE ImportInv'
  <2> DEFINE q == Passed(run)
             id == <<SystemAt(run.n, run.at), t>>
  <2>1. /\ Due(t) /\ session' = [session EXCEPT !.entries = @ \cup {id}]
        /\ run' = [q EXCEPT !.library = run.library \cup {t}, !.ids = With(run.ids, t, id)]
        /\ UNCHANGED <<job, store>>
    <3>1. q.library = run.library /\ q.ids = run.ids
      BY <1>6, PassedRun DEF Promote
    <3>  QED BY <1>6, <3>1 DEF Promote
  <2>2. /\ Walking(run) /\ Walking(q)
        /\ t \in Range(db.order) /\ Position(db, t) = run.at
        /\ DOMAIN q = RunFields /\ q.n = run.n /\ q.at = run.at + 1 /\ q.stage = "walk"
        /\ q.unstored = run.unstored
    BY <2>1, PassedRun
  <2> HIDE DEF q
  <2>3. /\ DOMAIN run' = RunFields /\ run'.n = run.n /\ run'.at = run.at + 1
        /\ run'.library = run.library \cup {t} /\ run'.ids = With(run.ids, t, id)
        /\ run'.unstored = run.unstored /\ run'.stage = "walk"
    BY <2>1, <2>2 DEF RunFields
  <2>4. Walking(run')
    BY <2>3 DEF Walking
  <2>5. Kept(run', session', store')
    BY <1>0, <2>1, <2>2, <2>3, <2>4, Enters
  <2>  QED BY <1>0, <2>1, <2>5, JobStays DEF ImportInv
<1>7. ASSUME NEW t, PromoteUnstored(t) PROVE ImportInv'
  <2> DEFINE q == Passed(run)
  <2>1. /\ Due(t) /\ UNCHANGED <<job, store, session>>
        /\ run' = [q EXCEPT !.library = run.library \cup {t}, !.unstored = run.unstored \cup {t}]
    <3>1. q.library = run.library /\ q.unstored = run.unstored
      BY <1>7, PassedRun DEF PromoteUnstored
    <3>  QED BY <1>7, <3>1 DEF PromoteUnstored
  <2>2. /\ Walking(run) /\ Walking(q)
        /\ t \in Range(db.order) /\ Position(db, t) = run.at
        /\ DOMAIN q = RunFields /\ q.n = run.n /\ q.at = run.at + 1 /\ q.stage = "walk"
        /\ q.ids = run.ids
    BY <2>1, PassedRun
  <2> HIDE DEF q
  <2>3. /\ DOMAIN run' = RunFields /\ run'.n = run.n /\ run'.at = run.at + 1
        /\ run'.library = run.library \cup {t} /\ run'.ids = run.ids
        /\ run'.unstored = run.unstored \cup {t} /\ run'.stage = "walk"
    BY <2>1, <2>2 DEF RunFields
  <2>4. Walking(run')
    BY <2>3 DEF Walking
  <2>5. Kept(run', session', store')
    BY <1>0, <2>1, <2>2, <2>3, <2>4, EntersUnstored
  <2>  QED BY <1>0, <2>1, <2>5, JobStays DEF ImportInv
<1>8. ASSUME NEW t, Drop(t) PROVE ImportInv'
  <2>1. Due(t) /\ run' = Passed(run) /\ UNCHANGED <<job, store, session>>
    BY <1>8 DEF Drop
  <2>2. /\ Walking(run) /\ Walking(run')
        /\ DOMAIN run' = RunFields /\ run'.n = run.n /\ run'.at = run.at + 1
        /\ run'.library = run.library /\ run'.ids = run.ids /\ run'.unstored = run.unstored
    BY <2>1, PassedRun
  <2>3. run'.at \in Nat /\ run.at <= run'.at
    BY <1>1, <2>2
  <2>4. Kept(run', session', store')
    BY <1>0, <2>1, <2>2, <2>3, RunMoves
  <2>  QED BY <1>0, <2>1, <2>4, JobStays DEF ImportInv
<1>9. ASSUME Finish PROVE ImportInv'
  <2>1. Kept(run', session', store')
    BY <1>0, <1>9, Finishes DEF Finish
  <2>  QED BY <1>0, <1>9, <2>1, JobStays DEF ImportInv, Finish
<1>10. ASSUME CallerCommits PROVE ImportInv'
  <2>1. /\ run.stage = "handed" /\ run' = [run EXCEPT !.stage = "done"]
        /\ session' = session /\ store' = session /\ UNCHANGED job
    BY <1>10 DEF CallerCommits
  <2>2. /\ DOMAIN run' = RunFields /\ run'.n = run.n /\ run'.at = run.at
        /\ run'.library = run.library /\ run'.ids = run.ids /\ run'.unstored = run.unstored
        /\ run'.stage = "done"
    BY <1>1, <2>1 DEF RunFields
  <2>3. RunTyped(run')
    BY <1>0, <2>2 DEF Kept, RunTyped
  <2>4. Own(run', session) /\ Unpublished(run', session, session)
    BY <2>2 DEF Own, Unpublished, Walking, Ended
  <2>5. Kept(run', session', store')
    BY <1>0, <2>1, <2>2, <2>3, <2>4 DEF Kept
  <2>  QED BY <1>0, <2>1, <2>5, JobStays DEF ImportInv
<1>11. ASSUME Crash PROVE ImportInv'
  <2>1. /\ run.stage # "done" /\ run' = [run EXCEPT !.stage = "none"]
        /\ session' = store /\ store' = store /\ UNCHANGED job
    BY <1>11 DEF Crash
  <2>2. /\ DOMAIN run' = RunFields /\ run'.n = run.n /\ run'.at = run.at
        /\ run'.library = run.library /\ run'.ids = run.ids /\ run'.unstored = run.unstored
        /\ run'.stage = "none"
    BY <1>1, <2>1 DEF RunFields
  <2>3. RunTyped(run')
    BY <1>0, <2>2 DEF Kept, RunTyped
  <2>4. Own(run', store) /\ Unpublished(run', store, store)
    BY <1>0, <2>1, <2>2 DEF Kept, Own, Unpublished, Walking, Ended
  <2>5. Kept(run', session', store')
    BY <1>0, <2>1, <2>2, <2>3, <2>4 DEF Kept
  <2>  QED BY <1>0, <2>1, <2>5, JobStays DEF ImportInv
<1>12. ASSUME NEW p, NEW valid, Verify(p, valid) PROVE ImportInv'
  <2>1. Kept(run', session', store')
    BY <1>0, <1>12, Verifies
  <2>  QED BY <1>0, <1>12, <2>1, JobStays DEF ImportInv, Verify
<1>13. ASSUME UNCHANGED vars PROVE ImportInv'
  <2>1. Kept(run', session', store')
    BY <1>0, <1>13 DEF vars
  <2>  QED BY <1>0, <1>13, <2>1, JobStays DEF ImportInv, vars
<1>  QED BY <1>2, <1>3, <1>4, <1>5, <1>6, <1>7, <1>8, <1>9, <1>10, <1>11, <1>12, <1>13
         DEF Next, Progress, Mishap

\* A published proof is of a whole run, and a recorded citation resolves, as far
\* as the invariant says.
LEMMA InvGives == ImportInv => PublishedWhole /\ CitationsRecorded
BY DEF ImportInv, Kept, Rows, WholeProof, RecordedProof, PublishedWhole, CitationsRecorded

\* What a run knows of its file and of its rows (import_corpus), for any files,
\* plans, limits and batches, and any number of crashes.
THEOREM ImportKept == Spec => []ImportInv
BY ImportInit, ImportStep, PTL DEF Spec

\* A proof of a corpus is readable by everyone only when it verified, points at
\* the entry it establishes if that one stored, and its run's descriptions and
\* notation are committed with it (_publish, _link_proofs_to_theorems).
THEOREM PublishedAlwaysWhole == Spec => []PublishedWhole
BY ImportKept, InvGives, PTL

\* A committed proof whose citations are recorded cites committed entries, up its
\* own chain of layers, of statements the file makes before its theorem (_store;
\* and the verification of an owned import's draft).
THEOREM CitationsAlwaysRecorded == Spec => []CitationsRecorded
BY ImportKept, InvGives, PTL
-----------------------------------------------------------------------------
(* The grammar of the walk and the grammar of one theorem.                 *)

LEMMA LeastOf ==
  ASSUME NEW T \in SUBSET Nat, T # {}
  PROVE  LET m == CHOOSE p \in T : \A q \in T : p <= q
         IN  m \in T /\ \A q \in T : m <= q
<1>1. \E p \in T : \A q \in T : p <= q
  BY Filtering!Least
<1>  QED BY <1>1

\* A variable is typed at a position, and is from it on.
LEMMA TypedFromType ==
  ASSUME NEW d, Len(d.order) \in Nat, DOMAIN d.order = 1..Len(d.order), NEW pair \in Typed(d)
  PROVE  TypedFrom(d, pair) \in Nat
<1> DEFINE T == {p \in 0..(Len(d.order) - 1) : pair \in TypedBy(d, Label(d, p))}
           Is(p) == /\ pair \in TypedBy(d, Label(d, p))
                    /\ \A q \in 0..(p - 1) : pair \notin TypedBy(d, Label(d, q))
<1>1. T \in SUBSET Nat
  OBVIOUS
<1>2. T # {}
  <2>1. PICK x \in Range(d.order) : pair \in TypedBy(d, x)
    BY DEF Typed
  <2>2. PICK i \in 1..Len(d.order) : d.order[i] = x
    BY DEF Range
  <2>3. i - 1 \in 0..(Len(d.order) - 1) /\ (i - 1) + 1 = i
    BY <2>2
  <2>4. Label(d, i - 1) = x
    BY <2>2, <2>3 DEF Label
  <2>  QED BY <2>1, <2>3, <2>4
<1>3. PICK m \in T : \A q \in T : m <= q
  <2> HIDE DEF T
  <2>  QED BY <1>1, <1>2, Filtering!Least
<1>4. m \in 0..(Len(d.order) - 1) /\ Is(m)
  <2>1. m \in 0..(Len(d.order) - 1) /\ pair \in TypedBy(d, Label(d, m))
    BY <1>3
  <2>2. ASSUME NEW q \in 0..(m - 1) PROVE pair \notin TypedBy(d, Label(d, q))
    <3>1. q \in 0..(Len(d.order) - 1) /\ ~(m <= q)
      BY <2>1
    <3>  QED BY <1>3, <3>1
  <2>  QED BY <2>1, <2>2
<1>5. TypedFrom(d, pair) = CHOOSE p \in 0..(Len(d.order) - 1) : Is(p)
  BY DEF TypedFrom
<1> HIDE DEF Is
<1>6. TypedFrom(d, pair) \in 0..(Len(d.order) - 1)
  BY <1>4, <1>5
<1>  QED BY <1>6

\* What notation there is before a label, and the first of it.
LEMMA SyntaxIs ==
  ASSUME NEW d \in Databases, Declared(d), NEW p \in 0..Len(d.order), NEW last,
         Position(d, last) = p
  PROVE  LET s == SyntaxBefore(d, last) IN
         /\ Range(s) = {x \in Range(d.order) : IsNotation(d, x) /\ Position(d, x) < p}
         /\ s = << >> <=> \A x \in Range(d.order) : IsNotation(d, x) => p <= Position(d, x)
         /\ s # << >> => /\ Head(s) \in Range(s)
                         /\ \A x \in Range(s) : Position(d, Head(s)) <= Position(d, x)
<1> DEFINE N == {x \in Range(d.order) : IsNotation(d, x)}
           o == SubSeq(d.order, 1, p)
           s == SyntaxBefore(d, last)
<1>1. d.order \in Seq(STRING) /\ Len(d.order) \in Nat /\ DOMAIN d.order = 1..Len(d.order)
  BY DeclaredFacts
<1>2. o \in Seq(STRING) /\ Len(o) = p /\ DOMAIN o = 1..p /\ \A i \in 1..p : o[i] = d.order[i]
  BY <1>1
<1>3. s = Filter(o, N)
  BY DEF SyntaxBefore
<1> HIDE DEF N, o, s
<1>4. /\ s \in Seq(N) /\ Range(s) = Range(o) \cap N
      /\ s # << >> => \E k \in 1..p : s[1] = o[k] /\ \A l \in 1..(k - 1) : o[l] \notin N
  BY <1>2, <1>3, FilterType
<1>5. ASSUME NEW i \in 1..p
      PROVE  o[i] = d.order[i] /\ Position(d, o[i]) = i - 1 /\ o[i] \in Range(d.order)
  <2>1. i \in 1..Len(d.order)
    BY <1>1
  <2>  QED BY <1>1, <1>2, <2>1, PositionType DEF Range
<1>6. ASSUME NEW x \in Range(d.order), Position(d, x) < p
      PROVE  /\ Position(d, x) + 1 \in 1..p /\ o[Position(d, x) + 1] = x
             /\ x \in Range(o)
  <2>1. Position(d, x) \in 0..(Len(d.order) - 1) /\ Label(d, Position(d, x)) = x
    BY PositionType
  <2>2. Position(d, x) + 1 \in 1..p
    BY <1>6, <2>1
  <2>3. o[Position(d, x) + 1] = x
    BY <1>2, <2>1, <2>2 DEF Label
  <2>  QED BY <1>2, <2>2, <2>3 DEF Range
<1>7. Range(o) = {x \in Range(d.order) : Position(d, x) < p}
  <2>1. ASSUME NEW x \in Range(o) PROVE x \in Range(d.order) /\ Position(d, x) < p
    <3>1. PICK i \in 1..p : o[i] = x
      BY <1>2 DEF Range
    <3>  QED BY <1>5, <3>1
  <2>  QED BY <1>6, <2>1
<1>8. Range(s) = {x \in Range(d.order) : IsNotation(d, x) /\ Position(d, x) < p}
  BY <1>4, <1>7 DEF N
<1>9. DOMAIN s = 1..Len(s) /\ Len(s) \in Nat
  BY <1>4
<1>10. s = << >> <=> Range(s) = {}
  <2>1. s = << >> => Range(s) = {}
    BY DEF Range
  <2>2. s # << >> => s[1] \in Range(s)
    BY <1>4, <1>9 DEF Range
  <2>  QED BY <2>1, <2>2
<1>11. \A x \in Range(d.order) : Position(d, x) \in Int
  BY <1>1, PositionType
<1>12. s = << >> <=> \A x \in Range(d.order) : IsNotation(d, x) => p <= Position(d, x)
  BY <1>8, <1>10, <1>11
<1>13. ASSUME s # << >>
       PROVE  Head(s) \in Range(s) /\ \A x \in Range(s) : Position(d, Head(s)) <= Position(d, x)
  <2>1. Head(s) = s[1] /\ 1 \in 1..Len(s)
    BY <1>4, <1>9, <1>13
  <2>2. PICK k \in 1..p : s[1] = o[k] /\ \A l \in 1..(k - 1) : o[l] \notin N
    BY <1>4, <1>13
  <2>3. Position(d, Head(s)) = k - 1
    BY <1>5, <2>1, <2>2
  <2>4. ASSUME NEW x \in Range(s) PROVE k - 1 <= Position(d, x)
    <3>1. x \in N /\ x \in Range(d.order) /\ Position(d, x) < p
      BY <1>8, <2>4 DEF N
    <3>2. Position(d, x) + 1 \in 1..p /\ o[Position(d, x) + 1] = x
      BY <1>6, <3>1
    <3>3. Position(d, x) + 1 \notin 1..(k - 1)
      BY <2>2, <3>1, <3>2
    <3>  QED BY <1>11, <3>1, <3>2, <3>3
  <2>  QED BY <1>9, <2>1, <2>3, <2>4 DEF Range
<1>  QED BY <1>8, <1>12, <1>13 DEF s

\* The schedule up to a position, it excluded.
Upto(d, last, n) == UNION {ScheduledAt(d, last, q) : q \in 0..(n - 1)}

LEMMA ScheduleGrows ==
  ASSUME NEW d, NEW last, NEW w \in Nat, NEW p \in Nat, w <= p + 1
  PROVE  Upto(d, last, w) \cup Admit(d, last, w, p) = Upto(d, last, p + 1)
<1>1. 0..((p + 1) - 1) = (0..(w - 1)) \cup (w..p)
  OBVIOUS
<1>  QED BY <1>1, Zenon DEF Upto, Admit

\* What joins at a position.
First(d, last, typecode, p) ==
  \A x \in DeclaredVariables(d, last) : x[1] = typecode => TypedFrom(d, x) >= p

LEMMA ScheduledIs ==
  ASSUME NEW d, NEW last, NEW p, NEW x
  PROVE  x \in ScheduledAt(d, last, p) <=>
           \/ \E l \in Range(SyntaxBefore(d, last)) : Position(d, l) = p /\ x = Notation(d, l)
           \/ \E v \in DeclaredVariables(d, last) :
                /\ TypedFrom(d, v) = p
                /\ x = Leaf(v[1], v[2]) \/ (x = Inclusion(v[1]) /\ First(d, last, v[1], p))
<1> DEFINE V == DeclaredVariables(d, last)
           first(typecode) == \A y \in V : y[1] = typecode => TypedFrom(d, y) >= p
           Of(y) == {Leaf(y[1], y[2])} \cup IF first(y[1]) THEN {Inclusion(y[1])} ELSE {}
<1>1. ScheduledAt(d, last, p) =
        {Notation(d, l) : l \in {y \in Range(SyntaxBefore(d, last)) : Position(d, y) = p}}
          \cup UNION {Of(y) : y \in {z \in V : TypedFrom(d, z) = p}}
  BY DEF ScheduledAt
<1>2. \A y : first(y[1]) <=> First(d, last, y[1], p)
  BY DEF First
<1> HIDE DEF first
<1>3. \A y : x \in Of(y) <=> x = Leaf(y[1], y[2]) \/ (x = Inclusion(y[1]) /\ first(y[1]))
  OBVIOUS
<1> HIDE DEF Of, V
<1>4. x \in UNION {Of(y) : y \in {z \in V : TypedFrom(d, z) = p}} <=>
        \E y \in V : TypedFrom(d, y) = p /\ x \in Of(y)
  OBVIOUS
<1>5. x \in {Notation(d, l) : l \in {y \in Range(SyntaxBefore(d, last)) : Position(d, y) = p}} <=>
        \E l \in Range(SyntaxBefore(d, last)) : Position(d, l) = p /\ x = Notation(d, l)
  OBVIOUS
<1>6. x \in ScheduledAt(d, last, p) <=>
        \/ \E l \in Range(SyntaxBefore(d, last)) : Position(d, l) = p /\ x = Notation(d, l)
        \/ \E y \in V : TypedFrom(d, y) = p /\ x \in Of(y)
  BY <1>1, <1>4, <1>5
<1>  QED BY <1>2, <1>3, <1>6 DEF V

\* Walking up to a label of no notation admits what a system built for it has.
LEMMA ScheduleIsSpec ==
  ASSUME NEW d \in Databases, Declared(d), NEW last \in Range(d.order), NEW l \in Range(d.order),
         Position(d, l) <= Position(d, last), ~IsNotation(d, l), NEW name
  PROVE  Upto(d, last, Position(d, l) + 1) = BuildSpec(d, name, l, l).productions
<1> DEFINE p == Position(d, l)
           r == Position(d, last)
           B == BuildSpec(d, name, l, l).productions
           V(q) == {v \in Typed(d) : TypedFrom(d, v) <= q}
           N(q) == {x \in Range(d.order) : IsNotation(d, x) /\ Position(d, x) < q}
<1>1. d.order \in Seq(STRING) /\ Len(d.order) \in Nat /\ DOMAIN d.order = 1..Len(d.order)
  BY DeclaredFacts
<1>2. /\ \A x \in Range(d.order) : Position(d, x) \in Nat /\ Label(d, Position(d, x)) = x
      /\ p \in 0..Len(d.order) /\ r \in 0..Len(d.order)
  BY <1>1, PositionType
<1>3. \A v \in Typed(d) : TypedFrom(d, v) \in Nat
  BY <1>1, TypedFromType
<1>4. DeclaredVariables(d, l) = V(p) /\ DeclaredVariables(d, last) = V(r)
  BY DEF DeclaredVariables
<1>5. Range(SyntaxBefore(d, l)) = N(p) /\ Range(SyntaxBefore(d, last)) = N(r)
  BY <1>2, SyntaxIs
<1>6. B = {Notation(d, x) : x \in N(p)}
            \cup {Leaf(v[1], v[2]) : v \in V(p)} \cup {Inclusion(v[1]) : v \in V(p)}
  BY <1>4, <1>5 DEF BuildSpec, VariableProductions
<1>7. p <= r /\ p \in Nat /\ r \in Nat
  BY <1>2
<1>8. V(p) \subseteq V(r) /\ \A v \in V(r) : v \in V(p) <=> TypedFrom(d, v) \in 0..p
  BY <1>3, <1>7
<1>9. \A x \in N(r) : x \in N(p) <=> Position(d, x) \in 0..p
  <2> TAKE x \in N(r)
  <2>1. x \in Range(d.order) /\ IsNotation(d, x) /\ Position(d, x) \in Nat
    BY <1>2
  <2>2. Position(d, x) # p
    BY <1>2, <2>1
  <2>  QED BY <1>7, <2>1, <2>2
<1>10. N(p) \subseteq N(r)
  BY <1>2, <1>7
<1>11. ASSUME NEW x, NEW q \in 0..p, x \in ScheduledAt(d, last, q) PROVE x \in B
  <2>1. CASE \E y \in N(r) : Position(d, y) = q /\ x = Notation(d, y)
    BY <1>6, <1>9, <2>1
  <2>2. CASE \E v \in V(r) : TypedFrom(d, v) = q /\ (x = Leaf(v[1], v[2]) \/ x = Inclusion(v[1]))
    BY <1>6, <1>8, <2>2
  <2>  QED BY <1>4, <1>5, <1>11, <2>1, <2>2, ScheduledIs
<1>12. ASSUME NEW x \in B PROVE \E q \in 0..p : x \in ScheduledAt(d, last, q)
  <2>1. CASE x \in {Notation(d, y) : y \in N(p)}
    <3>1. PICK y \in N(p) : x = Notation(d, y)
      BY <2>1
    <3>2. y \in N(r) /\ Position(d, y) \in 0..p
      BY <1>9, <1>10, <3>1
    <3>3. x \in ScheduledAt(d, last, Position(d, y))
      BY <1>5, <3>1, <3>2, ScheduledIs
    <3>  QED BY <3>2, <3>3
  <2>2. CASE x \in {Leaf(v[1], v[2]) : v \in V(p)}
    <3>1. PICK v \in V(p) : x = Leaf(v[1], v[2])
      BY <2>2
    <3>2. v \in V(r) /\ TypedFrom(d, v) \in 0..p
      BY <1>8, <3>1
    <3>3. x \in ScheduledAt(d, last, TypedFrom(d, v))
      BY <1>4, <3>1, <3>2, ScheduledIs
    <3>  QED BY <3>2, <3>3
  <2>3. CASE x \in {Inclusion(v[1]) : v \in V(p)}
    <3>1. PICK v \in V(p) : x = Inclusion(v[1])
      BY <2>3
    <3> DEFINE T == {TypedFrom(d, y) : y \in {z \in V(r) : z[1] = v[1]}}
    <3>2. T \in SUBSET Nat /\ TypedFrom(d, v) \in T
      BY <1>3, <1>8, <3>1
    <3>3. PICK m \in T : \A k \in T : m <= k
      <4> HIDE DEF T
      <4>  QED BY <3>2, Filtering!Least
    <3>4. PICK y \in V(r) : y[1] = v[1] /\ TypedFrom(d, y) = m
      BY <3>3
    <3>5. First(d, last, y[1], m)
      <4>1. ASSUME NEW z \in V(r), z[1] = y[1] PROVE TypedFrom(d, z) >= m
        <5>1. TypedFrom(d, z) \in T
          BY <3>4, <4>1
        <5>  QED BY <3>2, <3>3, <5>1
      <4>  QED BY <1>4, <4>1 DEF First
    <3>6. m \in 0..p
      <4>1. m <= TypedFrom(d, v) /\ m \in Nat
        BY <3>2, <3>3
      <4>2. TypedFrom(d, v) \in 0..p
        BY <1>8, <3>1
      <4>  QED BY <1>7, <4>1, <4>2
    <3>7. x = Inclusion(y[1])
      BY <3>1, <3>4
    <3> HIDE DEF T
    <3>8. x \in ScheduledAt(d, last, m)
      BY <1>4, <3>4, <3>5, <3>7, ScheduledIs
    <3>  QED BY <3>6, <3>8
  <2>  QED BY <1>6, <1>12, <2>1, <2>2, <2>3
<1>13. (p + 1) - 1 = p
  BY <1>7
<1> HIDE DEF B, V, N
<1>14. Upto(d, last, p + 1) = B
  BY <1>11, <1>12, <1>13 DEF Upto
<1>  QED BY <1>14 DEF B

\* A statement can be read under the schedule exactly when it can under the
\* system built for it.
LEMMA SortToldInTime ==
  ASSUME NEW d \in Databases, Declared(d), NEW last \in Range(d.order), NEW l \in Range(d.order),
         Position(d, l) <= Position(d, last), ~IsNotation(d, l), NEW name
  PROVE  (LogicalFrom(d, last) = Never \/ Position(d, l) < LogicalFrom(d, last))
           <=> BuildSpec(d, name, l, l).line = NoSort
<1> DEFINE p == Position(d, l)
           r == Position(d, last)
           B == BuildSpec(d, name, l, l).productions
           s == SyntaxBefore(d, l)
           t == SyntaxBefore(d, last)
           sorts == {Sort("wff"), Sort("formula")}
           Told(q) == \E x \in ScheduledAt(d, last, q) : x.sort \in sorts
           conventional == {q \in 0..r : Told(q)}
           found == conventional \cup IF t = << >> THEN {} ELSE {Position(d, Head(t))}
           m == CHOOSE q \in found : \A k \in found : q <= k
<1>1. d.order \in Seq(STRING) /\ Len(d.order) \in Nat /\ DOMAIN d.order = 1..Len(d.order)
  BY DeclaredFacts
<1>2. /\ \A x \in Range(d.order) : Position(d, x) \in Nat /\ Label(d, Position(d, x)) = x
      /\ p \in 0..Len(d.order) /\ r \in 0..Len(d.order) /\ p <= r
  BY <1>1, PositionType
<1>3. \A x \in Range(d.order) : d.assertions[x].typecode # NoSort
  <2>1. \A x \in Range(d.order) : d.assertions[x] \in Assertions
    BY DatabaseType DEF Declared
  <2>  QED BY <2>1 DEF Assertions, Typecode
<1>4. BuildSpec(d, name, l, l).line = NoSort <=> ~(\E x \in B : x.sort \in sorts) /\ s = << >>
  <2>1. BuildSpec(d, name, l, l).line = LogicalSort(B, s, d)
    BY DEF BuildSpec
  <2>2. s # << >> => d.assertions[Head(s)].typecode # NoSort
    BY <1>2, <1>3, SyntaxIs
  <2>3. NoSort # "wff" /\ NoSort # "formula"
    BY DEF NoSort
  <2> DEFINE named == {x.sort : x \in B}
  <2>4. LogicalSort(B, s, d) =
          IF Sort("wff") \in named THEN "wff"
          ELSE IF Sort("formula") \in named THEN "formula"
          ELSE IF s = << >> THEN NoSort ELSE d.assertions[Head(s)].typecode
    BY DEF LogicalSort
  <2>5. (\E x \in B : x.sort \in sorts) <=> Sort("wff") \in named \/ Sort("formula") \in named
    <3> HIDE DEF B
    <3>  QED OBVIOUS
  <2> HIDE DEF B, s, named, sorts
  <2>  QED BY <2>1, <2>2, <2>3, <2>4, <2>5
<1>5. (\E x \in B : x.sort \in sorts) <=> \E q \in 0..p : Told(q)
  <2>1. B = UNION {ScheduledAt(d, last, q) : q \in 0..((p + 1) - 1)}
    BY ScheduleIsSpec DEF Upto
  <2>2. (p + 1) - 1 = p
    BY <1>2
  <2> HIDE DEF B, sorts, p
  <2>  QED BY <2>1, <2>2
<1>6. s # << >> <=> t # << >> /\ Position(d, Head(t)) \in 0..p
  <2>1. s # << >> <=> \E x \in Range(d.order) : IsNotation(d, x) /\ ~(p <= Position(d, x))
    BY <1>2, SyntaxIs
  <2>2. /\ Range(t) = {x \in Range(d.order) : IsNotation(d, x) /\ Position(d, x) < r}
        /\ t # << >> => /\ Head(t) \in Range(t)
                        /\ \A x \in Range(t) : Position(d, Head(t)) <= Position(d, x)
    BY <1>2, SyntaxIs
  <2>3. t = << >> => Range(t) = {}
    BY DEF Range
  <2>4. ASSUME s # << >> PROVE t # << >> /\ Position(d, Head(t)) \in 0..p
    <3>1. PICK x \in Range(d.order) : IsNotation(d, x) /\ ~(p <= Position(d, x))
      BY <2>1, <2>4
    <3>2. Position(d, x) \in Nat /\ Position(d, x) < p /\ Position(d, x) < r
      BY <1>2, <3>1
    <3>3. x \in Range(t)
      BY <2>2, <3>1, <3>2
    <3>4. t # << >> /\ Head(t) \in Range(t) /\ Position(d, Head(t)) <= Position(d, x)
      BY <2>2, <2>3, <3>3
    <3>5. Position(d, Head(t)) \in Nat
      BY <1>2, <2>2, <3>4
    <3>  QED BY <1>2, <3>2, <3>4, <3>5
  <2>5. ASSUME t # << >>, Position(d, Head(t)) \in 0..p PROVE s # << >>
    <3>1. Head(t) \in Range(d.order) /\ IsNotation(d, Head(t))
      BY <2>2, <2>5
    <3>2. Position(d, Head(t)) # p
      BY <1>2, <3>1
    <3>3. ~(p <= Position(d, Head(t)))
      BY <1>2, <2>5, <3>2
    <3>  QED BY <2>1, <3>1, <3>3
  <2>  QED BY <2>4, <2>5
<1>7. found \in SUBSET Nat /\ (t # << >> => Position(d, Head(t)) \in Nat)
  <2>1. t # << >> => Position(d, Head(t)) \in Nat
    BY <1>2, SyntaxIs
  <2>  QED BY <1>2, <2>1
<1>8. BuildSpec(d, name, l, l).line = NoSort <=> ~ \E q \in found : q \in 0..p
  <2>1. (\E q \in 0..p : Told(q)) <=> \E q \in conventional : q \in 0..p
    <3>1. 0..p \subseteq 0..r
      BY <1>2
    <3> HIDE DEF Told
    <3>  QED BY <3>1
  <2> HIDE DEF conventional, Told
  <2>2. (\E q \in found : q \in 0..p) <=>
          (\E q \in conventional : q \in 0..p) \/ (t # << >> /\ Position(d, Head(t)) \in 0..p)
    OBVIOUS
  <2>  QED BY <1>4, <1>5, <1>6, <2>1, <2>2
<1>9. LogicalFrom(d, last) = IF found = {} THEN Never ELSE m
  BY DEF LogicalFrom
<1> HIDE DEF found, Told, conventional, B, s, t
<1>10. found # {} => m \in found /\ \A k \in found : m <= k
  BY <1>7, LeastOf
<1> HIDE DEF m
<1>11. CASE found = {}
  BY <1>8, <1>9, <1>11
<1>12. CASE found # {}
  <2>1. m \in Nat /\ m # Never
    <3>1. m \in found /\ found \subseteq Nat
      BY <1>7, <1>10, <1>12
    <3>2. m \in Nat
      BY <3>1
    <3>  QED BY <3>2 DEF Never
  <2>2. (\E q \in found : q \in 0..p) <=> ~(p < m)
    <3>1. ASSUME NEW q \in found, q \in 0..p PROVE ~(p < m)
      BY <1>2, <1>10, <2>1, <3>1
    <3>2. ASSUME ~(p < m) PROVE m \in found /\ m \in 0..p
      BY <1>2, <1>10, <1>12, <2>1, <3>2
    <3>  QED BY <3>1, <3>2
  <2>  QED BY <1>8, <1>9, <1>12, <2>1, <2>2
<1>  QED BY <1>11, <1>12
-----------------------------------------------------------------------------
(* The walk's grammar: what has been admitted is the schedule up to the    *)
(* watermark, which a check has moved to the theorem it is of.             *)

\* What the schedule is read for, and the statements it is read at.
ScheduleTyped ==
    /\ job.logicalFrom = LogicalFrom(db, horizon)
    /\ horizon \in Range(db.order)
    /\ \A t \in Checked : IsLogical(db, t)

Grammar(r) ==
    Walking(r) =>
        /\ r.watermark \in Nat /\ r.admitted = Upto(db, horizon, r.watermark)
        /\ r.stage = "walk" => r.watermark <= r.at
        /\ r.stage = "promote" =>
             r.watermark = r.at + 1 /\ r.at <= reach /\ Label(db, r.at) \in Checked

GrammarInv == ImportInv /\ ScheduleTyped /\ Grammar(run)

LEMMA GrammarStays ==
  ASSUME job' = job, ScheduleTyped
  PROVE  ScheduleTyped' /\ (Grammar(run') => Grammar(run)')
<1>1. db' = db /\ horizon' = horizon /\ reach' = reach /\ Checked' = Checked
  BY DEF db, horizon, reach, Checked
<1>2. LogicalFrom(db, horizon)' = LogicalFrom(db, horizon)
  BY <1>1
<1>3. ScheduleTyped'
  BY <1>1, <1>2 DEF ScheduleTyped
<1>4. Grammar(run') => Grammar(run)'
  BY <1>1 DEF Grammar, Walking
<1>  QED BY <1>3, <1>4

LEMMA GrownRun ==
  ASSUME GrammarInv, Walking(run)
  PROVE  LET q == Grown(run) IN
         /\ DOMAIN q = RunFields /\ q.at = run.at /\ q.watermark = run.at + 1
         /\ q.admitted = Upto(db, horizon, run.at + 1) /\ run.at \in Nat
<1>1. DOMAIN run = RunFields /\ run.at \in Nat
  BY DEF GrammarInv, ImportInv, Kept, RunTyped
<1>2. run.watermark \in Nat /\ run.watermark <= run.at + 1
      /\ run.admitted = Upto(db, horizon, run.watermark)
  BY <1>1 DEF GrammarInv, Grammar, Walking
<1>3. run.admitted \cup Admit(db, horizon, run.watermark, run.at) = Upto(db, horizon, run.at + 1)
  BY <1>1, <1>2, ScheduleGrows
<1>  QED BY <1>1, <1>3 DEF Grown, RunFields

LEMMA GrammarInit == Init => GrammarInv
<1> SUFFICES ASSUME Init PROVE GrammarInv
  OBVIOUS
<1>1. PICK j \in Jobs : Importable(j) /\ job = Loaded(j)
  BY DEF Init
<1>2. ScheduleTyped
  <2> DEFINE d == Parse(j.file)
             h == Horizon(d, j.limit)
  <2>1. j.file \in Seq(Statement) /\ j.limit \in Nat
    BY JobsAssumption
  <2>2. d \in Databases
    BY <2>1, FilesParse
  <2>3. /\ Range(Theorems(d, j.limit)) \subseteq {x \in Range(d.order) : Walkable(d, x)}
        /\ h \in Range(d.order)
    BY <1>1, <2>1, <2>2, TheoremsType DEF Importable
  <2>4. /\ db = d /\ horizon = h /\ job.logicalFrom = LogicalFrom(d, h)
        /\ Checked = Range(Theorems(d, j.limit))
    BY <1>1 DEF Loaded, db, horizon, Checked
  <2> HIDE DEF d, h
  <2>  QED BY <2>3, <2>4 DEF ScheduleTyped, Walkable
<1>3. Grammar(run)
  BY DEF Init, NoRun, Grammar, Walking
<1>  QED BY <1>2, <1>3, ImportInit DEF GrammarInv

LEMMA GrammarStep == GrammarInv /\ [Next]_vars => GrammarInv'
<1> SUFFICES ASSUME GrammarInv, [Next]_vars PROVE GrammarInv'
  OBVIOUS
<1>1. ImportInv /\ ScheduleTyped /\ Grammar(run) /\ DOMAIN run = RunFields /\ run.at \in Nat
  BY DEF GrammarInv, ImportInv, Kept, RunTyped
<1>2. ImportInv'
  BY <1>1, ImportStep
<1>3. SUFFICES job' = job /\ Grammar(run')
  BY <1>1, <1>2, GrammarStays DEF GrammarInv
<1>4. job' = job
  BY DEF Next, Progress, Mishap, Begin, SkipSyntax, CheckUnread, CheckLost, CheckTheorem, StoreProof,
         Promote, PromoteUnstored, Drop, Finish, CallerCommits, Crash, Verify, vars
<1>5. ASSUME Begin PROVE Grammar(run')
  <2>1. CASE Collides
    <3>1. run' = [run EXCEPT !.stage = "refused"]
      BY <1>5, <2>1 DEF Begin
    <3>2. run'.stage = "refused"
      BY <1>1, <3>1 DEF RunFields
    <3>  QED BY <3>2 DEF Grammar, Walking
  <2>2. CASE ~Collides
    <3>1. run' = [NoRun EXCEPT !.n = run.n + 1, !.stage = "walk"]
      BY <1>5, <2>2 DEF Begin
    <3>2. run'.watermark = 0 /\ run'.admitted = {} /\ run'.stage = "walk" /\ run'.at = 0
      BY <3>1 DEF NoRun
    <3>3. Upto(db, horizon, 0) = {}
      BY DEF Upto
    <3>  QED BY <3>2, <3>3 DEF Grammar
  <2>  QED BY <2>1, <2>2
<1>6. ASSUME SkipSyntax PROVE Grammar(run')
  <2>1. run.stage = "walk" /\ run' = [run EXCEPT !.at = run.at + 1]
    BY <1>6 DEF SkipSyntax
  <2>2. /\ run'.stage = "walk" /\ run'.at = run.at + 1
        /\ run'.watermark = run.watermark /\ run'.admitted = run.admitted
    BY <1>1, <2>1 DEF RunFields
  <2>3. run.watermark \in Nat /\ run.watermark <= run.at
        /\ run.admitted = Upto(db, horizon, run.watermark)
    BY <1>1, <2>1 DEF Grammar, Walking
  <2>4. run.watermark <= run.at + 1
    BY <1>1, <2>3
  <2>  QED BY <2>2, <2>3, <2>4 DEF Grammar
<1>7. ASSUME NEW t, Reaches(t), NEW rows, StoreProof(rows) PROVE Grammar(run')
  <2>1. run.stage = "walk" /\ run.at <= reach /\ Label(db, run.at) \in Checked
    BY <1>7 DEF Reaches, label
  <2>2. run' = [Grown(run) EXCEPT !.checked = run.checked + 1, !.stage = "promote"]
    BY <1>7 DEF StoreProof
  <2> DEFINE q == Grown(run)
  <2>3. /\ DOMAIN q = RunFields /\ q.at = run.at /\ q.watermark = run.at + 1
        /\ q.admitted = Upto(db, horizon, run.at + 1)
    BY <2>1, GrownRun DEF Walking
  <2> HIDE DEF q
  <2>4. /\ run'.stage = "promote" /\ run'.at = run.at /\ run'.watermark = run.at + 1
        /\ run'.admitted = Upto(db, horizon, run.at + 1)
    <3>1. run' = [q EXCEPT !.checked = run.checked + 1, !.stage = "promote"]
      BY <2>2 DEF q
    <3>  QED BY <2>3, <3>1 DEF RunFields
  <2>5. run.at + 1 \in Nat
    BY <1>1
  <2>  QED BY <2>1, <2>4, <2>5 DEF Grammar
<1>8. ASSUME NEW t, Due(t), NEW library, NEW ids, NEW unstored,
             run' = [Passed(run) EXCEPT !.library = library, !.ids = ids, !.unstored = unstored]
      PROVE  Grammar(run')
  <2> DEFINE q == Grown(run)
  <2>1. /\ DOMAIN q = RunFields /\ q.at = run.at /\ q.watermark = run.at + 1
        /\ q.admitted = Upto(db, horizon, run.at + 1)
    <3>1. Walking(run)
      BY <1>8 DEF Due, Walking
    <3>  QED BY <3>1, GrownRun
  <2>2. run' = [[q EXCEPT !.stage = "walk", !.at = q.at + 1]
                  EXCEPT !.library = library, !.ids = ids, !.unstored = unstored]
    BY <1>8 DEF Passed
  <2> HIDE DEF q
  <2>3. /\ run'.stage = "walk" /\ run'.at = run.at + 1 /\ run'.watermark = run.at + 1
        /\ run'.admitted = Upto(db, horizon, run.at + 1)
    BY <2>1, <2>2 DEF RunFields
  <2>4. run.at + 1 \in Nat /\ run.at + 1 <= run.at + 1
    BY <1>1
  <2>  QED BY <2>3, <2>4 DEF Grammar
<1>9. ASSUME NEW t, Due(t)
      PROVE  DOMAIN Passed(run) = RunFields
             /\ Passed(run) = [f \in RunFields |-> Passed(run)[f]]
  <2>1. DOMAIN Passed(run) = RunFields
    BY <1>1, <1>9, PassedRun
  <2> DEFINE g == Grown(run)
  <2>2. Passed(run) = [g EXCEPT !.stage = "walk", !.at = g.at + 1]
    BY DEF Passed
  <2> HIDE DEF g
  <2>  QED BY <2>1, <2>2
<1>10. ASSUME NEW t, Promote(t) \/ PromoteUnstored(t) \/ Drop(t) PROVE Grammar(run')
  <2> DEFINE q == Passed(run)
  <2>1. Due(t) /\ DOMAIN q = RunFields /\ q = [f \in RunFields |-> q[f]]
    BY <1>9, <1>10 DEF Promote, PromoteUnstored, Drop
  <2>2. \E library, ids, unstored :
          run' = [q EXCEPT !.library = library, !.ids = ids, !.unstored = unstored]
    <3>1. CASE Promote(t)
      <4>1. PICK library, ids : run' = [q EXCEPT !.library = library, !.ids = ids]
        BY <3>1 DEF Promote
      <4> HIDE DEF q
      <4>2. run' = [q EXCEPT !.library = library, !.ids = ids, !.unstored = q.unstored]
        BY <2>1, <4>1 DEF RunFields
      <4>  QED BY <4>2
    <3>2. CASE PromoteUnstored(t)
      <4>1. PICK library, unstored : run' = [q EXCEPT !.library = library, !.unstored = unstored]
        BY <3>2 DEF PromoteUnstored
      <4> HIDE DEF q
      <4>2. run' = [q EXCEPT !.library = library, !.ids = q.ids, !.unstored = unstored]
        BY <2>1, <4>1 DEF RunFields
      <4>  QED BY <4>2
    <3>3. CASE Drop(t)
      <4>1. run' = q
        BY <3>3 DEF Drop
      <4> HIDE DEF q
      <4>2. run' = [q EXCEPT !.library = q.library, !.ids = q.ids, !.unstored = q.unstored]
        BY <2>1, <4>1 DEF RunFields
      <4>  QED BY <4>2
    <3>  QED BY <1>10, <3>1, <3>2, <3>3
  <2>  QED BY <1>8, <2>1, <2>2
<1>11. ASSUME run'.stage \in {"handed", "done", "none"} PROVE Grammar(run')
  BY <1>11 DEF Grammar, Walking
<1>12. ASSUME Finish \/ CallerCommits \/ Crash PROVE Grammar(run')
  <2>1. \/ run' = [run EXCEPT !.stage = "handed"]
        \/ run' = [run EXCEPT !.stage = "done"]
        \/ run' = [run EXCEPT !.stage = "none"]
    BY <1>12 DEF Finish, CallerCommits, Crash
  <2>  QED BY <1>1, <1>11, <2>1 DEF RunFields
<1>13. ASSUME run' = run PROVE Grammar(run')
  BY <1>1, <1>13
<1>14. CASE \E t \in Checked : CheckUnread(t) \/ CheckLost(t)
  BY <1>4, <1>7, <1>14 DEF CheckUnread, CheckLost
<1>15. CASE \E t \in Checked, valid \in BOOLEAN : CheckTheorem(t, valid)
  BY <1>4, <1>7, <1>15 DEF CheckTheorem
<1>16. CASE \E p \in store.proofs, valid \in BOOLEAN : Verify(p, valid)
  BY <1>4, <1>13, <1>16 DEF Verify
<1>17. CASE UNCHANGED vars
  BY <1>4, <1>13, <1>17 DEF vars
<1>  QED BY <1>4, <1>5, <1>6, <1>10, <1>12, <1>14, <1>15, <1>16, <1>17 DEF Next, Progress, Mishap

\* The invariant gives the grammar of the theorem at hand.
LEMMA GrammarGives == GrammarInv => GrammarAsOf
<1> SUFFICES ASSUME GrammarInv, run.stage = "promote" PROVE
      /\ run.admitted = BuildSpec(db, "", label, label).productions
      /\ (job.logicalFrom = Never \/ run.at < job.logicalFrom)
           = (BuildSpec(db, "", label, label).line = NoSort)
  BY DEF GrammarAsOf
<1>1. /\ run.admitted = Upto(db, horizon, run.at + 1) /\ run.at <= reach /\ label \in Checked
      /\ ScheduleTyped /\ db \in Databases /\ Declared(db)
  BY DEF GrammarInv, Grammar, Walking, label, ImportInv, JobTyped
<1>2. label \in Range(db.order) /\ Position(db, label) = run.at
  BY <1>1, AtLabel DEF GrammarInv
<1>3. ~IsNotation(db, label) /\ horizon \in Range(db.order)
  BY <1>1 DEF ScheduleTyped, IsNotation
<1>4. Position(db, label) <= Position(db, horizon)
  BY <1>1, <1>2 DEF reach
<1>5. Upto(db, horizon, run.at + 1) = BuildSpec(db, "", label, label).productions
  BY <1>1, <1>2, <1>3, <1>4, ScheduleIsSpec, Zenon
<1>6. (LogicalFrom(db, horizon) = Never \/ Position(db, label) < LogicalFrom(db, horizon))
        <=> BuildSpec(db, "", label, label).line = NoSort
  BY <1>1, <1>2, <1>3, <1>4, SortToldInTime
<1>  QED BY <1>1, <1>2, <1>5, <1>6 DEF ScheduleTyped

\* What a run has admitted of its grammar, whatever happens to it.
LEMMA GrammarKept == Spec => []GrammarInv
BY GrammarInit, GrammarStep, PTL DEF Spec

\* A theorem is checked under the grammar its own position has, for any file and
\* plan: what the walk has admitted by then (grammar_schedule, _admit) is what
\* build_spec gives a system made for that theorem, and the walk refuses to read it
\* exactly when that system has no sort to write |- in.
THEOREM GrammarAlwaysAsOf == Spec => []GrammarAsOf
BY GrammarKept, GrammarGives, PTL
-----------------------------------------------------------------------------
(* What the lines of a proof state.                                        *)

\* What is declared of a file whose variables are of sorts: a variable's hypothesis
\* asserts nothing, and what is mandatory for an assertion is in scope of it.
Sorted(d) ==
    /\ \A h \in DOMAIN d.hypotheses :
         d.hypotheses[h].kind = "$f" => d.hypotheses[h].typecode # Logical
    /\ \A a \in DOMAIN d.assertions :
         Range(d.assertions[a].mandatory) \subseteq d.assertions[a].active
ReadSorts(ctx, n, d) == Parsed(d) /\ Sorted(d)
Sorting == INSTANCE FoldProofs WITH Op <- ReadStep, Keeps <- ReadSorts

\* Neither dictionary is written by most statements.
LEMMA SortedKept ==
  ASSUME NEW d, NEW e, Sorted(d), e.hypotheses = d.hypotheses, e.assertions = d.assertions
  PROVE  Sorted(e)
BY DEF Sorted

LEMMA SortsHypothesis ==
  ASSUME NEW d \in Databases, Sorted(d), NEW s, s.kind = "$f" => s.typecode # Logical
  PROVE  Sorted(ReadHypothesis(d, s))
<1> DEFINE h == [kind |-> s.kind, typecode |-> s.typecode, tokens |-> s.tokens, at |-> Len(d.order)]
           H == With(d.hypotheses, s.label, h)
           e == ReadHypothesis(d, s)
<1>1. PICK S : e = [d EXCEPT !.hypotheses = H, !.scopes = S]
  BY DEF ReadHypothesis
<1> HIDE DEF e
<1>2. h.kind = "$f" => h.typecode # Logical
  OBVIOUS
<1> HIDE DEF h
<1>3. DOMAIN H = DOMAIN d.hypotheses \cup {s.label}
      /\ \A x \in DOMAIN H : H[x] = IF x = s.label THEN h ELSE d.hypotheses[x]
  BY DEF With
<1> HIDE DEF H
<1>4. e.hypotheses = H /\ e.assertions = d.assertions
  BY <1>1 DEF Databases
<1>  QED BY <1>2, <1>3, <1>4 DEF Sorted, e

LEMMA SortsAssertion ==
  ASSUME NEW d \in Databases, Declared(d), Sorted(d), NEW s \in Statement, s.kind \in {"$a", "$p"}
  PROVE  Sorted(ReadAssertion(d, s))
<1> DEFINE a == [proved |-> HasProof(s), typecode |-> s.typecode, tokens |-> s.tokens,
                 mandatory |-> Mandatory(d, s.tokens), active |-> Range(Active(d)),
                 distinct |-> Standing(d),
                 table   |-> IF HasProof(s) THEN s.table ELSE << >>,
                 letters |-> IF HasProof(s) THEN s.letters ELSE << >>]
           e == ReadAssertion(d, s)
<1>1. a.mandatory = Mandatory(d, s.tokens) /\ a.active = Range(Active(d))
  OBVIOUS
<1>2. e = [d EXCEPT !.assertions = With(d.assertions, s.label, a), !.order = Append(d.order, s.label)]
  BY DEF ReadAssertion
<1> HIDE DEF a
<1> DEFINE A == With(d.assertions, s.label, a)
<1>3. DOMAIN A = DOMAIN d.assertions \cup {s.label}
      /\ \A x \in DOMAIN A : A[x] = IF x = s.label THEN a ELSE d.assertions[x]
  BY DEF With
<1>4. e.hypotheses = d.hypotheses /\ e.assertions = A
  BY <1>2 DEF Databases
<1>5. Range(a.mandatory) \subseteq a.active
  <2>1. Active(d) \in Seq(DOMAIN d.hypotheses)
    BY ScopesType
  <2>2. \E set : Mandatory(d, s.tokens) = Filter(Active(d), set)
    BY DEF Mandatory
  <2>3. Range(Mandatory(d, s.tokens)) \subseteq Range(Active(d))
    BY <2>1, <2>2, FilterType
  <2>  QED BY <1>1, <2>3
<1> HIDE DEF A, e
<1>  QED BY <1>3, <1>4, <1>5 DEF Sorted, e

LEMMA ReadSorted ==
  ASSUME NEW d, Parsed(d), Sorted(d), NEW s \in Statement, s.kind = "$f" => s.typecode # Logical
  PROVE  Sorted(Read(d, s))
<1>1. d \in Databases /\ Declared(d) /\ d.error \in BOOLEAN
  BY DatabaseType DEF Parsed
<1>2. CASE d.error
  BY <1>2 DEF Read
<1>3. ASSUME NEW S PROVE Sorted([d EXCEPT !.scopes = S])
  BY <1>1, SortedKept DEF Databases
<1>4. Sorted([d EXCEPT !.error = TRUE])
  BY <1>1, SortedKept DEF Databases
<1>5. CASE ~d.error /\ s.kind \in {"${", "$}", "$d"}
  BY <1>3, <1>4, <1>5 DEF Read
<1>6. CASE ~d.error /\ s.kind = "header"
  <2>1. PICK O : Read(d, s) = [d EXCEPT !.outline = O]
    BY <1>6 DEF Read
  <2>2. Sorted([d EXCEPT !.outline = O])
    BY <1>1, SortedKept DEF Databases
  <2>  QED BY <2>1, <2>2
<1>7. CASE ~d.error /\ s.kind \in {"$f", "$e"}
  BY <1>1, <1>4, <1>7, SortsHypothesis DEF Read
<1>8. CASE ~d.error /\ s.kind \in {"$a", "$p"}
  BY <1>1, <1>4, <1>8, SortsAssertion DEF Read
<1>  QED BY <1>1, <1>2, <1>5, <1>6, <1>7, <1>8, StatementType

LEMMA FilesSort ==
  ASSUME NEW file \in Seq(Statement),
         \A i \in 1..Len(file) : file[i].kind = "$f" => file[i].typecode # Logical
  PROVE  Sorted(Parse(file))
<1> DEFINE d == FoldLeft(Read, Empty, file)
<1>1. d = Sorting!Fold(0, Empty, file)
  BY DEF ReadStep, FoldLeft, MapThenFoldSet, Sorting!Fold, Sorting!Iterates, Max, Sorting!Max
<1>2. ASSUME NEW a, NEW i \in 1..Len(file), ReadSorts(0, i - 1, a)
      PROVE  ReadSorts(0, i, ReadStep(0, a, file[i]))
  <2>1. file[i] \in Statement
    OBVIOUS
  <2>2. file[i].kind = "$f" => file[i].typecode # Logical
    OBVIOUS
  <2>  QED BY <1>2, <2>1, <2>2, ReadParses, ReadSorted DEF ReadStep, ReadSorts
<1>3. DOMAIN file = 1..Len(file) /\ Len(file) \in Nat
  OBVIOUS
<1>4. ReadSorts(0, 0, Empty)
  <2>1. DOMAIN Empty.hypotheses = {} /\ DOMAIN Empty.assertions = {}
    BY DEF Empty
  <2>  QED BY <2>1, EmptyParsed DEF ReadSorts, Sorted
<1>5. ReadSorts(0, Len(file), Sorting!Fold(0, Empty, file))
  <2> HIDE DEF ReadSorts, ReadStep
  <2>  QED BY <1>2, <1>3, <1>4, Sorting!FoldKeeps
<1>6. d \in Databases /\ Sorted(d)
  BY <1>1, <1>5 DEF ReadSorts, Parsed
<1>7. Parse(file) = [d EXCEPT !.error = @ \/ Len(d.scopes) # 1]
  BY DEF Parse
<1> HIDE DEF d
<1>8. Parse(file).hypotheses = d.hypotheses /\ Parse(file).assertions = d.assertions
  BY <1>6, <1>7 DEF Databases
<1>  QED BY <1>6, <1>8, SortedKept
\* An entry of the stack that asserts is a line, and the line states it.
Entry(lines, e) ==
    /\ e.line \in {NoLine} \cup 1..Len(lines)
    /\ e.line # NoLine => lines[e.line].tokens = e.tokens
    /\ e.typecode = Logical => e.line # NoLine
Entries(lines, s) == \E S : s \in Seq(S) /\ \A i \in 1..Len(s) : Entry(lines, s[i])

\* A line cites lines above it, and is the only one by its hypothesis.
Written(c, lines, premises) ==
    /\ \E S : lines \in Seq(S)
    /\ \A i \in 1..Len(lines) :
         /\ lines[i].by \in c.names
         /\ Range(lines[i].cites) \subseteq 1..(i - 1)
         /\ lines[i].by \in DOMAIN c.db.hypotheses =>
              lines[i].by \in premises /\ \A j \in 1..(i - 1) : lines[j].by # lines[i].by

\* What a proof that has not failed has made,
Held(c, m) ==
    /\ ~c.failed
    /\ DOMAIN m = {"stack", "saved", "lines", "premises", "top", "error"}
    /\ Written(c, m.lines, DOMAIN m.premises)
    /\ Entries(m.lines, m.stack) /\ Entries(m.lines, m.saved)
    /\ \A x \in DOMAIN m.premises : Entry(m.lines, m.premises[x])

\* and where it stands: nothing is done while nothing is on the stack, and an
\* entry that stands alone and asserts is the last line.
Stands(m) ==
    /\ Len(m.stack) = 0 => Len(m.lines) = 0 /\ Len(m.saved) = 0 /\ DOMAIN m.premises = {}
    /\ Len(m.stack) = 1 /\ m.stack[1].typecode = Logical => m.stack[1].line = Len(m.lines)

\* So does the entry a step has found, before it is pushed.
Topped(m) ==
    /\ Entry(m.lines, m.top)
    /\ Len(m.stack) = 0 /\ m.top.typecode = Logical => m.top.line = Len(m.lines)

\* A step selects a saved step, or what a proof may name.
Selected(c, s) ==
    \/ s.by = "step" /\ s.of \in Nat \ {0}
    \/ s.by # "step" /\ s.of \in c.names
Readable(c) ==
    /\ \A h \in DOMAIN c.db.hypotheses :
         c.db.hypotheses[h].kind = "$f" => c.db.hypotheses[h].typecode # Logical
    /\ ~c.failed => \A x \in c.names \ DOMAIN c.db.hypotheses :
                      c.db.assertions[x].mandatory \in Seq(DOMAIN c.db.hypotheses)

StatesKeeps(c, n, m) == m.error \/ (Held(c, m) /\ Stands(m))
Stating == INSTANCE FoldProofs WITH Op <- MachineStep, Keeps <- StatesKeeps

LEMMA EntryGrows ==
  ASSUME NEW S, NEW lines \in Seq(S), NEW l, NEW e, Entry(lines, e)
  PROVE  Entry(Append(lines, l), e)
<1>1. lines \in Seq(S \cup {l}) /\ Len(lines) \in Nat
  OBVIOUS
<1>2. Len(Append(lines, l)) = Len(lines) + 1
      /\ \A i \in 1..Len(lines) : Append(lines, l)[i] = lines[i]
  BY <1>1
<1> DEFINE n == Len(lines)
           r == Append(lines, l)
<1> HIDE DEF n, r
<1>3. n \in Nat /\ Len(r) = n + 1 /\ \A i \in 1..n : r[i] = lines[i]
  BY <1>1, <1>2 DEF n, r
<1>4. /\ e.line \in {NoLine} \cup 1..n
      /\ e.line # NoLine => lines[e.line].tokens = e.tokens
      /\ e.typecode = Logical => e.line # NoLine
  BY DEF Entry, n
<1>5. Entry(r, e)
  BY <1>3, <1>4 DEF Entry
<1>  QED BY <1>5 DEF r

LEMMA EntriesGrow ==
  ASSUME NEW S, NEW lines \in Seq(S), NEW l, NEW s, Entries(lines, s)
  PROVE  Entries(Append(lines, l), s)
BY EntryGrows, Zenon DEF Entries

LEMMA EntriesPushed ==
  ASSUME NEW lines, NEW s, Entries(lines, s), NEW e, Entry(lines, e)
  PROVE  Entries(lines, Append(s, e))
<1>1. PICK S : s \in Seq(S) /\ \A i \in 1..Len(s) : Entry(lines, s[i])
  BY DEF Entries
<1> DEFINE n == Len(s)
           r == Append(s, e)
<1>2. s \in Seq(S \cup {e}) /\ n \in Nat
  BY <1>1
<1>3. r \in Seq(S \cup {e}) /\ Len(r) = n + 1 /\ \A i \in 1..(n + 1) : r[i] = IF i = n + 1 THEN e ELSE s[i]
  BY <1>2
<1> HIDE DEF r
<1>4. \A i \in 1..(n + 1) : Entry(lines, r[i])
  <2> HIDE DEF n
  <2> SUFFICES ASSUME NEW i \in 1..(n + 1) PROVE Entry(lines, r[i])
    OBVIOUS
  <2>1. CASE i = n + 1
    BY <1>3, <2>1
  <2>2. CASE i # n + 1
    <3>1. i \in 1..n /\ r[i] = s[i]
      BY <1>2, <1>3, <2>2
    <3>  QED BY <1>1, <3>1 DEF n
  <2>  QED BY <2>1, <2>2
<1>5. Entries(lines, r)
  BY <1>3, <1>4 DEF Entries
<1>  QED BY <1>5 DEF r

LEMMA EntriesPopped ==
  ASSUME NEW lines, NEW s, Entries(lines, s), NEW n \in 0..Len(s)
  PROVE  Entries(lines, SubSeq(s, 1, n)) /\ Len(SubSeq(s, 1, n)) = n
<1>1. PICK S : s \in Seq(S) /\ \A i \in 1..Len(s) : Entry(lines, s[i])
  BY DEF Entries
<1> DEFINE r == SubSeq(s, 1, n)
<1>2. r \in Seq(S) /\ Len(r) = n /\ \A i \in 1..n : r[i] = s[i]
  BY <1>1
<1>3. 1..n \subseteq 1..Len(s)
  BY <1>1
<1> HIDE DEF r
<1>4. \A i \in 1..n : Entry(lines, r[i])
  BY <1>1, <1>2, <1>3
<1>5. Entries(lines, r)
  BY <1>2, <1>4 DEF Entries
<1>  QED BY <1>2, <1>5 DEF r

LEMMA LineWritten ==
  ASSUME NEW c, NEW lines, NEW premises, NEW more, Written(c, lines, premises),
         NEW l, l.by \in c.names, Range(l.cites) \subseteq 1..Len(lines),
         premises \subseteq more,
         l.by \in DOMAIN c.db.hypotheses => l.by \in more /\ l.by \notin premises
  PROVE  Written(c, Append(lines, l), more)
<1>1. PICK S : lines \in Seq(S)
  BY DEF Written
<1> DEFINE n == Len(lines)
           r == Append(lines, l)
<1>2. lines \in Seq(S \cup {l}) /\ n \in Nat
  BY <1>1
<1>3. r \in Seq(S \cup {l}) /\ Len(r) = n + 1 /\ \A i \in 1..(n + 1) : r[i] = IF i = n + 1 THEN l ELSE lines[i]
  BY <1>2
<1>4. \A i \in 1..n :
         /\ lines[i].by \in c.names
         /\ Range(lines[i].cites) \subseteq 1..(i - 1)
         /\ lines[i].by \in DOMAIN c.db.hypotheses =>
              lines[i].by \in premises /\ \A j \in 1..(i - 1) : lines[j].by # lines[i].by
  BY DEF Written
<1>5. Range(l.cites) \subseteq 1..n
  OBVIOUS
<1> HIDE DEF n, r
<1>6. ASSUME NEW i \in 1..(n + 1)
      PROVE  /\ r[i].by \in c.names
             /\ Range(r[i].cites) \subseteq 1..(i - 1)
             /\ r[i].by \in DOMAIN c.db.hypotheses =>
                  r[i].by \in more /\ \A j \in 1..(i - 1) : r[j].by # r[i].by
  <2>1. CASE i = n + 1
    <3>1. r[i] = l /\ i - 1 = n /\ \A j \in 1..n : r[j] = lines[j]
      BY <1>2, <1>3, <2>1
    <3>2. ASSUME l.by \in DOMAIN c.db.hypotheses, NEW j \in 1..n PROVE lines[j].by # l.by
      BY <1>4, <3>2
    <3>  QED BY <1>5, <3>1, <3>2
  <2>2. CASE i # n + 1
    <3>1. i \in 1..n /\ r[i] = lines[i] /\ \A j \in 1..(i - 1) : r[j] = lines[j]
      BY <1>2, <1>3, <2>2
    <3>  QED BY <1>4, <3>1
  <2>  QED BY <2>1, <2>2
<1>7. Written(c, r, more)
  BY <1>3, <1>6 DEF Written
<1>  QED BY <1>7 DEF r

\* Steps that write no line,
LEMMA HeldKept ==
  ASSUME NEW c, NEW m, Held(c, m), NEW n, DOMAIN n = DOMAIN m,
         n.lines = m.lines, n.premises = m.premises, n.saved = m.saved,
         Entries(m.lines, n.stack)
  PROVE  Held(c, n)
BY Zenon DEF Held

\* and steps that write one.
LEMMA HeldGrown ==
  ASSUME NEW c, NEW m, Held(c, m), NEW n, DOMAIN n = DOMAIN m, NEW l,
         n.lines = Append(m.lines, l), n.saved = m.saved,
         l.by \in c.names, Range(l.cites) \subseteq 1..Len(m.lines),
         Entries(m.lines, n.stack), DOMAIN m.premises \subseteq DOMAIN n.premises,
         l.by \in DOMAIN c.db.hypotheses => l.by \in DOMAIN n.premises \ DOMAIN m.premises,
         \A x \in DOMAIN n.premises :
            \/ Entry(n.lines, n.premises[x])
            \/ x \in DOMAIN m.premises /\ n.premises[x] = m.premises[x]
  PROVE  Held(c, n)
<1>1. PICK S : m.lines \in Seq(S)
  BY DEF Held, Written
<1>2. Written(c, n.lines, DOMAIN n.premises)
  <2>1. Written(c, m.lines, DOMAIN m.premises)
    BY DEF Held
  <2>  QED BY <2>1, LineWritten
<1>3. Entries(n.lines, n.stack) /\ Entries(n.lines, n.saved)
  BY <1>1, EntriesGrow DEF Held
<1>4. \A x \in DOMAIN n.premises : Entry(n.lines, n.premises[x])
  BY <1>1, EntryGrows DEF Held
<1>  QED BY <1>2, <1>3, <1>4, Zenon DEF Held

\* The entry of the line just written is on top.
LEMMA LineTopped ==
  ASSUME NEW S, NEW lines \in Seq(S), NEW l, NEW e, e.tokens = l.tokens, e.line = Len(lines) + 1
  PROVE  Entry(Append(lines, l), e) /\ e.line = Len(Append(lines, l))
<1> DEFINE n == Len(lines)
           r == Append(lines, l)
<1>1. lines \in Seq(S \cup {l}) /\ n \in Nat
  OBVIOUS
<1>2. Len(r) = n + 1 /\ r[n + 1] = l /\ n + 1 \in 1..(n + 1) /\ n + 1 # 0
  BY <1>1
<1> HIDE DEF n, r
<1>3. e.line = n + 1
  BY DEF n
<1>4. Entry(r, e) /\ e.line = Len(r)
  BY <1>2, <1>3 DEF Entry, NoLine
<1>  QED BY <1>4 DEF r

LEMMA HypothesisHeld ==
  ASSUME NEW c, NEW m, Held(c, m), Stands(m), Readable(c),
         NEW name \in DOMAIN c.db.hypotheses, name \in c.names
  PROVE  LET p == PushHypothesis(c.db, m, name) IN Held(c, p) /\ Topped(p)
<1> DEFINE h == c.db.hypotheses[name]
           entry == [typecode |-> h.typecode, tokens |-> h.tokens, line |-> Len(m.lines) + 1]
           l == [tokens |-> h.tokens, by |-> name, cites |-> << >>]
           p == PushHypothesis(c.db, m, name)
<1>1. DOMAIN m = {"stack", "saved", "lines", "premises", "top", "error"} /\ Entries(m.lines, m.stack)
  BY DEF Held
<1>2. CASE h.kind = "$f"
  <2> DEFINE e == [entry EXCEPT !.line = NoLine]
  <2>1. p = [m EXCEPT !.top = e]
    BY <1>2 DEF PushHypothesis
  <2>2. h.typecode # Logical
    BY <1>2 DEF Readable
  <2>3. e.line = NoLine /\ e.typecode # Logical
    BY <2>2
  <2> HIDE DEF p, e
  <2>4. DOMAIN p = DOMAIN m /\ p.lines = m.lines /\ p.premises = m.premises /\ p.saved = m.saved
        /\ p.stack = m.stack /\ p.top = e
    BY <1>1, <2>1
  <2>5. Held(c, p)
    BY <1>1, <2>4, HeldKept
  <2>6. Topped(p)
    BY <2>3, <2>4 DEF Topped, Entry
  <2>  QED BY <2>5, <2>6 DEF p
<1>3. CASE h.kind # "$f" /\ name \in DOMAIN m.premises
  <2> DEFINE e == m.premises[name]
  <2>1. p = [m EXCEPT !.top = e]
    BY <1>3 DEF PushHypothesis
  <2>2. Entry(m.lines, e)
    BY <1>3 DEF Held
  <2>3. Len(m.stack) # 0
    BY <1>3 DEF Stands
  <2> HIDE DEF p, e
  <2>4. DOMAIN p = DOMAIN m /\ p.lines = m.lines /\ p.premises = m.premises /\ p.saved = m.saved
        /\ p.stack = m.stack /\ p.top = e
    BY <1>1, <2>1
  <2>5. Held(c, p)
    BY <1>1, <2>4, HeldKept
  <2>6. Topped(p)
    BY <2>2, <2>3, <2>4 DEF Topped
  <2>  QED BY <2>5, <2>6 DEF p
<1>4. CASE h.kind # "$f" /\ name \notin DOMAIN m.premises
  <2>1. p = [m EXCEPT !.top = entry, !.premises = With(m.premises, name, entry),
                      !.lines = Append(m.lines, l)]
    BY <1>4 DEF PushHypothesis
  <2>2. l.by = name /\ Range(l.cites) = {} /\ entry.tokens = l.tokens
        /\ entry.line = Len(m.lines) + 1
    BY DEF Range
  <2>3. PICK S : m.lines \in Seq(S)
    BY DEF Held, Written
  <2> DEFINE P == With(m.premises, name, entry)
  <2>4. DOMAIN P = DOMAIN m.premises \cup {name}
        /\ \A x \in DOMAIN P : P[x] = IF x = name THEN entry ELSE m.premises[x]
    BY DEF With
  <2> HIDE DEF p, l, entry, P
  <2>5. DOMAIN p = DOMAIN m /\ p.lines = Append(m.lines, l) /\ p.premises = P
        /\ p.saved = m.saved /\ p.stack = m.stack /\ p.top = entry
    BY <1>1, <2>1 DEF P
  <2>6. Entry(p.lines, entry) /\ entry.line = Len(p.lines)
    BY <2>2, <2>3, <2>5, LineTopped
  <2>7. Held(c, p)
    <3>1. \A x \in DOMAIN p.premises :
            \/ Entry(p.lines, p.premises[x])
            \/ x \in DOMAIN m.premises /\ p.premises[x] = m.premises[x]
      BY <2>4, <2>5, <2>6
    <3>2. /\ l.by \in c.names /\ Range(l.cites) \subseteq 1..Len(m.lines)
          /\ Entries(m.lines, p.stack) /\ DOMAIN m.premises \subseteq DOMAIN p.premises
          /\ l.by \in DOMAIN p.premises \ DOMAIN m.premises
      BY <1>1, <1>4, <2>2, <2>4, <2>5
    <3>  QED BY <2>5, <3>1, <3>2, HeldGrown
  <2>8. Topped(p)
    BY <2>5, <2>6 DEF Topped
  <2>  QED BY <2>7, <2>8 DEF p
<1>  QED BY <1>2, <1>3, <1>4

LEMMA AssertionHeld ==
  ASSUME NEW c, NEW m, Held(c, m), Readable(c),
         NEW name \in c.names, name \notin DOMAIN c.db.hypotheses
  PROVE  LET p == ApplyAssertion(c.db, m, name) IN
         p.error \/ (Held(c, p) /\ Topped(p))
<1> DEFINE a      == c.db.assertions[name]
           arity  == Len(a.mandatory)
           base   == Len(m.stack) - arity
           slots  == {i \in 1..arity : c.db.hypotheses[a.mandatory[i]].kind = "$f"}
           sigma  == [v \in {c.db.hypotheses[a.mandatory[i]].tokens[1] : i \in slots} |->
                        m.stack[base + (CHOOSE i \in slots :
                                          c.db.hypotheses[a.mandatory[i]].tokens[1] = v)].tokens]
           tokens == Substitute(a.tokens, sigma)
           found  == [i \in 1..arity |-> IF i \in slots THEN NoLine ELSE m.stack[base + i].line]
           cites  == Filter(found, Nat \ {NoLine})
           p == ApplyAssertion(c.db, m, name)
<1>1. DOMAIN m = {"stack", "saved", "lines", "premises", "top", "error"} /\ Entries(m.lines, m.stack)
  BY DEF Held
<1>2. PICK S : m.stack \in Seq(S) /\ \A i \in 1..Len(m.stack) : Entry(m.lines, m.stack[i])
  BY <1>1 DEF Entries
<1>3. PICK L : m.lines \in Seq(L)
  BY DEF Held, Written
<1>4. arity \in Nat /\ Len(m.stack) \in Nat /\ Len(m.lines) \in Nat
  <2>1. a.mandatory \in Seq(DOMAIN c.db.hypotheses)
    <3>1. ~c.failed /\ name \in c.names \ DOMAIN c.db.hypotheses
      BY DEF Held
    <3>  QED BY <3>1, Zenon DEF Readable
  <2> HIDE DEF a
  <2>  QED BY <1>2, <1>3, <2>1
<1>5. CASE base < 0
  <2>1. p = [m EXCEPT !.error = TRUE]
    BY <1>5, Zenon DEF ApplyAssertion
  <2> HIDE DEF p
  <2>2. p.error = TRUE
    BY <1>1, <2>1
  <2>  QED BY <2>2 DEF p
<1>6. ASSUME ~(base < 0) PROVE /\ Entries(m.lines, SubSeq(m.stack, 1, base))
                               /\ base \in Nat
  <2> DEFINE n == Len(m.stack)
  <2>0. base = n - arity /\ n \in Nat /\ arity \in Nat /\ ~(base < 0)
    BY <1>4, <1>6
  <2>1. base \in 0..Len(m.stack)
    <3> HIDE DEF base, n, arity
    <3>1. base \in 0..n
      BY <2>0
    <3>  QED BY <3>1 DEF n
  <2> HIDE DEF base
  <2>  QED BY <1>1, <2>1, EntriesPopped
<1>7. CASE ~(base < 0) /\ a.typecode # Logical
  <2> DEFINE e == [typecode |-> a.typecode, tokens |-> tokens, line |-> NoLine]
             rest == SubSeq(m.stack, 1, base)
  <2>1. p = [m EXCEPT !.stack = rest, !.top = e]
    BY <1>7, Zenon DEF ApplyAssertion
  <2>2. e.line = NoLine /\ e.typecode # Logical
    BY <1>7
  <2>3. Entries(m.lines, rest)
    BY <1>6, <1>7
  <2> HIDE DEF p, e, rest
  <2>4. DOMAIN p = DOMAIN m /\ p.lines = m.lines /\ p.premises = m.premises /\ p.saved = m.saved
        /\ p.stack = rest /\ p.top = e
    BY <1>1, <2>1
  <2>5. Held(c, p)
    BY <2>3, <2>4, HeldKept
  <2>6. Topped(p)
    BY <2>2, <2>4 DEF Topped, Entry
  <2>  QED BY <2>5, <2>6 DEF p
<1>8. CASE ~(base < 0) /\ a.typecode = Logical
  <2> DEFINE e == [typecode |-> a.typecode, tokens |-> tokens, line |-> Len(m.lines) + 1]
             rest == SubSeq(m.stack, 1, base)
             l == [tokens |-> tokens, by |-> name, cites |-> cites]
  <2>1. p = [m EXCEPT !.stack = rest, !.top = e, !.lines = Append(m.lines, l)]
    BY <1>8, Zenon DEF ApplyAssertion
  <2>2. Entries(m.lines, rest) /\ base \in Nat
    BY <1>6, <1>8
  <2>3. Range(cites) \subseteq 1..Len(m.lines)
    <3> DEFINE N == Len(m.lines)
               n == Len(m.stack)
    <3>1. base = n - arity /\ n \in Nat /\ N \in Nat /\ arity \in Nat
      BY <1>4
    <3>2. \A i \in 1..n : m.stack[i].line \in {NoLine} \cup 1..N
      BY <1>2 DEF Entry
    <3> HIDE DEF N, n, base, slots, arity
    <3>3. \A i \in 1..arity : base + i \in 1..n
      BY <2>2, <3>1
    <3>4. \A i \in 1..arity : found[i] \in {NoLine} \cup 1..N
      BY <3>2, <3>3
    <3>5. found \in [1..arity -> Nat]
      BY <3>1, <3>4 DEF NoLine
    <3>6. Range(found) \subseteq {NoLine} \cup 1..N
      BY <3>4 DEF Range
    <3> HIDE DEF found
    <3>7. found \in Seq(Nat)
      BY <3>1, <3>5
    <3>8. Range(cites) = Range(found) \cap (Nat \ {NoLine})
      BY <3>7, FilterType
    <3>  QED BY <3>6, <3>8 DEF N
  <2>4. l.by = name /\ l.cites = cites /\ e.tokens = l.tokens /\ e.line = Len(m.lines) + 1
    BY Zenon
  <2> HIDE DEF p, e, rest, l, cites
  <2>5. DOMAIN p = DOMAIN m /\ p.lines = Append(m.lines, l) /\ p.premises = m.premises
        /\ p.saved = m.saved /\ p.stack = rest /\ p.top = e
    BY <1>1, <2>1
  <2>6. Entry(p.lines, e) /\ e.line = Len(p.lines)
    BY <1>3, <2>4, <2>5, LineTopped
  <2>7. Held(c, p)
    <3>1. \A x \in DOMAIN p.premises :
            \/ Entry(p.lines, p.premises[x])
            \/ x \in DOMAIN m.premises /\ p.premises[x] = m.premises[x]
      BY <2>5
    <3>2. /\ l.by \in c.names /\ Range(l.cites) \subseteq 1..Len(m.lines)
          /\ Entries(m.lines, p.stack) /\ DOMAIN m.premises \subseteq DOMAIN p.premises
          /\ l.by \notin DOMAIN c.db.hypotheses
      BY <2>2, <2>3, <2>4, <2>5
    <3>  QED BY <2>5, <3>1, <3>2, HeldGrown
  <2>8. Topped(p)
    BY <2>5, <2>6 DEF Topped
  <2>  QED BY <2>7, <2>8 DEF p
<1>  QED BY <1>5, <1>7, <1>8

LEMMA StepHeld ==
  ASSUME NEW c, NEW m, Held(c, m), Stands(m), Readable(c), ~m.error, NEW s, Selected(c, s)
  PROVE  LET p == MachineStep(c, m, s) IN p.error \/ (Held(c, p) /\ Stands(p))
<1> DEFINE got == CASE m.error -> m
                    [] ~m.error /\ s.by = "step" ->
                         IF s.of > Len(m.saved) THEN [m EXCEPT !.error = TRUE]
                         ELSE [m EXCEPT !.top = m.saved[s.of]]
                    [] ~m.error /\ s.by # "step" ->
                         IF s.of \in DOMAIN c.db.hypotheses THEN PushHypothesis(c.db, m, s.of)
                         ELSE ApplyAssertion(c.db, m, s.of)
           p == MachineStep(c, m, s)
<1>1. DOMAIN m = {"stack", "saved", "lines", "premises", "top", "error"} /\ Entries(m.lines, m.stack)
      /\ Entries(m.lines, m.saved)
  BY DEF Held
<1>2. PICK S : m.saved \in Seq(S) /\ \A i \in 1..Len(m.saved) : Entry(m.lines, m.saved[i])
  BY <1>1 DEF Entries
<1>3. got.error \/ (Held(c, got) /\ Topped(got))
  <2>1. CASE s.by = "step" /\ s.of > Len(m.saved)
    <3>1. got = [m EXCEPT !.error = TRUE]
      BY <2>1
    <3> HIDE DEF got
    <3>  QED BY <1>1, <3>1
  <2>2. CASE s.by = "step" /\ ~(s.of > Len(m.saved))
    <3> DEFINE e == m.saved[s.of]
    <3>1. got = [m EXCEPT !.top = e]
      BY <2>2
    <3>2. s.of \in 1..Len(m.saved) /\ Len(m.saved) # 0
      BY <1>2, <2>2 DEF Selected
    <3>3. Entry(m.lines, e)
      BY <1>2, <3>2
    <3>4. Len(m.stack) # 0
      BY <3>2 DEF Stands
    <3> HIDE DEF got, e
    <3>5. DOMAIN got = DOMAIN m /\ got.lines = m.lines /\ got.premises = m.premises
          /\ got.saved = m.saved /\ got.stack = m.stack /\ got.top = e
      BY <1>1, <3>1
    <3>6. Held(c, got)
      BY <1>1, <3>5, HeldKept
    <3>  QED BY <3>3, <3>4, <3>5, <3>6 DEF Topped
  <2>3. CASE s.by # "step" /\ s.of \in DOMAIN c.db.hypotheses
    <3>1. got = PushHypothesis(c.db, m, s.of)
      BY <2>3
    <3>2. s.of \in c.names
      BY <2>3 DEF Selected
    <3> HIDE DEF got
    <3>  QED BY <2>3, <3>1, <3>2, HypothesisHeld
  <2>4. CASE s.by # "step" /\ s.of \notin DOMAIN c.db.hypotheses
    <3>1. got = ApplyAssertion(c.db, m, s.of)
      BY <2>4
    <3>2. s.of \in c.names
      BY <2>4 DEF Selected
    <3> HIDE DEF got
    <3>  QED BY <2>4, <3>1, <3>2, AssertionHeld
  <2>  QED BY <2>1, <2>2, <2>3, <2>4
<1>4. p = IF got.error THEN got
          ELSE [got EXCEPT !.stack = Append(@, got.top),
                           !.saved = IF s.saved THEN Append(@, got.top) ELSE @]
  BY DEF MachineStep, TakeStep
<1> HIDE DEF got, p
<1>5. CASE got.error
  <2>1. p.error
    BY <1>4, <1>5
  <2>  QED BY <2>1 DEF p
<1>6. CASE ~got.error
  <2>1. Held(c, got) /\ Topped(got)
    BY <1>3, <1>6
  <2>2. DOMAIN got = {"stack", "saved", "lines", "premises", "top", "error"}
        /\ Entries(got.lines, got.stack) /\ Entries(got.lines, got.saved)
        /\ Entry(got.lines, got.top)
    BY <2>1 DEF Held, Topped
  <2> DEFINE stack == Append(got.stack, got.top)
             saved == IF s.saved THEN Append(got.saved, got.top) ELSE got.saved
  <2>3. p = [got EXCEPT !.stack = stack, !.saved = saved]
    BY <1>4, <1>6
  <2>4. Entries(got.lines, stack)
    BY <2>2, EntriesPushed
  <2>5. Entries(got.lines, saved)
    <3>1. Entries(got.lines, Append(got.saved, got.top))
      BY <2>2, EntriesPushed
    <3>  QED BY <2>2, <3>1
  <2>6. /\ Len(stack) = Len(got.stack) + 1 /\ Len(got.stack) \in Nat
        /\ Len(got.stack) = 0 => stack[1] = got.top
    <3>1. PICK T : got.stack \in Seq(T)
      BY <2>2 DEF Entries
    <3>2. got.stack \in Seq(T \cup {got.top})
      BY <3>1
    <3>  QED BY <3>2
  <2> HIDE DEF stack, saved
  <2>7. DOMAIN p = DOMAIN got /\ p.lines = got.lines /\ p.premises = got.premises
        /\ p.saved = saved /\ p.stack = stack
    BY <2>2, <2>3
  <2>8. Held(c, p)
    BY <2>1, <2>4, <2>5, <2>7, Zenon DEF Held
  <2>9. Stands(p)
    <3>1. Len(p.stack) # 0
      BY <2>6, <2>7
    <3>2. ASSUME Len(p.stack) = 1, p.stack[1].typecode = Logical
          PROVE  p.stack[1].line = Len(p.lines)
      <4>0. Len(got.stack) = 0
        <5> DEFINE k == Len(got.stack)
        <5>1. 1 = k + 1 /\ k \in Nat
          BY <2>6, <2>7, <3>2
        <5> HIDE DEF k
        <5>2. k = 0
          BY <5>1
        <5>  QED BY <5>2 DEF k
      <4>1. p.stack[1] = got.top /\ got.top.typecode = Logical
        BY <2>6, <2>7, <3>2, <4>0
      <4>2. got.top.line = Len(got.lines)
        BY <2>1, <4>0, <4>1 DEF Topped
      <4>  QED BY <2>7, <4>1, <4>2
    <3>  QED BY <3>1, <3>2 DEF Stands
  <2>  QED BY <2>8, <2>9 DEF p
<1>  QED BY <1>5, <1>6

\* Lines that establish what a label asserts.
Establishes(d, t, lines) ==
    /\ lines # << >> /\ Last(lines).tokens = d.assertions[t].tokens
    /\ \A i \in 1..Len(lines) :
         /\ \A x \in Range(lines[i].cites) : x < i
         /\ IF lines[i].by \in DOMAIN d.hypotheses
            THEN /\ lines[i].by \in d.assertions[t].active
                 /\ \A j \in 1..i-1 : lines[j].by # lines[i].by
            ELSE Position(d, lines[i].by) < Position(d, t)

\* A proof that import_proof makes lines of ends in the line that states its
\* theorem: one entry is left on the stack, and one that stands alone and asserts
\* is the last line.
THEOREM ProofsEstablish ==
  ASSUME NEW d \in Databases, Declared(d), Sorted(d), NEW t \in DOMAIN d.assertions,
         IsLogical(d, t), ImportProof(d, t).ok
  PROVE  Establishes(d, t, ImportProof(d, t).lines)
<1> DEFINE a == d.assertions[t]
           read == Decode(a.letters, a.table, a.mandatory)
           failed == ForwardCitation(d, t) \/ read.error
           c == [db |-> d, names |-> Range(a.mandatory) \cup Range(a.table), failed |-> failed]
           end == FoldLeft(LAMBDA m, s : TakeStep(d, m, s), NothingPushed(failed), read.steps)
<1>1. c.db = d /\ c.names = Range(a.mandatory) \cup Range(a.table) /\ c.failed = failed
  OBVIOUS
<1>2. end = Stating!Fold(c, NothingPushed(failed), read.steps)
  <2> HIDE DEF failed, a, read
  <2>  QED BY <1>1 DEF MachineStep, FoldLeft, MapThenFoldSet, Stating!Fold, Stating!Iterates, Max,
           Stating!Max
<1>3. ImportProof(d, t) = [ok |-> ~end.error /\ Concludes(d, end, t), lines |-> end.lines]
  BY DEF ImportProof
<1> HIDE DEF c, end
<1>4. a.letters \in Seq(Letter) /\ a.table \in Seq(STRING) /\ a.mandatory \in Seq(DOMAIN d.hypotheses)
  <2>1. a \in Assertions
    BY DatabaseType
  <2>2. a.mandatory \in Seq(DOMAIN d.hypotheses)
    BY DEF Declared
  <2> HIDE DEF a
  <2>  QED BY <2>1, <2>2 DEF Assertions
<1>5. /\ DOMAIN read.steps = 1..Len(read.steps) /\ Len(read.steps) \in Nat
      /\ \A i \in 1..Len(read.steps) : Selected(c, read.steps[i])
  <2>1. /\ DOMAIN read.steps = 1..Len(read.steps) /\ Len(read.steps) \in Nat
        /\ \A i \in 1..Len(read.steps) :
             \/ read.steps[i].by = "step" /\ read.steps[i].of \in Nat \ {0}
             \/ read.steps[i].by # "step" /\ read.steps[i].of \in Range(a.mandatory) \cup Range(a.table)
    <3> HIDE DEF a
    <3>  QED BY <1>4, DecodeType
  <2> HIDE DEF read, a
  <2>  QED BY <1>1, <2>1 DEF Selected
<1> HIDE DEF read
<1>6. Range(a.mandatory) \subseteq DOMAIN d.hypotheses /\ Range(a.mandatory) \subseteq a.active
  <2>1. Range(a.mandatory) \subseteq a.active
    BY DEF Sorted
  <2> HIDE DEF a
  <2>  QED BY <1>4, <2>1 DEF Range
<1>7. ASSUME ~failed
      PROVE  \A name \in Range(a.table) :
               IF name \in DOMAIN d.hypotheses THEN name \in a.active
               ELSE name \in DOMAIN d.assertions /\ ~(Position(d, name) >= Position(d, t))
  BY <1>7 DEF ForwardCitation
<1>8. Readable(c)
  <2>1. ASSUME ~failed, NEW x \in c.names \ DOMAIN d.hypotheses
        PROVE  d.assertions[x].mandatory \in Seq(DOMAIN d.hypotheses)
    <3>1. x \in Range(a.table)
      BY <1>1, <1>6, <2>1
    <3>2. x \in DOMAIN d.assertions
      BY <1>7, <2>1, <3>1
    <3>  QED BY <3>2 DEF Declared
  <2>2. \A h \in DOMAIN d.hypotheses : d.hypotheses[h].kind = "$f" => d.hypotheses[h].typecode # Logical
    BY DEF Sorted
  <2> HIDE DEF a, failed
  <2>  QED BY <1>1, <2>1, <2>2 DEF Readable
<1>9. StatesKeeps(c, 0, NothingPushed(failed))
  <2>1. /\ DOMAIN NothingPushed(failed) = {"stack", "saved", "lines", "premises", "top", "error"}
        /\ NothingPushed(failed).lines = << >> /\ NothingPushed(failed).stack = << >>
        /\ NothingPushed(failed).saved = << >> /\ NothingPushed(failed).premises = << >>
        /\ NothingPushed(failed).error = failed
    BY DEF NothingPushed
  <2>2. << >> \in Seq({}) /\ Len(<< >>) = 0 /\ 1..Len(<< >>) = {} /\ DOMAIN << >> = {}
    OBVIOUS
  <2> HIDE DEF failed
  <2>3. CASE failed
    BY <2>1, <2>3 DEF StatesKeeps
  <2>4. CASE ~failed
    <3>1. Written(c, << >>, {}) /\ Entries(<< >>, << >>)
      BY <2>2 DEF Written, Entries
    <3>2. Held(c, NothingPushed(failed))
      BY <1>1, <2>1, <2>2, <2>4, <3>1 DEF Held
    <3>3. Stands(NothingPushed(failed))
      BY <2>1, <2>2 DEF Stands
    <3>  QED BY <3>2, <3>3 DEF StatesKeeps
  <2>  QED BY <2>3, <2>4 DEF failed
<1>10. ASSUME NEW m, NEW i \in 1..Len(read.steps), StatesKeeps(c, i - 1, m)
       PROVE  StatesKeeps(c, i, MachineStep(c, m, read.steps[i]))
  <2>1. CASE m.error
    <3>1. MachineStep(c, m, read.steps[i]) = m
      BY <2>1 DEF MachineStep, TakeStep
    <3>  QED BY <2>1, <3>1 DEF StatesKeeps
  <2>2. CASE ~m.error
    <3>1. Held(c, m) /\ Stands(m)
      BY <1>10, <2>2 DEF StatesKeeps
    <3>2. Selected(c, read.steps[i])
      BY <1>5
    <3>  QED BY <1>8, <2>2, <3>1, <3>2, StepHeld DEF StatesKeeps
  <2>  QED BY <2>1, <2>2
<1>11. StatesKeeps(c, Len(read.steps), end)
  <2>1. StatesKeeps(c, Len(read.steps), Stating!Fold(c, NothingPushed(failed), read.steps))
    <3> HIDE DEF StatesKeeps, MachineStep, failed, a
    <3>  QED BY <1>5, <1>9, <1>10, Stating!FoldKeeps
  <2>  QED BY <1>2, <2>1
<1>12. ~end.error /\ Concludes(d, end, t) /\ ImportProof(d, t).lines = end.lines
  <2> DEFINE good == ~end.error /\ Concludes(d, end, t)
  <2>1. good \in BOOLEAN
    OBVIOUS
  <2>2. ImportProof(d, t) = [ok |-> good, lines |-> end.lines]
    BY <1>3, Zenon
  <2> HIDE DEF good
  <2>3. ImportProof(d, t).ok = good /\ ImportProof(d, t).lines = end.lines
    BY <2>1, <2>2
  <2>  QED BY <2>1, <2>3 DEF good
<1> HIDE DEF failed
<1>13. Held(c, end) /\ Stands(end)
  BY <1>11, <1>12 DEF StatesKeeps
<1>14. end.lines # << >> /\ Last(end.lines).tokens = a.tokens
  <2>1. Len(end.stack) = 1 /\ end.stack[1].tokens = a.tokens /\ end.stack[1].typecode = Logical
    BY <1>12 DEF Concludes, IsLogical
  <2>2. end.stack[1].line = Len(end.lines)
    BY <1>13, <2>1 DEF Stands
  <2>3. Entries(end.lines, end.stack)
    BY <1>13 DEF Held
  <2>4. Entry(end.lines, end.stack[1])
    BY <2>1, <2>3 DEF Entries
  <2>5. end.stack[1].line # NoLine
    BY <2>1, <2>4 DEF Entry
  <2>6. end.lines[Len(end.lines)].tokens = a.tokens
    BY <2>1, <2>2, <2>4, <2>5 DEF Entry
  <2>7. Len(end.lines) # 0
    BY <2>2, <2>5 DEF NoLine
  <2>8. end.lines # << >>
    BY <2>7
  <2>  QED BY <2>6, <2>8 DEF Last
<1>15. ASSUME NEW i \in 1..Len(end.lines)
       PROVE  /\ \A x \in Range(end.lines[i].cites) : x < i
              /\ IF end.lines[i].by \in DOMAIN d.hypotheses
                 THEN /\ end.lines[i].by \in a.active
                      /\ \A j \in 1..i-1 : end.lines[j].by # end.lines[i].by
                 ELSE Position(d, end.lines[i].by) < Position(d, t)
  <2>1. PICK S : end.lines \in Seq(S)
    BY <1>13 DEF Held, Written
  <2>2. /\ end.lines[i].by \in c.names
        /\ Range(end.lines[i].cites) \subseteq 1..(i - 1)
        /\ end.lines[i].by \in DOMAIN d.hypotheses =>
             \A j \in 1..(i - 1) : end.lines[j].by # end.lines[i].by
    BY <1>1, <1>13 DEF Held, Written
  <2>3. \A x \in Range(end.lines[i].cites) : x < i
    <3>1. i \in Nat
      BY <2>1
    <3>2. \A x \in 1..(i - 1) : x < i
      BY <3>1
    <3>  QED BY <2>2, <3>2
  <2>4. ~failed
    BY <1>1, <1>13 DEF Held
  <2>5. CASE end.lines[i].by \in DOMAIN d.hypotheses
    <3>1. end.lines[i].by \in a.active
      BY <1>1, <1>6, <1>7, <2>2, <2>4, <2>5
    <3>  QED BY <2>2, <2>3, <2>5, <3>1
  <2>6. CASE end.lines[i].by \notin DOMAIN d.hypotheses
    <3>1. end.lines[i] \in Range(ImportProof(d, t).lines)
      BY <1>12, <2>1 DEF Range
    <3>2. Position(d, end.lines[i].by) < Position(d, t)
      BY <2>6, <3>1, ProofsCiteEarlier
    <3>  QED BY <2>3, <2>6, <3>2
  <2>  QED BY <2>5, <2>6
<1>  QED BY <1>12, <1>14, <1>15 DEF Establishes

ProofsState == \A t \in Checked : job.proofs[t].ok => Establishes(db, t, job.proofs[t].lines)

LEMMA JobEstablishes ==
  ASSUME VariablesSorted, Init
  PROVE  ProofsState
<1>1. PICK j \in Jobs : Importable(j) /\ job = Loaded(j)
  BY DEF Init
<1> DEFINE d == Parse(j.file)
<1>2. j.file \in Seq(Statement) /\ j.limit \in Nat
  BY JobsAssumption
<1>3. d \in Databases /\ Declared(d)
  BY <1>2, FilesParse
<1>4. Sorted(d)
  BY <1>2, FilesSort DEF VariablesSorted
<1>5. Range(Theorems(d, j.limit)) \subseteq {x \in Range(d.order) : Walkable(d, x)}
  BY <1>2, <1>3, TheoremsType
<1>6. db = d /\ job.proofs = [t \in Range(Theorems(d, j.limit)) |-> ImportProof(d, t)]
  BY <1>1 DEF Loaded, db
<1>7. Range(d.order) = DOMAIN d.assertions
  BY <1>3 DEF Declared
<1> HIDE DEF d
<1>8. ASSUME NEW t \in Checked, job.proofs[t].ok
      PROVE  Establishes(db, t, job.proofs[t].lines)
  <2>1. t \in Range(Theorems(d, j.limit)) /\ job.proofs[t] = ImportProof(d, t)
    BY <1>6 DEF Checked
  <2>2. t \in DOMAIN d.assertions /\ IsLogical(d, t)
    BY <1>5, <1>7, <2>1 DEF Walkable
  <2>  QED BY <1>3, <1>4, <1>6, <1>8, <2>1, <2>2, ProofsEstablish
<1>  QED BY <1>8 DEF ProofsState

LEMMA StateKept ==
  ASSUME ProofsState, [Next]_vars
  PROVE  ProofsState'
<1>1. job' = job
  BY DEF Next, Progress, Mishap, Begin, SkipSyntax, CheckUnread, CheckLost, CheckTheorem, StoreProof,
         Promote, PromoteUnstored, Drop, Finish, CallerCommits, Crash, Verify, vars
<1>2. Checked' = Checked /\ db' = db
  BY <1>1 DEF Checked, db
<1>  QED BY <1>1, <1>2, Zenon DEF ProofsState

LEMMA StateGives == ProofsState => LinesReachStatement
BY Zenon DEF ProofsState, Establishes, LinesReachStatement

\* The lines a compressed proof becomes establish its theorem, for any files whose
\* variables are of sorts (import_proof: "a green import has to mean the declared
\* statement was derived"): the last states it, each cites lines above it, an
\* essential hypothesis is stated once, and what a line is by is in scope or of an
\* earlier assertion.
THEOREM LinesAlwaysReach ==
  ASSUME VariablesSorted
  PROVE  Spec => []LinesReachStatement
<1>1. Init => ProofsState
  BY JobEstablishes
<1>2. ProofsState /\ [Next]_vars => ProofsState'
  BY StateKept
<1>3. ProofsState => LinesReachStatement
  BY StateGives
<1>  QED BY <1>1, <1>2, <1>3, PTL DEF Spec
-----------------------------------------------------------------------------
(* The layers an import stores.                                            *)

\* The sections a file opens, in its order.
Outlined(d) ==
    \A i \in 1..Len(d.outline) :
        d.outline[i].at <= Len(d.order) /\ \A j \in 1..i : d.outline[j].at <= d.outline[i].at
ReadOutlines(ctx, n, d) == Parsed(d) /\ Outlined(d)
Outlining == INSTANCE FoldProofs WITH Op <- ReadStep, Keeps <- ReadOutlines

LEMMA OutlinedKept ==
  ASSUME NEW d \in Databases, Outlined(d), NEW e, e.outline = d.outline,
         Len(e.order) \in {Len(d.order), Len(d.order) + 1}
  PROVE  Outlined(e)
<1> DEFINE n == Len(d.order)
           k == Len(e.order)
           o == d.outline
<1>1. n \in Nat /\ o \in Seq(Sections)
  BY DatabaseType
<1>2. \A i \in 1..Len(o) : o[i].at \in Nat
  <2>1. \A i \in 1..Len(o) : o[i] \in Sections
    BY <1>1
  <2> HIDE DEF o
  <2>  QED BY <2>1 DEF Sections
<1>3. \A i \in 1..Len(o) : o[i].at <= n /\ \A j \in 1..i : o[j].at <= o[i].at
  BY DEF Outlined
<1>4. k \in {n, n + 1}
  OBVIOUS
<1> HIDE DEF n, k, o
<1>5. \A i \in 1..Len(o) : o[i].at <= k
  BY <1>1, <1>2, <1>3, <1>4
<1>  QED BY <1>3, <1>5 DEF Outlined, k, o

LEMMA OutlinesHeader ==
  ASSUME NEW d \in Databases, Outlined(d), NEW x, x \in Sections, x.at = Len(d.order),
         NEW e, e.outline = Append(d.outline, x), e.order = d.order
  PROVE  Outlined(e)
<1> DEFINE n == Len(d.order)
           o == d.outline
           k == Len(o)
           r == Append(o, x)
<1>1. n \in Nat /\ o \in Seq(Sections) /\ k \in Nat
  BY DatabaseType
<1>2. \A i \in 1..k : o[i].at \in Nat /\ o[i].at <= n /\ \A j \in 1..i : o[j].at <= o[i].at
  <2>1. \A i \in 1..k : o[i] \in Sections
    BY <1>1
  <2>2. \A i \in 1..k : o[i].at <= n /\ \A j \in 1..i : o[j].at <= o[i].at
    BY DEF Outlined
  <2>3. \A i \in 1..k : o[i].at \in Nat
    <3> HIDE DEF o, k
    <3>  QED BY <2>1 DEF Sections
  <2>  QED BY <2>2, <2>3
<1>3. Len(r) = k + 1 /\ \A i \in 1..(k + 1) : r[i] = IF i = k + 1 THEN x ELSE o[i]
  BY <1>1
<1>4. x.at = n
  OBVIOUS
<1> HIDE DEF n, o, k, r
<1>5. ASSUME NEW i \in 1..(k + 1)
      PROVE  r[i].at <= n /\ \A j \in 1..i : r[j].at <= r[i].at
  <2>1. CASE i = k + 1
    <3>1. r[i].at = n
      BY <1>3, <1>4, <2>1
    <3>2. ASSUME NEW j \in 1..i PROVE r[j].at <= n
      <4>1. CASE j = k + 1
        BY <1>1, <2>1, <3>1, <4>1
      <4>2. CASE j # k + 1
        <5>1. j \in 1..k /\ r[j] = o[j]
          BY <1>1, <1>3, <2>1, <4>2
        <5>  QED BY <1>2, <5>1
      <4>  QED BY <4>1, <4>2
    <3>  QED BY <1>1, <3>1, <3>2
  <2>2. CASE i # k + 1
    <3>1. i \in 1..k /\ r[i] = o[i] /\ \A j \in 1..i : r[j] = o[j]
      BY <1>1, <1>3, <2>2
    <3>  QED BY <1>2, <3>1
  <2>  QED BY <2>1, <2>2
<1>6. Len(e.outline) = k + 1 /\ e.outline = r /\ Len(e.order) = n
  BY <1>3 DEF n, o, k, r
<1>  QED BY <1>5, <1>6 DEF Outlined

LEMMA ReadOutlined ==
  ASSUME NEW d, Parsed(d), Outlined(d), NEW s \in Statement
  PROVE  Outlined(Read(d, s))
<1>1. d \in Databases /\ Declared(d) /\ d.error \in BOOLEAN
  BY DatabaseType DEF Parsed
<1>2. CASE d.error
  BY <1>2 DEF Read
<1>3. ASSUME NEW S PROVE Outlined([d EXCEPT !.scopes = S])
  BY <1>1, OutlinedKept DEF Databases
<1>4. Outlined([d EXCEPT !.error = TRUE])
  BY <1>1, OutlinedKept DEF Databases
<1>5. CASE ~d.error /\ s.kind \in {"${", "$}", "$d"}
  BY <1>3, <1>4, <1>5 DEF Read
<1>6. CASE ~d.error /\ s.kind = "header"
  <2> DEFINE x == [level |-> s.level, title |-> s.title, at |-> Len(d.order)]
             e == [d EXCEPT !.outline = Append(d.outline, x)]
  <2>1. Read(d, s) = e
    BY <1>6 DEF Read
  <2>2. x \in Sections /\ x.at = Len(d.order)
    <3>1. Len(d.order) \in Nat
      BY <1>1, DeclaredFacts
    <3>2. s.level \in Nat /\ s.title \in STRING
      BY <1>6, StatementType
    <3>  QED BY <3>1, <3>2 DEF Sections
  <2> HIDE DEF x
  <2>3. e.outline = Append(d.outline, x) /\ e.order = d.order
    BY <1>1 DEF Databases
  <2> HIDE DEF e
  <2>4. Outlined(e)
    BY <1>1, <2>2, <2>3, OutlinesHeader
  <2>  QED BY <2>1, <2>4
<1>7. CASE ~d.error /\ s.kind \in {"$f", "$e"}
  <2>1. PICK H, S : ReadHypothesis(d, s) = [d EXCEPT !.hypotheses = H, !.scopes = S]
    BY DEF ReadHypothesis
  <2>2. Outlined([d EXCEPT !.hypotheses = H, !.scopes = S])
    BY <1>1, OutlinedKept DEF Databases
  <2>  QED BY <1>4, <1>7, <2>1, <2>2 DEF Read
<1>8. CASE ~d.error /\ s.kind \in {"$a", "$p"}
  <2>1. PICK A : ReadAssertion(d, s) = [d EXCEPT !.assertions = A, !.order = Append(d.order, s.label)]
    BY DEF ReadAssertion
  <2> DEFINE e == [d EXCEPT !.assertions = A, !.order = Append(d.order, s.label)]
  <2>2. d.order \in Seq(STRING) /\ s.label \in STRING
    BY <1>1, <1>8, DatabaseType, StatementType
  <2>3. Len(Append(d.order, s.label)) = Len(d.order) + 1
    BY <2>2
  <2>4. e.outline = d.outline /\ e.order = Append(d.order, s.label)
    BY <1>1 DEF Databases
  <2> HIDE DEF e
  <2>5. Outlined(e)
    BY <1>1, <2>3, <2>4, OutlinedKept
  <2>  QED BY <1>4, <1>8, <2>1, <2>5 DEF Read, e
<1>  QED BY <1>1, <1>2, <1>5, <1>6, <1>7, <1>8, StatementType

LEMMA FilesOutline ==
  ASSUME NEW file \in Seq(Statement)
  PROVE  Outlined(Parse(file))
<1> DEFINE d == FoldLeft(Read, Empty, file)
<1>1. d = Outlining!Fold(0, Empty, file)
  BY DEF ReadStep, FoldLeft, MapThenFoldSet, Outlining!Fold, Outlining!Iterates, Max, Outlining!Max
<1>2. ASSUME NEW a, NEW i \in 1..Len(file), ReadOutlines(0, i - 1, a)
      PROVE  ReadOutlines(0, i, ReadStep(0, a, file[i]))
  <2>1. file[i] \in Statement
    OBVIOUS
  <2>  QED BY <1>2, <2>1, ReadParses, ReadOutlined DEF ReadStep, ReadOutlines
<1>3. DOMAIN file = 1..Len(file) /\ Len(file) \in Nat
  OBVIOUS
<1>4. ReadOutlines(0, 0, Empty)
  <2>1. Len(Empty.outline) = 0
    BY DEF Empty
  <2>  QED BY <2>1, EmptyParsed DEF ReadOutlines, Outlined
<1>5. ReadOutlines(0, Len(file), Outlining!Fold(0, Empty, file))
  <2> HIDE DEF ReadOutlines, ReadStep
  <2>  QED BY <1>2, <1>3, <1>4, Outlining!FoldKeeps
<1>6. d \in Databases /\ Outlined(d)
  BY <1>1, <1>5 DEF ReadOutlines, Parsed
<1>7. Parse(file) = [d EXCEPT !.error = @ \/ Len(d.scopes) # 1]
  BY DEF Parse
<1> HIDE DEF d
<1>8. Parse(file).outline = d.outline /\ Parse(file).order = d.order
  BY <1>6, <1>7 DEF Databases
<1>  QED BY <1>6, <1>8, OutlinedKept

\* What is kept of the first numbers is kept in their order.
NumbersStep(c, kept, x) == IF x \in c.set THEN Append(kept, x) ELSE kept
Ascends(s) == \A i \in 1..Len(s) : \A j \in 1..(i - 1) : s[j] < s[i]
NumbersKeep(c, n, kept) == kept \in Seq(1..n) /\ Ascends(kept)
Counting == INSTANCE FoldProofs WITH Op <- NumbersStep, Keeps <- NumbersKeep

LEMMA NumbersAscend ==
  ASSUME NEW n \in Nat, NEW set
  PROVE  Ascends(Filter([i \in 1..n |-> i], set))
<1> DEFINE s == [i \in 1..n |-> i]
           c == [set |-> set]
           f == Filter(s, set)
<1>1. DOMAIN s = 1..Len(s) /\ Len(s) = n /\ \A i \in 1..n : s[i] = i
  OBVIOUS
<1>2. f = Counting!Recursion(c, << >>, s)
  BY DEF Filter, NumbersStep, Counting!Recursion, Counting!Recurs
<1> HIDE DEF s, c, f
<1>3. NumbersKeep(c, 0, << >>)
  BY DEF NumbersKeep, Ascends
<1>4. ASSUME NEW a, NEW i \in 1..n, NumbersKeep(c, i - 1, a)
      PROVE  NumbersKeep(c, i, NumbersStep(c, a, s[i]))
  <2>1. a \in Seq(1..(i - 1)) /\ Ascends(a) /\ s[i] = i
    BY <1>1, <1>4 DEF NumbersKeep
  <2> DEFINE m == Len(a)
             r == Append(a, i)
  <2>2. 1..(i - 1) \subseteq 1..i /\ i \in 1..i
    OBVIOUS
  <2>3. a \in Seq(1..i) /\ m \in Nat
    BY <2>1, <2>2
  <2>4. CASE i \notin c.set
    BY <2>1, <2>3, <2>4 DEF NumbersStep, NumbersKeep
  <2>5. CASE i \in c.set
    <3>1. r \in Seq(1..i) /\ Len(r) = m + 1 /\ \A k \in 1..(m + 1) : r[k] = IF k = m + 1 THEN i ELSE a[k]
      BY <2>2, <2>3
    <3>2. \A k \in 1..m : a[k] < i
      <4>1. \A k \in 1..m : a[k] \in 1..(i - 1)
        BY <2>1
      <4>  QED BY <4>1
    <3>3. \A k \in 1..m : \A j \in 1..(k - 1) : a[j] < a[k]
      BY <2>1 DEF Ascends
    <3>4. NumbersStep(c, a, s[i]) = r
      BY <2>1, <2>5 DEF NumbersStep
    <3> HIDE DEF r, m
    <3>5. ASSUME NEW k \in 1..(m + 1), NEW j \in 1..(k - 1) PROVE r[j] < r[k]
      <4>1. j \in 1..m /\ r[j] = a[j]
        BY <2>3, <3>1
      <4>2. CASE k = m + 1
        BY <3>1, <3>2, <4>1, <4>2
      <4>3. CASE k # m + 1
        <5>1. k \in 1..m /\ r[k] = a[k]
          BY <2>3, <3>1, <4>3
        <5>  QED BY <3>3, <4>1, <5>1
      <4>  QED BY <4>2, <4>3
    <3>  QED BY <3>1, <3>4, <3>5 DEF NumbersKeep, Ascends
  <2>  QED BY <2>4, <2>5
<1>5. NumbersKeep(c, n, f)
  <2> HIDE DEF NumbersKeep, NumbersStep
  <2>  QED BY <1>1, <1>2, <1>3, <1>4, Counting!RecursionKeeps
<1>  QED BY <1>5 DEF NumbersKeep, f, s

\* The layers of a plan whose sections are in the file's order open in it too.
LEMMA OpensAscend ==
  ASSUME NEW d \in Databases, Outlined(d), NEW S, NEW plan \in Seq(S), ~OutOfOrder(d, plan)
  PROVE  LET o == Opens(d, plan) IN
         \A i \in 1..Len(o) : \A j \in 1..i : o[j].at <= o[i].at
<1> DEFINE sections(l) == {i \in 1..Len(d.outline) : d.outline[i].title = l.title}
           first(l) == CHOOSE i \in sections(l) : \A j \in sections(l) : i <= j
           P == {l \in Range(plan) : sections(l) # {}}
           opened == Filter(plan, P)
           o == Opens(d, plan)
<1>1. opened \in Seq(P)
  <2> HIDE DEF P
  <2>  QED BY FilterType
<1>2. ASSUME NEW l \in P PROVE first(l) \in 1..Len(d.outline)
  <2>1. sections(l) # {} /\ sections(l) \in SUBSET Nat
    OBVIOUS
  <2>2. first(l) \in sections(l)
    <3> HIDE DEF sections
    <3>  QED BY <2>1, LeastOf
  <2>  QED BY <2>2
<1>3. o = [i \in 1..Len(opened) |->
             [name |-> opened[i].name, index |-> first(opened[i]),
              at |-> d.outline[first(opened[i])].at]]
  BY DEF Opens
<1> HIDE DEF opened, P, first
<1>4. Len(opened) \in Nat /\ \A i \in 1..Len(opened) : opened[i] \in P
  BY <1>1
<1>5. Len(o) = Len(opened)
      /\ \A i \in 1..Len(opened) : /\ o[i].index \in 1..Len(d.outline)
                                   /\ o[i].at = d.outline[o[i].index].at
  BY <1>2, <1>3, <1>4
<1>6. \A i, j \in 1..Len(o) : ~(i < j /\ o[i].index > o[j].index)
  BY DEF OutOfOrder
<1>7. d.outline \in Seq(Sections) /\ Len(d.outline) \in Nat
  BY DatabaseType
<1>8. \A i \in 1..Len(d.outline) : \A j \in 1..i : d.outline[j].at <= d.outline[i].at
  BY DEF Outlined
<1> HIDE DEF o
<1> SUFFICES ASSUME NEW i \in 1..Len(o), NEW j \in 1..i PROVE o[j].at <= o[i].at
  BY DEF o
<1>9. j \in 1..Len(o) /\ i \in 1..Len(o)
  BY <1>4, <1>5
<1>10. o[j].index \in 1..o[i].index
  <2>1. o[j].index \in 1..Len(d.outline) /\ o[i].index \in 1..Len(d.outline)
    BY <1>5, <1>9
  <2>2. CASE i = j
    BY <1>7, <2>1, <2>2
  <2>3. CASE i # j
    <3>1. j < i
      BY <1>4, <1>5, <2>3
    <3>2. ~(o[j].index > o[i].index)
      BY <1>6, <1>9, <3>1
    <3>  QED BY <1>7, <2>1, <3>2
  <2>  QED BY <2>2, <2>3
<1>  QED BY <1>5, <1>8, <1>9, <1>10

\* The layers that hold something open one after the other, within the walk, and
\* each stops where the next one opens.
LEMMA BoundsAscend ==
  ASSUME NEW d \in Databases, Outlined(d), NEW S, NEW plan \in Seq(S), ~OutOfOrder(d, plan),
         NEW last, Position(d, last) \in Nat
  PROVE  LET b == Boundaries(d, plan, last) IN
         /\ Len(b) \in Nat /\ b = [i \in 1..Len(b) |-> b[i]]
         /\ \A i \in 1..Len(b) :
              /\ b[i].at \in 0..Position(d, last)
              /\ b[i].stop = IF i = Len(b) THEN last ELSE Label(d, b[i + 1].at)
              /\ \A j \in 1..(i - 1) : b[j].at < b[i].at
<1> DEFINE o == Opens(d, plan)
           p == Position(d, last)
           kept == {i \in 1..Len(o) : /\ o[i].at <= p
                                      /\ i < Len(o) => o[i + 1].at # o[i].at}
           numbers == [i \in 1..Len(o) |-> i]
           w == Filter(numbers, kept)
           b == Boundaries(d, plan, last)
<1>1. Len(o) \in Nat /\ \A i \in 1..Len(o) : o[i].at \in Nat
  BY OpensType
<1>2. \A i \in 1..Len(o) : \A j \in 1..i : o[j].at <= o[i].at
  BY OpensAscend
<1>3. b = [i \in 1..Len(w) |->
             [name |-> o[w[i]].name, at |-> o[w[i]].at,
              stop |-> IF i = Len(w) THEN last ELSE Label(d, o[w[i + 1]].at)]]
  BY DEF Boundaries
<1>4. Ascends(w)
  <2> DEFINE N == Len(o)
  <2> HIDE DEF kept, N
  <2>  QED BY <1>1, NumbersAscend DEF N
<1>5. \A i \in kept : i \in 1..Len(o) /\ o[i].at <= p /\ (i < Len(o) => o[i + 1].at # o[i].at)
  OBVIOUS
<1> HIDE DEF o, kept, p
<1>6. w \in Seq(kept)
  <2>1. numbers \in Seq(1..Len(o))
    BY <1>1
  <2> HIDE DEF numbers
  <2>  QED BY <2>1, FilterType
<1> HIDE DEF w
<1>7. Len(w) \in Nat /\ \A i \in 1..Len(w) : w[i] \in kept
  BY <1>6
<1>8. ASSUME NEW i \in kept, NEW j \in kept, j < i PROVE o[j].at < o[i].at
  <2>1. j \in 1..Len(o) /\ j < Len(o) /\ i \in 1..Len(o) /\ j + 1 \in 1..i /\ j \in 1..(j + 1)
        /\ j + 1 \in 1..Len(o)
    BY <1>1, <1>5, <1>8
  <2>2. o[j + 1].at # o[j].at
    BY <1>5, <2>1
  <2>3. o[j].at <= o[j + 1].at /\ o[j + 1].at <= o[i].at
    BY <1>2, <2>1
  <2>4. o[j].at \in Nat /\ o[j + 1].at \in Nat /\ o[i].at \in Nat
    BY <1>1, <2>1
  <2>  QED BY <2>2, <2>3, <2>4
<1>9. Len(b) = Len(w)
      /\ \A i \in 1..Len(w) : /\ b[i].at = o[w[i]].at
                              /\ b[i].stop = IF i = Len(w) THEN last ELSE Label(d, o[w[i + 1]].at)
  BY <1>3, <1>7
<1>14. b = [i \in 1..Len(b) |-> b[i]]
  <2>1. DOMAIN b = 1..Len(w) /\ b = [i \in DOMAIN b |-> b[i]]
    BY <1>3
  <2>  QED BY <1>9, <2>1
<1> HIDE DEF b
<1> SUFFICES ASSUME NEW i \in 1..Len(b)
             PROVE  /\ b[i].at \in 0..p
                    /\ b[i].stop = IF i = Len(b) THEN last ELSE Label(d, b[i + 1].at)
                    /\ \A j \in 1..(i - 1) : b[j].at < b[i].at
  BY <1>7, <1>9, <1>14 DEF b, p
<1>10. w[i] \in kept /\ b[i].at = o[w[i]].at
  BY <1>7, <1>9
<1>11. b[i].at \in 0..p
  <2>1. o[w[i]].at \in Nat /\ o[w[i]].at <= p /\ p \in Nat
    BY <1>1, <1>5, <1>10 DEF p
  <2>  QED BY <1>10, <2>1
<1>12. b[i].stop = IF i = Len(b) THEN last ELSE Label(d, b[i + 1].at)
  <2>1. CASE i = Len(b)
    BY <1>9, <2>1
  <2>2. CASE i # Len(b)
    <3>1. i + 1 \in 1..Len(w)
      BY <1>7, <1>9, <2>2
    <3>2. b[i + 1].at = o[w[i + 1]].at
      BY <1>9, <3>1
    <3>  QED BY <1>9, <2>2, <3>2
  <2>  QED BY <2>1, <2>2
<1>13. ASSUME NEW j \in 1..(i - 1) PROVE b[j].at < b[i].at
  <2>1. j \in 1..Len(w) /\ i \in 1..Len(w)
    BY <1>7, <1>9
  <2>2. w[j] < w[i] /\ w[j] \in kept /\ b[j].at = o[w[j]].at
    BY <1>4, <1>7, <1>9, <2>1 DEF Ascends
  <2>  QED BY <1>8, <1>10, <2>2
<1>  QED BY <1>11, <1>12, <1>13

\* What a file can declare, and where it does.
Productions(d) ==
    {Notation(d, l) : l \in {x \in Range(d.order) : IsNotation(d, x)}}
      \cup {Leaf(v[1], v[2]) : v \in Typed(d)} \cup {Inclusion(v[1]) : v \in Typed(d)}

LEMMA KindsDiffer ==
  ASSUME NEW d, NEW l, NEW s, NEW v, NEW t
  PROVE  /\ Notation(d, l) # Leaf(s, v) /\ Notation(d, l) # Inclusion(s)
         /\ Leaf(s, v) # Inclusion(t)
<1>1. /\ Notation(d, l).name = <<l>> /\ Leaf(s, v).name = <<s, "leaf", v>>
      /\ Inclusion(s).name = <<s, "var">> /\ Inclusion(t).name = <<t, "var">>
  BY DEF Notation, Leaf, Inclusion, VariableSort
<1>2. Len(<<l>>) = 1 /\ Len(<<s, "leaf", v>>) = 3 /\ Len(<<s, "var">>) = 2 /\ Len(<<t, "var">>) = 2
  OBVIOUS
<1>3. <<l>> # <<s, "leaf", v>> /\ <<l>> # <<s, "var">> /\ <<s, "leaf", v>> # <<t, "var">>
  BY <1>2
<1>  QED BY <1>1, <1>3, Zenon

LEMMA SameNotation ==
  ASSUME NEW d, NEW l, NEW r, Notation(d, l) = Notation(d, r)
  PROVE  l = r
<1>1. Notation(d, l).name = <<l>> /\ Notation(d, r).name = <<r>>
  BY DEF Notation
<1>2. <<l>> = <<r>>
  BY <1>1
<1>  QED BY <1>2

LEMMA SameLeaf ==
  ASSUME NEW s, NEW v, NEW t, NEW w, Leaf(s, v) = Leaf(t, w)
  PROVE  s = t /\ v = w
<1>1. Leaf(s, v).name = <<s, "leaf", v>> /\ Leaf(t, w).name = <<t, "leaf", w>>
  BY DEF Leaf
<1>2. <<s, "leaf", v>> = <<t, "leaf", w>>
  BY <1>1
<1>  QED BY <1>2

LEMMA SameInclusion ==
  ASSUME NEW s, NEW t, Inclusion(s) = Inclusion(t)
  PROVE  s = t
<1>1. Inclusion(s).name = <<s, "var">> /\ Inclusion(t).name = <<t, "var">>
  BY DEF Inclusion, VariableSort
<1>2. <<s, "var">> = <<t, "var">>
  BY <1>1
<1>  QED BY <1>2

LEMMA TypedPairs ==
  ASSUME NEW d, NEW v \in Typed(d), NEW w \in Typed(d), v[1] = w[1], v[2] = w[2]
  PROVE  v = w
<1>1. \A x \in Typed(d) : x = <<x[1], x[2]>>
  BY DEF Typed, TypedBy
<1>  QED BY <1>1

LEMMA NotationDeclared ==
  ASSUME NEW l \in Range(db.order), IsNotation(db, l)
  PROVE  DeclaredAt(Notation(db, l)) = Position(db, l)
<1>1. Notation(db, l).name[1] = l
  BY DEF Notation
<1>  QED BY <1>1 DEF DeclaredAt

LEMMA VariableDeclared ==
  ASSUME db \in Databases, Declared(db), NEW v \in Typed(db)
  PROVE  /\ DeclaredAt(Leaf(v[1], v[2])) = TypedFrom(db, v)
         /\ \E w \in Typed(db) : w[1] = v[1] /\ DeclaredAt(Inclusion(v[1])) = TypedFrom(db, w)
         /\ \A w \in Typed(db) : w[1] = v[1] => DeclaredAt(Inclusion(v[1])) <= TypedFrom(db, w)
<1> DEFINE N == {Notation(db, l) : l \in {y \in Range(db.order) : IsNotation(db, y)}}
           of(x) == {y \in Typed(db) : x = Leaf(y[1], y[2]) \/ x = Inclusion(y[1])}
           T(x) == {TypedFrom(db, y) : y \in of(x)}
           m(x) == CHOOSE q \in T(x) : \A y \in of(x) : q <= TypedFrom(db, y)
           L == Leaf(v[1], v[2])
           I == Inclusion(v[1])
<1>1. \A y \in Typed(db) : TypedFrom(db, y) \in Nat
  BY DeclaredFacts, DatabaseType, TypedFromType
<1>2. L \notin N /\ I \notin N
  BY KindsDiffer
<1>3. \A x : x \notin N => DeclaredAt(x) = m(x)
  BY DEF DeclaredAt
<1>4. ASSUME NEW x, v \in of(x)
      PROVE  m(x) \in T(x) /\ \A y \in of(x) : m(x) <= TypedFrom(db, y)
  <2>1. T(x) \in SUBSET Nat /\ TypedFrom(db, v) \in T(x)
    BY <1>1, <1>4
  <2>2. \E q \in T(x) : \A k \in T(x) : q <= k
    <3> DEFINE U == T(x)
    <3>1. U \in SUBSET Nat /\ U # {}
      BY <2>1
    <3> HIDE DEF U
    <3>2. \E q \in U : \A k \in U : q <= k
      BY <3>1, Filtering!Least
    <3>  QED BY <3>2 DEF U
  <2>3. \E q \in T(x) : \A y \in of(x) : q <= TypedFrom(db, y)
    BY <2>2
  <2> HIDE DEF T, of
  <2>  QED BY <2>3
<1>5. of(L) = {v}
  <2>1. ASSUME NEW y \in of(L) PROVE y = v
    <3>1. y \in Typed(db) /\ L = Leaf(y[1], y[2])
      BY KindsDiffer
    <3>2. v[1] = y[1] /\ v[2] = y[2]
      BY <3>1, SameLeaf
    <3>  QED BY <3>1, <3>2, TypedPairs
  <2>  QED BY <2>1
<1>6. of(I) = {y \in Typed(db) : y[1] = v[1]}
  <2>1. ASSUME NEW y \in of(I) PROVE y[1] = v[1]
    <3>1. I = Inclusion(y[1])
      BY KindsDiffer
    <3>  QED BY <3>1, SameInclusion
  <2>2. ASSUME NEW y \in Typed(db), y[1] = v[1] PROVE y \in of(I)
    BY <2>2
  <2>  QED BY <2>1, <2>2
<1> HIDE DEF N, L, I, m
<1>7. DeclaredAt(L) = TypedFrom(db, v)
  <2>1. v \in of(L) /\ T(L) = {TypedFrom(db, v)}
    BY <1>5
  <2> HIDE DEF T, of
  <2>  QED BY <1>2, <1>3, <1>4, <2>1
<1>8. v \in of(I)
  BY <1>6
<1>9. DeclaredAt(I) = m(I) /\ m(I) \in T(I) /\ \A y \in of(I) : m(I) <= TypedFrom(db, y)
  <2> HIDE DEF T, of
  <2>  QED BY <1>2, <1>3, <1>4, <1>8
<1>10. \E w \in Typed(db) : w[1] = v[1] /\ DeclaredAt(I) = TypedFrom(db, w)
  <2>1. PICK w \in of(I) : DeclaredAt(I) = TypedFrom(db, w)
    BY <1>9
  <2> HIDE DEF of
  <2>  QED BY <1>6, <2>1
<1>11. \A w \in Typed(db) : w[1] = v[1] => DeclaredAt(I) <= TypedFrom(db, w)
  <2> HIDE DEF T, of
  <2>  QED BY <1>6, <1>9
<1>  QED BY <1>7, <1>10, <1>11 DEF L, I

\* What a system built up to a label declares.
LEMMA SpecIs ==
  ASSUME NEW d \in Databases, Declared(d), NEW name, NEW stop, NEW scope,
         Position(d, stop) \in 0..Len(d.order)
  PROVE  BuildSpec(d, name, stop, scope).productions =
           {Notation(d, l) : l \in {x \in Range(d.order) : IsNotation(d, x) /\ Position(d, x) < Position(d, stop)}}
             \cup {Leaf(v[1], v[2]) : v \in {y \in Typed(d) : TypedFrom(d, y) <= Position(d, scope)}}
             \cup {Inclusion(v[1]) : v \in {y \in Typed(d) : TypedFrom(d, y) <= Position(d, scope)}}
<1>1. Range(SyntaxBefore(d, stop)) =
        {x \in Range(d.order) : IsNotation(d, x) /\ Position(d, x) < Position(d, stop)}
  BY SyntaxIs
<1>  QED BY <1>1 DEF BuildSpec, VariableProductions, DeclaredVariables

\* It is what the file declares before its notation and its variables stop, when
\* these stop together.
LEMMA SpecCuts ==
  ASSUME db \in Databases, Declared(db), NEW name, NEW stop, NEW scope, NEW n \in 1..Len(db.order),
         Position(db, stop) = n, Position(db, scope) = n - 1, NEW x \in Productions(db)
  PROVE  x \in BuildSpec(db, name, stop, scope).productions <=> DeclaredAt(x) < n
<1> DEFINE B == BuildSpec(db, name, stop, scope).productions
           N == {l \in Range(db.order) : IsNotation(db, l) /\ Position(db, l) < n}
           V == {v \in Typed(db) : TypedFrom(db, v) <= n - 1}
<1>1. Len(db.order) \in Nat /\ n \in Nat
  BY DatabaseType
<1>2. B = {Notation(db, l) : l \in N} \cup {Leaf(v[1], v[2]) : v \in V} \cup {Inclusion(v[1]) : v \in V}
  <2>1. n \in 0..Len(db.order)
    BY <1>1
  <2>  QED BY <2>1, SpecIs
<1>3. \A v \in Typed(db) : TypedFrom(db, v) \in Nat
  BY DeclaredFacts, DatabaseType, TypedFromType
<1>4. \A v \in Typed(db) : v \in V <=> TypedFrom(db, v) < n
  BY <1>1, <1>3
<1>5. \A l \in Range(db.order) : IsNotation(db, l) => (l \in N <=> Position(db, l) < n)
  OBVIOUS
<1>6. N \subseteq {l \in Range(db.order) : IsNotation(db, l)} /\ V \subseteq Typed(db)
  OBVIOUS
<1> HIDE DEF N, V, B
<1>7. ASSUME NEW l \in Range(db.order), IsNotation(db, l), x = Notation(db, l)
      PROVE  x \in B <=> DeclaredAt(x) < n
  <2>1. ASSUME x \in B PROVE l \in N
    <3>1. PICK r \in N : x = Notation(db, r)
      BY <1>2, <1>7, <2>1, KindsDiffer
    <3>2. Notation(db, l) = Notation(db, r)
      BY <1>7, <3>1
    <3>  QED BY <3>1, <3>2, SameNotation
  <2>2. l \in N => x \in B
    BY <1>2, <1>7
  <2>  QED BY <1>5, <1>7, <2>1, <2>2, NotationDeclared
<1>8. ASSUME NEW v \in Typed(db), x = Leaf(v[1], v[2])
      PROVE  x \in B <=> DeclaredAt(x) < n
  <2>1. ASSUME x \in B PROVE v \in V
    <3>0. Leaf(v[1], v[2]) \notin {Notation(db, l) : l \in N} \cup {Inclusion(w[1]) : w \in V}
      BY KindsDiffer
    <3>1. PICK w \in V : Leaf(v[1], v[2]) = Leaf(w[1], w[2])
      BY <1>2, <1>8, <2>1, <3>0
    <3>2. v[1] = w[1] /\ v[2] = w[2]
      BY <3>1, SameLeaf
    <3>  QED BY <1>6, <3>2, TypedPairs
  <2>2. v \in V => x \in B
    BY <1>2, <1>8
  <2>  QED BY <1>4, <1>8, <2>1, <2>2, VariableDeclared
<1>9. ASSUME NEW v \in Typed(db), x = Inclusion(v[1])
      PROVE  x \in B <=> DeclaredAt(x) < n
  <2>1. PICK u \in Typed(db) : u[1] = v[1] /\ DeclaredAt(x) = TypedFrom(db, u)
    BY <1>9, VariableDeclared
  <2>2. ASSUME x \in B PROVE DeclaredAt(x) < n
    <3>0. Inclusion(v[1]) \notin {Notation(db, l) : l \in N} \cup {Leaf(w[1], w[2]) : w \in V}
      BY KindsDiffer
    <3>1. PICK w \in V : Inclusion(v[1]) = Inclusion(w[1])
      BY <1>2, <1>9, <2>2, <3>0
    <3>2. w \in Typed(db) /\ w[1] = v[1]
      BY <1>6, <3>1, SameInclusion
    <3>3. DeclaredAt(x) <= TypedFrom(db, w)
      BY <1>9, <3>2, VariableDeclared
    <3>4. TypedFrom(db, w) < n /\ TypedFrom(db, w) \in Nat /\ DeclaredAt(x) \in Nat
      BY <1>3, <1>4, <2>1, <3>1, <3>2
    <3>  QED BY <1>1, <3>3, <3>4
  <2>3. ASSUME DeclaredAt(x) < n PROVE x \in B
    <3>1. u \in V
      BY <1>4, <2>1, <2>3
    <3>2. x = Inclusion(u[1])
      BY <1>9, <2>1
    <3>  QED BY <1>2, <3>1, <3>2
  <2>  QED BY <2>2, <2>3
<1>  QED BY <1>7, <1>8, <1>9 DEF Productions, B

\* A system declares nothing that the file does not.
LEMMA SpecDeclares ==
  ASSUME db \in Databases, Declared(db), NEW name, NEW stop, NEW scope,
         Position(db, stop) \in 0..Len(db.order),
         NEW x \in BuildSpec(db, name, stop, scope).productions
  PROVE  x \in Productions(db) /\ DeclaredAt(x) \in Nat
<1>1. x \in Productions(db)
  BY SpecIs DEF Productions
<1>2. \A v \in Typed(db) : TypedFrom(db, v) \in Nat
  BY DeclaredFacts, DatabaseType, TypedFromType
<1>3. CASE \E l \in Range(db.order) : IsNotation(db, l) /\ x = Notation(db, l)
  <2>1. PICK l \in Range(db.order) : IsNotation(db, l) /\ x = Notation(db, l)
    BY <1>3
  <2>2. Position(db, l) \in 0..(Len(db.order) - 1)
    BY PositionType
  <2>3. Len(db.order) \in Nat
    BY DatabaseType
  <2>  QED BY <1>1, <2>1, <2>2, <2>3, NotationDeclared
<1>4. CASE \E v \in Typed(db) : x = Leaf(v[1], v[2]) \/ x = Inclusion(v[1])
  BY <1>1, <1>2, <1>4, VariableDeclared
<1>  QED BY <1>1, <1>3, <1>4 DEF Productions

\* A position is in the last layer that opens at or before it.
LEMMA LayerIs ==
  ASSUME NEW o, Len(o) \in Nat \ {0}, \A i \in 1..Len(o) : o[i] \in Nat, Ascends(o),
         NEW p \in Nat, NEW i \in 1..Len(o), i # 1 => o[i] <= p, i # Len(o) => p < o[i + 1]
  PROVE  LayerOf(o, p) = i
<1> DEFINE past == {k \in 1..Len(o) : o[k] <= p}
           n == Len(o)
<1>1. n \in Nat /\ i \in 1..n
  OBVIOUS
<1>2. ASSUME NEW k \in 1..n, k > i PROVE k \notin past
  <2>1. i # n /\ i + 1 \in 1..n /\ p < o[i + 1]
    BY <1>1, <1>2
  <2>2. o[i + 1] <= o[k]
    <3>1. CASE k = i + 1
      BY <2>1, <3>1
    <3>2. CASE k # i + 1
      <4>1. i + 1 \in 1..(k - 1)
        BY <1>1, <1>2, <3>2
      <4>2. o[i + 1] < o[k]
        BY <4>1 DEF Ascends
      <4>  QED BY <2>1, <4>2
    <3>  QED BY <3>1, <3>2
  <2>  QED BY <2>1, <2>2
<1>3. \A k \in past : k \in 1..n /\ k <= i
  <2>1. \A k \in past : k \in 1..n
    OBVIOUS
  <2> HIDE DEF past
  <2>  QED BY <1>1, <1>2, <2>1
<1>4. i # 1 => i \in past
  BY <1>1
<1>5. LayerOf(o, p) = IF past = {} THEN 1 ELSE CHOOSE k \in past : \A j \in past : j <= k
  BY DEF LayerOf
<1> HIDE DEF past, n
<1>6. CASE past = {}
  BY <1>4, <1>5, <1>6
<1>7. CASE past # {}
  <2>1. i \in past
    <3>1. CASE i = 1
      <4>1. PICK k \in past : TRUE
        BY <1>7
      <4>2. k = i
        BY <1>3, <3>1, <4>1
      <4>  QED BY <4>1, <4>2
    <3>  QED BY <1>4, <3>1
  <2>2. \A k \in past : (\A j \in past : j <= k) <=> k = i
    <3>1. ASSUME NEW k \in past, \A j \in past : j <= k PROVE k = i
      BY <1>1, <1>3, <2>1, <3>1
    <3>  QED BY <1>3, <3>1
  <2>  QED BY <1>5, <1>7, <2>1, <2>2
<1>  QED BY <1>6, <1>7

\* What is read off a file for its layers.
LayersTyped ==
    /\ db \in Databases /\ Declared(db) /\ Outlined(db)
    /\ \E S : job.plan \in Seq(S)
    /\ ~OutOfOrder(db, job.plan)
    /\ horizon \in Range(db.order)
    /\ opens = CorpusLayers(db, job.plan, horizon)

\* A system that stops before the next layer opens declares what the file does
\* before it does.
LEMMA LayerCuts ==
  ASSUME db \in Databases, Declared(db), horizon \in Range(db.order),
         NEW n \in 1..(reach - 1), NEW x \in Productions(db), NEW name
  PROVE  LET stop == Label(db, n)
         IN  /\ Position(db, stop) = n
             /\ x \in BuildSpec(db, name, stop, VariableScope(db, stop, horizon)).productions
                  <=> DeclaredAt(x) < n
<1> DEFINE stop == Label(db, n)
           scope == VariableScope(db, stop, horizon)
<1>1. reach \in 0..(Len(db.order) - 1) /\ Len(db.order) \in Nat
  BY PositionType, DatabaseType DEF reach
<1>2. \A k \in 0..(Len(db.order) - 1) : Position(db, Label(db, k)) = k
  <2> TAKE k \in 0..(Len(db.order) - 1)
  <2>1. k + 1 \in 1..Len(db.order) /\ (k + 1) - 1 = k
    BY <1>1
  <2>2. Position(db, db.order[k + 1]) = (k + 1) - 1
    BY <2>1, PositionType
  <2>  QED BY <2>1, <2>2 DEF Label
<1>3. n \in 0..(Len(db.order) - 1) /\ n - 1 \in 0..(Len(db.order) - 1) /\ n # reach /\ n # 0
      /\ n \in 1..Len(db.order)
  BY <1>1
<1>4. Position(db, stop) = n
  BY <1>2, <1>3
<1>5. stop # horizon
  BY <1>3, <1>4 DEF reach
<1>6. scope = Label(db, n - 1)
  BY <1>3, <1>4, <1>5 DEF VariableScope
<1>7. Position(db, scope) = n - 1
  BY <1>2, <1>3, <1>6
<1> HIDE DEF stop, scope
<1>8. x \in BuildSpec(db, name, stop, scope).productions <=> DeclaredAt(x) < n
  BY <1>3, <1>4, <1>7, SpecCuts
<1>  QED BY <1>4, <1>8 DEF stop, scope

\* A layer declares what its own part of the file does, when none opens at the
\* last theorem walked.
LEMMA LayersDeclare ==
  ASSUME LayersTyped, Last(opens) # reach
  PROVE  LayersKeepTheirOwn
<1> DEFINE b == Boundaries(db, job.plan, horizon)
           m == Len(b)
           W(i) == BuildSpec(db, b[i].name, b[i].stop, VariableScope(db, b[i].stop, horizon))
           seen(i) == UNION {W(j).productions : j \in 1..(i - 1)}
<1>1. db \in Databases /\ Declared(db) /\ horizon \in Range(db.order)
      /\ opens = CorpusLayers(db, job.plan, horizon)
  BY DEF LayersTyped
<1>2. reach \in 0..(Len(db.order) - 1) /\ Len(db.order) \in Nat /\ reach \in 0..Len(db.order)
  <2>1. reach \in 0..(Len(db.order) - 1) /\ Len(db.order) \in Nat
    BY <1>1, PositionType, DatabaseType DEF reach
  <2>  QED BY <2>1
<1>3. /\ m \in Nat /\ b = [i \in 1..m |-> b[i]]
      /\ \A i \in 1..m :
           /\ b[i].at \in 0..reach
           /\ b[i].stop = IF i = m THEN horizon ELSE Label(db, b[i + 1].at)
           /\ \A j \in 1..(i - 1) : b[j].at < b[i].at
  <2>1. Position(db, horizon) = reach /\ reach \in Nat
    BY <1>2 DEF reach
  <2>2. Outlined(db) /\ ~OutOfOrder(db, job.plan) /\ \E S : job.plan \in Seq(S)
    BY DEF LayersTyped
  <2>  QED BY <1>1, <2>1, <2>2, BoundsAscend
<1>4. CASE m < 2
  <2>1. opens = <<0>>
    BY <1>1, <1>4 DEF CorpusLayers
  <2>2. PICK s : Specs = <<s>>
    <3>1. b = << >> \/ m = 1
      <4> HIDE DEF b, m
      <4>1. m = 0 \/ m = 1
        BY <1>3, <1>4
      <4>2. ASSUME m = 0 PROVE b = << >>
        <5>1. 1..m = {}
          BY <4>2
        <5>2. \A f : [i \in {} |-> f[i]] = << >>
          OBVIOUS
        <5>  QED BY <1>3, <5>1, <5>2
      <4>  QED BY <4>1, <4>2
    <3>  QED BY <3>1 DEF Specs, CorpusSpecs
  <2>3. \A p : LayerOf(<<0>>, p) = 1
    <3> TAKE p
    <3> DEFINE past == {i \in 1..Len(<<0>>) : <<0>>[i] <= p}
    <3>1. past \subseteq {1}
      OBVIOUS
    <3>2. LayerOf(<<0>>, p) = IF past = {} THEN 1 ELSE CHOOSE i \in past : \A j \in past : j <= i
      BY DEF LayerOf
    <3> HIDE DEF past
    <3>3. past = {} \/ past = {1}
      BY <3>1
    <3>  QED BY <3>2, <3>3
  <2>  QED BY <2>1, <2>2, <2>3 DEF LayersKeepTheirOwn
<1>5. CASE ~(m < 2)
  <2>1. opens = [i \in 1..m |-> b[i].at]
    BY <1>1, <1>5 DEF CorpusLayers
  <2>2. b # << >> /\ m # 1
    <3> HIDE DEF b
    <3>1. m # 0 /\ m # 1
      <4> HIDE DEF m
      <4>  QED BY <1>5
    <3>2. Len(<< >>) = 0
      OBVIOUS
    <3>  QED BY <3>1, <3>2
  <2>3. \E f : Specs = [i \in 1..m |->
                  [name |-> b[i].name, productions |-> W(i).productions \ seen(i), line |-> f[i]]]
    <3> DEFINE whole == [i \in 1..m |-> W(i)]
               f == [i \in 1..m |-> IF i = 1 THEN Last(whole).line ELSE NoSort]
               seen0(i) == UNION {whole[j].productions : j \in 1..i-1}
    <3>1. Specs = [i \in 1..m |-> [name |-> b[i].name, productions |-> whole[i].productions \ seen0(i),
                                   line |-> IF i = 1 THEN Last(whole).line ELSE NoSort]]
      BY <2>2 DEF Specs, CorpusSpecs
    <3>2. \A i \in 1..m : whole[i] = W(i) /\ f[i] = IF i = 1 THEN Last(whole).line ELSE NoSort
      OBVIOUS
    <3>3. \A i \in 1..m : seen0(i) = seen(i)
      <4> HIDE DEF W, b, m, whole
      <4> TAKE i \in 1..m
      <4>1. \A j \in 1..(i - 1) : j \in 1..m
        BY <1>3
      <4>2. \A j \in 1..(i - 1) : whole[j].productions = W(j).productions
        BY <3>2, <4>1
      <4>  QED BY <4>2
    <3> HIDE DEF W, seen, seen0, whole, b
    <3>4. Specs = [i \in 1..m |->
                    [name |-> b[i].name, productions |-> W(i).productions \ seen(i), line |-> f[i]]]
      BY <3>1, <3>2, <3>3
    <3>  QED BY <3>4
  <2>4. Len(Specs) = m /\ \A i \in 1..m : Specs[i].productions = W(i).productions \ seen(i)
    <3> HIDE DEF b, W, seen
    <3>  QED BY <1>3, <2>3
  <2>5. Len(opens) = m /\ (\A i \in 1..m : opens[i] = b[i].at) /\ Last(opens) = b[m].at
    <3> HIDE DEF b
    <3>1. Len(opens) = m /\ \A i \in 1..m : opens[i] = b[i].at
      BY <1>3, <2>1
    <3>  QED BY <1>3, <1>5, <3>1 DEF Last
  <2>6. b[m].at < reach /\ b[m].at \in Nat
    <3>1. m \in 1..m /\ b[m].at # reach
      BY <1>3, <1>5, <2>5
    <3>2. b[m].at \in 0..reach
      BY <1>3, <3>1
    <3>  QED BY <1>2, <3>1, <3>2
  <2>7. ASSUME NEW i \in 2..m PROVE b[i].at \in 1..(reach - 1)
    <3>1. i \in 1..m /\ 1 \in 1..m /\ 1 \in 1..(i - 1) /\ m \in 1..m
      BY <1>3
    <3>2. b[1].at < b[i].at /\ b[1].at \in 0..reach /\ b[i].at \in 0..reach
      BY <1>3, <3>1
    <3>3. b[i].at <= b[m].at
      <4>1. CASE i = m
        BY <2>6, <4>1
      <4>2. CASE i # m
        <5>1. i \in 1..(m - 1)
          BY <1>3, <4>2
        <5>2. b[i].at < b[m].at
          BY <1>3, <3>1, <5>1
        <5>  QED BY <2>6, <3>2, <5>2
      <4>  QED BY <4>1, <4>2
    <3>  QED BY <1>2, <2>6, <3>2, <3>3
  <2> HIDE DEF b, m
  <2>8. ASSUME NEW i \in 1..(m - 1), NEW x \in Productions(db)
        PROVE  /\ Position(db, b[i].stop) = b[i + 1].at
               /\ x \in W(i).productions <=> DeclaredAt(x) < b[i + 1].at
    <3>1. i \in 1..m /\ i + 1 \in 2..m /\ i # m
      BY <1>3
    <3>2. b[i].stop = Label(db, b[i + 1].at) /\ b[i + 1].at \in 1..(reach - 1)
      BY <1>3, <2>7, <3>1
    <3>  QED BY <1>1, <3>2, LayerCuts
  <2>9. ASSUME NEW i \in 1..m, NEW x \in W(i).productions
        PROVE  x \in Productions(db) /\ DeclaredAt(x) \in Nat
    <3>1. Position(db, b[i].stop) \in 0..Len(db.order)
      <4>1. CASE i = m
        BY <1>2, <1>3, <4>1 DEF reach
      <4>2. CASE i # m
        <5>1. i \in 1..(m - 1) /\ i + 1 \in 2..m
          BY <1>3, <4>2
        <5>2. b[i + 1].at \in 1..(reach - 1)
          BY <2>7, <5>1
        <5>3. b[i].stop = Label(db, b[i + 1].at)
          BY <1>3, <4>2
        <5>4. Position(db, Label(db, b[i + 1].at)) = b[i + 1].at
          <6>1. b[i + 1].at + 1 \in 1..Len(db.order)
            BY <1>2, <5>2
          <6>2. Position(db, db.order[b[i + 1].at + 1]) = (b[i + 1].at + 1) - 1
            BY <1>1, <6>1, PositionType
          <6>  QED BY <5>2, <6>2 DEF Label
        <5>  QED BY <1>2, <5>2, <5>3, <5>4
      <4>  QED BY <4>1, <4>2
    <3>  QED BY <1>1, <3>1, SpecDeclares
  <2>10. ASSUME NEW i \in 1..m, NEW x \in W(i).productions, x \notin seen(i)
         PROVE  LayerOf(opens, DeclaredAt(x)) = i
    <3>1. x \in Productions(db) /\ DeclaredAt(x) \in Nat
      BY <2>9, <2>10
    <3>2. ASSUME i # m PROVE DeclaredAt(x) < opens[i + 1]
      <4>1. i \in 1..(m - 1) /\ i + 1 \in 1..m
        BY <1>3, <3>2
      <4>2. DeclaredAt(x) < b[i + 1].at
        BY <2>8, <2>10, <3>1, <4>1
      <4>  QED BY <2>5, <4>1, <4>2
    <3>3. ASSUME i # 1 PROVE opens[i] <= DeclaredAt(x)
      <4>1. i - 1 \in 1..(m - 1) /\ i - 1 \in 1..(i - 1) /\ (i - 1) + 1 = i /\ i \in 2..m
        BY <1>3, <3>3
      <4>2. x \notin W(i - 1).productions
        BY <2>10, <4>1
      <4>3. ~(DeclaredAt(x) < b[i].at)
        BY <2>8, <3>1, <4>1, <4>2
      <4>4. b[i].at \in 1..(reach - 1)
        BY <2>7, <4>1
      <4>  QED BY <1>2, <2>5, <3>1, <4>3, <4>4
    <3>4. Ascends(opens) /\ Len(opens) \in Nat \ {0} /\ \A k \in 1..Len(opens) : opens[k] \in Nat
      <4>0. reach \in Nat
        BY <1>2
      <4>1. ASSUME NEW k \in 1..m
            PROVE  opens[k] \in Nat /\ \A j \in 1..(k - 1) : opens[j] < opens[k]
        <5>1. opens[k] = b[k].at /\ b[k].at \in 0..reach
          BY <1>3, <2>5
        <5>2. ASSUME NEW j \in 1..(k - 1) PROVE opens[j] < opens[k]
          <6>1. j \in 1..m
            BY <1>3
          <6>2. b[j].at < b[k].at
            BY <1>3
          <6>  QED BY <2>5, <5>1, <6>1, <6>2
        <5>3. opens[k] \in Nat
          BY <4>0, <5>1
        <5>  QED BY <5>2, <5>3
      <4>2. m \in Nat \ {0}
        BY <1>3, <1>5
      <4>  QED BY <2>5, <4>1, <4>2 DEF Ascends
    <3>  QED BY <2>5, <3>1, <3>2, <3>3, <3>4, LayerIs
  <2> HIDE DEF W, seen
  <2>11. ASSUME NEW i \in 1..Len(Specs), NEW x \in Specs[i].productions
         PROVE  LayerOf(opens, DeclaredAt(x)) = i
    BY <2>4, <2>10, <2>11
  <2>  QED BY <2>11 DEF LayersKeepTheirOwn
<1>  QED BY <1>3, <1>4, <1>5

LEMMA LayersLoad == Init => LayersTyped
<1> SUFFICES ASSUME Init PROVE LayersTyped
  OBVIOUS
<1>1. PICK j \in Jobs : Importable(j) /\ job = Loaded(j)
  BY DEF Init
<1> DEFINE d == Parse(j.file)
           h == Horizon(d, j.limit)
<1>2. j.file \in Seq(Statement) /\ j.limit \in Nat /\ j.plan \in Seq([name : STRING, title : STRING])
  BY JobsAssumption
<1>3. d \in Databases /\ Declared(d) /\ Outlined(d)
  BY <1>2, FilesParse, FilesOutline
<1>4. h \in Range(d.order) /\ ~OutOfOrder(d, j.plan)
  BY <1>1, <1>2, <1>3, TheoremsType DEF Importable
<1>5. db = d /\ horizon = h /\ job.plan = j.plan /\ opens = CorpusLayers(d, j.plan, h)
  BY <1>1 DEF Loaded, db, horizon, opens
<1> HIDE DEF d, h
<1>  QED BY <1>2, <1>3, <1>4, <1>5 DEF LayersTyped

LEMMA LayersStay == LayersTyped /\ [Next]_vars => LayersTyped'
<1> SUFFICES ASSUME LayersTyped, [Next]_vars PROVE LayersTyped'
  OBVIOUS
<1>1. job' = job
  BY DEF Next, Progress, Mishap, Begin, SkipSyntax, CheckUnread, CheckLost, CheckTheorem, StoreProof,
         Promote, PromoteUnstored, Drop, Finish, CallerCommits, Crash, Verify, vars
<1>2. db' = db /\ horizon' = horizon /\ opens' = opens
  BY <1>1 DEF db, horizon, opens
<1>  QED BY <1>1, <1>2, Zenon DEF LayersTyped

\* Splitting a file into layers declares each production in the layer whose part of
\* the file declares it (corpus_specs, _variable_scope), for any file and plan,
\* unless a layer opens at the last theorem walked.
THEOREM LayersAlwaysKeep == Spec => []InnerLayersKeepTheirOwn
<1>1. LayersTyped => InnerLayersKeepTheirOwn
  BY LayersDeclare DEF InnerLayersKeepTheirOwn
<1>  QED BY <1>1, LayersLoad, LayersStay, PTL DEF Spec
=============================================================================
