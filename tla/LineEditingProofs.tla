------------------------- MODULE LineEditingProofs --------------------------
(* Proofs, for any sources and payloads, that edits made one at a time leave *)
(* citations, verdicts and subproofs of the other lines as they were.        *)
EXTENDS LineEditingProps, FiniteSetTheorems, SequenceTheorems, WellFoundedInduction, TLAPS

(* The numbers of a source's lines.                                          *)

\* An image under an injection has as many elements.
LEMMA ImageCount ==
  ASSUME NEW S, IsFiniteSet(S), NEW f,
         \A x, y \in S : f[x] = f[y] => x = y
  PROVE  IsFiniteSet({f[x] : x \in S}) /\ Cardinality({f[x] : x \in S}) = Cardinality(S)
<1> DEFINE T == {f[x] : x \in S}
           g == [x \in S |-> f[x]]
<1>1. g \in [S -> T]
  OBVIOUS
<1>2. \A x, y \in S : g[x] = g[y] => x = y
  OBVIOUS
<1>3. \A t \in T : \E x \in S : g[x] = t
  OBVIOUS
<1>4. g \in Bijection(S, T)
  <2> HIDE DEF g, T
  <2>1. DOMAIN g = S
    BY <1>1
  <2>2. g \in Injection(S, T)
    BY <1>1, <1>2, <2>1 DEF Injection, IsInjective
  <2>3. g \in Surjection(S, T)
    BY <1>1, <1>3 DEF Surjection
  <2>  QED BY <2>2, <2>3 DEF Bijection
<1>5. ExistsBijection(S, T)
  BY <1>4 DEF ExistsBijection
<1> HIDE DEF T
<1>6. IsFiniteSet(T) /\ Cardinality(T) = Cardinality(S)
  BY <1>5, FS_Bijection
<1>  QED BY <1>6 DEF T

LEMMA SourceType ==
  ASSUME NEW s \in Sources
  PROVE  /\ s \in Seq(Lines) /\ Len(s) \in Nat /\ DOMAIN s = 1..Len(s)
         /\ \A i \in 1..Len(s) : s[i] \in Lines
         /\ Counted(s) \subseteq 1..Len(s) /\ IsFiniteSet(Counted(s))
         /\ Count(s) \in Nat
<1>1. s \in Seq(Lines) /\ Len(s) \in Nat /\ DOMAIN s = 1..Len(s)
  BY DEF Sources
<1>2. \A i \in 1..Len(s) : s[i] \in Lines
  BY <1>1
<1>3. Counted(s) \subseteq 1..Len(s)
  BY <1>1 DEF Counted
<1>4. IsFiniteSet(Counted(s))
  <2>1. IsFiniteSet(1..Len(s))
    BY <1>1, FS_Interval
  <2>2. Counted(s) \in SUBSET (1..Len(s))
    BY <1>3
  <2>  QED BY <2>1, <2>2, FS_Subset
<1>  QED BY <1>1, <1>2, <1>3, <1>4, FS_CardinalityType DEF Count

\* Numbers grow with the lines, without a gap, so that each is of one line.
LEMMA Numbering ==
  ASSUME NEW s \in Sources
  PROVE  /\ \A i \in Counted(s) : /\ NumberAt(s, i) \in 1..Count(s)
                                  /\ PositionOf(s, NumberAt(s, i)) = i
         /\ \A n : HasNumber(s, n) => /\ PositionOf(s, n) \in Counted(s)
                                      /\ NumberAt(s, PositionOf(s, n)) = n
         /\ \A i, j \in Counted(s) : i < j => NumberAt(s, i) < NumberAt(s, j)
         /\ \A i, j \in Counted(s) : NumberAt(s, i) = NumberAt(s, j) => i = j
<1> DEFINE C == Counted(s)
           U(i) == {j \in C : j <= i}
<1>1. C \subseteq 1..Len(s) /\ IsFiniteSet(C) /\ Len(s) \in Nat /\ Count(s) \in Nat
  BY SourceType
<1>2. \A i \in C : i \in Nat
  BY <1>1
<1>3. \A i : NumberAt(s, i) = Cardinality(U(i)) /\ U(i) \in SUBSET C
  BY DEF NumberAt
<1>4. Count(s) = Cardinality(C)
  BY DEF Count
<1> HIDE DEF C
<1>5. \A i : IsFiniteSet(U(i)) /\ Cardinality(U(i)) \in Nat /\ Cardinality(U(i)) <= Count(s)
  BY <1>1, <1>3, <1>4, FS_Subset, FS_CardinalityType
<1>6. ASSUME NEW i \in C PROVE NumberAt(s, i) \in 1..Count(s)
  <2>1. i \in U(i)
    BY <1>2
  <2>2. Cardinality(U(i)) # 0
    BY <1>5, <2>1, FS_EmptySet
  <2>3. Cardinality(U(i)) \in Nat /\ Cardinality(U(i)) <= Count(s) /\ NumberAt(s, i) = Cardinality(U(i))
    BY <1>3, <1>5
  <2> HIDE DEF U
  <2>  QED BY <1>1, <2>2, <2>3
<1>7. ASSUME NEW i \in C, NEW j \in C, i < j PROVE NumberAt(s, i) < NumberAt(s, j)
  <2>1. U(i) \in SUBSET U(j)
    BY <1>2, <1>7
  <2>2. j \in U(j) /\ j \notin U(i)
    BY <1>2, <1>7
  <2> HIDE DEF U
  <2>3. Cardinality(U(i)) <= Cardinality(U(j)) /\ Cardinality(U(i)) # Cardinality(U(j))
    BY <1>5, <2>1, <2>2, FS_Subset
  <2>  QED BY <1>3, <1>5, <2>3
<1>8. ASSUME NEW i \in C, NEW j \in C, NumberAt(s, i) = NumberAt(s, j) PROVE i = j
  <2>1. i \in Nat /\ j \in Nat /\ NumberAt(s, i) \in 1..Count(s) /\ NumberAt(s, j) \in 1..Count(s)
    BY <1>2, <1>6
  <2>  QED BY <1>1, <1>7, <1>8, <2>1
<1>9. ASSUME NEW n \in 1..Count(s) PROVE \E i \in C : NumberAt(s, i) = n
  <2> DEFINE N == [i \in C |-> NumberAt(s, i)]
  <2>1. N \in [C -> 1..Count(s)]
    BY <1>6
  <2>2. \A i, j \in C : N[i] = N[j] => i = j
    BY <1>8
  <2>3. \A i \in C : N[i] = NumberAt(s, i)
    OBVIOUS
  <2> HIDE DEF N
  <2>4. N \in Injection(C, 1..Count(s))
    BY <2>1, <2>2 DEF Injection, IsInjective
  <2>5. IsFiniteSet(1..Count(s)) /\ Cardinality(1..Count(s)) = Cardinality(C)
    BY <1>1, <1>4, FS_Interval
  <2>6. N \in Surjection(C, 1..Count(s))
    BY <2>4, <2>5, FS_Injection
  <2>  QED BY <2>3, <2>6 DEF Surjection
<1>10. \A n : PositionOf(s, n) = CHOOSE i \in C : NumberAt(s, i) = n
  BY DEF PositionOf, C
<1>11. ASSUME NEW i \in C PROVE PositionOf(s, NumberAt(s, i)) = i
  BY <1>8, <1>10
<1>12. ASSUME NEW n, HasNumber(s, n)
       PROVE  PositionOf(s, n) \in C /\ NumberAt(s, PositionOf(s, n)) = n
  BY <1>9, <1>10, <1>12 DEF HasNumber
<1>  QED BY <1>6, <1>7, <1>8, <1>11, <1>12 DEF C

\* Two sources of which one has a line more, at g.
Up(g, i) == IF i >= g THEN i + 1 ELSE i
Gap(s, t, g) ==
  /\ Len(t) = Len(s) + 1 /\ g \in 1..Len(t)
  /\ t[g].kind # "comment"
  /\ \A i \in 1..Len(s) : t[Up(g, i)].kind = s[i].kind

\* The line more moves up the numbers of those below it, and no other.
LEMMA GapNumbers ==
  ASSUME NEW s \in Sources, NEW t \in Sources, NEW g, Gap(s, t, g)
  PROVE  /\ Count(t) = Count(s) + 1
         /\ g \in Counted(t)
         /\ \A i \in Counted(s) : /\ Up(g, i) \in Counted(t)
                                  /\ NumberAt(t, Up(g, i)) = NumberAt(s, i) + (IF i >= g THEN 1 ELSE 0)
         /\ \A j \in Counted(t) : j # g => \E i \in Counted(s) : j = Up(g, i)
<1> DEFINE C == Counted(s)
           up == [i \in 1..Len(s) |-> Up(g, i)]
<1>1. /\ C \subseteq 1..Len(s) /\ IsFiniteSet(C) /\ Len(s) \in Nat /\ Len(t) = Len(s) + 1
      /\ DOMAIN s = 1..Len(s) /\ DOMAIN t = 1..Len(t) /\ Count(s) \in Nat /\ g \in 1..Len(t)
      /\ t[g].kind # "comment"
  BY SourceType DEF Gap
<1>2. \A i \in 1..Len(s) : up[i] \in 1..Len(t) /\ t[up[i]].kind = s[i].kind /\ up[i] = Up(g, i) /\ up[i] # g
  BY <1>1 DEF Gap, Up
<1>3. \A i \in C : up[i] \in Counted(t)
  BY <1>1, <1>2 DEF Counted
<1>4. \A i, j \in 1..Len(s) : up[i] <= up[j] <=> i <= j
  BY <1>1 DEF Up
<1>5. \A i, j \in C : up[i] = up[j] => i = j
  BY <1>1 DEF Up
<1>6. \A i \in 1..Len(s) : i >= g <=> g <= up[i]
  BY <1>1 DEF Up
<1>7. g \in Counted(t)
  BY <1>1 DEF Counted
<1>8. ASSUME NEW j \in Counted(t), j # g PROVE \E i \in C : j = up[i]
  <2>1. j \in 1..Len(t) /\ t[j].kind # "comment"
    BY <1>1 DEF Counted
  <2> DEFINE i == IF j > g THEN j - 1 ELSE j
  <2>2. i \in 1..Len(s) /\ up[i] = j
    BY <1>1, <1>8, <2>1 DEF Up
  <2>3. i \in C
    BY <1>1, <1>2, <2>1, <2>2 DEF Counted
  <2>  QED BY <2>2, <2>3
<1>9. Count(t) = Count(s) + 1
  <2> DEFINE T == {up[i] : i \in C}
  <2>1. IsFiniteSet(T) /\ Cardinality(T) = Cardinality(C)
    <3> HIDE DEF up, C
    <3>  QED BY <1>1, <1>5, ImageCount
  <2>2. Counted(t) = T \cup {g} /\ g \notin T
    BY <1>1, <1>2, <1>3, <1>7, <1>8
  <2> HIDE DEF T
  <2>  QED BY <2>1, <2>2, FS_AddElement DEF Count
<1>10. ASSUME NEW i \in C PROVE NumberAt(t, up[i]) = NumberAt(s, i) + (IF i >= g THEN 1 ELSE 0)
  <2> DEFINE U == {j \in C : j <= i}
             T == {up[j] : j \in U}
  <2>1. IsFiniteSet(U)
    <3>1. U \in SUBSET C
      OBVIOUS
    <3>  QED BY <1>1, <3>1, FS_Subset
  <2>2. IsFiniteSet(T) /\ Cardinality(T) = Cardinality(U)
    <3>1. \A x, y \in U : up[x] = up[y] => x = y
      BY <1>5
    <3> HIDE DEF up, U
    <3>  QED BY <2>1, <3>1, ImageCount
  <2>3. {j \in Counted(t) : j <= up[i]} = T \cup (IF i >= g THEN {g} ELSE {})
    <3>1. \A j \in C : up[j] <= up[i] <=> j \in U
      BY <1>1, <1>4
    <3>2. g <= up[i] <=> i >= g
      BY <1>1, <1>6
    <3> HIDE DEF up, U
    <3>3. \A j \in {k \in Counted(t) : k <= up[i]} : j \in T \/ (j = g /\ i >= g)
      BY <1>8, <3>1, <3>2
    <3>4. \A j \in T : j \in Counted(t) /\ j <= up[i]
      <4>1. U \subseteq C
        BY DEF U
      <4>  QED BY <1>3, <3>1, <4>1
    <3>5. i >= g => g \in Counted(t) /\ g <= up[i]
      BY <1>7, <3>2
    <3> HIDE DEF T
    <3>  QED BY <3>3, <3>4, <3>5
  <2>4. g \notin T
    BY <1>1, <1>2
  <2>5. NumberAt(s, i) = Cardinality(U) /\ NumberAt(s, i) \in Nat
    BY <2>1, FS_CardinalityType DEF NumberAt
  <2>6. NumberAt(t, up[i]) = Cardinality(T \cup (IF i >= g THEN {g} ELSE {}))
    BY <2>3 DEF NumberAt
  <2> HIDE DEF T, U
  <2>7. CASE i >= g
    BY <2>2, <2>4, <2>5, <2>6, <2>7, FS_AddElement
  <2>8. CASE ~(i >= g)
    BY <2>2, <2>5, <2>6, <2>8
  <2>  QED BY <2>7, <2>8
<1>  QED BY <1>1, <1>2, <1>3, <1>7, <1>8, <1>9, <1>10

(* What an edit writes, line by line.                                        *)

CiteShift(cites, at, by) == IF cites = Inferred THEN Inferred ELSE {Shifted(n, at, by) : n \in cites}

\* A number shifted up, or down from one that is not the first, is a number.
LEMMA CiteShiftType ==
  ASSUME NEW c \in Citations, NEW at \in Nat, NEW by \in {-1, 0, 1}, at + by >= 0
  PROVE  CiteShift(c, at, by) \in Citations
<1>1. CASE c = Inferred
  BY <1>1 DEF CiteShift, Citations
<1>2. CASE c # Inferred
  <2>1. c \subseteq Nat
    BY <1>2 DEF Citations
  <2>2. \A n \in c : Shifted(n, at, by) \in Nat
    BY <2>1 DEF Shifted
  <2>3. CiteShift(c, at, by) = {Shifted(n, at, by) : n \in c}
    BY <1>2 DEF CiteShift
  <2>4. {Shifted(n, at, by) : n \in c} \in SUBSET Nat
    BY <2>2
  <2>  QED BY <2>3, <2>4 DEF Citations
<1>  QED BY <1>1, <1>2

LEMMA RenumberType ==
  ASSUME NEW s \in Sources, NEW at \in Nat, NEW by \in {-1, 0, 1}, at + by >= 0
  PROVE  /\ Renumber(s, at, by) \in Sources /\ Len(Renumber(s, at, by)) = Len(s)
         /\ \A i \in 1..Len(s) :
              Renumber(s, at, by)[i] = [s[i] EXCEPT !.cites = CiteShift(s[i].cites, at, by)]
<1> DEFINE R == Renumber(s, at, by)
           new(i) == [s[i] EXCEPT !.cites = CiteShift(s[i].cites, at, by)]
<1>1. /\ s \in Seq(Lines) /\ Len(s) \in Nat /\ DOMAIN s = 1..Len(s)
      /\ \A i \in 1..Len(s) : s[i] \in Lines
  BY SourceType
<1>2. R = [i \in 1..Len(s) |-> new(i)]
  BY <1>1 DEF Renumber, CiteShift, Shifted
<1>3. ASSUME NEW i \in 1..Len(s)
      PROVE  new(i) \in Lines /\ (s[i].kind = "comment" => new(i).cites = {}) /\ new(i).kind = s[i].kind
  <2>1. s[i] \in Lines /\ s[i].cites \in Citations
    BY <1>1 DEF Lines
  <2>2. CiteShift(s[i].cites, at, by) \in Citations
    BY <2>1, CiteShiftType
  <2>3. new(i) \in Lines /\ new(i).kind = s[i].kind /\ new(i).cites = CiteShift(s[i].cites, at, by)
    BY <2>1, <2>2 DEF Lines
  <2>4. s[i].kind = "comment" => CiteShift(s[i].cites, at, by) = {}
    <3>1. {} # Inferred
      BY DEF Inferred
    <3>2. s[i].kind = "comment" => s[i].cites = {}
      BY <1>1 DEF Sources
    <3>  QED BY <3>1, <3>2 DEF CiteShift
  <2>  QED BY <2>3, <2>4
<1>4. R \in Seq(Lines) /\ Len(R) = Len(s)
  <2>1. R \in [1..Len(s) -> Lines]
    BY <1>2, <1>3
  <2> HIDE DEF R
  <2>  QED BY <1>1, <2>1
<1>5. \A i \in DOMAIN R : R[i].kind = "comment" => R[i].cites = {}
  BY <1>2, <1>3
<1>  QED BY <1>2, <1>4, <1>5 DEF Sources

\* A line written above another, at p, or below them all.
LEMMA Inserted ==
  ASSUME NEW s \in Sources, NEW p \in 1..(Len(s) + 1), NEW line \in Lines, line.kind # "comment"
  PROVE  /\ InsertAt(s, p, line) \in Sources /\ Len(InsertAt(s, p, line)) = Len(s) + 1
         /\ InsertAt(s, p, line)[p] = line
         /\ \A i \in 1..Len(s) : InsertAt(s, p, line)[Up(p, i)] = s[i]
<1> DEFINE a == SubSeq(s, 1, p - 1)
           b == SubSeq(s, p, Len(s))
           c == a \o <<line>>
           t == InsertAt(s, p, line)
<1>1. s \in Seq(Lines) /\ Len(s) \in Nat /\ \A i \in 1..Len(s) : s[i] \in Lines
  BY SourceType
<1>2. a \in Seq(Lines) /\ Len(a) = p - 1 /\ \A i \in 1..(p - 1) : a[i] = s[i]
  <2>1. \A i \in 1..(p - 1) : s[i] \in Lines
    BY <1>1
  <2>2. /\ a \in Seq(Lines) /\ Len(a) = IF 1 <= p - 1 THEN (p - 1) - 1 + 1 ELSE 0
        /\ \A i \in 1..((p - 1) - 1 + 1) : a[i] = s[1 + i - 1]
    BY <1>1, <2>1, SubSeqProperties
  <2> HIDE DEF a
  <2>  QED BY <1>1, <2>2
<1>3. /\ b \in Seq(Lines) /\ Len(b) = Len(s) + 1 - p
      /\ \A i \in 1..(Len(s) + 1 - p) : b[i] = s[p + i - 1]
  <2>1. \A i \in p..Len(s) : s[i] \in Lines
    BY <1>1
  <2>2. /\ b \in Seq(Lines) /\ Len(b) = IF p <= Len(s) THEN Len(s) - p + 1 ELSE 0
        /\ \A i \in 1..(Len(s) - p + 1) : b[i] = s[p + i - 1]
    BY <1>1, <2>1, SubSeqProperties
  <2> HIDE DEF b
  <2>  QED BY <1>1, <2>2
<1>4. t = c \o b
  BY DEF InsertAt
<1> HIDE DEF a, b, t
<1>5. /\ c \in Seq(Lines) /\ Len(c) = p
      /\ c[p] = line /\ \A i \in 1..(p - 1) : c[i] = s[i]
  <2>1. <<line>> \in Seq(Lines) /\ Len(<<line>>) = 1 /\ <<line>>[1] = line
    OBVIOUS
  <2>2. /\ c \in Seq(Lines) /\ Len(c) = Len(a) + Len(<<line>>)
        /\ \A i \in 1..(Len(a) + Len(<<line>>)) : c[i] = IF i <= Len(a) THEN a[i] ELSE <<line>>[i - Len(a)]
    BY <1>2, <2>1, ConcatProperties
  <2> HIDE DEF c
  <2>  QED BY <1>1, <1>2, <2>1, <2>2
<1> HIDE DEF c
<1>6. /\ t \in Seq(Lines) /\ Len(t) = Len(s) + 1
      /\ \A i \in 1..(Len(s) + 1) : t[i] = IF i <= p THEN c[i] ELSE s[i - 1]
  <2>1. /\ t \in Seq(Lines) /\ Len(t) = Len(c) + Len(b)
        /\ \A i \in 1..(Len(c) + Len(b)) : t[i] = IF i <= Len(c) THEN c[i] ELSE b[i - Len(c)]
    BY <1>3, <1>4, <1>5, ConcatProperties
  <2>2. ASSUME NEW i \in 1..(Len(s) + 1), ~(i <= p) PROVE b[i - p] = s[i - 1]
    <3>1. i - p \in 1..(Len(s) + 1 - p) /\ p + (i - p) - 1 = i - 1
      BY <1>1, <2>2
    <3>  QED BY <1>3, <3>1
  <2>3. Len(c) + Len(b) = Len(s) + 1
    BY <1>1, <1>3, <1>5
  <2>  QED BY <1>5, <2>1, <2>2, <2>3
<1>7. t[p] = line /\ \A i \in 1..Len(s) : t[Up(p, i)] = s[i]
  BY <1>1, <1>5, <1>6 DEF Up
<1>8. \A j \in DOMAIN t : t[j].kind = "comment" => t[j].cites = {}
  <2>1. DOMAIN t = 1..(Len(s) + 1)
    BY <1>6
  <2>2. \A j \in 1..(Len(s) + 1) : t[j] = line \/ \E i \in 1..Len(s) : t[j] = s[i]
    BY <1>1, <1>5, <1>6
  <2>3. \A i \in 1..Len(s) : s[i].kind = "comment" => s[i].cites = {}
    BY SourceType DEF Sources
  <2>  QED BY <2>1, <2>2, <2>3
<1>  QED BY <1>6, <1>7, <1>8 DEF Sources, t

LEMMA Appended ==
  ASSUME NEW s \in Sources, NEW line \in Lines, line.kind # "comment"
  PROVE  /\ Append(s, line) \in Sources /\ Len(Append(s, line)) = Len(s) + 1
         /\ Append(s, line)[Len(s) + 1] = line
         /\ \A i \in 1..Len(s) : Append(s, line)[i] = s[i]
<1>1. s \in Seq(Lines) /\ Len(s) \in Nat /\ DOMAIN s = 1..Len(s)
  BY SourceType
<1>2. Append(s, line) \in Seq(Lines) /\ Len(Append(s, line)) = Len(s) + 1 /\ DOMAIN Append(s, line) = 1..(Len(s) + 1)
  BY <1>1
<1>3. Append(s, line)[Len(s) + 1] = line /\ \A i \in 1..Len(s) : Append(s, line)[i] = s[i]
  BY <1>1
<1>4. \A j \in 1..(Len(s) + 1) : Append(s, line)[j].kind = "comment" => Append(s, line)[j].cites = {}
  <2>1. \A i \in 1..Len(s) : s[i].kind = "comment" => s[i].cites = {}
    BY <1>1 DEF Sources
  <2>2. \A j \in 1..(Len(s) + 1) : j = Len(s) + 1 \/ j \in 1..Len(s)
    BY <1>1
  <2>  QED BY <1>3, <2>1, <2>2
<1>  QED BY <1>2, <1>3, <1>4 DEF Sources

LEMMA Removed ==
  ASSUME NEW s \in Sources, NEW g \in 1..Len(s)
  PROVE  /\ RemoveAt(s, g) \in Sources /\ Len(s) = Len(RemoveAt(s, g)) + 1
         /\ \A i \in 1..Len(RemoveAt(s, g)) : RemoveAt(s, g)[i] = s[Up(g, i)]
<1> DEFINE a == SubSeq(s, 1, g - 1)
           b == SubSeq(s, g + 1, Len(s))
           t == RemoveAt(s, g)
<1>1. s \in Seq(Lines) /\ Len(s) \in Nat /\ DOMAIN s = 1..Len(s) /\ \A i \in 1..Len(s) : s[i] \in Lines
  BY SourceType
<1>2. a \in Seq(Lines) /\ Len(a) = g - 1 /\ \A i \in 1..(g - 1) : a[i] = s[i]
  <2>1. \A i \in 1..(g - 1) : s[i] \in Lines
    BY <1>1
  <2>2. /\ a \in Seq(Lines) /\ Len(a) = IF 1 <= g - 1 THEN (g - 1) - 1 + 1 ELSE 0
        /\ \A i \in 1..((g - 1) - 1 + 1) : a[i] = s[1 + i - 1]
    BY <1>1, <2>1, SubSeqProperties
  <2> HIDE DEF a
  <2>  QED BY <1>1, <2>2
<1>3. /\ b \in Seq(Lines) /\ Len(b) = Len(s) - g
      /\ \A i \in 1..(Len(s) - g) : b[i] = s[g + i]
  <2>1. \A i \in (g + 1)..Len(s) : s[i] \in Lines
    BY <1>1
  <2>2. /\ b \in Seq(Lines) /\ Len(b) = IF g + 1 <= Len(s) THEN Len(s) - (g + 1) + 1 ELSE 0
        /\ \A i \in 1..(Len(s) - (g + 1) + 1) : b[i] = s[g + 1 + i - 1]
    BY <1>1, <2>1, SubSeqProperties
  <2> HIDE DEF b
  <2>3. Len(s) - (g + 1) + 1 = Len(s) - g /\ \A i \in Nat : g + 1 + i - 1 = g + i
    BY <1>1
  <2>4. Len(b) = IF g + 1 <= Len(s) THEN Len(s) - g ELSE 0
    BY <2>2, <2>3
  <2>5. Len(s) \in Nat /\ g <= Len(s) /\ g \in Nat
    BY <1>1
  <2>6. Len(b) = Len(s) - g
    BY <2>4, <2>5
  <2>7. \A i \in 1..(Len(s) - g) : b[i] = s[g + 1 + i - 1]
    BY <2>2, <2>3, <2>5
  <2>8. \A i \in 1..(Len(s) - g) : b[i] = s[g + i]
    <3> TAKE i \in 1..(Len(s) - g)
    <3>1. i \in Nat
      BY <2>5
    <3>2. g + 1 + i - 1 = g + i
      BY <2>5, <3>1
    <3>3. b[i] = s[g + 1 + i - 1]
      BY <2>7
    <3>  QED BY <3>2, <3>3
  <2>9. b \in Seq(Lines)
    BY <2>2
  <2>  QED BY <2>6, <2>8, <2>9
<1>4. t = a \o b
  BY DEF RemoveAt
<1> HIDE DEF a, b, t
<1>5. /\ t \in Seq(Lines) /\ Len(t) = Len(s) - 1
      /\ \A i \in 1..(Len(s) - 1) : t[i] = IF i < g THEN s[i] ELSE s[i + 1]
  <2>1. /\ t \in Seq(Lines) /\ Len(t) = Len(a) + Len(b)
        /\ \A i \in 1..(Len(a) + Len(b)) : t[i] = IF i <= Len(a) THEN a[i] ELSE b[i - Len(a)]
    BY <1>2, <1>3, <1>4, ConcatProperties
  <2>2. ASSUME NEW i \in 1..(Len(s) - 1), ~(i < g) PROVE b[i - (g - 1)] = s[i + 1]
    <3>1. i - (g - 1) \in 1..(Len(s) - g) /\ g + (i - (g - 1)) = i + 1
      BY <1>1, <2>2
    <3>  QED BY <1>3, <3>1
  <2>3. Len(a) + Len(b) = Len(s) - 1
    BY <1>1, <1>2, <1>3
  <2>4. ASSUME NEW i \in 1..(Len(s) - 1), i < g PROVE i \in 1..(g - 1)
    BY <1>1, <2>4
  <2>5. \A i \in 1..(Len(s) - 1) : i <= Len(a) <=> i < g
    BY <1>1, <1>2
  <2>  QED BY <1>2, <2>1, <2>2, <2>3, <2>4, <2>5
<1>6. Len(s) = Len(t) + 1 /\ \A i \in 1..Len(t) : t[i] = s[Up(g, i)]
  BY <1>1, <1>5 DEF Up
<1>7. \A j \in DOMAIN t : t[j].kind = "comment" => t[j].cites = {}
  <2>1. \A j \in DOMAIN t : \E i \in 1..Len(s) : t[j] = s[i]
    BY <1>1, <1>5
  <2>2. \A i \in 1..Len(s) : s[i].kind = "comment" => s[i].cites = {}
    BY <1>1 DEF Sources
  <2>  QED BY <2>1, <2>2
<1>  QED BY <1>5, <1>6, <1>7 DEF Sources, t

(* What follows for the lines that an edit leaves.                           *)

\* m[i] is where line i of a source stands in another.
Moves(s, t, m) ==
  /\ DOMAIN m \subseteq 1..Len(s)
  /\ \A i \in DOMAIN m : /\ m[i] \in 1..Len(t)
                         /\ (t[m[i]].kind = "comment") = (s[i].kind = "comment")

Renumbers(s, t, m, at, by, dropped) ==
  /\ at \in Nat \ {0} /\ by \in {-1, 0, 1}
  /\ \A i \in DOMAIN m \cap Counted(s) :
       /\ NumberAt(s, i) # dropped
       /\ NumberAt(t, m[i]) = Shifted(NumberAt(s, i), at, by)

\* What a number names before and what it names after are one line.
Follows(s, t, m, n, c) ==
  \/ /\ HasNumber(s, n) /\ PositionOf(s, n) \in DOMAIN m
     /\ HasNumber(t, c) /\ PositionOf(t, c) = m[PositionOf(s, n)]
  \/ /\ ~(HasNumber(s, n) /\ PositionOf(s, n) \in DOMAIN m)
     /\ ~(HasNumber(t, c) /\ PositionOf(t, c) \in Range(m))

Recites(s, t, m, at, by) ==
  \A i \in DOMAIN m :
    /\ t[m[i]].cites = CiteShift(s[i].cites, at, by)
    /\ s[i].cites # Inferred => \A n \in s[i].cites : Follows(s, t, m, n, Shifted(n, at, by))

LEMMA CitationsGoOn ==
  ASSUME NEW s \in Sources, NEW t \in Sources, NEW m, NEW at, NEW by, Moves(s, t, m),
         Recites(s, t, m, at, by), NEW i \in DOMAIN m
  PROVE  CitedAt(t, m[i]) \cap Range(m) = {m[j] : j \in CitedAt(s, i) \cap DOMAIN m}
<1>1. i \in 1..Len(s) /\ m[i] \in 1..Len(t)
  BY DEF Moves
<1>2. t[m[i]] \in Lines /\ t[m[i]].cites \in Citations
  BY <1>1, SourceType DEF Lines
<1>3. t[m[i]].cites = CiteShift(s[i].cites, at, by)
  BY DEF Recites
<1>4. CASE s[i].cites = Inferred
  <2>1. t[m[i]].cites = Inferred
    BY <1>3, <1>4 DEF CiteShift
  <2>  QED BY <1>4, <2>1 DEF CitedAt
<1>5. CASE s[i].cites # Inferred
  <2> DEFINE c == s[i].cites
             d == t[m[i]].cites
  <2>1. d = {Shifted(n, at, by) : n \in c}
    BY <1>3, <1>5 DEF CiteShift
  <2>2. \A n \in c : Follows(s, t, m, n, Shifted(n, at, by))
    BY <1>5 DEF Recites
  <2>3. CitedAt(s, i) = {PositionOf(s, n) : n \in {k \in c : HasNumber(s, k)}}
    BY <1>5 DEF CitedAt
  <2>4. CASE d = Inferred
    <3>1. \A n \in c : Shifted(n, at, by) \notin Nat
      BY <2>1, <2>4 DEF Inferred
    <3>2. \A n \in c : ~HasNumber(t, Shifted(n, at, by))
      BY <1>1, <3>1, SourceType DEF HasNumber
    <3>3. \A n \in c : ~(HasNumber(s, n) /\ PositionOf(s, n) \in DOMAIN m)
      BY <2>2, <3>2 DEF Follows
    <3>4. CitedAt(t, m[i]) = {}
      BY <2>4 DEF CitedAt
    <3>  QED BY <2>3, <3>3, <3>4
  <2>5. CASE d # Inferred
    <3>1. CitedAt(t, m[i]) = {PositionOf(t, n) : n \in {k \in d : HasNumber(t, k)}}
      BY <2>5 DEF CitedAt
    <3>2. ASSUME NEW x \in CitedAt(t, m[i]) \cap Range(m) PROVE \E j \in CitedAt(s, i) \cap DOMAIN m : x = m[j]
      <4>1. PICK e \in d : HasNumber(t, e) /\ x = PositionOf(t, e)
        BY <3>1, <3>2
      <4>2. PICK n \in c : e = Shifted(n, at, by)
        BY <2>1, <4>1
      <4>3. HasNumber(s, n) /\ PositionOf(s, n) \in DOMAIN m /\ x = m[PositionOf(s, n)]
        BY <2>2, <3>2, <4>1, <4>2 DEF Follows
      <4>  QED BY <2>3, <4>2, <4>3
    <3>3. ASSUME NEW j \in CitedAt(s, i) \cap DOMAIN m PROVE m[j] \in CitedAt(t, m[i]) \cap Range(m)
      <4>1. PICK n \in c : HasNumber(s, n) /\ j = PositionOf(s, n)
        BY <2>3, <3>3
      <4>2. HasNumber(t, Shifted(n, at, by)) /\ PositionOf(t, Shifted(n, at, by)) = m[j]
        BY <2>2, <3>3, <4>1 DEF Follows
      <4>3. m[j] \in Range(m)
        BY <3>3 DEF Range
      <4>4. Shifted(n, at, by) \in d
        BY <2>1, <4>1
      <4>  QED BY <3>1, <4>2, <4>3, <4>4
    <3>  QED BY <3>2, <3>3
  <2>  QED BY <2>4, <2>5
<1>  QED BY <1>4, <1>5

\* A line that is numbered anew is the line at that number.
LEMMA MovedTo ==
  ASSUME NEW s \in Sources, NEW t \in Sources, NEW m, NEW at, NEW by, NEW dropped, Moves(s, t, m),
         Renumbers(s, t, m, at, by, dropped), NEW i \in DOMAIN m \cap Counted(s)
  PROVE  /\ NumberAt(s, i) # dropped /\ m[i] \in Counted(t)
         /\ HasNumber(t, Shifted(NumberAt(s, i), at, by))
         /\ PositionOf(t, Shifted(NumberAt(s, i), at, by)) = m[i]
<1>1. m[i] \in Counted(t)
  <2>1. s[i].kind # "comment"
    BY DEF Counted
  <2>2. m[i] \in 1..Len(t) /\ t[m[i]].kind # "comment"
    BY <2>1 DEF Moves
  <2>  QED BY <2>2, SourceType DEF Counted
<1>2. NumberAt(s, i) # dropped /\ NumberAt(t, m[i]) = Shifted(NumberAt(s, i), at, by)
  BY DEF Renumbers
<1>  QED BY <1>1, <1>2, Numbering DEF HasNumber

LEMMA StandsOn ==
  ASSUME NEW s \in Sources, NEW t \in Sources, NEW m, NEW at, NEW by, NEW dropped, Moves(s, t, m),
         Renumbers(s, t, m, at, by, dropped), ~Broken(s, t, at, by, dropped),
         NEW i \in DOMAIN m, Valid(s, i)
  PROVE  Valid(t, m[i])
<1>1. CASE i \in Counted(s)
  BY <1>1, MovedTo DEF Broken
<1>2. CASE i \notin Counted(s)
  <2>1. i \in 1..Len(s)
    BY DEF Moves
  <2>2. s[i].kind = "comment"
    BY <1>2, <2>1, SourceType DEF Counted
  <2>3. t[m[i]].kind = "comment"
    BY <2>2 DEF Moves
  <2>  QED BY <2>3 DEF Valid
<1>  QED BY <1>1, <1>2

\* The innermost opener is one, where there is any.
LEMMA InnermostType ==
  ASSUME NEW s \in Sources, NEW i
  PROVE  \/ Innermost(s, i) = None /\ Around(s, i) = {}
         \/ Innermost(s, i) \in Around(s, i)
<1>1. CASE Around(s, i) = {}
  BY <1>1 DEF Innermost
<1>2. CASE Around(s, i) # {}
  <2> DEFINE A == Around(s, i)
             T == {Len(s) - j : j \in A}
  <2>1. A \subseteq 1..Len(s) /\ Len(s) \in Nat
    BY SourceType DEF Around
  <2>2. T \subseteq Nat /\ T # {}
    BY <1>2, <2>1
  <2>3. PICK x \in T : \A y \in T : ~(<<y, x>> \in OpToRel(<, Nat))
    <3> HIDE DEF T
    <3>  QED BY <2>2, WFMin, NatLessThanWellFounded
  <2>4. PICK j \in A : x = Len(s) - j
    BY <2>3
  <2>5. \A k \in A : Len(s) - k \in T
    OBVIOUS
  <2>6. \A k \in A : ~(Len(s) - k < Len(s) - j)
    BY <2>2, <2>3, <2>4, <2>5 DEF OpToRel
  <2> HIDE DEF A, T
  <2>7. \A k \in A : k <= j
    BY <2>1, <2>4, <2>6
  <2>8. Innermost(s, i) = CHOOSE k \in A : \A l \in A : l <= k
    BY <1>2 DEF Innermost, A
  <2>  QED BY <2>4, <2>7, <2>8 DEF A
<1>  QED BY <1>1, <1>2

LEMMA ScopeStays ==
  ASSUME NEW s \in Sources, NEW t \in Sources, NEW m, NEW at, NEW by, NEW dropped, Moves(s, t, m),
         Renumbers(s, t, m, at, by, dropped), ~Rescoped(s, t, at, by, dropped),
         dropped # 0, \A j \in Counted(s) : NumberAt(s, j) # dropped => j \in DOMAIN m,
         NEW i \in DOMAIN m \cap Counted(s)
  PROVE  Innermost(t, m[i]) = IF Innermost(s, i) = None THEN None ELSE m[Innermost(s, i)]
<1> DEFINE was == ScopeNumber(s, i)
           now == ScopeNumber(t, m[i])
<1>1. now = IF was = dropped THEN Gone ELSE Shifted(was, at, by)
  BY MovedTo DEF Rescoped
<1>2. None \notin Nat
  BY EditingAssumption
<1>3. /\ Around(s, i) \subseteq Counted(s) /\ Counted(s) \subseteq 1..Len(s)
      /\ Around(t, m[i]) \subseteq Counted(t) /\ Counted(t) \subseteq 1..Len(t)
  BY SourceType DEF Around
<1>4. now \in Nat /\ (now = 0 => Innermost(t, m[i]) = None)
  <2>1. CASE Innermost(t, m[i]) = None
    BY <2>1 DEF ScopeNumber
  <2>2. CASE Innermost(t, m[i]) # None
    <3>1. Innermost(t, m[i]) \in Counted(t)
      BY <1>3, <2>2, InnermostType
    <3>2. now = NumberAt(t, Innermost(t, m[i])) /\ now \in 1..Count(t)
      BY <2>2, <3>1, Numbering DEF ScopeNumber
    <3>  QED BY <3>2, SourceType
  <2>  QED BY <2>1, <2>2
<1>5. CASE Innermost(s, i) = None
  <2>1. was = 0
    BY <1>5 DEF ScopeNumber
  <2>2. Shifted(0, at, by) = 0
    BY DEF Renumbers, Shifted
  <2>  QED BY <1>1, <1>4, <1>5, <2>1, <2>2
<1>6. CASE Innermost(s, i) # None
  <2> DEFINE I == Innermost(s, i)
  <2>1. I \in Counted(s) /\ I \in Nat
    BY <1>3, <1>6, InnermostType
  <2>2. was = NumberAt(s, I)
    BY <1>6 DEF ScopeNumber
  <2>3. was # dropped
    BY <1>1, <1>4 DEF Gone
  <2>4. I \in DOMAIN m \cap Counted(s)
    BY <2>1, <2>2, <2>3
  <2> HIDE DEF I, was, now
  <2>5. m[I] \in Counted(t) /\ NumberAt(t, m[I]) = Shifted(was, at, by)
    <3>1. m[I] \in Counted(t)
      BY <2>4, MovedTo
    <3>2. NumberAt(t, m[I]) = Shifted(NumberAt(s, I), at, by)
      BY <2>4 DEF Renumbers
    <3>  QED BY <2>2, <3>1, <3>2
  <2>6. now = NumberAt(t, m[I]) /\ now \in 1..Count(t)
    BY <1>1, <2>3, <2>5, Numbering
  <2>7. now # 0
    BY <2>6, SourceType
  <2>8. Innermost(t, m[i]) # None /\ now = NumberAt(t, Innermost(t, m[i]))
    BY <2>7 DEF ScopeNumber, now
  <2>9. Innermost(t, m[i]) \in Counted(t)
    BY <1>3, <2>8, InnermostType
  <2>10. Innermost(t, m[i]) = m[I]
    BY <2>5, <2>6, <2>8, <2>9, Numbering
  <2>  QED BY <1>6, <2>10 DEF I
<1>  QED BY <1>5, <1>6

(* The three edits.                                                          *)

\* Citations of numbers that name no line: they go on naming none that was there.
LEMMA DanglingFollows ==
  ASSUME NEW s \in Sources, NEW t \in Sources, NEW m, NEW n, NEW c,
         ~HasNumber(s, n), ~HasNumber(t, c) \/ PositionOf(t, c) \notin Range(m)
  PROVE  Follows(s, t, m, n, c)
BY DEF Follows

\* A line is added at g, which the text numbers at.
LEMMA AddsALine ==
  ASSUME NEW s \in Sources, NEW t \in Sources, NEW g, NEW at, NEW by \in {0, 1},
         Gap(s, t, g), at \in 1..(Count(s) + 1),
         \A i \in Counted(s) : i >= g <=> NumberAt(s, i) >= at,
         by = 0 => at = Count(s) + 1,
         by = 1 => at \in 1..Count(s),
         \A i \in 1..Len(s) : t[Up(g, i)].cites = CiteShift(s[i].cites, at, by),
         NEW m, m = [i \in 1..Len(s) |-> Up(g, i)]
  PROVE  /\ Moves(s, t, m) /\ Renumbers(s, t, m, at, 1, None)
         /\ Recites(s, t, m, at, by)
<1>1. /\ Len(s) \in Nat /\ Len(t) = Len(s) + 1 /\ g \in 1..Len(t) /\ Count(s) \in Nat
      /\ Counted(s) \subseteq 1..Len(s) /\ DOMAIN m = 1..Len(s)
      /\ \A i \in 1..Len(s) : m[i] = Up(g, i) /\ s[i] \in Lines
  BY SourceType DEF Gap
<1>2. Moves(s, t, m)
  <2>1. \A i \in 1..Len(s) : Up(g, i) \in 1..Len(t) /\ t[Up(g, i)].kind = s[i].kind
    BY <1>1 DEF Gap, Up
  <2>  QED BY <1>1, <2>1 DEF Moves
<1>3. Renumbers(s, t, m, at, 1, None)
  <2>1. at \in Nat \ {0}
    BY <1>1
  <2>2. ASSUME NEW i \in DOMAIN m \cap Counted(s)
        PROVE  NumberAt(s, i) # None /\ NumberAt(t, m[i]) = Shifted(NumberAt(s, i), at, 1)
    <3>1. NumberAt(s, i) \in Nat /\ NumberAt(s, i) # None
      BY <1>1, Numbering, EditingAssumption
    <3>2. NumberAt(t, m[i]) = NumberAt(s, i) + (IF i >= g THEN 1 ELSE 0)
      BY <1>1, GapNumbers
    <3>3. i >= g <=> NumberAt(s, i) >= at
      OBVIOUS
    <3>  QED BY <3>1, <3>2, <3>3 DEF Shifted
  <2>  QED BY <2>1, <2>2 DEF Renumbers
<1>4. ASSUME NEW n \in Nat PROVE Follows(s, t, m, n, Shifted(n, at, by))
  <2>1. CASE HasNumber(s, n)
    <3> DEFINE p == PositionOf(s, n)
    <3>1. p \in DOMAIN m \cap Counted(s) /\ NumberAt(s, p) = n
      BY <1>1, <2>1, Numbering
    <3>2. Shifted(n, at, by) = Shifted(n, at, 1)
      <4>1. n \in 1..Count(s)
        BY <2>1 DEF HasNumber
      <4>2. CASE by = 0
        BY <1>1, <4>1, <4>2 DEF Shifted
      <4>  QED BY <4>2
    <3>3. HasNumber(t, Shifted(n, at, 1)) /\ PositionOf(t, Shifted(n, at, 1)) = m[p]
      <4> HIDE DEF p
      <4>  QED BY <1>2, <1>3, <3>1, MovedTo
    <3>  QED BY <2>1, <3>1, <3>2, <3>3 DEF Follows
  <2>2. CASE ~HasNumber(s, n)
    <3> DEFINE c == Shifted(n, at, by)
    <3>1. n = 0 \/ n > Count(s)
      BY <1>1, <2>2 DEF HasNumber
    <3>2. Count(t) = Count(s) + 1
      BY GapNumbers
    <3>3. CASE n = 0
      <4>1. c = 0
        BY <1>1, <3>3 DEF Shifted
      <4>2. ~HasNumber(t, c)
        BY <4>1 DEF HasNumber
      <4>  QED BY <2>2, <4>2, DanglingFollows
    <3>4. CASE n > Count(s) /\ by = 1
      <4>1. c = n + 1
        BY <1>1, <3>4 DEF Shifted
      <4>2. ~HasNumber(t, c)
        BY <1>1, <3>2, <3>4, <4>1 DEF HasNumber
      <4>  QED BY <2>2, <4>2, DanglingFollows
    <3>5. CASE n > Count(s) /\ by = 0
      <4>1. c = n
        BY <1>1, <3>5 DEF Shifted
      <4>2. ASSUME HasNumber(t, c), PositionOf(t, c) \in Range(m) PROVE FALSE
        <5> DEFINE p == PositionOf(t, c)
        <5>1. p \in Counted(t) /\ NumberAt(t, p) = n
          BY <4>1, <4>2, Numbering
        <5>2. p # g
          <6>1. PICK i \in 1..Len(s) : p = Up(g, i)
            BY <1>1, <4>2 DEF Range
          <6>  QED BY <1>1, <6>1 DEF Up
        <5>3. PICK i \in Counted(s) : p = Up(g, i)
          BY <5>1, <5>2, GapNumbers
        <5>4. NumberAt(t, p) = NumberAt(s, i) + (IF i >= g THEN 1 ELSE 0)
          BY <5>3, GapNumbers
        <5>5. NumberAt(s, i) \in 1..Count(s)
          BY Numbering
        <5>6. ~(i >= g)
          BY <1>1, <3>5, <5>5
        <5>  QED BY <1>1, <3>5, <5>1, <5>4, <5>5, <5>6
      <4>  QED BY <2>2, <4>2, DanglingFollows
    <3>  QED BY <3>1, <3>3, <3>4, <3>5
  <2>  QED BY <2>1, <2>2
<1>5. Recites(s, t, m, at, by)
  <2>1. \A i \in 1..Len(s) : s[i].cites # Inferred => s[i].cites \subseteq Nat
    BY <1>1 DEF Lines, Citations
  <2>  QED BY <1>1, <1>4, <2>1 DEF Recites
<1>  QED BY <1>2, <1>3, <1>5

\* The line numbered at is removed, from where it stands.
LEMMA RemovesALine ==
  ASSUME NEW s \in Sources, NEW at, HasNumber(s, at), \A i \in Counted(s) : ~Cites(s[i], at),
         NEW g, g = PositionOf(s, at), NEW t, t = RemoveAt(Renumber(s, at + 1, -1), g),
         NEW m, m = [i \in DOMAIN s \ {g} |-> IF i > g THEN i - 1 ELSE i]
  PROVE  /\ t \in Sources /\ Moves(s, t, m) /\ Renumbers(s, t, m, at, -1, at)
         /\ Recites(s, t, m, at + 1, -1)
         /\ at # 0 /\ \A j \in Counted(s) : NumberAt(s, j) # at => j \in DOMAIN m
<1> DEFINE r == Renumber(s, at + 1, -1)
<1>1. /\ Len(s) \in Nat /\ DOMAIN s = 1..Len(s) /\ Count(s) \in Nat
      /\ Counted(s) \subseteq 1..Len(s) /\ \A i \in 1..Len(s) : s[i] \in Lines
  BY SourceType
<1>2. at \in 1..Count(s) /\ at \in Nat /\ at # 0
  BY <1>1 DEF HasNumber
<1>3. g \in Counted(s) /\ NumberAt(s, g) = at /\ g \in 1..Len(s)
  BY <1>1, Numbering
<1>4. /\ r \in Sources /\ Len(r) = Len(s)
      /\ \A i \in 1..Len(s) : r[i] = [s[i] EXCEPT !.cites = CiteShift(s[i].cites, at + 1, -1)]
  <2>1. at + 1 \in Nat /\ -1 \in {-1, 0, 1} /\ (at + 1) + -1 >= 0
    BY <1>2
  <2>  QED BY <2>1, RenumberType
<1> HIDE DEF r
<1>5. \A i \in 1..Len(s) : r[i].kind = s[i].kind /\ r[i].cites = CiteShift(s[i].cites, at + 1, -1)
  BY <1>1, <1>4 DEF Lines
<1>6. /\ t \in Sources /\ Len(s) = Len(t) + 1
      /\ \A i \in 1..Len(t) : t[i] = r[Up(g, i)]
  BY <1>3, <1>4, Removed DEF r
<1>7. Len(t) \in Nat /\ DOMAIN m = (1..Len(s)) \ {g}
  BY <1>1, <1>6, SourceType
<1>8. \A i \in DOMAIN m : m[i] \in 1..Len(t) /\ Up(g, m[i]) = i /\ (m[i] >= g <=> i > g)
  BY <1>1, <1>3, <1>6, <1>7 DEF Up
<1>9. Gap(t, s, g)
  <2>1. s[g].kind # "comment"
    BY <1>3 DEF Counted
  <2>2. \A i \in 1..Len(t) : Up(g, i) \in 1..Len(s)
    BY <1>3, <1>6, <1>7 DEF Up
  <2>3. \A i \in 1..Len(t) : s[Up(g, i)].kind = t[i].kind
    BY <1>5, <1>6, <2>2
  <2>  QED BY <1>3, <1>6, <2>1, <2>3 DEF Gap
<1>10. Moves(s, t, m)
  <2>1. \A i \in DOMAIN m : t[m[i]] = r[i] /\ r[i].kind = s[i].kind
    BY <1>5, <1>6, <1>7, <1>8
  <2>  QED BY <1>7, <1>8, <2>1 DEF Moves
<1>11. ASSUME NEW i \in DOMAIN m \cap Counted(s)
       PROVE  NumberAt(s, i) # at /\ NumberAt(t, m[i]) = Shifted(NumberAt(s, i), at, -1)
  <2>1. i # g /\ i \in 1..Len(s)
    BY <1>7
  <2>2. NumberAt(s, i) # at /\ NumberAt(s, i) \in Nat
    BY <1>1, <1>3, <2>1, Numbering
  <2>3. i > g <=> NumberAt(s, i) > at
    <3>1. i < g => NumberAt(s, i) < at
      BY <1>3, Numbering
    <3>2. i > g => NumberAt(s, i) > at
      BY <1>2, <1>3, <2>2, Numbering
    <3>  QED BY <1>2, <1>3, <2>1, <2>2, <3>1, <3>2
  <2>4. PICK j \in Counted(t) : i = Up(g, j)
    BY <1>6, <1>9, <2>1, GapNumbers
  <2>5. j = m[i]
    <3>1. j \in 1..Len(t)
      BY <1>6, SourceType
    <3>  QED BY <1>3, <1>7, <1>8, <2>4, <3>1 DEF Up
  <2>6. NumberAt(s, i) = NumberAt(t, j) + (IF j >= g THEN 1 ELSE 0)
    BY <1>6, <1>9, <2>4, GapNumbers
  <2>7. NumberAt(t, j) \in Nat
    BY <1>6, Numbering, SourceType
  <2>8. j >= g <=> NumberAt(s, i) > at
    BY <1>8, <2>3, <2>5
  <2>  QED BY <1>2, <2>2, <2>5, <2>6, <2>7, <2>8 DEF Shifted
<1>12. Renumbers(s, t, m, at, -1, at)
  BY <1>2, <1>11 DEF Renumbers
<1>13. Count(s) = Count(t) + 1 /\ Count(t) \in Nat
  BY <1>6, <1>9, GapNumbers, SourceType
<1>14. ASSUME NEW n \in Nat, n # at PROVE Follows(s, t, m, n, Shifted(n, at + 1, -1))
  <2>1. CASE HasNumber(s, n)
    <3> DEFINE p == PositionOf(s, n)
    <3>1. p \in Counted(s) /\ NumberAt(s, p) = n
      BY <2>1, Numbering
    <3> HIDE DEF p
    <3>2. p \in DOMAIN m \cap Counted(s)
      BY <1>1, <1>3, <1>7, <1>14, <3>1
    <3>3. Shifted(n, at + 1, -1) = Shifted(n, at, -1)
      BY <1>2, <1>14 DEF Shifted
    <3>4. HasNumber(t, Shifted(n, at, -1)) /\ PositionOf(t, Shifted(n, at, -1)) = m[p]
      BY <1>6, <1>10, <1>12, <3>1, <3>2, MovedTo
    <3>  QED BY <2>1, <3>2, <3>3, <3>4 DEF Follows, p
  <2>2. CASE ~HasNumber(s, n)
    <3>1. n = 0 \/ n > Count(s)
      BY <1>1, <2>2 DEF HasNumber
    <3>2. ~HasNumber(t, Shifted(n, at + 1, -1))
      BY <1>2, <1>13, <3>1 DEF HasNumber, Shifted
    <3>  QED BY <1>6, <2>2, <3>2, DanglingFollows
  <2>  QED BY <2>1, <2>2
<1>15. Recites(s, t, m, at + 1, -1)
  <2> SUFFICES ASSUME NEW i \in DOMAIN m
               PROVE  /\ t[m[i]].cites = CiteShift(s[i].cites, at + 1, -1)
                      /\ s[i].cites # Inferred => \A n \in s[i].cites : Follows(s, t, m, n, Shifted(n, at + 1, -1))
    BY DEF Recites
  <2>1. i \in 1..Len(s) /\ t[m[i]] = r[i]
    BY <1>6, <1>7, <1>8
  <2>2. t[m[i]].cites = CiteShift(s[i].cites, at + 1, -1)
    BY <1>5, <2>1
  <2>3. ASSUME s[i].cites # Inferred, NEW n \in s[i].cites PROVE n \in Nat /\ n # at
    <3>1. n \in Nat
      BY <1>1, <2>1, <2>3 DEF Lines, Citations
    <3>2. i \in Counted(s)
      <4>1. s[i].kind = "comment" => s[i].cites = {}
        BY <1>1, <2>1 DEF Sources
      <4>  QED BY <1>1, <2>1, <2>3, <4>1 DEF Counted
    <3>  QED BY <2>3, <3>1, <3>2 DEF Cites
  <2>  QED BY <1>14, <2>2, <2>3
<1>16. \A j \in Counted(s) : NumberAt(s, j) # at => j \in DOMAIN m
  BY <1>1, <1>3, <1>7
<1>  QED BY <1>2, <1>6, <1>10, <1>12, <1>15, <1>16

\* A line's needs and citation are no part of what the others are read by.
LEMMA CitesAnew ==
  ASSUME NEW s \in Sources, NEW op \in CitePayloads, NEW t, t = ProposeCitation(op, s), t # None,
         NEW g, g = PositionOf(s, op.at)
  PROVE  /\ t \in Sources /\ Len(t) = Len(s) /\ g \in 1..Len(s) /\ s[g].kind = "statement"
         /\ \A i \in 1..Len(s) : /\ t[i].kind = s[i].kind /\ t[i].indent = s[i].indent
                                 /\ t[i].formula = s[i].formula
                                 /\ i # g => t[i] = s[i]
<1>1. /\ s \in Seq(Lines) /\ Len(s) \in Nat /\ DOMAIN s = 1..Len(s)
      /\ Counted(s) \subseteq 1..Len(s) /\ \A i \in 1..Len(s) : s[i] \in Lines
  BY SourceType
<1> DEFINE new == [s[g] EXCEPT !.needs = op.needs, !.cites = op.cites]
<1>2. /\ t = [s EXCEPT ![g].needs = op.needs, ![g].cites = op.cites]
      /\ HasNumber(s, op.at) /\ s[g].kind = "statement"
  BY DEF ProposeCitation
<1>3. op.needs \in SUBSET Formulas /\ op.cites \in Citations
  BY DEF CitePayloads
<1>4. g \in 1..Len(s)
  BY <1>1, <1>2, Numbering
<1>5. /\ new \in Lines /\ new.kind = s[g].kind /\ new.indent = s[g].indent
      /\ new.formula = s[g].formula
  BY <1>1, <1>3, <1>4 DEF Lines
<1>6. t = [s EXCEPT ![g] = new]
  BY <1>1, <1>2, <1>4
<1>7. t \in Seq(Lines) /\ Len(t) = Len(s) /\ \A i \in 1..Len(s) : t[i] = IF i = g THEN new ELSE s[i]
  <2> HIDE DEF new
  <2>1. new \in Lines
    BY <1>5
  <2>2. /\ [s EXCEPT ![g] = new] \in Seq(Lines) /\ Len([s EXCEPT ![g] = new]) = Len(s)
        /\ \A i \in 1..Len(s) : [s EXCEPT ![g] = new][i] = IF i = g THEN new ELSE s[i]
    BY <1>1, <1>4, <2>1, ExceptSeq
  <2>  QED BY <1>6, <2>2
<1>8. \A i \in DOMAIN t : t[i].kind = "comment" => t[i].cites = {}
  <2>1. DOMAIN t = 1..Len(s)
    BY <1>1, <1>6
  <2>2. \A i \in 1..Len(s) : s[i].kind = "comment" => s[i].cites = {}
    BY <1>1 DEF Sources
  <2>  QED BY <1>2, <1>5, <1>7, <2>1, <2>2
<1>  QED BY <1>2, <1>4, <1>5, <1>7, <1>8 DEF Sources

LEMMA CitesKeeps ==
  ASSUME NEW s \in Sources, NEW op \in CitePayloads, NEW t, t = ProposeCitation(op, s), t # None,
         NEW m, m = Kept(op, s)
  PROVE  /\ t \in Sources /\ Moves(s, t, m) /\ Recites(s, t, m, 1, 0)
         /\ \A i \in DOMAIN m : Valid(s, i) => Valid(t, m[i])
         /\ \A i \in DOMAIN m : 
              Innermost(t, m[i]) = IF Innermost(s, i) = None THEN None ELSE m[Innermost(s, i)]
<1> DEFINE g == PositionOf(s, op.at)
<1>1. /\ t \in Sources /\ Len(t) = Len(s) /\ g \in 1..Len(s) /\ s[g].kind = "statement"
      /\ \A i \in 1..Len(s) : /\ t[i].kind = s[i].kind /\ t[i].indent = s[i].indent
                              /\ t[i].formula = s[i].formula
                              /\ i # g => t[i] = s[i]
  BY CitesAnew
<1>2. m = [i \in DOMAIN s \ {g} |-> i]
  <2>1. op.kind = "cite"
    BY DEF CitePayloads
  <2>  QED BY <2>1 DEF Kept
<1> HIDE DEF g
<1>3. /\ Len(s) \in Nat /\ DOMAIN s = 1..Len(s) /\ DOMAIN t = 1..Len(s)
      /\ Counted(s) \subseteq 1..Len(s) /\ \A i \in 1..Len(s) : s[i] \in Lines
  BY <1>1, SourceType
<1>4. DOMAIN m = (1..Len(s)) \ {g} /\ \A i \in DOMAIN m : m[i] = i /\ i \in 1..Len(s) /\ i # g
  BY <1>2, <1>3
<1>5. Counted(t) = Counted(s)
  BY <1>1, <1>3 DEF Counted
<1>6. /\ Count(t) = Count(s) /\ \A i : NumberAt(t, i) = NumberAt(s, i)
      /\ \A n : HasNumber(t, n) = HasNumber(s, n)
      /\ \A n : PositionOf(t, n) = PositionOf(s, n)
  BY <1>5 DEF Count, NumberAt, HasNumber, PositionOf
<1>7. Moves(s, t, m)
  BY <1>1, <1>3, <1>4 DEF Moves
<1>8. Recites(s, t, m, 1, 0)
  <2> SUFFICES ASSUME NEW i \in DOMAIN m
               PROVE  /\ t[m[i]].cites = CiteShift(s[i].cites, 1, 0)
                      /\ s[i].cites # Inferred => \A n \in s[i].cites : Follows(s, t, m, n, Shifted(n, 1, 0))
    BY DEF Recites
  <2>1. t[m[i]] = s[i] /\ s[i].cites \in Citations
    BY <1>1, <1>3, <1>4 DEF Lines
  <2>2. \A n \in Nat : Shifted(n, 1, 0) = n
    BY DEF Shifted
  <2>3. s[i].cites # Inferred => s[i].cites \subseteq Nat
    BY <2>1 DEF Citations
  <2>4. CiteShift(s[i].cites, 1, 0) = s[i].cites
    BY <2>2, <2>3 DEF CiteShift
  <2>5. ASSUME NEW n \in Nat PROVE Follows(s, t, m, n, n)
    <3>1. HasNumber(s, n) => PositionOf(s, n) \in 1..Len(s)
      BY <1>3, Numbering
    <3>2. \A p \in Range(m) : p # g
      BY <1>4 DEF Range
    <3>  QED BY <1>4, <1>6, <3>1, <3>2 DEF Follows
  <2>  QED BY <2>1, <2>2, <2>3, <2>4, <2>5
<1>9. \A i \in 1..Len(s) : Around(t, i) = Around(s, i)
  <2>1. \A k \in Counted(s) : t[k].indent = s[k].indent /\ t[k].kind = s[k].kind
    BY <1>1, <1>3
  <2>2. \A i \in 1..Len(s) : \A j \in Counted(s) : Encloses(t, j, i) <=> Encloses(s, j, i)
    BY <1>5, <2>1 DEF Encloses
  <2>  QED BY <1>5, <2>2 DEF Around
<1>10. \A i \in 1..Len(s) : Innermost(t, i) = Innermost(s, i)
  <2> TAKE i \in 1..Len(s)
  <2>1. Around(t, i) = Around(s, i)
    BY <1>9
  <2>  QED BY <2>1 DEF Innermost
<1>11. \A i \in 1..Len(s) : Within(t, i) = Within(s, i)
  BY <1>1, <1>9 DEF Within
<1>12. \A i, j \in 1..Len(s) : Visible(t, j, i) <=> Visible(s, j, i)
  BY <1>11 DEF Visible
<1>13. \A i \in 1..Len(s) : Above(t, i) = Above(s, i)
  BY <1>3, <1>5, <1>12 DEF Above
<1>14. \A i \in 1..Len(s) : \A n : Nearest(t, i, n) = Nearest(s, i, n) /\ Nearest(s, i, n) \subseteq Counted(s)
  BY <1>13 DEF Nearest, Above
<1>15. ASSUME NEW i \in DOMAIN m, NEW C \in SUBSET Counted(s), Justified(s, i, C)
       PROVE  Justified(t, i, C)
  <2>1. \A j \in C : Visible(t, j, i)
    BY <1>3, <1>4, <1>12, <1>15 DEF Justified
  <2>2. {t[j].formula : j \in C} = {s[j].formula : j \in C}
    BY <1>1, <1>3
  <2>3. t[i].needs = s[i].needs
    BY <1>1, <1>4
  <2>  QED BY <1>15, <2>1, <2>2, <2>3 DEF Justified
<1>16. ASSUME NEW i \in DOMAIN m, Valid(s, i) PROVE Valid(t, m[i])
  <2>1. m[i] = i /\ t[i] = s[i] /\ i \in 1..Len(s)
    BY <1>1, <1>4
  <2>2. CASE s[i].kind # "statement"
    BY <2>1, <2>2 DEF Valid
  <2>3. CASE /\ s[i].kind = "statement" /\ s[i].cites = Inferred
             /\ Justified(s, i, Nearest(s, i, Cardinality(s[i].needs)))
    <3>1. Justified(t, i, Nearest(s, i, Cardinality(s[i].needs)))
      BY <1>14, <1>15, <2>1, <2>3
    <3>2. Justified(t, i, Nearest(t, i, Cardinality(t[i].needs)))
      BY <1>14, <2>1, <3>1
    <3>  QED BY <2>1, <2>3, <3>2 DEF Valid
  <2>4. CASE /\ s[i].kind = "statement" /\ s[i].cites # Inferred
             /\ \A n \in s[i].cites : HasNumber(s, n)
             /\ Justified(s, i, {PositionOf(s, n) : n \in s[i].cites})
    <3> DEFINE C == {PositionOf(s, n) : n \in s[i].cites}
    <3>1. C \subseteq Counted(s)
      BY <2>4, Numbering
    <3>2. Justified(t, i, C)
      <4> HIDE DEF C
      <4>1. Justified(s, i, C)
        BY <2>4 DEF C
      <4>  QED BY <1>15, <3>1, <4>1
    <3>3. C = {PositionOf(t, n) : n \in t[i].cites}
      BY <1>6, <2>1
    <3>4. \A n \in t[i].cites : HasNumber(t, n)
      BY <1>6, <2>1, <2>4
    <3> HIDE DEF C
    <3>  QED BY <2>1, <2>4, <3>2, <3>3, <3>4 DEF Valid
  <2>  QED BY <1>16, <2>2, <2>3, <2>4 DEF Valid
<1>17. ASSUME NEW i \in DOMAIN m
       PROVE  Innermost(t, m[i]) = IF Innermost(s, i) = None THEN None ELSE m[Innermost(s, i)]
  <2>1. Innermost(t, m[i]) = Innermost(s, i)
    BY <1>4, <1>10
  <2>2. ASSUME Innermost(s, i) # None PROVE Innermost(s, i) \in DOMAIN m
    <3>1. Innermost(s, i) \in Around(s, i)
      BY <2>2, InnermostType
    <3>2. Innermost(s, i) \in Counted(s) /\ s[Innermost(s, i)].kind = "assumption"
      BY <3>1 DEF Around, Encloses
    <3>3. Innermost(s, i) # g
      BY <1>1, <3>2
    <3>  QED BY <1>3, <1>4, <3>2, <3>3
  <2>  QED BY <1>4, <2>1, <2>2
<1>  QED BY <1>1, <1>7, <1>8, <1>16, <1>17

\* Where a line goes is an indentation.
LEMMA PlacementType ==
  ASSUME NEW s \in Sources, NEW anchor \in 1..Len(s), NEW scope,
         scope # None => HasNumber(s, scope.opener)
  PROVE  Placement(s, anchor, scope) \in Nat
<1>1. /\ Len(s) \in Nat /\ DOMAIN s = 1..Len(s) /\ Counted(s) \subseteq 1..Len(s)
      /\ \A i \in 1..Len(s) : s[i].indent \in Nat
  BY SourceType DEF Lines
<1>2. CASE scope = None
  BY <1>1, <1>2 DEF Placement
<1>3. CASE scope # None
  <2> DEFINE opener == PositionOf(s, scope.opener)
             held == Children(s, opener)
             first == CHOOSE i \in held : \A j \in held : i <= j
  <2>1. opener \in 1..Len(s)
    BY <1>1, <1>3, Numbering
  <2>2. held \subseteq 1..Len(s)
    BY <1>1 DEF Children
  <2>3. Placement(s, anchor, scope) = IF ~scope.inside THEN s[opener].indent
                                      ELSE IF held = {} THEN s[opener].indent + 1
                                      ELSE s[first].indent
    BY <1>3 DEF Placement, IndentStep
  <2>4. held # {} => first \in held
    <3> SUFFICES ASSUME held # {} PROVE first \in held
      OBVIOUS
    <3> HIDE DEF held
    <3>1. held \subseteq Nat
      BY <1>1, <2>2
    <3>2. PICK x \in held : \A y \in held : ~(<<y, x>> \in OpToRel(<, Nat))
      BY <3>1, WFMin, NatLessThanWellFounded
    <3>3. \A y \in held : ~(y < x)
      BY <3>1, <3>2 DEF OpToRel
    <3>4. \A y \in held : x <= y
      BY <3>1, <3>3
    <3>  QED BY <3>4 DEF first
  <2>5. /\ s[opener].indent \in Nat
        /\ held # {} => s[first].indent \in Nat
    <3> HIDE DEF opener, held, first
    <3>  QED BY <1>1, <2>1, <2>2, <2>4
  <2> HIDE DEF opener, held, first
  <2>6. s[opener].indent + 1 \in Nat
    BY <2>5
  <2>  QED BY <2>3, <2>5, <2>6
<1>  QED BY <1>2, <1>3

(* What an edit that is not refused does to the lines it leaves.             *)

Keeps(s, t, m) ==
  /\ \A i \in DOMAIN m : CitedAt(t, m[i]) \cap Range(m) = {m[j] : j \in CitedAt(s, i) \cap DOMAIN m}
  /\ \A i \in DOMAIN m : Valid(s, i) => Valid(t, m[i])
  /\ \A i \in DOMAIN m \cap Counted(s) :
       Innermost(t, m[i]) = IF Innermost(s, i) = None THEN None ELSE m[Innermost(s, i)]

LEMMA MovedKeeps ==
  ASSUME NEW s \in Sources, NEW t \in Sources, NEW m, NEW at, NEW by, NEW cat, NEW cby, NEW dropped,
         Moves(s, t, m), Renumbers(s, t, m, at, by, dropped), Recites(s, t, m, cat, cby),
         ~Broken(s, t, at, by, dropped), ~Rescoped(s, t, at, by, dropped),
         dropped # 0, \A j \in Counted(s) : NumberAt(s, j) # dropped => j \in DOMAIN m
  PROVE  Keeps(s, t, m)
<1>1. \A i \in DOMAIN m : CitedAt(t, m[i]) \cap Range(m) = {m[j] : j \in CitedAt(s, i) \cap DOMAIN m}
  BY CitationsGoOn
<1>2. \A i \in DOMAIN m : Valid(s, i) => Valid(t, m[i])
  BY StandsOn
<1>3. \A i \in DOMAIN m \cap Counted(s) :
        Innermost(t, m[i]) = IF Innermost(s, i) = None THEN None ELSE m[Innermost(s, i)]
  BY ScopeStays
<1>  QED BY <1>1, <1>2, <1>3 DEF Keeps

\* The line a payload adds, where it stands.
Added(op, s) ==
  [kind |-> op.line.kind,
   indent |-> Placement(s, PositionOf(s, IF op.at = None THEN Count(s) ELSE op.at), op.scope),
   formula |-> op.line.formula, needs |-> op.line.needs, cites |-> op.line.cites]

LEMMA LineKeeps ==
  ASSUME NEW s \in Sources, NEW op \in LinePayloads, ProposeLine(op, s) # None
  PROVE  ProposeLine(op, s) \in Sources /\ Keeps(s, ProposeLine(op, s), Kept(op, s))
<1> DEFINE number == IF op.at = None THEN Count(s) + 1 ELSE op.at
           anchor == PositionOf(s, IF op.at = None THEN Count(s) ELSE op.at)
           line == Added(op, s)
           t == IF op.at = None THEN Append(s, line) ELSE InsertAt(Renumber(s, number, 1), anchor, line)
           m == Kept(op, s)
<1>1. /\ ProposeLine(op, s) = t
      /\ Count(s) > 0
      /\ op.at # None => HasNumber(s, op.at)
      /\ op.scope # None => HasNumber(s, op.scope.opener)
      /\ ~Broken(s, t, number, 1, None)
      /\ ~Rescoped(s, t, number, 1, None)
  BY DEF ProposeLine, Added
<1> HIDE DEF t
<1>2. /\ Len(s) \in Nat /\ DOMAIN s = 1..Len(s) /\ Count(s) \in Nat
      /\ Counted(s) \subseteq 1..Len(s) /\ \A i \in 1..Len(s) : s[i] \in Lines
  BY SourceType
<1>3. anchor \in Counted(s) /\ anchor \in 1..Len(s)
  <2>1. HasNumber(s, IF op.at = None THEN Count(s) ELSE op.at)
    BY <1>1, <1>2 DEF HasNumber
  <2>  QED BY <1>2, <2>1, Numbering
<1>4. line \in Lines /\ line.kind # "comment"
  <2>1. Placement(s, anchor, op.scope) \in Nat
    BY <1>1, <1>3, PlacementType
  <2>2. /\ op.line.kind \in {"statement", "assumption"} /\ op.line.formula \in Formulas
        /\ op.line.needs \in SUBSET Formulas /\ op.line.cites \in Citations
    BY DEF LinePayloads
  <2>  QED BY <2>1, <2>2 DEF Added, Lines
<1> HIDE DEF line
<1>5. m = [i \in 1..Len(s) |-> IF op.at # None /\ i >= PositionOf(s, op.at) THEN i + 1 ELSE i]
  <2>1. op.kind = "line"
    BY DEF LinePayloads
  <2>  QED BY <1>2, <2>1 DEF Kept
<1> HIDE DEF m
<1>6. \A j \in Counted(s) : NumberAt(s, j) # None => j \in DOMAIN m
  BY <1>2, <1>5
<1>7. None # 0
  BY EditingAssumption
<1>8. CASE op.at = None
  <2> DEFINE g == Len(s) + 1
  <2>1. t = Append(s, line) /\ number = Count(s) + 1
    BY <1>8 DEF t
  <2>2. t \in Sources /\ Len(t) = g /\ t[g] = line /\ \A i \in 1..Len(s) : t[i] = s[i]
    BY <1>4, <2>1, Appended
  <2>3. \A i \in 1..Len(s) : Up(g, i) = i
    BY <1>2 DEF Up
  <2>4. m = [i \in 1..Len(s) |-> Up(g, i)]
    BY <1>5, <1>8, <2>3
  <2>5. Gap(s, t, g)
    BY <1>2, <1>4, <2>2, <2>3 DEF Gap
  <2>6. \A i \in Counted(s) : i >= g <=> NumberAt(s, i) >= Count(s) + 1
    BY <1>2, Numbering
  <2>7. \A i \in 1..Len(s) : t[Up(g, i)].cites = CiteShift(s[i].cites, Count(s) + 1, 0)
    <3> SUFFICES ASSUME NEW i \in 1..Len(s) PROVE s[i].cites = CiteShift(s[i].cites, Count(s) + 1, 0)
      BY <2>2, <2>3
    <3>1. s[i].cites # Inferred => s[i].cites \subseteq Nat
      BY <1>2 DEF Lines, Citations
    <3>2. \A n \in Nat : Shifted(n, Count(s) + 1, 0) = n
      BY DEF Shifted
    <3>  QED BY <3>1, <3>2 DEF CiteShift
  <2>8. Count(s) + 1 \in 1..(Count(s) + 1)
    BY <1>2
  <2> DEFINE at == Count(s) + 1
  <2>9. 0 \in {0, 1} /\ (0 = 0 => at = Count(s) + 1) /\ (0 = 1 => at \in 1..Count(s))
    OBVIOUS
  <2>10. at = number
    BY <2>1
  <2> HIDE DEF g, at, number
  <2>11. Moves(s, t, m) /\ Renumbers(s, t, m, at, 1, None) /\ Recites(s, t, m, at, 0)
    BY <2>2, <2>4, <2>5, <2>6, <2>7, <2>8, <2>9, AddsALine DEF at
  <2>  QED BY <1>1, <1>6, <1>7, <2>2, <2>10, <2>11, MovedKeeps DEF m, number
<1>9. CASE op.at # None
  <2> DEFINE r == Renumber(s, number, 1)
             g == anchor
  <2>1. t = InsertAt(r, g, line) /\ number = op.at /\ g = PositionOf(s, op.at)
    BY <1>9 DEF t
  <2>2. number \in 1..Count(s) /\ number \in Nat /\ NumberAt(s, g) = number
    BY <1>1, <1>2, <1>9, Numbering DEF HasNumber
  <2>3. /\ r \in Sources /\ Len(r) = Len(s)
        /\ \A i \in 1..Len(s) : r[i] = [s[i] EXCEPT !.cites = CiteShift(s[i].cites, number, 1)]
    <3>1. 1 \in {-1, 0, 1} /\ number + 1 >= 0
      BY <2>2
    <3>  QED BY <2>2, <3>1, RenumberType
  <2> HIDE DEF r, number, anchor
  <2>4. \A i \in 1..Len(s) : r[i].kind = s[i].kind /\ r[i].cites = CiteShift(s[i].cites, number, 1)
    BY <1>2, <2>3 DEF Lines
  <2>5. /\ t \in Sources /\ Len(t) = Len(s) + 1 /\ t[g] = line
        /\ \A i \in 1..Len(s) : t[Up(g, i)] = r[i]
    <3>1. g \in 1..(Len(r) + 1)
      BY <1>2, <1>3, <2>3
    <3>  QED BY <1>4, <2>1, <2>3, <3>1, Inserted
  <2>6. m = [i \in 1..Len(s) |-> Up(g, i)]
    BY <1>5, <1>9, <2>1 DEF Up
  <2>7. Gap(s, t, g)
    BY <1>2, <1>3, <1>4, <2>4, <2>5 DEF Gap
  <2>8. \A i \in Counted(s) : i >= g <=> NumberAt(s, i) >= number
    <3> TAKE i \in Counted(s)
    <3>1. i \in Nat /\ g \in Nat /\ NumberAt(s, i) \in Nat
      BY <1>2, <1>3, Numbering
    <3>2. i < g => NumberAt(s, i) < number
      BY <1>3, <2>2, Numbering
    <3>3. i > g => NumberAt(s, i) > number
      <4>1. i > g => NumberAt(s, g) < NumberAt(s, i)
        BY <1>3, <3>1, Numbering
      <4>  QED BY <2>2, <3>1, <4>1
    <3>  QED BY <2>2, <3>1, <3>2, <3>3
  <2>9. number \in 1..(Count(s) + 1)
    BY <1>2, <2>2
  <2>10. \A i \in 1..Len(s) : t[Up(g, i)].cites = CiteShift(s[i].cites, number, 1)
    BY <2>4, <2>5
  <2>11. 1 \in {0, 1} /\ (1 = 0 => number = Count(s) + 1) /\ (1 = 1 => number \in 1..Count(s))
    BY <2>2
  <2> HIDE DEF g
  <2>12. Moves(s, t, m) /\ Renumbers(s, t, m, number, 1, None) /\ Recites(s, t, m, number, 1)
    BY <2>5, <2>6, <2>7, <2>8, <2>9, <2>10, <2>11, AddsALine
  <2>  QED BY <1>1, <1>6, <1>7, <2>5, <2>12, MovedKeeps DEF m, number
<1>  QED BY <1>8, <1>9

LEMMA RemoveKeeps ==
  ASSUME NEW s \in Sources, NEW op \in RemovePayloads, RemoveLine(op, s) # None
  PROVE  RemoveLine(op, s) \in Sources /\ Keeps(s, RemoveLine(op, s), Kept(op, s))
<1> DEFINE g == PositionOf(s, op.at)
           t == RemoveAt(Renumber(s, op.at + 1, -1), g)
           m == Kept(op, s)
<1>1. /\ RemoveLine(op, s) = t /\ HasNumber(s, op.at)
      /\ \A i \in Counted(s) : ~Cites(s[i], op.at)
      /\ ~Broken(s, t, op.at, -1, op.at) /\ ~Rescoped(s, t, op.at, -1, op.at)
  BY DEF RemoveLine
<1>2. m = [i \in DOMAIN s \ {g} |-> IF i > g THEN i - 1 ELSE i]
  <2>1. op.kind = "remove"
    BY DEF RemovePayloads
  <2>  QED BY <2>1 DEF Kept
<1> HIDE DEF g, t, m
<1>3. /\ t \in Sources /\ Moves(s, t, m) /\ Renumbers(s, t, m, op.at, -1, op.at)
      /\ Recites(s, t, m, op.at + 1, -1)
      /\ op.at # 0 /\ \A j \in Counted(s) : NumberAt(s, j) # op.at => j \in DOMAIN m
  BY <1>1, <1>2, RemovesALine DEF g, t
<1>  QED BY <1>1, <1>3, MovedKeeps DEF m

LEMMA CitationKeeps ==
  ASSUME NEW s \in Sources, NEW op \in CitePayloads, ProposeCitation(op, s) # None
  PROVE  ProposeCitation(op, s) \in Sources /\ Keeps(s, ProposeCitation(op, s), Kept(op, s))
<1> DEFINE t == ProposeCitation(op, s)
           m == Kept(op, s)
<1> HIDE DEF t, m
<1>1. /\ t \in Sources /\ Moves(s, t, m) /\ Recites(s, t, m, 1, 0)
      /\ \A i \in DOMAIN m : Valid(s, i) => Valid(t, m[i])
      /\ \A i \in DOMAIN m : 
           Innermost(t, m[i]) = IF Innermost(s, i) = None THEN None ELSE m[Innermost(s, i)]
  BY CitesKeeps DEF t, m
<1>2. \A i \in DOMAIN m : CitedAt(t, m[i]) \cap Range(m) = {m[j] : j \in CitedAt(s, i) \cap DOMAIN m}
  BY <1>1, CitationsGoOn
<1>  QED BY <1>1, <1>2 DEF Keeps, t, m

LEMMA OutcomeKeeps ==
  ASSUME NEW s \in Sources, NEW op \in Operations, Outcome(op, s) # None
  PROVE  Outcome(op, s) \in Sources /\ Keeps(s, Outcome(op, s), Kept(op, s))
<1>1. CASE op \in LinePayloads
  <2>1. Outcome(op, s) = ProposeLine(op, s)
    BY <1>1 DEF Outcome, LinePayloads
  <2>  QED BY <1>1, <2>1, LineKeeps
<1>2. CASE op \in RemovePayloads
  <2>1. Outcome(op, s) = RemoveLine(op, s)
    BY <1>2 DEF Outcome, RemovePayloads
  <2>  QED BY <1>2, <2>1, RemoveKeeps
<1>3. CASE op \in CitePayloads
  <2>1. Outcome(op, s) = ProposeCitation(op, s)
    BY <1>3 DEF Outcome, CitePayloads
  <2>  QED BY <1>3, <2>1, CitationKeeps
<1>  QED BY <1>1, <1>2, <1>3, EditingAssumption

(* The states: what waits to be stored was made of the source that is there. *)

Written(op) ==
  [stage |-> "waiting", kind |-> op.kind, at |-> op.at, written |-> Outcome(op, source)]

EditInv ==
  /\ source \in Sources
  /\ DOMAIN req = Requests
  /\ \A r \in Requests :
       req[r] = Idle \/ \E op \in Operations : Outcome(op, source) # None /\ req[r] = Written(op)
  /\ OneAtATime

LEMMA InitEdit == Init => EditInv
BY EditingAssumption DEF Init, EditInv, OneAtATime

LEMMA NextEdit == EditInv /\ [Next /\ OneAtATime']_vars => EditInv'
<1> SUFFICES ASSUME EditInv, [Next /\ OneAtATime']_vars PROVE EditInv'
  OBVIOUS
<1>1. ASSUME NEW r \in Requests, NEW op \in Operations, Begin(r, op), OneAtATime' PROVE EditInv'
  <2>1. source' = source /\ Outcome(op, source) # None
    BY <1>1 DEF Begin
  <2>2. req' = [req EXCEPT ![r] = Written(op)] /\ DOMAIN req = Requests
    BY <1>1 DEF Begin, Written, EditInv
  <2>3. \A o \in Operations : Written(o)' = Written(o) /\ Outcome(o, source)' = Outcome(o, source)
    BY <2>1 DEF Written
  <2>4. \A s \in Requests : req'[s] = Idle \/ \E o \in Operations : Outcome(o, source') # None /\ req'[s] = Written(o)'
    <3> TAKE s \in Requests
    <3>1. CASE s = r
      BY <2>1, <2>2, <2>3, <3>1
    <3>2. CASE s # r
      BY <2>1, <2>2, <2>3, <3>2 DEF EditInv
    <3>  QED BY <3>1, <3>2
  <2>5. DOMAIN req' = Requests
    BY <2>2
  <2>  QED BY <1>1, <2>1, <2>4, <2>5 DEF EditInv
<1>2. ASSUME NEW r \in Requests, Finish(r), OneAtATime' PROVE EditInv'
  <2>1. req[r].stage = "waiting" /\ source' = req[r].written /\ req' = [req EXCEPT ![r] = Idle] /\ DOMAIN req = Requests
    BY <1>2 DEF Finish, EditInv
  <2>2. req[r] # Idle
    BY <2>1 DEF Idle
  <2>3. PICK op \in Operations : Outcome(op, source) # None /\ req[r] = Written(op)
    BY <2>2 DEF EditInv
  <2>4. source' = Outcome(op, source)
    BY <2>1, <2>3 DEF Written
  <2>5. source' \in Sources
    BY <2>3, <2>4, OutcomeKeeps DEF EditInv
  <2>6. \A s \in Requests : req'[s] = Idle
    BY <2>1, <2>2 DEF EditInv, OneAtATime
  <2>  QED BY <1>2, <2>1, <2>5, <2>6 DEF EditInv
<1>3. CASE UNCHANGED vars
  BY <1>3 DEF vars, EditInv, OneAtATime, Written
<1>  QED BY <1>1, <1>2, <1>3 DEF Next

\* An edit that ends leaves the lines it does not remove as they were.
LEMMA EndsKeeping ==
  ASSUME EditInv, [Next /\ OneAtATime']_vars, NEW r \in Requests, Ends(r)
  PROVE  Keeps(source, source', Kept(req[r], source))
<1>1. req[r] # Idle /\ req'[r] = Idle
  BY DEF Ends
<1>2. ASSUME NEW s \in Requests, NEW op \in Operations, Begin(s, op) PROVE FALSE
  <2>1. req' = [req EXCEPT ![s] = Written(op)] /\ DOMAIN req = Requests
    BY <1>2 DEF Begin, Written, EditInv
  <2>2. Written(op) # Idle
    <3>1. Written(op).stage = "waiting" /\ Idle.stage = "idle"
      BY DEF Written, Idle
    <3>  QED BY <3>1
  <2>  QED BY <1>1, <2>1, <2>2
<1>3. ASSUME NEW s \in Requests, Finish(s) PROVE Keeps(source, source', Kept(req[r], source))
  <2>1. req' = [req EXCEPT ![s] = Idle] /\ DOMAIN req = Requests /\ source' = req[s].written
    BY <1>3 DEF Finish, EditInv
  <2>2. s = r
    BY <1>1, <2>1
  <2>3. PICK op \in Operations : Outcome(op, source) # None /\ req[r] = Written(op)
    BY <1>1 DEF EditInv
  <2>4. source' = Outcome(op, source) /\ req[r].kind = op.kind /\ req[r].at = op.at
    BY <2>1, <2>2, <2>3 DEF Written
  <2>5. Kept(req[r], source) = Kept(op, source)
    BY <2>4 DEF Kept
  <2>  QED BY <2>3, <2>4, <2>5, OutcomeKeeps DEF EditInv
<1>4. CASE UNCHANGED vars
  BY <1>1, <1>4 DEF vars
<1>  QED BY <1>2, <1>3, <1>4 DEF Next

LEMMA AlwaysEdit == SerialSpec => []EditInv
BY InitEdit, NextEdit, PTL DEF SerialSpec

\* The source is one the reader of a text can make, at all times.
THEOREM SourceTyped == SerialSpec => [](source \in Sources)
<1>1. EditInv => source \in Sources
  BY DEF EditInv
<1>  QED BY <1>1, AlwaysEdit, PTL

\* Every line an edit leaves goes on citing the lines it cited, and no other.
THEOREM CitationsAlwaysFollow == SerialSpec => CitationsFollow
<1> DEFINE A == \A r \in Requests : Ends(r) => LET at == Kept(req[r], source) IN
                  \A i \in DOMAIN at :
                    CitedAt(source', at[i]) \cap Range(at) = {at[j] : j \in CitedAt(source, i) \cap DOMAIN at}
<1>1. EditInv /\ [Next /\ OneAtATime']_vars => [A]_vars
  BY EndsKeeping DEF Keeps
<1>2. SerialSpec => [][A]_vars
  BY <1>1, AlwaysEdit, PTL DEF SerialSpec
<1>  QED BY <1>2, PTL DEF CitationsFollow

\* A line that stood goes on standing after every edit of another.
THEOREM StandingAlwaysKept == SerialSpec => StandingKept
<1> DEFINE A == \A r \in Requests : Ends(r) => LET at == Kept(req[r], source) IN
                  \A i \in DOMAIN at : Valid(source, i) => Valid(source', at[i])
<1>1. EditInv /\ [Next /\ OneAtATime']_vars => [A]_vars
  BY EndsKeeping DEF Keeps
<1>2. SerialSpec => [][A]_vars
  BY <1>1, AlwaysEdit, PTL DEF SerialSpec
<1>  QED BY <1>2 DEF StandingKept

\* No line an edit leaves moves into another subproof.
THEOREM ScopesAlwaysKept == SerialSpec => ScopesKept
<1> DEFINE A == \A r \in Requests : Ends(r) => LET at == Kept(req[r], source) IN
                  \A i \in DOMAIN at \cap Counted(source) :
                    LET was == Innermost(source, i)
                    IN  Innermost(source', at[i]) = IF was = None THEN None ELSE at[was]
<1>1. EditInv /\ [Next /\ OneAtATime']_vars => [A]_vars
  BY EndsKeeping DEF Keeps
<1>2. SerialSpec => [][A]_vars
  BY <1>1, AlwaysEdit, PTL DEF SerialSpec
<1>  QED BY <1>2 DEF ScopesKept
=============================================================================
