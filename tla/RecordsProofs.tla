--------------------------- MODULE RecordsProofs ----------------------------
(***************************************************************************)
(* Theorems about Records, for lists and maps of any length, values nested *)
(* to any depth and any number of fields that are not plain.               *)
(***************************************************************************)
EXTENDS Records, SequenceTheorems, WellFoundedInduction, TLAPS

Kinds == Scalar \union {"NIL"}
Tokens == [kind : Kinds \union {"LIST", "MAP", "TUPLE"}, arity : Nat, data : BOOLEAN]
Terms == Seq(Tokens)

(***************************************************************************)
(* Induction over the natural numbers, for sets of them.                   *)
(***************************************************************************)
LEMMA NatLeast ==
    ASSUME NEW S \in SUBSET Nat, S # {}
    PROVE  \E n \in S : \A m \in S : n <= m
  <1>1. IsWellFoundedOn(OpToRel(<, Nat), Nat) BY NatLessThanWellFounded
  <1>2. PICK n \in S : \A m \in S : ~(<<m, n>> \in OpToRel(<, Nat)) BY <1>1, WFMin
  <1>3. \A m \in S : ~(m < n) BY <1>2 DEF OpToRel
  <1> QED BY <1>3

LEMMA NatSet ==
    ASSUME NEW S \in SUBSET Nat, 0 \in S, \A n \in S : n + 1 \in S
    PROVE  S = Nat
  <1> SUFFICES ASSUME Nat \ S # {} PROVE FALSE OBVIOUS
  <1>1. PICK n \in Nat \ S : \A m \in Nat \ S : n <= m BY NatLeast
  <1>2. n # 0 /\ n - 1 \in S BY <1>1
  <1> QED BY <1>1, <1>2

(***************************************************************************)
(* Terms after one another: f[k] is the first k of ts.                     *)
(***************************************************************************)
Joins(ts, n, f) == f[0] = <<>> /\ \A k \in 1 .. n : f[k] = f[k - 1] \o ts[k]

LEMMA JoinsExist ==
    ASSUME NEW ts \in Seq(Terms)
    PROVE  \E f : Joins(ts, Len(ts), f)
  <1> DEFINE S == {n \in Nat : \E f : Joins(ts, n, f)}
  <1>1. 0 \in S
    <2>1. Joins(ts, 0, [k \in 0 .. 0 |-> <<>>]) BY DEF Joins
    <2> QED BY <2>1
  <1>2. ASSUME NEW n \in S PROVE n + 1 \in S
    <2>1. n \in Nat BY <1>2
    <2>2. PICK f : Joins(ts, n, f) BY <1>2
    <2> DEFINE g == [k \in 0 .. n + 1 |-> IF k = n + 1 THEN f[n] \o ts[n + 1] ELSE f[k]]
    <2>3. g[0] = <<>> BY <2>1, <2>2 DEF Joins
    <2>4. ASSUME NEW k \in 1 .. n + 1 PROVE g[k] = g[k - 1] \o ts[k]
      <3>1. CASE k = n + 1
        <4>1. g[k] = f[n] \o ts[n + 1] /\ g[k - 1] = f[n] BY <2>1, <3>1
        <4> QED BY <3>1, <4>1
      <3>2. CASE k # n + 1
        <4>1. k \in 1 .. n /\ g[k] = f[k] /\ g[k - 1] = f[k - 1] BY <2>1, <3>2
        <4> QED BY <2>2, <4>1 DEF Joins
      <3> QED BY <3>1, <3>2
    <2> HIDE DEF g
    <2>5. Joins(ts, n + 1, g) BY <2>3, <2>4 DEF Joins
    <2> QED BY <2>1, <2>5
  <1> HIDE DEF S
  <1>3. S \in SUBSET Nat BY DEF S
  <1>4. S = Nat BY <1>1, <1>2, <1>3, NatSet
  <1>5. Len(ts) \in S BY <1>4, LenProperties
  <1> QED BY <1>5 DEF S

LEMMA JoinsTerms ==
    ASSUME NEW ts \in Seq(Terms), NEW n \in 0 .. Len(ts), NEW f, Joins(ts, n, f)
    PROVE  \A k \in 0 .. n : f[k] \in Terms
  <1> DEFINE S == {k \in Nat : k <= n => f[k] \in Terms}
  <1>1. 0 \in S BY EmptySeq DEF Joins, Terms
  <1>2. ASSUME NEW k \in S PROVE k + 1 \in S
    <2> SUFFICES ASSUME k + 1 <= n PROVE f[k + 1] \in Terms BY <1>2
    <2>1. k \in Nat /\ f[k] \in Terms /\ k + 1 \in 1 .. n /\ (k + 1) - 1 = k BY <1>2
    <2>2. ts[k + 1] \in Terms
      <3>1. k + 1 \in 1 .. Len(ts) BY <2>1, LenProperties
      <3> QED BY <3>1, ElementOfSeq
    <2>3. f[k + 1] = f[k] \o ts[k + 1] BY <2>1 DEF Joins
    <2> QED BY <2>1, <2>2, <2>3, ConcatProperties DEF Terms
  <1> HIDE DEF S
  <1>3. S \in SUBSET Nat BY DEF S
  <1>4. S = Nat BY <1>1, <1>2, <1>3, NatSet
  <1>5. \A k \in 0 .. n : k \in S BY <1>4
  <1> QED BY <1>5 DEF S

Agree(ts, us, n) == \A k \in 1 .. n : ts[k] = us[k]

LEMMA JoinsSame ==
    ASSUME NEW ts, NEW us, NEW n \in Nat, NEW m \in Nat, NEW l \in Nat, l <= n, l <= m,
           Agree(ts, us, l), NEW f, Joins(ts, n, f), NEW g, Joins(us, m, g)
    PROVE  f[l] = g[l]
  <1> DEFINE S == {k \in Nat : k <= l => f[k] = g[k]}
  <1>1. 0 \in S BY DEF Joins
  <1>2. ASSUME NEW k \in S PROVE k + 1 \in S
    <2> SUFFICES ASSUME k + 1 <= l PROVE f[k + 1] = g[k + 1] BY <1>2
    <2>1. /\ k \in Nat /\ f[k] = g[k] /\ (k + 1) - 1 = k
          /\ k + 1 \in 1 .. l /\ k + 1 \in 1 .. n /\ k + 1 \in 1 .. m
      BY <1>2
    <2>2. f[k + 1] = f[k] \o ts[k + 1] BY <2>1 DEF Joins
    <2>3. g[k + 1] = g[k] \o us[k + 1] BY <2>1 DEF Joins
    <2>4. ts[k + 1] = us[k + 1] BY <2>1 DEF Agree
    <2> QED BY <2>1, <2>2, <2>3, <2>4
  <1> HIDE DEF S
  <1>3. S \in SUBSET Nat BY DEF S
  <1>4. S = Nat BY <1>1, <1>2, <1>3, NatSet
  <1>5. l \in S BY <1>4
  <1> QED BY <1>5 DEF S

(* What FlattenSeq of the community modules is.                            *)
LEMMA FlattenIs ==
    ASSUME NEW ts \in Seq(Terms), NEW f, Joins(ts, Len(ts), f)
    PROVE  FlattenSeq(ts) = f[Len(ts)]
  <1> DEFINE n == Len(ts)
  <1>1. n \in Nat BY LenProperties
  <1>2. CASE n = 0
    <2>1. ts = <<>> BY <1>2, EmptySeq
    <2>2. FlattenSeq(ts) = ts BY <1>2 DEF FlattenSeq
    <2> QED BY <1>2, <2>1, <2>2 DEF Joins
  <1>3. CASE n # 0
    <2> DEFINE R(g) == g = [i \in 1 .. n |-> IF i = 1 THEN ts[i] ELSE g[i - 1] \o ts[i]]
               h == CHOOSE g : R(g)
               j == [i \in 1 .. n |-> f[i]]
               e == [i \in 0 .. n |-> IF i = 0 THEN <<>> ELSE h[i]]
    <2>1. FlattenSeq(ts) = h[n] BY <1>3 DEF FlattenSeq
    <2>2. f[1] = ts[1]
      <3>1. 1 \in 1 .. n /\ 1 \in 1 .. Len(ts) BY <1>1, <1>3
      <3>2. f[1] = f[0] \o ts[1] /\ f[0] = <<>>
        <4>1. f[1] = f[1 - 1] \o ts[1] BY <3>1, Zenon DEF Joins
        <4>2. 1 - 1 = 0 OBVIOUS
        <4>3. f[1 - 1] = f[0] BY <4>2, Zenon
        <4> QED BY <4>1, <4>3, Zenon DEF Joins
      <3>3. ts[1] \in Terms BY <3>1, ElementOfSeq
      <3> QED BY <3>2, <3>3, ConcatEmptySeq DEF Terms
    <2>3. R(j)
      <3>1. ASSUME NEW i \in 1 .. n
            PROVE  f[i] = IF i = 1 THEN ts[i] ELSE j[i - 1] \o ts[i]
        <4>1. CASE i = 1 BY <2>2, <4>1
        <4>2. CASE i # 1
          <5>1. i - 1 \in 1 .. n BY <1>1, <4>2
          <5>2. j[i - 1] = f[i - 1] BY <5>1
          <5> QED BY <4>2, <5>2 DEF Joins
        <4> QED BY <4>1, <4>2
      <3>2. j = [i \in 1 .. n |-> f[i]] OBVIOUS
      <3> HIDE DEF j
      <3> QED BY <3>1, <3>2, Zenon
    <2>4. R(h)
      <3> HIDE DEF R
      <3> QED BY <2>3
    <2>5. Joins(ts, n, e)
      <3>1. e[0] = <<>> BY <1>1
      <3>2. ASSUME NEW k \in 1 .. n PROVE e[k] = e[k - 1] \o ts[k]
        <4>1. e[k] = h[k] BY <1>1
        <4>2. h[k] = IF k = 1 THEN ts[k] ELSE h[k - 1] \o ts[k]
          <5> HIDE DEF h
          <5> QED BY <2>4
        <4>3. CASE k = 1
          <5>1. ts[1] \in Terms
            <6>1. 1 \in 1 .. Len(ts) BY <1>1, <1>3
            <6> QED BY <6>1, ElementOfSeq
          <5>2. <<>> \o ts[1] = ts[1] BY <5>1, ConcatEmptySeq DEF Terms
          <5>3. e[k - 1] = <<>> BY <1>1, <4>3
          <5> QED BY <4>1, <4>2, <4>3, <5>2, <5>3
        <4>4. CASE k # 1
          <5>1. k - 1 \in 0 .. n /\ k - 1 # 0 BY <1>1, <4>4
          <5>2. e[k - 1] = h[k - 1] BY <5>1
          <5> QED BY <4>1, <4>2, <4>4, <5>2
        <4> QED BY <4>3, <4>4
      <3> HIDE DEF e
      <3> QED BY <3>1, <3>2 DEF Joins
    <2>6. e[n] = h[n] BY <1>1, <1>3
    <2> HIDE DEF e, h
    <2>7. e[n] = f[n]
      <3>1. Agree(ts, ts, n) /\ n <= n BY <1>1 DEF Agree
      <3>2. Joins(ts, n, f) OBVIOUS
      <3> HIDE DEF n
      <3> QED BY <1>1, <2>5, <3>1, <3>2, JoinsSame
    <2> QED BY <2>1, <2>6, <2>7
  <1> QED BY <1>2, <1>3

LEMMA FlattenPrefix ==
    ASSUME NEW ts \in Seq(Terms), NEW k \in 0 .. Len(ts), NEW f, Joins(ts, Len(ts), f)
    PROVE  /\ FlattenSeq(SubSeq(ts, 1, k)) = f[k]
           /\ SubSeq(ts, 1, k) \in Seq(Terms) /\ f[k] \in Terms
  <1> DEFINE us == SubSeq(ts, 1, k)
  <1>1. /\ us \in Seq(Terms) /\ Len(us) = k /\ k \in Nat /\ Len(ts) \in Nat /\ k <= Len(ts)
        /\ \A l \in 1 .. k : us[l] = ts[l]
    <2>1. k \in Nat /\ Len(ts) \in Nat /\ k <= Len(ts) BY LenProperties
    <2>2. \A l \in 1 .. k : ts[l] \in Terms BY <2>1, ElementOfSeq
    <2>3. 1 \in Int /\ k \in Int BY <2>1
    <2>4. /\ us \in Seq(Terms)
          /\ Len(us) = IF 1 <= k THEN k - 1 + 1 ELSE 0
          /\ \A l \in 1 .. k - 1 + 1 : us[l] = ts[1 + l - 1]
      BY <2>2, <2>3, SubSeqProperties
    <2> HIDE DEF us
    <2> QED BY <2>1, <2>4
  <1> HIDE DEF us
  <1>2. PICK g : Joins(us, k, g) BY <1>1, JoinsExist
  <1>3. FlattenSeq(us) = g[k] BY <1>1, <1>2, FlattenIs
  <1>4. g[k] = f[k]
    <2>1. k \in Nat /\ Len(ts) \in Nat /\ k <= k /\ k <= Len(ts) BY <1>1
    <2>2. Agree(us, ts, k) BY <1>1 DEF Agree
    <2> DEFINE n == Len(ts)
    <2>3. Joins(ts, n, f) /\ k <= n /\ n \in Nat BY <2>1
    <2> HIDE DEF n
    <2> QED BY <1>2, <2>1, <2>2, <2>3, JoinsSame
  <1>5. f[k] \in Terms
    <2>1. \A l \in 0 .. k : g[l] \in Terms
      <3>1. k \in 0 .. Len(us) BY <1>1
      <3> QED BY <1>1, <1>2, <3>1, JoinsTerms
    <2>2. k \in 0 .. k BY <1>1
    <2> QED BY <1>4, <2>1, <2>2
  <1> QED BY <1>1, <1>3, <1>4, <1>5 DEF us

LEMMA FlattenTerms == ASSUME NEW ts \in Seq(Terms) PROVE FlattenSeq(ts) \in Terms
  <1>1. PICK f : Joins(ts, Len(ts), f) BY JoinsExist
  <1>2. Len(ts) \in 0 .. Len(ts) BY LenProperties
  <1> QED BY <1>1, <1>2, FlattenIs, FlattenPrefix

LEMMA FlattenAppend ==
    ASSUME NEW ts \in Seq(Terms), NEW t \in Terms
    PROVE  FlattenSeq(Append(ts, t)) = FlattenSeq(ts) \o t
  <1> DEFINE us == Append(ts, t)
             n == Len(ts)
  <1>1. /\ us \in Seq(Terms) /\ n \in Nat /\ Len(us) = n + 1 /\ us[n + 1] = t
        /\ \A k \in 1 .. n : ts[k] = us[k]
    BY AppendProperties, LenProperties
  <1> HIDE DEF us, n
  <1>2. PICK f : Joins(ts, n, f) BY JoinsExist DEF n
  <1>3. PICK g : Joins(us, n + 1, g) BY <1>1, JoinsExist
  <1>4. FlattenSeq(ts) = f[n] BY <1>2, FlattenIs DEF n
  <1>5. FlattenSeq(us) = g[n + 1] BY <1>1, <1>3, FlattenIs
  <1>6. f[n] = g[n]
    <2>1. n \in Nat /\ n <= n /\ n <= n + 1 /\ n + 1 \in Nat BY <1>1
    <2>2. Agree(ts, us, n) BY <1>1 DEF Agree
    <2> QED BY <1>2, <1>3, <2>1, <2>2, JoinsSame
  <1>7. g[n + 1] = g[n] \o us[n + 1]
    <2>1. n + 1 \in 1 .. n + 1 /\ (n + 1) - 1 = n BY <1>1
    <2> QED BY <1>3, <2>1 DEF Joins
  <1> QED BY <1>1, <1>4, <1>5, <1>6, <1>7 DEF us

LEMMA FlattenNone == FlattenSeq(<<>>) = <<>>
  BY EmptySeq DEF FlattenSeq

LEMMA FlattenTwo ==
    ASSUME NEW t \in Terms, NEW u \in Terms
    PROVE  <<t, u>> \in Seq(Terms) /\ FlattenSeq(<<t, u>>) = t \o u
  <1>1. <<>> \in Seq(Terms) /\ Append(<<>>, t) = <<t>> /\ Append(<<t>>, u) = <<t, u>>
    <2>1. <<>> \in Seq(Terms) BY EmptySeq
    <2>2. Append(<<>>, t) = <<t>> OBVIOUS
    <2>3. Append(<<t>>, u) = <<t, u>>
      <3>1. <<t>> \in Seq(Terms) /\ Len(<<t>>) = 1 /\ <<t>>[1] = t OBVIOUS
      <3>2. /\ Append(<<t>>, u) \in Seq(Terms) /\ Len(Append(<<t>>, u)) = 2
            /\ Append(<<t>>, u)[1] = t /\ Append(<<t>>, u)[2] = u
        <4>1. 1 \in 1 .. Len(<<t>>) /\ Len(<<t>>) + 1 = 2 BY <3>1
        <4> QED BY <3>1, <4>1, AppendProperties
      <3>3. <<t, u>> \in Seq(Terms) /\ Len(<<t, u>>) = 2 /\ <<t, u>>[1] = t /\ <<t, u>>[2] = u
        OBVIOUS
      <3>4. \A j \in 1 .. 2 : Append(<<t>>, u)[j] = <<t, u>>[j]
        <4>1. \A j \in 1 .. 2 : j = 1 \/ j = 2 OBVIOUS
        <4> QED BY <3>2, <3>3, <4>1
      <3> QED BY <3>2, <3>3, <3>4, SeqEqual
    <2> QED BY <2>1, <2>2, <2>3
  <1>2. <<t>> \in Seq(Terms) /\ <<t, u>> \in Seq(Terms) BY <1>1, AppendProperties
  <1>3. FlattenSeq(<<t>>) = t
    <2>1. FlattenSeq(<<t>>) = <<>> \o t BY <1>1, FlattenNone, FlattenAppend
    <2> QED BY <2>1, ConcatEmptySeq DEF Terms
  <1> QED BY <1>1, <1>2, <1>3, FlattenAppend

(***************************************************************************)
(* A term t that stands in the buffer b at i, and the positions of the     *)
(* buffer from i to before j that have a value.                            *)
(***************************************************************************)
Occurs(t, b, i) ==
    /\ i \in Nat \ {0} /\ i + Len(t) <= Len(b) + 1
    /\ \A j \in 1 .. Len(t) : b[i + j - 1] = t[j]
Written(b, i, j) == {k \in i .. j - 1 : b[k].data}

LEMMA OccursSplits ==
    ASSUME NEW s \in Terms, NEW t \in Terms, NEW b \in Terms, NEW i, Occurs(s \o t, b, i)
    PROVE  Occurs(s, b, i) /\ Occurs(t, b, i + Len(s))
  <1>1. /\ Len(s) \in Nat /\ Len(t) \in Nat /\ Len(b) \in Nat /\ i \in Nat \ {0}
        /\ Len(s \o t) = Len(s) + Len(t)
        /\ \A j \in 1 .. Len(s) + Len(t) :
               (s \o t)[j] = IF j <= Len(s) THEN s[j] ELSE t[j - Len(s)]
    BY LenProperties, ConcatProperties DEF Terms, Occurs
  <1>2. /\ i + (Len(s) + Len(t)) <= Len(b) + 1
        /\ \A j \in 1 .. Len(s) + Len(t) : b[i + j - 1] = (s \o t)[j]
    BY <1>1 DEF Occurs
  <1>3. ASSUME NEW j \in 1 .. Len(s) PROVE b[i + j - 1] = s[j]
    <2>1. j \in 1 .. Len(s) + Len(t) /\ j <= Len(s) BY <1>1
    <2> QED BY <1>1, <1>2, <2>1
  <1>4. ASSUME NEW j \in 1 .. Len(t) PROVE b[(i + Len(s)) + j - 1] = t[j]
    <2> DEFINE l == Len(s) + j
    <2>1. /\ l \in 1 .. Len(s) + Len(t) /\ ~(l <= Len(s)) /\ l - Len(s) = j
          /\ i + l - 1 = (i + Len(s)) + j - 1
      BY <1>1
    <2>2. b[i + l - 1] = t[l - Len(s)]
      <3> HIDE DEF l
      <3> QED BY <1>1, <1>2, <2>1
    <2> QED BY <2>1, <2>2
  <1>5. i + Len(s) <= Len(b) + 1 /\ (i + Len(s)) + Len(t) <= Len(b) + 1
        /\ i + Len(s) \in Nat \ {0}
    BY <1>1, <1>2
  <1> QED BY <1>1, <1>3, <1>4, <1>5 DEF Occurs

LEMMA WrittenSplits ==
    ASSUME NEW b, NEW i \in Nat, NEW j \in Nat, NEW k \in Nat, i <= j, j <= k
    PROVE  Written(b, i, k) = Written(b, i, j) \union Written(b, j, k)
  BY DEF Written

LEMMA OccursParts ==
    ASSUME NEW ts \in Seq(Terms), NEW f, Joins(ts, Len(ts), f), NEW b \in Terms, NEW i,
           Occurs(f[Len(ts)], b, i), NEW k \in 1 .. Len(ts)
    PROVE  Occurs(f[k], b, i) /\ Occurs(f[k - 1], b, i) /\ Occurs(ts[k], b, i + Len(f[k - 1]))
  <1> DEFINE n == Len(ts)
             S == {m \in Nat : m <= n => Occurs(f[n - m], b, i)}
  <1>1. n \in Nat /\ k \in Nat /\ k <= n /\ k # 0 BY LenProperties
  <1>2. ASSUME NEW l \in 1 .. n, Occurs(f[l], b, i)
        PROVE  Occurs(f[l - 1], b, i) /\ Occurs(ts[l], b, i + Len(f[l - 1]))
    <2>1. l - 1 \in 0 .. n /\ n \in 0 .. Len(ts) BY <1>1
    <2>2. f[l - 1] \in Terms BY <2>1, JoinsTerms
    <2>3. ts[l] \in Terms BY ElementOfSeq
    <2>4. f[l] = f[l - 1] \o ts[l] BY <1>2 DEF Joins
    <2> QED BY <1>2, <2>2, <2>3, <2>4, OccursSplits
  <1>3. 0 \in S BY <1>1
  <1>4. ASSUME NEW m \in S PROVE m + 1 \in S
    <2> SUFFICES ASSUME m + 1 <= n PROVE Occurs(f[n - (m + 1)], b, i) BY <1>4
    <2>1. m \in Nat /\ m <= n /\ Occurs(f[n - m], b, i) BY <1>1, <1>4
    <2>2. n - m \in 1 .. n /\ (n - m) - 1 = n - (m + 1) BY <1>1, <2>1
    <2>3. Occurs(f[(n - m) - 1], b, i) BY <1>2, <2>1, <2>2
    <2> QED BY <2>2, <2>3
  <1> HIDE DEF S
  <1>5. S \in SUBSET Nat BY DEF S
  <1>6. S = Nat BY <1>3, <1>4, <1>5, NatSet
  <1>7. Occurs(f[k], b, i)
    <2>1. n - k \in S /\ n - k <= n /\ n - (n - k) = k BY <1>1, <1>6
    <2> QED BY <2>1 DEF S
  <1> QED BY <1>2, <1>7

LEMMA PartIsShorter ==
    ASSUME NEW ts \in Seq(Terms), NEW k \in 1 .. Len(ts)
    PROVE  Len(ts[k]) \in Nat /\ Len(FlattenSeq(ts)) \in Nat
           /\ Len(ts[k]) <= Len(FlattenSeq(ts))
  <1>1. PICK f : Joins(ts, Len(ts), f) BY JoinsExist
  <1> DEFINE b == FlattenSeq(ts)
  <1>2. b \in Terms /\ b = f[Len(ts)] BY <1>1, FlattenIs, FlattenTerms
  <1>3. ts[k] \in Terms /\ Len(ts[k]) \in Nat /\ Len(b) \in Nat
    <2>1. ts[k] \in Terms BY ElementOfSeq
    <2> QED BY <1>2, <2>1, LenProperties DEF Terms
  <1> HIDE DEF b
  <1>4. Occurs(b, b, 1) BY <1>3 DEF Occurs
  <1>5. Occurs(ts[k], b, 1 + Len(f[k - 1])) BY <1>1, <1>2, <1>4, OccursParts
  <1>6. f[k - 1] \in Terms
    <2>1. k - 1 \in 0 .. Len(ts) /\ Len(ts) \in 0 .. Len(ts) BY LenProperties
    <2> QED BY <1>1, <2>1, JoinsTerms
  <1>7. Len(f[k - 1]) \in Nat BY <1>6, LenProperties DEF Terms
  <1>8. (1 + Len(f[k - 1])) + Len(ts[k]) <= Len(b) + 1 BY <1>5 DEF Occurs
  <1>9. Len(ts[k]) <= Len(b)
    <2> DEFINE x == Len(f[k - 1])
               y == Len(ts[k])
               z == Len(b)
    <2>1. x \in Nat /\ y \in Nat /\ z \in Nat /\ (1 + x) + y <= z + 1 BY <1>3, <1>7, <1>8
    <2> HIDE DEF x, y, z
    <2>2. y <= z BY <2>1
    <2> QED BY <2>2 DEF y, z
  <1> QED BY <1>3, <1>9 DEF b

(***************************************************************************)
(* Skipping.  The function of SkipTerms exists, since it goes up in the    *)
(* buffer; a term is skipped by as many tokens as it has.                  *)
(***************************************************************************)
SkipStep(b, f, j) ==
    [n \in Nat |-> IF n = 0 \/ j > Len(b) THEN j ELSE f[j + 1][n - 1 + Parts(b[j])]]
Skips(b, f) == f = [j \in Nat |-> SkipStep(b, f, j)]

LEMMA SkipsExist == ASSUME NEW b \in Terms PROVE \E f : Skips(b, f)
  <1> DEFINE D(m) == {j \in Nat : j + m > Len(b)}
             S == {m \in Nat : \E f : f = [j \in D(m) |-> SkipStep(b, f, j)]}
  <1>1. Len(b) \in Nat BY LenProperties DEF Terms
  <1>2. 0 \in S
    <2> DEFINE f == [j \in D(0) |-> [n \in Nat |-> j]]
    <2>1. ASSUME NEW j \in D(0) PROVE SkipStep(b, f, j) = [n \in Nat |-> j]
      <3>1. j > Len(b) BY <1>1
      <3> QED BY <3>1 DEF SkipStep
    <2>2. f = [j \in D(0) |-> SkipStep(b, f, j)] BY <2>1
    <2> QED BY <2>2
  <1>3. ASSUME NEW m \in S PROVE m + 1 \in S
    <2>1. m \in Nat BY <1>3
    <2>2. PICK f : f = [j \in D(m) |-> SkipStep(b, f, j)] BY <1>3
    <2> DEFINE g == [j \in D(m + 1) |-> SkipStep(b, f, j)]
    <2>3. ASSUME NEW j \in D(m + 1) PROVE SkipStep(b, g, j) = SkipStep(b, f, j)
      <3>1. CASE j > Len(b) BY <3>1 DEF SkipStep
      <3>2. CASE ~(j > Len(b))
        <4>1. j + 1 \in D(m) /\ j + 1 \in D(m + 1) BY <1>1, <2>1, <3>2
        <4>2. g[j + 1] = SkipStep(b, f, j + 1) BY <4>1
        <4>3. f[j + 1] = SkipStep(b, f, j + 1) BY <2>2, <4>1, Zenon
        <4>4. g[j + 1] = f[j + 1] BY <4>2, <4>3
        <4> HIDE DEF g
        <4> QED BY <4>4, Zenon DEF SkipStep
      <3> QED BY <3>1, <3>2
    <2>4. g = [j \in D(m + 1) |-> SkipStep(b, g, j)]
      <3>1. g = [j \in D(m + 1) |-> SkipStep(b, f, j)] OBVIOUS
      <3> HIDE DEF g, D
      <3> QED BY <2>3, <3>1, Zenon
    <2> HIDE DEF g, D
    <2>5. m + 1 \in Nat BY <2>1
    <2> QED BY <2>4, <2>5
  <1> HIDE DEF S, D
  <1>4. S \in SUBSET Nat BY DEF S
  <1>5. S = Nat BY <1>2, <1>3, <1>4, NatSet
  <1>6. Len(b) + 1 \in S BY <1>1, <1>5
  <1>7. D(Len(b) + 1) = Nat BY <1>1 DEF D
  <1>8. PICK f : f = [j \in D(Len(b) + 1) |-> SkipStep(b, f, j)] BY <1>6 DEF S
  <1>9. Skips(b, f) BY <1>7, <1>8 DEF Skips
  <1> QED BY <1>9

LEMMA SkipTermsIs ==
    ASSUME NEW b \in Terms
    PROVE  \E f : Skips(b, f) /\ \A i, n : SkipTerms(b, i, n) = f[i][n]
  <1> DEFINE f == CHOOSE f : Skips(b, f)
  <1>1. Skips(b, f) BY SkipsExist
  <1>2. \A i, n : SkipTerms(b, i, n) = f[i][n] BY DEF SkipTerms, Skips, SkipStep
  <1> HIDE DEF f
  <1> QED BY <1>1, <1>2

LEMMA PartsNat == ASSUME NEW t \in Tokens PROVE Parts(t) \in Nat
  BY DEF Parts, Tokens

LEMMA SkipTermsStep ==
    ASSUME NEW b \in Terms, NEW i \in Nat \ {0}, NEW n \in Nat
    PROVE  /\ SkipTerms(b, i, 0) = i
           /\ n # 0 /\ i <= Len(b) =>
                  SkipTerms(b, i, n) = SkipTerms(b, i + 1, n - 1 + Parts(b[i]))
  <1>1. PICK f : Skips(b, f) /\ \A j, m : SkipTerms(b, j, m) = f[j][m] BY SkipTermsIs
  <1>2. f[i] = SkipStep(b, f, i) BY <1>1 DEF Skips
  <1>3. f[i][0] = i BY <1>2 DEF SkipStep
  <1>4. ASSUME n # 0, i <= Len(b) PROVE f[i][n] = f[i + 1][n - 1 + Parts(b[i])]
    <2>1. ~(n = 0 \/ i > Len(b))
      <3>1. Len(b) \in Nat BY LenProperties DEF Terms
      <3> QED BY <1>4, <3>1
    <2> QED BY <1>2, <2>1, Zenon DEF SkipStep
  <1> QED BY <1>1, <1>3, <1>4

(* t is n terms.                                                           *)
Forest(t, n) ==
    \A b \in Terms, m \in Nat : \A i : Occurs(t, b, i) =>
        SkipTerms(b, i, m + n) = SkipTerms(b, i + Len(t), m)

LEMMA SkipTermIs ==
    ASSUME NEW t \in Terms, Forest(t, 1), NEW b \in Terms, NEW i, Occurs(t, b, i)
    PROVE  SkipTerm(b, i) = i + Len(t)
  <1>1. SkipTerms(b, i, 0 + 1) = SkipTerms(b, i + Len(t), 0) BY DEF Forest
  <1>2. i + Len(t) \in Nat \ {0} BY LenProperties DEF Occurs, Terms
  <1>3. SkipTerms(b, i + Len(t), 0) = i + Len(t) BY <1>2, SkipTermsStep
  <1>4. 0 + 1 = 1 OBVIOUS
  <1> QED BY <1>1, <1>3, <1>4 DEF SkipTerm

LEMMA ForestNone == Forest(<<>>, 0)
  <1> SUFFICES ASSUME NEW b \in Terms, NEW m \in Nat, NEW i, Occurs(<<>>, b, i)
               PROVE  SkipTerms(b, i, m + 0) = SkipTerms(b, i + Len(<<>>), m)
    BY DEF Forest
  <1>1. i \in Nat /\ Len(<<>>) = 0 BY EmptySeq DEF Occurs
  <1>2. m + 0 = m /\ i + Len(<<>>) = i BY <1>1
  <1> QED BY <1>2

LEMMA ForestConcat ==
    ASSUME NEW s \in Terms, NEW n \in Nat, Forest(s, n),
           NEW t \in Terms, NEW l \in Nat, Forest(t, l)
    PROVE  Forest(s \o t, n + l)
  <1> SUFFICES ASSUME NEW b \in Terms, NEW m \in Nat, NEW i, Occurs(s \o t, b, i)
               PROVE  SkipTerms(b, i, m + (n + l)) = SkipTerms(b, i + Len(s \o t), m)
    BY DEF Forest
  <1>1. Occurs(s, b, i) /\ Occurs(t, b, i + Len(s)) BY OccursSplits
  <1>2. /\ i \in Nat /\ Len(s) \in Nat /\ Len(t) \in Nat /\ Len(s \o t) = Len(s) + Len(t)
    BY <1>1, LenProperties, ConcatProperties DEF Occurs, Terms
  <1>3. m + (n + l) = (m + l) + n /\ m + l \in Nat
        /\ i + Len(s \o t) = (i + Len(s)) + Len(t)
    BY <1>2
  <1>4. SkipTerms(b, i, (m + l) + n) = SkipTerms(b, i + Len(s), m + l)
    BY <1>1, <1>3 DEF Forest
  <1>5. SkipTerms(b, i + Len(s), m + l) = SkipTerms(b, (i + Len(s)) + Len(t), m)
    BY <1>1 DEF Forest
  <1> QED BY <1>3, <1>4, <1>5

LEMMA OneToken ==
    ASSUME NEW x \in Tokens
    PROVE  <<x>> \in Terms /\ Len(<<x>>) = 1 /\ <<x>>[1] = x
  BY DEF Terms

LEMMA OccursToken ==
    ASSUME NEW x \in Tokens, NEW b \in Terms, NEW i, Occurs(<<x>>, b, i)
    PROVE  i \in Nat \ {0} /\ i \in 1 .. Len(b) /\ b[i] = x /\ Len(b) \in Nat
  <1>1. /\ i \in Nat \ {0} /\ Len(<<x>>) = 1 /\ <<x>>[1] = x /\ Len(b) \in Nat
        /\ i + Len(<<x>>) <= Len(b) + 1
        /\ \A j \in 1 .. Len(<<x>>) : b[i + j - 1] = <<x>>[j]
    BY OneToken, LenProperties DEF Occurs, Terms
  <1>2. 1 \in 1 .. Len(<<x>>) /\ i + 1 - 1 = i BY <1>1
  <1>3. b[i] = x BY <1>1, <1>2
  <1> QED BY <1>1, <1>3

LEMMA ForestToken ==
    ASSUME NEW x \in Tokens, NEW t \in Terms, Forest(t, Parts(x))
    PROVE  Forest(<<x>> \o t, 1)
  <1>1. <<x>> \in Terms /\ Len(<<x>>) = 1 /\ <<x>>[1] = x /\ Parts(x) \in Nat
    BY OneToken, PartsNat
  <1> SUFFICES ASSUME NEW b \in Terms, NEW m \in Nat, NEW i, Occurs(<<x>> \o t, b, i)
               PROVE  SkipTerms(b, i, m + 1) = SkipTerms(b, i + Len(<<x>> \o t), m)
    BY DEF Forest
  <1>2. Occurs(<<x>>, b, i) /\ Occurs(t, b, i + 1) BY <1>1, OccursSplits
  <1>3. i \in Nat \ {0} /\ i <= Len(b) /\ b[i] = x BY <1>2, OccursToken
  <1>4. SkipTerms(b, i, m + 1) = SkipTerms(b, i + 1, m + Parts(x))
    <2>1. m + 1 \in Nat /\ m + 1 # 0 /\ (m + 1) - 1 + Parts(x) = m + Parts(x) BY <1>1
    <2> QED BY <1>3, <2>1, SkipTermsStep
  <1>5. SkipTerms(b, i + 1, m + Parts(x)) = SkipTerms(b, (i + 1) + Len(t), m)
    BY <1>2 DEF Forest
  <1>6. Len(<<x>> \o t) = 1 + Len(t) /\ Len(t) \in Nat
    BY <1>1, ConcatProperties, LenProperties DEF Terms
  <1>7. i + Len(<<x>> \o t) = (i + 1) + Len(t) BY <1>3, <1>6
  <1> QED BY <1>4, <1>5, <1>7

LEMMA ForestScalar ==
    ASSUME NEW x \in Tokens, Parts(x) = 0
    PROVE  Forest(<<x>>, 1)
  <1>1. <<>> \in Terms BY EmptySeq DEF Terms
  <1>2. Forest(<<x>> \o <<>>, 1) BY <1>1, ForestNone, ForestToken
  <1>3. <<x>> \o <<>> = <<x>> BY OneToken, ConcatEmptySeq DEF Terms
  <1> QED BY <1>2, <1>3

LEMMA ForestAll ==
    ASSUME NEW ts \in Seq(Terms), \A k \in 1 .. Len(ts) : Forest(ts[k], 1)
    PROVE  Forest(FlattenSeq(ts), Len(ts))
  <1> DEFINE n == Len(ts)
  <1>1. n \in Nat BY LenProperties
  <1>2. PICK f : Joins(ts, n, f) BY JoinsExist
  <1>3. FlattenSeq(ts) = f[n] BY <1>2, FlattenIs
  <1>4. \A k \in 0 .. n : f[k] \in Terms
    <2>1. n \in 0 .. Len(ts) BY <1>1
    <2> QED BY <1>2, <2>1, JoinsTerms
  <1> DEFINE S == {k \in Nat : k <= n => Forest(f[k], k)}
  <1>5. 0 \in S BY <1>2, ForestNone DEF Joins
  <1>6. ASSUME NEW k \in S PROVE k + 1 \in S
    <2> SUFFICES ASSUME k + 1 <= n PROVE Forest(f[k + 1], k + 1) BY <1>6
    <2>1. k \in Nat /\ k + 1 \in 1 .. n /\ (k + 1) - 1 = k /\ k \in 0 .. n /\ Forest(f[k], k)
      BY <1>1, <1>6
    <2>2. f[k + 1] = f[k] \o ts[k + 1] BY <1>2, <2>1 DEF Joins
    <2>3. ts[k + 1] \in Terms /\ Forest(ts[k + 1], 1) BY <2>1, ElementOfSeq
    <2> QED BY <1>4, <2>1, <2>2, <2>3, ForestConcat
  <1> HIDE DEF S
  <1>7. S \in SUBSET Nat BY DEF S
  <1>8. S = Nat BY <1>5, <1>6, <1>7, NatSet
  <1>9. n \in S BY <1>1, <1>8
  <1> QED BY <1>3, <1>9 DEF S

(***************************************************************************)
(* Reading.  What a decoder gives back is right if it leaves the index at  *)
(* the end of the term and has taken nothing but what is in it; how tells  *)
(* if it has taken all of that.                                            *)
(***************************************************************************)
Right(r, b, i, j, how) ==
    /\ r = Good(j, r.took) /\ r.took \subseteq Written(b, i, j)
    /\ how = "all" => r.took = Written(b, i, j)
Reading(reads, b, d, t, how) ==
    \A i : Occurs(t, b, i) => Right(reads[d][i], b, i, i + Len(t), how)

LEMMA GoodIs ==
    ASSUME NEW i, NEW x
    PROVE  Good(i, x).ok = TRUE /\ Good(i, x).at = i /\ Good(i, x).took = x
  BY DEF Good

LEMMA RightIs ==
    ASSUME NEW r, NEW b, NEW i, NEW j, NEW how, Right(r, b, i, j, how)
    PROVE  /\ r = Good(j, r.took) /\ r.ok = TRUE /\ r.at = j
           /\ r.took \subseteq Written(b, i, j) /\ (how = "all" => r.took = Written(b, i, j))
  <1>1. r = Good(j, r.took) BY DEF Right
  <1>2. Good(j, r.took).ok = TRUE /\ Good(j, r.took).at = j BY GoodIs
  <1>3. r.ok = TRUE /\ r.at = j BY <1>1, <1>2, Zenon
  <1> QED BY <1>1, <1>3 DEF Right

LEMMA GoodRight ==
    ASSUME NEW b, NEW i, NEW j, NEW how, NEW x, x \subseteq Written(b, i, j),
           how = "all" => x = Written(b, i, j)
    PROVE  Right(Good(j, x), b, i, j, how)
  <1>1. Good(j, x).took = x BY GoodIs
  <1> QED BY <1>1 DEF Right

LEMMA RightAgain ==
    ASSUME NEW r, NEW b, NEW i, NEW j, NEW how, Right(r, b, i, j, how)
    PROVE  Good(r.at, r.took) = r
  <1>1. r = Good(j, r.took) BY DEF Right
  <1>2. r.at = j BY RightIs
  <1> QED BY <1>1, <1>2, Zenon

LEMMA AndRight ==
    ASSUME NEW b, NEW i \in Nat, NEW j \in Nat, NEW k \in Nat, i <= j, j <= k, NEW how,
           NEW r, Right(r, b, i, j, how), NEW s, Right(s, b, j, k, how)
    PROVE  Right(And(r, s), b, i, k, how)
  <1> DEFINE x == r.took \union s.took
  <1>1. r.ok = TRUE /\ s.ok = TRUE /\ s.at = k BY RightIs
  <1>2. Written(b, i, k) = Written(b, i, j) \union Written(b, j, k) BY WrittenSplits
  <1>3. /\ r.took \subseteq Written(b, i, j) /\ (how = "all" => r.took = Written(b, i, j))
        /\ s.took \subseteq Written(b, j, k) /\ (how = "all" => s.took = Written(b, j, k))
    BY RightIs
  <1>4. x \subseteq Written(b, i, k) /\ (how = "all" => x = Written(b, i, k)) BY <1>2, <1>3
  <1>5. And(r, s) = Good(k, x) BY <1>1 DEF And, Good
  <1> HIDE DEF x
  <1> QED BY <1>4, <1>5, GoodRight

(* The results after the first k decoders, up to n.                        *)
After(reads, ds, i, n, f) ==
    f = [k \in 0 .. n |-> IF k = 0 THEN Good(i, {})
                          ELSE And(f[k - 1], reads[ds[k]][f[k - 1].at])]

LEMMA AfterGrows ==
    ASSUME NEW reads, NEW ds, NEW i, NEW n \in Nat, NEW f, After(reads, ds, i, n, f)
    PROVE  \E g : After(reads, ds, i, n + 1, g)
  <1> DEFINE Next1(g, k) == And(g[k - 1], reads[ds[k]][g[k - 1].at])
             g == [k \in 0 .. n + 1 |-> IF k = n + 1 THEN Next1(f, n + 1) ELSE f[k]]
  <1>1. ASSUME NEW k \in 0 .. n + 1
        PROVE  g[k] = IF k = 0 THEN Good(i, {}) ELSE Next1(g, k)
    <2>1. CASE k = n + 1
      <3>1. g[k] = Next1(f, n + 1) /\ g[k - 1] = f[n] /\ k # 0 /\ f[n + 1 - 1] = f[n]
        <4> HIDE DEF Next1
        <4> QED BY <2>1
      <3> HIDE DEF g
      <3> QED BY <2>1, <3>1
    <2>2. CASE k # n + 1
      <3>1. k \in 0 .. n /\ g[k] = f[k]
        <4> HIDE DEF Next1
        <4> QED BY <2>2
      <3>2. f[k] = IF k = 0 THEN Good(i, {}) ELSE Next1(f, k) BY <3>1 DEF After
      <3>3. k # 0 => g[k - 1] = f[k - 1]
        <4> HIDE DEF Next1
        <4> QED BY <3>1
      <3> HIDE DEF g
      <3> QED BY <3>1, <3>2, <3>3
    <2> QED BY <2>1, <2>2
  <1>2. g = [k \in 0 .. n + 1 |-> g[k]] OBVIOUS
  <1> HIDE DEF g
  <1>3. After(reads, ds, i, n + 1, g) BY <1>1, <1>2 DEF After
  <1> QED BY <1>3

LEMMA AfterExists ==
    ASSUME NEW reads, NEW ds, NEW i, NEW n \in Nat PROVE \E f : After(reads, ds, i, n, f)
  <1> DEFINE S == {m \in Nat : \E f : After(reads, ds, i, m, f)}
  <1>1. 0 \in S
    <2> DEFINE f == [k \in 0 .. 0 |-> Good(i, {})]
    <2>1. After(reads, ds, i, 0, f) BY DEF After
    <2> QED BY <2>1
  <1>2. \A m \in S : m + 1 \in S BY AfterGrows
  <1> HIDE DEF S
  <1>3. S \in SUBSET Nat BY DEF S
  <1>4. S = Nat BY <1>1, <1>2, <1>3, NatSet
  <1> QED BY <1>4 DEF S

LEMMA AfterStep ==
    ASSUME NEW reads, NEW ds, NEW i, NEW n \in Nat, NEW f, After(reads, ds, i, n, f),
           NEW k \in 0 .. n
    PROVE  f[k] = IF k = 0 THEN Good(i, {}) ELSE And(f[k - 1], reads[ds[k]][f[k - 1].at])
  BY DEF After

LEMMA ReadAllIs ==
    ASSUME NEW reads, NEW ds, NEW i, Len(ds) \in Nat
    PROVE  \E f : After(reads, ds, i, Len(ds), f) /\ ReadAll(reads, ds, i) = f[Len(ds)]
  <1> DEFINE f == CHOOSE f : After(reads, ds, i, Len(ds), f)
  <1>1. After(reads, ds, i, Len(ds), f) BY AfterExists
  <1>2. ReadAll(reads, ds, i) = f[Len(ds)] BY DEF ReadAll, After
  <1> HIDE DEF f
  <1> QED BY <1>1, <1>2

LEMMA ReadAllRight ==
    ASSUME NEW ts \in Seq(Terms), NEW b \in Terms, NEW i, Occurs(FlattenSeq(ts), b, i),
           NEW reads, NEW ds, Len(ds) = Len(ts), NEW how,
           \A k \in 1 .. Len(ts) : Reading(reads, b, ds[k], ts[k], how)
    PROVE  Right(ReadAll(reads, ds, i), b, i, i + Len(FlattenSeq(ts)), how)
  <1> DEFINE n == Len(ts)
  <1>1. n \in Nat /\ i \in Nat \ {0} BY LenProperties DEF Occurs
  <1>2. PICK f : Joins(ts, n, f) BY JoinsExist
  <1>3. FlattenSeq(ts) = f[n] BY <1>2, FlattenIs
  <1>4. \A k \in 0 .. n : f[k] \in Terms /\ Len(f[k]) \in Nat
    <2>1. n \in 0 .. Len(ts) BY <1>1
    <2>2. \A k \in 0 .. n : f[k] \in Terms BY <1>2, <2>1, JoinsTerms
    <2> QED BY <2>2, LenProperties DEF Terms
  <1>5. PICK a : After(reads, ds, i, n, a) /\ ReadAll(reads, ds, i) = a[n] BY <1>1, ReadAllIs
  <1> DEFINE S == {k \in Nat : k <= n => Right(a[k], b, i, i + Len(f[k]), how)}
  <1>6. 0 \in S
    <2>1. 0 \in 0 .. n BY <1>1
    <2>2. a[0] = Good(i, {})
      <3>1. a[0] = IF 0 = 0 THEN Good(i, {}) ELSE And(a[0 - 1], reads[ds[0]][a[0 - 1].at])
        BY <1>5, <2>1, Zenon DEF After
      <3> QED BY <3>1
    <2>3. Len(f[0]) = 0 BY <1>2, EmptySeq DEF Joins
    <2>4. i + Len(f[0]) = i /\ Written(b, i, i) = {} BY <1>1, <2>3 DEF Written
    <2>5. Right(Good(i, {}), b, i, i, how) BY <2>4, GoodRight
    <2>6. Right(a[0], b, i, i + Len(f[0]), how) BY <2>2, <2>4, <2>5
    <2> QED BY <2>6
  <1>7. ASSUME NEW k \in S PROVE k + 1 \in S
    <2> SUFFICES ASSUME k + 1 <= n PROVE Right(a[k + 1], b, i, i + Len(f[k + 1]), how) BY <1>7
    <2> DEFINE l == k + 1
               j == i + Len(f[k])
    <2>1. /\ l \in 1 .. n /\ l \in 0 .. n /\ l # 0 /\ k \in Nat /\ l - 1 = k /\ k \in 0 .. n
          /\ Right(a[k], b, i, j, how)
      BY <1>1, <1>7
    <2>2. a[l] = And(a[k], reads[ds[l]][a[k].at])
      <3>1. a[l] = And(a[l - 1], reads[ds[l]][a[l - 1].at])
        <4> HIDE DEF l, n
        <4>1. a[l] = IF l = 0 THEN Good(i, {}) ELSE And(a[l - 1], reads[ds[l]][a[l - 1].at])
          BY <1>5, <2>1, Zenon DEF After
        <4> QED BY <2>1, <4>1
      <3> HIDE DEF l
      <3> QED BY <2>1, <3>1
    <2>3. a[k].at = j
      <3> HIDE DEF j
      <3> DEFINE q == a[k]
      <3>1. Right(q, b, i, j, how) BY <2>1
      <3> HIDE DEF q
      <3>2. q.at = j BY <3>1, RightIs
      <3> QED BY <3>2 DEF q
    <2>4. Occurs(ts[l], b, j) /\ Len(f[l]) = Len(f[k]) + Len(ts[l]) /\ Len(ts[l]) \in Nat
      <3>1. Occurs(ts[l], b, i + Len(f[l - 1]))
        <4> HIDE DEF l
        <4> QED BY <1>2, <1>3, <2>1, OccursParts
      <3>2. f[l] = f[k] \o ts[l] BY <1>2, <2>1 DEF Joins
      <3>3. ts[l] \in Terms
        <4> HIDE DEF l
        <4> QED BY <2>1, ElementOfSeq
      <3>4. f[k] \in Terms BY <1>4, <2>1
      <3>5. Len(f[l]) = Len(f[k]) + Len(ts[l]) /\ Len(ts[l]) \in Nat
        <4> HIDE DEF l
        <4> QED BY <3>2, <3>3, <3>4, ConcatProperties, LenProperties DEF Terms
      <3> QED BY <2>1, <3>1, <3>5
    <2> DEFINE r == reads[ds[l]][j]
    <2>5. Right(r, b, j, j + Len(ts[l]), how)
      <3>1. Reading(reads, b, ds[l], ts[l], how) BY <2>1
      <3> HIDE DEF l, j
      <3> QED BY <2>4, <3>1 DEF Reading
    <2>6. /\ j \in Nat /\ j + Len(ts[l]) \in Nat /\ i <= j /\ j <= j + Len(ts[l])
          /\ j + Len(ts[l]) = i + Len(f[l])
      <3>1. Len(f[k]) \in Nat BY <1>4, <2>1
      <3> DEFINE x == Len(f[k])
                 y == Len(ts[l])
                 z == Len(f[l])
      <3>2. x \in Nat /\ y \in Nat /\ z = x + y /\ i \in Nat BY <1>1, <2>4, <3>1
      <3> HIDE DEF x, y, z
      <3>3. /\ i + x \in Nat /\ (i + x) + y \in Nat /\ i <= i + x /\ i + x <= (i + x) + y
            /\ (i + x) + y = i + z
        BY <3>2
      <3> QED BY <3>3 DEF x, y, z
    <2> HIDE DEF j, l, r
    <2>7. Right(And(a[k], r), b, i, j + Len(ts[l]), how) BY <1>1, <2>1, <2>5, <2>6, AndRight
    <2>8. a[l] = And(a[k], r) BY <2>2, <2>3 DEF r
    <2>9. Right(a[l], b, i, i + Len(f[l]), how) BY <2>6, <2>7, <2>8
    <2> QED BY <2>9 DEF l
  <1> HIDE DEF S
  <1>8. S \in SUBSET Nat BY DEF S
  <1>9. S = Nat BY <1>6, <1>7, <1>8, NatSet
  <1>10. Right(a[n], b, i, i + Len(f[n]), how) BY <1>1, <1>9 DEF S
  <1> QED BY <1>3, <1>5, <1>10

(***************************************************************************)
(* The levels of Read.                                                     *)
(***************************************************************************)
LevelOf(b, f, n) == [d \in Decoder |-> [j \in Nat |->
    IF n = 0 THEN Bad(j) ELSE ReadWith(f[n - 1], d, b, j)]]
Levels(b, n, f) == f = [m \in 0 .. n |-> LevelOf(b, f, m)]

LEMMA LevelsGrow ==
    ASSUME NEW b, NEW n \in Nat, NEW f, Levels(b, n, f)
    PROVE  \E g : Levels(b, n + 1, g)
  <1> DEFINE g == [m \in 0 .. n + 1 |-> IF m = n + 1 THEN LevelOf(b, f, n + 1) ELSE f[m]]
  <1>1. ASSUME NEW m \in 0 .. n + 1 PROVE g[m] = LevelOf(b, g, m)
    <2>1. m - 1 = n /\ m = n + 1 => LevelOf(b, g, m) = LevelOf(b, f, n + 1)
      <3> SUFFICES ASSUME m - 1 = n, m = n + 1 PROVE LevelOf(b, g, m) = LevelOf(b, f, n + 1)
        OBVIOUS
      <3>1. n \in 0 .. n + 1 /\ n # n + 1 /\ n + 1 - 1 = n OBVIOUS
      <3>2. g[n] = f[n] BY <3>1
      <3> HIDE DEF g
      <3> QED BY <3>1, <3>2 DEF LevelOf
    <2>2. CASE m = n + 1
      <3>1. g[m] = LevelOf(b, f, n + 1) /\ m - 1 = n BY <2>2
      <3> QED BY <2>1, <2>2, <3>1
    <2>3. CASE m # n + 1
      <3>1. m \in 0 .. n /\ g[m] = f[m] /\ (m # 0 => g[m - 1] = f[m - 1]) BY <2>3
      <3>2. f[m] = LevelOf(b, f, m) BY <3>1 DEF Levels
      <3> HIDE DEF g
      <3>3. LevelOf(b, f, m) = LevelOf(b, g, m)
        <4>1. CASE m = 0 BY <4>1 DEF LevelOf
        <4>2. CASE m # 0
          <5>1. g[m - 1] = f[m - 1] BY <3>1, <4>2
          <5> QED BY <4>2, <5>1, Zenon DEF LevelOf
        <4> QED BY <4>1, <4>2
      <3> QED BY <3>1, <3>2, <3>3
    <2> QED BY <2>2, <2>3
  <1>2. g = [m \in 0 .. n + 1 |-> g[m]] OBVIOUS
  <1> HIDE DEF g
  <1>3. Levels(b, n + 1, g) BY <1>1, <1>2 DEF Levels
  <1> QED BY <1>3

LEMMA LevelsExist == ASSUME NEW b, NEW n \in Nat PROVE \E f : Levels(b, n, f)
  <1> DEFINE S == {m \in Nat : \E f : Levels(b, m, f)}
  <1>1. 0 \in S
    <2> DEFINE x == [d \in Decoder |-> [j \in Nat |-> Bad(j)]]
               f == [m \in 0 .. 0 |-> x]
    <2>1. LevelOf(b, f, 0) = x BY DEF LevelOf
    <2> HIDE DEF x
    <2>2. f = [m \in 0 .. 0 |-> LevelOf(b, f, m)]
      <3>1. \A m \in 0 .. 0 : LevelOf(b, f, m) = x
        <4>1. \A m \in 0 .. 0 : m = 0 OBVIOUS
        <4> HIDE DEF f
        <4> QED BY <2>1, <4>1
      <3>2. f = [m \in 0 .. 0 |-> x] OBVIOUS
      <3> HIDE DEF f
      <3> QED BY <3>1, <3>2, Zenon
    <2>3. Levels(b, 0, f) BY <2>2 DEF Levels
    <2> QED BY <2>3
  <1>2. \A m \in S : m + 1 \in S BY LevelsGrow
  <1> HIDE DEF S
  <1>3. S \in SUBSET Nat BY DEF S
  <1>4. S = Nat BY <1>1, <1>2, <1>3, NatSet
  <1> QED BY <1>4 DEF S

LEMMA ReadIs ==
    ASSUME NEW b \in Terms
    PROVE  \E f : Levels(b, Len(b), f) /\ \A d, i : Read(d, b, i) = f[Len(b)][d][i]
  <1> DEFINE f == CHOOSE f : Levels(b, Len(b), f)
  <1>1. Len(b) \in Nat BY LenProperties DEF Terms
  <1>2. Levels(b, Len(b), f) BY <1>1, LevelsExist
  <1>3. \A d, i : Read(d, b, i) = f[Len(b)][d][i] BY Zenon DEF Read, Levels, LevelOf
  <1> HIDE DEF f
  <1> QED BY <1>2, <1>3

(* What the next level reads with the one before it.                       *)
ReadsBy(reads, b, d, t, how) ==
    \A i : Occurs(t, b, i) => Right(ReadWith(reads, d, b, i), b, i, i + Len(t), how)

LEMMA NextLevel ==
    ASSUME NEW b, NEW l \in Nat, NEW f, Levels(b, l, f), NEW n \in 1 .. l, NEW d \in Decoder,
           NEW t, NEW how, ReadsBy(f[n - 1], b, d, t, how)
    PROVE  Reading(f[n], b, d, t, how)
  <1> SUFFICES ASSUME NEW i, Occurs(t, b, i)
               PROVE  Right(f[n][d][i], b, i, i + Len(t), how)
    BY DEF Reading
  <1>1. i \in Nat /\ n \in 0 .. l /\ n # 0 BY DEF Occurs
  <1>2. f[n] = LevelOf(b, f, n) BY <1>1, Zenon DEF Levels
  <1>3. LevelOf(b, f, n)[d][i] = ReadWith(f[n - 1], d, b, i) BY <1>1 DEF LevelOf
  <1>4. Right(ReadWith(f[n - 1], d, b, i), b, i, i + Len(t), how) BY DEF ReadsBy
  <1> QED BY <1>2, <1>3, <1>4

(***************************************************************************)
(* The decoders by name.                                                   *)
(***************************************************************************)
LEMMA DecodersAre ==
    /\ DOMAIN PartsOf = {"str_str", "atom_str", "atom_buff", "entry"}
    /\ DOMAIN ElementOf = {"strs", "str_strs", "atom_strs", "atom_buffs", "uint64s",
                           "resources", "timetables", "metrics"}
    /\ DOMAIN Schema = {"account", "boot_info", "cluster", "executable", "global", "grid",
                        "hook", "image", "job", "metric", "node", "partition", "process",
                        "queue", "relocation", "remote", "resource", "role", "scheduler",
                        "scheduler_result", "timetable", "user"}
  <1>1. DOMAIN PartsOf = {"str_str", "atom_str", "atom_buff", "entry"} BY DEF PartsOf
  <1>2. DOMAIN ElementOf = {"strs", "str_strs", "atom_strs", "atom_buffs", "uint64s",
                            "resources", "timetables", "metrics"}
    BY DEF ElementOf
  <1>3. DOMAIN Schema = {"account", "boot_info", "cluster", "executable", "global", "grid",
                         "hook", "image", "job", "metric", "node", "partition", "process",
                         "queue", "relocation", "remote", "resource", "role", "scheduler",
                         "scheduler_result", "timetable", "user"}
    BY DEF Schema
  <1> QED BY <1>1, <1>2, <1>3

LEMMA ReadWithIs ==
    ASSUME NEW reads, NEW b, NEW i
    PROVE  /\ ReadWith(reads, "str", b, i) = ReadStr(b, i)
           /\ ReadWith(reads, "atom", b, i) = ReadAtom(b, i)
           /\ ReadWith(reads, "uint64", b, i) = ReadUint64(b, i)
           /\ ReadWith(reads, "int64", b, i) = ReadInt64(b, i)
           /\ ReadWith(reads, "double", b, i) = ReadDouble(b, i)
           /\ ReadWith(reads, "map", b, i) = ReadMap(reads, b, i)
           /\ ReadWith(reads, "map_value", b, i) = ReadMapValue(b, i)
           /\ ReadWith(reads, "term", b, i) = CopyTerm(b, i)
           /\ ReadWith(reads, "entry", b, i) = ReadAll(reads, PartsOf["entry"], i)
           /\ ReadWith(reads, "uint64s", b, i) = ReadUint64s(reads, b, i)
  <1>1. ReadWith(reads, "str", b, i) = ReadStr(b, i) BY DecodersAre DEF ReadWith
  <1>2. ReadWith(reads, "atom", b, i) = ReadAtom(b, i) BY DecodersAre DEF ReadWith
  <1>3. ReadWith(reads, "uint64", b, i) = ReadUint64(b, i) BY DecodersAre DEF ReadWith
  <1>4. ReadWith(reads, "int64", b, i) = ReadInt64(b, i) BY DecodersAre DEF ReadWith
  <1>5. ReadWith(reads, "double", b, i) = ReadDouble(b, i) BY DecodersAre DEF ReadWith
  <1>6. ReadWith(reads, "map", b, i) = ReadMap(reads, b, i) BY DecodersAre DEF ReadWith
  <1>7. ReadWith(reads, "map_value", b, i) = ReadMapValue(b, i) BY DecodersAre DEF ReadWith
  <1>8. ReadWith(reads, "term", b, i) = CopyTerm(b, i) BY DecodersAre DEF ReadWith
  <1>9. ReadWith(reads, "entry", b, i) = ReadAll(reads, PartsOf["entry"], i)
    BY DecodersAre DEF ReadWith
  <1>10. ReadWith(reads, "uint64s", b, i) = ReadUint64s(reads, b, i) BY DecodersAre DEF ReadWith
  <1> QED BY <1>1, <1>2, <1>3, <1>4, <1>5, <1>6, <1>7, <1>8, <1>9, <1>10

LEMMA ReadWithCompound ==
    ASSUME NEW reads, NEW b, NEW i
    PROVE  /\ \A d \in DOMAIN PartsOf \ {"entry"} :
                  ReadWith(reads, d, b, i) = ReadTuple(reads, d, b, i)
           /\ \A d \in DOMAIN ElementOf \ {"uint64s"} :
                  ReadWith(reads, d, b, i) = ReadList(reads, ElementOf[d], b, i)
           /\ \A d \in DOMAIN Schema : ReadWith(reads, d, b, i) = ReadRecord(reads, d, b, i)
  <1>1. ASSUME NEW d \in DOMAIN PartsOf \ {"entry"}
        PROVE  ReadWith(reads, d, b, i) = ReadTuple(reads, d, b, i)
    BY DecodersAre DEF ReadWith
  <1>2. ASSUME NEW d \in DOMAIN ElementOf \ {"uint64s"}
        PROVE  ReadWith(reads, d, b, i) = ReadList(reads, ElementOf[d], b, i)
    BY DecodersAre DEF ReadWith
  <1>3. ASSUME NEW d \in DOMAIN Schema
        PROVE  ReadWith(reads, d, b, i) = ReadRecord(reads, d, b, i)
    BY DecodersAre DEF ReadWith
  <1> QED BY <1>1, <1>2, <1>3

(***************************************************************************)
(* The decoders of single tokens.                                          *)
(***************************************************************************)
LEMMA TokenIs ==
    ASSUME NEW kind \in Kinds \union {"LIST", "MAP", "TUPLE"}, NEW n \in Nat
    PROVE  /\ Token(kind, n) \in Tokens /\ Token(kind, n).kind = kind
           /\ Token(kind, n).arity = n /\ (Token(kind, n).data <=> kind \in Scalar)
  <1>1. Token(kind, n).kind = kind BY DEF Token
  <1>2. Token(kind, n).arity = n BY DEF Token
  <1>3. Token(kind, n).data <=> kind \in Scalar BY DEF Token
  <1>4. Token(kind, n) \in Tokens
    <2> DEFINE d == kind \in Scalar
    <2>1. d \in BOOLEAN OBVIOUS
    <2>2. Token(kind, n) = [kind |-> kind, arity |-> n, data |-> d] BY DEF Token
    <2> HIDE DEF d
    <2> QED BY <2>1, <2>2 DEF Tokens
  <1> QED BY <1>1, <1>2, <1>3, <1>4

LEMMA KindsAre ==
    ASSUME NEW kind \in Kinds
    PROVE  kind # "LIST" /\ kind # "MAP" /\ kind # "TUPLE"
  BY DEF Kinds, Scalar

LEMMA TermIs ==
    ASSUME NEW kind \in Kinds
    PROVE  Term(kind) \in Terms /\ Len(Term(kind)) = 1 /\ Forest(Term(kind), 1)
  <1> DEFINE x == Token(kind, 0)
  <1>1. x \in Tokens /\ x.kind = kind /\ x.arity = 0 BY KindsAre, TokenIs
  <1>2. Term(kind) = <<x>> BY DEF Term
  <1> HIDE DEF x
  <1>3. Parts(x) = 0 BY <1>1, KindsAre DEF Parts
  <1> QED BY <1>1, <1>2, <1>3, OneToken, ForestScalar

LEMMA TermOccurs ==
    ASSUME NEW kind \in Kinds, NEW b \in Terms, NEW i, Occurs(Term(kind), b, i)
    PROVE  /\ i \in Nat \ {0} /\ i \in 1 .. Len(b) /\ Kind(b, i) = kind
           /\ SkipTerm(b, i) = i + 1
           /\ Written(b, i, i + 1) = IF kind \in Scalar THEN {i} ELSE {}
  <1> DEFINE x == Token(kind, 0)
  <1>1. x \in Tokens /\ x.kind = kind /\ (x.data <=> kind \in Scalar) BY KindsAre, TokenIs
  <1>2. Term(kind) = <<x>> BY DEF Term
  <1> HIDE DEF x
  <1>3. i \in Nat \ {0} /\ i \in 1 .. Len(b) /\ b[i] = x BY <1>1, <1>2, OccursToken
  <1>4. Kind(b, i) = kind BY <1>1, <1>3 DEF Kind
  <1>5. SkipTerm(b, i) = i + 1
    <2>1. SkipTerm(b, i) = i + Len(Term(kind)) BY TermIs, SkipTermIs
    <2> QED BY <2>1, TermIs
  <1>6. Written(b, i, i + 1) = IF kind \in Scalar THEN {i} ELSE {}
    <2>1. Written(b, i, i + 1) = {k \in {i} : b[k].data}
      <3>1. i .. i + 1 - 1 = {i} BY <1>3
      <3> QED BY <3>1 DEF Written
    <2>2. b[i].data <=> kind \in Scalar BY <1>1, <1>3
    <2> QED BY <2>1, <2>2
  <1> QED BY <1>3, <1>4, <1>5, <1>6

(* A decoder that takes the token, and one that passes it.                 *)
LEMMA TokenTaken ==
    ASSUME NEW kind \in Scalar, NEW reads, NEW b \in Terms, NEW d,
           \A i : Kind(b, i) = kind => ReadWith(reads, d, b, i) = Good(i + 1, {i})
    PROVE  ReadsBy(reads, b, d, Term(kind), "all")
  <1> SUFFICES ASSUME NEW i, Occurs(Term(kind), b, i)
               PROVE  Right(ReadWith(reads, d, b, i), b, i, i + Len(Term(kind)), "all")
    BY DEF ReadsBy
  <1>1. kind \in Kinds BY DEF Kinds
  <1>2. Kind(b, i) = kind /\ Written(b, i, i + 1) = {i} BY <1>1, TermOccurs
  <1>3. Len(Term(kind)) = 1 BY <1>1, TermIs
  <1>4. ReadWith(reads, d, b, i) = Good(i + 1, {i}) BY <1>2
  <1>5. Right(Good(i + 1, {i}), b, i, i + 1, "all") BY <1>2, GoodRight
  <1> QED BY <1>3, <1>4, <1>5

LEMMA TermPassed ==
    ASSUME NEW t \in Terms, Forest(t, 1), NEW reads, NEW b \in Terms, NEW d,
           \A i : Occurs(t, b, i) => ReadWith(reads, d, b, i) = Good(SkipTerm(b, i), {})
    PROVE  ReadsBy(reads, b, d, t, "some")
  <1> SUFFICES ASSUME NEW i, Occurs(t, b, i)
               PROVE  Right(ReadWith(reads, d, b, i), b, i, i + Len(t), "some")
    BY DEF ReadsBy
  <1>1. ReadWith(reads, d, b, i) = Good(i + Len(t), {}) BY SkipTermIs
  <1>2. {} \subseteq Written(b, i, i + Len(t)) OBVIOUS
  <1>3. Right(Good(i + Len(t), {}), b, i, i + Len(t), "some") BY <1>2, GoodRight
  <1> QED BY <1>1, <1>3

LEMMA ReadsText ==
    ASSUME NEW t \in Text, NEW reads, NEW b \in Terms
    PROVE  ReadsBy(reads, b, "str", t, "all")
  <1>1. ASSUME NEW i PROVE ReadWith(reads, "str", b, i) = ReadStr(b, i) BY ReadWithIs
  <1>2. ASSUME NEW kind \in {"STRING", "BINARY"} PROVE ReadsBy(reads, b, "str", Term(kind), "all")
    <2>1. kind \in Scalar BY DEF Scalar
    <2>2. \A i : Kind(b, i) = kind => ReadWith(reads, "str", b, i) = Good(i + 1, {i})
      BY <1>1 DEF ReadStr
    <2> QED BY <2>1, <2>2, TokenTaken
  <1>3. ReadsBy(reads, b, "str", Term("NIL"), "all")
    <2> SUFFICES ASSUME NEW i, Occurs(Term("NIL"), b, i)
                 PROVE  Right(ReadWith(reads, "str", b, i), b, i, i + Len(Term("NIL")), "all")
      BY DEF ReadsBy
    <2>1. "NIL" \in Kinds /\ "NIL" \notin Scalar BY DEF Kinds, Scalar
    <2>2. /\ Kind(b, i) = "NIL" /\ SkipTerm(b, i) = i + 1 /\ Written(b, i, i + 1) = {}
          /\ Len(Term("NIL")) = 1
      BY <2>1, TermOccurs, TermIs
    <2>3. ReadWith(reads, "str", b, i) = Good(i + 1, {}) BY <1>1, <2>2 DEF ReadStr
    <2>4. Right(Good(i + 1, {}), b, i, i + 1, "all") BY <2>2, GoodRight
    <2> QED BY <2>2, <2>3, <2>4
  <1> QED BY <1>2, <1>3 DEF Text

LEMMA ReadsNumber ==
    ASSUME NEW reads, NEW b \in Terms
    PROVE  /\ ReadsBy(reads, b, "atom", Term("ATOM"), "all")
           /\ ReadsBy(reads, b, "uint64", Term("INTEGER"), "all")
           /\ ReadsBy(reads, b, "int64", Term("INTEGER"), "all")
           /\ ReadsBy(reads, b, "int64", Term("NEGATIVE"), "all")
           /\ ReadsBy(reads, b, "double", Term("FLOAT"), "all")
           /\ ReadsBy(reads, b, "uint64s", Term("STRING"), "all")
           /\ ReadsBy(reads, b, "map_value", Term("STRING"), "all")
           /\ ReadsBy(reads, b, "map_value", Term("FLOAT"), "all")
           /\ ReadsBy(reads, b, "map_value", Term("INTEGER"), "all")
  <1>1. {"ATOM", "INTEGER", "NEGATIVE", "FLOAT", "STRING"} \subseteq Scalar BY DEF Scalar
  <1>2. ReadsBy(reads, b, "atom", Term("ATOM"), "all")
    <2>1. \A i : Kind(b, i) = "ATOM" => ReadWith(reads, "atom", b, i) = Good(i + 1, {i})
      BY ReadWithIs DEF ReadAtom, Take
    <2> QED BY <1>1, <2>1, TokenTaken
  <1>3. ReadsBy(reads, b, "uint64", Term("INTEGER"), "all")
    <2>1. \A i : Kind(b, i) = "INTEGER" => ReadWith(reads, "uint64", b, i) = Good(i + 1, {i})
      BY ReadWithIs DEF ReadUint64, Take
    <2> QED BY <1>1, <2>1, TokenTaken
  <1>4. ASSUME NEW kind \in {"INTEGER", "NEGATIVE"}
        PROVE  ReadsBy(reads, b, "int64", Term(kind), "all")
    <2>1. \A i : Kind(b, i) = kind => ReadWith(reads, "int64", b, i) = Good(i + 1, {i})
      BY ReadWithIs DEF ReadInt64, Take
    <2> QED BY <1>1, <2>1, TokenTaken
  <1>5. ReadsBy(reads, b, "double", Term("FLOAT"), "all")
    <2>1. \A i : Kind(b, i) = "FLOAT" => ReadWith(reads, "double", b, i) = Good(i + 1, {i})
      BY ReadWithIs DEF ReadDouble, Take
    <2> QED BY <1>1, <2>1, TokenTaken
  <1>6. ReadsBy(reads, b, "uint64s", Term("STRING"), "all")
    <2>1. \A i : Kind(b, i) = "STRING" => ReadWith(reads, "uint64s", b, i) = Good(i + 1, {i})
      BY ReadWithIs DEF ReadUint64s
    <2> QED BY <1>1, <2>1, TokenTaken
  <1>7. ASSUME NEW kind \in {"STRING", "FLOAT", "INTEGER"}
        PROVE  ReadsBy(reads, b, "map_value", Term(kind), "all")
    <2>1. ASSUME NEW i, Kind(b, i) = kind
          PROVE  ReadWith(reads, "map_value", b, i) = Good(i + 1, {i})
      <3>1. ReadMapValue(b, i) = Good(i + 1, {i})
        <4>1. CASE kind = "STRING" BY <2>1, <4>1 DEF ReadMapValue, ReadStr
        <4>2. CASE kind # "STRING" BY <2>1, <4>2 DEF ReadMapValue
        <4> QED BY <4>1, <4>2
      <3> QED BY <3>1, ReadWithIs
    <2> QED BY <1>1, <2>1, TokenTaken
  <1> QED BY <1>2, <1>3, <1>4, <1>5, <1>6, <1>7

LEMMA ReadsCopy ==
    ASSUME NEW t \in Terms, Forest(t, 1), NEW reads, NEW b \in Terms
    PROVE  ReadsBy(reads, b, "term", t, "all")
  <1> SUFFICES ASSUME NEW i, Occurs(t, b, i)
               PROVE  Right(ReadWith(reads, "term", b, i), b, i, i + Len(t), "all")
    BY DEF ReadsBy
  <1> DEFINE j == i + Len(t)
  <1>1. SkipTerm(b, i) = j BY SkipTermIs
  <1>2. /\ i \in Nat \ {0} /\ Len(t) \in Nat /\ Len(b) \in Nat /\ j <= Len(b) + 1
        /\ DOMAIN b = 1 .. Len(b)
    BY LenProperties DEF Occurs, Terms
  <1>3. Written(b, i, j) = {k \in i .. j - 1 : k \in DOMAIN b /\ b[k].data}
    <2>1. \A k \in i .. j - 1 : k \in DOMAIN b
      <3> HIDE DEF j
      <3>1. j \in Int BY <1>2 DEF j
      <3> QED BY <1>2, <3>1
    <2> QED BY <2>1 DEF Written
  <1> HIDE DEF j
  <1>4. CopyTerm(b, i) = Good(j, Written(b, i, j)) BY <1>1, <1>3 DEF CopyTerm
  <1>5. Right(Good(j, Written(b, i, j)), b, i, j, "all") BY GoodRight
  <1>6. ReadWith(reads, "term", b, i) = CopyTerm(b, i) BY ReadWithIs
  <1> QED BY <1>4, <1>5, <1>6 DEF j

(***************************************************************************)
(* What is in a compound term.                                             *)
(***************************************************************************)
LEMMA RightSome ==
    ASSUME NEW r, NEW b, NEW i, NEW j, NEW how, Right(r, b, i, j, how)
    PROVE  Right(r, b, i, j, "some")
  BY DEF Right

LEMMA ReadingSome ==
    ASSUME NEW reads, NEW b, NEW d, NEW t, NEW how, Reading(reads, b, d, t, how)
    PROVE  Reading(reads, b, d, t, "some")
  BY RightSome DEF Reading

LEMMA CompoundIs ==
    ASSUME NEW kind \in {"LIST", "MAP", "TUPLE"}, NEW n \in Nat, NEW ts \in Seq(Terms)
    PROVE  /\ Compound(kind, n, ts) \in Terms
           /\ Len(FlattenSeq(ts)) \in Nat
           /\ Len(Compound(kind, n, ts)) = 1 + Len(FlattenSeq(ts))
           /\ Compound(kind, n, ts) = <<Token(kind, n)>> \o FlattenSeq(ts)
  <1> DEFINE x == Token(kind, n)
             t == FlattenSeq(ts)
  <1>1. x \in Tokens BY TokenIs
  <1>2. Compound(kind, n, ts) = <<x>> \o t BY DEF Compound
  <1>3. t \in Terms BY FlattenTerms
  <1> HIDE DEF x, t
  <1>4. <<x>> \in Terms /\ Len(<<x>>) = 1 BY <1>1, OneToken
  <1>5. <<x>> \o t \in Terms /\ Len(<<x>> \o t) = 1 + Len(t) /\ Len(t) \in Nat
    BY <1>3, <1>4, ConcatProperties, LenProperties DEF Terms
  <1> QED BY <1>2, <1>5 DEF x, t

LEMMA CompoundOccurs ==
    ASSUME NEW kind \in {"LIST", "MAP", "TUPLE"}, NEW n \in Nat, NEW ts \in Seq(Terms),
           NEW b \in Terms, NEW i, Occurs(Compound(kind, n, ts), b, i)
    PROVE  /\ i \in Nat \ {0} /\ Kind(b, i) = kind /\ Arity(b, i) = n
           /\ Occurs(FlattenSeq(ts), b, i + 1) /\ Written(b, i, i + 1) = {}
  <1> DEFINE x == Token(kind, n)
             t == FlattenSeq(ts)
  <1>1. x \in Tokens /\ x.kind = kind /\ x.arity = n /\ ~x.data
    <2>1. kind \notin Scalar BY DEF Scalar
    <2> QED BY <2>1, TokenIs
  <1>2. Occurs(<<x>> \o t, b, i) BY DEF Compound
  <1>3. t \in Terms BY FlattenTerms
  <1> HIDE DEF x, t
  <1>4. <<x>> \in Terms /\ Len(<<x>>) = 1 BY <1>1, OneToken
  <1>5. Occurs(<<x>>, b, i) /\ Occurs(t, b, i + 1) BY <1>2, <1>3, <1>4, OccursSplits
  <1>6. i \in Nat \ {0} /\ i \in 1 .. Len(b) /\ b[i] = x BY <1>1, <1>5, OccursToken
  <1>7. Kind(b, i) = kind /\ Arity(b, i) = n BY <1>1, <1>6 DEF Kind, Arity
  <1>8. Written(b, i, i + 1) = {}
    <2>1. i .. i + 1 - 1 = {i} BY <1>6
    <2> QED BY <1>1, <1>6, <2>1 DEF Written
  <1> QED BY <1>5, <1>6, <1>7, <1>8 DEF t

(* The token of the compound has no value that could be taken.             *)
LEMMA RightAfterToken ==
    ASSUME NEW b, NEW i \in Nat, NEW j \in Nat, i + 1 <= j, NEW how, NEW r,
           Right(r, b, i + 1, j, how), Written(b, i, i + 1) = {}
    PROVE  Right(r, b, i, j, how)
  <1>1. Written(b, i, j) = Written(b, i, i + 1) \union Written(b, i + 1, j)
    <2>1. i + 1 \in Nat /\ i <= i + 1 OBVIOUS
    <2> QED BY <2>1, WrittenSplits
  <1>2. Written(b, i, j) = Written(b, i + 1, j) BY <1>1
  <1> QED BY <1>2 DEF Right

LEMMA CompoundForest ==
    ASSUME NEW kind \in {"LIST", "MAP", "TUPLE"}, NEW n \in Nat, NEW ts \in Seq(Terms),
           \A k \in 1 .. Len(ts) : Forest(ts[k], 1), Parts(Token(kind, n)) = Len(ts)
    PROVE  Forest(Compound(kind, n, ts), 1)
  <1> DEFINE x == Token(kind, n)
  <1>1. x \in Tokens BY TokenIs
  <1>2. Forest(FlattenSeq(ts), Parts(x)) BY ForestAll
  <1>3. FlattenSeq(ts) \in Terms BY FlattenTerms
  <1>4. Compound(kind, n, ts) = <<x>> \o FlattenSeq(ts) BY DEF Compound
  <1> HIDE DEF x
  <1> QED BY <1>1, <1>2, <1>3, <1>4, ForestToken

(* A list that is not empty, and its tail.                                 *)
LEMMA ListIs ==
    ASSUME NEW ts \in Seq(Terms), ts # <<>>
    PROVE  /\ Append(ts, Term("NIL")) \in Seq(Terms)
           /\ Len(Append(ts, Term("NIL"))) = Len(ts) + 1 /\ Len(ts) \in Nat \ {0}
           /\ \A k \in 1 .. Len(ts) : Append(ts, Term("NIL"))[k] = ts[k]
           /\ Append(ts, Term("NIL"))[Len(ts) + 1] = Term("NIL")
           /\ FlattenSeq(Append(ts, Term("NIL"))) = FlattenSeq(ts) \o Term("NIL")
           /\ ListOf(ts) = Compound("LIST", Len(ts), Append(ts, Term("NIL")))
           /\ Len(ListOf(ts)) = 2 + Len(FlattenSeq(ts)) /\ Len(FlattenSeq(ts)) \in Nat
           /\ ListOf(ts) \in Terms
  <1> DEFINE nil == Term("NIL")
             us == Append(ts, nil)
  <1>1. nil \in Terms /\ Len(nil) = 1
    <2>1. "NIL" \in Kinds BY DEF Kinds
    <2> QED BY <2>1, TermIs
  <1>2. ListOf(ts) = Compound("LIST", Len(ts), us) BY DEF ListOf
  <1> HIDE DEF nil
  <1>3. /\ us \in Seq(Terms) /\ Len(us) = Len(ts) + 1 /\ us[Len(ts) + 1] = nil
        /\ \A k \in 1 .. Len(ts) : us[k] = ts[k]
    BY <1>1, AppendProperties
  <1>4. Len(ts) \in Nat \ {0} BY LenProperties, EmptySeq
  <1>5. FlattenSeq(us) = FlattenSeq(ts) \o nil BY <1>1, FlattenAppend
  <1>6. FlattenSeq(ts) \in Terms BY FlattenTerms
  <1> HIDE DEF us
  <1>7. Len(FlattenSeq(us)) = Len(FlattenSeq(ts)) + 1 /\ Len(FlattenSeq(ts)) \in Nat
    <2> DEFINE F == FlattenSeq(ts)
    <2>1. FlattenSeq(us) = F \o nil /\ F \in Terms BY <1>5, <1>6
    <2> HIDE DEF F
    <2>2. Len(F \o nil) = Len(F) + Len(nil) /\ Len(F) \in Nat
      BY <1>1, <2>1, ConcatProperties, LenProperties DEF Terms
    <2>3. Len(FlattenSeq(us)) = Len(F) + 1 BY <1>1, <2>1, <2>2
    <2> QED BY <2>2, <2>3 DEF F
  <1>8. ListOf(ts) \in Terms /\ Len(ListOf(ts)) = 1 + Len(FlattenSeq(us))
    <2> DEFINE m == Len(ts)
    <2>1. m \in Nat /\ ListOf(ts) = Compound("LIST", m, us) /\ us \in Seq(Terms)
      BY <1>2, <1>3, <1>4
    <2> HIDE DEF m
    <2>2. /\ Compound("LIST", m, us) \in Terms
          /\ Len(Compound("LIST", m, us)) = 1 + Len(FlattenSeq(us))
      BY <2>1, CompoundIs
    <2> QED BY <2>1, <2>2
  <1>9. Len(ListOf(ts)) = 2 + Len(FlattenSeq(ts)) BY <1>7, <1>8
  <1> QED BY <1>2, <1>3, <1>4, <1>5, <1>7, <1>8, <1>9 DEF nil, us

LEMMA ListReads ==
    ASSUME NEW ts \in Seq(Terms), NEW b \in Terms, NEW reads, NEW d, NEW how,
           \A k \in 1 .. Len(ts) : Reading(reads, b, d, ts[k], how),
           NEW i, Occurs(ListOf(ts), b, i)
    PROVE  Right(ReadList(reads, d, b, i), b, i, i + Len(ListOf(ts)), how)
  <1>1. "NIL" \in Kinds /\ "NIL" \notin Scalar BY DEF Kinds, Scalar
  <1>2. CASE ts = <<>>
    <2>1. ListOf(ts) = Term("NIL") BY <1>2 DEF ListOf
    <2>2. Kind(b, i) = "NIL" /\ Written(b, i, i + 1) = {} /\ Len(ListOf(ts)) = 1
      BY <1>1, <2>1, TermOccurs, TermIs
    <2>3. ReadList(reads, d, b, i) = Good(i + 1, {}) BY <2>2 DEF ReadList
    <2>4. Right(Good(i + 1, {}), b, i, i + 1, how) BY <2>2, GoodRight
    <2> QED BY <2>2, <2>3, <2>4
  <1>3. CASE ts # <<>>
    <2> DEFINE nil == Term("NIL")
               us == Append(ts, nil)
               n == Len(FlattenSeq(ts))
               ds == [k \in 1 .. Arity(b, i) |-> d]
               j == (i + 1) + n
    <2>1. /\ us \in Seq(Terms) /\ Len(ts) \in Nat \ {0} /\ n \in Nat
          /\ FlattenSeq(us) = FlattenSeq(ts) \o nil
          /\ ListOf(ts) = Compound("LIST", Len(ts), us) /\ Len(ListOf(ts)) = 2 + n
      BY <1>3, ListIs
    <2>2. nil \in Terms /\ Len(nil) = 1 /\ Forest(nil, 1) BY <1>1, TermIs
    <2> HIDE DEF us
    <2>3. /\ i \in Nat \ {0} /\ Kind(b, i) = "LIST" /\ Arity(b, i) = Len(ts)
          /\ Occurs(FlattenSeq(us), b, i + 1) /\ Written(b, i, i + 1) = {}
      <3> DEFINE m == Len(ts)
      <3>1. m \in Nat /\ Occurs(Compound("LIST", m, us), b, i) /\ us \in Seq(Terms) BY <2>1
      <3> HIDE DEF m
      <3>2. /\ i \in Nat \ {0} /\ Kind(b, i) = "LIST" /\ Arity(b, i) = m
            /\ Occurs(FlattenSeq(us), b, i + 1) /\ Written(b, i, i + 1) = {}
        BY <3>1, CompoundOccurs
      <3> QED BY <3>2 DEF m
    <2>4. Occurs(FlattenSeq(ts), b, i + 1) /\ Occurs(nil, b, j)
      <3>1. FlattenSeq(ts) \in Terms BY FlattenTerms
      <3> HIDE DEF nil
      <3> QED BY <2>1, <2>2, <2>3, <3>1, OccursSplits
    <2>5. Len(ds) = Len(ts) /\ \A k \in 1 .. Len(ts) : ds[k] = d BY <2>1, <2>3
    <2> DEFINE elements == ReadAll(reads, ds, i + 1)
               ends == ListEnds(b, elements.at)
    <2>6. Right(elements, b, i + 1, j, how)
      <3> HIDE DEF ds
      <3>1. \A k \in 1 .. Len(ts) : Reading(reads, b, ds[k], ts[k], how) BY <2>5
      <3> QED BY <2>4, <2>5, <3>1, ReadAllRight
    <2>7. ReadList(reads, d, b, i) = And(elements, ends) BY <2>3 DEF ReadList
    <2> HIDE DEF elements
    <2>8. elements.at = j
      <3> HIDE DEF j
      <3> QED BY <2>6, RightIs
    <2>9. /\ i + 1 \in Nat /\ j \in Nat /\ j + 1 \in Nat /\ i + 1 <= j /\ j <= j + 1
          /\ j + 1 = i + Len(ListOf(ts)) /\ i + 1 <= j + 1 /\ i \in Nat
      <3> DEFINE m == Len(ListOf(ts))
      <3>1. m = 2 + n /\ n \in Nat BY <2>1
      <3> HIDE DEF m, n
      <3> QED BY <2>3, <3>1 DEF m
    <2>10. Right(ends, b, j, j + 1, how)
      <3> HIDE DEF j
      <3>1. ends = Good(j + 1, {})
        <4>1. SkipTerm(b, j) = j + 1 BY <2>2, <2>4, SkipTermIs
        <4> QED BY <2>8, <4>1 DEF ListEnds
      <3>2. Written(b, j, j + 1) = {} BY <1>1, <2>4, TermOccurs
      <3> QED BY <3>1, <3>2, GoodRight
    <2> HIDE DEF j, ends
    <2>11. Right(And(elements, ends), b, i + 1, j + 1, how)
      BY <2>6, <2>9, <2>10, AndRight
    <2>12. Right(And(elements, ends), b, i, j + 1, how)
      BY <2>3, <2>9, <2>11, RightAfterToken
    <2> QED BY <2>7, <2>9, <2>12
  <1> QED BY <1>2, <1>3

LEMMA TupleReads ==
    ASSUME NEW d \in DOMAIN PartsOf \ {"entry"}, NEW v \in Terms, NEW w \in Terms,
           NEW b \in Terms, NEW reads, Reading(reads, b, PartsOf[d][1], v, "all"),
           Reading(reads, b, PartsOf[d][2], w, "all")
    PROVE  ReadsBy(reads, b, d, TupleTerm(<<v, w>>), "all")
  <1> DEFINE ts == <<v, w>>
             t == TupleTerm(ts)
             n == Len(FlattenSeq(ts))
  <1> SUFFICES ASSUME NEW i, Occurs(t, b, i)
               PROVE  Right(ReadWith(reads, d, b, i), b, i, i + Len(t), "all")
    BY DEF ReadsBy
  <1>1. ts \in Seq(Terms) BY FlattenTwo
  <1>2. Len(ts) = 2 /\ ts[1] = v /\ ts[2] = w OBVIOUS
  <1>3. t = Compound("TUPLE", 2, ts) BY <1>2 DEF TupleTerm
  <1>4. Len(PartsOf[d]) = 2 BY DecodersAre DEF PartsOf
  <1> HIDE DEF ts, t
  <1>5. Len(t) = 1 + n /\ n \in Nat BY <1>1, <1>3, CompoundIs
  <1>6. /\ i \in Nat \ {0} /\ Kind(b, i) = "TUPLE" /\ Arity(b, i) = 2
        /\ Occurs(FlattenSeq(ts), b, i + 1) /\ Written(b, i, i + 1) = {}
    BY <1>1, <1>3, CompoundOccurs
  <1>7. ReadWith(reads, d, b, i) = ReadAll(reads, PartsOf[d], i + 1)
    BY <1>6, ReadWithCompound DEF ReadTuple
  <1>8. Right(ReadAll(reads, PartsOf[d], i + 1), b, i + 1, (i + 1) + n, "all")
    <2>1. \A k \in 1 .. Len(ts) : Reading(reads, b, PartsOf[d][k], ts[k], "all")
      <3>1. \A k \in 1 .. Len(ts) : k = 1 \/ k = 2 BY <1>2
      <3> QED BY <1>2, <3>1
    <2> QED BY <1>1, <1>2, <1>4, <1>6, <2>1, ReadAllRight
  <1>9. (i + 1) + n = i + Len(t) /\ i \in Nat /\ i + Len(t) \in Nat /\ i + 1 <= i + Len(t)
    <2> HIDE DEF n
    <2> QED BY <1>5, <1>6
  <1> QED BY <1>6, <1>7, <1>8, <1>9, RightAfterToken

LEMMA EntryReads ==
    ASSUME NEW k \in Terms, NEW v \in Terms, NEW b \in Terms, NEW reads, NEW how,
           Reading(reads, b, "str", k, how), Reading(reads, b, "map_value", v, how)
    PROVE  ReadsBy(reads, b, "entry", k \o v, how)
  <1> DEFINE ts == <<k, v>>
             ds == PartsOf["entry"]
  <1> SUFFICES ASSUME NEW i, Occurs(k \o v, b, i)
               PROVE  Right(ReadWith(reads, "entry", b, i), b, i, i + Len(k \o v), how)
    BY DEF ReadsBy
  <1>1. ts \in Seq(Terms) /\ FlattenSeq(ts) = k \o v BY FlattenTwo
  <1>2. Len(ts) = 2 /\ ts[1] = k /\ ts[2] = v OBVIOUS
  <1>3. Len(ds) = 2 /\ ds[1] = "str" /\ ds[2] = "map_value" BY DEF PartsOf
  <1> HIDE DEF ts, ds
  <1>4. \A l \in 1 .. Len(ts) : Reading(reads, b, ds[l], ts[l], how)
    <2>1. \A l \in 1 .. Len(ts) : l = 1 \/ l = 2 BY <1>2
    <2> QED BY <1>2, <1>3, <2>1
  <1>5. Right(ReadAll(reads, ds, i), b, i, i + Len(FlattenSeq(ts)), how)
    BY <1>1, <1>2, <1>3, <1>4, ReadAllRight
  <1>6. ReadWith(reads, "entry", b, i) = ReadAll(reads, ds, i) BY ReadWithIs DEF ds
  <1> QED BY <1>1, <1>5, <1>6

LEMMA MapReads ==
    ASSUME NEW es \in Seq(Terms), NEW b \in Terms, NEW reads, NEW how,
           \A k \in 1 .. Len(es) : Reading(reads, b, "entry", es[k], how)
    PROVE  ReadsBy(reads, b, "map", MapOf(es), how)
  <1> DEFINE t == MapOf(es)
             m == Len(es)
             n == Len(FlattenSeq(es))
  <1> SUFFICES ASSUME NEW i, Occurs(t, b, i)
               PROVE  Right(ReadWith(reads, "map", b, i), b, i, i + Len(t), how)
    BY DEF ReadsBy
  <1>1. t = Compound("MAP", m, es) /\ m \in Nat BY LenProperties DEF MapOf
  <1> HIDE DEF t, m
  <1>2. Len(t) = 1 + n /\ n \in Nat BY <1>1, CompoundIs
  <1>3. /\ i \in Nat \ {0} /\ Kind(b, i) = "MAP" /\ Arity(b, i) = m
        /\ Occurs(FlattenSeq(es), b, i + 1) /\ Written(b, i, i + 1) = {}
    BY <1>1, CompoundOccurs
  <1> DEFINE ds == [k \in 1 .. Arity(b, i) |-> "entry"]
  <1>4. ReadWith(reads, "map", b, i) = ReadAll(reads, ds, i + 1)
    <2>1. ReadMap(reads, b, i) = ReadAll(reads, ds, i + 1) BY <1>3 DEF ReadMap
    <2> HIDE DEF ds
    <2> QED BY <2>1, ReadWithIs
  <1>5. Len(ds) = Len(es) /\ \A k \in 1 .. Len(es) : ds[k] = "entry" BY <1>1, <1>3 DEF m
  <1> HIDE DEF ds
  <1>6. Right(ReadAll(reads, ds, i + 1), b, i + 1, (i + 1) + n, how)
    <2>1. \A k \in 1 .. Len(es) : Reading(reads, b, ds[k], es[k], how) BY <1>5
    <2> QED BY <1>3, <1>5, <2>1, ReadAllRight
  <1>7. (i + 1) + n = i + Len(t) /\ i \in Nat /\ i + Len(t) \in Nat /\ i + 1 <= i + Len(t)
    <2> HIDE DEF n
    <2> QED BY <1>2, <1>3
  <1> QED BY <1>3, <1>4, <1>6, <1>7, RightAfterToken

LEMMA FlattenCons ==
    ASSUME NEW h \in Terms, NEW ts \in Seq(Terms)
    PROVE  /\ <<h>> \o ts \in Seq(Terms) /\ Len(<<h>> \o ts) = Len(ts) + 1
           /\ FlattenSeq(<<h>> \o ts) = h \o FlattenSeq(ts)
  <1> DEFINE us == <<h>> \o ts
             n == Len(ts)
  <1>1. <<h>> \in Seq(Terms) /\ Len(<<h>>) = 1 /\ <<h>>[1] = h OBVIOUS
  <1>2. /\ us \in Seq(Terms) /\ n \in Nat /\ Len(us) = n + 1 /\ us[1] = h
        /\ \A k \in 1 .. n : us[k + 1] = ts[k]
    <2>1. n \in Nat BY LenProperties
    <2>2. /\ us \in Seq(Terms) /\ Len(us) = 1 + n
          /\ \A k \in 1 .. 1 + n : us[k] = IF k <= 1 THEN <<h>>[k] ELSE ts[k - 1]
      <3> HIDE DEF n
      <3> QED BY <1>1, ConcatProperties DEF n
    <2> HIDE DEF us, n
    <2>3. us[1] = h
      <3>1. 1 \in 1 .. 1 + n /\ 1 <= 1 BY <2>1
      <3> QED BY <1>1, <2>2, <3>1
    <2>4. ASSUME NEW k \in 1 .. n PROVE us[k + 1] = ts[k]
      <3>1. k + 1 \in 1 .. 1 + n /\ ~(k + 1 <= 1) /\ (k + 1) - 1 = k BY <2>1
      <3> QED BY <2>2, <3>1
    <2> QED BY <2>1, <2>2, <2>3, <2>4
  <1> HIDE DEF us, n
  <1>3. PICK f : Joins(ts, n, f) BY JoinsExist DEF n
  <1>4. PICK g : Joins(us, n + 1, g) BY <1>2, JoinsExist
  <1>5. \A k \in 0 .. n : f[k] \in Terms
    <2>1. n \in 0 .. Len(ts) BY <1>2 DEF n
    <2> QED BY <1>3, <2>1, JoinsTerms
  <1> DEFINE S == {k \in Nat : k <= n => g[k + 1] = h \o f[k]}
  <1>6. 0 \in S
    <2>1. 1 \in 1 .. n + 1 BY <1>2
    <2>2. g[1] = g[1 - 1] \o us[1] BY <1>4, <2>1, Zenon DEF Joins
    <2>3. g[1 - 1] = <<>> /\ f[0] = <<>>
      <3>1. 1 - 1 = 0 OBVIOUS
      <3> QED BY <1>3, <1>4, <3>1, Zenon DEF Joins
    <2>4. g[1] = <<>> \o h BY <1>2, <2>2, <2>3, Zenon
    <2>5. <<>> \o h = h /\ h \o <<>> = h BY ConcatEmptySeq DEF Terms
    <2>6. g[1] = h \o f[0] BY <2>3, <2>4, <2>5, Zenon
    <2> QED BY <2>6
  <1>7. ASSUME NEW k \in S PROVE k + 1 \in S
    <2> SUFFICES ASSUME k + 1 <= n PROVE g[(k + 1) + 1] = h \o f[k + 1] BY <1>7
    <2> DEFINE l == k + 1
    <2>1. /\ l \in 1 .. n /\ l - 1 = k /\ k \in 0 .. n /\ g[l] = h \o f[k]
          /\ l + 1 \in 1 .. n + 1 /\ (l + 1) - 1 = l
      BY <1>2, <1>7
    <2> HIDE DEF l
    <2>2. f[l] = f[k] \o ts[l] BY <1>3, <2>1 DEF Joins
    <2>3. g[l + 1] = g[l] \o us[l + 1] BY <1>4, <2>1 DEF Joins
    <2>4. us[l + 1] = ts[l] BY <1>2, <2>1
    <2>5. f[k] \in Terms /\ ts[l] \in Terms
      <3>1. l \in 1 .. Len(ts) BY <2>1 DEF n
      <3> QED BY <1>5, <2>1, <3>1, ElementOfSeq
    <2>6. (h \o f[k]) \o ts[l] = h \o (f[k] \o ts[l])
      <3> DEFINE x == f[k]
                 y == ts[l]
      <3>1. x \in Terms /\ y \in Terms BY <2>5
      <3> HIDE DEF x, y
      <3>2. (h \o x) \o y = h \o (x \o y) BY <3>1, ConcatAssociative DEF Terms
      <3> QED BY <3>2 DEF x, y
    <2>7. g[l + 1] = h \o f[l] BY <2>1, <2>2, <2>3, <2>4, <2>6
    <2> QED BY <2>7 DEF l
  <1> HIDE DEF S
  <1>8. S \in SUBSET Nat BY DEF S
  <1>9. S = Nat BY <1>6, <1>7, <1>8, NatSet
  <1>10. g[n + 1] = h \o f[n]
    <2>1. n \in S BY <1>2, <1>9
    <2> QED BY <1>2, <2>1 DEF S
  <1>11. FlattenSeq(us) = g[n + 1] BY <1>2, <1>4, FlattenIs
  <1>12. FlattenSeq(ts) = f[n] BY <1>3, FlattenIs DEF n
  <1> QED BY <1>2, <1>10, <1>11, <1>12 DEF us, n

(***************************************************************************)
(* Records: the name, without a value that is taken, and the fields.       *)
(***************************************************************************)
Header == <<[Token("ATOM", 0) EXCEPT !.data = FALSE]>>

LEMMA HeaderIs ==
    /\ Header \in Terms /\ Len(Header) = 1 /\ Forest(Header, 1)
    /\ \A b \in Terms : \A i : Occurs(Header, b, i) => Written(b, i, i + 1) = {}
  <1> DEFINE x == [Token("ATOM", 0) EXCEPT !.data = FALSE]
  <1>1. Token("ATOM", 0) \in Tokens /\ Token("ATOM", 0).kind = "ATOM"
    <2>1. "ATOM" \in Kinds /\ 0 \in Nat BY DEF Kinds, Scalar
    <2> QED BY <2>1, TokenIs
  <1>2. x \in Tokens /\ x.kind = "ATOM" /\ x.data = FALSE
    <2> DEFINE y == Token("ATOM", 0)
    <2>1. y \in Tokens /\ y.kind = "ATOM" /\ x = [y EXCEPT !.data = FALSE] BY <1>1
    <2> HIDE DEF y, x
    <2> QED BY <2>1 DEF Tokens
  <1>3. Header = <<x>> BY DEF Header
  <1> HIDE DEF x
  <1>4. Parts(x) = x.arity \/ Parts(x) = 0 BY <1>2 DEF Parts
  <1>5. x.arity = 0
    <2>1. [Token("ATOM", 0) EXCEPT !.data = FALSE].arity = 0 BY DEF Token
    <2> QED BY <2>1 DEF x
  <1>6. Parts(x) = 0 BY <1>4, <1>5
  <1>7. \A b \in Terms : \A i : Occurs(Header, b, i) => Written(b, i, i + 1) = {}
    <2> SUFFICES ASSUME NEW b \in Terms, NEW i, Occurs(<<x>>, b, i)
                 PROVE  Written(b, i, i + 1) = {}
      BY <1>3
    <2>1. i \in Nat /\ b[i] = x BY <1>2, OccursToken
    <2>2. i .. i + 1 - 1 = {i} BY <2>1
    <2> QED BY <1>2, <2>1, <2>2 DEF Written
  <1>8. <<x>> \in Terms /\ Len(<<x>>) = 1 BY <1>2, OneToken
  <1>9. Forest(<<x>>, 1) BY <1>2, <1>6, ForestScalar
  <1> QED BY <1>3, <1>7, <1>8, <1>9

LEMMA RecordIs ==
    ASSUME NEW ts \in Seq(Terms)
    PROVE  /\ RecordOf(ts) \in Terms /\ Len(FlattenSeq(ts)) \in Nat
           /\ Len(RecordOf(ts)) = 2 + Len(FlattenSeq(ts))
  <1> DEFINE us == <<Header>> \o ts
             m == Len(ts) + 1
             F == FlattenSeq(ts)
  <1>1. us \in Seq(Terms) /\ FlattenSeq(us) = Header \o F BY HeaderIs, FlattenCons
  <1>2. m \in Nat /\ RecordOf(ts) = Compound("TUPLE", m, us)
    <2>1. Len(ts) \in Nat BY LenProperties
    <2> QED BY <2>1 DEF RecordOf, Header
  <1>3. F \in Terms BY FlattenTerms
  <1> HIDE DEF us, m, F
  <1>4. /\ Compound("TUPLE", m, us) \in Terms
        /\ Len(Compound("TUPLE", m, us)) = 1 + Len(FlattenSeq(us))
    BY <1>1, <1>2, CompoundIs
  <1>5. Len(FlattenSeq(us)) = 1 + Len(F) /\ Len(F) \in Nat
    <2>1. Len(Header \o F) = Len(Header) + Len(F) /\ Len(F) \in Nat
      <3> DEFINE h == Header
      <3>1. h \in Seq(Tokens) /\ F \in Seq(Tokens) BY <1>3, HeaderIs DEF Terms
      <3> HIDE DEF h
      <3> QED BY <3>1, ConcatProperties, LenProperties DEF h
    <2>2. Len(Header) = 1 BY HeaderIs
    <2> QED BY <1>1, <2>1, <2>2
  <1>6. Len(RecordOf(ts)) = 2 + Len(F) BY <1>2, <1>4, <1>5
  <1> QED BY <1>2, <1>4, <1>5, <1>6 DEF F

LEMMA RecordOccurs ==
    ASSUME NEW ts \in Seq(Terms), NEW b \in Terms, NEW i, Occurs(RecordOf(ts), b, i)
    PROVE  /\ i \in Nat \ {0} /\ Kind(b, i) = "TUPLE" /\ SkipTerm(b, i + 1) = (i + 1) + 1
           /\ Occurs(FlattenSeq(ts), b, (i + 1) + 1)
           /\ Written(b, i, i + 1) = {} /\ Written(b, i + 1, (i + 1) + 1) = {}
  <1> DEFINE us == <<Header>> \o ts
             m == Len(ts) + 1
             F == FlattenSeq(ts)
  <1>1. us \in Seq(Terms) /\ FlattenSeq(us) = Header \o F BY HeaderIs, FlattenCons
  <1>2. m \in Nat /\ RecordOf(ts) = Compound("TUPLE", m, us)
    <2>1. Len(ts) \in Nat BY LenProperties
    <2> QED BY <2>1 DEF RecordOf, Header
  <1>3. F \in Terms BY FlattenTerms
  <1> HIDE DEF us, m, F
  <1>4. /\ i \in Nat \ {0} /\ Kind(b, i) = "TUPLE"
        /\ Occurs(FlattenSeq(us), b, i + 1) /\ Written(b, i, i + 1) = {}
    <2>1. Occurs(Compound("TUPLE", m, us), b, i) BY <1>2
    <2> QED BY <1>1, <1>2, <2>1, CompoundOccurs
  <1>5. Occurs(Header, b, i + 1) /\ Occurs(F, b, (i + 1) + 1)
    <2>1. Occurs(Header \o F, b, i + 1) BY <1>1, <1>4
    <2>2. Occurs(Header, b, i + 1) /\ Occurs(F, b, (i + 1) + Len(Header))
      BY <1>3, <2>1, HeaderIs, OccursSplits
    <2> QED BY <2>2, HeaderIs
  <1>6. SkipTerm(b, i + 1) = (i + 1) + 1
    <2>1. SkipTerm(b, i + 1) = (i + 1) + Len(Header) BY <1>5, HeaderIs, SkipTermIs
    <2> QED BY <2>1, HeaderIs
  <1>7. Written(b, i + 1, (i + 1) + 1) = {} BY <1>5, HeaderIs
  <1> QED BY <1>4, <1>5, <1>6, <1>7 DEF F

(* The fields of the schemas: their decoders are these.                    *)
FieldDecoder == DOMAIN Simple \union DOMAIN ElementOf \union {"executable"}

FieldsOf(s, ds) ==
    /\ Len(s) \in Nat \ {0} /\ DOMAIN s = 1 .. Len(s)
    /\ \A k \in 1 .. Len(s) : s[k][2] \in ds

LEMMA SchemaIs == ASSUME NEW e \in DOMAIN Schema PROVE FieldsOf(Schema[e], FieldDecoder)
  <1> DEFINE ds == {"str", "atom", "uint64", "int64", "double", "map", "strs", "str_strs",
                    "atom_strs", "atom_buffs", "uint64s", "resources", "timetables",
                    "metrics", "executable"}
  <1>1. FieldDecoder = ds
    <2>1. DOMAIN Simple = {"str", "atom", "uint64", "int64", "double", "map"} BY DEF Simple
    <2> QED BY <2>1, DecodersAre DEF FieldDecoder
  <1>2. FieldsOf(AccountSchema, ds) BY DEF FieldsOf, AccountSchema
  <1>3. FieldsOf(BootInfoSchema, ds) BY DEF FieldsOf, BootInfoSchema
  <1>4. FieldsOf(ClusterSchema, ds) BY DEF FieldsOf, ClusterSchema
  <1>5. FieldsOf(ExecutableSchema, ds) BY DEF FieldsOf, ExecutableSchema
  <1>6. FieldsOf(GlobalSchema, ds) BY DEF FieldsOf, GlobalSchema
  <1>7. FieldsOf(GridSchema, ds) BY DEF FieldsOf, GridSchema
  <1>8. FieldsOf(HookSchema, ds) BY DEF FieldsOf, HookSchema
  <1>9. FieldsOf(ImageSchema, ds) BY DEF FieldsOf, ImageSchema
  <1>10. FieldsOf(JobSchema, ds) BY DEF FieldsOf, JobSchema
  <1>11. FieldsOf(MetricSchema, ds) BY DEF FieldsOf, MetricSchema
  <1>12. FieldsOf(NodeSchema, ds) BY DEF FieldsOf, NodeSchema
  <1>13. FieldsOf(PartitionSchema, ds) BY DEF FieldsOf, PartitionSchema
  <1>14. FieldsOf(ProcessSchema, ds) BY DEF FieldsOf, ProcessSchema
  <1>15. FieldsOf(QueueSchema, ds) BY DEF FieldsOf, QueueSchema
  <1>16. FieldsOf(RelocationSchema, ds) BY DEF FieldsOf, RelocationSchema
  <1>17. FieldsOf(RemoteSchema, ds) BY DEF FieldsOf, RemoteSchema
  <1>18. FieldsOf(ResourceSchema, ds) BY DEF FieldsOf, ResourceSchema
  <1>19. FieldsOf(RoleSchema, ds) BY DEF FieldsOf, RoleSchema
  <1>20. FieldsOf(SchedulerSchema, ds) BY DEF FieldsOf, SchedulerSchema
  <1>21. FieldsOf(SchedulerResultSchema, ds) BY DEF FieldsOf, SchedulerResultSchema
  <1>22. FieldsOf(TimetableSchema, ds) BY DEF FieldsOf, TimetableSchema
  <1>23. FieldsOf(UserSchema, ds) BY DEF FieldsOf, UserSchema
  <1> HIDE DEF ds
  <1>24. FieldsOf(Schema[e], ds)
    BY <1>2, <1>3, <1>4, <1>5, <1>6, <1>7, <1>8, <1>9, <1>10, <1>11, <1>12, <1>13, <1>14,
       <1>15, <1>16, <1>17, <1>18, <1>19, <1>20, <1>21, <1>22, <1>23, DecodersAre DEF Schema
  <1> QED BY <1>1, <1>24

LEMMA RecordReads ==
    ASSUME NEW e \in DOMAIN Schema, NEW ts \in Seq(Terms), Len(ts) = Len(Schema[e]),
           NEW b \in Terms, NEW reads, NEW how,
           \A k \in 1 .. Len(ts) : Reading(reads, b, Schema[e][k][2], ts[k], how)
    PROVE  ReadsBy(reads, b, e, RecordOf(ts), how)
  <1> DEFINE t == RecordOf(ts)
             n == Len(FlattenSeq(ts))
             ds == [k \in DOMAIN Schema[e] |-> Schema[e][k][2]]
  <1> SUFFICES ASSUME NEW i, Occurs(t, b, i)
               PROVE  Right(ReadWith(reads, e, b, i), b, i, i + Len(t), how)
    BY DEF ReadsBy
  <1> DEFINE j == (i + 1) + 1
             r == ReadAll(reads, ds, j)
  <1>1. Len(t) = 2 + n /\ n \in Nat BY RecordIs
  <1>2. /\ i \in Nat \ {0} /\ Kind(b, i) = "TUPLE" /\ SkipTerm(b, i + 1) = j
        /\ Occurs(FlattenSeq(ts), b, j)
        /\ Written(b, i, i + 1) = {} /\ Written(b, i + 1, j) = {}
    BY RecordOccurs
  <1>3. ReadWith(reads, e, b, i) = Good(r.at, r.took)
    <2>1. ReadRecord(reads, e, b, i) = Good(r.at, r.took) BY <1>2 DEF ReadRecord
    <2> HIDE DEF r
    <2> QED BY <2>1, ReadWithCompound
  <1>4. Len(ds) = Len(ts) /\ \A k \in 1 .. Len(ts) : ds[k] = Schema[e][k][2]
    BY SchemaIs DEF FieldsOf
  <1>5. Right(r, b, j, j + n, how)
    <2> HIDE DEF ds, j, t
    <2>1. \A k \in 1 .. Len(ts) : Reading(reads, b, ds[k], ts[k], how) BY <1>4
    <2> QED BY <1>2, <1>4, <2>1, ReadAllRight
  <1>6. /\ j + n = i + Len(t) /\ i \in Nat /\ i + 1 \in Nat /\ i + Len(t) \in Nat
        /\ j <= i + Len(t) /\ i + 1 <= i + Len(t)
    <2> DEFINE m == Len(t)
    <2>1. m = 2 + n BY <1>1
    <2> HIDE DEF n, m
    <2> QED BY <1>1, <1>2, <2>1 DEF m
  <1> HIDE DEF r, t, n, ds
  <1>7. Right(r, b, i + 1, i + Len(t), how) BY <1>2, <1>5, <1>6, RightAfterToken
  <1>8. Right(r, b, i, i + Len(t), how) BY <1>2, <1>6, <1>7, RightAfterToken
  <1>9. Good(r.at, r.took) = r
    <2> DEFINE l == i + Len(t)
    <2>1. Right(r, b, i, l, how) BY <1>8
    <2> HIDE DEF l
    <2> QED BY <2>1, RightAgain
  <1> QED BY <1>3, <1>8, <1>9

(***************************************************************************)
(* The values of the fields.  The recursive function of Values exists.     *)
(***************************************************************************)
NoValues == [d \in Decoder |-> {}]
ValuesTo(n, f) == f = [m \in 0 .. n |-> ValuesOver(IF m = 0 THEN NoValues ELSE f[m - 1])]

LEMMA ValuesGrow ==
    ASSUME NEW n \in Nat, NEW f, ValuesTo(n, f)
    PROVE  \E g : ValuesTo(n + 1, g)
  <1> DEFINE g == [m \in 0 .. n + 1 |-> IF m = n + 1 THEN ValuesOver(f[n]) ELSE f[m]]
  <1>1. ASSUME NEW m \in 0 .. n + 1
        PROVE  g[m] = ValuesOver(IF m = 0 THEN NoValues ELSE g[m - 1])
    <2>1. CASE m = n + 1
      <3>1. n \in 0 .. n + 1 /\ n # n + 1 /\ m - 1 = n /\ m # 0 BY <2>1
      <3>2. g[m] = ValuesOver(f[n]) BY <2>1
      <3>3. g[m - 1] = f[n] BY <3>1
      <3> HIDE DEF g
      <3> QED BY <3>1, <3>2, <3>3
    <2>2. CASE m # n + 1
      <3>1. m \in 0 .. n /\ g[m] = f[m] BY <2>2
      <3>2. f[m] = ValuesOver(IF m = 0 THEN NoValues ELSE f[m - 1]) BY <3>1 DEF ValuesTo
      <3>3. m # 0 => g[m - 1] = f[m - 1] BY <3>1
      <3> HIDE DEF g
      <3> QED BY <3>1, <3>2, <3>3
    <2> QED BY <2>1, <2>2
  <1>2. g = [m \in 0 .. n + 1 |-> g[m]] OBVIOUS
  <1> HIDE DEF g
  <1>3. ValuesTo(n + 1, g) BY <1>1, <1>2 DEF ValuesTo
  <1> QED BY <1>3

LEMMA ValuesExist == ASSUME NEW n \in Nat PROVE \E f : ValuesTo(n, f)
  <1> DEFINE S == {m \in Nat : \E f : ValuesTo(m, f)}
  <1>1. 0 \in S
    <2> DEFINE f == [m \in 0 .. 0 |-> ValuesOver(NoValues)]
    <2>1. ValuesTo(0, f) BY DEF ValuesTo
    <2> QED BY <2>1
  <1>2. \A m \in S : m + 1 \in S BY ValuesGrow
  <1> HIDE DEF S
  <1>3. S \in SUBSET Nat BY DEF S
  <1>4. S = Nat BY <1>1, <1>2, <1>3, NatSet
  <1> QED BY <1>4 DEF S

LEMMA Bounds ==
    /\ MaxList \in Nat /\ MaxDepth \in Nat /\ MaxChanged \in Nat /\ MaxRuns \in Nat
    /\ Entity \subseteq DOMAIN Schema
  BY RecordsAssumption

LEMMA ValuesAre == \E f : ValuesTo(MaxDepth, f) /\ Values(MaxDepth) = f[MaxDepth]
  <1> DEFINE f == CHOOSE f : ValuesTo(MaxDepth, f)
  <1>1. ValuesTo(MaxDepth, f) BY Bounds, ValuesExist
  <1>2. Values(MaxDepth) = f[MaxDepth] BY Zenon DEF Values, ValuesTo, NoValues
  <1> HIDE DEF f
  <1> QED BY <1>1, <1>2

(* Each of a set of values is a term.                                      *)
AreTerms(ts) == \A t \in ts : t \in Terms /\ Len(t) > 0
Typed(values) == \A d \in Decoder : AreTerms(values[d])

LEMMA IsSequence ==
    ASSUME NEW S, NEW n \in Nat, NEW r, r = [k \in 1 .. n |-> r[k]],
           \A k \in 1 .. n : r[k] \in S
    PROVE  r \in Seq(S) /\ Len(r) = n
  <1>1. r \in [1 .. n -> S] OBVIOUS
  <1>2. r \in Seq(S) BY <1>1, SeqDef
  <1>3. Len(r) \in Nat /\ DOMAIN r = 1 .. Len(r) BY <1>2, LenProperties
  <1>4. 1 .. n = 1 .. Len(r) BY <1>1, <1>3
  <1>5. Len(r) = n
    <2> DEFINE m == Len(r)
    <2>1. m \in Nat /\ 1 .. n = 1 .. m BY <1>3, <1>4
    <2> HIDE DEF m
    <2>2. \A i : i \in 1 .. n <=> i \in 1 .. m BY <2>1
    <2>3. n <= m
      <3>1. n = 0 \/ n \in 1 .. n OBVIOUS
      <3> QED BY <2>1, <2>2, <3>1
    <2>4. m <= n
      <3>1. m = 0 \/ m \in 1 .. m BY <2>1
      <3> QED BY <2>1, <2>2, <3>1
    <2>5. m = n BY <2>1, <2>3, <2>4
    <2> QED BY <2>5 DEF m
  <1> QED BY <1>2, <1>5

LEMMA ListsAre ==
    ASSUME NEW S, NEW ts \in Lists(S)
    PROVE  /\ ts \in Seq(S) /\ Len(ts) \in Nat /\ Len(ts) <= MaxList
           /\ \A k \in 1 .. Len(ts) : ts[k] \in S
  <1>1. PICK m \in 0 .. MaxList : ts \in [1 .. m -> S] BY DEF Lists, BoundedSeq, SeqOf
  <1>2. ts \in Seq(S) /\ Len(ts) = m
    <2>1. m \in Nat /\ ts = [k \in 1 .. m |-> ts[k]] BY <1>1
    <2>2. \A k \in 1 .. m : ts[k] \in S BY <1>1
    <2> QED BY <2>1, <2>2, IsSequence
  <1>3. MaxList \in Nat BY Bounds
  <1> QED BY <1>1, <1>2, <1>3

LEMMA TermsOnly ==
    ASSUME NEW S, AreTerms(S), NEW ts \in Seq(S)
    PROVE  ts \in Seq(Terms)
  <1>1. S \subseteq Terms BY DEF AreTerms
  <1> QED BY <1>1, SeqMonotonic

LEMMA NoElements == ASSUME NEW S PROVE <<>> \in Lists(S)
  <1>1. <<>> \in [1 .. 0 -> S] OBVIOUS
  <1>2. 0 \in 0 .. MaxList BY Bounds
  <1> QED BY <1>1, <1>2 DEF Lists, BoundedSeq, SeqOf

LEMMA ListTyped ==
    ASSUME NEW ts \in Seq(Terms) PROVE ListOf(ts) \in Terms /\ Len(ListOf(ts)) > 0
  <1>1. CASE ts = <<>>
    <2>1. "NIL" \in Kinds BY DEF Kinds
    <2>2. ListOf(ts) = Term("NIL") BY <1>1 DEF ListOf
    <2>3. Term("NIL") \in Terms /\ Len(Term("NIL")) = 1 BY <2>1, TermIs
    <2> QED BY <2>2, <2>3
  <1>2. CASE ts # <<>>
    <2> DEFINE n == Len(FlattenSeq(ts))
               m == Len(ListOf(ts))
    <2>1. ListOf(ts) \in Terms /\ m = 2 + n /\ n \in Nat BY <1>2, ListIs
    <2> HIDE DEF n, m
    <2>2. m > 0 BY <2>1
    <2> QED BY <2>1, <2>2 DEF m
  <1> QED BY <1>1, <1>2

LEMMA MapTyped ==
    ASSUME NEW es \in Seq(Terms) PROVE MapOf(es) \in Terms /\ Len(MapOf(es)) > 0
  <1> DEFINE l == Len(es)
             n == Len(FlattenSeq(es))
             m == Len(MapOf(es))
  <1>1. l \in Nat /\ MapOf(es) = Compound("MAP", l, es) BY LenProperties DEF MapOf
  <1> HIDE DEF l
  <1>2. Compound("MAP", l, es) \in Terms /\ Len(Compound("MAP", l, es)) = 1 + n /\ n \in Nat
    BY <1>1, CompoundIs
  <1>3. m = 1 + n /\ n \in Nat BY <1>1, <1>2
  <1> HIDE DEF n, m
  <1>4. m > 0 BY <1>3
  <1> QED BY <1>1, <1>2, <1>4 DEF m

LEMMA RecordTyped ==
    ASSUME NEW ts \in Seq(Terms) PROVE RecordOf(ts) \in Terms /\ Len(RecordOf(ts)) > 0
  <1> DEFINE n == Len(FlattenSeq(ts))
             m == Len(RecordOf(ts))
  <1>1. RecordOf(ts) \in Terms /\ m = 2 + n /\ n \in Nat BY RecordIs
  <1> HIDE DEF n, m
  <1>2. m > 0 BY <1>1
  <1> QED BY <1>1, <1>2 DEF m

LEMMA TupleTyped ==
    ASSUME NEW v \in Terms, NEW w \in Terms
    PROVE  /\ TupleTerm(<<v, w>>) \in Terms /\ Len(v) \in Nat /\ Len(w) \in Nat
           /\ Len(TupleTerm(<<v, w>>)) = 1 + (Len(v) + Len(w))
  <1> DEFINE ts == <<v, w>>
  <1>1. ts \in Seq(Terms) /\ FlattenSeq(ts) = v \o w BY FlattenTwo
  <1>2. TupleTerm(ts) = Compound("TUPLE", 2, ts) BY DEF TupleTerm
  <1> HIDE DEF ts
  <1>3. /\ Compound("TUPLE", 2, ts) \in Terms
        /\ Len(Compound("TUPLE", 2, ts)) = 1 + Len(FlattenSeq(ts))
    BY <1>1, CompoundIs
  <1>4. Len(v \o w) = Len(v) + Len(w) /\ Len(v) \in Nat /\ Len(w) \in Nat
    BY ConcatProperties, LenProperties DEF Terms
  <1> QED BY <1>1, <1>2, <1>3, <1>4 DEF ts

LEMMA MapsAre ==
    ASSUME NEW ks, NEW vs, AreTerms(ks), AreTerms(vs), NEW t \in Maps(ks, vs)
    PROVE  \E es \in Seq(Terms) :
              /\ t = MapOf(es)
              /\ \A i \in 1 .. Len(es) : \E k \in ks, v \in vs : es[i] = k \o v
  <1> DEFINE S == UNION {{k \o v : v \in vs} : k \in ks}
  <1>1. ASSUME NEW x \in S PROVE \E k \in ks, v \in vs : x = k \o v BY <1>1
  <1>2. \E es \in Lists(S) : t = MapOf(es)
    <2>1. t \in {MapOf(es) : es \in Lists(S)} BY DEF Maps
    <2> HIDE DEF S
    <2> QED BY <2>1
  <1> HIDE DEF S
  <1>3. PICK es \in Lists(S) : t = MapOf(es) BY <1>2
  <1>4. S \subseteq Terms
    <2> SUFFICES ASSUME NEW x \in S PROVE x \in Terms OBVIOUS
    <2>1. PICK k \in ks, v \in vs : x = k \o v BY <1>1
    <2>2. k \in Terms /\ v \in Terms BY DEF AreTerms
    <2> QED BY <2>1, <2>2, ConcatProperties DEF Terms
  <1>5. es \in Seq(S) /\ \A i \in 1 .. Len(es) : es[i] \in S BY ListsAre
  <1>6. es \in Seq(Terms) BY <1>4, <1>5, SeqMonotonic
  <1>7. \A i \in 1 .. Len(es) : \E k \in ks, v \in vs : es[i] = k \o v BY <1>1, <1>5
  <1> QED BY <1>3, <1>6, <1>7

(* The values without an element or a field of their own.                  *)
LEMMA ScalarTerm ==
    ASSUME NEW kind \in {"ATOM", "STRING", "BINARY", "INTEGER", "NEGATIVE", "FLOAT", "NIL"}
    PROVE  /\ kind \in Kinds /\ Term(kind) \in Terms /\ Len(Term(kind)) = 1
           /\ Len(Term(kind)) > 0 /\ Forest(Term(kind), 1)
  <1>1. kind \in Kinds BY DEF Kinds, Scalar
  <1>2. Len(Term(kind)) = 1 BY <1>1, TermIs
  <1>3. Len(Term(kind)) > 0 BY <1>2
  <1> QED BY <1>1, <1>2, <1>3, TermIs

LEMMA PricesAre ==
    ASSUME NEW t \in Prices
    PROVE  \E es \in Seq(Terms) :
              /\ t = MapOf(es)
              /\ \A i \in 1 .. Len(es) : \E v \in {Term("FLOAT"), Term("INTEGER")} :
                     es[i] = Term("STRING") \o v
  <1> DEFINE ks == {Term("STRING")}
             vs == {Term("FLOAT"), Term("INTEGER")}
  <1>1. AreTerms(ks) /\ AreTerms(vs)
    <2>1. Term("STRING") \in Terms /\ Len(Term("STRING")) = 1 BY ScalarTerm
    <2>2. Term("FLOAT") \in Terms /\ Len(Term("FLOAT")) = 1 BY ScalarTerm
    <2>3. Term("INTEGER") \in Terms /\ Len(Term("INTEGER")) = 1 BY ScalarTerm
    <2> QED BY <2>1, <2>2, <2>3 DEF AreTerms
  <1>2. t \in Maps(ks, vs) BY DEF Prices
  <1>3. \A k \in ks : k = Term("STRING") OBVIOUS
  <1> HIDE DEF ks, vs
  <1>4. PICK es \in Seq(Terms) :
            /\ t = MapOf(es)
            /\ \A i \in 1 .. Len(es) : \E k \in ks, v \in vs : es[i] = k \o v
    BY <1>1, <1>2, MapsAre
  <1>5. \A i \in 1 .. Len(es) : \E v \in vs : es[i] = Term("STRING") \o v BY <1>3, <1>4
  <1> QED BY <1>4, <1>5 DEF vs

LEMMA FlatIs ==
    /\ DOMAIN Flat = {"str", "atom", "uint64", "int64", "double", "map", "term"}
    /\ Flat["str"] = {Term("STRING"), Term("NIL"), Term("BINARY")}
    /\ Flat["atom"] = {Term("ATOM")} /\ Flat["uint64"] = {Term("INTEGER")}
    /\ Flat["int64"] = {Term("INTEGER"), Term("NEGATIVE")}
    /\ Flat["double"] = {Term("FLOAT")} /\ Flat["map"] = Prices
    /\ Flat["term"] = {Term("ATOM"), ListOf(<<Term("STRING"), Term("INTEGER")>>)}
  <1>1. DOMAIN Flat = {"str", "atom", "uint64", "int64", "double", "map", "term"} BY DEF Flat
  <1>2. Flat["str"] = {Term("STRING"), Term("NIL"), Term("BINARY")} BY DEF Flat, Text
  <1>3. Flat["atom"] = {Term("ATOM")} /\ Flat["uint64"] = {Term("INTEGER")} BY DEF Flat
  <1>4. Flat["int64"] = {Term("INTEGER"), Term("NEGATIVE")} BY DEF Flat
  <1>5. Flat["double"] = {Term("FLOAT")} /\ Flat["map"] = Prices BY DEF Flat
  <1>6. Flat["term"] = {Term("ATOM"), ListOf(<<Term("STRING"), Term("INTEGER")>>)} BY DEF Flat
  <1> QED BY <1>1, <1>2, <1>3, <1>4, <1>5, <1>6

LEMMA FlatTyped == ASSUME NEW d \in DOMAIN Flat PROVE AreTerms(Flat[d])
  <1> SUFFICES ASSUME NEW t \in Flat[d] PROVE t \in Terms /\ Len(t) > 0 BY DEF AreTerms
  <1>1. CASE d \in {"str", "atom", "uint64", "int64", "double"}
    <2>1. \E kind \in {"ATOM", "STRING", "BINARY", "INTEGER", "NEGATIVE", "FLOAT", "NIL"} :
              t = Term(kind)
      BY <1>1, FlatIs
    <2>2. PICK kind \in {"ATOM", "STRING", "BINARY", "INTEGER", "NEGATIVE", "FLOAT", "NIL"} :
              t = Term(kind)
      BY <2>1
    <2>3. Term(kind) \in Terms /\ Len(Term(kind)) = 1 BY ScalarTerm
    <2> QED BY <2>2, <2>3
  <1>2. CASE d = "map"
    <2>1. t \in Prices BY <1>2, FlatIs
    <2>2. PICK es \in Seq(Terms) : t = MapOf(es) BY <2>1, PricesAre
    <2> QED BY <2>2, MapTyped
  <1>3. CASE d = "term"
    <2>1. t = Term("ATOM") \/ t = ListOf(<<Term("STRING"), Term("INTEGER")>>) BY <1>3, FlatIs
    <2>2. CASE t = Term("ATOM")
      <3>1. Term("ATOM") \in Terms /\ Len(Term("ATOM")) = 1 BY ScalarTerm
      <3> QED BY <2>2, <3>1
    <2>3. CASE t = ListOf(<<Term("STRING"), Term("INTEGER")>>)
      <3>1. Term("STRING") \in Terms /\ Term("INTEGER") \in Terms BY ScalarTerm
      <3>2. <<Term("STRING"), Term("INTEGER")>> \in Seq(Terms) BY <3>1, FlattenTwo
      <3> QED BY <2>3, <3>2, ListTyped
    <2> QED BY <2>1, <2>2, <2>3
  <1> QED BY <1>1, <1>2, <1>3, FlatIs

LEMMA PairsAre ==
    ASSUME NEW d \in DOMAIN PartsOf \ {"entry"}, NEW t \in Pairs(d)
    PROVE  \E v \in Flat[PartsOf[d][1]], w \in Flat[PartsOf[d][2]] :
               /\ t = TupleTerm(<<v, w>>) /\ v \in Terms /\ w \in Terms
               /\ Len(v) > 0 /\ Len(w) > 0
  <1> DEFINE F == Flat[PartsOf[d][1]]
             G == Flat[PartsOf[d][2]]
  <1>1. PartsOf[d][1] \in DOMAIN Flat /\ PartsOf[d][2] \in DOMAIN Flat
    BY DecodersAre, FlatIs DEF PartsOf
  <1>2. AreTerms(F) /\ AreTerms(G) BY <1>1, FlatTyped
  <1>3. t \in UNION {{TupleTerm(<<v, w>>) : w \in G} : v \in F} BY DEF Pairs
  <1> HIDE DEF F, G
  <1>4. PICK v \in F, w \in G : t = TupleTerm(<<v, w>>) BY <1>3
  <1>5. v \in Terms /\ w \in Terms /\ Len(v) > 0 /\ Len(w) > 0 BY <1>2 DEF AreTerms
  <1> QED BY <1>4, <1>5 DEF F, G

LEMMA FieldIs ==
    ASSUME NEW d \in FieldDecoder
    PROVE  d \in Decoder /\ d # "entry" /\ d # "map_value"
           /\ (d \in DOMAIN Simple \/ d \in DOMAIN ElementOf \/ d = "executable")
  <1>1. DOMAIN Simple = {"str", "atom", "uint64", "int64", "double", "map"} BY DEF Simple
  <1> QED BY <1>1, DecodersAre DEF FieldDecoder, Decoder

(* A record with some fields that are not plain.                           *)
LEMMA PlainRecordIs ==
    ASSUME NEW e \in DOMAIN Schema
    PROVE  \A k \in 1 .. Len(Schema[e]) : PlainRecord(e)[k] = PlainIn(Schema[e][k][2])
  BY SchemaIs DEF FieldsOf, PlainRecord

LEMMA RecordsInAre ==
    ASSUME NEW e \in DOMAIN Schema, NEW values, NEW r,
           r \in {PlainRecord(e)} \union RecordsIn(e, values)
    PROVE  /\ r = [k \in 1 .. Len(Schema[e]) |-> r[k]]
           /\ \A k \in 1 .. Len(Schema[e]) :
                  r[k] \in values[Schema[e][k][2]] \union {PlainIn(Schema[e][k][2])}
  <1> DEFINE n == Len(Schema[e])
             Of(k) == values[Schema[e][k][2]]
             p == PlainRecord(e)
  <1>1. DOMAIN Schema[e] = 1 .. n BY SchemaIs DEF FieldsOf
  <1>2. \A k \in 1 .. n : p[k] = PlainIn(Schema[e][k][2]) BY PlainRecordIs
  <1>3. p = [k \in 1 .. n |-> p[k]] BY <1>1 DEF PlainRecord
  <1>4. CASE r = p BY <1>2, <1>3, <1>4
  <1>5. CASE r \in RecordsIn(e, values)
    <2> DEFINE Ks == {Range(ks) : ks \in [1 .. MaxChanged -> DOMAIN Schema[e]]}
               Vs(K) == {v \in [K -> UNION {Of(k) : k \in K}] : \A k \in K : v[k] \in Of(k)}
    <2>1. r \in UNION {{[k \in DOMAIN Schema[e] |-> IF k \in K THEN v[k] ELSE p[k]] :
                            v \in Vs(K)} : K \in Ks}
      BY <1>5, Zenon DEF RecordsIn
    <2> HIDE DEF Ks, p, n
    <2>2. PICK K \in Ks :
              \E v \in Vs(K) : r = [k \in DOMAIN Schema[e] |-> IF k \in K THEN v[k] ELSE p[k]]
      <3> HIDE DEF Vs
      <3> QED BY <2>1
    <2>3. PICK v \in Vs(K) : r = [k \in DOMAIN Schema[e] |-> IF k \in K THEN v[k] ELSE p[k]]
      BY <2>2, Zenon
    <2>4. \A k \in K : v[k] \in Of(k) BY <2>3
    <2>5. \A k \in 1 .. n : r[k] = IF k \in K THEN v[k] ELSE p[k] BY <1>1, <2>3
    <2>6. r = [k \in 1 .. n |-> r[k]] BY <1>1, <2>3
    <2>7. \A k \in 1 .. n : r[k] \in values[Schema[e][k][2]] \union {PlainIn(Schema[e][k][2])}
      BY <1>2, <2>4, <2>5
    <2> QED BY <2>6, <2>7 DEF n
  <1> QED BY <1>4, <1>5

(* The values over others, by what their decoder is for.                   *)
LEMMA ValuesOverIs ==
    ASSUME NEW inside, NEW d \in Decoder, NEW t \in ValuesOver(inside)[d]
    PROVE  \/ d \in DOMAIN Flat /\ t \in Flat[d]
           \/ d \in DOMAIN PartsOf \ {"entry"} /\ t \in Pairs(d)
           \/ d \in DOMAIN ElementOf /\ \E ts \in Lists(inside[ElementOf[d]]) : t = ListOf(ts)
           \/ d = "uint64s" /\ t = Term("STRING")
           \/ d \in DOMAIN Schema
              /\ \E r \in {PlainRecord(d)} \union RecordsIn(d, inside) : t = RecordOf(r)
  <1> DEFINE A == {ListOf(ts) : ts \in Lists(inside[ElementOf[d]])}
             B == IF d = "uint64s" THEN {Term("STRING")} ELSE {}
             C == {RecordOf(r) : r \in {PlainRecord(d)} \union RecordsIn(d, inside)}
  <1>1. t \in CASE d \in DOMAIN Flat -> Flat[d]
                [] d \in DOMAIN PartsOf \ {"entry"} -> Pairs(d)
                [] d \in DOMAIN ElementOf -> A \union B
                [] d \in DOMAIN Schema -> C
                [] OTHER -> {}
    BY DEF ValuesOver
  <1>2. t \in A => \E ts \in Lists(inside[ElementOf[d]]) : t = ListOf(ts) OBVIOUS
  <1>3. t \in B => d = "uint64s" /\ t = Term("STRING") OBVIOUS
  <1>4. t \in C => \E r \in {PlainRecord(d)} \union RecordsIn(d, inside) : t = RecordOf(r)
    OBVIOUS
  <1> HIDE DEF A, B, C
  <1>5. \/ d \in DOMAIN Flat /\ t \in Flat[d]
        \/ d \in DOMAIN PartsOf \ {"entry"} /\ t \in Pairs(d)
        \/ d \in DOMAIN ElementOf /\ t \in A \union B
        \/ d \in DOMAIN Schema /\ t \in C
    BY <1>1, DecodersAre, FlatIs DEF Decoder
  <1> QED BY <1>2, <1>3, <1>4, <1>5

LEMMA SimpleIs ==
    ASSUME NEW d \in DOMAIN Simple
    PROVE  /\ PlainIn(d) = Simple[d] /\ d \in DOMAIN Flat /\ Simple[d] \in Flat[d]
           /\ Simple[d] \in Terms /\ Len(Simple[d]) > 0
  <1>1. DOMAIN Simple = {"str", "atom", "uint64", "int64", "double", "map"} BY DEF Simple
  <1>2. PlainIn(d) = Simple[d] BY <1>1 DEF PlainIn
  <1>3. Simple[d] \in Flat[d]
    <2>1. CASE d # "map" BY <1>1, <2>1, FlatIs DEF Simple
    <2>2. CASE d = "map"
      <3> DEFINE ks == {Term("STRING")}
                 vs == {Term("FLOAT"), Term("INTEGER")}
                 S == UNION {{k \o v : v \in vs} : k \in ks}
      <3>1. <<>> \in Lists(S) BY NoElements
      <3>2. MapOf(<<>>) \in Prices
        <4>1. Prices = {MapOf(es) : es \in Lists(S)} BY Zenon DEF Prices, Maps
        <4> HIDE DEF S
        <4> QED BY <3>1, <4>1
      <3>3. EmptyMap = MapOf(<<>>)
        <4> DEFINE x == Token("MAP", 0)
        <4>1. x \in Tokens BY TokenIs
        <4>2. EmptyMap = <<x>> BY DEF EmptyMap, Term
        <4>3. MapOf(<<>>) = <<x>> \o <<>>
          <5>1. Len(<<>>) = 0 BY EmptySeq
          <5> QED BY <5>1, FlattenNone DEF MapOf, Compound
        <4> HIDE DEF x
        <4> QED BY <4>1, <4>2, <4>3, OneToken, ConcatEmptySeq DEF Terms
      <3>4. Simple[d] = EmptyMap BY <2>2 DEF Simple
      <3> QED BY <2>2, <3>2, <3>3, <3>4, FlatIs
    <2> QED BY <2>1, <2>2
  <1>4. d \in DOMAIN Flat BY <1>1, FlatIs
  <1>5. Simple[d] \in Terms /\ Len(Simple[d]) > 0 BY <1>3, <1>4, FlatTyped DEF AreTerms
  <1> QED BY <1>2, <1>3, <1>4, <1>5

LEMMA PlainTyped ==
    ASSUME NEW d \in FieldDecoder PROVE PlainIn(d) \in Terms /\ Len(PlainIn(d)) > 0
  <1>1. CASE d \in DOMAIN Simple BY <1>1, SimpleIs
  <1>2. CASE d \in DOMAIN ElementOf
    <2>1. DOMAIN Simple = {"str", "atom", "uint64", "int64", "double", "map"} BY DEF Simple
    <2>2. PlainIn(d) = Term("NIL") BY <1>2, <2>1, DecodersAre DEF PlainIn
    <2>3. Term("NIL") \in Terms /\ Len(Term("NIL")) = 1 BY ScalarTerm
    <2> QED BY <2>2, <2>3
  <1>3. CASE d = "executable"
    <2> DEFINE r == [k \in DOMAIN ExecutableSchema |-> Simple[ExecutableSchema[k][2]]]
    <2>1. DOMAIN Simple = {"str", "atom", "uint64", "int64", "double", "map"} BY DEF Simple
    <2>2. PlainIn(d) = RecordOf(r) BY <1>3, <2>1 DEF PlainIn
    <2>3. DOMAIN ExecutableSchema = 1 .. 5 BY DEF ExecutableSchema
    <2>4. \A k \in 1 .. 5 : ExecutableSchema[k][2] \in DOMAIN Simple
      BY <2>1 DEF ExecutableSchema
    <2>5. \A k \in 1 .. 5 : r[k] \in Terms BY <2>3, <2>4, SimpleIs
    <2>6. r = [k \in 1 .. 5 |-> r[k]] BY <2>3
    <2> HIDE DEF r
    <2>7. r \in Seq(Terms) BY <2>5, <2>6, IsSequence
    <2> QED BY <2>2, <2>7, RecordTyped
  <1> QED BY <1>1, <1>2, <1>3, FieldIs

LEMMA ValuesOverTyped ==
    ASSUME NEW inside, Typed(inside) PROVE Typed(ValuesOver(inside))
  <1> SUFFICES ASSUME NEW d \in Decoder, NEW t \in ValuesOver(inside)[d]
               PROVE  t \in Terms /\ Len(t) > 0
    BY DEF Typed, AreTerms
  <1>1. CASE d \in DOMAIN Flat /\ t \in Flat[d] BY <1>1, FlatTyped DEF AreTerms
  <1>2. CASE d \in DOMAIN PartsOf \ {"entry"} /\ t \in Pairs(d)
    <2>1. PICK v, w : /\ t = TupleTerm(<<v, w>>) /\ v \in Terms /\ w \in Terms
                      /\ Len(v) > 0 /\ Len(w) > 0
      BY <1>2, PairsAre
    <2>2. /\ TupleTerm(<<v, w>>) \in Terms /\ Len(v) \in Nat /\ Len(w) \in Nat
          /\ Len(TupleTerm(<<v, w>>)) = 1 + (Len(v) + Len(w))
      BY <2>1, TupleTyped
    <2>3. Len(t) > 0 BY <2>1, <2>2
    <2> QED BY <2>1, <2>2, <2>3
  <1>3. CASE d \in DOMAIN ElementOf /\ \E ts \in Lists(inside[ElementOf[d]]) : t = ListOf(ts)
    <2>1. ElementOf[d] \in Decoder BY <1>3, DecodersAre DEF ElementOf, Decoder
    <2> DEFINE S == inside[ElementOf[d]]
    <2>2. AreTerms(S) BY <2>1 DEF Typed
    <2>3. PICK ts \in Lists(S) : t = ListOf(ts) BY <1>3
    <2> HIDE DEF S
    <2>4. ts \in Seq(S) BY ListsAre
    <2>5. ts \in Seq(Terms) BY <2>2, <2>4, TermsOnly
    <2>6. ListOf(ts) \in Terms /\ Len(ListOf(ts)) > 0 BY <2>5, ListTyped
    <2> QED BY <2>3, <2>6, Zenon
  <1>4. CASE d = "uint64s" /\ t = Term("STRING")
    <2>1. Term("STRING") \in Terms /\ Len(Term("STRING")) > 0 BY ScalarTerm
    <2> QED BY <1>4, <2>1, Zenon
  <1>5. CASE d \in DOMAIN Schema
             /\ \E r \in {PlainRecord(d)} \union RecordsIn(d, inside) : t = RecordOf(r)
    <2>1. PICK r \in {PlainRecord(d)} \union RecordsIn(d, inside) : t = RecordOf(r) BY <1>5
    <2> DEFINE n == Len(Schema[d])
    <2>2. /\ r = [k \in 1 .. n |-> r[k]] /\ d \in DOMAIN Schema
          /\ \A k \in 1 .. n :
                 r[k] \in inside[Schema[d][k][2]] \union {PlainIn(Schema[d][k][2])}
      BY <1>5, RecordsInAre
    <2>3. n \in Nat /\ \A k \in 1 .. n : Schema[d][k][2] \in FieldDecoder
      BY <2>2, SchemaIs DEF FieldsOf
    <2> HIDE DEF n
    <2>4. ASSUME NEW k \in 1 .. n PROVE r[k] \in Terms
      <3> DEFINE f == Schema[d][k][2]
      <3>1. f \in FieldDecoder /\ f \in Decoder BY <2>3, FieldIs
      <3>2. r[k] \in inside[f] \union {PlainIn(f)} BY <2>2
      <3> HIDE DEF f
      <3>3. PlainIn(f) \in Terms BY <3>1, PlainTyped
      <3> QED BY <3>1, <3>2, <3>3 DEF Typed, AreTerms
    <2>5. r \in Seq(Terms) BY <2>2, <2>3, <2>4, IsSequence
    <2> QED BY <2>1, <2>5, RecordTyped
  <1> QED BY <1>1, <1>2, <1>3, <1>4, <1>5, ValuesOverIs

(***************************************************************************)
(* Every value is read: by the level of Read that is as high as the value  *)
(* is long.                                                                *)
(***************************************************************************)
LEMMA ListForest ==
    ASSUME NEW ts \in Seq(Terms), ts # <<>>, \A k \in 1 .. Len(ts) : Forest(ts[k], 1)
    PROVE  Forest(ListOf(ts), 1)
  <1> DEFINE nil == Term("NIL")
             us == Append(ts, nil)
             m == Len(ts)
             x == Token("LIST", m)
  <1>1. /\ us \in Seq(Terms) /\ Len(us) = m + 1 /\ m \in Nat \ {0} /\ us[m + 1] = nil
        /\ \A k \in 1 .. m : us[k] = ts[k]
        /\ ListOf(ts) = Compound("LIST", m, us)
    BY ListIs
  <1>2. Forest(nil, 1) BY ScalarTerm
  <1> HIDE DEF us, nil
  <1>3. \A k \in 1 .. Len(us) : Forest(us[k], 1)
    <2>1. \A k \in 1 .. Len(us) : k \in 1 .. m \/ k = m + 1
      <3> HIDE DEF m
      <3> QED BY <1>1
    <2> QED BY <1>1, <1>2, <2>1
  <1> HIDE DEF m
  <1>4. Parts(x) = Len(us)
    <2>1. x.kind = "LIST" /\ x.arity = m BY <1>1, TokenIs
    <2> QED BY <1>1, <2>1 DEF Parts
  <1>5. Forest(Compound("LIST", m, us), 1) BY <1>1, <1>3, <1>4, CompoundForest
  <1> QED BY <1>1, <1>5

LEMMA ListOfTwoForest ==
    ASSUME NEW v \in Terms, NEW w \in Terms, Forest(v, 1), Forest(w, 1)
    PROVE  ListOf(<<v, w>>) \in Terms /\ Forest(ListOf(<<v, w>>), 1)
  <1> DEFINE ts == <<v, w>>
  <1>1. ts \in Seq(Terms) BY FlattenTwo
  <1>2. ts # <<>> /\ Len(ts) = 2 /\ ts[1] = v /\ ts[2] = w OBVIOUS
  <1> HIDE DEF ts
  <1>3. \A k \in 1 .. Len(ts) : Forest(ts[k], 1)
    <2>1. \A k \in 1 .. Len(ts) : k = 1 \/ k = 2 BY <1>2
    <2> QED BY <1>2, <2>1
  <1>4. ListOf(ts) \in Terms /\ Forest(ListOf(ts), 1) BY <1>1, <1>2, <1>3, ListForest, ListTyped
  <1> QED BY <1>4 DEF ts

(* An entry of a map, two levels up from its key and its value.            *)
EntryOf(t, b, how) ==
    \E x \in Terms, y \in Terms :
        /\ t = x \o y /\ Len(x) > 0 /\ Len(y) > 0
        /\ \A reads : ReadsBy(reads, b, "str", x, how) /\ ReadsBy(reads, b, "map_value", y, how)

LEMMA MapRead ==
    ASSUME NEW b \in Terms, NEW l \in Nat, NEW f, Levels(b, l, f), NEW n \in 1 .. l, NEW how,
           NEW es \in Seq(Terms), Len(MapOf(es)) <= n,
           \A k \in 1 .. Len(es) : EntryOf(es[k], b, how)
    PROVE  Reading(f[n], b, "map", MapOf(es), how)
  <1>1. {"str", "map", "map_value", "entry"} \subseteq Decoder BY DecodersAre DEF Decoder
  <1>2. ASSUME NEW k \in 1 .. Len(es) PROVE Reading(f[n - 1], b, "entry", es[k], how)
    <2>1. PICK x \in Terms, y \in Terms :
              /\ es[k] = x \o y /\ Len(x) > 0 /\ Len(y) > 0
              /\ \A reads : ReadsBy(reads, b, "str", x, how)
                            /\ ReadsBy(reads, b, "map_value", y, how)
      BY DEF EntryOf
    <2>2. n \in 3 .. l
      <3> DEFINE p == Len(FlattenSeq(es))
                 q == Len(es[k])
                 m == Len(MapOf(es))
      <3>1. m = 1 + p /\ p \in Nat
        <4> DEFINE c == Len(es)
        <4>1. c \in Nat /\ MapOf(es) = Compound("MAP", c, es) BY LenProperties DEF MapOf
        <4> HIDE DEF c
        <4>2. Len(Compound("MAP", c, es)) = 1 + p /\ p \in Nat BY <4>1, CompoundIs
        <4> QED BY <4>1, <4>2
      <3>2. q \in Nat /\ q <= p BY PartIsShorter
      <3>3. Len(x \o y) = Len(x) + Len(y) /\ Len(x) \in Nat /\ Len(y) \in Nat
        BY ConcatProperties, LenProperties DEF Terms
      <3>4. q >= 2 BY <2>1, <3>3
      <3>5. m <= n OBVIOUS
      <3> HIDE DEF p, q, m
      <3> QED BY <3>1, <3>2, <3>4, <3>5
    <2> DEFINE i == n - 1
               j == i - 1
    <2>3. i \in 1 .. l /\ j \in 1 .. l BY <2>2
    <2> HIDE DEF i, j
    <2>4. Reading(f[j], b, "str", x, how) BY <1>1, <2>1, <2>3, NextLevel
    <2>5. Reading(f[j], b, "map_value", y, how) BY <1>1, <2>1, <2>3, NextLevel
    <2>6. ReadsBy(f[i - 1], b, "entry", x \o y, how) BY <2>4, <2>5, EntryReads DEF j
    <2>7. Reading(f[i], b, "entry", x \o y, how) BY <1>1, <2>3, <2>6, NextLevel
    <2> QED BY <2>1, <2>7 DEF i
  <1>3. ReadsBy(f[n - 1], b, "map", MapOf(es), how) BY <1>2, MapReads
  <1> QED BY <1>1, <1>3, NextLevel

LEMMA FlatRead ==
    ASSUME NEW b \in Terms, NEW l \in Nat, NEW f, Levels(b, l, f), NEW n \in 1 .. l,
           NEW d \in DOMAIN Flat, NEW t \in Flat[d], Len(t) <= n
    PROVE  Reading(f[n], b, d, t, "all")
  <1> DEFINE reads == f[n - 1]
  <1>1. d \in Decoder BY FlatIs DEF Decoder
  <1>2. CASE d # "map"
    <2>1. ReadsBy(reads, b, d, t, "all")
      <3> HIDE DEF reads
      <3>1. CASE d = "str" BY <3>1, FlatIs, ReadsText DEF Text
      <3>2. CASE d \in {"atom", "uint64", "int64", "double"} BY <3>2, FlatIs, ReadsNumber
      <3>3. CASE d = "term"
        <4>1. t = Term("ATOM") \/ t = ListOf(<<Term("STRING"), Term("INTEGER")>>)
          BY <3>3, FlatIs
        <4>2. Term("ATOM") \in Terms /\ Forest(Term("ATOM"), 1) BY ScalarTerm
        <4>3. Term("STRING") \in Terms /\ Forest(Term("STRING"), 1) BY ScalarTerm
        <4>4. Term("INTEGER") \in Terms /\ Forest(Term("INTEGER"), 1) BY ScalarTerm
        <4>5. t \in Terms /\ Forest(t, 1) BY <4>1, <4>2, <4>3, <4>4, ListOfTwoForest
        <4> QED BY <3>3, <4>5, ReadsCopy
      <3> QED BY <1>2, <3>1, <3>2, <3>3, FlatIs
    <2> QED BY <1>1, <2>1, NextLevel
  <1>3. CASE d = "map"
    <2>1. t \in Prices BY <1>3, FlatIs
    <2>2. PICK es \in Seq(Terms) :
              /\ t = MapOf(es)
              /\ \A i \in 1 .. Len(es) : \E v \in {Term("FLOAT"), Term("INTEGER")} :
                     es[i] = Term("STRING") \o v
      BY <2>1, PricesAre
    <2>3. ASSUME NEW k \in 1 .. Len(es) PROVE EntryOf(es[k], b, "all")
      <3>1. PICK v \in {Term("FLOAT"), Term("INTEGER")} : es[k] = Term("STRING") \o v BY <2>2
      <3>2. \A r : ReadsBy(r, b, "map_value", v, "all") BY ReadsNumber
      <3>3. \A r : ReadsBy(r, b, "str", Term("STRING"), "all") BY ReadsText DEF Text
      <3>4. Term("STRING") \in Terms /\ Len(Term("STRING")) > 0 BY ScalarTerm
      <3>5. Term("FLOAT") \in Terms /\ Len(Term("FLOAT")) > 0 BY ScalarTerm
      <3>6. Term("INTEGER") \in Terms /\ Len(Term("INTEGER")) > 0 BY ScalarTerm
      <3>7. v \in Terms /\ Len(v) > 0
        <4>1. v = Term("FLOAT") \/ v = Term("INTEGER") OBVIOUS
        <4> QED BY <3>5, <3>6, <4>1, Zenon
      <3> QED BY <3>1, <3>2, <3>3, <3>4, <3>7 DEF EntryOf
    <2> QED BY <1>3, <2>2, <2>3, MapRead
  <1> QED BY <1>2, <1>3

LEMMA PlainIsValue ==
    ASSUME NEW inside, NEW d \in FieldDecoder PROVE PlainIn(d) \in ValuesOver(inside)[d]
  <1>1. d \in Decoder BY FieldIs
  <1>2. DOMAIN Simple = {"str", "atom", "uint64", "int64", "double", "map"} BY DEF Simple
  <1>3. CASE d \in DOMAIN Simple
    <2>1. d \in DOMAIN Flat /\ PlainIn(d) \in Flat[d] BY <1>3, SimpleIs
    <2>2. ValuesOver(inside)[d] = Flat[d]
      BY <1>1, <1>2, <1>3, <2>1, DecodersAre DEF ValuesOver
    <2> QED BY <2>1, <2>2
  <1>4. CASE d \in DOMAIN ElementOf
    <2> DEFINE A == {ListOf(ts) : ts \in Lists(inside[ElementOf[d]])}
               B == IF d = "uint64s" THEN {Term("STRING")} ELSE {}
    <2>1. PlainIn(d) = Term("NIL") BY <1>2, <1>4, DecodersAre DEF PlainIn
    <2>2. ListOf(<<>>) = Term("NIL") BY DEF ListOf
    <2>3. <<>> \in Lists(inside[ElementOf[d]]) BY NoElements
    <2>4. PlainIn(d) \in A BY <2>1, <2>2, <2>3
    <2>5. ValuesOver(inside)[d] = A \union B
      BY <1>1, <1>4, FlatIs, DecodersAre DEF ValuesOver
    <2> HIDE DEF A, B
    <2> QED BY <2>4, <2>5
  <1>5. CASE d = "executable"
    <2> DEFINE r == PlainRecord(d)
               C == {RecordOf(u) : u \in {r} \union RecordsIn(d, inside)}
    <2>1. PlainIn(d) = RecordOf(r)
      <3> DEFINE q == [k \in DOMAIN ExecutableSchema |-> Simple[ExecutableSchema[k][2]]]
      <3>1. PlainIn(d) = RecordOf(q) BY <1>2, <1>5 DEF PlainIn
      <3>2. Schema[d] = ExecutableSchema BY <1>5 DEF Schema
      <3>3. DOMAIN ExecutableSchema = 1 .. 5 BY DEF ExecutableSchema
      <3>4. \A k \in 1 .. 5 : ExecutableSchema[k][2] \in DOMAIN Simple
        BY <1>2 DEF ExecutableSchema
      <3>5. q = r BY <3>2, <3>3, <3>4, SimpleIs DEF PlainRecord
      <3> QED BY <3>1, <3>5
    <2> HIDE DEF r
    <2>2. RecordOf(r) \in C OBVIOUS
    <2>3. ValuesOver(inside)[d] = C
      BY <1>1, <1>5, FlatIs, DecodersAre DEF ValuesOver, r
    <2> HIDE DEF C
    <2> QED BY <2>1, <2>2, <2>3
  <1> QED BY <1>3, <1>4, <1>5, FieldIs

Reads(values, reads, b, n) ==
    \A d \in Decoder : \A t \in values[d] : Len(t) <= n => Reading(reads, b, d, t, "all")

LEMMA ListRead ==
    ASSUME NEW b \in Terms, NEW reads, NEW d \in DOMAIN ElementOf, NEW ts \in Seq(Terms),
           \A k \in 1 .. Len(ts) : Reading(reads, b, ElementOf[d], ts[k], "all")
    PROVE  ReadsBy(reads, b, d, ListOf(ts), "all")
  <1> SUFFICES ASSUME NEW i, Occurs(ListOf(ts), b, i)
               PROVE  Right(ReadWith(reads, d, b, i), b, i, i + Len(ListOf(ts)), "all")
    BY DEF ReadsBy
  <1> DEFINE e == ElementOf[d]
             r == ReadList(reads, e, b, i)
  <1>1. Right(r, b, i, i + Len(ListOf(ts)), "all") BY ListReads
  <1>2. ReadWith(reads, d, b, i) = r
    <2>1. CASE d # "uint64s" BY <2>1, ReadWithCompound
    <2>2. CASE d = "uint64s"
      <3>1. Kind(b, i) # "STRING"
        <4>1. CASE ts = <<>>
          <5>1. ListOf(ts) = Term("NIL") /\ "NIL" \in Kinds BY <4>1, ScalarTerm DEF ListOf
          <5>2. Occurs(Term("NIL"), b, i) BY <5>1, Zenon
          <5>3. Kind(b, i) = "NIL" BY <5>1, <5>2, TermOccurs
          <5> QED BY <5>3
        <4>2. CASE ts # <<>>
          <5> DEFINE us == Append(ts, Term("NIL"))
                     m == Len(ts)
          <5>1. us \in Seq(Terms) /\ m \in Nat /\ ListOf(ts) = Compound("LIST", m, us)
            BY <4>2, ListIs
          <5> HIDE DEF us, m
          <5>2. Occurs(Compound("LIST", m, us), b, i) BY <5>1
          <5>3. Kind(b, i) = "LIST" BY <5>1, <5>2, CompoundOccurs
          <5> QED BY <5>3
        <4> QED BY <4>1, <4>2
      <3>2. e = "uint64" BY <2>2 DEF ElementOf
      <3>3. ReadUint64s(reads, b, i) = r BY <3>1, <3>2 DEF ReadUint64s
      <3> HIDE DEF r
      <3> QED BY <2>2, <3>3, ReadWithIs
    <2> QED BY <2>1, <2>2
  <1> HIDE DEF r
  <1> QED BY <1>1, <1>2

LEMMA ValuesRead ==
    ASSUME NEW b \in Terms, NEW l \in Nat, NEW f, Levels(b, l, f), NEW n \in 1 .. l,
           NEW inside, Typed(inside), Reads(inside, f[n - 1], b, n - 1),
           Reads(ValuesOver(NoValues), f[n - 1], b, n - 1)
    PROVE  Reads(ValuesOver(inside), f[n], b, n)
  <1> DEFINE reads == f[n - 1]
  <1> SUFFICES ASSUME NEW d \in Decoder, NEW t \in ValuesOver(inside)[d], Len(t) <= n
               PROVE  Reading(f[n], b, d, t, "all")
    BY DEF Reads
  <1>1. CASE d \in DOMAIN Flat /\ t \in Flat[d] BY <1>1, FlatRead
  <1>2. CASE d \in DOMAIN PartsOf \ {"entry"} /\ t \in Pairs(d)
    <2>1. PICK v \in Flat[PartsOf[d][1]], w \in Flat[PartsOf[d][2]] :
              /\ t = TupleTerm(<<v, w>>) /\ v \in Terms /\ w \in Terms
              /\ Len(v) > 0 /\ Len(w) > 0
      BY <1>2, PairsAre
    <2>2. Len(v) \in Nat /\ Len(w) \in Nat /\ Len(t) = 1 + (Len(v) + Len(w))
      BY <2>1, TupleTyped
    <2>3. n - 1 \in 1 .. l /\ Len(v) <= n - 1 /\ Len(w) <= n - 1
      <3> DEFINE x == Len(v)
                 y == Len(w)
                 z == Len(t)
      <3>1. x \in Nat /\ y \in Nat /\ x > 0 /\ y > 0 /\ z = 1 + (x + y) /\ z <= n
        BY <2>1, <2>2
      <3> HIDE DEF x, y, z
      <3>2. n - 1 \in 1 .. l /\ x <= n - 1 /\ y <= n - 1 BY <3>1
      <3> QED BY <3>2 DEF x, y
    <2>4. PartsOf[d][1] \in DOMAIN Flat /\ PartsOf[d][2] \in DOMAIN Flat
      BY <1>2, DecodersAre, FlatIs DEF PartsOf
    <2>5. Reading(reads, b, PartsOf[d][1], v, "all") BY <2>3, <2>4, FlatRead
    <2>6. Reading(reads, b, PartsOf[d][2], w, "all") BY <2>3, <2>4, FlatRead
    <2> HIDE DEF reads
    <2>7. ReadsBy(reads, b, d, t, "all") BY <1>2, <2>1, <2>5, <2>6, TupleReads
    <2> QED BY <2>7, NextLevel DEF reads
  <1>3. CASE d \in DOMAIN ElementOf /\ \E ts \in Lists(inside[ElementOf[d]]) : t = ListOf(ts)
    <2> DEFINE e == ElementOf[d]
               S == inside[e]
    <2>1. e \in Decoder BY <1>3, DecodersAre DEF ElementOf, Decoder
    <2>2. AreTerms(S) BY <2>1 DEF Typed
    <2>3. PICK ts \in Lists(S) : t = ListOf(ts) BY <1>3
    <2>4. ts \in Seq(S) /\ \A k \in 1 .. Len(ts) : ts[k] \in S
      <3> HIDE DEF S
      <3> QED BY ListsAre
    <2>5. ts \in Seq(Terms)
      <3> HIDE DEF S
      <3> QED BY <2>2, <2>4, TermsOnly
    <2>6. ASSUME NEW k \in 1 .. Len(ts) PROVE Reading(reads, b, e, ts[k], "all")
      <3>1. ts # <<>>
        <4>1. Len(<<>>) = 0 BY EmptySeq
        <4> QED BY <4>1
      <3>2. Len(ts[k]) <= n - 1
        <4> DEFINE x == Len(ts[k])
                   y == Len(FlattenSeq(ts))
                   z == Len(ListOf(ts))
        <4>1. z = 2 + y /\ y \in Nat /\ z <= n BY <2>3, <2>5, <3>1, ListIs
        <4>2. x \in Nat /\ x <= y BY <2>5, PartIsShorter
        <4> HIDE DEF x, y, z
        <4>3. x <= n - 1 BY <4>1, <4>2
        <4> QED BY <4>3 DEF x
      <3>3. ts[k] \in inside[e] BY <2>4
      <3> QED BY <2>1, <3>2, <3>3 DEF Reads
    <2> HIDE DEF reads
    <2>7. ReadsBy(reads, b, d, ListOf(ts), "all") BY <1>3, <2>5, <2>6, ListRead
    <2> QED BY <2>3, <2>7, NextLevel DEF reads
  <1>4. CASE d = "uint64s" /\ t = Term("STRING")
    <2>1. ReadsBy(reads, b, d, t, "all") BY <1>4, ReadsNumber
    <2> QED BY <2>1, NextLevel
  <1>5. CASE d \in DOMAIN Schema
             /\ \E r \in {PlainRecord(d)} \union RecordsIn(d, inside) : t = RecordOf(r)
    <2>1. PICK r \in {PlainRecord(d)} \union RecordsIn(d, inside) : t = RecordOf(r) BY <1>5
    <2> DEFINE m == Len(Schema[d])
    <2>2. /\ r = [k \in 1 .. m |-> r[k]] /\ d \in DOMAIN Schema
          /\ \A k \in 1 .. m :
                 r[k] \in inside[Schema[d][k][2]] \union {PlainIn(Schema[d][k][2])}
      BY <1>5, RecordsInAre
    <2>3. m \in Nat /\ \A k \in 1 .. m : Schema[d][k][2] \in FieldDecoder
      BY <2>2, SchemaIs DEF FieldsOf
    <2>4. ASSUME NEW k \in 1 .. m PROVE r[k] \in Terms
      <3> DEFINE c == Schema[d][k][2]
      <3>1. c \in FieldDecoder /\ c \in Decoder BY <2>3, FieldIs
      <3>2. r[k] \in inside[c] \union {PlainIn(c)} BY <2>2
      <3> HIDE DEF c
      <3>3. PlainIn(c) \in Terms BY <3>1, PlainTyped
      <3> QED BY <3>1, <3>2, <3>3 DEF Typed, AreTerms
    <2>5. r \in Seq(Terms) /\ Len(r) = m
      <3> HIDE DEF m
      <3> QED BY <2>2, <2>3, <2>4, IsSequence
    <2>6. ASSUME NEW k \in 1 .. Len(r) PROVE Reading(reads, b, Schema[d][k][2], r[k], "all")
      <3> DEFINE c == Schema[d][k][2]
      <3>1. k \in 1 .. m BY <2>5
      <3>2. c \in FieldDecoder /\ c \in Decoder BY <2>3, <3>1, FieldIs
      <3>3. Len(r[k]) <= n - 1
        <4> DEFINE x == Len(r[k])
                   y == Len(FlattenSeq(r))
                   z == Len(RecordOf(r))
        <4>1. z = 2 + y /\ y \in Nat /\ z <= n BY <2>1, <2>5, RecordIs
        <4>2. x \in Nat /\ x <= y BY <2>5, PartIsShorter
        <4> HIDE DEF x, y, z
        <4>3. x <= n - 1 BY <4>1, <4>2
        <4> QED BY <4>3 DEF x
      <3>4. r[k] \in inside[c] \union {PlainIn(c)} BY <2>2, <3>1
      <3> HIDE DEF c
      <3>5. PlainIn(c) \in ValuesOver(NoValues)[c] BY <3>2, PlainIsValue
      <3>6. r[k] \in inside[c] \/ r[k] \in ValuesOver(NoValues)[c] BY <3>4, <3>5
      <3>7. Reading(reads, b, c, r[k], "all") BY <3>2, <3>3, <3>6 DEF Reads
      <3> QED BY <3>7 DEF c
    <2> HIDE DEF reads
    <2>7. ReadsBy(reads, b, d, RecordOf(r), "all") BY <2>2, <2>5, <2>6, RecordReads
    <2> QED BY <2>1, <2>7, NextLevel DEF reads
  <1> QED BY <1>1, <1>2, <1>3, <1>4, <1>5, ValuesOverIs

LEMMA NoValuesTyped == Typed(NoValues)
  BY DEF Typed, AreTerms, NoValues

LEMMA ValuesTyped ==
    ASSUME NEW max \in Nat, NEW v, ValuesTo(max, v)
    PROVE  \A m \in 0 .. max : Typed(v[m])
  <1> DEFINE S == {m \in Nat : m <= max => Typed(v[m])}
  <1>1. ASSUME NEW m \in 0 .. max
        PROVE  v[m] = ValuesOver(IF m = 0 THEN NoValues ELSE v[m - 1])
    BY Zenon DEF ValuesTo
  <1>2. 0 \in S
    <2>1. 0 \in 0 .. max OBVIOUS
    <2>2. v[0] = ValuesOver(NoValues) BY <1>1, <2>1
    <2>3. Typed(v[0]) BY <2>2, NoValuesTyped, ValuesOverTyped
    <2> QED BY <2>3
  <1>3. ASSUME NEW m \in S PROVE m + 1 \in S
    <2> SUFFICES ASSUME m + 1 <= max PROVE Typed(v[m + 1]) BY <1>3
    <2>1. m + 1 \in 0 .. max /\ m + 1 # 0 /\ (m + 1) - 1 = m /\ Typed(v[m]) BY <1>3
    <2>2. v[m + 1] = ValuesOver(v[m]) BY <1>1, <2>1
    <2> QED BY <2>1, <2>2, ValuesOverTyped
  <1> HIDE DEF S
  <1>4. S \in SUBSET Nat BY DEF S
  <1>5. S = Nat BY <1>2, <1>3, <1>4, NatSet
  <1> QED BY <1>5 DEF S

LEMMA ValuesReadByLevel ==
    ASSUME NEW b \in Terms, NEW l \in Nat, NEW f, Levels(b, l, f),
           NEW max \in Nat, NEW v, ValuesTo(max, v)
    PROVE  \A n \in 0 .. l : \A m \in 0 .. max : Reads(v[m], f[n], b, n)
  <1> DEFINE All(n) == \A m \in 0 .. max : Reads(v[m], f[n], b, n)
             S == {n \in Nat : n <= l => All(n)}
  <1>1. \A m \in 0 .. max : Typed(v[m]) BY ValuesTyped
  <1>2. ASSUME NEW m \in 0 .. max
        PROVE  v[m] = ValuesOver(IF m = 0 THEN NoValues ELSE v[m - 1])
    BY Zenon DEF ValuesTo
  <1>3. 0 \in S
    <2>1. ASSUME NEW m \in 0 .. max, NEW d \in Decoder, NEW t \in v[m][d], Len(t) <= 0
          PROVE  FALSE
      <3>1. t \in Terms /\ Len(t) > 0 BY <1>1 DEF Typed, AreTerms
      <3> DEFINE z == Len(t)
      <3>2. z \in Nat /\ z > 0 /\ z <= 0 BY <2>1, <3>1, LenProperties DEF Terms
      <3> HIDE DEF z
      <3> QED BY <3>2
    <2>2. All(0) BY <2>1 DEF Reads
    <2> QED BY <2>2
  <1>4. ASSUME NEW n \in S PROVE n + 1 \in S
    <2> DEFINE o == n + 1
    <2> SUFFICES ASSUME o <= l, NEW m \in 0 .. max PROVE Reads(v[m], f[o], b, o) BY <1>4
    <2>1. n \in Nat /\ o \in 1 .. l /\ o - 1 = n /\ All(n) BY <1>4
    <2>2. 0 \in 0 .. max OBVIOUS
    <2> HIDE DEF o
    <2>3. v[0] = ValuesOver(NoValues) BY <1>2, <2>2
    <2>4. Reads(ValuesOver(NoValues), f[o - 1], b, o - 1) BY <2>1, <2>2, <2>3
    <2>5. CASE m = 0
      <3>1. Reads(NoValues, f[o - 1], b, o - 1) BY DEF Reads, NoValues
      <3>2. Reads(ValuesOver(NoValues), f[o], b, o)
        BY <2>1, <2>4, <3>1, NoValuesTyped, ValuesRead
      <3> QED BY <2>3, <2>5, <3>2
    <2>6. CASE m # 0
      <3> DEFINE w == v[m - 1]
      <3>1. m - 1 \in 0 .. max BY <2>6
      <3>2. v[m] = ValuesOver(w) BY <1>2, <2>6
      <3>3. Typed(w) BY <1>1, <3>1
      <3>4. Reads(w, f[o - 1], b, o - 1) BY <2>1, <3>1
      <3> HIDE DEF w
      <3>5. Reads(ValuesOver(w), f[o], b, o) BY <2>1, <2>4, <3>3, <3>4, ValuesRead
      <3> QED BY <3>2, <3>5
    <2> QED BY <2>5, <2>6
  <1> HIDE DEF S, All
  <1>5. S \in SUBSET Nat BY DEF S
  <1>6. S = Nat BY <1>3, <1>4, <1>5, NatSet
  <1>7. \A n \in 0 .. l : All(n) BY <1>6 DEF S
  <1> QED BY <1>7 DEF All

(***************************************************************************)
(* What a decoder makes of a field's value that stands at its index.       *)
(***************************************************************************)
LEMMA ValueRead ==
    ASSUME NEW b \in Terms, NEW d \in Decoder, NEW t \in Values(MaxDepth)[d], NEW i,
           Occurs(t, b, i)
    PROVE  t \in Terms /\ Len(t) > 0 /\ Right(Read(d, b, i), b, i, i + Len(t), "all")
  <1> DEFINE l == Len(b)
  <1>1. PICK v : ValuesTo(MaxDepth, v) /\ Values(MaxDepth) = v[MaxDepth] BY ValuesAre
  <1>2. MaxDepth \in Nat /\ MaxDepth \in 0 .. MaxDepth BY Bounds
  <1>3. t \in Terms /\ Len(t) > 0 BY <1>1, <1>2, ValuesTyped DEF Typed, AreTerms
  <1>4. PICK f : Levels(b, l, f) /\ \A e, j : Read(e, b, j) = f[l][e][j] BY ReadIs
  <1>5. l \in Nat /\ l \in 0 .. l /\ Len(t) <= l
    <2> DEFINE z == Len(t)
    <2>1. z \in Nat /\ l \in Nat /\ i \in Nat \ {0} /\ i + z <= l + 1
      BY <1>3, LenProperties DEF Terms, Occurs
    <2> HIDE DEF z, l
    <2>2. z <= l BY <2>1
    <2> QED BY <2>1, <2>2 DEF z
  <1> HIDE DEF l
  <1>6. Reads(v[MaxDepth], f[l], b, l) BY <1>1, <1>2, <1>4, <1>5, ValuesReadByLevel
  <1>7. Reading(f[l], b, d, t, "all") BY <1>1, <1>5, <1>6 DEF Reads
  <1>8. Right(f[l][d][i], b, i, i + Len(t), "all") BY <1>7 DEF Reading
  <1> QED BY <1>3, <1>4, <1>8

LEMMA ReadByLast ==
    ASSUME NEW b \in Terms, NEW d \in Decoder, NEW t \in Terms, Len(t) > 0, NEW how,
           \A reads : ReadsBy(reads, b, d, t, how), NEW i, Occurs(t, b, i)
    PROVE  Right(Read(d, b, i), b, i, i + Len(t), how)
  <1> DEFINE l == Len(b)
  <1>1. PICK f : Levels(b, l, f) /\ \A e, j : Read(e, b, j) = f[l][e][j] BY ReadIs
  <1>2. l \in Nat /\ l \in 1 .. l
    <2> DEFINE z == Len(t)
    <2>1. z \in Nat /\ z > 0 /\ l \in Nat /\ i \in Nat \ {0} /\ i + z <= l + 1
      BY LenProperties DEF Terms, Occurs
    <2> HIDE DEF z, l
    <2> QED BY <2>1
  <1> HIDE DEF l
  <1>3. Reading(f[l], b, d, t, how) BY <1>1, <1>2, NextLevel
  <1>4. Right(f[l][d][i], b, i, i + Len(t), how) BY <1>3 DEF Reading
  <1> QED BY <1>1, <1>4

(* What is read as empty, all of it or some.                               *)
LEMMA ListToken ==
    ASSUME NEW ts \in Seq(Terms), ts # <<>>, NEW b \in Terms, NEW i, Occurs(ListOf(ts), b, i)
    PROVE  Kind(b, i) = "LIST"
  <1> DEFINE us == Append(ts, Term("NIL"))
             m == Len(ts)
  <1>1. us \in Seq(Terms) /\ m \in Nat /\ ListOf(ts) = Compound("LIST", m, us) BY ListIs
  <1> HIDE DEF us, m
  <1>2. Occurs(Compound("LIST", m, us), b, i) BY <1>1
  <1> QED BY <1>1, <1>2, CompoundOccurs

LEMMA LongTextRead ==
    ASSUME NEW b \in Terms, NEW i, Occurs(LongText, b, i)
    PROVE  /\ LongText \in Terms /\ Len(LongText) > 0
           /\ Right(Read("str", b, i), b, i, i + Len(LongText), "some")
  <1> DEFINE t == LongText
             ts == <<Term("INTEGER"), Term("INTEGER")>>
  <1>1. Term("INTEGER") \in Terms /\ Forest(Term("INTEGER"), 1) BY ScalarTerm
  <1>2. t = ListOf(ts) BY DEF LongText
  <1>3. t \in Terms /\ Forest(t, 1) BY <1>1, <1>2, ListOfTwoForest
  <1>4. ts \in Seq(Terms) BY <1>1, FlattenTwo
  <1>5. ts # <<>> OBVIOUS
  <1> HIDE DEF ts, t
  <1>6. Len(t) > 0 BY <1>2, <1>4, ListTyped
  <1>7. ASSUME NEW reads PROVE ReadsBy(reads, b, "str", t, "some")
    <2>1. ASSUME NEW j, Occurs(t, b, j)
          PROVE  ReadWith(reads, "str", b, j) = Good(SkipTerm(b, j), {})
      <3>1. Kind(b, j) = "LIST" BY <1>2, <1>4, <1>5, <2>1, ListToken
      <3>2. ReadStr(b, j) = Good(SkipTerm(b, j), {}) BY <3>1 DEF ReadStr
      <3> QED BY <3>2, ReadWithIs
    <2> QED BY <1>3, <2>1, TermPassed
  <1>8. "str" \in Decoder BY DEF Decoder
  <1>9. Occurs(t, b, i) BY DEF t
  <1>10. Right(Read("str", b, i), b, i, i + Len(t), "some")
    BY <1>3, <1>6, <1>7, <1>8, <1>9, ReadByLast
  <1> QED BY <1>3, <1>6, <1>10 DEF t

LEMMA ReadsBySome ==
    ASSUME NEW reads, NEW b, NEW d, NEW t, NEW how, ReadsBy(reads, b, d, t, how)
    PROVE  ReadsBy(reads, b, d, t, "some")
  BY RightSome DEF ReadsBy

(* A list of one text, which is not a text as the value in a map.          *)
LEMMA TextInList ==
    ASSUME NEW b \in Terms, NEW reads
    PROVE  /\ ListOf(<<Term("STRING")>>) \in Terms /\ Len(ListOf(<<Term("STRING")>>)) > 0
           /\ ReadsBy(reads, b, "map_value", ListOf(<<Term("STRING")>>), "some")
  <1> DEFINE v == Term("STRING")
             ts == <<v>>
             t == ListOf(ts)
  <1>1. v \in Terms /\ Forest(v, 1) BY ScalarTerm
  <1> HIDE DEF v
  <1>2. ts \in Seq(Terms) /\ Len(ts) = 1 /\ ts[1] = v /\ ts # <<>> BY <1>1
  <1> HIDE DEF ts
  <1>3. \A k \in 1 .. Len(ts) : Forest(ts[k], 1)
    <2>1. \A k \in 1 .. Len(ts) : k = 1 BY <1>2
    <2> QED BY <1>1, <1>2, <2>1
  <1>4. t \in Terms /\ Len(t) > 0 /\ Forest(t, 1) BY <1>2, <1>3, ListForest, ListTyped
  <1>5. ASSUME NEW j, Occurs(t, b, j)
        PROVE  ReadWith(reads, "map_value", b, j) = Good(SkipTerm(b, j), {})
    <2>1. Kind(b, j) = "LIST" BY <1>2, <1>5, ListToken
    <2>2. ReadMapValue(b, j) = Good(SkipTerm(b, j), {}) BY <2>1 DEF ReadMapValue, ReadStr
    <2> QED BY <2>2, ReadWithIs
  <1> HIDE DEF t
  <1>6. ReadsBy(reads, b, "map_value", t, "some") BY <1>4, <1>5, TermPassed
  <1> QED BY <1>4, <1>6 DEF t, ts, v

LEMMA AtomAsText ==
    ASSUME NEW b \in Terms, NEW reads
    PROVE  ReadsBy(reads, b, "str", Term("ATOM"), "some")
  <1>1. Term("ATOM") \in Terms /\ Forest(Term("ATOM"), 1) /\ "ATOM" \in Kinds BY ScalarTerm
  <1>2. ASSUME NEW j, Occurs(Term("ATOM"), b, j)
        PROVE  ReadWith(reads, "str", b, j) = Good(SkipTerm(b, j), {})
    <2>1. Kind(b, j) = "ATOM" BY <1>1, <1>2, TermOccurs
    <2>2. ReadStr(b, j) = Good(SkipTerm(b, j), {}) BY <2>1 DEF ReadStr
    <2> QED BY <2>2, ReadWithIs
  <1> QED BY <1>1, <1>2, TermPassed

LEMMA AddressesRead ==
    ASSUME NEW t \in Addresses, NEW b \in Terms, NEW i, Occurs(t, b, i)
    PROVE  /\ t \in Terms /\ Len(t) > 0
           /\ Right(Read("map", b, i), b, i, i + Len(t), "some")
  <1> DEFINE ks == {Term("ATOM")}
             vs == {Term("STRING"), ListOf(<<Term("STRING")>>)}
  <1>1. ASSUME NEW v \in vs
        PROVE  /\ v \in Terms /\ Len(v) > 0
               /\ \A reads : ReadsBy(reads, b, "map_value", v, "some")
    <2>1. CASE v = Term("STRING")
      <3>1. \A reads : ReadsBy(reads, b, "map_value", Term("STRING"), "all") BY ReadsNumber
      <3>2. \A reads : ReadsBy(reads, b, "map_value", Term("STRING"), "some")
        BY <3>1, ReadsBySome
      <3>3. Term("STRING") \in Terms /\ Len(Term("STRING")) > 0 BY ScalarTerm
      <3> QED BY <2>1, <3>2, <3>3, Zenon
    <2>2. CASE v = ListOf(<<Term("STRING")>>) BY <2>2, TextInList, Zenon
    <2> QED BY <2>1, <2>2
  <1>2. ASSUME NEW k \in ks
        PROVE  /\ k \in Terms /\ Len(k) > 0
               /\ \A reads : ReadsBy(reads, b, "str", k, "some")
    <2>1. k = Term("ATOM") OBVIOUS
    <2>2. Term("ATOM") \in Terms /\ Len(Term("ATOM")) > 0 BY ScalarTerm
    <2>3. \A reads : ReadsBy(reads, b, "str", Term("ATOM"), "some") BY AtomAsText
    <2> QED BY <2>1, <2>2, <2>3, Zenon
  <1>3. t \in Maps(ks, vs) BY DEF Addresses
  <1> HIDE DEF ks, vs
  <1>4. AreTerms(ks) /\ AreTerms(vs) BY <1>1, <1>2 DEF AreTerms
  <1>5. PICK es \in Seq(Terms) :
            /\ t = MapOf(es)
            /\ \A n \in 1 .. Len(es) : \E k \in ks, v \in vs : es[n] = k \o v
    BY <1>3, <1>4, MapsAre
  <1>6. \A n \in 1 .. Len(es) : EntryOf(es[n], b, "some") BY <1>1, <1>2, <1>5 DEF EntryOf
  <1>7. t \in Terms /\ Len(t) > 0 BY <1>5, MapTyped
  <1> DEFINE l == Len(b)
  <1>8. PICK f : Levels(b, l, f) /\ \A e, j : Read(e, b, j) = f[l][e][j] BY ReadIs
  <1>9. l \in Nat /\ l \in 1 .. l /\ Len(t) <= l
    <2> DEFINE z == Len(t)
    <2>1. z \in Nat /\ z > 0 /\ l \in Nat /\ i \in Nat \ {0} /\ i + z <= l + 1
      BY <1>7, LenProperties DEF Terms, Occurs
    <2> HIDE DEF z, l
    <2>2. l \in 1 .. l /\ z <= l BY <2>1
    <2> QED BY <2>1, <2>2 DEF z
  <1> HIDE DEF l
  <1>10. Reading(f[l], b, "map", t, "some") BY <1>5, <1>6, <1>8, <1>9, MapRead
  <1>11. Right(f[l]["map"][i], b, i, i + Len(t), "some") BY <1>10 DEF Reading
  <1> QED BY <1>7, <1>8, <1>11

LEMMA SentIs ==
    ASSUME NEW d \in Decoder, NEW t \in Sent[d]
    PROVE  \/ t \in Values(MaxDepth)[d]
           \/ d = "str" /\ t = LongText
           \/ d = "map" /\ t \in Addresses
  <1> DEFINE A == Addresses
             V == Values(MaxDepth)[d]
  <1>1. t \in V \union CASE d = "str" -> {LongText} [] d = "map" -> A [] OTHER -> {}
    BY Zenon DEF Sent
  <1> HIDE DEF A, V
  <1> QED BY <1>1 DEF A, V

LEMMA SentRead ==
    ASSUME NEW d \in Decoder, NEW t \in Sent[d], NEW b \in Terms, NEW i, Occurs(t, b, i)
    PROVE  /\ t \in Terms /\ Len(t) > 0
           /\ Right(Read(d, b, i), b, i, i + Len(t), "some")
           /\ t \notin Lossy => Right(Read(d, b, i), b, i, i + Len(t), "all")
  <1>1. CASE t \in Values(MaxDepth)[d] BY <1>1, ValueRead, RightSome
  <1>2. CASE d = "str" /\ t = LongText BY <1>2, LongTextRead DEF Lossy
  <1>3. CASE d = "map" /\ t \in Addresses BY <1>3, AddressesRead DEF Lossy
  <1> QED BY <1>1, <1>2, <1>3, SentIs

(* The plainest value of a field is one of its values.                     *)
LEMMA PlainSent == ASSUME NEW d \in FieldDecoder PROVE PlainIn(d) \in Sent[d]
  <1>1. PICK v : ValuesTo(MaxDepth, v) /\ Values(MaxDepth) = v[MaxDepth] BY ValuesAre
  <1>2. MaxDepth \in 0 .. MaxDepth BY Bounds
  <1>3. v[MaxDepth] = ValuesOver(IF MaxDepth = 0 THEN NoValues ELSE v[MaxDepth - 1])
    BY <1>1, <1>2, Zenon DEF ValuesTo
  <1> DEFINE V == Values(MaxDepth)[d]
  <1>4. PlainIn(d) \in V BY <1>1, <1>3, PlainIsValue
  <1>5. d \in Decoder BY FieldIs
  <1> DEFINE C == CASE d = "str" -> {LongText} [] d = "map" -> Addresses [] OTHER -> {}
  <1>6. Sent[d] = V \union C BY <1>5, Zenon DEF Sent
  <1> HIDE DEF V, C
  <1> QED BY <1>4, <1>6

(* The -1 of a run that has failed, in a field for numbers without sign.   *)
LEMMA NegativeRead ==
    ASSUME NEW b \in Terms, NEW i, Occurs(Term("NEGATIVE"), b, i)
    PROVE  Read("uint64", b, i) = Bad(i)
  <1> DEFINE l == Len(b)
  <1>1. "NEGATIVE" \in Kinds BY ScalarTerm
  <1>2. i \in Nat \ {0} /\ i \in 1 .. l /\ Kind(b, i) = "NEGATIVE" BY <1>1, TermOccurs
  <1>3. PICK f : Levels(b, l, f) /\ \A e, j : Read(e, b, j) = f[l][e][j] BY ReadIs
  <1>4. l \in Nat /\ l \in 0 .. l /\ l # 0
    <2>1. l \in Nat BY LenProperties DEF Terms
    <2> HIDE DEF l
    <2> QED BY <1>2, <2>1
  <1> HIDE DEF l
  <1>5. f[l] = LevelOf(b, f, l) BY <1>3, <1>4, Zenon DEF Levels
  <1>6. "uint64" \in Decoder BY DEF Decoder
  <1>7. LevelOf(b, f, l)["uint64"][i] = ReadWith(f[l - 1], "uint64", b, i)
    BY <1>2, <1>4, <1>6 DEF LevelOf
  <1>8. ReadWith(f[l - 1], "uint64", b, i) = ReadUint64(b, i) BY ReadWithIs
  <1>9. ReadUint64(b, i) = Bad(i) BY <1>2 DEF ReadUint64, Take
  <1> QED BY <1>3, <1>5, <1>7, <1>8, <1>9

(* The two fields a run of the job leaves its end in.                      *)
LEMMA JobFields ==
    /\ JobField("exitcode") = 34 /\ JobField("signal") = 35
    /\ Schema["job"] = JobSchema /\ "job" \in DOMAIN Schema
    /\ Schema["job"][34][2] = "uint64" /\ Schema["job"][35][2] = "uint64"
    /\ 34 \in 1 .. Len(Schema["job"]) /\ 35 \in 1 .. Len(Schema["job"])
  <1>1. Schema["job"] = JobSchema /\ "job" \in DOMAIN Schema BY DEF Schema
  <1>2. /\ Len(JobSchema) = 38 /\ DOMAIN JobSchema = 1 .. 38
        /\ JobSchema[34] = <<"exitcode", "uint64">> /\ JobSchema[35] = <<"signal", "uint64">>
    BY DEF JobSchema
  <1>3. \A k \in 1 .. 38 : JobSchema[k][1] = "exitcode" => k = 34 BY DEF JobSchema
  <1>4. \A k \in 1 .. 38 : JobSchema[k][1] = "signal" => k = 35 BY DEF JobSchema
  <1>5. JobSchema[34][1] = "exitcode" /\ JobSchema[35][1] = "signal" BY <1>2
  <1>6. JobField("exitcode") = 34 BY <1>2, <1>3, <1>5 DEF JobField
  <1>7. JobField("signal") = 35 BY <1>2, <1>4, <1>5 DEF JobField
  <1> QED BY <1>1, <1>2, <1>6, <1>7

(***************************************************************************)
(* Where the fields stand in the buffer.                                   *)
(***************************************************************************)
LEMMA BufferIs ==
    ASSUME record \in Seq(Terms)
    PROVE  /\ Buffer \in Terms /\ Occurs(Buffer, Buffer, 1) /\ Len(Name) = 2
           /\ Kind(Buffer, 1) = "TUPLE" /\ SkipTerm(Buffer, 1 + 1) = 3
           /\ Occurs(FlattenSeq(record), Buffer, 3)
  <1> DEFINE b == Buffer
  <1>1. b \in Terms /\ b = RecordOf(record) BY RecordIs DEF Buffer
  <1> HIDE DEF b
  <1>2. Occurs(b, b, 1) BY <1>1, LenProperties DEF Occurs, Terms
  <1>3. Len(Name) = 2
    <2>1. <<>> \in Seq(Terms) BY EmptySeq
    <2> DEFINE m == Len(FlattenSeq(<<>>))
    <2>2. Len(RecordOf(<<>>)) = 2 + m BY <2>1, RecordIs
    <2>3. m = 0 BY FlattenNone, EmptySeq
    <2> HIDE DEF m
    <2>4. Len(RecordOf(<<>>)) = 2 BY <2>2, <2>3
    <2> QED BY <2>4 DEF Name
  <1>4. Occurs(RecordOf(record), b, 1) BY <1>1, <1>2
  <1>5. (1 + 1) + 1 = 3 OBVIOUS
  <1>6. /\ Kind(b, 1) = "TUPLE" /\ SkipTerm(b, 1 + 1) = (1 + 1) + 1
        /\ Occurs(FlattenSeq(record), b, (1 + 1) + 1)
    BY <1>1, <1>4, RecordOccurs
  <1>7. SkipTerm(b, 1 + 1) = 3 /\ Occurs(FlattenSeq(record), b, 3) BY <1>5, <1>6, Zenon
  <1> QED BY <1>1, <1>2, <1>3, <1>6, <1>7 DEF b

LEMMA StartIs ==
    ASSUME record \in Seq(Terms), NEW f, Joins(record, Len(record), f),
           NEW k \in 0 .. Len(record)
    PROVE  StartOf(k + 1) = 3 + Len(f[k]) /\ Len(f[k]) \in Nat
  <1>1. FlattenSeq(SubSeq(record, 1, k)) = f[k] /\ f[k] \in Terms BY FlattenPrefix
  <1>2. (k + 1) - 1 = k OBVIOUS
  <1> DEFINE F(j) == FlattenSeq(SubSeq(record, 1, j))
  <1>3. StartOf(k + 1) = Len(Name) + Len(F((k + 1) - 1)) + 1 BY DEF StartOf
  <1>4. F((k + 1) - 1) = f[k] BY <1>1, <1>2
  <1> HIDE DEF F
  <1>5. StartOf(k + 1) = Len(Name) + Len(f[k]) + 1 BY <1>3, <1>4
  <1>6. Len(f[k]) \in Nat BY <1>1, LenProperties DEF Terms
  <1>7. Len(Name) = 2 BY BufferIs
  <1> QED BY <1>5, <1>6, <1>7

LEMMA FirstStart == ASSUME record \in Seq(Terms) PROVE StartOf(1) = 3
  <1>1. PICK f : Joins(record, Len(record), f) BY JoinsExist
  <1>2. 0 \in 0 .. Len(record) /\ 0 + 1 = 1 BY LenProperties
  <1>3. StartOf(0 + 1) = 3 + Len(f[0]) BY <1>1, <1>2, StartIs
  <1>4. Len(f[0]) = 0 BY <1>1, EmptySeq DEF Joins
  <1> QED BY <1>2, <1>3, <1>4

LEMMA FieldOccurs ==
    ASSUME record \in Seq(Terms), NEW k \in 1 .. Len(record)
    PROVE  /\ StartOf(k) \in Nat /\ StartOf(k + 1) \in Nat
           /\ StartOf(k + 1) = StartOf(k) + Len(record[k])
           /\ Occurs(record[k], Buffer, StartOf(k))
           /\ DataIn(k) = Written(Buffer, StartOf(k), StartOf(k + 1))
           /\ DataIn(k) \subseteq SentIn(k) /\ SentIn(k) \subseteq Int
  <1>1. PICK f : Joins(record, Len(record), f) BY JoinsExist
  <1> DEFINE j == k - 1
  <1>2. j \in 0 .. Len(record) /\ k \in 0 .. Len(record) /\ j + 1 = k BY LenProperties
  <1>3. StartOf(j + 1) = 3 + Len(f[j]) /\ Len(f[j]) \in Nat
    <2> HIDE DEF j
    <2> QED BY <1>1, <1>2, StartIs
  <1>4. StartOf(k + 1) = 3 + Len(f[k]) /\ Len(f[k]) \in Nat BY <1>1, <1>2, StartIs
  <1>5. FlattenSeq(record) = f[Len(record)] BY <1>1, FlattenIs
  <1>6. Occurs(record[k], Buffer, 3 + Len(f[j])) BY <1>1, <1>5, BufferIs, OccursParts
  <1>7. Len(f[k]) = Len(f[j]) + Len(record[k]) /\ Len(record[k]) \in Nat
    <2>1. f[k] = f[j] \o record[k] BY <1>1 DEF Joins
    <2>2. f[j] \in Terms BY <1>1, <1>2, FlattenPrefix
    <2>3. record[k] \in Terms BY ElementOfSeq
    <2> HIDE DEF j
    <2> QED BY <2>1, <2>2, <2>3, ConcatProperties, LenProperties DEF Terms
  <1>8. StartOf(k) = 3 + Len(f[j])
    <2> HIDE DEF j
    <2> QED BY <1>2, <1>3
  <1>9. StartOf(k) \in Nat /\ StartOf(k + 1) \in Nat
        /\ StartOf(k + 1) = StartOf(k) + Len(record[k])
    <2> DEFINE x == Len(f[j])
               y == Len(record[k])
               z == Len(f[k])
    <2>1. x \in Nat /\ y \in Nat /\ z = x + y /\ StartOf(k) = 3 + x /\ StartOf(k + 1) = 3 + z
      BY <1>3, <1>4, <1>7, <1>8
    <2> HIDE DEF x, y, z
    <2>2. /\ StartOf(k) \in Nat /\ StartOf(k + 1) \in Nat
          /\ StartOf(k + 1) = StartOf(k) + y
      BY <2>1
    <2> QED BY <2>2 DEF y
  <1>10. DataIn(k) = Written(Buffer, StartOf(k), StartOf(k + 1)) BY DEF DataIn, SentIn, Written
  <1>11. DataIn(k) \subseteq SentIn(k) /\ SentIn(k) \subseteq Int BY <1>9 DEF DataIn, SentIn
  <1> QED BY <1>6, <1>8, <1>9, <1>10, <1>11

(***************************************************************************)
(* The inductive invariant.  A field has one of its values, or the -1 of a *)
(* run that has failed; the fields before the one that is read next have   *)
(* been read, each from the positions it stands at.                        *)
(***************************************************************************)
EndField == {JobField("exitcode"), JobField("signal")}
RecordInv ==
    /\ entity \in Entity /\ failed \in BOOLEAN
    /\ record \in Seq(Terms) /\ Len(record) = Len(Schema[entity])
    /\ \A k \in 1 .. Len(record) :
           \/ record[k] \in Sent[Schema[entity][k][2]]
           \/ failed /\ entity = "job" /\ k \in EndField /\ record[k] = Term("NEGATIVE")
Took(k) == taken[k] \subseteq SentIn(k) /\ (taken[k] = DataIn(k) \/ record[k] \in Lossy)
TakenInv ==
    phase \in {"reading", "read", "cut"} =>
        taken \in Seq(SUBSET Int) /\ \A k \in 1 .. Len(taken) : Took(k)
IndexInv ==
    /\ phase \in {"stored", "reading", "read", "cut", "ended"}
    /\ phase = "reading" /\ field = 0 => at = 1 /\ taken = <<>>
    /\ phase = "reading" /\ field # 0 =>
           /\ field \in 1 .. Len(record) /\ Len(taken) = field - 1 /\ at = StartOf(field)
IInv == RecordInv /\ TakenInv /\ IndexInv /\ CutOnlyAfterFailure

LEMMA PlainRecordSent ==
    ASSUME NEW e \in DOMAIN Schema, NEW k \in 1 .. Len(Schema[e])
    PROVE  /\ Schema[e][k][2] \in Decoder
           /\ PlainIn(Schema[e][k][2]) \in Sent[Schema[e][k][2]]
  <1>1. Schema[e][k][2] \in FieldDecoder BY SchemaIs DEF FieldsOf
  <1> QED BY <1>1, FieldIs, PlainSent

(* The values that are sent are terms.                                     *)
LEMMA SentTyped == ASSUME NEW d \in Decoder, NEW t \in Sent[d] PROVE t \in Terms
  <1>1. CASE t \in Values(MaxDepth)[d]
    <2>1. PICK v : ValuesTo(MaxDepth, v) /\ Values(MaxDepth) = v[MaxDepth] BY ValuesAre
    <2>2. MaxDepth \in Nat /\ MaxDepth \in 0 .. MaxDepth BY Bounds
    <2> QED BY <1>1, <2>1, <2>2, ValuesTyped DEF Typed, AreTerms
  <1>2. CASE t = LongText
    <2>1. Term("INTEGER") \in Terms BY ScalarTerm
    <2>2. <<Term("INTEGER"), Term("INTEGER")>> \in Seq(Terms) BY <2>1, FlattenTwo
    <2> QED BY <1>2, <2>2, ListTyped DEF LongText
  <1>3. CASE t \in Addresses
    <2> DEFINE ks == {Term("ATOM")}
               vs == {Term("STRING"), ListOf(<<Term("STRING")>>)}
    <2>1. AreTerms(ks)
      <3>1. Term("ATOM") \in Terms /\ Len(Term("ATOM")) > 0 BY ScalarTerm
      <3> QED BY <3>1 DEF AreTerms
    <2>2. AreTerms(vs)
      <3>1. Term("STRING") \in Terms /\ Len(Term("STRING")) > 0 BY ScalarTerm
      <3>2. <<Term("STRING")>> \in Seq(Terms) BY <3>1
      <3>3. ListOf(<<Term("STRING")>>) \in Terms /\ Len(ListOf(<<Term("STRING")>>)) > 0
        BY <3>2, ListTyped
      <3> QED BY <3>1, <3>3 DEF AreTerms
    <2>3. t \in Maps(ks, vs) BY <1>3 DEF Addresses
    <2> HIDE DEF ks, vs
    <2>4. PICK es \in Seq(Terms) : t = MapOf(es) BY <2>1, <2>2, <2>3, MapsAre
    <2> QED BY <2>4, MapTyped
  <1> QED BY <1>1, <1>2, <1>3, SentIs

LEMMA InitInv == Init => IInv
  <1> SUFFICES ASSUME Init PROVE IInv OBVIOUS
  <1> USE DEF Init
  <1>1. entity \in DOMAIN Schema BY Bounds
  <1> DEFINE n == Len(Schema[entity])
  <1>2. /\ record = [k \in 1 .. n |-> record[k]]
        /\ \A k \in 1 .. n :
               record[k] \in Sent[Schema[entity][k][2]] \union {PlainIn(Schema[entity][k][2])}
    BY <1>1, RecordsInAre
  <1>3. n \in Nat BY <1>1, SchemaIs DEF FieldsOf
  <1>4. ASSUME NEW k \in 1 .. n
        PROVE  record[k] \in Sent[Schema[entity][k][2]] /\ record[k] \in Terms
    <2> DEFINE d == Schema[entity][k][2]
    <2>1. d \in Decoder /\ PlainIn(d) \in Sent[d] BY <1>1, PlainRecordSent
    <2>2. record[k] \in Sent[d] BY <1>2, <2>1
    <2> HIDE DEF d
    <2>3. record[k] \in Terms BY <2>1, <2>2, SentTyped
    <2> QED BY <2>2, <2>3 DEF d
  <1> HIDE DEF n
  <1>5. record \in Seq(Terms) /\ Len(record) = n BY <1>2, <1>3, <1>4, IsSequence
  <1>6. RecordInv BY <1>4, <1>5 DEF RecordInv, n
  <1>7. TakenInv /\ IndexInv /\ CutOnlyAfterFailure
    BY DEF TakenInv, IndexInv, CutOnlyAfterFailure
  <1> QED BY <1>6, <1>7 DEF IInv

(* The record is the same: so are the places of its fields.                *)
LEMMA PlacesSame ==
    ASSUME record' = record
    PROVE  \A k : /\ StartOf(k)' = StartOf(k) /\ SentIn(k)' = SentIn(k)
                  /\ DataIn(k)' = DataIn(k)
  BY DEF StartOf, SentIn, DataIn, Buffer

LEMMA RecordSame ==
    ASSUME RecordInv, UNCHANGED <<entity, record, failed>> PROVE RecordInv'
  BY DEF RecordInv

LEMMA SendInv == ASSUME IInv, Send PROVE IInv'
  <1> USE DEF Send
  <1>1. RecordInv' BY RecordSame DEF IInv
  <1>2. TakenInv'
    <2>1. taken' = <<>> /\ <<>> \in Seq(SUBSET Int) /\ Len(<<>>) = 0 BY EmptySeq
    <2> QED BY <2>1 DEF TakenInv
  <1>3. IndexInv' /\ CutOnlyAfterFailure' BY DEF IndexInv, CutOnlyAfterFailure
  <1> QED BY <1>1, <1>2, <1>3 DEF IInv

LEMMA ReadHeaderInv == ASSUME IInv, ReadHeader PROVE IInv'
  <1> USE DEF ReadHeader
  <1>1. RecordInv' BY RecordSame DEF IInv
  <1>2. record \in Seq(Terms) /\ Len(record) \in Nat \ {0}
    BY Bounds, SchemaIs DEF IInv, RecordInv, FieldsOf
  <1>3. at = 1 /\ taken = <<>> /\ Len(taken) = 0 BY EmptySeq DEF IInv, IndexInv
  <1>4. at' = StartOf(1)
    <2>1. at' = SkipTerm(Buffer, 1 + 1) BY <1>3
    <2> QED BY <1>2, <2>1, BufferIs, FirstStart
  <1>5. IndexInv'
    <2>1. /\ field' = 1 /\ 1 \in 1 .. Len(record) /\ record' = record /\ taken' = taken
          /\ Len(taken) = 1 - 1 /\ at' = StartOf(1)'
      BY <1>2, <1>3, <1>4, PlacesSame
    <2> QED BY <2>1 DEF IndexInv
  <1>6. TakenInv'
    <2>1. taken' = <<>> /\ <<>> \in Seq(SUBSET Int) /\ Len(<<>>) = 0 BY <1>3, EmptySeq
    <2> QED BY <2>1 DEF TakenInv
  <1>7. CutOnlyAfterFailure' BY DEF CutOnlyAfterFailure
  <1> QED BY <1>1, <1>5, <1>6, <1>7 DEF IInv

(* What ReadField reads, and what it makes of that.                        *)
FieldRead == Read(Fields(entity)[field][2], Buffer, at)

LEMMA ReadFieldIs ==
    ASSUME IInv, ReadField
    PROVE  /\ record \in Seq(Terms) /\ Len(record) \in Nat
           /\ field \in 1 .. Len(record) /\ Len(Fields(entity)) = Len(record)
           /\ at = StartOf(field) /\ Len(taken) = field - 1
           /\ taken \in Seq(SUBSET Int) /\ \A k \in 1 .. Len(taken) : Took(k)
           /\ Fields(entity)[field][2] \in Decoder
           /\ at' = FieldRead.at /\ field' = field + 1
           /\ taken' = IF FieldRead.ok THEN Append(taken, FieldRead.took) ELSE taken
           /\ phase' = CASE ~FieldRead.ok -> "cut"
                         [] FieldRead.ok /\ field = Len(Fields(entity)) -> "read"
                         [] OTHER -> "reading"
  <1>1. /\ entity \in DOMAIN Schema /\ record \in Seq(Terms)
        /\ Len(record) = Len(Schema[entity])
    BY Bounds DEF IInv, RecordInv
  <1>2. /\ Len(Schema[entity]) \in Nat \ {0}
        /\ DOMAIN Schema[entity] = 1 .. Len(Schema[entity])
    BY <1>1, SchemaIs DEF FieldsOf
  <1>3. field \in 1 .. Len(record) /\ Len(Fields(entity)) = Len(record)
    BY <1>1, <1>2 DEF ReadField, Fields
  <1>4. Fields(entity)[field][2] \in Decoder BY <1>1, <1>3, PlainRecordSent DEF Fields
  <1>5. phase = "reading" /\ field # 0 BY <1>1, <1>2, <1>3 DEF ReadField
  <1>6. /\ at = StartOf(field) /\ Len(taken) = field - 1
        /\ taken \in Seq(SUBSET Int) /\ \A k \in 1 .. Len(taken) : Took(k)
    BY <1>5 DEF IInv, IndexInv, TakenInv
  <1>7. /\ at' = FieldRead.at /\ field' = field + 1
        /\ taken' = IF FieldRead.ok THEN Append(taken, FieldRead.took) ELSE taken
        /\ phase' = CASE ~FieldRead.ok -> "cut"
                      [] FieldRead.ok /\ field = Len(Fields(entity)) -> "read"
                      [] OTHER -> "reading"
    BY Zenon DEF ReadField, FieldRead
  <1> QED BY <1>1, <1>2, <1>3, <1>4, <1>6, <1>7

(* A field that has one of its values is read.                             *)
LEMMA FieldIsRead ==
    ASSUME IInv, ReadField, record[field] \in Sent[Fields(entity)[field][2]]
    PROVE  /\ FieldRead.ok = TRUE /\ FieldRead.at = StartOf(field + 1)
           /\ FieldRead.took \subseteq SentIn(field) /\ FieldRead.took \in SUBSET Int
           /\ FieldRead.took = DataIn(field) \/ record[field] \in Lossy
  <1> DEFINE d == Fields(entity)[field][2]
             t == record[field]
             j == StartOf(field) + Len(t)
  <1>1. record \in Seq(Terms) /\ field \in 1 .. Len(record) /\ at = StartOf(field) /\ d \in Decoder
    BY ReadFieldIs
  <1>2. /\ StartOf(field + 1) = j /\ Occurs(t, Buffer, StartOf(field))
        /\ DataIn(field) = Written(Buffer, StartOf(field), StartOf(field + 1))
        /\ DataIn(field) \subseteq SentIn(field) /\ SentIn(field) \subseteq Int
    BY <1>1, FieldOccurs
  <1>3. Buffer \in Terms BY <1>1, BufferIs
  <1>4. t \in Sent[d] OBVIOUS
  <1>5. FieldRead = Read(d, Buffer, StartOf(field)) BY <1>1 DEF FieldRead
  <1> HIDE DEF d, t, j
  <1>6. /\ Right(FieldRead, Buffer, StartOf(field), j, "some")
        /\ t \notin Lossy => Right(FieldRead, Buffer, StartOf(field), j, "all")
    BY <1>1, <1>2, <1>3, <1>4, <1>5, SentRead DEF j
  <1>7. /\ FieldRead.ok = TRUE /\ FieldRead.at = j
        /\ FieldRead.took \subseteq Written(Buffer, StartOf(field), j)
    BY <1>6, RightIs
  <1>8. t \notin Lossy => FieldRead.took = Written(Buffer, StartOf(field), j)
    BY <1>6, RightIs
  <1> QED BY <1>2, <1>7, <1>8 DEF t

LEMMA ReadFieldInv == ASSUME IInv, ReadField PROVE IInv'
  <1>1. RecordInv' BY RecordSame DEF IInv, ReadField
  <1>2. record' = record /\ failed' = failed BY DEF ReadField
  <1>3. /\ record \in Seq(Terms) /\ Len(record) \in Nat /\ field \in 1 .. Len(record)
        /\ Len(Fields(entity)) = Len(record) /\ Len(taken) = field - 1
        /\ taken \in Seq(SUBSET Int) /\ \A k \in 1 .. Len(taken) : Took(k)
        /\ field' = field + 1 /\ at' = FieldRead.at
        /\ taken' = IF FieldRead.ok THEN Append(taken, FieldRead.took) ELSE taken
        /\ phase' = CASE ~FieldRead.ok -> "cut"
                      [] FieldRead.ok /\ field = Len(Fields(entity)) -> "read"
                      [] OTHER -> "reading"
    BY ReadFieldIs
  <1>4. CASE record[field] \in Sent[Fields(entity)[field][2]]
    <2>1. /\ FieldRead.ok = TRUE /\ FieldRead.at = StartOf(field + 1)
          /\ FieldRead.took \subseteq SentIn(field) /\ FieldRead.took \in SUBSET Int
          /\ FieldRead.took = DataIn(field) \/ record[field] \in Lossy
      BY <1>4, FieldIsRead
    <2> DEFINE x == FieldRead.took
    <2>2. taken' = Append(taken, x) /\ at' = StartOf(field + 1)
          /\ (phase' = "read" \/ (phase' = "reading" /\ field # Len(record)))
      BY <1>3, <2>1
    <2> HIDE DEF x
    <2>3. /\ taken' \in Seq(SUBSET Int) /\ Len(taken') = field /\ taken'[field] = x
          /\ \A k \in 1 .. Len(taken) : taken'[k] = taken[k]
      <3>1. x \in SUBSET Int BY <2>1 DEF x
      <3>2. /\ Append(taken, x) \in Seq(SUBSET Int) /\ Len(Append(taken, x)) = Len(taken) + 1
            /\ Append(taken, x)[Len(taken) + 1] = x
            /\ \A k \in 1 .. Len(taken) : Append(taken, x)[k] = taken[k]
        BY <1>3, <3>1, AppendProperties
      <3>3. Len(taken) + 1 = field BY <1>3
      <3> QED BY <2>2, <3>2, <3>3
    <2>4. ASSUME NEW k \in 1 .. Len(taken') PROVE Took(k)'
      <3>1. SentIn(k)' = SentIn(k) /\ DataIn(k)' = DataIn(k) BY <1>2, PlacesSame
      <3>2. taken'[k] \subseteq SentIn(k) /\ (taken'[k] = DataIn(k) \/ record[k] \in Lossy)
        <4>1. CASE k = field BY <2>1, <2>3, <4>1 DEF x
        <4>2. CASE k # field
          <5>1. k \in 1 .. Len(taken) BY <1>3, <2>3, <4>2
          <5> QED BY <1>3, <2>3, <5>1 DEF Took
        <4> QED BY <4>1, <4>2
      <3> QED BY <1>2, <3>1, <3>2 DEF Took
    <2>5. TakenInv' BY <2>3, <2>4 DEF TakenInv
    <2>6. IndexInv'
      <3>1. field' # 0 /\ field' - 1 = field BY <1>3
      <3>2. phase' = "reading" => field' \in 1 .. Len(record') BY <1>2, <1>3, <2>2
      <3>3. at' = StartOf(field)' BY <1>2, <1>3, <2>2, PlacesSame, Zenon
      <3> QED BY <2>2, <2>3, <3>1, <3>2, <3>3 DEF IndexInv
    <2>7. CutOnlyAfterFailure' BY <2>2 DEF CutOnlyAfterFailure
    <2> QED BY <1>1, <2>5, <2>6, <2>7 DEF IInv
  <1>5. CASE record[field] \notin Sent[Fields(entity)[field][2]]
    <2>1. /\ failed /\ entity = "job" /\ field \in EndField
          /\ record[field] = Term("NEGATIVE")
      BY <1>3, <1>5 DEF IInv, RecordInv, Fields
    <2>2. FieldRead = Bad(at)
      <3>1. Fields(entity)[field][2] = "uint64" BY <2>1, JobFields DEF EndField, Fields
      <3>2. at = StartOf(field) /\ Occurs(record[field], Buffer, StartOf(field))
        BY <1>3, ReadFieldIs, FieldOccurs
      <3>3. Occurs(Term("NEGATIVE"), Buffer, at) BY <2>1, <3>2
      <3> QED BY <1>3, <3>1, <3>3, BufferIs, NegativeRead DEF FieldRead
    <2>3. ~FieldRead.ok BY <2>2 DEF Bad
    <2>4. phase' = "cut" /\ taken' = taken BY <1>3, <2>3
    <2>5. IndexInv' BY <2>4 DEF IndexInv
    <2>6. TakenInv'
      <3>1. ASSUME NEW k \in 1 .. Len(taken) PROVE Took(k)'
        <4>1. SentIn(k)' = SentIn(k) /\ DataIn(k)' = DataIn(k) BY <1>2, PlacesSame
        <4> QED BY <1>2, <1>3, <2>4, <4>1 DEF Took
      <3> QED BY <1>3, <2>4, <3>1 DEF TakenInv
    <2>7. CutOnlyAfterFailure'
      <3>1. field' > JobField("exitcode") BY <1>3, <2>1, JobFields DEF EndField
      <3> QED BY <1>2, <2>1, <3>1 DEF CutOnlyAfterFailure
    <2> QED BY <1>1, <2>5, <2>6, <2>7 DEF IInv
  <1> QED BY <1>4, <1>5

(* The numbers that are written into the record of a job.                  *)
LEMMA JobEndsInv ==
    ASSUME NEW exitcode \in {"INTEGER", "NEGATIVE"}, NEW signal \in {"INTEGER", "NEGATIVE"},
           signal = "NEGATIVE" => exitcode = "NEGATIVE",
           IInv, JobEnds(exitcode, signal)
    PROVE  IInv'
  <1> DEFINE n == Len(record)
             x == Term(exitcode)
             y == Term(signal)
  <1>1. /\ entity = "job" /\ entity' = entity /\ entity \in Entity
        /\ record \in Seq(Terms) /\ n \in Nat /\ n = Len(Schema["job"])
        /\ DOMAIN record = 1 .. n /\ phase' = "ended"
        /\ failed' = (failed \/ exitcode = "NEGATIVE") /\ failed \in BOOLEAN
    BY LenProperties DEF IInv, RecordInv, JobEnds
  <1>2. record' = [record EXCEPT ![34] = x, ![35] = y] BY JobFields, Zenon DEF JobEnds
  <1>3. x \in Terms /\ y \in Terms
    <2>1. Term("INTEGER") \in Terms /\ Term("NEGATIVE") \in Terms BY ScalarTerm
    <2> QED BY <2>1
  <1>4. 34 \in 1 .. n /\ 35 \in 1 .. n /\ EndField = {34, 35} BY <1>1, JobFields DEF EndField
  <1>5. \A k \in 1 .. n : record[k] \in Terms BY <1>1, ElementOfSeq
  <1> HIDE DEF n, x, y
  <1>6. /\ record' = [k \in 1 .. n |-> record'[k]]
        /\ record'[34] = x /\ record'[35] = y
        /\ \A k \in 1 .. n : k # 34 /\ k # 35 => record'[k] = record[k]
    <2> DEFINE r == record
               s == record'
               S == 1 .. n
    <2>1. DOMAIN r = S /\ s = [r EXCEPT ![34] = x, ![35] = y] BY <1>1, <1>2
    <2>2. 34 \in S /\ 35 \in S BY <1>4
    <2> HIDE DEF r, s, S
    <2>3. /\ s = [k \in S |-> s[k]] /\ s[34] = x /\ s[35] = y
          /\ \A k \in S : k # 34 /\ k # 35 => s[k] = r[k]
      <3> DEFINE i == 34
                 j == 35
      <3>1. i # j /\ i \in S /\ j \in S BY <2>2
      <3>2. s = [r EXCEPT ![i] = x, ![j] = y] BY <2>1
      <3> HIDE DEF i, j
      <3>3. /\ s = [k \in S |-> s[k]] /\ s[i] = x /\ s[j] = y
            /\ \A k \in S : k # i /\ k # j => s[k] = r[k]
        BY <2>1, <3>1, <3>2
      <3> QED BY <3>3 DEF i, j
    <2> QED BY <2>3 DEF r, s, S
  <1>7. \A k \in 1 .. n : record'[k] \in Terms BY <1>3, <1>5, <1>6
  <1>8. record' \in Seq(Terms) /\ Len(record') = n
    <2> DEFINE r == record'
    <2>1. r = [k \in 1 .. n |-> r[k]] /\ \A k \in 1 .. n : r[k] \in Terms BY <1>6, <1>7
    <2> HIDE DEF r
    <2>2. r \in Seq(Terms) /\ Len(r) = n BY <1>1, <2>1, IsSequence
    <2> QED BY <2>2 DEF r
  <1>9. ASSUME NEW k \in 1 .. n
        PROVE  \/ record'[k] \in Sent[Schema["job"][k][2]]
               \/ failed' /\ k \in {34, 35} /\ record'[k] = Term("NEGATIVE")
    <2>1. Term("INTEGER") \in Sent["uint64"]
      <3>1. "uint64" \in DOMAIN Simple /\ Simple["uint64"] = Term("INTEGER") BY DEF Simple
      <3>2. PlainIn("uint64") = Term("INTEGER") BY <3>1, SimpleIs
      <3>3. "uint64" \in FieldDecoder BY <3>1 DEF FieldDecoder
      <3> QED BY <3>2, <3>3, PlainSent
    <2>2. CASE k = 34
      <3>1. exitcode = "INTEGER" => record'[k] = Term("INTEGER") BY <1>6, <2>2 DEF x
      <3>2. exitcode = "NEGATIVE" => record'[k] = Term("NEGATIVE") /\ failed'
        BY <1>1, <1>6, <2>2 DEF x
      <3> QED BY <2>1, <2>2, <3>1, <3>2, JobFields
    <2>3. CASE k = 35
      <3>1. signal = "INTEGER" => record'[k] = Term("INTEGER") BY <1>6, <2>3 DEF y
      <3>2. signal = "NEGATIVE" => record'[k] = Term("NEGATIVE") /\ failed'
        BY <1>1, <1>6, <2>3 DEF y
      <3> QED BY <2>1, <2>3, <3>1, <3>2, JobFields
    <2>4. CASE k # 34 /\ k # 35
      <3>1. record'[k] = record[k] BY <1>6, <2>4
      <3>2. \/ record[k] \in Sent[Schema["job"][k][2]]
            \/ failed /\ k \in EndField /\ record[k] = Term("NEGATIVE")
        BY <1>1 DEF IInv, RecordInv, n
      <3> QED BY <1>4, <2>4, <3>1, <3>2
    <2> QED BY <2>2, <2>3, <2>4
  <1>10. RecordInv'
    <2>1. entity' = "job" /\ entity' \in Entity /\ failed' \in BOOLEAN BY <1>1
    <2> QED BY <1>1, <1>4, <1>8, <1>9, <2>1 DEF RecordInv, EndField
  <1>11. TakenInv' /\ IndexInv' /\ CutOnlyAfterFailure'
    BY <1>1 DEF TakenInv, IndexInv, CutOnlyAfterFailure
  <1> QED BY <1>10, <1>11 DEF IInv

LEMMA RequeueInv == ASSUME IInv, Requeue PROVE IInv'
  <1>1. RecordInv' BY RecordSame DEF IInv, Requeue
  <1>2. TakenInv' /\ IndexInv' /\ CutOnlyAfterFailure'
    BY DEF Requeue, TakenInv, IndexInv, CutOnlyAfterFailure
  <1> QED BY <1>1, <1>2 DEF IInv

LEMMA StutterInv == ASSUME IInv, UNCHANGED vars PROVE IInv'
  <1>1. /\ entity' = entity /\ record' = record /\ phase' = phase /\ field' = field
        /\ at' = at /\ taken' = taken /\ failed' = failed
    BY DEF vars
  <1>2. RecordInv' BY <1>1, RecordSame DEF IInv
  <1>3. CutOnlyAfterFailure' BY <1>1 DEF IInv, CutOnlyAfterFailure
  <1>4. TakenInv'
    <2> SUFFICES ASSUME phase \in {"reading", "read", "cut"}
                 PROVE  taken \in Seq(SUBSET Int) /\ \A k \in 1 .. Len(taken) : Took(k)'
      BY <1>1 DEF TakenInv
    <2>1. taken \in Seq(SUBSET Int) /\ \A k \in 1 .. Len(taken) : Took(k)
      BY DEF IInv, TakenInv
    <2>2. ASSUME NEW k \in 1 .. Len(taken) PROVE Took(k)'
      <3>1. SentIn(k)' = SentIn(k) /\ DataIn(k)' = DataIn(k) BY <1>1, PlacesSame
      <3> QED BY <1>1, <2>1, <3>1 DEF Took
    <2> QED BY <2>1, <2>2
  <1>5. IndexInv'
    <2>1. StartOf(field)' = StartOf(field) BY <1>1 DEF StartOf
    <2> QED BY <1>1, <2>1 DEF IInv, IndexInv
  <1> QED BY <1>2, <1>3, <1>4, <1>5 DEF IInv

LEMMA NextInv == ASSUME IInv, [Next]_vars PROVE IInv'
  <1>1. CASE Send BY <1>1, SendInv
  <1>2. CASE ReadHeader BY <1>2, ReadHeaderInv
  <1>3. CASE ReadField BY <1>3, ReadFieldInv
  <1>4. CASE Requeue BY <1>4, RequeueInv
  <1>5. CASE JobEnds("INTEGER", "INTEGER") BY <1>5, JobEndsInv
  <1>6. CASE JobEnds("NEGATIVE", "INTEGER") BY <1>6, JobEndsInv
  <1>7. CASE JobEnds("NEGATIVE", "NEGATIVE") BY <1>7, JobEndsInv
  <1>8. CASE UNCHANGED vars BY <1>8, StutterInv
  <1> QED BY <1>1, <1>2, <1>3, <1>4, <1>5, <1>6, <1>7, <1>8 DEF Next

LEMMA Inductive == Spec => []IInv
  <1>1. Init => IInv BY InitInv
  <1>2. IInv /\ [Next]_vars => IInv' BY NextInv
  <1> QED BY <1>1, <1>2, PTL DEF Spec

LEMMA TakenDomain ==
    ASSUME IInv, phase \in {"reading", "read", "cut"}
    PROVE  \A k \in DOMAIN taken : Took(k)
  <1>1. taken \in Seq(SUBSET Int) /\ \A k \in 1 .. Len(taken) : Took(k) BY DEF IInv, TakenInv
  <1> QED BY <1>1, LenProperties

(***************************************************************************)
(* The theorems.                                                           *)
(***************************************************************************)

(* The constructor of every record stands at the first token of the field  *)
(* it is about to read, and no field takes the value of another, for lists *)
(* and maps of any length, values nested to any depth and any number of    *)
(* runs (the indexes the decoders of wm_entity_utils.cpp leave).           *)
THEOREM RecordsInStep == Spec => []InStep
  <1>1. ASSUME IInv PROVE InStep
    <2>1. phase = "reading" /\ field > 0 => at = StartOf(field) BY <1>1 DEF IInv, IndexInv
    <2>2. ASSUME phase # "ended", phase # "stored", NEW k \in DOMAIN taken
          PROVE  taken[k] \subseteq SentIn(k)
      <3>1. Took(k) BY <1>1, <2>2, TakenDomain DEF IInv, IndexInv
      <3> QED BY <3>1 DEF Took
    <2> QED BY <2>1, <2>2 DEF InStep
  <1> QED BY <1>1, Inductive, PTL

(* A constructor returns early only at the -1 of a run that has failed,    *)
(* and only behind the exit code (the returns of the constructors, the     *)
(* unsigned numbers of ei_buffer_to_uint64_t).                             *)
THEOREM CutOnlyByFailure == Spec => []CutOnlyAfterFailure
  <1>1. IInv => CutOnlyAfterFailure BY DEF IInv
  <1> QED BY <1>1, Inductive, PTL

(* Every value of every field arrives whole, but for a text of more than   *)
(* 65535 bytes and what a map holds beside texts and numbers               *)
(* (ei_buffer_to_str, ei_buffer_to_map).                                   *)
THEOREM OnlyThisIsLost == Spec => []NothingElseLost
  <1>1. ASSUME IInv PROVE NothingElseLost
    <2>1. ASSUME phase \in {"read", "cut"}, NEW k \in DOMAIN taken
          PROVE  DataIn(k) # taken[k] => record[k] \in Lossy
      <3>1. Took(k) BY <1>1, <2>1, TakenDomain
      <3> QED BY <3>1 DEF Took
    <2> QED BY <2>1 DEF NothingElseLost
  <1> QED BY <1>1, Inductive, PTL
=============================================================================
