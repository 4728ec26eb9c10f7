----------------------------- MODULE ListLemmas -----------------------------
(***************************************************************************)
(* Facts about FlattenSeq and FoldLeft for lists of any length.  Both are  *)
(* recursive, and the induction theorems of the library cannot be applied  *)
(* to a predicate; a set of numbers can stand for the predicate, and a     *)
(* function for the operator that is folded.                               *)
(***************************************************************************)
EXTENDS Integers, SequencesExt, SequenceTheorems, NaturalsInduction, WellFoundedInduction, TLAPS

\* Induction up to n; P is the set of numbers of which the claim is true.
LEMMA UpTo ==
  ASSUME NEW n \in Nat, NEW P, 0 \in P, \A k \in 0 .. n - 1 : k \in P => k + 1 \in P
  PROVE  \A k \in 0..n : k \in P
<1> DEFINE T == {k \in 0..n : k \notin P}
           R == {ss \in Nat \X Nat : ss[1] < ss[2]}
<1>1. SUFFICES ASSUME T # {} PROVE FALSE
  OBVIOUS
<1>2. IsWellFoundedOn(R, Nat)
  BY NatLessThanWellFounded DEF OpToRel
<1>3. T \subseteq Nat
  OBVIOUS
<1> HIDE DEF R
<1>4. PICK m \in T : \A y \in T : ~ (<<y, m>> \in R)
  <2> HIDE DEF T
  <2> QED BY <1>1, <1>2, <1>3, WFMin
<1>5. m \in Nat /\ m <= n /\ m \notin P
  OBVIOUS
<1>6. m # 0
  BY <1>5
<1>7. m - 1 \in 0 .. n - 1 /\ (m - 1) + 1 = m
  BY <1>5, <1>6
<1>8. m - 1 \notin T
  <2>1. <<m - 1, m>> \in R
    BY <1>5, <1>7 DEF R
  <2> QED BY <1>4, <2>1
<1>9. m - 1 \in P
  BY <1>7, <1>8
<1> QED BY <1>5, <1>7, <1>9

\* f records a run of n steps from base; step[k] is what step k does.
IsRun(f, n, S, base, step) ==
  /\ f \in [0..n -> S]
  /\ f[0] = base
  /\ \A k \in 1..n : f[k] = step[k][f[k - 1]]

\* A function on 0..n defined by what it is at 0 and how it goes on.
LEMMA Recursion ==
  ASSUME NEW n \in Nat, NEW S, NEW base \in S, NEW step \in [1..n -> [S -> S]]
  PROVE  \E f : IsRun(f, n, S, base, step)
<1> DEFINE Up(m) == \E f \in [0..m -> S] :
                      f[0] = base /\ \A k \in 1..m : f[k] = step[k][f[k - 1]]
           P == {m \in 0..n : Up(m)}
<1>1. 0 \in P
  <2> DEFINE f == [k \in 0..0 |-> base]
  <2>1. f \in [0..0 -> S] /\ f[0] = base /\ \A k \in 1..0 : f[k] = step[k][f[k - 1]]
    OBVIOUS
  <2>2. Up(0)
    BY <2>1
  <2> QED BY <2>2
<1>2. ASSUME NEW m \in 0 .. n - 1, m \in P PROVE m + 1 \in P
  <2>1. PICK f \in [0..m -> S] : f[0] = base /\ \A k \in 1..m : f[k] = step[k][f[k - 1]]
    BY <1>2
  <2> DEFINE g == [k \in 0 .. m + 1 |-> IF k = m + 1 THEN step[m + 1][f[m]] ELSE f[k]]
  <2>2. m + 1 \in 1..n /\ m \in 0..m /\ f[m] \in S
    BY <2>1
  <2>3. step[m + 1][f[m]] \in S
    BY <2>2
  <2>4. g \in [0 .. m + 1 -> S] /\ \A k \in 0..m : g[k] = f[k]
    BY <2>3
  <2>5. g[m + 1] = step[m + 1][f[m]] /\ (m + 1) - 1 = m
    OBVIOUS
  <2> HIDE DEF g
  <2>6. ASSUME NEW k \in 1 .. m + 1 PROVE g[k] = step[k][g[k - 1]]
    <3>1. CASE k = m + 1
      <4>1. g[k - 1] = f[m]
        BY <2>2, <2>4, <3>1
      <4> QED BY <2>5, <3>1, <4>1
    <3>2. CASE k # m + 1
      <4>1. k \in 1..m /\ k - 1 \in 0..m /\ k \in 0..m
        BY <3>2
      <4> QED BY <2>1, <2>4, <4>1
    <3> QED BY <3>1, <3>2
  <2>7. g[0] = base
    BY <2>1, <2>4
  <2>8. Up(m + 1)
    BY <2>4, <2>6, <2>7
  <2> QED BY <2>2, <2>8
<1> HIDE DEF P
<1>3. n \in P
  <2>1. \A k \in 0..n : k \in P
    BY <1>1, <1>2, UpTo
  <2> QED BY <2>1
<1>4. Up(n)
  BY <1>3 DEF P
<1> QED BY <1>4 DEF IsRun

-----------------------------------------------------------------------------
(* FlattenSeq *)

\* r has the concatenations of the first 0, 1, ... sequences of ss.
Concatenations(r, ss, S) ==
  /\ r \in [0..Len(ss) -> Seq(S)]
  /\ r[0] = <<>>
  /\ \A k \in 1..Len(ss) : r[k] = r[k - 1] \o ss[k]

\* FlattenSeq is the last of them.
LEMMA FlattenRuns ==
  ASSUME NEW S, NEW ss \in Seq(Seq(S))
  PROVE  \E r : Concatenations(r, ss, S) /\ FlattenSeq(ss) = r[Len(ss)]
<1> DEFINE n == Len(ss)
           step == [k \in 1..n |-> [s \in Seq(S) |-> s \o ss[k]]]
           G(g) == [i \in 1..n |-> IF i = 1 THEN ss[i] ELSE g[i - 1] \o ss[i]]
           flat == CHOOSE g : g = G(g)
<1>1. n \in Nat /\ \A k \in 1..n : ss[k] \in Seq(S)
  OBVIOUS
<1>2. step \in [1..n -> [Seq(S) -> Seq(S)]]
  <2>1. ASSUME NEW k \in 1..n, NEW s \in Seq(S) PROVE s \o ss[k] \in Seq(S)
    BY <1>1, ConcatProperties
  <2> QED BY <2>1
<1>3. <<>> \in Seq(S)
  BY EmptySeq
<1>4. PICK r \in [0..n -> Seq(S)] : r[0] = <<>> /\ \A k \in 1..n : r[k] = step[k][r[k - 1]]
  <2> DEFINE T == Seq(S)
             base == <<>>
  <2>1. n \in Nat /\ step \in [1..n -> [T -> T]] /\ base \in T
    BY <1>1, <1>2, <1>3
  <2> HIDE DEF step, n, T, base
  <2>2. \E r : IsRun(r, n, T, base, step)
    BY <2>1, Recursion
  <2> QED BY <2>2 DEF T, base, IsRun
<1>5. ASSUME NEW k \in 1..n PROVE r[k] = r[k - 1] \o ss[k]
  <2>1. k - 1 \in 0..n
    BY <1>1
  <2>2. r[k - 1] \in Seq(S)
    BY <2>1
  <2> QED BY <1>4, <2>2
<1> DEFINE one == [i \in 1..n |-> r[i]]
<1>6. one = G(one)
  <2>1. ASSUME NEW i \in 1..n PROVE one[i] = G(one)[i]
    <3>1. CASE i = 1
      <4>1. r[i] = r[i - 1] \o ss[i]
        BY <1>5
      <4>3. i - 1 = 0
        BY <3>1
      <4>2. <<>> \o ss[1] = ss[1]
        BY <1>1, <3>1, ConcatEmptySeq
      <4> QED BY <1>4, <3>1, <4>1, <4>2, <4>3
    <3>2. CASE i # 1
      <4>1. i - 1 \in 1..n
        BY <1>1, <3>2
      <4> QED BY <1>5, <3>2, <4>1
    <3> QED BY <3>1, <3>2
  <2> HIDE DEF n
  <2> QED BY <2>1
<1>7. flat = G(flat)
  <2> HIDE DEF one, G
  <2> QED BY <1>6
<1>8. n # 0 => FlattenSeq(ss) = flat[n]
  BY DEF FlattenSeq
<1>9. n = 0 => FlattenSeq(ss) = <<>>
  <2>1. n = 0 => ss = <<>>
    BY EmptySeq
  <2> QED BY <2>1 DEF FlattenSeq
<1> DEFINE P == {k \in 0..n : k # 0 => flat[k] = r[k]}
<1> HIDE DEF flat
<1>10. ASSUME NEW k \in 0 .. n - 1, k \in P PROVE k + 1 \in P
  <2>1. k + 1 \in 1..n /\ k + 1 \in 0..n /\ (k + 1) - 1 = k
    BY <1>1
  <2>2. flat[k + 1] = IF k + 1 = 1 THEN ss[k + 1] ELSE flat[k] \o ss[k + 1]
    BY <1>7, <2>1
  <2>3. r[k + 1] = r[k] \o ss[k + 1]
    BY <1>5, <2>1
  <2>4. CASE k = 0
    <3>1. r[k + 1] = ss[k + 1]
      <4>1. ss[k + 1] \in Seq(S)
        BY <1>1, <2>1
      <4> QED BY <1>4, <2>3, <2>4, <4>1, ConcatEmptySeq
    <3> QED BY <2>1, <2>2, <2>4, <3>1
  <2>5. CASE k # 0
    <3>1. flat[k] = r[k]
      BY <1>10, <2>5
    <3>2. flat[k + 1] = r[k + 1]
      <4>1. k + 1 # 1
        BY <2>5
      <4> QED BY <2>2, <2>3, <3>1, <4>1, Zenon
    <3> QED BY <2>1, <3>2
  <2> QED BY <2>4, <2>5
<1>11. 0 \in P
  BY <1>1
<1>12. n \in P
  <2> HIDE DEF P, n
  <2>1. \A k \in 0..n : k \in P
    BY <1>1, <1>10, <1>11, UpTo
  <2> QED BY <1>1, <2>1
<1>13. FlattenSeq(ss) = r[n]
  BY <1>4, <1>8, <1>9, <1>12
<1> QED BY <1>4, <1>5, <1>13 DEF Concatenations

\* tt begins with the sequences of ss.
BeginsWith(tt, ss) == Len(ss) <= Len(tt) /\ \A k \in 1..Len(ss) : ss[k] = tt[k]

\* They are determined by the sequences.
LEMMA ConcatenationsAgree ==
  ASSUME NEW S, NEW ss \in Seq(Seq(S)), NEW tt \in Seq(Seq(S)),
         NEW r, NEW q, Concatenations(r, ss, S), Concatenations(q, tt, S),
         BeginsWith(tt, ss)
  PROVE  r[Len(ss)] = q[Len(ss)]
<1> DEFINE n == Len(ss)
           P == {k \in 0..n : r[k] = q[k]}
<1>1. n \in Nat /\ Len(tt) \in Nat
  OBVIOUS
<1>2. 0 \in P
  BY <1>1 DEF Concatenations
<1>3. ASSUME NEW k \in 0 .. n - 1, k \in P PROVE k + 1 \in P
  <2>1. k + 1 \in 0..n /\ k + 1 \in 1..Len(ss) /\ k + 1 \in 1..Len(tt) /\ (k + 1) - 1 = k
    BY <1>1 DEF BeginsWith
  <2>2. r[k + 1] = r[k] \o ss[k + 1] /\ q[k + 1] = q[k] \o tt[k + 1]
    BY <2>1 DEF Concatenations
  <2>3. r[k] = q[k] /\ ss[k + 1] = tt[k + 1]
    BY <1>3, <2>1 DEF BeginsWith
  <2>4. r[k + 1] = q[k + 1]
    BY <2>2, <2>3, Zenon
  <2> QED BY <2>1, <2>4
<1>4. \A k \in 0..n : k \in P
  <2> HIDE DEF n, P
  <2> QED BY <1>1, <1>2, <1>3, UpTo
<1>5. n \in P
  BY <1>1, <1>4
<1> QED BY <1>5

\* FlattenSeq of the empty list, of any list, and of a list with one more.
LEMMA FlattenEmpty == FlattenSeq(<<>>) = <<>>
BY DEF FlattenSeq

LEMMA FlattenType ==
  ASSUME NEW S, NEW ss \in Seq(Seq(S))
  PROVE  FlattenSeq(ss) \in Seq(S)
<1>1. PICK r : Concatenations(r, ss, S) /\ FlattenSeq(ss) = r[Len(ss)]
  BY FlattenRuns
<1>2. Len(ss) \in 0..Len(ss)
  OBVIOUS
<1> QED BY <1>1, <1>2 DEF Concatenations

LEMMA FlattenAppend ==
  ASSUME NEW S, NEW ss \in Seq(Seq(S)), NEW s \in Seq(S)
  PROVE  FlattenSeq(Append(ss, s)) = FlattenSeq(ss) \o s
<1> DEFINE tt == Append(ss, s)
           n == Len(ss)
<1>1. tt \in Seq(Seq(S)) /\ Len(tt) = n + 1 /\ tt[n + 1] = s /\ \A k \in 1..n : tt[k] = ss[k]
  BY AppendProperties
<1>2. n \in Nat /\ n \in 0..n /\ n + 1 \in 1..(n + 1) /\ (n + 1) - 1 = n
  OBVIOUS
<1> HIDE DEF tt
<1>3. PICK r : Concatenations(r, ss, S) /\ FlattenSeq(ss) = r[n]
  BY FlattenRuns
<1>4. PICK q : Concatenations(q, tt, S) /\ FlattenSeq(tt) = q[n + 1]
  BY <1>1, FlattenRuns
<1>5. r[n] = q[n]
  <2>1. n <= n + 1
    BY <1>2
  <2>2. Len(ss) <= Len(tt) /\ \A k \in 1..Len(ss) : ss[k] = tt[k]
    BY <1>1, <2>1
  <2>3. BeginsWith(tt, ss)
    BY <2>2 DEF BeginsWith
  <2> QED BY <1>1, <1>3, <1>4, <2>3, ConcatenationsAgree
<1>6. q[n + 1] = q[n] \o s
  <2>1. q[n + 1] = q[(n + 1) - 1] \o tt[n + 1]
    BY <1>1, <1>2, <1>4 DEF Concatenations
  <2> QED BY <1>1, <1>2, <2>1
<1> QED BY <1>3, <1>4, <1>5, <1>6 DEF tt

LEMMA FlattenConcat ==
  ASSUME NEW S, NEW ss \in Seq(Seq(S)), NEW tt \in Seq(Seq(S))
  PROVE  FlattenSeq(ss \o tt) = FlattenSeq(ss) \o FlattenSeq(tt)
<1> DEFINE uu == ss \o tt
           n == Len(ss)
           m == Len(tt)
<1>1. n \in Nat /\ m \in Nat
  OBVIOUS
<1>2. uu \in Seq(Seq(S)) /\ Len(uu) = n + m
      /\ (\A k \in 1..n : uu[k] = ss[k]) /\ (\A k \in 1..m : uu[n + k] = tt[k])
  <2>1. /\ uu \in Seq(Seq(S)) /\ Len(uu) = n + m
        /\ \A i \in 1 .. n + m : uu[i] = IF i <= n THEN ss[i] ELSE tt[i - n]
    BY ConcatProperties
  <2>2. ASSUME NEW k \in 1..n PROVE uu[k] = ss[k]
    <3>1. k \in 1 .. n + m /\ k <= n
      BY <1>1
    <3> QED BY <2>1, <3>1
  <2>3. ASSUME NEW k \in 1..m PROVE uu[n + k] = tt[k]
    <3>1. n + k \in 1 .. n + m /\ ~ (n + k <= n) /\ (n + k) - n = k
      BY <1>1
    <3> QED BY <2>1, <3>1
  <2> QED BY <2>1, <2>2, <2>3
<1> HIDE DEF uu
<1>3. PICK p : Concatenations(p, ss, S) /\ FlattenSeq(ss) = p[n]
  BY FlattenRuns
<1>4. PICK q : Concatenations(q, tt, S) /\ FlattenSeq(tt) = q[m]
  BY FlattenRuns
<1>5. PICK r : Concatenations(r, uu, S) /\ FlattenSeq(uu) = r[n + m]
  BY <1>2, FlattenRuns
<1>6. p[n] = r[n]
  <2>1. BeginsWith(uu, ss)
    BY <1>1, <1>2 DEF BeginsWith
  <2>2. uu \in Seq(Seq(S)) /\ Concatenations(p, ss, S) /\ Concatenations(r, uu, S)
    BY <1>2, <1>3, <1>5
  <2>3. p[Len(ss)] = r[Len(ss)]
    BY <2>1, <2>2, ConcatenationsAgree
  <2> QED BY <2>3
<1>7. r[n] \in Seq(S)
  <2>1. n \in 0 .. n + m
    BY <1>1
  <2> QED BY <1>2, <1>5, <2>1 DEF Concatenations
<1>0. Len(ss) = n /\ Len(tt) = m
  OBVIOUS
<1> HIDE DEF n, m
<1> DEFINE P == {k \in 0..m : r[n + k] = r[n] \o q[k]}
<1>8. 0 \in P
  <2>1. q[0] = <<>> /\ n + 0 = n
    BY <1>1, <1>4 DEF Concatenations
  <2>2. r[n] = r[n] \o <<>>
    BY <1>7, ConcatEmptySeq
  <2>3. r[n + 0] = r[n] \o q[0] /\ 0 \in 0..m
    BY <1>1, <2>1, <2>2
  <2> QED BY <2>3
<1>9. ASSUME NEW k \in 0 .. m - 1, k \in P PROVE k + 1 \in P
  <2>1. k \in 0..m /\ k + 1 \in 1..m /\ k + 1 \in 0..m /\ (k + 1) - 1 = k
    BY <1>1
  <2>2. n + (k + 1) \in 1 .. n + m /\ (n + (k + 1)) - 1 = n + k
    BY <1>1
  <2>3. q[k] \in Seq(S) /\ q[k + 1] = q[k] \o tt[k + 1] /\ tt[k + 1] \in Seq(S)
    <3>1. q[k] \in Seq(S)
      BY <1>0, <1>4, <2>1 DEF Concatenations
    <3>2. q[k + 1] = q[(k + 1) - 1] \o tt[k + 1]
      BY <1>0, <1>4, <2>1, Zenon DEF Concatenations
    <3>3. tt[k + 1] \in Seq(S)
      BY <1>0, <2>1, ElementOfSeq
    <3> QED BY <2>1, <3>1, <3>2, <3>3
  <2>4. r[n + (k + 1)] = r[n + k] \o uu[n + (k + 1)]
    BY <1>2, <1>5, <2>2 DEF Concatenations
  <2>5. uu[n + (k + 1)] = tt[k + 1]
    BY <1>2, <2>1
  <2>6. r[n + k] = r[n] \o q[k]
    BY <1>9
  <2>7. (r[n] \o q[k]) \o tt[k + 1] = r[n] \o (q[k] \o tt[k + 1])
    <3>1. ASSUME NEW a \in Seq(S), NEW b \in Seq(S), NEW c \in Seq(S)
          PROVE  (a \o b) \o c = a \o (b \o c)
      BY ConcatAssociative, SMTT(30)
    <3> QED BY <1>7, <2>3, <3>1, Zenon
  <2>8. r[n + (k + 1)] = r[n] \o q[k + 1]
    BY <2>3, <2>4, <2>5, <2>6, <2>7, Zenon
  <2> QED BY <2>1, <2>8
<1>10. m \in P
  <2> HIDE DEF P
  <2>1. \A k \in 0..m : k \in P
    BY <1>1, <1>8, <1>9, UpTo
  <2> QED BY <1>1, <2>1
<1>11. r[n + m] = r[n] \o q[m]
  BY <1>10
<1> QED BY <1>3, <1>4, <1>5, <1>6, <1>11, Zenon DEF uu

-----------------------------------------------------------------------------
(* Sequences *)

\* The two parts of a sequence cut in two.
LEMMA Cut ==
  ASSUME NEW S, NEW s \in Seq(S), NEW t \in Seq(S)
  PROVE  /\ s = SubSeq(s \o t, 1, Len(s))
         /\ t = SubSeq(s \o t, Len(s) + 1, Len(s \o t))
<1> DEFINE u == s \o t
           m == Len(s)
           n == Len(t)
<1>1. u \in Seq(S) /\ m \in Nat /\ n \in Nat /\ Len(u) = m + n
      /\ \A i \in 1 .. m + n : u[i] = IF i <= m THEN s[i] ELSE t[i - m]
  BY ConcatProperties
<1> HIDE DEF u
<1>2. \A i \in 1 .. m + n : u[i] \in S
  BY <1>1
<1>3. SubSeq(u, 1, m) = s
  <2>1. \A i \in 1..m : u[i] \in S
    BY <1>1, <1>2
  <2>2. /\ SubSeq(u, 1, m) \in Seq(S) /\ Len(SubSeq(u, 1, m)) = m
        /\ \A i \in 1..m : SubSeq(u, 1, m)[i] = u[i]
    BY <1>1, <2>1, SubSeqProperties
  <2>3. \A i \in 1..m : u[i] = s[i]
    BY <1>1
  <2> QED BY <2>2, <2>3, SeqEqual
<1>4. SubSeq(u, m + 1, m + n) = t
  <2>1. \A i \in m + 1 .. m + n : u[i] \in S
    BY <1>1, <1>2
  <2>2. /\ SubSeq(u, m + 1, m + n) \in Seq(S) /\ Len(SubSeq(u, m + 1, m + n)) = n
        /\ \A i \in 1..n : SubSeq(u, m + 1, m + n)[i] = u[m + i]
    BY <1>1, <2>1, SubSeqProperties
  <2>3. ASSUME NEW i \in 1..n PROVE u[m + i] = t[i]
    <3>1. m + i \in 1 .. m + n /\ ~ (m + i <= m) /\ (m + i) - m = i
      BY <1>1
    <3>2. u[m + i] = t[(m + i) - m]
      BY <1>1, <3>1, Zenon
    <3> QED BY <3>1, <3>2, Zenon
  <2> QED BY <2>2, <2>3, SeqEqual
<1> QED BY <1>1, <1>3, <1>4 DEF u

-----------------------------------------------------------------------------
(* FoldLeft *)

LEMMA MaxOf ==
  ASSUME NEW n \in Nat, NEW s \in SUBSET (1..n), s # {}
  PROVE  Max(s) \in s /\ \A y \in s : Max(s) >= y
<1> DEFINE Has(k) == \E x \in s : \A y \in s : y <= k => x >= y
           P == {k \in 0..n : Has(k)}
<1>1. 0 \in P
  <2>1. PICK x \in s : TRUE
    OBVIOUS
  <2>2. Has(0)
    BY <2>1
  <2> QED BY <2>2
<1>2. ASSUME NEW k \in 0 .. n - 1, k \in P PROVE k + 1 \in P
  <2>1. PICK x \in s : \A y \in s : y <= k => x >= y
    BY <1>2
  <2>2. CASE k + 1 \in s
    <3>1. \A y \in s : y <= k + 1 => k + 1 >= y
      OBVIOUS
    <3>2. Has(k + 1)
      BY <2>2, <3>1
    <3> QED BY <3>2
  <2>3. CASE k + 1 \notin s
    <3>1. \A y \in s : y <= k + 1 => y <= k
      BY <2>3
    <3>2. Has(k + 1)
      BY <2>1, <3>1
    <3> QED BY <3>2
  <2> QED BY <2>2, <2>3
<1>3. n \in P
  <2> HIDE DEF P
  <2>1. \A k \in 0..n : k \in P
    BY <1>1, <1>2, UpTo
  <2> QED BY <2>1
<1>4. \E x \in s : \A y \in s : x >= y
  <2>1. PICK x \in s : \A y \in s : y <= n => x >= y
    BY <1>3
  <2>2. \A y \in s : y <= n
    OBVIOUS
  <2> QED BY <2>1, <2>2
<1> QED BY <1>4, Zenon DEF Max

LEMMA MaxUpTo ==
  ASSUME NEW k \in Nat, k > 0
  PROVE  Max(1..k) = k
<1>1. Max(1..k) \in 1..k /\ \A y \in 1..k : Max(1..k) >= y
  <2>1. 1..k \in SUBSET (1..k) /\ 1..k # {}
    OBVIOUS
  <2> QED BY <2>1, MaxOf
<1>2. k \in 1..k
  OBVIOUS
<1> QED BY <1>1, <1>2

\* A set without its greatest number lies lower.
LEMMA WithoutMax ==
  ASSUME NEW k \in Nat, NEW s \in SUBSET (1..k), s # {}
  PROVE  /\ Max(s) \in 1..k
         /\ s \ {Max(s)} \in SUBSET (1 .. k - 1)
         /\ \A n \in Nat : k <= n => s \ {Max(s)} \in SUBSET (1..n)
<1>1. PICK x \in s : x = Max(s) /\ \A y \in s : x >= y
  BY MaxOf
<1>2. x \in 1..k
  OBVIOUS
<1>3. ASSUME NEW y \in s \ {x} PROVE y \in 1 .. k - 1 /\ \A n \in Nat : k <= n => y \in 1..n
  <2>1. y \in 1..k /\ x >= y /\ x # y
    BY <1>1
  <2> QED BY <1>2, <2>1
<1> QED BY <1>1, <1>2, <1>3

\* F is the fold of step[1], step[2], ... from base, as FoldLeft computes it:
\* over sets of positions, the greatest position last.
IsFold(F, n, S, base, step) ==
  /\ F \in [SUBSET (1..n) -> S]
  /\ \A s \in SUBSET (1..n) :
       F[s] = IF s = {} THEN base ELSE step[Max(s)][F[s \ {Max(s)}]]

LEMMA FoldExists ==
  ASSUME NEW n \in Nat, NEW S, NEW base \in S, NEW step \in [1..n -> [S -> S]]
  PROVE  \E F : IsFold(F, n, S, base, step)
<1> DEFINE D == SUBSET (1..n)
           T == [D -> S]
           Level(f) == [s \in D |-> IF s = {} THEN base ELSE step[Max(s)][f[s \ {Max(s)}]]]
           first == [s \in D |-> base]
           next == [k \in 1..n |-> [f \in T |-> Level(f)]]
<1>1. ASSUME NEW s \in D, s # {}
      PROVE  Max(s) \in 1..n /\ s \ {Max(s)} \in D
  BY <1>1, WithoutMax
<1>2. ASSUME NEW f \in T PROVE Level(f) \in T
  <2>1. ASSUME NEW s \in D, s # {} PROVE step[Max(s)][f[s \ {Max(s)}]] \in S
    <3>1. Max(s) \in 1..n /\ s \ {Max(s)} \in D
      BY <1>1, <2>1
    <3> HIDE DEF D
    <3> QED BY <3>1
  <2> HIDE DEF D
  <2> QED BY <2>1
<1>3. first \in T /\ next \in [1..n -> [T -> T]]
  <2> HIDE DEF Level
  <2> QED BY <1>2
<1>4. PICK r : IsRun(r, n, T, first, next)
  <2> HIDE DEF T, first, next
  <2> QED BY <1>3, Recursion
<1>5. r \in [0..n -> T] /\ r[0] = first
  BY <1>4 DEF IsRun
<1>6. ASSUME NEW k \in 1..n PROVE r[k] = Level(r[k - 1])
  <2>1. k - 1 \in 0..n
    OBVIOUS
  <2>2. r[k - 1] \in T
    BY <1>5, <2>1
  <2>3. r[k] = next[k][r[k - 1]]
    BY <1>4 DEF IsRun
  <2> HIDE DEF Level, T
  <2> QED BY <2>2, <2>3
<1>7. ASSUME NEW k \in 1..n, NEW s \in D, s # {}
      PROVE  r[k][s] = step[Max(s)][r[k - 1][s \ {Max(s)}]]
  <2>1. r[k] = Level(r[k - 1])
    BY <1>6
  <2>2. ASSUME NEW f PROVE Level(f)[s] = step[Max(s)][f[s \ {Max(s)}]]
    <3> HIDE DEF D
    <3> QED BY <1>7
  <2> HIDE DEF Level
  <2> QED BY <2>1, <2>2, Zenon
<1>8. ASSUME NEW k \in 0..n PROVE r[k][{}] = base
  <2>1. {} \in D
    OBVIOUS
  <2>2. CASE k = 0
    BY <1>5, <2>1, <2>2
  <2>3. CASE k # 0
    <3>1. k \in 1..n
      BY <2>3
    <3> HIDE DEF D
    <3> QED BY <1>6, <2>1, <3>1
  <2> QED BY <2>2, <2>3
<1> HIDE DEF Level, first, next
\* From level k on nothing changes on the sets of positions up to k.
<1> DEFINE Stable(k) == \A j \in k..n : \A s \in SUBSET (1..k) : r[j][s] = r[k][s]
           P == {k \in 0..n : Stable(k)}
<1>9. 0 \in P
  <2>1. ASSUME NEW j \in 0..n, NEW s \in SUBSET (1..0) PROVE r[j][s] = r[0][s]
    <3>1. s = {} /\ 0 \in 0..n
      OBVIOUS
    <3> QED BY <1>8, <3>1
  <2>2. Stable(0)
    BY <2>1
  <2> QED BY <2>2
<1>10. ASSUME NEW k \in 0 .. n - 1, k \in P PROVE k + 1 \in P
  <2>1. ASSUME NEW j \in (k + 1)..n, NEW s \in SUBSET (1 .. k + 1)
        PROVE  r[j][s] = r[k + 1][s]
    <3>1. k + 1 \in Nat /\ k + 1 <= n /\ (k + 1) - 1 = k /\ k + 1 \in 1..n /\ j \in 1..n
          /\ j - 1 \in k..n /\ k \in k..n /\ k + 1 \in 0..n /\ j \in 0..n
      OBVIOUS
    <3>2. CASE s = {}
      BY <1>8, <3>1, <3>2
    <3>3. CASE s # {}
      <4>1. s \ {Max(s)} \in SUBSET (1..k)
        BY <3>1, <3>3, WithoutMax
      <4>2. s \in D
        BY <3>1
      <4>3. r[j][s] = step[Max(s)][r[j - 1][s \ {Max(s)}]]
        BY <1>7, <3>1, <3>3, <4>2
      <4>4. r[k + 1][s] = step[Max(s)][r[k][s \ {Max(s)}]]
        <5>1. r[k + 1][s] = step[Max(s)][r[(k + 1) - 1][s \ {Max(s)}]]
          BY <1>7, <3>1, <3>3, <4>2, Zenon
        <5> QED BY <3>1, <5>1
      <4>5. r[j - 1][s \ {Max(s)}] = r[k][s \ {Max(s)}]
        BY <1>10, <3>1, <4>1, Zenon
      <4> QED BY <4>3, <4>4, <4>5
    <3> QED BY <3>2, <3>3
  <2>2. Stable(k + 1)
    BY <2>1
  <2> QED BY <2>2
<1>11. \A k \in 0..n : k \in P
  <2> HIDE DEF P
  <2> QED BY <1>9, <1>10, UpTo
<1>12. ASSUME NEW s \in D, s # {}
       PROVE  r[n][s] = step[Max(s)][r[n][s \ {Max(s)}]]
  <2>1. n \in 1..n /\ n - 1 \in 0..n /\ n \in (n - 1)..n
    <3>1. Max(s) \in 1..n
      BY <1>1, <1>12
    <3> QED BY <3>1
  <2>2. s \ {Max(s)} \in SUBSET (1 .. n - 1)
    BY <1>12, WithoutMax
  <2>3. Stable(n - 1)
    BY <1>11, <2>1
  <2>4. r[n][s \ {Max(s)}] = r[n - 1][s \ {Max(s)}]
    BY <2>1, <2>2, <2>3, Zenon
  <2> QED BY <1>7, <1>12, <2>1, <2>4
<1>13. r[n] \in T /\ r[n][{}] = base
  <2>1. n \in 0..n
    OBVIOUS
  <2> HIDE DEF T
  <2> QED BY <1>5, <1>8, <2>1
<1>14. IsFold(r[n], n, S, base, step)
  BY <1>12, <1>13 DEF IsFold
<1> QED BY <1>14
=============================================================================
