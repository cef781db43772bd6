----------------------------- MODULE InputProofs -----------------------------
(***************************************************************************)
(* Proofs about module Inputs, for every environment, document and path    *)
(* and any number of pushes.  What the recursive functions Named,          *)
(* FlattenSeq and LookupString compute is proved by induction over sets of *)
(* numbers; that such functions exist, from Recursion.                     *)
(***************************************************************************)
EXTENDS InputProps, SequenceTheorems, FiniteSetTheorems, TLAPS

-----------------------------------------------------------------------------
(* Induction.                                                              *)

(* Numbers are well-founded. *)
LEMMA LeastNumber ==
    ASSUME NEW S \in SUBSET Nat, S # {}
    PROVE  \E n \in S : \A m \in S : n <= m
<1> DEFINE Less == OpToRel(<, Nat)
<1>1. IsWellFoundedOn(Less, Nat)
  BY NatLessThanWellFounded
<1>2. \A m, n \in Nat : m < n => <<m, n>> \in Less
  BY DEF OpToRel
<1> HIDE DEF Less
<1>3. PICK n \in S : \A m \in S : <<m, n>> \notin Less
  BY <1>1, WFMin
<1>4. \A m \in S : ~(m < n) /\ m \in Nat /\ n \in Nat
  BY <1>2, <1>3
<1> QED BY <1>4

(* Induction, stated of a set instead of a predicate. *)
LEMMA Induction ==
    ASSUME NEW S, 0 \in S, \A n \in Nat : n \in S => n + 1 \in S
    PROVE  Nat \subseteq S
<1> DEFINE T == {n \in Nat : n \notin S}
<1> SUFFICES ASSUME T # {} PROVE FALSE
  OBVIOUS
<1>1. PICK n \in T : \A m \in T : n <= m
  BY LeastNumber
<1>2. n \in Nat /\ n # 0
  OBVIOUS
<1>3. n - 1 \in Nat /\ n - 1 \notin T
  BY <1>1, <1>2
<1> QED BY <1>2, <1>3

Chain(f, first, step, N) == f[0] = first /\ \A n \in 1..N : f[n] = step[n][f[n - 1]]

(* A function can be defined from one number to the next. *)
LEMMA Recursion ==
    ASSUME NEW N \in Nat, NEW T, NEW first \in T, NEW step \in [1..N -> [T -> T]]
    PROVE  \E f \in [0..N -> T] : Chain(f, first, step, N)
<1> DEFINE S == {m \in Nat : m <= N => \E f \in [0..m -> T] : Chain(f, first, step, m)}
<1>1. 0 \in S
  <2> DEFINE f == [n \in 0..0 |-> first]
  <2>1. f \in [0..0 -> T] /\ f[0] = first
    OBVIOUS
  <2> HIDE DEF f
  <2>2. Chain(f, first, step, 0)
    BY <2>1 DEF Chain
  <2> QED BY <2>1, <2>2
<1>2. ASSUME NEW m \in Nat, m \in S PROVE m + 1 \in S
  <2>1. SUFFICES ASSUME m + 1 <= N PROVE \E g \in [0..(m + 1) -> T] : Chain(g, first, step, m + 1)
    OBVIOUS
  <2>2. m <= N
    BY <2>1
  <2>3. PICK f \in [0..m -> T] : Chain(f, first, step, m)
    BY <1>2, <2>2
  <2> DEFINE g == [n \in 0..(m + 1) |-> IF n <= m THEN f[n] ELSE step[m + 1][f[m]]]
  <2>4. f[m] \in T /\ m + 1 \in 1..N
    BY <2>1
  <2>5. step[m + 1][f[m]] \in T
    BY <2>4
  <2>6. g \in [0..(m + 1) -> T]
    BY <2>5
  <2>7. \A n \in 0..m : g[n] = f[n]
    OBVIOUS
  <2>8. g[m + 1] = step[m + 1][f[m]]
    OBVIOUS
  <2> HIDE DEF g
  <2>9. ASSUME NEW n \in 1..(m + 1) PROVE g[n] = step[n][g[n - 1]]
    <3>1. CASE n = m + 1
      BY <2>7, <2>8, <3>1
    <3>2. CASE n \in 1..m
      BY <2>3, <2>7, <3>2 DEF Chain
    <3> QED BY <3>1, <3>2
  <2>10. g[0] = first
    BY <2>3, <2>7 DEF Chain
  <2>11. Chain(g, first, step, m + 1)
    BY <2>9, <2>10 DEF Chain
  <2> QED BY <2>6, <2>11
<1> HIDE DEF S
<1>3. Nat \subseteq S
  BY <1>1, <1>2, Induction
<1> QED BY <1>3 DEF S

(* What holds of a number if it holds of all above it. *)
LEMMA InductionDown ==
    ASSUME NEW N \in Nat, NEW S,
           \A n \in 0..(N - 1) : (\A m \in (n + 1)..(N - 1) : m \in S) => n \in S
    PROVE  0..(N - 1) \subseteq S
<1> DEFINE T == {k \in Nat : k < N /\ N - 1 - k \notin S}
<1> SUFFICES ASSUME NEW n \in 0..(N - 1), n \notin S PROVE FALSE
  OBVIOUS
<1>1. N - 1 - n \in T
  <2>1. N - 1 - (N - 1 - n) = n
    OBVIOUS
  <2> QED BY <2>1
<1>2. PICK k \in T : \A j \in T : k <= j
  BY <1>1, LeastNumber
<1>3. N - 1 - k \in 0..(N - 1) /\ N - 1 - k \notin S
  BY <1>2
<1>4. ASSUME NEW m \in (N - 1 - k + 1)..(N - 1) PROVE m \in S
  <2>1. N - 1 - m \in Nat /\ N - 1 - m < k /\ N - 1 - m < N /\ N - 1 - (N - 1 - m) = m
    BY <1>2
  <2>2. N - 1 - m \notin T
    BY <1>2, <2>1
  <2> QED BY <2>1, <2>2
<1> QED BY <1>3, <1>4

LEMMA SequenceInduction ==
    ASSUME NEW A, NEW S, <<>> \in S,
           \A s \in Seq(A), e \in A : s \in S => Append(s, e) \in S
    PROVE  Seq(A) \subseteq S
<1> DEFINE T == {n \in Nat : \A s \in Seq(A) : Len(s) = n => s \in S}
<1>1. 0 \in T
  <2>1. \A s \in Seq(A) : Len(s) = 0 => s = <<>>
    BY EmptySeq
  <2> QED BY <2>1
<1>2. ASSUME NEW n \in Nat, n \in T PROVE n + 1 \in T
  <2>1. SUFFICES ASSUME NEW s \in Seq(A), Len(s) = n + 1 PROVE s \in S
    OBVIOUS
  <2>2. s # <<>>
    BY <2>1
  <2>3. PICK t \in Seq(A), e \in A : s = Append(t, e)
    BY <2>2, SequenceEmptyOrAppend
  <2>4. Len(t) = n
    <3>1. Len(s) = Len(t) + 1 /\ Len(t) \in Nat
      BY <2>3, AppendProperties
    <3> QED BY <2>1, <3>1
  <2> QED BY <1>2, <2>3, <2>4
<1>3. Nat \subseteq T
  <2> HIDE DEF T
  <2> QED BY <1>1, <1>2, Induction
<1>4. ASSUME NEW s \in Seq(A) PROVE s \in S
  <2>1. Len(s) \in Nat
    OBVIOUS
  <2> QED BY <1>3, <2>1
<1> QED BY <1>4

-----------------------------------------------------------------------------
(* KeyPaths, which are sequences of keys, which are sequences of parts.      *)

(* What FlattenSeq computes. *)
Flattens(f, seqs) ==
    f = [i \in 1..Len(seqs) |-> IF i = 1 THEN seqs[i] ELSE f[i - 1] \o seqs[i]]

Flattening(f, seqs) ==
    /\ FlattenSeq(seqs) = f[Len(seqs)]
    /\ f[1] = seqs[1]
    /\ \A i \in 2..Len(seqs) : f[i] = f[i - 1] \o seqs[i]

(* The function by which FlattenSeq is defined exists. *)
LEMMA FlattenExists ==
    ASSUME NEW A, NEW seqs \in Seq(Seq(A)), seqs # <<>>
    PROVE  \E f \in [1..Len(seqs) -> Seq(A)] : Flattening(f, seqs)
<1> DEFINE N == Len(seqs)
           T == Seq(A)
           step == [i \in 1..(N - 1) |-> [s \in T |-> s \o seqs[i + 1]]]
           f == CHOOSE g : Flattens(g, seqs)
<1>1. N \in Nat \ {0} /\ \A i \in 1..N : seqs[i] \in T
  BY EmptySeq
<1>2. FlattenSeq(seqs) = f[N]
  BY <1>1 DEF FlattenSeq, Flattens
<1>3. \A s, t \in T : s \o t \in T
  BY ConcatProperties
<1> HIDE DEF N, T
<1>4. step \in [1..(N - 1) -> [T -> T]]
  BY <1>1, <1>3
<1>5. \A i \in 1..(N - 1), s \in T : step[i][s] = s \o seqs[i + 1]
  OBVIOUS
<1> HIDE DEF step
<1>6. PICK c \in [0..(N - 1) -> T] : Chain(c, seqs[1], step, N - 1)
  <2> DEFINE M == N - 1
             first == seqs[1]
  <2>1. M \in Nat /\ first \in T /\ step \in [1..M -> [T -> T]]
    BY <1>1, <1>4
  <2> HIDE DEF M, first
  <2>2. \E c \in [0..M -> T] : Chain(c, first, step, M)
    BY <2>1, Recursion
  <2> QED BY <2>2 DEF M, first
<1> DEFINE g == [i \in 1..N |-> c[i - 1]]
<1>7. g \in [1..N -> T]
  BY <1>1, <1>6
<1>8. g[1] = seqs[1]
  BY <1>1, <1>6 DEF Chain
<1>9. ASSUME NEW i \in 2..N PROVE g[i] = g[i - 1] \o seqs[i]
  <2>1. i - 1 \in 1..(N - 1) /\ i - 2 \in 0..(N - 1) /\ i \in 1..N /\ i - 1 \in 1..N
    BY <1>1
  <2>2. g[i] = c[i - 1] /\ g[i - 1] = c[i - 2]
    BY <2>1
  <2>3. c[i - 1] = step[i - 1][c[i - 2]]
    <3>1. (i - 1) - 1 = i - 2
      BY <2>1
    <3> QED BY <1>6, <2>1, <3>1 DEF Chain
  <2>4. c[i - 2] \in T
    BY <1>6, <2>1
  <2>5. (i - 1) + 1 = i
    BY <2>1
  <2> QED BY <1>5, <2>1, <2>2, <2>3, <2>4, <2>5
<1> HIDE DEF g
<1>10. Flattens(g, seqs)
  <2>1. g = [i \in 1..N |-> g[i]]
    BY <1>7
  <2>2. \A i \in 1..N : g[i] = IF i = 1 THEN seqs[i] ELSE g[i - 1] \o seqs[i]
    <3>1. \A i \in 1..N : i = 1 \/ (i # 1 /\ i \in 2..N)
      BY <1>1
    <3> QED BY <1>8, <1>9, <3>1
  <2> QED BY <2>1, <2>2 DEF Flattens, N
<1>11. Flattens(f, seqs)
  BY <1>10
<1> HIDE DEF f
<1>12. \A i \in 1..N : f[i] = IF i = 1 THEN seqs[i] ELSE f[i - 1] \o seqs[i]
  BY <1>11 DEF Flattens, N
<1>13. f[1] = seqs[1] /\ \A i \in 2..N : f[i] = f[i - 1] \o seqs[i]
  <2>1. 1 \in 1..N /\ \A i \in 2..N : i \in 1..N /\ i # 1
    BY <1>1
  <2> QED BY <1>12, <2>1
<1>14. f \in [1..N -> T]
  <2>1. f = [i \in 1..N |-> f[i]]
    BY <1>11 DEF Flattens, N
  <2> DEFINE S == {i \in Nat : i + 1 \in 1..N => f[i + 1] \in T}
  <2>2. 0 \in S
    BY <1>1, <1>13
  <2>3. ASSUME NEW i \in Nat, i \in S PROVE i + 1 \in S
    <3>1. SUFFICES ASSUME i + 2 \in 1..N PROVE f[i + 2] \in T
      <4>1. (i + 1) + 1 = i + 2
        OBVIOUS
      <4> QED BY <4>1
    <3>2. i + 2 \in 2..N /\ i + 1 \in 1..N /\ (i + 2) - 1 = i + 1
      BY <1>1, <3>1
    <3>3. f[i + 1] \in T /\ seqs[i + 2] \in T
      BY <1>1, <2>3, <3>1, <3>2
    <3>4. f[i + 2] = f[i + 1] \o seqs[i + 2]
      BY <1>13, <3>2
    <3> QED BY <1>3, <3>3, <3>4
  <2> HIDE DEF S
  <2>4. Nat \subseteq S
    BY <2>2, <2>3, Induction
  <2>5. ASSUME NEW i \in 1..N PROVE f[i] \in T
    <3>1. i - 1 \in S /\ (i - 1) + 1 = i
      BY <1>1, <2>4
    <3> QED BY <3>1 DEF S
  <2> QED BY <2>1, <2>5
<1>15. Flattening(f, seqs)
  BY <1>2, <1>13 DEF Flattening, N
<1> QED BY <1>14, <1>15 DEF N, T

LEMMA FlattenEmpty == FlattenSeq(<<>>) = <<>>
BY DEF FlattenSeq

LEMMA FlattenIsSeq ==
    ASSUME NEW A, NEW seqs \in Seq(Seq(A))
    PROVE  FlattenSeq(seqs) \in Seq(A)
<1>1. CASE seqs = <<>>
  BY <1>1, EmptySeq, FlattenEmpty
<1>2. CASE seqs # <<>>
  <2>1. Len(seqs) \in 1..Len(seqs)
    BY <1>2, EmptySeq
  <2>2. PICK f \in [1..Len(seqs) -> Seq(A)] : Flattening(f, seqs)
    BY <1>2, FlattenExists
  <2>3. f[Len(seqs)] \in Seq(A)
    BY <2>1
  <2> QED BY <2>2, <2>3 DEF Flattening
<1> QED BY <1>1, <1>2

(* One more key spells on. *)
LEMMA FlattenAppend ==
    ASSUME NEW A, NEW seqs \in Seq(Seq(A)), NEW s \in Seq(A)
    PROVE  FlattenSeq(Append(seqs, s)) = FlattenSeq(seqs) \o s
<1> DEFINE all == Append(seqs, s)
           N == Len(seqs)
<1>1. /\ all \in Seq(Seq(A)) /\ all # <<>> /\ Len(all) = N + 1 /\ N \in Nat
      /\ all[N + 1] = s /\ \A i \in 1..N : all[i] = seqs[i]
  BY AppendProperties
<1> HIDE DEF all
<1>2. PICK f : /\ FlattenSeq(all) = f[N + 1] /\ f[1] = all[1]
               /\ \A i \in 2..(N + 1) : f[i] = f[i - 1] \o all[i]
  <2>1. PICK f \in [1..Len(all) -> Seq(A)] : Flattening(f, all)
    BY <1>1, FlattenExists
  <2>2. Len(all) = N + 1
    BY <1>1
  <2> HIDE DEF N
  <2> QED BY <2>1, <2>2 DEF Flattening
<1>3. CASE seqs = <<>>
  <2>1. N = 0
    BY <1>3
  <2>2. <<>> \o s = s
    BY ConcatEmptySeq
  <2>3. FlattenSeq(all) = s
    BY <1>1, <1>2, <2>1
  <2> QED BY <1>3, <2>2, <2>3, FlattenEmpty DEF all
<1>4. CASE seqs # <<>>
  <2>1. PICK g : /\ FlattenSeq(seqs) = g[N] /\ g[1] = seqs[1]
                 /\ \A i \in 2..N : g[i] = g[i - 1] \o seqs[i]
    <3>1. PICK g \in [1..Len(seqs) -> Seq(A)] : Flattening(g, seqs)
      BY <1>4, FlattenExists
    <3> QED BY <3>1 DEF Flattening
  <2>2. N >= 1
    BY <1>1, <1>4, EmptySeq
  <2> HIDE DEF N
  <2> DEFINE S == {i \in Nat : i + 1 \in 1..N => f[i + 1] = g[i + 1]}
  <2>3. 0 \in S
    <3>1. 1 \in 1..N
      BY <1>1, <2>2
    <3> QED BY <1>1, <1>2, <2>1, <3>1
  <2>4. ASSUME NEW i \in Nat, i \in S PROVE i + 1 \in S
    <3>1. SUFFICES ASSUME i + 2 \in 1..N PROVE f[i + 2] = g[i + 2]
      <4>1. (i + 1) + 1 = i + 2
        OBVIOUS
      <4> QED BY <4>1
    <3>2. /\ i + 2 \in 2..N /\ i + 2 \in 2..(N + 1) /\ i + 1 \in 1..N
          /\ (i + 2) - 1 = i + 1
      BY <1>1, <3>1
    <3>3. f[i + 2] = f[i + 1] \o all[i + 2] /\ g[i + 2] = g[i + 1] \o seqs[i + 2]
      BY <1>2, <2>1, <3>2
    <3>4. f[i + 1] = g[i + 1] /\ all[i + 2] = seqs[i + 2]
      BY <1>1, <2>4, <3>1, <3>2
    <3> QED BY <3>3, <3>4
  <2> HIDE DEF S
  <2>5. Nat \subseteq S
    BY <2>3, <2>4, Induction
  <2>6. f[N] = g[N]
    <3>1. N - 1 \in S /\ (N - 1) + 1 = N /\ N \in 1..N
      BY <1>1, <2>2, <2>5
    <3> QED BY <3>1 DEF S
  <2>7. f[N + 1] = f[N] \o s
    <3>1. N + 1 \in 2..(N + 1) /\ (N + 1) - 1 = N
      BY <1>1, <2>2
    <3> QED BY <1>1, <1>2, <3>1
  <2> QED BY <1>2, <2>1, <2>6, <2>7 DEF all
<1> QED BY <1>3, <1>4

LEMMA SubSeqOfAppend ==
    ASSUME NEW A, NEW seq \in Seq(A), NEW e \in A, NEW l \in 0..Len(seq)
    PROVE  SubSeq(Append(seq, e), 1, l) = SubSeq(seq, 1, l)
<1> DEFINE all == Append(seq, e)
           s == SubSeq(all, 1, l)
           t == SubSeq(seq, 1, l)
<1>1. \A i \in 1..l : all[i] = seq[i] /\ seq[i] \in A
  BY AppendProperties
<1>2. l \in Int /\ 1 \in Int /\ l >= 0
  OBVIOUS
<1> HIDE DEF all
<1>3. /\ t \in Seq(A) /\ Len(t) = IF 1 <= l THEN l - 1 + 1 ELSE 0
      /\ \A i \in 1..(l - 1 + 1) : t[i] = seq[1 + i - 1]
  BY <1>1, <1>2, SubSeqProperties
<1>4. /\ s \in Seq(A) /\ Len(s) = IF 1 <= l THEN l - 1 + 1 ELSE 0
      /\ \A i \in 1..(l - 1 + 1) : s[i] = all[1 + i - 1]
  <2>1. \A i \in 1..l : all[i] \in A
    BY <1>1
  <2> QED BY <1>2, <2>1, SubSeqProperties
<1> HIDE DEF s, t
<1>5. Len(s) = l /\ Len(t) = l
  BY <1>2, <1>3, <1>4
<1>6. ASSUME NEW i \in 1..l PROVE s[i] = t[i]
  <2>1. i \in 1..(l - 1 + 1) /\ 1 + i - 1 = i
    OBVIOUS
  <2> QED BY <1>1, <1>3, <1>4, <2>1
<1>7. s = t
  BY <1>3, <1>4, <1>5, <1>6, SeqEqual
<1> QED BY <1>7 DEF s, t, all

(* What a place spells begins with what the places above it spell. *)
LEMMA FlattenPrefix ==
    ASSUME NEW A, NEW seqs \in Seq(Seq(A)), NEW l \in 0..Len(seqs)
    PROVE  \E t \in Seq(A) : FlattenSeq(seqs) = FlattenSeq(SubSeq(seqs, 1, l)) \o t
<1> DEFINE Begins(q, k) == \E t \in Seq(A) : FlattenSeq(q) = FlattenSeq(SubSeq(q, 1, k)) \o t
           S == {q \in Seq(Seq(A)) : \A k \in 0..Len(q) : Begins(q, k)}
<1>1. ASSUME NEW q \in Seq(Seq(A)) PROVE Begins(q, Len(q))
  <2>1. SubSeq(q, 1, Len(q)) = q
    BY SubSeqFull
  <2>2. FlattenSeq(q) \in Seq(A) /\ <<>> \in Seq(A)
    BY EmptySeq, FlattenIsSeq
  <2>3. FlattenSeq(q) = FlattenSeq(q) \o <<>>
    BY <2>2, ConcatEmptySeq
  <2> QED BY <2>1, <2>2, <2>3
<1>2. <<>> \in S
  <2>1. <<>> \in Seq(Seq(A)) /\ \A k \in 0..Len(<<>>) : k = Len(<<>>)
    BY EmptySeq
  <2> HIDE DEF Begins
  <2> QED BY <1>1, <2>1
<1>3. ASSUME NEW q \in Seq(Seq(A)), NEW e \in Seq(A), q \in S PROVE Append(q, e) \in S
  <2>1. Append(q, e) \in Seq(Seq(A)) /\ Len(Append(q, e)) = Len(q) + 1 /\ Len(q) \in Nat
    BY AppendProperties
  <2>2. ASSUME NEW k \in 0..Len(q) PROVE Begins(Append(q, e), k)
    <3>1. PICK t \in Seq(A) : FlattenSeq(q) = FlattenSeq(SubSeq(q, 1, k)) \o t
      BY <1>3
    <3>2. SubSeq(q, 1, k) \in Seq(Seq(A))
      OBVIOUS
    <3>3. FlattenSeq(SubSeq(q, 1, k)) \in Seq(A)
      BY <3>2, FlattenIsSeq
    <3>4. FlattenSeq(Append(q, e)) = FlattenSeq(q) \o e
      BY FlattenAppend
    <3>5. (FlattenSeq(SubSeq(q, 1, k)) \o t) \o e = FlattenSeq(SubSeq(q, 1, k)) \o (t \o e)
      BY <3>3, ConcatAssociative
    <3>6. t \o e \in Seq(A)
      BY ConcatProperties
    <3>7. SubSeq(Append(q, e), 1, k) = SubSeq(q, 1, k)
      BY SubSeqOfAppend
    <3> QED BY <3>1, <3>4, <3>5, <3>6, <3>7
  <2> HIDE DEF Begins
  <2>3. \A k \in 0..(Len(q) + 1) : k \in 0..Len(q) \/ k = Len(q) + 1
    BY <2>1
  <2> QED BY <1>1, <2>1, <2>2, <2>3
<1>4. seqs \in S
  <2> HIDE DEF S
  <2>1. Seq(Seq(A)) \subseteq S
    BY <1>2, <1>3, SequenceInduction
  <2> QED BY <2>1
<1> QED BY <1>4

LEMMA Middle ==
    ASSUME NEW A, NEW head \in Seq(A), NEW key \in Seq(A), key # <<>>, NEW t \in Seq(A)
    PROVE  /\ Len((head \o key) \o t) = Len(head) + Len(key) + Len(t)
           /\ SubSeq((head \o key) \o t, Len(head) + 1, Len(head) + Len(key)) = key
<1> DEFINE start == head \o key
           path == start \o t
           m == Len(head) + 1
           n == Len(head) + Len(key)
<1>1. Len(head) \in Nat /\ Len(key) \in Nat \ {0} /\ Len(t) \in Nat
  BY EmptySeq
<1>2. start \in Seq(A) /\ Len(start) = n
  BY ConcatProperties
<1>3. Len(path) = Len(start) + Len(t)
  <2> HIDE DEF start
  <2> QED BY <1>2, ConcatProperties
<1>4. m \in 1..n /\ n \in 1..n /\ m \in (Len(head) + 1)..n /\ n \in (Len(head) + 1)..n
      /\ m - Len(head) = 1 /\ n - Len(head) = Len(key)
  BY <1>1
<1>5. SubSeq(path, m, n) = SubSeq(start, m, n)
  <2> HIDE DEF start, m, n
  <2> QED BY <1>2, <1>4, SubSeqOfConcat1
<1>6. SubSeq(start, m, n) = SubSeq(key, m - Len(head), n - Len(head))
  BY <1>4, SubSeqOfConcat2
<1>7. SubSeq(key, 1, Len(key)) = key
  BY SubSeqFull
<1> HIDE DEF m, n, path
<1>8. SubSeq(path, m, n) = key
  BY <1>4, <1>5, <1>6, <1>7
<1> HIDE DEF start
<1>9. Len(path) = n + Len(t)
  BY <1>2, <1>3
<1> QED BY <1>8, <1>9 DEF m, n, path, start

(* Where the keys of a place, read from its l-th on, have led n parts into *)
(* the path, the next key is what follows in the path.                     *)
LeadsOn(place, path, l, n, m) ==
    /\ l < Len(place)
    /\ SubSeq(place, 1, l + 1) = Append(SubSeq(place, 1, l), SubSeq(path, n + 1, m))
    /\ FlattenSeq(SubSeq(place, 1, l + 1)) = SubSeq(path, 1, m)

LEMMA NextKey ==
    ASSUME NEW A, NEW path \in Seq(A), NEW place \in Seq(Seq(A)), FlattenSeq(place) = path,
           \A i \in 1..Len(place) : place[i] # <<>>,
           NEW l \in 0..Len(place), NEW n \in 0..(Len(path) - 1),
           FlattenSeq(SubSeq(place, 1, l)) = SubSeq(path, 1, n)
    PROVE  \E m \in (n + 1)..Len(path) : LeadsOn(place, path, l, n, m)
<1> DEFINE N == Len(path)
           above == SubSeq(place, 1, l)
           key == place[l + 1]
           m == n + Len(key)
<1>1. N \in Nat /\ n \in Nat /\ n < N /\ Len(place) \in Nat /\ l \in Nat
  OBVIOUS
<1>2. SubSeq(path, 1, n) \in Seq(A) /\ Len(SubSeq(path, 1, n)) = n
  <2>1. \A i \in 1..n : path[i] \in A
    OBVIOUS
  <2>2. 1 \in Int /\ n \in Int /\ n - 1 + 1 = n /\ (~(1 <= n) => n = 0)
    OBVIOUS
  <2> QED BY <2>1, <2>2, SubSeqProperties
<1>3. l < Len(place)
  <2> SUFFICES ASSUME l = Len(place) PROVE FALSE
    BY <1>1
  <2>1. SubSeq(place, 1, l) = place
    BY SubSeqFull
  <2>2. Len(path) = n
    BY <1>2, <2>1
  <2> QED BY <1>1, <2>2
<1>4. l + 1 \in 1..Len(place) /\ key \in Seq(A) /\ key # <<>> /\ Len(key) \in Nat \ {0}
  <2>1. l + 1 \in 1..Len(place)
    BY <1>1, <1>3
  <2>2. key \in Seq(A) /\ key # <<>>
    BY <2>1
  <2> QED BY <2>1, <2>2, EmptySeq
<1>5. above \in Seq(Seq(A))
  OBVIOUS
<1>6. SubSeq(place, 1, l + 1) = Append(above, key)
  <2>1. 1 \in 1..Len(place) /\ l + 1 \in 1..Len(place) /\ (l + 1) - 1 = l
    BY <1>1, <1>4
  <2>2. SubSeq(place, 1, l + 1) = above \o <<key>>
    BY <2>1, SubSeqRecursiveSecond
  <2>3. Append(above, key) = above \o <<key>>
    BY <1>4, <1>5, AppendIsConcat
  <2> QED BY <2>2, <2>3
<1>7. FlattenSeq(SubSeq(place, 1, l + 1)) = SubSeq(path, 1, n) \o key
  BY <1>4, <1>5, <1>6, FlattenAppend
<1>8. PICK t \in Seq(A) : path = FlattenSeq(SubSeq(place, 1, l + 1)) \o t
  <2>1. l + 1 \in 0..Len(place)
    BY <1>4
  <2> QED BY <2>1, FlattenPrefix
<1> HIDE DEF key, N, above
<1>9. N = n + Len(key) + Len(t) /\ SubSeq(path, n + 1, n + Len(key)) = key
  <2> DEFINE head == SubSeq(path, 1, n)
  <2>1. head \in Seq(A) /\ Len(head) = n /\ path = (head \o key) \o t
    BY <1>2, <1>7, <1>8
  <2> HIDE DEF head
  <2>2. /\ Len((head \o key) \o t) = Len(head) + Len(key) + Len(t)
        /\ SubSeq((head \o key) \o t, Len(head) + 1, Len(head) + Len(key)) = key
    <3>1. key \in Seq(A) /\ key # <<>>
      BY <1>4
    <3>2. head \in Seq(A)
      BY <2>1
    <3> QED BY <3>1, <3>2, Middle
  <2> QED BY <2>1, <2>2 DEF N
<1>10. Len(t) \in Nat
  OBVIOUS
<1>11. m \in (n + 1)..N
  BY <1>1, <1>4, <1>9, <1>10
<1>12. key = SubSeq(path, n + 1, m)
  BY <1>9
<1>13. SubSeq(path, 1, n) \o SubSeq(path, n + 1, m) = SubSeq(path, 1, m)
  <2>1. 1 \in 1..(Len(path) + 1) /\ n \in (1 - 1)..Len(path) /\ m \in n..Len(path)
    BY <1>1, <1>11 DEF N
  <2> HIDE DEF m
  <2> QED BY <2>1, ConcatAdjacentSubSeq
<1> HIDE DEF m
<1>14. LeadsOn(place, path, l, n, m)
  BY <1>3, <1>6, <1>7, <1>12, <1>13 DEF LeadsOn, above
<1> QED BY <1>11, <1>14 DEF N

-----------------------------------------------------------------------------
(* Documents.                                                              *)

KeyPaths == Seq(Seq(STRING))

Texts == {"empty", "blank", "text"}

Tables(path) == [0..Len(path) -> [KeyPaths -> Texts]]

(* What is found from a place on, to which n parts of the path have led,   *)
(* if value says what is found further down.                               *)
Further(path, value, n, place, m) == value[m][Append(place, SubSeq(path, n + 1, m))]

Holding(path, value, n, place) ==
    {m \in (n + 1)..(Len(path) - 1) : Further(path, value, n, place, m) # "empty"}

FoundFrom(doc, path, value, n, place) ==
    LET flat    == Append(place, SubSeq(path, n + 1, Len(path)))
        holding == Holding(path, value, n, place)
    IN  IF Holds(doc, flat) THEN Flat(doc, flat)
        ELSE IF holding = {} THEN "empty" ELSE Further(path, value, n, place, Min(holding))

IsTable(doc, path, value) ==
    value = [n \in 0..Len(path) |-> [place \in KeyPaths |-> FoundFrom(doc, path, value, n, place)]]

LEMMA FlatIsText == \A doc, place : Flat(doc, place) \in Texts
BY DEF Flat, Stringify, Texts

LEMMA MinIsMember ==
    ASSUME NEW S \in SUBSET Nat, S # {}
    PROVE  Min(S) \in S
BY LeastNumber DEF Min

LEMMA FurtherIsText ==
    ASSUME NEW path \in Seq(STRING), NEW value \in Tables(path), NEW place \in KeyPaths,
           NEW n \in 0..Len(path), NEW m \in (n + 1)..Len(path)
    PROVE  /\ Append(place, SubSeq(path, n + 1, m)) \in KeyPaths
           /\ Further(path, value, n, place, m) \in Texts
<1>1. SubSeq(path, n + 1, m) \in Seq(STRING)
  <2>1. \A i \in (n + 1)..m : path[i] \in STRING
    OBVIOUS
  <2>2. n + 1 \in Int /\ m \in Int
    OBVIOUS
  <2> QED BY <2>1, <2>2, SubSeqProperties
<1>2. Append(place, SubSeq(path, n + 1, m)) \in KeyPaths
  BY <1>1, AppendProperties DEF KeyPaths
<1>3. m \in 0..Len(path)
  OBVIOUS
<1> QED BY <1>2, <1>3 DEF Tables, Further

LEMMA HoldingIsBelow ==
    ASSUME NEW path \in Seq(STRING), NEW value, NEW place, NEW n \in 0..Len(path),
           Holding(path, value, n, place) # {}
    PROVE  /\ Min(Holding(path, value, n, place)) \in Holding(path, value, n, place)
           /\ Min(Holding(path, value, n, place)) \in (n + 1)..(Len(path) - 1)
<1>1. Holding(path, value, n, place) \subseteq (n + 1)..(Len(path) - 1)
  BY DEF Holding
<1>2. Holding(path, value, n, place) \in SUBSET Nat
  BY <1>1
<1> QED BY <1>1, <1>2, MinIsMember

LEMMA FoundFromIsText ==
    ASSUME NEW doc, NEW path \in Seq(STRING), NEW value \in Tables(path),
           NEW place \in KeyPaths, NEW n \in 0..Len(path)
    PROVE  FoundFrom(doc, path, value, n, place) \in Texts
<1> DEFINE holding == Holding(path, value, n, place)
<1>1. ASSUME holding # {} PROVE Further(path, value, n, place, Min(holding)) \in Texts
  <2>1. Min(holding) \in (n + 1)..Len(path)
    BY <1>1, HoldingIsBelow
  <2> HIDE DEF holding
  <2> QED BY <2>1, FurtherIsText
<1> QED BY <1>1, FlatIsText DEF FoundFrom, Texts

(* What is found depends on what is below. *)
LEMMA FoundFromBelow ==
    ASSUME NEW doc, NEW path \in Seq(STRING), NEW value, NEW other, NEW place,
           NEW n \in 0..Len(path), \A m \in (n + 1)..(Len(path) - 1) : value[m] = other[m]
    PROVE  FoundFrom(doc, path, value, n, place) = FoundFrom(doc, path, other, n, place)
<1>1. \A m \in (n + 1)..(Len(path) - 1) :
          Further(path, value, n, place, m) = Further(path, other, n, place, m)
  BY DEF Further
<1>2. Holding(path, value, n, place) = Holding(path, other, n, place)
  BY <1>1 DEF Holding
<1> DEFINE holding == Holding(path, value, n, place)
<1>3. holding # {} => Further(path, value, n, place, Min(holding))
                       = Further(path, other, n, place, Min(holding))
  BY <1>1, HoldingIsBelow
<1> QED BY <1>2, <1>3 DEF FoundFrom

(* The function by which LookupString is defined exists: its rows are made *)
(* from the last part of the path to the first.                            *)
LEMMA TableExists ==
    ASSUME NEW doc, NEW path \in Seq(STRING)
    PROVE  \E value \in Tables(path) : IsTable(doc, path, value)
<1> DEFINE N == Len(path)
           T == Tables(path)
           first == [n \in 0..N |-> [place \in KeyPaths |-> "empty"]]
           Row(f, n) == [place \in KeyPaths |-> FoundFrom(doc, path, f, n, place)]
           step == [k \in 1..(N + 1) |-> [f \in T |-> [f EXCEPT ![N + 1 - k] = Row(f, N + 1 - k)]]]
<1>1. N \in Nat
  OBVIOUS
<1>2. first \in T
  BY DEF Tables, Texts
<1>3. ASSUME NEW f \in T, NEW n \in 0..N PROVE Row(f, n) \in [KeyPaths -> Texts]
  BY FoundFromIsText
<1>4. ASSUME NEW f \in T, NEW k \in 1..(N + 1) PROVE [f EXCEPT ![N + 1 - k] = Row(f, N + 1 - k)] \in T
  <2>1. N + 1 - k \in 0..N
    BY <1>1
  <2>2. Row(f, N + 1 - k) \in [KeyPaths -> Texts]
    BY <1>3, <2>1
  <2> HIDE DEF Row
  <2> QED BY <2>1, <2>2 DEF Tables
<1> HIDE DEF Row
<1>5. step \in [1..(N + 1) -> [T -> T]]
  <2> HIDE DEF T, N
  <2> QED BY <1>4
<1>6. \A k \in 1..(N + 1), f \in T : step[k][f] = [f EXCEPT ![N + 1 - k] = Row(f, N + 1 - k)]
  <2> HIDE DEF T, N
  <2> QED OBVIOUS
<1> HIDE DEF step, first
<1>7. PICK c \in [0..(N + 1) -> T] : Chain(c, first, step, N + 1)
  <2> DEFINE M == N + 1
  <2>1. M \in Nat /\ step \in [1..M -> [T -> T]]
    BY <1>1, <1>5
  <2> HIDE DEF M, T
  <2>2. \E c \in [0..M -> T] : Chain(c, first, step, M)
    BY <1>2, <2>1, Recursion
  <2> QED BY <2>2 DEF M
<1> HIDE DEF T
<1> DEFINE Done(k) == \A n \in 0..N : n >= N + 1 - k => c[k][n] = Row(c[k], n)
           S == {k \in Nat : k <= N + 1 => Done(k)}
<1>8. 0 \in S
  BY <1>1
<1>9. ASSUME NEW k \in Nat, k \in S PROVE k + 1 \in S
  <2>1. SUFFICES ASSUME k + 1 <= N + 1 PROVE Done(k + 1)
    OBVIOUS
  <2>2. k + 1 \in 1..(N + 1) /\ k \in 0..(N + 1) /\ (k + 1) - 1 = k /\ N + 1 - (k + 1) = N - k
        /\ N - k \in 0..N
    BY <1>1, <2>1
  <2>3. c[k] \in T /\ c[k + 1] \in T
    BY <1>7, <2>2
  <2>4. c[k + 1] = [c[k] EXCEPT ![N - k] = Row(c[k], N - k)]
    <3>1. c[k + 1] = step[k + 1][c[k]]
      BY <1>7, <2>2 DEF Chain
    <3>2. step[k + 1][c[k]] = [c[k] EXCEPT ![N + 1 - (k + 1)] = Row(c[k], N + 1 - (k + 1))]
      BY <1>6, <2>2, <2>3
    <3> QED BY <2>2, <3>1, <3>2
  <2>5. DOMAIN c[k] = 0..N
    BY <2>3 DEF T, Tables
  <2>6. c[k + 1][N - k] = Row(c[k], N - k) /\ \A n \in 0..N : n # N - k => c[k + 1][n] = c[k][n]
    BY <2>2, <2>4, <2>5
  <2>7. ASSUME NEW n \in 0..N, n >= N - k PROVE Row(c[k + 1], n) = Row(c[k], n)
    <3>1. \A m \in (n + 1)..(Len(path) - 1) : c[k][m] = c[k + 1][m]
      BY <1>1, <2>2, <2>6, <2>7
    <3> HIDE DEF N
    <3>2. \A place \in KeyPaths : FoundFrom(doc, path, c[k + 1], n, place)
                                = FoundFrom(doc, path, c[k], n, place)
      BY <2>7, <3>1, FoundFromBelow DEF N
    <3> QED BY <3>2 DEF Row
  <2>8. ASSUME NEW n \in 0..N, n >= N + 1 - (k + 1) PROVE c[k + 1][n] = Row(c[k + 1], n)
    <3>1. n >= N - k
      BY <2>2, <2>8
    <3>2. CASE n = N - k
      BY <2>6, <2>7, <3>1, <3>2
    <3>3. CASE n # N - k
      <4>1. n >= N + 1 - k
        BY <1>1, <3>1, <3>3
      <4>2. c[k][n] = Row(c[k], n)
        BY <1>1, <1>9, <2>1, <4>1
      <4> QED BY <2>6, <2>7, <3>1, <3>3, <4>2
    <3> QED BY <3>2, <3>3
  <2> QED BY <2>8
<1> HIDE DEF S
<1>10. Done(N + 1)
  <2>1. N + 1 \in S
    BY <1>1, <1>8, <1>9, Induction
  <2> QED BY <1>1, <2>1 DEF S
<1> DEFINE value == c[N + 1]
<1>11. value \in T
  BY <1>1, <1>7
<1>12. \A n \in 0..N : value[n] = Row(value, n)
  BY <1>1, <1>10
<1> HIDE DEF value
<1>13. IsTable(doc, path, value)
  <2>1. value = [n \in 0..N |-> value[n]]
    BY <1>11 DEF T, Tables
  <2> QED BY <1>12, <2>1 DEF IsTable, Row
<1> QED BY <1>11, <1>13 DEF T

(* What is looked up is the value of a function that obeys its definition. *)
LEMMA LookupTable ==
    ASSUME NEW doc, NEW path \in Seq(STRING)
    PROVE  \E value :
               /\ LookupString(doc, path) = value[0][<<>>]
               /\ \A n \in 0..Len(path), place \in KeyPaths :
                      value[n][place] = FoundFrom(doc, path, value, n, place)
<1> DEFINE value == CHOOSE f : IsTable(doc, path, f)
<1>1. LookupString(doc, path) = value[0][<<>>]
  BY DEF LookupString, IsTable, FoundFrom, Further, Holding, KeyPaths
<1>2. IsTable(doc, path, value)
  <2>1. \E f : IsTable(doc, path, f)
    BY TableExists
  <2> QED BY <2>1
<1> HIDE DEF value
<1>3. \A n \in 0..Len(path), place \in KeyPaths :
          value[n][place] = FoundFrom(doc, path, value, n, place)
  BY <1>2 DEF IsTable
<1> QED BY <1>1, <1>3

(* A place that a document has, or has something below. *)
LEMMA HoldsPrefix ==
    ASSUME NEW doc \in Hits, NEW place \in KeyPaths, NEW l \in 0..Len(place), Holds(doc, place)
    PROVE  Holds(doc, SubSeq(place, 1, l))
<1>1. PICK q \in DOMAIN doc : IsPrefix(place, q)
  BY DEF Holds
<1>2. q \in KeyPaths
  BY HitsAssumption DEF KeyPaths
<1> DEFINE above == SubSeq(place, 1, l)
<1>3. Len(place) \in Nat /\ Len(q) \in Nat /\ Len(place) <= Len(q)
  BY <1>1, <1>2 DEF IsPrefix, KeyPaths
<1>4. place = SubSeq(q, 1, Len(place))
  <2>1. SubSeq(place, 1, Len(place)) = place
    BY SubSeqFull DEF KeyPaths
  <2> QED BY <1>1, <2>1 DEF IsPrefix
<1>5. above \in KeyPaths /\ Len(above) = l
  <2>1. \A i \in 1..l : place[i] \in Seq(STRING)
    BY DEF KeyPaths
  <2>2. 1 \in Int /\ l \in Int /\ l - 1 + 1 = l /\ (~(1 <= l) => l = 0)
    OBVIOUS
  <2> QED BY <2>1, <2>2, SubSeqProperties DEF KeyPaths
<1>6. SubSeq(above, 1, Len(above)) = SubSeq(q, 1, Len(above))
  <2>1. CASE l = 0
    <3>1. \A s : SubSeq(s, 1, 0) = <<>>
      BY SubSeqEmpty
    <3> QED BY <1>5, <2>1, <3>1
  <2>2. CASE l # 0
    <3>1. SubSeq(above, 1, Len(above)) = above
      BY <1>5, SubSeqFull DEF KeyPaths
    <3>2. /\ 1 \in 1..Len(q) /\ Len(place) \in 1..Len(q)
          /\ 1 \in 1..(Len(place) - 1 + 1) /\ l \in 1..(Len(place) - 1 + 1)
          /\ 1 + 1 - 1 = 1 /\ 1 + l - 1 = l
      BY <1>3, <2>2
    <3>3. SubSeq(SubSeq(q, 1, Len(place)), 1, l) = SubSeq(q, 1 + 1 - 1, 1 + l - 1)
      BY <1>2, <3>2, SubSeqOfSubSeq DEF KeyPaths
    <3> QED BY <1>4, <1>5, <3>1, <3>2, <3>3
  <2> QED BY <2>1, <2>2
<1>7. Len(above) <= Len(q)
  BY <1>3, <1>5
<1> QED BY <1>1, <1>6, <1>7 DEF Holds, IsPrefix

(* The places of a document, and of objects in it, whose keys spell path. *)
Spells(doc, path) == {place \in KeyPaths : Holds(doc, place) /\ FlattenSeq(place) = path}

(* The property speaks of prefixes of places, lookupString of what there   *)
(* is at a place: they are the same.                                       *)
LEMMA SpellingIs ==
    ASSUME NEW doc \in Hits, NEW path
    PROVE  Spelling(doc, path) = {Flat(doc, place) : place \in Spells(doc, path)}
<1>1. \A q \in DOMAIN doc : q \in KeyPaths
  BY HitsAssumption DEF KeyPaths
<1>2. ASSUME NEW p, NEW q \in DOMAIN doc, p \in Prefixes(q)
      PROVE  p \in KeyPaths /\ Holds(doc, p)
  <2>1. PICK l \in 0..Len(q) : p = SubSeq(q, 1, l)
    BY <1>2 DEF Prefixes
  <2>2. Holds(doc, q)
    BY <1>1 DEF Holds, IsPrefix, KeyPaths
  <2>3. p \in KeyPaths
    BY <1>1, <2>1 DEF KeyPaths
  <2> QED BY <1>1, <2>1, <2>2, <2>3, HoldsPrefix
<1>3. ASSUME NEW p \in KeyPaths, Holds(doc, p)
      PROVE  \E q \in DOMAIN doc : p \in Prefixes(q)
  <2>1. PICK q \in DOMAIN doc : IsPrefix(p, q)
    BY <1>3 DEF Holds
  <2>2. SubSeq(p, 1, Len(p)) = p
    BY SubSeqFull DEF KeyPaths
  <2>3. p = SubSeq(q, 1, Len(p)) /\ Len(p) <= Len(q) /\ Len(p) \in Nat /\ Len(q) \in Nat
    BY <1>1, <2>1, <2>2 DEF IsPrefix, KeyPaths
  <2>4. Len(p) \in 0..Len(q)
    BY <2>3
  <2>5. p \in Prefixes(q)
    BY <2>3, <2>4 DEF Prefixes
  <2> QED BY <2>5
<1>4. {p \in UNION {Prefixes(q) : q \in DOMAIN doc} : FlattenSeq(p) = path} = Spells(doc, path)
  BY <1>2, <1>3 DEF Spells
<1> QED BY <1>4 DEF Spelling

LEMMA KeysAreNotEmpty ==
    ASSUME NEW doc \in Hits, NEW place \in KeyPaths, Holds(doc, place), NEW i \in 1..Len(place)
    PROVE  place[i] # <<>>
<1>1. PICK q \in DOMAIN doc : IsPrefix(place, q)
  BY DEF Holds
<1>2. q \in KeyPaths /\ \A j \in 1..Len(q) : q[j] # <<>>
  BY HitsAssumption DEF KeyPaths
<1>3. Len(place) \in Nat /\ Len(q) \in Nat /\ Len(place) <= Len(q)
  BY <1>1, <1>2 DEF IsPrefix, KeyPaths
<1>4. place = SubSeq(q, 1, Len(place))
  <2>1. SubSeq(place, 1, Len(place)) = place
    BY SubSeqFull DEF KeyPaths
  <2> QED BY <1>1, <2>1 DEF IsPrefix
<1>5. place[i] = q[i]
  <2>1. \A j \in 1..Len(place) : q[j] \in Seq(STRING)
    BY <1>2, <1>3 DEF KeyPaths
  <2>2. 1 \in Int /\ Len(place) \in Int /\ i \in 1..(Len(place) - 1 + 1) /\ 1 + i - 1 = i
    BY <1>3
  <2>3. SubSeq(q, 1, Len(place))[i] = q[1 + i - 1]
    BY <2>1, <2>2, SubSeqProperties
  <2> QED BY <1>4, <2>2, <2>3
<1>6. i \in 1..Len(q)
  BY <1>3
<1> QED BY <1>2, <1>5, <1>6

LEMMA Cut ==
    ASSUME NEW A, NEW path \in Seq(A), NEW n \in 0..(Len(path) - 1), NEW m \in (n + 1)..Len(path)
    PROVE  /\ SubSeq(path, n + 1, m) \in Seq(A)
           /\ SubSeq(path, 1, n) \o SubSeq(path, n + 1, m) = SubSeq(path, 1, m)
<1>1. SubSeq(path, n + 1, m) \in Seq(A)
  <2>1. \A i \in (n + 1)..m : path[i] \in A
    OBVIOUS
  <2>2. n + 1 \in Int /\ m \in Int
    OBVIOUS
  <2> QED BY <2>1, <2>2, SubSeqProperties
<1>2. 1 \in 1..(Len(path) + 1) /\ n \in (1 - 1)..Len(path) /\ m \in n..Len(path)
  OBVIOUS
<1>3. SubSeq(path, 1, n) \o SubSeq(path, n + 1, m) = SubSeq(path, 1, m)
  BY <1>2, ConcatAdjacentSubSeq
<1> QED BY <1>1, <1>3

(* A key that continues the path leads on in it. *)
LEMMA Continued ==
    ASSUME NEW path \in Seq(STRING), NEW n \in 0..(Len(path) - 1), NEW m \in (n + 1)..Len(path),
           NEW place \in KeyPaths, FlattenSeq(place) = SubSeq(path, 1, n)
    PROVE  /\ Append(place, SubSeq(path, n + 1, m)) \in KeyPaths
           /\ FlattenSeq(Append(place, SubSeq(path, n + 1, m))) = SubSeq(path, 1, m)
<1> DEFINE key == SubSeq(path, n + 1, m)
<1>1. key \in Seq(STRING) /\ SubSeq(path, 1, n) \o key = SubSeq(path, 1, m)
  BY Cut
<1> HIDE DEF key
<1>2. FlattenSeq(Append(place, key)) = FlattenSeq(place) \o key
  BY <1>1, FlattenAppend DEF KeyPaths
<1>3. Append(place, key) \in KeyPaths
  BY <1>1, AppendProperties DEF KeyPaths
<1> QED BY <1>1, <1>2, <1>3 DEF key

Follows(doc, path, value) ==
    \A n \in 0..Len(path), place \in KeyPaths :
        value[n][place] = FoundFrom(doc, path, value, n, place)

(* What lookupString returns, it has found where the keys spell the path.  *)
LEMMA FoundIsSpelled ==
    ASSUME NEW doc \in Hits, NEW path \in Seq(STRING), NEW value, Follows(doc, path, value),
           NEW n \in 0..(Len(path) - 1), NEW place \in KeyPaths,
           FlattenSeq(place) = SubSeq(path, 1, n), value[n][place] # "empty"
    PROVE  \E p \in Spells(doc, path) : Flat(doc, p) = value[n][place]
<1> DEFINE N == Len(path)
           Right(k) == \A q \in KeyPaths :
               FlattenSeq(q) = SubSeq(path, 1, k) /\ value[k][q] # "empty"
               => \E p \in Spells(doc, path) : Flat(doc, p) = value[k][q]
           S == {k \in 0..(N - 1) : Right(k)}
<1>1. N \in Nat
  OBVIOUS
<1>2. ASSUME NEW k \in 0..(N - 1), \A m \in (k + 1)..(N - 1) : m \in S
      PROVE  k \in S
  <2>1. SUFFICES ASSUME NEW q \in KeyPaths, FlattenSeq(q) = SubSeq(path, 1, k), value[k][q] # "empty"
                 PROVE  \E p \in Spells(doc, path) : Flat(doc, p) = value[k][q]
    OBVIOUS
  <2> DEFINE flat == Append(q, SubSeq(path, k + 1, Len(path)))
             holding == Holding(path, value, k, q)
  <2>2. value[k][q] = FoundFrom(doc, path, value, k, q)
    BY DEF Follows
  <2>3. CASE Holds(doc, flat)
    <3>1. value[k][q] = Flat(doc, flat)
      BY <2>2, <2>3 DEF FoundFrom
    <3>2. N \in (k + 1)..N
      BY <1>1
    <3>3. flat \in KeyPaths /\ FlattenSeq(flat) = SubSeq(path, 1, N)
      BY <2>1, <3>2, Continued
    <3>4. SubSeq(path, 1, N) = path
      BY SubSeqFull
    <3> HIDE DEF flat
    <3>5. flat \in Spells(doc, path)
      BY <2>3, <3>3, <3>4 DEF Spells
    <3> QED BY <3>1, <3>5
  <2>4. CASE ~Holds(doc, flat)
    <3>1. holding # {} /\ value[k][q] = Further(path, value, k, q, Min(holding))
      BY <2>1, <2>2, <2>4 DEF FoundFrom
    <3>2. Min(holding) \in (k + 1)..(N - 1)
      BY <1>1, <3>1, HoldingIsBelow
    <3> DEFINE m == Min(holding)
               next == Append(q, SubSeq(path, k + 1, m))
    <3>3. m \in (k + 1)..N /\ m \in S
      BY <1>1, <1>2, <3>2
    <3>4. value[k][q] = value[m][next]
      BY <3>1 DEF Further
    <3> HIDE DEF m
    <3>5. next \in KeyPaths /\ FlattenSeq(next) = SubSeq(path, 1, m)
      BY <2>1, <3>3, Continued
    <3> HIDE DEF next
    <3> QED BY <2>1, <3>3, <3>4, <3>5
  <2> QED BY <2>3, <2>4
<1> HIDE DEF S
<1>3. 0..(N - 1) \subseteq S
  <2> HIDE DEF N
  <2> QED BY <1>1, <1>2, InductionDown
<1> QED BY <1>3 DEF S

(* It passes over no place that spells the path, if there is text.         *)
LEMMA SpelledIsFound ==
    ASSUME NEW doc \in Hits, NEW path \in Seq(STRING), NEW value, Follows(doc, path, value),
           \A p \in Spells(doc, path) : Flat(doc, p) # "empty",
           NEW p \in Spells(doc, path),
           NEW n \in 0..(Len(path) - 1), NEW l \in 0..Len(p),
           FlattenSeq(SubSeq(p, 1, l)) = SubSeq(path, 1, n)
    PROVE  value[n][SubSeq(p, 1, l)] # "empty"
<1> DEFINE N == Len(path)
           Right(k) == \A i \in 0..Len(p) :
               FlattenSeq(SubSeq(p, 1, i)) = SubSeq(path, 1, k) => value[k][SubSeq(p, 1, i)] # "empty"
           S == {k \in 0..(N - 1) : Right(k)}
<1>1. N \in Nat /\ p \in KeyPaths /\ Holds(doc, p) /\ FlattenSeq(p) = path
  BY DEF Spells
<1>2. ASSUME NEW k \in 0..(N - 1), \A m \in (k + 1)..(N - 1) : m \in S
      PROVE  k \in S
  <2>1. SUFFICES ASSUME NEW i \in 0..Len(p), FlattenSeq(SubSeq(p, 1, i)) = SubSeq(path, 1, k)
                 PROVE  value[k][SubSeq(p, 1, i)] # "empty"
    OBVIOUS
  <2> DEFINE q == SubSeq(p, 1, i)
             flat == Append(q, SubSeq(path, k + 1, Len(path)))
             holding == Holding(path, value, k, q)
  <2>2. q \in KeyPaths
    BY <1>1 DEF KeyPaths
  <2>3. value[k][q] = FoundFrom(doc, path, value, k, q)
    BY <2>2 DEF Follows
  <2>4. CASE Holds(doc, flat)
    <3>1. value[k][q] = Flat(doc, flat)
      BY <2>3, <2>4 DEF FoundFrom
    <3>2. N \in (k + 1)..N
      BY <1>1
    <3>3. flat \in KeyPaths /\ FlattenSeq(flat) = SubSeq(path, 1, N)
      BY <2>1, <2>2, <3>2, Continued
    <3>4. SubSeq(path, 1, N) = path
      BY SubSeqFull
    <3> HIDE DEF flat, q
    <3>5. flat \in Spells(doc, path)
      BY <2>4, <3>3, <3>4 DEF Spells
    <3> QED BY <3>1, <3>5 DEF q
  <2>5. CASE ~Holds(doc, flat)
    <3>1. PICK m \in (k + 1)..Len(path) :
              /\ i < Len(p)
              /\ SubSeq(p, 1, i + 1) = Append(SubSeq(p, 1, i), SubSeq(path, k + 1, m))
              /\ FlattenSeq(SubSeq(p, 1, i + 1)) = SubSeq(path, 1, m)
      <4>1. \A j \in 1..Len(p) : p[j] # <<>>
        BY <1>1, KeysAreNotEmpty
      <4>2. p \in Seq(Seq(STRING)) /\ FlattenSeq(p) = path
        BY <1>1 DEF KeyPaths
      <4>3. path \in Seq(STRING) /\ i \in 0..Len(p) /\ k \in 0..(Len(path) - 1)
        OBVIOUS
      <4> HIDE DEF S, N, q, flat, holding
      <4>4. \E m \in (k + 1)..Len(path) : LeadsOn(p, path, i, k, m)
        BY <2>1, <4>1, <4>2, <4>3, NextKey
      <4> QED BY <4>4 DEF LeadsOn
    <3>2. i + 1 \in 0..Len(p)
      BY <1>1, <3>1 DEF KeyPaths
    <3>3. CASE m = N
      <4>1. Holds(doc, SubSeq(p, 1, i + 1))
        BY <1>1, <3>2, HoldsPrefix
      <4> QED BY <2>5, <3>1, <3>3, <4>1
    <3>4. CASE m # N
      <4>1. m \in (k + 1)..(N - 1) /\ m \in S
        BY <1>1, <1>2, <3>4
      <4>2. value[m][SubSeq(p, 1, i + 1)] # "empty"
        BY <3>1, <3>2, <4>1
      <4>3. Further(path, value, k, q, m) # "empty"
        BY <3>1, <4>2 DEF Further
      <4>4. holding # {}
        BY <4>1, <4>3 DEF Holding
      <4>5. Min(holding) \in holding
        BY <1>1, <4>4, HoldingIsBelow
      <4>6. Further(path, value, k, q, Min(holding)) # "empty"
        BY <4>5 DEF Holding
      <4> HIDE DEF holding, q, flat
      <4>7. value[k][q] = Further(path, value, k, q, Min(holding))
        BY <2>3, <2>5, <4>4 DEF FoundFrom, flat, holding
      <4> QED BY <4>6, <4>7 DEF q
    <3> QED BY <3>3, <3>4
  <2> QED BY <2>4, <2>5
<1> HIDE DEF S
<1>3. 0..(N - 1) \subseteq S
  <2> HIDE DEF N
  <2> QED BY <1>1, <1>2, InductionDown
<1> QED BY <1>3 DEF S

(* lookupString, against what the keys of a document mean. *)
LEMMA LookupFindsSpelling ==
    ASSUME NEW doc \in Hits, NEW path \in Seq(STRING), path # <<>>
    PROVE  /\ LookupString(doc, path) \in Texts
           /\ LookupString(doc, path) # "empty" => LookupString(doc, path) \in Spelling(doc, path)
           /\ Spelling(doc, path) # {} /\ "empty" \notin Spelling(doc, path)
              => LookupString(doc, path) # "empty"
<1>1. PICK value : LookupString(doc, path) = value[0][<<>>] /\ Follows(doc, path, value)
  BY LookupTable DEF Follows
<1>2. 0 \in 0..(Len(path) - 1)
  BY EmptySeq
<1>3. <<>> \in KeyPaths
  BY EmptySeq DEF KeyPaths
<1>4. \A s : SubSeq(s, 1, 0) = <<>>
  BY SubSeqEmpty
<1>5. FlattenSeq(<<>>) = SubSeq(path, 1, 0)
  BY <1>4, FlattenEmpty
<1>6. LookupString(doc, path) # "empty"
      => \E p \in Spells(doc, path) : Flat(doc, p) = LookupString(doc, path)
  BY <1>1, <1>2, <1>3, <1>5, FoundIsSpelled
<1>7. ASSUME NEW p \in Spells(doc, path), \A q \in Spells(doc, path) : Flat(doc, q) # "empty"
      PROVE  LookupString(doc, path) # "empty"
  <2>1. 0 \in 0..Len(p) /\ SubSeq(p, 1, 0) = <<>>
    BY <1>4 DEF Spells, KeyPaths
  <2>2. value[0][SubSeq(p, 1, 0)] # "empty"
    BY <1>1, <1>2, <1>5, <1>7, <2>1, SpelledIsFound
  <2> QED BY <1>1, <2>1, <2>2
<1> QED BY <1>6, <1>7, SpellingIs, FlatIsText DEF Texts

-----------------------------------------------------------------------------
(* Configuration.                                                          *)

(* An environment that Load accepts fails no check. *)
LEMMA Accepted ==
    ASSUME NEW env, Load(env).ok
    PROVE  Load(env).value = Configured(env) /\ \A i \in 1..6 : Reports(env)[i] = {}
<1>1. {i \in DOMAIN Reports(env) : Reports(env)[i] # {}} = {}
  BY DEF Load
<1>2. DOMAIN Reports(env) = 1..6
  BY DEF Reports
<1> QED BY <1>1, <1>2 DEF Load

(* Where Load returns a configuration, that has what it needs. *)
LEMMA AcceptedIsUsable ==
    ASSUME NEW env, Provider(env) \in DOMAIN ProviderDefaults, Load(env).ok
    PROVE  /\ \A key \in RequiredKeys :
                  /\ env[key] # "absent"
                  /\ Load(env).value[key] = "absent" => key \in Urls /\ env[key] = "slashes"
           /\ \A key \in Endpoint : Load(env).value[key] # "absent"
           /\ \A key \in Seconds : Load(env).value[key] \notin {"not a number", "not positive"}
           /\ Load(env).value["LLM_PROVIDER"] \in {"openrouter", "avalai", "custom"}
           /\ Load(env).value["LLM_REASONING_EFFORT"] # "unknown"
<1>1. /\ Provider(env) # "unknown"
      /\ env["LLM_REASONING_EFFORT"] # "unknown"
      /\ \A key \in Seconds : env[key] \notin {"not a number", "not positive"}
      /\ Missing(env) = {}
  <2>1. \A i \in {1, 2, 3, 4, 6} : Reports(env)[i] = {}
    BY Accepted
  <2>2. /\ {k \in {"LLM_PROVIDER"} : Provider(env) = "unknown"} = {}
        /\ {k \in {"LLM_REASONING_EFFORT"} : env[k] = "unknown"} = {}
        /\ \A key \in Seconds : BadInt(env, key) = {}
        /\ Missing(env) = {}
    BY <2>1 DEF Reports, Seconds
  <2> QED BY <2>2 DEF BadInt
<1>2. /\ \A key \in Keys :
             Load(env).value[key] = TrimRight(key, optional(env, key, Default(env, key)))
      /\ {"LLM_PROVIDER", "LLM_REASONING_EFFORT"} \cup Seconds \subseteq Keys \ Urls
  <2>1. Load(env).value = Configured(env)
    BY Accepted
  <2> QED BY <2>1 DEF Configured, Keys, Seconds, Urls
<1>3. /\ \A key \in RequiredKeys : env[key] # "absent"
      /\ \A key \in Endpoint : Load(env).value[key] # "absent"
  BY <1>1, Accepted DEF Missing
<1>4. ASSUME NEW key \in RequiredKeys, Load(env).value[key] = "absent"
      PROVE  key \in Urls /\ env[key] = "slashes"
  BY <1>2, <1>3, <1>4 DEF Keys, TrimRight, optional
<1>5. \A key \in {"LLM_PROVIDER", "LLM_REASONING_EFFORT"} \cup Seconds :
          Load(env).value[key] = optional(env, key, Default(env, key))
  BY <1>2 DEF TrimRight
<1>6. /\ Default(env, "LLM_PROVIDER") = "openrouter"
      /\ Default(env, "LLM_REASONING_EFFORT") = "medium"
      /\ \A key \in Seconds : Default(env, key) = "positive"
  BY DEF Default, Endpoint, Seconds
<1>7. Load(env).value["LLM_PROVIDER"] = Provider(env)
  BY <1>5, <1>6 DEF Provider
<1>8. Provider(env) \in {"openrouter", "avalai", "custom"}
  BY <1>1 DEF ProviderDefaults
<1> QED BY <1>1, <1>3, <1>4, <1>5, <1>6, <1>7, <1>8 DEF optional

-----------------------------------------------------------------------------
(* File resolution.                                                        *)

(* Named leaves a path. *)
LEMMA NamedIsPath ==
    ASSUME NEW segments \in Seq(STRING)
    PROVE  Named(segments) \in Seq(STRING)
<1> DEFINE N == Len(segments)
           T == Seq(STRING)
           Longer(path, n) == IF segments[n] \in {"", "."} THEN path ELSE Append(path, segments[n])
           Is(parts) == parts = [n \in 0..N |-> IF n = 0 THEN <<>> ELSE
                                     IF segments[n] \in {"", "."} THEN parts[n - 1]
                                     ELSE Append(parts[n - 1], segments[n])]
           step == [n \in 1..N |-> [path \in T |-> Longer(path, n)]]
           parts == CHOOSE p : Is(p)
           S == {n \in Nat : n <= N => parts[n] \in T}
<1>1. N \in Nat /\ \A n \in 1..N : segments[n] \in STRING
  OBVIOUS
<1>2. ASSUME NEW n \in 1..N, NEW path \in T PROVE Longer(path, n) \in T
  <2>1. segments[n] \in STRING
    BY <1>1
  <2>2. Append(path, segments[n]) \in Seq(STRING)
    BY <2>1, AppendProperties
  <2> QED BY <2>1, <2>2
<1>3. <<>> \in T
  OBVIOUS
<1>4. Named(segments) = parts[N]
  BY DEF Named
<1> HIDE DEF N, T
<1>5. step \in [1..N -> [T -> T]]
  BY <1>2
<1>6. \A n \in 1..N, path \in T : step[n][path] = Longer(path, n)
  OBVIOUS
<1> HIDE DEF step
<1>7. PICK f \in [0..N -> T] : Chain(f, <<>>, step, N)
  BY <1>1, <1>3, <1>5, Recursion
<1>8. \A n \in 1..N : n - 1 \in 0..N
  BY <1>1
<1>9. \A n \in 1..N : f[n] = Longer(f[n - 1], n)
  BY <1>6, <1>7, <1>8 DEF Chain
<1>10. Is(f)
  <2>1. \A n \in 0..N : n = 0 \/ n \in 1..N
    BY <1>1
  <2>2. f = [n \in 0..N |-> f[n]] /\ f[0] = <<>>
    BY <1>7 DEF Chain
  <2> QED BY <1>9, <2>1, <2>2
<1>11. Is(parts)
  <2> HIDE DEF Is
  <2> QED BY <1>10
<1> HIDE DEF parts
<1>12. parts[0] = <<>> /\ \A n \in 1..N : parts[n] = Longer(parts[n - 1], n)
  <2>1. \A n \in 0..N : parts[n] = IF n = 0 THEN <<>> ELSE Longer(parts[n - 1], n)
    BY <1>11
  <2>2. 0 \in 0..N /\ \A n \in 1..N : n \in 0..N /\ n # 0
    BY <1>1
  <2> HIDE DEF Longer
  <2> QED BY <2>1, <2>2
<1> HIDE DEF Longer
<1>13. 0 \in S
  BY <1>3, <1>12
<1>14. ASSUME NEW n \in Nat, n \in S PROVE n + 1 \in S
  <2>1. SUFFICES ASSUME n + 1 <= N PROVE parts[n + 1] \in T
    OBVIOUS
  <2>2. parts[n] \in T /\ n + 1 \in 1..N
    BY <1>1, <1>14, <2>1
  <2>3. parts[n + 1] = Longer(parts[n], n + 1)
    BY <1>12, <2>2
  <2> QED BY <1>2, <2>2, <2>3
<1> HIDE DEF S
<1>15. N \in S
  BY <1>1, <1>13, <1>14, Induction
<1> QED BY <1>1, <1>4, <1>15 DEF S, T

LEMMA MinOfTwo ==
    ASSUME NEW m \in Nat, NEW n \in Nat
    PROVE  Min({m, n}) = IF m <= n THEN m ELSE n
<1> DEFINE least == IF m <= n THEN m ELSE n
<1>1. least \in {m, n} /\ \A k \in {m, n} : least <= k
  OBVIOUS
<1>2. \A k \in {m, n} : (\A l \in {m, n} : k <= l) => k = least
  OBVIOUS
<1> QED BY <1>1, <1>2 DEF Min

(* The candidates are the longest suffixes of the path, longest first.     *)
SuffixesOf(tries, parts) ==
    /\ Len(tries) \in Nat
    /\ \A i \in 1..Len(tries) :
           /\ tries[i] = SubSeq(parts, i, Len(parts))
           /\ Len(tries[i]) = Len(parts) - i + 1
           /\ i <= 6 /\ i <= Len(parts) /\ (i > 1 => i < Len(parts))
    /\ \A n \in 0..5 : n < Len(parts) /\ (n > 0 => n + 1 < Len(parts)) => n + 1 \in 1..Len(tries)

LEMMA SuffixLength ==
    ASSUME NEW A, NEW parts \in Seq(A), NEW i \in 1..Len(parts)
    PROVE  Len(SubSeq(parts, i, Len(parts))) = Len(parts) - i + 1
<1>1. \A k \in i..Len(parts) : parts[k] \in A
  OBVIOUS
<1>2. i \in Int /\ Len(parts) \in Int /\ i <= Len(parts)
  OBVIOUS
<1> QED BY <1>1, <1>2, SubSeqProperties

CandidatesOf(parts) ==
    IF Len(parts) <= 1 THEN IF parts = <<>> THEN <<>> ELSE <<parts>>
    ELSE [i \in 1..Min({Len(parts) - 1, 6}) |-> SubSeq(parts, i, Len(parts))]

(* They are, for any parts. *)
LEMMA SuffixesOfParts ==
    ASSUME NEW A, NEW parts \in Seq(A)
    PROVE  SuffixesOf(CandidatesOf(parts), parts)
<1> DEFINE tries == CandidatesOf(parts)
           N     == Len(parts)
<1>1. N \in Nat
  OBVIOUS
<1>2. CASE N = 0
  <2>1. parts = <<>>
    BY <1>2, EmptySeq
  <2>2. tries = <<>>
    BY <1>2, <2>1 DEF CandidatesOf
  <2> HIDE DEF tries, N
  <2>3. \A i \in 1..0 : FALSE
    OBVIOUS
  <2>4. Len(tries) = 0
    BY <2>2
  <2>5. \A n \in 0..5 : ~(n < 0)
    OBVIOUS
  <2> QED BY <1>2, <2>3, <2>4, <2>5 DEF SuffixesOf, N, tries
<1>3. CASE N = 1
  <2>1. parts # <<>>
    BY <1>3, EmptySeq
  <2>2. tries = <<parts>>
    BY <1>3, <2>1 DEF CandidatesOf
  <2>3. SubSeq(parts, 1, N) = parts
    BY SubSeqFull
  <2> HIDE DEF tries
  <2>4. Len(tries) = 1 /\ tries[1] = parts
    BY <2>2
  <2>5. (\A i \in 1..1 : i = 1) /\ \A n \in 0..5 : n < 1 => n + 1 \in 1..1
    OBVIOUS
  <2>6. \A i \in 1..Len(tries) :
            /\ tries[i] = SubSeq(parts, i, N) /\ Len(tries[i]) = N - i + 1
            /\ i <= 6 /\ i <= N /\ (i > 1 => i < N)
    <3>1. Len(parts) = N /\ N = 1
      BY <1>3
    <3> HIDE DEF N
    <3>2. tries[1] = SubSeq(parts, 1, N) /\ Len(tries[1]) = N - 1 + 1
      BY <2>3, <2>4, <3>1
    <3>3. TAKE i \in 1..Len(tries)
    <3>4. i = 1
      BY <2>4, <2>5
    <3> QED BY <3>1, <3>2, <3>4
  <2> QED BY <1>3, <2>4, <2>5, <2>6 DEF SuffixesOf, tries
<1>4. CASE N > 1
  <2> DEFINE count == Min({N - 1, 6})
  <2>1. N - 1 \in Nat /\ 6 \in Nat
    BY <1>1, <1>4
  <2>2. count = IF N - 1 <= 6 THEN N - 1 ELSE 6
    <3> HIDE DEF N
    <3> QED BY <2>1, MinOfTwo
  <2>3. count \in Nat /\ count <= 6 /\ count < N /\ (count < 6 => count = N - 1)
    <3> HIDE DEF count, N
    <3> QED BY <1>1, <1>4, <2>2
  <2>4. tries = [i \in 1..count |-> SubSeq(parts, i, N)]
    BY <1>1, <1>4 DEF CandidatesOf
  <2> HIDE DEF count, tries
  <2>5. Len(tries) = count
    BY <2>3, <2>4
  <2>6. ASSUME NEW i \in 1..count
        PROVE  /\ tries[i] = SubSeq(parts, i, N) /\ Len(tries[i]) = N - i + 1
               /\ i <= 6 /\ i <= N /\ i < N
    <3>1. i \in 1..N /\ i <= 6 /\ i < N
      BY <1>1, <2>3
    <3>2. tries[i] = SubSeq(parts, i, N)
      BY <2>4
    <3>3. Len(SubSeq(parts, i, N)) = N - i + 1
      BY <3>1, SuffixLength
    <3> QED BY <3>1, <3>2, <3>3
  <2>7. \A n \in 0..5 : n + 1 < N => n + 1 \in 1..count
    BY <1>1, <2>3
  <2>8. \A n \in 0..5 : n > 0 \/ n + 1 < N
    BY <1>1, <1>4
  <2> QED BY <2>3, <2>5, <2>6, <2>7, <2>8 DEF SuffixesOf, tries
<1>5. N = 0 \/ N = 1 \/ N > 1
  <2> HIDE DEF N
  <2> QED BY <1>1
<1> QED BY <1>2, <1>3, <1>4, <1>5

LEMMA CandidatesAreSuffixes ==
    ASSUME NEW p, p.segments \in Seq(STRING)
    PROVE  SuffixesOf(PathCandidates(p), Named(p.segments))
<1>1. Named(p.segments) \in Seq(STRING)
  BY NamedIsPath
<1>2. PathCandidates(p) = CandidatesOf(Named(p.segments))
  BY DEF PathCandidates, maxPathCandidates, CandidatesOf
<1> QED BY <1>1, <1>2, SuffixesOfParts

(* The candidates that were tried are not in the repository, unless they   *)
(* have been pushed since; the answer says how many were tried.            *)
ResolveInv ==
    /\ filePath.segments \in Seq(STRING)
    /\ tried \in 0..Len(Candidates)
    /\ answer = "none" => tried = 0
    /\ answer = "found" => tried < Len(Candidates) /\ Resolved \in branch \cup pushed
    /\ answer = "notfound" => tried = Len(Candidates)
    /\ \A i \in 1..tried : Candidates[i] \notin branch \ pushed

(* Why a name that can be meant is among the candidates. *)
LEMMA ReachableIsCandidate ==
    ASSUME filePath.segments \in Seq(STRING), NEW file, Reachable(file)
    PROVE  \E i \in 1..Len(Candidates) : file = Candidates[i]
<1> DEFINE parts == Named(filePath.segments)
<1>1. SuffixesOf(Candidates, parts)
  BY CandidatesAreSuffixes DEF Candidates
<1>2. parts \in Seq(STRING)
  BY NamedIsPath
<1> HIDE DEF parts
<1>3. PICK n \in 0..5 : /\ n < Len(parts) /\ file = SubSeq(parts, n + 1, Len(parts))
                        /\ n > 0 => Len(file) > 1
  BY DEF Reachable, parts
<1>4. n + 1 \in 1..Len(parts)
  BY <1>2, <1>3
<1>5. Len(file) = Len(parts) - (n + 1) + 1
  BY <1>2, <1>3, <1>4, SuffixLength
<1>6. n > 0 => n + 1 < Len(parts)
  BY <1>2, <1>3, <1>5
<1>7. n + 1 \in 1..Len(Candidates)
  BY <1>1, <1>3, <1>6 DEF SuffixesOf
<1> QED BY <1>1, <1>3, <1>7 DEF SuffixesOf

LEMMA CandidateIsReachable ==
    ASSUME filePath.segments \in Seq(STRING), NEW i \in 1..Len(Candidates)
    PROVE  Reachable(Candidates[i])
<1> DEFINE parts == Named(filePath.segments)
<1>1. SuffixesOf(Candidates, parts)
  BY CandidatesAreSuffixes DEF Candidates
<1>2. parts \in Seq(STRING)
  BY NamedIsPath
<1> HIDE DEF parts
<1>3. i \in Nat /\ i >= 1 /\ Len(parts) \in Nat
  BY <1>1, <1>2 DEF SuffixesOf
<1>4. /\ Candidates[i] = SubSeq(parts, i, Len(parts))
      /\ Len(Candidates[i]) = Len(parts) - i + 1
      /\ i <= 6 /\ i <= Len(parts) /\ (i > 1 => i < Len(parts))
  BY <1>1 DEF SuffixesOf
<1> DEFINE n == i - 1
<1>5. n \in 0..5 /\ n + 1 = i /\ n < Len(parts) /\ (n > 0 => Len(Candidates[i]) > 1)
  BY <1>3, <1>4
<1> HIDE DEF n
<1> QED BY <1>4, <1>5 DEF Reachable, parts

LEMMA LengthOfCandidates ==
    ASSUME filePath.segments \in Seq(STRING)
    PROVE  Len(Candidates) \in Nat
BY CandidatesAreSuffixes DEF Candidates, SuffixesOf

LEMMA ResolveInvInit == Init => ResolveInv
<1> SUFFICES ASSUME Init PROVE ResolveInv
  OBVIOUS
<1>1. filePath.segments \in Seq(STRING) /\ tried = 0 /\ answer = "none"
  BY DEF Init, ResolveInit
<1>2. Len(Candidates) \in Nat
  BY <1>1, LengthOfCandidates
<1>3. tried \in 0..Len(Candidates) /\ \A i \in 1..tried : FALSE
  BY <1>1, <1>2
<1> QED BY <1>1, <1>3 DEF ResolveInv

(* The steps that look at the next candidate. *)
LEMMA ResolveStepInv ==
    ASSUME ResolveInv, ResolveStep
    PROVE  ResolveInv'
<1>1. filePath' = filePath /\ branch' = branch /\ pushed' = pushed /\ Candidates' = Candidates
  BY DEF ResolveStep, Finds, Misses, RequestFails, GivesUp, Candidates
<1>2. Len(Candidates) \in Nat
  BY LengthOfCandidates DEF ResolveInv
<1>3. CASE Finds
  <2>1. /\ tried' = tried /\ tried < Len(Candidates) /\ answer' = "found"
        /\ Candidates[tried + 1] \in branch
    BY <1>3 DEF Finds
  <2>2. Resolved' \in (branch \cup pushed)'
    BY <1>1, <2>1 DEF Resolved
  <2> QED BY <1>1, <2>1, <2>2 DEF ResolveInv
<1>4. CASE Misses
  <2>1. /\ tried' = tried + 1 /\ tried < Len(Candidates) /\ answer' = "asking"
        /\ Candidates[tried + 1] \notin branch
    BY <1>4 DEF Misses
  <2>2. tried' \in 0..Len(Candidates) /\ \A i \in 1..tried' : i \in 1..tried \/ i = tried + 1
    BY <1>2, <2>1 DEF ResolveInv
  <2>3. \A i \in 1..tried' : Candidates[i] \notin branch \ pushed
    BY <2>1, <2>2 DEF ResolveInv
  <2> QED BY <1>1, <2>1, <2>2, <2>3 DEF ResolveInv
<1>5. CASE RequestFails
  BY <1>1, <1>5 DEF RequestFails, ResolveInv
<1>6. CASE GivesUp
  BY <1>1, <1>6 DEF GivesUp, ResolveInv
<1> QED BY <1>3, <1>4, <1>5, <1>6 DEF ResolveStep

LEMMA ResolveInvNext ==
    ASSUME ResolveInv, [Next]_vars
    PROVE  ResolveInv'
<1>1. ASSUME UNCHANGED resolveVars PROVE ResolveInv'
  BY <1>1 DEF resolveVars, ResolveInv, Candidates, Resolved
<1>2. ASSUME NEW input, Reads(input) PROVE ResolveInv'
  BY <1>1, <1>2 DEF Reads
<1>3. ASSUME NEW p \in Paths, NEW files \in Trees, ResolveFile(p, files) PROVE ResolveInv'
  <2>1. /\ answer = "none" /\ answer' = "asking" /\ filePath' = p /\ tried' = tried
    BY <1>3 DEF ResolveFile, Ask
  <2>2. tried' = 0 /\ filePath'.segments \in Seq(STRING)
    BY <2>1, PathsAssumption DEF ResolveInv
  <2>3. Len(Candidates') \in Nat
    BY <2>2, CandidatesAreSuffixes DEF Candidates, SuffixesOf
  <2>4. tried' \in 0..Len(Candidates') /\ \A i \in 1..tried' : FALSE
    BY <2>2, <2>3
  <2> QED BY <2>1, <2>2, <2>4 DEF ResolveInv
<1>4. ASSUME NEW file, Push(file) PROVE ResolveInv'
  <2>1. /\ answer = "asking" /\ answer' = answer /\ filePath' = filePath /\ tried' = tried
        /\ Candidates' = Candidates
    BY <1>4 DEF Push, Candidates
  <2>2. (branch \ pushed)' \subseteq branch \ pushed
    BY <1>4 DEF Push
  <2> QED BY <2>1, <2>2 DEF ResolveInv
<1>5. ASSUME Return PROVE ResolveInv'
  <2>1. filePath'.segments \in Seq(STRING) /\ tried' = 0 /\ answer' = "none"
    BY <1>5 DEF Return
  <2>2. Len(Candidates') \in Nat
    BY <2>1, CandidatesAreSuffixes DEF Candidates, SuffixesOf
  <2>3. tried' \in 0..Len(Candidates') /\ \A i \in 1..tried' : FALSE
    BY <2>1, <2>2
  <2> QED BY <2>1, <2>3 DEF ResolveInv
<1> QED BY <1>1, <1>2, <1>3, <1>4, <1>5, ResolveStepInv
        DEF Next, vars, ReadInput, LoadEnvironment, ReadHit, ReadReport, ParseJSON

(* ResolveFile never says of a file that was in the repository all the    *)
(* time, and that the path can mean, that it is missing, and takes no      *)
(* shorter suffix instead.                                                 *)
THEOREM StableFilesAreFound == Spec => []StableFileIsFound
<1>1. ASSUME ResolveInv PROVE StableFileIsFound
  <2> SUFFICES ASSUME answer \in {"found", "notfound"}, NEW file \in branch \ pushed,
                      Reachable(file)
               PROVE  answer = "found" /\ Len(Resolved) >= Len(file)
    BY DEF StableFileIsFound
  <2>1. PICK i \in 1..Len(Candidates) : file = Candidates[i]
    BY <1>1, ReachableIsCandidate DEF ResolveInv
  <2>2. Len(Candidates) \in Nat
    BY <1>1, LengthOfCandidates DEF ResolveInv
  <2>3. i > tried /\ i \in Nat /\ tried \in Nat /\ i <= Len(Candidates)
    <3>1. i \notin 1..tried
      BY <1>1, <2>1 DEF ResolveInv
    <3> QED BY <1>1, <2>1, <2>2, <3>1 DEF ResolveInv
  <2>4. answer = "found"
    BY <1>1, <2>3 DEF ResolveInv
  <2>5. tried + 1 \in 1..Len(Candidates) /\ tried + 1 <= i
    BY <2>2, <2>3
  <2>6. SuffixesOf(Candidates, Named(filePath.segments))
    BY <1>1, CandidatesAreSuffixes DEF Candidates, ResolveInv
  <2>7. Len(Named(filePath.segments)) \in Nat
    BY <1>1, NamedIsPath DEF ResolveInv
  <2>8. /\ Len(file) = Len(Named(filePath.segments)) - i + 1
        /\ Len(Resolved) = Len(Named(filePath.segments)) - (tried + 1) + 1
    BY <2>1, <2>5, <2>6 DEF SuffixesOf, Resolved
  <2>9. Len(Resolved) >= Len(file)
    BY <2>3, <2>7, <2>8
  <2> QED BY <2>4, <2>9
<1>2. QED BY <1>1, ResolveInvInit, ResolveInvNext, PTL DEF Spec

(* What ResolveFile answers is in the repository when it answers, and is a *)
(* suffix of the path, never the bare name of a longer one.                *)
THEOREM FixesFilesOfTheTrace == Spec => []FixesAFileOfTheTrace
<1>1. ASSUME ResolveInv PROVE FixesAFileOfTheTrace
  <2> SUFFICES ASSUME answer = "found"
               PROVE  Resolved \in branch \cup pushed /\ Reachable(Resolved)
    BY DEF FixesAFileOfTheTrace
  <2>1. Len(Candidates) \in Nat
    BY <1>1, LengthOfCandidates DEF ResolveInv
  <2>2. tried + 1 \in 1..Len(Candidates)
    BY <1>1, <2>1 DEF ResolveInv
  <2>3. Reachable(Candidates[tried + 1])
    BY <1>1, <2>2, CandidateIsReachable DEF ResolveInv
  <2> QED BY <1>1, <2>3 DEF ResolveInv, Resolved
<1>2. QED BY <1>1, ResolveInvInit, ResolveInvNext, PTL DEF Spec

-----------------------------------------------------------------------------
(* What was read.                                                          *)

(* What was read is an input of its kind, with what the code makes of it.  *)
ReadInv ==
    /\ read.kind = "environment" => read.env \in Environments /\ read.result = Load(read.env)
    /\ read.kind = "hit" => read.doc \in Hits /\ read.result = MapDocument(read.doc)
    /\ read.kind = "report" =>
           /\ read.report \in Errors
           /\ Reportable(read.report.message, read.report.trace)
           /\ read.result
                  = Fingerprint(Title(read.report.message, read.report.trace), read.report.trace)
    /\ read.kind = "reply" =>
           /\ read.reply \in Replies
           /\ read.result = StripFences(read.reply.before \o read.reply.object \o read.reply.after)

(* It is so after every step. *)
LEMMA ReadInvariant == Spec => []ReadInv
<1>1. Init => ReadInv
  BY DEF Init, Nothing, ReadInv
<1>2. ASSUME ReadInv, [Next]_vars PROVE ReadInv'
  <2>1. ASSUME read' = read PROVE ReadInv'
    BY <1>2, <2>1 DEF ReadInv
  <2>2. ASSUME NEW env \in Environments, LoadEnvironment(env) PROVE ReadInv'
    <3>1. read' = [kind |-> "environment", env |-> env, result |-> Load(env)]
      BY <2>2 DEF LoadEnvironment, Reads
    <3>2. read'.kind = "environment" /\ read'.env = env /\ read'.result = Load(env)
      BY <3>1
    <3> QED BY <3>2 DEF ReadInv
  <2>3. ASSUME NEW doc \in Hits, ReadHit(doc) PROVE ReadInv'
    <3>1. read' = [kind |-> "hit", doc |-> doc, result |-> MapDocument(doc)]
      BY <2>3 DEF ReadHit, Reads
    <3>2. read'.kind = "hit" /\ read'.doc = doc /\ read'.result = MapDocument(doc)
      BY <3>1
    <3> QED BY <3>2 DEF ReadInv
  <2>4. ASSUME read'.kind \in {"path", "nothing"} PROVE ReadInv'
    BY <2>4 DEF ReadInv
  <2>5. ASSUME NEW e \in Errors, ReadReport(e) PROVE ReadInv'
    <3> DEFINE sum == Fingerprint(Title(e.message, e.trace), e.trace)
    <3>1. Reportable(e.message, e.trace) /\ read' = [kind |-> "report", report |-> e, result |-> sum]
      BY <2>5 DEF ReadReport, Reads
    <3>2. read'.kind = "report" /\ read'.report = e /\ read'.result = sum
      BY <3>1
    <3> QED BY <3>1, <3>2 DEF ReadInv
  <2>6. ASSUME NEW reply \in Replies, ParseJSON(reply) PROVE ReadInv'
    <3> DEFINE text == StripFences(reply.before \o reply.object \o reply.after)
    <3>1. read' = [kind |-> "reply", reply |-> reply, result |-> text]
      BY <2>6 DEF ParseJSON, Reads
    <3>2. read'.kind = "reply" /\ read'.reply = reply /\ read'.result = text
      BY <3>1
    <3> QED BY <3>2 DEF ReadInv
  <2>7. ASSUME NEW p, NEW files, ResolveFile(p, files) PROVE read'.kind = "path"
    BY <2>7 DEF ResolveFile
  <2>8. Return => read'.kind = "nothing"
    BY DEF Return, Nothing
  <2>9. ASSUME ReadInput PROVE ReadInv'
    BY <2>2, <2>3, <2>4, <2>5, <2>6, <2>7, <2>9 DEF ReadInput
  <2> QED BY <1>2, <2>1, <2>4, <2>8, <2>9 DEF Next, vars
<1>3. QED BY <1>1, <1>2, PTL DEF Spec

(* Whatever the environment: what Load accepts has every required variable *)
(* set, an endpoint for the model and numbers above zero, and what is      *)
(* required is empty only for a URL of nothing but slashes.                *)
THEOREM ConfigurationsAreUsable == Spec => []ConfigurationIsUsable
<1>1. ASSUME ReadInv PROVE ConfigurationIsUsable
  <2> SUFFICES ASSUME read.kind = "environment", read.result.ok
               PROVE  /\ \A key \in RequiredKeys :
                             /\ read.env[key] # "absent"
                             /\ read.result.value[key] = "absent"
                                    => key \in Urls /\ read.env[key] = "slashes"
                      /\ \A key \in Endpoint : read.result.value[key] # "absent"
                      /\ \A key \in Seconds :
                             read.result.value[key] \notin {"not a number", "not positive"}
                      /\ read.result.value["LLM_PROVIDER"] \in {"openrouter", "avalai", "custom"}
                      /\ read.result.value["LLM_REASONING_EFFORT"] # "unknown"
    BY DEF ConfigurationIsUsable
  <2>1. read.env \in Environments /\ read.result = Load(read.env)
    BY <1>1 DEF ReadInv
  <2> DEFINE env == read.env
  <2>2. Provider(env) \in DOMAIN ProviderDefaults /\ Load(env).ok /\ read.result = Load(env)
    BY <2>1, EnvironmentsAssumption
  <2> HIDE DEF env
  <2>3. /\ \A key \in RequiredKeys :
               /\ env[key] # "absent"
               /\ Load(env).value[key] = "absent" => key \in Urls /\ env[key] = "slashes"
        /\ \A key \in Endpoint : Load(env).value[key] # "absent"
        /\ \A key \in Seconds : Load(env).value[key] \notin {"not a number", "not positive"}
        /\ Load(env).value["LLM_PROVIDER"] \in {"openrouter", "avalai", "custom"}
        /\ Load(env).value["LLM_REASONING_EFFORT"] # "unknown"
    BY <2>2, AcceptedIsUsable
  <2> QED BY <2>2, <2>3, Zenon DEF env
<1>2. QED BY <1>1, ReadInvariant, PTL

(* However a logger nests its keys: the poller takes a document if there   *)
(* is text at every place whose keys spell the path of the trace, and only *)
(* if there is text at one of them.                                        *)
THEOREM TracesAreFound == Spec => []TraceIsFound
<1>1. ASSUME ReadInv PROVE TraceIsFound
  <2> SUFFICES ASSUME read.kind = "hit"
               PROVE  /\ Spelling(read.doc, StackTraceField) = {"text"} => read.result
                      /\ read.result => "text" \in Spelling(read.doc, StackTraceField)
    BY Zenon DEF TraceIsFound
  <2> DEFINE path == StackTraceField
  <2>1. read.doc \in Hits /\ read.result = MapDocument(read.doc)
    BY <1>1 DEF ReadInv
  <2>2. path \in Seq(STRING) /\ path # <<>>
    BY FieldAssumption
  <2>3. read.result = (LookupString(read.doc, path) = "text")
    BY <2>1 DEF MapDocument
  <2> HIDE DEF path
  <2>4. /\ LookupString(read.doc, path) # "empty"
               => LookupString(read.doc, path) \in Spelling(read.doc, path)
        /\ Spelling(read.doc, path) # {} /\ "empty" \notin Spelling(read.doc, path)
               => LookupString(read.doc, path) # "empty"
    BY <2>1, <2>2, LookupFindsSpelling
  <2>5. Spelling(read.doc, path) = {"text"} => read.result
    BY <2>3, <2>4
  <2>6. read.result => "text" \in Spelling(read.doc, path)
    BY <2>3, <2>4
  <2> QED BY <2>5, <2>6 DEF path
<1>2. QED BY <1>1, ReadInvariant, PTL

=============================================================================
