------------------------------ MODULE TextProofs -----------------------------
(***************************************************************************)
(* Proofs about the texts that logai cuts up, whatever is in them: what    *)
(* StripFences leaves of a reply, by the places of the tokens in it, and   *)
(* which reports share a fingerprint.  What the recursive functions Filled *)
(* and JoinLines compute is proved by induction over the lines; two joined *)
(* texts are the same only if their lines are, as no line holds a line     *)
(* end.                                                                    *)
(***************************************************************************)
EXTENDS InputProofs
-----------------------------------------------------------------------------
(* What StripFences cuts out.                                              *)

(* The least of a set. *)
LEMMA LeastIs ==
    ASSUME NEW S \in SUBSET Int, NEW m \in S, \A n \in S : m <= n
    PROVE  Min(S) = m
<1>1. \A x \in S : (\A y \in S : x <= y) => x = m
  OBVIOUS
<1>2. (CHOOSE x \in S : \A y \in S : x <= y) = m
  BY <1>1
<1> QED BY <1>2 DEF Min

(* The greatest of a set. *)
LEMMA GreatestIs ==
    ASSUME NEW S \in SUBSET Int, NEW m \in S, \A n \in S : n <= m
    PROVE  Max(S) = m
<1>1. \A x \in S : (\A y \in S : x >= y) => x = m
  OBVIOUS
<1>2. (CHOOSE x \in S : \A y \in S : x >= y) = m
  BY <1>1
<1> QED BY <1>2 DEF Max

(* The first place of a token. *)
LEMMA IndexIs ==
    ASSUME NEW A, NEW s \in Seq(A), NEW token, NEW i \in 1..Len(s),
           s[i] = token, \A j \in 1..(i - 1) : s[j] # token
    PROVE  Index(s, token) = i
<1> DEFINE S == Places(s, token)
<1>1. S \in SUBSET Int /\ i \in S /\ \A j \in S : i <= j
  BY DEF Places
<1> HIDE DEF S
<1>2. Min(S) = i
  BY <1>1, LeastIs
<1> QED BY <1>1, <1>2 DEF Index, S

(* The last place of a token. *)
LEMMA LastIndexIs ==
    ASSUME NEW A, NEW s \in Seq(A), NEW token, NEW i \in 1..Len(s),
           s[i] = token, \A j \in (i + 1)..Len(s) : s[j] # token
    PROVE  LastIndex(s, token) = i
<1> DEFINE S == Places(s, token)
<1>1. S \in SUBSET Int /\ i \in S /\ \A j \in S : j <= i
  BY DEF Places
<1> HIDE DEF S
<1>2. Max(S) = i
  BY <1>1, GreatestIs
<1> QED BY <1>1, <1>2 DEF LastIndex, S

(* A token that a text has not has no last place. *)
LEMMA LastIndexNone ==
    ASSUME NEW s, NEW token, \A j \in 1..Len(s) : s[j] # token
    PROVE  LastIndex(s, token) = 0
BY DEF LastIndex, Places

(* A piece of a text, token by token. *)
LEMMA PieceOf ==
    ASSUME NEW A, NEW s \in Seq(A), NEW a \in 1..Len(s), NEW z \in a..Len(s)
    PROVE  /\ SubSeq(s, a, z) \in Seq(A)
           /\ Len(SubSeq(s, a, z)) = z - a + 1
           /\ \A i \in 1..(z - a + 1) : SubSeq(s, a, z)[i] = s[a + i - 1]
<1>1. a \in Int /\ z \in Int /\ \A i \in a..z : s[i] \in A
  OBVIOUS
<1> QED BY <1>1, SubSeqProperties

(* A piece of a piece is a piece of the text. *)
LEMMA PieceOfPiece ==
    ASSUME NEW A, NEW s \in Seq(A), NEW a \in 1..Len(s), NEW z \in a..Len(s),
           NEW b \in a..z, NEW y \in b..z
    PROVE  SubSeq(SubSeq(s, a, z), b - a + 1, y - a + 1) = SubSeq(s, b, y)
<1> DEFINE m == b - a + 1
           n == y - a + 1
<1>1. /\ a \in 1..Len(s) /\ z \in 1..Len(s) /\ m \in 1..(z - a + 1) /\ n \in 1..(z - a + 1)
      /\ a + m - 1 = b /\ a + n - 1 = y
  OBVIOUS
<1> HIDE DEF m, n
<1>2. SubSeq(SubSeq(s, a, z), m, n) = SubSeq(s, a + m - 1, a + n - 1)
  BY <1>1, SubSeqOfSubSeq
<1> QED BY <1>1, <1>2 DEF m, n

(* TrimSpace leaves what lies between the first ink and the last. *)
LEMMA TrimSpaceIs ==
    ASSUME NEW A, NEW s \in Seq(A), NEW a \in 1..Len(s), NEW z \in a..Len(s),
           s[a] # "\n", s[z] # "\n",
           \A i \in 1..(a - 1) : s[i] = "\n", \A i \in (z + 1)..Len(s) : s[i] = "\n"
    PROVE  TrimSpace(s) = SubSeq(s, a, z)
<1> DEFINE ink == {i \in 1..Len(s) : s[i] # "\n"}
<1>1. ink \in SUBSET Int /\ a \in ink /\ z \in ink /\ \A i \in ink : a <= i /\ i <= z
  OBVIOUS
<1>2. TrimSpace(s) = IF ink = {} THEN <<>> ELSE SubSeq(s, Min(ink), Max(ink))
  BY DEF TrimSpace
<1> HIDE DEF ink
<1>3. Min(ink) = a /\ Max(ink) = z
  BY <1>1, LeastIs, GreatestIs
<1> QED BY <1>1, <1>2, <1>3

(* Some places of a text are not nothing: one is the last. *)
LEMMA HasGreatest ==
    ASSUME NEW n \in Nat, NEW S \in SUBSET (1..n), S # {}
    PROVE  \E m \in S : \A i \in S : i <= m
<1> DEFINE T == {k \in Nat : n - k \in S}
<1>1. T # {}
  <2>1. PICK m \in S : TRUE
    OBVIOUS
  <2>2. n - m \in Nat /\ n - (n - m) = m
    OBVIOUS
  <2> QED BY <2>1, <2>2
<1>2. PICK k \in T : \A l \in T : k <= l
  BY <1>1, LeastNumber
<1>3. ASSUME NEW i \in S PROVE i <= n - k
  <2>1. n - i \in Nat /\ n - (n - i) = i
    OBVIOUS
  <2>2. n - i \in T
    BY <2>1
  <2>3. k <= n - i /\ k \in Nat
    BY <1>2, <2>2
  <2> QED BY <2>1, <2>3
<1> QED BY <1>2, <1>3

(* A text that is not blank has a last ink. *)
LEMMA LastInk ==
    ASSUME NEW A, NEW s \in Seq(A), NEW q \in 1..Len(s), s[q] # "\n"
    PROVE  \E z \in q..Len(s) : s[z] # "\n" /\ \A i \in (z + 1)..Len(s) : s[i] = "\n"
<1> DEFINE S == {i \in 1..Len(s) : s[i] # "\n"}
<1>1. S \in SUBSET (1..Len(s)) /\ S # {} /\ Len(s) \in Nat
  OBVIOUS
<1>2. PICK z \in S : \A i \in S : i <= z
  <2> HIDE DEF S
  <2> QED BY <1>1, HasGreatest
<1> QED BY <1>2

(* The first ink is a fence, at b, whose line ends at e; then comes o. *)
FenceAt(s, b, e, o) ==
    /\ b \in 1..Len(s) /\ e \in (b + 1)..Len(s) /\ o \in (e + 1)..Len(s)
    /\ \A i \in 1..(b - 1) : s[i] = "\n"
    /\ s[b] = "fence"
    /\ \A i \in (b + 1)..(e - 1) : s[i] # "\n"
    /\ \A i \in e..(o - 1) : s[i] = "\n"
    /\ s[o] # "\n"

(* The last ink is at p, or a fence follows it, which is the last. *)
EndsAt(s, e, p) ==
    /\ s[p] # "\n"
    /\ \/ /\ \A i \in (e + 1)..p : s[i] # "fence"
          /\ \A i \in (p + 1)..Len(s) : s[i] = "\n"
       \/ \E c \in (p + 1)..Len(s) :
             /\ \A i \in (p + 1)..(c - 1) : s[i] = "\n"
             /\ s[c] = "fence" /\ \A i \in (c + 1)..Len(s) : s[i] # "fence"

(* What lies between fences, of which the second may be missing, is what   *)
(* StripFences leaves.                                                     *)
LEMMA StripsFence ==
    ASSUME NEW A, NEW s \in Seq(A), NEW b, NEW e, NEW o, NEW p \in o..Len(s),
           FenceAt(s, b, e, o), EndsAt(s, e, p)
    PROVE  StripFences(s) = SubSeq(s, o, p)
<1> USE DEF FenceAt, EndsAt
<1> DEFINE t == TrimSpace(s)
           inner == SubSeq(t, IF Index(t, "\n") > 0 THEN Index(t, "\n") + 1 ELSE 2, Len(t))
           close == LastIndex(inner, "fence")
<1>1. StripFences(s) = IF t # <<>> /\ t[1] = "fence" THEN TrimSpace(Unfence(t)) ELSE StripFences(s)
  BY DEF StripFences
<1>2. Unfence(t) = IF close > 0 THEN SubSeq(inner, 1, close - 1) ELSE inner
  BY DEF Unfence
<1>3. PICK z \in p..Len(s) : s[z] # "\n" /\ \A i \in (z + 1)..Len(s) : s[i] = "\n"
  BY LastInk
<1>4. t = SubSeq(s, b, z)
  <2>1. z \in b..Len(s) /\ s[b] # "\n"
    OBVIOUS
  <2> QED BY <1>3, <2>1, TrimSpaceIs
<1>5. t \in Seq(A) /\ Len(t) = z - b + 1 /\ \A i \in 1..(z - b + 1) : t[i] = s[b + i - 1]
  <2>1. z \in b..Len(s)
    OBVIOUS
  <2> QED BY <1>4, <2>1, PieceOf
<1> HIDE DEF t
<1>6. t # <<>> /\ t[1] = "fence"
  BY <1>5
<1>7. Index(t, "\n") = e - b + 1
  <2> DEFINE k == e - b + 1
  <2>1. k \in 1..Len(t) /\ t[k] = "\n"
    <3>1. s[e] = "\n" /\ b + k - 1 = e /\ k \in 1..(z - b + 1)
      OBVIOUS
    <3> HIDE DEF k
    <3> QED BY <1>5, <3>1
  <2>2. ASSUME NEW j \in 1..(k - 1) PROVE t[j] # "\n"
    <3>1. t[j] = s[b + j - 1]
      BY <1>5, <2>1
    <3>2. b + j - 1 = b \/ b + j - 1 \in (b + 1)..(e - 1)
      OBVIOUS
    <3>3. s[b] # "\n"
      OBVIOUS
    <3> QED BY <3>1, <3>2, <3>3
  <2> HIDE DEF k
  <2>3. Index(t, "\n") = k
    BY <1>5, <2>1, <2>2, IndexIs
  <2> QED BY <2>3 DEF k
<1>8. inner = SubSeq(s, e + 1, z)
  <2>1. inner = SubSeq(t, e - b + 2, Len(t))
    <3>1. Index(t, "\n") > 0 /\ Index(t, "\n") + 1 = e - b + 2
      BY <1>7
    <3> QED BY <3>1
  <2>2. e + 1 \in b..z /\ z \in (e + 1)..z /\ (e + 1) - b + 1 = e - b + 2 /\ Len(t) = z - b + 1
    BY <1>5
  <2>3. z \in b..Len(s)
    OBVIOUS
  <2>4. SubSeq(SubSeq(s, b, z), (e + 1) - b + 1, z - b + 1) = SubSeq(s, e + 1, z)
    BY <2>2, <2>3, PieceOfPiece
  <2> QED BY <1>4, <2>1, <2>2, <2>4
<1>9. /\ inner \in Seq(A) /\ Len(inner) = z - e
      /\ \A i \in 1..(z - e) : inner[i] = s[e + i]
  <2>1. e + 1 \in 1..Len(s) /\ z \in (e + 1)..Len(s) /\ z - (e + 1) + 1 = z - e
    OBVIOUS
  <2>2. /\ SubSeq(s, e + 1, z) \in Seq(A) /\ Len(SubSeq(s, e + 1, z)) = z - (e + 1) + 1
        /\ \A i \in 1..(z - (e + 1) + 1) : SubSeq(s, e + 1, z)[i] = s[e + 1 + i - 1]
    BY <2>1, PieceOf
  <2>3. \A i \in 1..(z - e) : e + 1 + i - 1 = e + i
    OBVIOUS
  <2> HIDE DEF inner
  <2> QED BY <1>8, <2>1, <2>2, <2>3
<1> HIDE DEF inner
<1>10. \E y \in p..z : Unfence(t) = SubSeq(s, e + 1, y) /\ \A i \in (p + 1)..y : s[i] = "\n"
  <2>1. CASE /\ \A i \in (e + 1)..p : s[i] # "fence"
             /\ \A i \in (p + 1)..Len(s) : s[i] = "\n"
    <3>1. z = p
      BY <1>3, <2>1
    <3>2. ASSUME NEW i \in 1..Len(inner) PROVE inner[i] # "fence"
      <4>1. e + i \in (e + 1)..p /\ i \in 1..(z - e)
        BY <1>9, <3>1
      <4>2. s[e + i] # "fence"
        BY <2>1, <4>1
      <4> QED BY <1>9, <4>1, <4>2
    <3>3. close = 0
      BY <3>2, LastIndexNone
    <3> QED BY <1>2, <1>8, <3>1, <3>3
  <2>2. ASSUME NEW c \in (p + 1)..Len(s), \A i \in (p + 1)..(c - 1) : s[i] = "\n",
               s[c] = "fence", \A i \in (c + 1)..Len(s) : s[i] # "fence"
        PROVE  Unfence(t) = SubSeq(s, e + 1, c - 1) /\ c - 1 \in p..z
    <3>1. c \in (p + 1)..z
      BY <1>3, <2>2
    <3>2. c - e \in 1..Len(inner) /\ inner[c - e] = "fence"
      BY <1>9, <2>2, <3>1
    <3>3. ASSUME NEW j \in (c - e + 1)..Len(inner) PROVE inner[j] # "fence"
      <4>1. e + j \in (c + 1)..Len(s) /\ inner[j] = s[e + j]
        BY <1>9, <3>1
      <4> QED BY <2>2, <4>1
    <3>4. close = c - e
      BY <1>9, <3>2, <3>3, LastIndexIs
    <3>5. Unfence(t) = SubSeq(inner, 1, c - e - 1)
      BY <1>2, <3>1, <3>4
    <3>6. /\ e + 1 \in 1..Len(s) /\ z \in (e + 1)..Len(s) /\ e + 1 \in (e + 1)..z
          /\ c - 1 \in (e + 1)..z /\ (e + 1) - (e + 1) + 1 = 1 /\ (c - 1) - (e + 1) + 1 = c - e - 1
      BY <3>1
    <3>7. SubSeq(SubSeq(s, e + 1, z), (e + 1) - (e + 1) + 1, (c - 1) - (e + 1) + 1)
              = SubSeq(s, e + 1, c - 1)
      BY <3>6, PieceOfPiece
    <3>8. Unfence(t) = SubSeq(s, e + 1, c - 1)
      BY <1>8, <3>5, <3>6, <3>7
    <3> QED BY <3>1, <3>8
  <2> QED BY <2>1, <2>2
<1>11. PICK y \in p..z : Unfence(t) = SubSeq(s, e + 1, y) /\ \A i \in (p + 1)..y : s[i] = "\n"
  BY <1>10
<1> DEFINE u == SubSeq(s, e + 1, y)
<1>12. u \in Seq(A) /\ Len(u) = y - e /\ \A i \in 1..(y - e) : u[i] = s[e + i]
  <2>1. e + 1 \in 1..Len(s) /\ y \in (e + 1)..Len(s) /\ y - (e + 1) + 1 = y - e
    OBVIOUS
  <2>2. /\ SubSeq(s, e + 1, y) \in Seq(A) /\ Len(SubSeq(s, e + 1, y)) = y - (e + 1) + 1
        /\ \A i \in 1..(y - (e + 1) + 1) : SubSeq(s, e + 1, y)[i] = s[e + 1 + i - 1]
    BY <2>1, PieceOf
  <2>3. \A i \in 1..(y - e) : e + 1 + i - 1 = e + i
    OBVIOUS
  <2>4. u = SubSeq(s, e + 1, y)
    OBVIOUS
  <2> HIDE DEF u
  <2> QED BY <2>1, <2>2, <2>3, <2>4
<1> HIDE DEF u
<1>13. TrimSpace(u) = SubSeq(u, o - e, p - e)
  <2>1. o - e \in 1..Len(u) /\ p - e \in (o - e)..Len(u) /\ u[o - e] # "\n" /\ u[p - e] # "\n"
    BY <1>12
  <2>2. ASSUME NEW i \in 1..(o - e - 1) PROVE u[i] = "\n"
    <3>1. e + i \in e..(o - 1) /\ i \in 1..(y - e)
      OBVIOUS
    <3> QED BY <1>12, <3>1
  <2>3. ASSUME NEW i \in (p - e + 1)..Len(u) PROVE u[i] = "\n"
    <3>1. e + i \in (p + 1)..y /\ i \in 1..(y - e)
      BY <1>12
    <3> QED BY <1>11, <1>12, <3>1
  <2> DEFINE k == o - e
             m == p - e
  <2>4. /\ k \in 1..Len(u) /\ m \in k..Len(u) /\ u[k] # "\n" /\ u[m] # "\n"
        /\ \A i \in 1..(k - 1) : u[i] = "\n"
        /\ \A i \in (m + 1)..Len(u) : u[i] = "\n"
    BY <2>1, <2>2, <2>3
  <2> HIDE DEF k, m
  <2>5. TrimSpace(u) = SubSeq(u, k, m)
    BY <1>12, <2>4, TrimSpaceIs
  <2> QED BY <2>5 DEF k, m
<1>14. SubSeq(u, o - e, p - e) = SubSeq(s, o, p)
  <2>1. /\ e + 1 \in 1..Len(s) /\ y \in (e + 1)..Len(s) /\ o \in (e + 1)..y /\ p \in o..y
        /\ o - (e + 1) + 1 = o - e /\ p - (e + 1) + 1 = p - e
    OBVIOUS
  <2>2. SubSeq(SubSeq(s, e + 1, y), o - (e + 1) + 1, p - (e + 1) + 1) = SubSeq(s, o, p)
    BY <2>1, PieceOfPiece
  <2> QED BY <2>1, <2>2 DEF u
<1> QED BY <1>1, <1>6, <1>11, <1>13, <1>14 DEF u

(* The first ink is no fence, at b; o is it, or the first open brace. *)
OpensAt(s, b, o) ==
    /\ b \in 1..Len(s) /\ o \in b..Len(s)
    /\ \A i \in 1..(b - 1) : s[i] = "\n"
    /\ s[b] \notin {"\n", "fence"} /\ s[o] = "lbrace"
    /\ \A i \in b..(o - 1) : s[i] # "lbrace"

(* Then p is the last ink, or the last closing brace. *)
StopsAt(s, b, o, p) ==
    /\ p \in (o + 1)..Len(s) /\ s[p] # "\n"
    /\ \/ b = o /\ \A i \in (p + 1)..Len(s) : s[i] = "\n"
       \/ b < o /\ s[p] = "rbrace" /\ \A i \in (p + 1)..Len(s) : s[i] # "rbrace"

(* A text that begins with a brace is left as it is, of one that begins    *)
(* with prose what lies between the outermost braces.                      *)
LEMMA StripsProse ==
    ASSUME NEW A, NEW s \in Seq(A), NEW b, NEW o, NEW p, OpensAt(s, b, o), StopsAt(s, b, o, p)
    PROVE  StripFences(s) = SubSeq(s, o, p)
<1> USE DEF OpensAt, StopsAt
<1> DEFINE t == TrimSpace(s)
           start == Index(t, "lbrace")
           end == LastIndex(t, "rbrace")
<1>1. t # <<>> /\ t[1] # "fence"
          => StripFences(s) = IF start > 1 /\ end > start THEN SubSeq(t, start, end) ELSE t
  BY DEF StripFences
<1>2. PICK z \in p..Len(s) : s[z] # "\n" /\ \A i \in (z + 1)..Len(s) : s[i] = "\n"
  <2>1. s[p] # "\n" /\ p \in 1..Len(s)
    OBVIOUS
  <2> QED BY <2>1, LastInk
<1>3. t = SubSeq(s, b, z)
  <2>1. z \in b..Len(s) /\ s[b] # "\n"
    OBVIOUS
  <2> QED BY <1>2, <2>1, TrimSpaceIs
<1>4. t \in Seq(A) /\ Len(t) = z - b + 1 /\ \A i \in 1..(z - b + 1) : t[i] = s[b + i - 1]
  <2>1. z \in b..Len(s)
    OBVIOUS
  <2> QED BY <1>3, <2>1, PieceOf
<1> HIDE DEF t
<1>5. t # <<>> /\ t[1] # "fence"
  BY <1>4
<1>6. start = o - b + 1
  <2> DEFINE k == o - b + 1
  <2>1. k \in 1..Len(t) /\ t[k] = "lbrace"
    BY <1>4
  <2>2. ASSUME NEW j \in 1..(k - 1) PROVE t[j] # "lbrace"
    <3>1. t[j] = s[b + j - 1] /\ b + j - 1 \in b..(o - 1)
      BY <1>4, <2>1
    <3> QED BY <3>1
  <2> HIDE DEF k
  <2>3. Index(t, "lbrace") = k
    BY <1>4, <2>1, <2>2, IndexIs
  <2> QED BY <2>3 DEF k
<1>7. CASE b = o /\ \A i \in (p + 1)..Len(s) : s[i] = "\n"
  <2>1. z = p
    BY <1>2, <1>7
  <2>2. start = 1
    BY <1>6, <1>7
  <2> HIDE DEF start, end
  <2>3. ~(start > 1)
    BY <2>2
  <2>4. StripFences(s) = t
    BY <1>1, <1>5, <2>3
  <2>5. t = SubSeq(s, o, p)
    BY <1>3, <1>7, <2>1
  <2> QED BY <2>4, <2>5
<1>8. CASE b < o /\ s[p] = "rbrace" /\ \A i \in (p + 1)..Len(s) : s[i] # "rbrace"
  <2>1. end = p - b + 1
    <3> DEFINE k == p - b + 1
    <3>1. k \in 1..Len(t) /\ t[k] = "rbrace"
      BY <1>4, <1>8
    <3>2. ASSUME NEW j \in (k + 1)..Len(t) PROVE t[j] # "rbrace"
      <4>1. t[j] = s[b + j - 1] /\ b + j - 1 \in (p + 1)..Len(s)
        BY <1>4, <3>1
      <4> QED BY <1>8, <4>1
    <3> HIDE DEF k
    <3>3. LastIndex(t, "rbrace") = k
      BY <1>4, <3>1, <3>2, LastIndexIs
    <3> QED BY <3>3 DEF k
  <2> HIDE DEF start, end
  <2>2. StripFences(s) = SubSeq(t, o - b + 1, p - b + 1)
    BY <1>1, <1>5, <1>6, <1>8, <2>1
  <2>3. z \in b..Len(s) /\ o \in b..z /\ p \in o..z
    OBVIOUS
  <2>4. SubSeq(SubSeq(s, b, z), o - b + 1, p - b + 1) = SubSeq(s, o, p)
    BY <2>3, PieceOfPiece
  <2> QED BY <1>3, <2>2, <2>4
<1> QED BY <1>7, <1>8

(* A blank piece in front, place by place. *)
LEMMA BlankFront ==
    ASSUME NEW A, NEW s \in Seq(A), NEW b \in 1..Len(s), IsBlank(SubSeq(s, 1, b - 1))
    PROVE  \A i \in 1..(b - 1) : s[i] = "\n"
<1> SUFFICES ASSUME NEW i \in 1..(b - 1) PROVE s[i] = "\n"
  OBVIOUS
<1>1. 1 \in 1..Len(s) /\ b - 1 \in 1..Len(s) /\ (b - 1) - 1 + 1 = b - 1 /\ 1 + i - 1 = i
  OBVIOUS
<1>2. /\ Len(SubSeq(s, 1, b - 1)) = (b - 1) - 1 + 1
      /\ \A j \in 1..((b - 1) - 1 + 1) : SubSeq(s, 1, b - 1)[j] = s[1 + j - 1]
  BY <1>1, PieceOf
<1>3. SubSeq(s, 1, b - 1)[i] = "\n"
  BY <1>1, <1>2 DEF IsBlank
<1> QED BY <1>1, <1>2, <1>3

(* A blank piece at the end, place by place. *)
LEMMA BlankBack ==
    ASSUME NEW A, NEW s \in Seq(A), NEW e \in 1..Len(s), IsBlank(SubSeq(s, e, Len(s)))
    PROVE  \A i \in e..Len(s) : s[i] = "\n"
<1> SUFFICES ASSUME NEW i \in e..Len(s) PROVE s[i] = "\n"
  OBVIOUS
<1> DEFINE k == i - e + 1
<1>1. Len(s) \in e..Len(s) /\ k \in 1..(Len(s) - e + 1) /\ e + k - 1 = i
  OBVIOUS
<1>2. /\ Len(SubSeq(s, e, Len(s))) = Len(s) - e + 1
      /\ \A j \in 1..(Len(s) - e + 1) : SubSeq(s, e, Len(s))[j] = s[e + j - 1]
  BY <1>1, PieceOf
<1> HIDE DEF k
<1>3. SubSeq(s, e, Len(s))[k] = "\n"
  BY <1>1, <1>2 DEF IsBlank
<1> QED BY <1>1, <1>2, <1>3

(* Where the tokens of a wrapped object are. *)
Embeds(raw, before, object, after, o, p) ==
    /\ o \in 1..Len(raw) /\ p \in o..Len(raw) /\ Len(raw) = p + Len(after)
    /\ \A i \in 1..(o - 1) : raw[i] = before[i]
    /\ \A i \in o..p : raw[i] = object[i - o + 1]
    /\ \A i \in (p + 1)..Len(raw) : raw[i] = after[i - p]
    /\ SubSeq(raw, o, p) = object

(* An object is in the text it is wrapped in. *)
LEMMA WrappedAt ==
    ASSUME NEW A, NEW before \in Seq(A), NEW object \in Seq(A), NEW after \in Seq(A),
           object # <<>>
    PROVE  /\ before \o object \o after \in Seq(A)
           /\ Embeds(before \o object \o after, before, object, after,
                     Len(before) + 1, Len(before) + Len(object))
<1> DEFINE front == before \o object
           raw == front \o after
           o   == Len(before) + 1
           p   == Len(before) + Len(object)
<1>1. /\ front \in Seq(A) /\ Len(front) = p
      /\ \A i \in 1..p : front[i] = IF i <= Len(before) THEN before[i] ELSE object[i - Len(before)]
  BY ConcatProperties
<1> HIDE DEF front
<1>2. /\ raw \in Seq(A) /\ Len(raw) = Len(front) + Len(after)
      /\ \A i \in 1..(Len(front) + Len(after)) :
             raw[i] = IF i <= Len(front) THEN front[i] ELSE after[i - Len(front)]
  <2>1. front \in Seq(A)
    BY <1>1
  <2> QED BY <2>1, ConcatProperties
<1> HIDE DEF raw
<1>3. Len(before) \in Nat /\ Len(object) \in Nat \ {0} /\ Len(after) \in Nat
  BY EmptySeq
<1>4. o \in 1..Len(raw) /\ p \in o..Len(raw) /\ Len(raw) = p + Len(after)
  BY <1>1, <1>2, <1>3
<1>5. ASSUME NEW i \in 1..(o - 1) PROVE raw[i] = before[i]
  BY <1>1, <1>2, <1>3
<1>6. ASSUME NEW i \in o..p PROVE raw[i] = object[i - o + 1]
  <2>1. i - o + 1 = i - Len(before) /\ ~(i <= Len(before)) /\ i \in 1..p
    BY <1>3
  <2> QED BY <1>1, <1>2, <1>3, <2>1
<1>7. ASSUME NEW i \in (p + 1)..Len(raw) PROVE raw[i] = after[i - p]
  BY <1>1, <1>2, <1>3
<1>8. SubSeq(raw, o, p) = object
  <2> DEFINE piece == SubSeq(raw, o, p)
  <2>1. piece \in Seq(A) /\ Len(piece) = p - o + 1 /\ \A i \in 1..(p - o + 1) : piece[i] = raw[o + i - 1]
    <3> HIDE DEF o, p
    <3> QED BY <1>2, <1>4, PieceOf
  <2> HIDE DEF piece
  <2>2. Len(piece) = Len(object)
    BY <1>3, <2>1
  <2>3. ASSUME NEW i \in 1..Len(piece) PROVE piece[i] = object[i]
    <3>1. o + i - 1 \in o..p /\ (o + i - 1) - o + 1 = i
      BY <1>3, <2>2
    <3> HIDE DEF o, p
    <3> QED BY <1>6, <2>1, <3>1
  <2>4. piece = object
    BY <2>1, <2>2, <2>3, SeqEqual
  <2> QED BY <2>4 DEF piece
<1>9. raw \in Seq(A) /\ Embeds(raw, before, object, after, o, p)
  <2> HIDE DEF o, p
  <2> QED BY <1>2, <1>4, <1>5, <1>6, <1>7, <1>8 DEF Embeds
<1> QED BY <1>9 DEF raw, front

(* ObjectIsUnwrapped, of any result and reply. *)
Unwraps(result, before, object, after) ==
    LET Whole == result = object
    IN  /\ IsBlank(before) => (Whole <=> IsBlank(after))
        /\ OpensFence(before) =>
               (Whole <=> \/ ClosesFence(after)
                          \/ IsBlank(after) /\ Places(object, "fence") = {})
        /\ Introduces(before) =>
               (Whole <=> Places(before, "lbrace") = {} /\ Places(after, "rbrace") = {})

(* What StripFences makes of a reply, by what is around the object.  The   *)
(* result is a piece of the reply: it is the object if it begins and ends  *)
(* with it, and a longer or a shorter one is not.                          *)
LEMMA StripFencesUnwraps ==
    ASSUME NEW before \in Seq(STRING), NEW object \in Seq(STRING), NEW after \in Seq(STRING),
           Len(object) >= 2, object[1] = "lbrace", object[Len(object)] = "rbrace"
    PROVE  Unwraps(StripFences(before \o object \o after), before, object, after)
<1> DEFINE raw    == before \o object \o after
           o      == Len(before) + 1
           p      == Len(before) + Len(object)
<1>1. /\ raw \in Seq(STRING) /\ o \in 1..Len(raw) /\ p \in o..Len(raw)
      /\ Len(raw) = p + Len(after)
      /\ \A i \in 1..(o - 1) : raw[i] = before[i]
      /\ \A i \in o..p : raw[i] = object[i - o + 1]
      /\ \A i \in (p + 1)..Len(raw) : raw[i] = after[i - p]
      /\ SubSeq(raw, o, p) = object
  <2>1. object # <<>>
    OBVIOUS
  <2>2. raw \in Seq(STRING) /\ Embeds(raw, before, object, after, o, p)
    BY <2>1, WrappedAt
  <2> HIDE DEF raw, o, p
  <2> QED BY <2>2 DEF Embeds
<1> HIDE DEF raw
<1>2. raw \in Seq(STRING)
  BY <1>1
<1>4. Len(before) \in Nat /\ Len(after) \in Nat /\ p - o + 1 = Len(object) /\ o < p
  OBVIOUS
<1>5. raw[o] = "lbrace" /\ raw[p] = "rbrace"
  <2>1. o \in o..p /\ p \in o..p /\ o - o + 1 = 1
    OBVIOUS
  <2> QED BY <1>1, <1>4, <2>1
<1>6. IsBlank(after) => \A i \in (p + 1)..Len(raw) : raw[i] = "\n"
  BY <1>1, <1>4 DEF IsBlank
<1>7. ASSUME NEW x \in 1..Len(raw), NEW y \in x..Len(raw), y - x # p - o
      PROVE  SubSeq(raw, x, y) # object
  <2>1. Len(SubSeq(raw, x, y)) = y - x + 1
    BY <1>1, PieceOf
  <2>2. y - x + 1 # Len(object)
    BY <1>4, <1>7
  <2> QED BY <2>1, <2>2
<1>8. ASSUME NEW k \in 1..Len(after) PROVE p + k \in (p + 1)..Len(raw) /\ raw[p + k] = after[k]
  <2>1. p + k \in (p + 1)..Len(raw) /\ (p + k) - p = k
    BY <1>1, <1>4
  <2> QED BY <1>1, <2>1
<1>9. ASSUME IsBlank(before) PROVE StripFences(raw) = object <=> IsBlank(after)
  <2>1. \A i \in 1..(o - 1) : raw[i] = "\n"
    BY <1>1, <1>4, <1>9 DEF IsBlank
  <2>2. raw[o] \notin {"\n", "fence"} /\ o \in o..Len(raw) /\ raw[p] # "\n" /\ p \in (o + 1)..Len(raw)
    BY <1>1, <1>4, <1>5
  <2>3. ASSUME IsBlank(after) PROVE StripFences(raw) = object
    <3> HIDE DEF o, p
    <3>1. OpensAt(raw, o, o) /\ StopsAt(raw, o, o, p)
      BY <1>1, <1>5, <1>6, <2>1, <2>2, <2>3 DEF OpensAt, StopsAt
    <3>2. StripFences(raw) = SubSeq(raw, o, p)
      BY <1>2, <3>1, StripsProse, Zenon
    <3> QED BY <1>1, <3>2
  <2>4. ASSUME ~IsBlank(after) PROVE StripFences(raw) # object
    <3>1. PICK k \in 1..Len(after) : after[k] # "\n"
      BY <2>4 DEF IsBlank
    <3>2. p + k \in 1..Len(raw) /\ raw[p + k] # "\n" /\ p + k > p
      BY <1>1, <1>4, <1>8, <3>1
    <3>3. PICK z \in (p + k)..Len(raw) : raw[z] # "\n" /\ \A i \in (z + 1)..Len(raw) : raw[i] = "\n"
      BY <1>1, <3>2, LastInk
    <3>4. z \in (o + 1)..Len(raw) /\ z \in o..Len(raw) /\ z - o # p - o
      BY <1>1, <1>4, <3>2, <3>3
    <3> HIDE DEF o, p
    <3>5. OpensAt(raw, o, o) /\ StopsAt(raw, o, o, z)
      BY <1>1, <1>5, <2>1, <2>2, <3>3, <3>4 DEF OpensAt, StopsAt
    <3>6. StripFences(raw) = SubSeq(raw, o, z)
      BY <1>2, <3>5, StripsProse, Zenon
    <3> QED BY <1>1, <1>7, <3>4, <3>6
  <2> QED BY <2>3, <2>4
<1>10. ASSUME Introduces(before)
       PROVE  StripFences(raw) = object
                  <=> Places(before, "lbrace") = {} /\ Places(after, "rbrace") = {}
  <2>1. PICK b \in 1..Len(before) :
            IsBlank(SubSeq(before, 1, b - 1)) /\ before[b] \notin {"\n", "fence"}
    BY <1>10 DEF Introduces
  <2>2. \A i \in 1..(b - 1) : before[i] = "\n"
    BY <2>1, BlankFront
  <2>3. /\ b \in 1..Len(raw) /\ o \in b..Len(raw) /\ p \in (o + 1)..Len(raw) /\ b < o
        /\ \A i \in 1..(b - 1) : raw[i] = "\n"
        /\ raw[b] \notin {"\n", "fence"}
    <3>1. b < o /\ b \in 1..(o - 1) /\ \A i \in 1..(b - 1) : i \in 1..(o - 1)
      BY <1>4
    <3>2. b \in 1..Len(raw) /\ o \in b..Len(raw) /\ p \in (o + 1)..Len(raw)
      BY <1>1, <1>4
    <3> HIDE DEF o, p
    <3> QED BY <1>1, <2>1, <2>2, <3>1, <3>2
  <2>4. ASSUME Places(before, "lbrace") = {}, Places(after, "rbrace") = {}
        PROVE  StripFences(raw) = object
    <3>1. ASSUME NEW i \in b..(o - 1) PROVE raw[i] # "lbrace"
      <4>1. i \in 1..(o - 1) /\ i \in 1..Len(before)
        BY <1>4
      <4> QED BY <1>1, <2>4, <4>1 DEF Places
    <3>2. ASSUME NEW i \in (p + 1)..Len(raw) PROVE raw[i] # "rbrace"
      <4>1. i - p \in 1..Len(after) /\ raw[i] = after[i - p]
        BY <1>1, <1>4
      <4> QED BY <2>4, <4>1 DEF Places
    <3> HIDE DEF o, p
    <3>3. OpensAt(raw, b, o) /\ StopsAt(raw, b, o, p)
      BY <1>1, <1>5, <2>3, <3>1, <3>2 DEF OpensAt, StopsAt
    <3>4. StripFences(raw) = SubSeq(raw, o, p)
      BY <1>2, <3>3, StripsProse, Zenon
    <3> QED BY <1>1, <3>4
  <2>5. ASSUME raw[b] = "lbrace" PROVE StripFences(raw) # object
    <3>1. PICK z \in p..Len(raw) : raw[z] # "\n" /\ \A i \in (z + 1)..Len(raw) : raw[i] = "\n"
      <4>1. p \in 1..Len(raw) /\ raw[p] # "\n"
        BY <1>1, <1>5
      <4> HIDE DEF o, p
      <4> QED BY <1>1, <4>1, LastInk
    <3>2. b \in b..Len(raw) /\ z \in (b + 1)..Len(raw) /\ z \in b..Len(raw) /\ z - b # p - o
      BY <2>3, <3>1
    <3> HIDE DEF o, p
    <3>3. OpensAt(raw, b, b) /\ StopsAt(raw, b, b, z)
      BY <1>1, <2>3, <2>5, <3>1, <3>2 DEF OpensAt, StopsAt
    <3>4. StripFences(raw) = SubSeq(raw, b, z)
      BY <1>2, <3>3, StripsProse, Zenon
    <3> QED BY <1>7, <2>3, <3>2, <3>4
  <2>6. ASSUME raw[b] # "lbrace",
               Places(before, "lbrace") # {} \/ Places(after, "rbrace") # {}
        PROVE  StripFences(raw) # object
    <3>1. PICK x \in 1..Len(raw) :
              /\ raw[x] = "lbrace" /\ \A i \in 1..(x - 1) : raw[i] # "lbrace"
      <4> DEFINE S == {n \in Nat : n \in 1..Len(raw) /\ raw[n] = "lbrace"}
      <4>1. o \in S
        BY <1>1, <1>5
      <4>2. PICK x \in S : \A n \in S : x <= n
        <5> HIDE DEF S
        <5>1. S \in SUBSET Nat
          BY DEF S
        <5> QED BY <4>1, <5>1, LeastNumber
      <4>3. \A i \in 1..(x - 1) : i \in Nat /\ i \in 1..Len(raw) /\ ~(x <= i)
        BY <1>1, <4>2
      <4> QED BY <4>2, <4>3
    <3>2. PICK y \in 1..Len(raw) :
              /\ raw[y] = "rbrace" /\ \A i \in (y + 1)..Len(raw) : raw[i] # "rbrace"
      <4> DEFINE S == {n \in 1..Len(raw) : raw[n] = "rbrace"}
      <4>1. p \in S /\ S \in SUBSET (1..Len(raw)) /\ Len(raw) \in Nat
        BY <1>1, <1>5
      <4>2. PICK y \in S : \A n \in S : n <= y
        <5> HIDE DEF S
        <5> QED BY <4>1, HasGreatest
      <4>3. \A i \in (y + 1)..Len(raw) : i \in 1..Len(raw) /\ ~(i <= y)
        BY <1>1, <4>2
      <4> QED BY <4>2, <4>3
    <3>3. x <= o
      <4>1. ~(o \in 1..(x - 1))
        BY <1>5, <3>1
      <4> QED BY <1>1, <4>1
    <3>4. y >= p
      <4>1. ~(p \in (y + 1)..Len(raw))
        BY <1>5, <3>2
      <4> QED BY <1>1, <4>1
    <3>5. b < x
      <4>1. ~(x \in 1..(b - 1)) /\ x # b
        BY <2>3, <2>6, <3>1
      <4> QED BY <2>3, <4>1
    <3>6. x < o \/ y > p
      <4>1. ASSUME NEW k \in 1..Len(before), before[k] = "lbrace" PROVE x < o
        <5>1. k \in 1..(o - 1) /\ raw[k] = "lbrace"
          BY <1>1, <1>4, <4>1
        <5>2. ~(k \in 1..(x - 1))
          BY <3>1, <5>1
        <5> QED BY <1>1, <3>1, <5>1, <5>2
      <4>2. ASSUME NEW k \in 1..Len(after), after[k] = "rbrace" PROVE y > p
        <5>1. p + k \in (p + 1)..Len(raw) /\ raw[p + k] = "rbrace"
          BY <1>8, <4>2
        <5>2. ~(p + k \in (y + 1)..Len(raw))
          BY <3>2, <5>1
        <5> QED BY <1>1, <3>2, <5>1, <5>2
      <4> QED BY <2>6, <4>1, <4>2 DEF Places
    <3>7. /\ x \in b..Len(raw) /\ y \in (x + 1)..Len(raw) /\ y \in x..Len(raw) /\ y - x # p - o
          /\ \A i \in b..(x - 1) : raw[i] # "lbrace"
      BY <1>1, <1>4, <2>3, <3>1, <3>2, <3>3, <3>4, <3>5, <3>6
    <3> HIDE DEF o, p
    <3>8. OpensAt(raw, b, x) /\ StopsAt(raw, b, x, y)
      BY <1>1, <2>3, <3>1, <3>2, <3>5, <3>7 DEF OpensAt, StopsAt
    <3>9. StripFences(raw) = SubSeq(raw, x, y)
      BY <1>2, <3>8, StripsProse, Zenon
    <3> QED BY <1>7, <3>1, <3>7, <3>9
  <2>7. ASSUME raw[b] = "lbrace" PROVE Places(before, "lbrace") # {}
    <3>1. before[b] = "lbrace"
      BY <1>1, <2>3, <2>7
    <3> QED BY <3>1 DEF Places
  <2> QED BY <2>4, <2>5, <2>6, <2>7
<1>11. ASSUME OpensFence(before)
       PROVE  StripFences(raw) = object
                  <=> ClosesFence(after) \/ (IsBlank(after) /\ Places(object, "fence") = {})
  <2>1. PICK b \in 1..Len(before) : \E e \in (b + 1)..Len(before) :
            /\ IsBlank(SubSeq(before, 1, b - 1)) /\ before[b] = "fence"
            /\ \A i \in (b + 1)..(e - 1) : before[i] # "\n"
            /\ IsBlank(SubSeq(before, e, Len(before)))
    BY <1>11 DEF OpensFence
  <2>2. PICK e \in (b + 1)..Len(before) :
            /\ IsBlank(SubSeq(before, 1, b - 1)) /\ before[b] = "fence"
            /\ \A i \in (b + 1)..(e - 1) : before[i] # "\n"
            /\ IsBlank(SubSeq(before, e, Len(before)))
    BY <2>1
  <2>3. \A i \in 1..(b - 1) : before[i] = "\n"
    BY <2>2, BlankFront
  <2>4. \A i \in e..Len(before) : before[i] = "\n"
    <3>1. e \in 1..Len(before)
      BY <1>4
    <3> QED BY <2>2, <3>1, BlankBack
  <2>5. /\ b \in 1..Len(raw) /\ e \in (b + 1)..Len(raw) /\ o \in (e + 1)..Len(raw)
        /\ \A i \in 1..(b - 1) : raw[i] = "\n"
        /\ raw[b] = "fence" /\ \A i \in (b + 1)..(e - 1) : raw[i] # "\n"
        /\ \A i \in e..(o - 1) : raw[i] = "\n"
    <3>1. /\ b \in 1..(o - 1) /\ \A i \in 1..(b - 1) : i \in 1..(o - 1)
          /\ \A i \in (b + 1)..(e - 1) : i \in 1..(o - 1)
          /\ \A i \in e..(o - 1) : i \in 1..(o - 1) /\ i \in e..Len(before)
      BY <1>4
    <3>2. /\ b \in 1..Len(raw) /\ e \in (b + 1)..Len(raw)
          /\ o \in (e + 1)..Len(raw) /\ p \in o..Len(raw)
      BY <1>1, <1>4
    <3> HIDE DEF o, p
    <3> QED BY <1>1, <2>2, <2>3, <2>4, <3>1, <3>2
  <2>6. FenceAt(raw, b, e, o) /\ raw[o] # "\n" /\ raw[p] # "\n"
    <3> HIDE DEF o, p
    <3> QED BY <1>1, <1>5, <2>5 DEF FenceAt
  <2>7. ASSUME ClosesFence(after) \/ (IsBlank(after) /\ Places(object, "fence") = {})
        PROVE  StripFences(raw) = object
    <3>1. \/ /\ \A i \in (e + 1)..p : raw[i] # "fence"
             /\ \A i \in (p + 1)..Len(raw) : raw[i] = "\n"
          \/ \E c \in (p + 1)..Len(raw) :
                /\ \A i \in (p + 1)..(c - 1) : raw[i] = "\n"
                /\ raw[c] = "fence" /\ \A i \in (c + 1)..Len(raw) : raw[i] # "fence"
      <4>1. CASE ClosesFence(after)
        <5>1. PICK f \in 1..Len(after) :
                  /\ IsBlank(SubSeq(after, 1, f - 1)) /\ after[f] = "fence"
                  /\ \A i \in (f + 1)..Len(after) : after[i] # "fence"
          BY <4>1 DEF ClosesFence
        <5>2. \A i \in 1..(f - 1) : after[i] = "\n"
          BY <5>1, BlankFront
        <5> DEFINE c == p + f
        <5>3. c \in (p + 1)..Len(raw) /\ raw[c] = "fence"
          <6>1. c \in (p + 1)..Len(raw) /\ c - p = f
            BY <1>1, <1>4
          <6> QED BY <1>1, <5>1, <6>1
        <5>4. ASSUME NEW i \in (p + 1)..(c - 1) PROVE raw[i] = "\n"
          <6>1. i - p \in 1..(f - 1) /\ i \in (p + 1)..Len(raw)
            BY <1>1, <1>4, <5>3
          <6> QED BY <1>1, <5>2, <6>1
        <5>5. ASSUME NEW i \in (c + 1)..Len(raw) PROVE raw[i] # "fence"
          <6>1. i - p \in (f + 1)..Len(after) /\ i \in (p + 1)..Len(raw)
            BY <1>1, <1>4, <5>3
          <6> QED BY <1>1, <5>1, <6>1
        <5> HIDE DEF c
        <5> QED BY <5>3, <5>4, <5>5
      <4>2. CASE IsBlank(after) /\ Places(object, "fence") = {}
        <5>1. ASSUME NEW i \in (e + 1)..(o - 1) PROVE raw[i] # "fence"
          <6>1. i \in e..(o - 1)
            BY <1>4
          <6> QED BY <2>5, <6>1
        <5>2. ASSUME NEW i \in o..p PROVE raw[i] # "fence"
          <6>1. i - o + 1 \in 1..Len(object)
            BY <1>4
          <6>2. object[i - o + 1] # "fence"
            BY <4>2, <6>1 DEF Places
          <6> QED BY <1>1, <6>2
        <5>3. \A i \in (e + 1)..p : i \in (e + 1)..(o - 1) \/ i \in o..p
          BY <1>4
        <5> QED BY <1>6, <4>2, <5>1, <5>2, <5>3
      <4> QED BY <2>7, <4>1, <4>2
    <3> HIDE DEF o, p
    <3>2. EndsAt(raw, e, p)
      BY <2>6, <3>1 DEF EndsAt
    <3>3. p \in o..Len(raw) /\ SubSeq(raw, o, p) = object
      BY <1>1
    <3>4. p \in o..Len(raw) /\ FenceAt(raw, b, e, o)
      BY <2>6, <3>3
    <3>5. StripFences(raw) = SubSeq(raw, o, p)
      BY <1>2, <3>2, <3>4, StripsFence, Zenon
    <3> QED BY <3>3, <3>5
  <2>8. ASSUME NEW c \in (o + 1)..Len(raw), raw[c] = "fence",
               \A i \in (c + 1)..Len(raw) : raw[i] # "fence"
        PROVE  \E y \in o..(c - 1) :
                   /\ StripFences(raw) = SubSeq(raw, o, y)
                   /\ \A i \in o..(c - 1) : raw[i] # "\n" => i <= y
    <3> DEFINE S == {i \in o..(c - 1) : raw[i] # "\n"}
    <3>1. o \in S /\ S \in SUBSET (1..Len(raw)) /\ Len(raw) \in Nat
      BY <1>1, <2>6
    <3>2. PICK y \in S : \A i \in S : i <= y
      <4> HIDE DEF S, o
      <4> QED BY <3>1, HasGreatest
    <3>3. /\ y \in o..Len(raw) /\ raw[y] # "\n" /\ c \in (y + 1)..Len(raw)
          /\ \A i \in (y + 1)..(c - 1) : i \in o..(c - 1) /\ ~(i <= y)
      BY <1>1, <3>2
    <3>4. \A i \in (y + 1)..(c - 1) : raw[i] = "\n"
      BY <3>2, <3>3
    <3> HIDE DEF o, p
    <3>5. EndsAt(raw, e, y)
      BY <2>8, <3>3, <3>4 DEF EndsAt
    <3>6. StripFences(raw) = SubSeq(raw, o, y)
      BY <1>2, <2>6, <3>3, <3>5, StripsFence, Zenon
    <3> QED BY <3>2, <3>6
  <2>9. ASSUME ~ClosesFence(after), NEW k \in 1..Len(after), after[k] = "fence"
        PROVE  StripFences(raw) # object
    <3> DEFINE S == {i \in 1..Len(after) : after[i] = "fence"}
    <3>1. k \in S /\ S \in SUBSET (1..Len(after))
      BY <2>9
    <3>2. PICK f \in S : \A i \in S : i <= f
      <4> HIDE DEF S
      <4> QED BY <1>4, <3>1, HasGreatest
    <3>3. /\ f \in 1..Len(after) /\ after[f] = "fence"
          /\ \A i \in (f + 1)..Len(after) : after[i] # "fence"
      <4>1. \A i \in (f + 1)..Len(after) : i \in 1..Len(after) /\ ~(i <= f)
        BY <1>4, <3>2
      <4> QED BY <3>2, <4>1
    <3>4. PICK q \in 1..(f - 1) : after[q] # "\n"
      <4>1. ~IsBlank(SubSeq(after, 1, f - 1))
        BY <2>9, <3>3 DEF ClosesFence
      <4>2. PICK q \in 1..Len(SubSeq(after, 1, f - 1)) : SubSeq(after, 1, f - 1)[q] # "\n"
        BY <4>1 DEF IsBlank
      <4>3. 1 \in Int /\ f - 1 \in Int /\ \A i \in 1..(f - 1) : after[i] \in STRING
        BY <3>3
      <4>4. /\ Len(SubSeq(after, 1, f - 1)) = IF 1 <= f - 1 THEN (f - 1) - 1 + 1 ELSE 0
            /\ \A i \in 1..((f - 1) - 1 + 1) : SubSeq(after, 1, f - 1)[i] = after[1 + i - 1]
        BY <4>3, SubSeqProperties
      <4>5. q \in 1..(f - 1) /\ 1 + q - 1 = q /\ (f - 1) - 1 + 1 = f - 1
        BY <3>3, <4>2, <4>4
      <4> QED BY <4>2, <4>4, <4>5
    <3> DEFINE c == p + f
    <3>5. c \in (o + 1)..Len(raw) /\ raw[c] = "fence"
      BY <1>1, <1>4, <1>8, <3>3
    <3>6. ASSUME NEW i \in (c + 1)..Len(raw) PROVE raw[i] # "fence"
      <4>1. i - p \in (f + 1)..Len(after) /\ i \in (p + 1)..Len(raw)
        BY <1>1, <1>4, <3>3
      <4> QED BY <1>1, <3>3, <4>1
    <3>7. p + q \in o..(c - 1) /\ raw[p + q] # "\n" /\ p + q > p
      <4>1. q \in 1..Len(after) /\ q < f
        BY <3>3, <3>4
      <4>2. p + q \in (p + 1)..Len(raw) /\ raw[p + q] = after[q]
        BY <1>8, <4>1
      <4>3. p + q \in o..(c - 1) /\ p + q > p
        BY <1>1, <1>4, <3>3, <4>1
      <4> QED BY <3>4, <4>2, <4>3
    <3>8. PICK y \in o..(c - 1) :
              /\ StripFences(raw) = SubSeq(raw, o, y)
              /\ \A i \in o..(c - 1) : raw[i] # "\n" => i <= y
      <4> HIDE DEF c, o, p
      <4> QED BY <2>8, <3>5, <3>6
    <3>9. y \in o..Len(raw) /\ o \in 1..Len(raw) /\ y - o # p - o
      <4>1. p + q <= y
        <5> HIDE DEF o, p, c
        <5> QED BY <3>7, <3>8
      <4>2. q \in Nat
        BY <3>4
      <4>3. y \in Int /\ c \in Int /\ o \in Int /\ p \in Int
        BY <1>1, <3>5, <3>8
      <4>4. y \in o..(c - 1) /\ c \in (o + 1)..Len(raw) /\ o \in 1..Len(raw) /\ p + q > p
        BY <1>1, <3>5, <3>7, <3>8
      <4> HIDE DEF o, p, c
      <4> QED BY <4>1, <4>2, <4>3, <4>4
    <3> HIDE DEF o, p, c
    <3> QED BY <1>7, <3>8, <3>9
  <2>10. ASSUME \A k \in 1..Len(after) : after[k] # "fence", Places(object, "fence") # {}
         PROVE  StripFences(raw) # object
    <3> DEFINE S == {i \in 1..Len(object) : object[i] = "fence"}
    <3>1. S # {} /\ S \in SUBSET (1..Len(object)) /\ Len(object) \in Nat
      BY <2>10 DEF Places
    <3>2. PICK g \in S : \A i \in S : i <= g
      <4> HIDE DEF S
      <4> QED BY <3>1, HasGreatest
    <3> DEFINE c == Len(before) + g
    <3>3. c \in (o + 1)..Len(raw) /\ raw[c] = "fence" /\ c <= p
      <4>1. g \in 1..Len(object) /\ object[g] = "fence"
        BY <3>2
      <4>2. c \in o..p /\ c - o + 1 = g
        BY <1>4, <4>1
      <4>3. raw[c] = "fence"
        BY <1>1, <4>1, <4>2
      <4>4. c # o
        BY <1>5, <4>3
      <4> QED BY <1>1, <4>2, <4>3, <4>4
    <3>4. ASSUME NEW i \in (c + 1)..Len(raw) PROVE raw[i] # "fence"
      <4>1. CASE i <= p
        <5>1. i \in o..p /\ i - o + 1 \in 1..Len(object) /\ ~(i - o + 1 <= g)
          BY <1>4, <3>2, <3>3, <4>1
        <5>2. object[i - o + 1] # "fence"
          BY <3>2, <5>1
        <5> QED BY <1>1, <5>1, <5>2
      <4>2. CASE i > p
        <5>1. i \in (p + 1)..Len(raw) /\ i - p \in 1..Len(after)
          BY <1>1, <1>4, <4>2
        <5> QED BY <1>1, <2>10, <5>1
      <4> QED BY <1>1, <4>1, <4>2
    <3>5. PICK y \in o..(c - 1) : StripFences(raw) = SubSeq(raw, o, y)
      <4> HIDE DEF c, o, p
      <4> QED BY <2>8, <3>3, <3>4
    <3>6. y \in o..Len(raw) /\ o \in 1..Len(raw) /\ y - o # p - o
      BY <1>1, <3>3, <3>5
    <3> HIDE DEF o, p, c
    <3> QED BY <1>7, <3>5, <3>6
  <2>11. ASSUME \A k \in 1..Len(after) : after[k] # "fence", Places(object, "fence") = {},
                ~IsBlank(after)
         PROVE  StripFences(raw) # object
    <3>1. PICK k \in 1..Len(after) : after[k] # "\n"
      BY <2>11 DEF IsBlank
    <3>2. p + k \in 1..Len(raw) /\ raw[p + k] # "\n" /\ p + k > p
      BY <1>1, <1>4, <1>8, <3>1
    <3>3. PICK z \in (p + k)..Len(raw) : raw[z] # "\n" /\ \A i \in (z + 1)..Len(raw) : raw[i] = "\n"
      BY <1>1, <3>2, LastInk
    <3>4. z \in o..Len(raw) /\ o \in 1..Len(raw) /\ z - o # p - o
      BY <1>1, <1>4, <3>2, <3>3
    <3>5. ASSUME NEW i \in (e + 1)..z PROVE raw[i] # "fence"
      <4>1. CASE i < o
        <5>1. i \in e..(o - 1)
          BY <1>4, <4>1
        <5> QED BY <2>5, <5>1
      <4>2. CASE i \in o..p
        <5>1. i - o + 1 \in 1..Len(object)
          BY <1>4, <4>2
        <5>2. object[i - o + 1] # "fence"
          BY <2>11, <5>1 DEF Places
        <5> QED BY <1>1, <4>2, <5>2
      <4>3. CASE i > p
        <5>1. i \in (p + 1)..Len(raw) /\ i - p \in 1..Len(after)
          BY <1>1, <1>4, <3>3, <4>3
        <5> QED BY <1>1, <2>11, <5>1
      <4> QED BY <1>4, <4>1, <4>2, <4>3
    <3> HIDE DEF o, p
    <3>6. EndsAt(raw, e, z)
      BY <3>3, <3>5 DEF EndsAt
    <3>7. StripFences(raw) = SubSeq(raw, o, z)
      BY <1>2, <2>6, <3>4, <3>6, StripsFence, Zenon
    <3> QED BY <1>7, <3>4, <3>7
  <2>12. CASE \E k \in 1..Len(after) : after[k] = "fence"
    <3>1. ~IsBlank(after)
      BY <2>12 DEF IsBlank
    <3> QED BY <2>7, <2>9, <2>12, <3>1
  <2>13. CASE \A k \in 1..Len(after) : after[k] # "fence"
    <3>1. ~ClosesFence(after)
      BY <2>13 DEF ClosesFence
    <3> QED BY <2>7, <2>10, <2>11, <2>13, <3>1
  <2> QED BY <2>12, <2>13
<1>12. Unwraps(StripFences(raw), before, object, after)
  BY <1>9, <1>10, <1>11 DEF Unwraps
<1> QED BY <1>12 DEF raw

-----------------------------------------------------------------------------
(* The lines of a trace that are not blank.                                *)

(* The lines with words in W. *)
LinesOf(W) == [indent : BOOLEAN, words : W]

(* The lines after one more line. *)
Kept(lines, l) == IF l.words = <<>> THEN lines ELSE Append(lines, l.words)

(* What Filled computes. *)
Filling(f, trace) ==
    /\ Filled(trace) = f[Len(trace)]
    /\ f[0] = <<>>
    /\ \A n \in 1..Len(trace) : f[n] = Kept(f[n - 1], trace[n])

(* Of a line that is kept or not, lines remain that are not blank. *)
LEMMA KeptIsSeq ==
    ASSUME NEW W, NEW lines \in Seq(W \ {<<>>}), NEW l \in LinesOf(W)
    PROVE  Kept(lines, l) \in Seq(W \ {<<>>})
<1>1. CASE l.words = <<>>
  BY <1>1 DEF Kept
<1>2. CASE l.words # <<>>
  <2>1. l.words \in W \ {<<>>}
    BY <1>2 DEF LinesOf
  <2>2. Append(lines, l.words) \in Seq(W \ {<<>>})
    BY <2>1, AppendProperties
  <2> QED BY <1>2, <2>2 DEF Kept
<1> QED BY <1>1, <1>2

(* The recursive function of Filled exists. *)
LEMMA FillingExists ==
    ASSUME NEW W, NEW trace \in Seq(LinesOf(W))
    PROVE  \E f \in [0..Len(trace) -> Seq(W \ {<<>>})] : Filling(f, trace)
<1> DEFINE N == Len(trace)
           T == Seq(W \ {<<>>})
           Next1(lines, n) == IF trace[n].words = <<>> THEN lines ELSE Append(lines, trace[n].words)
           Is(lines) == lines = [n \in 0..N |-> IF n = 0 THEN <<>>
                                     ELSE IF trace[n].words = <<>> THEN lines[n - 1]
                                     ELSE Append(lines[n - 1], trace[n].words)]
           step == [n \in 1..N |-> [lines \in T |-> Kept(lines, trace[n])]]
           g == CHOOSE h : Is(h)
<1>1. N \in Nat /\ \A n \in 1..N : trace[n] \in LinesOf(W)
  OBVIOUS
<1>2. ASSUME NEW n \in 1..N, NEW lines \in T PROVE Kept(lines, trace[n]) \in T
  BY <1>1, KeptIsSeq
<1>3. <<>> \in T
  OBVIOUS
<1>4. Filled(trace) = g[N]
  BY DEF Filled
<1> HIDE DEF N, T
<1>5. step \in [1..N -> [T -> T]]
  BY <1>2
<1>6. \A n \in 1..N, lines \in T : step[n][lines] = Kept(lines, trace[n])
  OBVIOUS
<1> HIDE DEF step
<1>7. PICK f \in [0..N -> T] : Chain(f, <<>>, step, N)
  BY <1>1, <1>3, <1>5, Recursion
<1>8. \A n \in 1..N : n - 1 \in 0..N
  BY <1>1
<1>9. \A n \in 1..N : f[n] = Kept(f[n - 1], trace[n])
  BY <1>6, <1>7, <1>8 DEF Chain
<1>10. Is(f)
  <2>1. \A n \in 0..N : n = 0 \/ n \in 1..N
    BY <1>1
  <2>2. f = [n \in 0..N |-> f[n]] /\ f[0] = <<>>
    BY <1>7 DEF Chain
  <2> QED BY <1>9, <2>1, <2>2 DEF Kept
<1>11. Is(g)
  <2> HIDE DEF Is
  <2> QED BY <1>10
<1> HIDE DEF g
<1>12. g[0] = <<>> /\ \A n \in 1..N : g[n] = Kept(g[n - 1], trace[n])
  <2>1. \A n \in 0..N : g[n] = IF n = 0 THEN <<>> ELSE Next1(g[n - 1], n)
    BY <1>11
  <2>2. 0 \in 0..N /\ \A n \in 1..N : n \in 0..N /\ n # 0
    BY <1>1
  <2>3. \A n \in 1..N : Next1(g[n - 1], n) = Kept(g[n - 1], trace[n])
    BY DEF Kept
  <2> HIDE DEF Next1
  <2> QED BY <2>1, <2>2, <2>3
<1> DEFINE S == {n \in Nat : n <= N => g[n] = f[n]}
<1>13. 0 \in S
  BY <1>7, <1>12 DEF Chain
<1>14. ASSUME NEW n \in Nat, n \in S PROVE n + 1 \in S
  <2>1. SUFFICES ASSUME n + 1 <= N PROVE g[n + 1] = f[n + 1]
    OBVIOUS
  <2>2. g[n] = f[n] /\ n + 1 \in 1..N /\ (n + 1) - 1 = n
    BY <1>1, <1>14, <2>1
  <2> QED BY <1>9, <1>12, <2>2
<1> HIDE DEF S
<1>15. N \in S
  BY <1>1, <1>13, <1>14, Induction
<1>16. Filled(trace) = f[N]
  BY <1>1, <1>4, <1>15 DEF S
<1> QED BY <1>7, <1>9, <1>16 DEF Chain, Filling, N, T

(* No lines, none that is kept. *)
LEMMA FilledEmpty == Filled(<<>>) = <<>>
<1>1. <<>> \in Seq(LinesOf({}))
  OBVIOUS
<1>2. PICK f : Filling(f, <<>>)
  BY <1>1, FillingExists
<1> QED BY <1>2 DEF Filling

(* Filled has lines that are not blank. *)
LEMMA FilledIsSeq ==
    ASSUME NEW W, NEW trace \in Seq(LinesOf(W))
    PROVE  Filled(trace) \in Seq(W \ {<<>>})
<1>1. PICK f \in [0..Len(trace) -> Seq(W \ {<<>>})] : Filling(f, trace)
  BY FillingExists
<1>2. Len(trace) \in 0..Len(trace)
  OBVIOUS
<1> QED BY <1>1, <1>2 DEF Filling

(* One more line adds itself, or nothing. *)
LEMMA FilledAppend ==
    ASSUME NEW W, NEW trace \in Seq(LinesOf(W)), NEW l \in LinesOf(W)
    PROVE  Filled(Append(trace, l)) = Kept(Filled(trace), l)
<1> DEFINE all == Append(trace, l)
           N == Len(trace)
<1>1. /\ all \in Seq(LinesOf(W)) /\ Len(all) = N + 1 /\ N \in Nat
      /\ all[N + 1] = l /\ \A i \in 1..N : all[i] = trace[i]
  BY AppendProperties
<1> HIDE DEF all
<1>2. PICK f : Filling(f, all)
  BY <1>1, FillingExists
<1>3. PICK g : Filling(g, trace)
  BY FillingExists
<1> DEFINE S == {n \in Nat : n <= N => g[n] = f[n]}
<1>4. 0 \in S
  BY <1>2, <1>3 DEF Filling
<1>5. ASSUME NEW n \in Nat, n \in S PROVE n + 1 \in S
  <2>1. SUFFICES ASSUME n + 1 <= N PROVE g[n + 1] = f[n + 1]
    OBVIOUS
  <2>2. g[n] = f[n] /\ n + 1 \in 1..N /\ n + 1 \in 1..Len(all) /\ (n + 1) - 1 = n
    BY <1>1, <1>5, <2>1
  <2>3. all[n + 1] = trace[n + 1]
    BY <1>1, <2>2
  <2> QED BY <1>2, <1>3, <2>2, <2>3 DEF Filling
<1> HIDE DEF S
<1>6. N \in S
  BY <1>1, <1>4, <1>5, Induction
<1>7. g[N] = f[N] /\ N + 1 \in 1..Len(all) /\ (N + 1) - 1 = N
  BY <1>1, <1>6 DEF S
<1>8. Filled(all) = f[N + 1] /\ f[N + 1] = Kept(f[N], all[N + 1])
  BY <1>1, <1>2, <1>7 DEF Filling
<1>9. Filled(trace) = g[N]
  BY <1>3 DEF Filling
<1> QED BY <1>1, <1>7, <1>8, <1>9 DEF all

(* Filled keeps the lines of both parts of a trace. *)
LEMMA FilledConcat ==
    ASSUME NEW W, NEW s \in Seq(LinesOf(W)), NEW t \in Seq(LinesOf(W))
    PROVE  Filled(s \o t) = Filled(s) \o Filled(t)
<1> DEFINE L == LinesOf(W)
           V == W \ {<<>>}
           S == {r \in Seq(L) : Filled(s \o r) = Filled(s) \o Filled(r)}
<1>1. Filled(s) \in Seq(V)
  BY FilledIsSeq
<1>2. <<>> \in S
  <2>1. s \o <<>> = s /\ Filled(s) \o <<>> = Filled(s)
    BY <1>1, ConcatEmptySeq
  <2>2. Filled(s \o <<>>) = Filled(s) \o Filled(<<>>)
    BY <2>1, FilledEmpty
  <2>3. <<>> \in Seq(L)
    OBVIOUS
  <2> QED BY <2>2, <2>3
<1>3. ASSUME NEW r \in Seq(L), NEW l \in L, r \in S PROVE Append(r, l) \in S
  <2>1. s \o Append(r, l) = Append(s \o r, l)
    <3>1. Append(r, l) = r \o <<l>> /\ <<l>> \in Seq(L)
      BY AppendIsConcat
    <3>2. s \o r \in Seq(L)
      BY ConcatProperties
    <3>3. Append(s \o r, l) = (s \o r) \o <<l>>
      BY <3>2, AppendIsConcat
    <3>4. (s \o r) \o <<l>> = s \o (r \o <<l>>)
      BY <3>1, ConcatAssociative
    <3> QED BY <3>1, <3>3, <3>4
  <2>2. s \o r \in Seq(L) /\ Append(r, l) \in Seq(L)
    BY ConcatProperties, AppendProperties
  <2>3. Filled(s \o Append(r, l)) = Kept(Filled(s) \o Filled(r), l)
    <3>1. Filled(Append(s \o r, l)) = Kept(Filled(s \o r), l)
      BY <2>2, FilledAppend
    <3> QED BY <1>3, <2>1, <3>1
  <2>4. Filled(Append(r, l)) = Kept(Filled(r), l)
    BY FilledAppend
  <2>5. Filled(r) \in Seq(V)
    BY FilledIsSeq
  <2>6. Kept(Filled(s) \o Filled(r), l) = Filled(s) \o Kept(Filled(r), l)
    <3> DEFINE a == Filled(s)
               b == Filled(r)
    <3>1. a \in Seq(V) /\ b \in Seq(V)
      BY <1>1, <2>5
    <3> HIDE DEF a, b
    <3>2. CASE l.words = <<>>
      BY <3>2 DEF Kept
    <3>3. CASE l.words # <<>>
      <4> DEFINE w == l.words
      <4>1. w \in V
        BY <3>3 DEF LinesOf
      <4> HIDE DEF w
      <4>2. a \o b \in Seq(V) /\ <<w>> \in Seq(V)
        BY <3>1, <4>1, ConcatProperties
      <4>3. Append(a \o b, w) = (a \o b) \o <<w>> /\ Append(b, w) = b \o <<w>>
        BY <3>1, <4>1, <4>2, AppendIsConcat
      <4>4. (a \o b) \o <<w>> = a \o (b \o <<w>>)
        BY <3>1, <4>2, ConcatAssociative
      <4>5. Append(a \o b, w) = a \o Append(b, w)
        BY <4>3, <4>4
      <4>6. \A lines : Kept(lines, l) = Append(lines, w)
        BY <3>3 DEF Kept, w
      <4> QED BY <4>5, <4>6 DEF a, b
    <3> QED BY <3>2, <3>3
  <2> QED BY <2>2, <2>3, <2>4, <2>6
<1> HIDE DEF S
<1>4. Seq(L) \subseteq S
  BY <1>2, <1>3, SequenceInduction
<1> QED BY <1>4 DEF S

(* One line in the middle of a trace. *)
(* The lines of one line. *)
OneLine(l) == IF l.words = <<>> THEN <<>> ELSE <<l.words>>

(* What a single line adds. *)
LEMMA FilledOne ==
    ASSUME NEW W, NEW l \in LinesOf(W)
    PROVE  <<l>> \in Seq(LinesOf(W)) /\ Filled(<<l>>) = OneLine(l) /\ OneLine(l) \in Seq(W \ {<<>>})
<1>1. <<>> \in Seq(LinesOf(W)) /\ Append(<<>>, l) = <<l>> /\ <<l>> \in Seq(LinesOf(W))
  OBVIOUS
<1>2. Filled(<<l>>) = Kept(<<>>, l)
  BY <1>1, FilledAppend, FilledEmpty
<1>3. Kept(<<>>, l) = OneLine(l)
  BY DEF Kept, OneLine
<1>4. Filled(<<l>>) \in Seq(W \ {<<>>})
  BY <1>1, FilledIsSeq
<1> QED BY <1>1, <1>2, <1>3, <1>4

(* A trace with another line at i keeps all that is before and behind it. *)
LEMMA FilledReplaced ==
    ASSUME NEW W, NEW trace \in Seq(LinesOf(W)), NEW i \in 1..Len(trace), NEW l \in LinesOf(W)
    PROVE  Filled([trace EXCEPT ![i] = l])
               = Filled(SubSeq(trace, 1, i - 1))
                     \o (OneLine(l) \o Filled(SubSeq(trace, i + 1, Len(trace))))
<1> DEFINE L == LinesOf(W)
           a == SubSeq(trace, 1, i - 1)
           b == SubSeq(trace, i + 1, Len(trace))
           new == [trace EXCEPT ![i] = l]
           rest == <<l>> \o b
<1> SUFFICES Filled(new) = Filled(a) \o (OneLine(l) \o Filled(b))
  OBVIOUS
<1>1. /\ a \in Seq(L) /\ Len(a) = i - 1 /\ \A j \in 1..(i - 1) : a[j] = trace[j]
  <2>1. 1 \in Int /\ i - 1 \in Int /\ \A j \in 1..(i - 1) : trace[j] \in L
    OBVIOUS
  <2>2. /\ a \in Seq(L) /\ Len(a) = IF 1 <= i - 1 THEN (i - 1) - 1 + 1 ELSE 0
        /\ \A j \in 1..((i - 1) - 1 + 1) : a[j] = trace[1 + j - 1]
    BY <2>1, SubSeqProperties
  <2>3. (i - 1) - 1 + 1 = i - 1 /\ \A j \in 1..(i - 1) : 1 + j - 1 = j
    OBVIOUS
  <2> HIDE DEF a
  <2> QED BY <2>2, <2>3
<1>2. /\ b \in Seq(L) /\ Len(b) = Len(trace) - i
      /\ \A j \in 1..(Len(trace) - i) : b[j] = trace[i + j]
  <2>1. i + 1 \in Int /\ Len(trace) \in Int /\ \A j \in (i + 1)..Len(trace) : trace[j] \in L
    OBVIOUS
  <2>2. /\ b \in Seq(L) /\ Len(b) = IF i + 1 <= Len(trace) THEN Len(trace) - (i + 1) + 1 ELSE 0
        /\ \A j \in 1..(Len(trace) - (i + 1) + 1) : b[j] = trace[(i + 1) + j - 1]
    BY <2>1, SubSeqProperties
  <2>3. /\ Len(trace) - (i + 1) + 1 = Len(trace) - i
        /\ \A j \in 1..(Len(trace) - i) : (i + 1) + j - 1 = i + j
        /\ (IF i + 1 <= Len(trace) THEN Len(trace) - (i + 1) + 1 ELSE 0) = Len(trace) - i
    OBVIOUS
  <2> HIDE DEF b
  <2>4. b \in Seq(L) /\ Len(b) = Len(trace) - i
    BY <2>2, <2>3
  <2>5. ASSUME NEW j \in 1..(Len(trace) - i) PROVE b[j] = trace[i + j]
    BY <2>2, <2>3
  <2> QED BY <2>4, <2>5
<1>3. /\ new \in Seq(L) /\ Len(new) = Len(trace)
      /\ \A j \in 1..Len(trace) : new[j] = IF j = i THEN l ELSE trace[j]
  BY ExceptSeq
<1> HIDE DEF a, b, new
<1>4. <<l>> \in Seq(L) /\ Len(<<l>>) = 1 /\ <<l>>[1] = l
  OBVIOUS
<1>5. /\ rest \in Seq(L) /\ Len(rest) = 1 + Len(b)
      /\ \A j \in 1..(1 + Len(b)) : rest[j] = IF j <= 1 THEN l ELSE b[j - 1]
  <2> DEFINE one == <<l>>
  <2>1. one \in Seq(L) /\ Len(one) = 1 /\ one[1] = l
    BY <1>4
  <2> HIDE DEF one
  <2>2. /\ one \o b \in Seq(L) /\ Len(one \o b) = Len(one) + Len(b)
        /\ \A j \in 1..(Len(one) + Len(b)) :
               (one \o b)[j] = IF j <= Len(one) THEN one[j] ELSE b[j - Len(one)]
    BY <1>2, <2>1, ConcatProperties
  <2>3. rest = one \o b
    BY DEF one
  <2> HIDE DEF rest
  <2>4. \A j \in 1..(1 + Len(b)) : j <= 1 => j = 1
    OBVIOUS
  <2> QED BY <2>1, <2>2, <2>3, <2>4
<1> HIDE DEF rest
<1>6. /\ a \o rest \in Seq(L) /\ Len(a \o rest) = Len(a) + Len(rest)
      /\ \A j \in 1..(Len(a) + Len(rest)) :
             (a \o rest)[j] = IF j <= Len(a) THEN a[j] ELSE rest[j - Len(a)]
  BY <1>1, <1>5, ConcatProperties
<1>7. new = a \o rest
  <2> DEFINE all == a \o rest
  <2>1. all \in Seq(L) /\ Len(all) = Len(new)
    BY <1>1, <1>2, <1>3, <1>5, <1>6
  <2>2. ASSUME NEW j \in 1..Len(new) PROVE new[j] = all[j]
    <3>1. j \in 1..Len(trace) /\ j \in 1..(Len(a) + Len(rest))
      BY <1>3, <1>6, <2>1
    <3>2. CASE j < i
      <4>1. j \in 1..(i - 1) /\ j <= Len(a) /\ j # i
        BY <1>1, <3>2
      <4> QED BY <1>1, <1>3, <1>6, <3>1, <4>1
    <3>3. CASE j = i
      <4>1. ~(j <= Len(a)) /\ j - Len(a) = 1 /\ 1 \in 1..(1 + Len(b))
        BY <1>1, <1>2, <3>3
      <4>2. rest[1] = l
        BY <1>5, <4>1
      <4> QED BY <1>3, <1>6, <3>1, <3>3, <4>1, <4>2
    <3>4. CASE j > i
      <4> DEFINE k == j - Len(a)
      <4>1. /\ ~(j <= Len(a)) /\ k \in 1..(1 + Len(b)) /\ ~(k <= 1)
            /\ k - 1 \in 1..(Len(trace) - i) /\ i + (k - 1) = j /\ j # i
        BY <1>1, <1>2, <3>1, <3>4
      <4> HIDE DEF k
      <4>2. rest[k] = b[k - 1] /\ b[k - 1] = trace[j]
        BY <1>2, <1>5, <4>1
      <4>3. (a \o rest)[j] = rest[k]
        BY <1>6, <3>1, <4>1 DEF k
      <4> QED BY <1>3, <3>1, <4>1, <4>2, <4>3
    <3>5. j < i \/ j = i \/ j > i
      BY <3>1
    <3> QED BY <3>2, <3>3, <3>4, <3>5
  <2> HIDE DEF all
  <2>3. new = all
    BY <1>3, <2>1, <2>2, SeqEqual
  <2> QED BY <2>3 DEF all
<1>8. Filled(new) = Filled(a) \o Filled(rest)
  BY <1>1, <1>5, <1>7, FilledConcat
<1>9. Filled(rest) = Filled(<<l>>) \o Filled(b)
  BY <1>2, <1>4, FilledConcat DEF rest
<1>10. Filled(<<l>>) = OneLine(l)
  BY FilledOne
<1> QED BY <1>8, <1>9, <1>10

(* A blank line put into a trace is not kept. *)
LEMMA FilledWithBlank ==
    ASSUME NEW W, NEW trace \in Seq(LinesOf(W)), NEW i \in 1..(Len(trace) + 1),
           NEW l \in LinesOf(W), l.words = <<>>
    PROVE  Filled(InsertAt(trace, i, l)) = Filled(trace)
<1> DEFINE L == LinesOf(W)
           a == SubSeq(trace, 1, i - 1)
           b == SubSeq(trace, i, Len(trace))
           one == <<l>>
<1>1. a \in Seq(L) /\ b \in Seq(L)
  <2>1. 1 \in Int /\ i - 1 \in Int /\ \A j \in 1..(i - 1) : trace[j] \in L
    OBVIOUS
  <2>2. i \in Int /\ Len(trace) \in Int /\ \A j \in i..Len(trace) : trace[j] \in L
    OBVIOUS
  <2>3. a \in Seq(L)
    BY <2>1, SubSeqProperties
  <2>4. b \in Seq(L)
    BY <2>2, SubSeqProperties
  <2> QED BY <2>3, <2>4
<1>2. a \o b = trace
  <2>1. /\ 1 \in 1..Len(trace) + 1 /\ i - 1 \in 1 - 1..Len(trace) /\ Len(trace) \in i - 1..Len(trace)
        /\ (i - 1) + 1 = i
    OBVIOUS
  <2>2. SubSeq(trace, 1, i - 1) \o SubSeq(trace, (i - 1) + 1, Len(trace)) = SubSeq(trace, 1, Len(trace))
    BY <2>1, ConcatAdjacentSubSeq
  <2>3. SubSeq(trace, 1, Len(trace)) = trace
    BY SubSeqFull
  <2> QED BY <2>1, <2>2, <2>3
<1>3. InsertAt(trace, i, l) = (a \o one) \o b
  BY DEF InsertAt
<1> HIDE DEF a, b
<1>4. one \in Seq(L) /\ Filled(one) = <<>>
  BY FilledOne DEF OneLine
<1> HIDE DEF one
<1>5. a \o one \in Seq(L)
  BY <1>1, <1>4, ConcatProperties
<1>6. Filled((a \o one) \o b) = Filled(a \o one) \o Filled(b)
  BY <1>1, <1>5, FilledConcat
<1>7. Filled(a \o one) = Filled(a) \o Filled(one)
  BY <1>1, <1>4, FilledConcat
<1>8. Filled(a) \o <<>> = Filled(a)
  BY <1>1, FilledIsSeq, ConcatEmptySeq
<1>9. Filled(a \o b) = Filled(a) \o Filled(b)
  BY <1>1, FilledConcat
<1> QED BY <1>2, <1>3, <1>4, <1>6, <1>7, <1>8, <1>9

-----------------------------------------------------------------------------
(* The number of a frame.                                                  *)

(* The lines up to n that have a number. *)
Numbered(trace, n) == {j \in 1..n : trace[j].words # <<>>}

(* A line that is not blank has a number of its own. *)
LEMMA FrameStep ==
    ASSUME NEW trace, NEW n \in Nat
    PROVE  /\ Frame(trace, n) \in Nat
           /\ Frame(trace, n + 1) = IF trace[n + 1].words # <<>> THEN Frame(trace, n) + 1
                                    ELSE Frame(trace, n)
<1>1. IsFiniteSet(1..n)
  BY FS_Interval
<1>2. Numbered(trace, n) \in SUBSET (1..n)
  BY DEF Numbered
<1>3. IsFiniteSet(Numbered(trace, n))
  BY <1>1, <1>2, FS_Subset
<1>4. Cardinality(Numbered(trace, n)) \in Nat
  BY <1>3, FS_CardinalityType
<1>5. n + 1 \notin Numbered(trace, n)
  BY DEF Numbered
<1>6. CASE trace[n + 1].words # <<>>
  <2>1. Numbered(trace, n + 1) = Numbered(trace, n) \cup {n + 1}
    BY <1>6 DEF Numbered
  <2>2. Cardinality(Numbered(trace, n) \cup {n + 1}) = Cardinality(Numbered(trace, n)) + 1
    BY <1>3, <1>5, FS_AddElement
  <2> QED BY <1>4, <1>6, <2>1, <2>2 DEF Frame, Numbered
<1>7. CASE trace[n + 1].words = <<>>
  <2>1. Numbered(trace, n + 1) = Numbered(trace, n)
    BY <1>7 DEF Numbered
  <2> QED BY <1>4, <1>7, <2>1 DEF Frame, Numbered
<1> QED BY <1>6, <1>7

(* Before the first line there is no frame. *)
LEMMA FrameOfNone ==
    ASSUME NEW trace
    PROVE  Frame(trace, 0) = 0
<1>1. Numbered(trace, 0) = {}
  BY DEF Numbered
<1> QED BY <1>1, FS_EmptySet DEF Frame, Numbered

(* Only the lines up to n count. *)
LEMMA FrameOfSame ==
    ASSUME NEW s, NEW t, NEW n \in Nat, \A j \in 1..n : s[j].words = t[j].words
    PROVE  Frame(s, n) = Frame(t, n)
<1>1. Numbered(s, n) = Numbered(t, n)
  BY DEF Numbered
<1> QED BY <1>1 DEF Frame, Numbered

(* There are as many numbers as lines that are kept. *)
LEMMA FramesAreFilled ==
    ASSUME NEW W, NEW trace \in Seq(LinesOf(W))
    PROVE  Frame(trace, Len(trace)) = Len(Filled(trace))
<1> DEFINE L == LinesOf(W)
           S == {s \in Seq(L) : Frame(s, Len(s)) = Len(Filled(s))}
<1>1. <<>> \in S
  <2>1. <<>> \in Seq(L) /\ Len(<<>>) = 0
    OBVIOUS
  <2>2. Frame(<<>>, 0) = 0
    BY FrameOfNone
  <2> QED BY <2>1, <2>2, FilledEmpty
<1>2. ASSUME NEW s \in Seq(L), NEW l \in L, s \in S PROVE Append(s, l) \in S
  <2> DEFINE t == Append(s, l)
             n == Len(s)
  <2>1. t \in Seq(L) /\ Len(t) = n + 1 /\ n \in Nat /\ t[n + 1] = l /\ \A j \in 1..n : t[j] = s[j]
    BY AppendProperties
  <2>2. Filled(t) = Kept(Filled(s), l) /\ Filled(s) \in Seq(W \ {<<>>})
    BY FilledAppend, FilledIsSeq
  <2> HIDE DEF t
  <2>3. Frame(s, n) = Len(Filled(s))
    BY <1>2
  <2> HIDE DEF n
  <2>4. Frame(t, n) = Frame(s, n)
    BY <2>1, FrameOfSame
  <2>5. Frame(t, n + 1) = IF t[n + 1].words # <<>> THEN Frame(t, n) + 1 ELSE Frame(t, n)
    BY <2>1, FrameStep
  <2>6. Len(Filled(t)) = Frame(t, n + 1)
    <3>1. CASE l.words = <<>>
      BY <2>1, <2>2, <2>3, <2>4, <2>5, <3>1 DEF Kept
    <3>2. CASE l.words # <<>>
      <4>1. l.words \in W \ {<<>>}
        BY <3>2 DEF LinesOf
      <4>2. Len(Append(Filled(s), l.words)) = Len(Filled(s)) + 1
        BY <2>2, <4>1, AppendProperties
      <4> QED BY <2>1, <2>2, <2>3, <2>4, <2>5, <3>2, <4>2 DEF Kept
    <3> QED BY <3>1, <3>2
  <2> QED BY <2>1, <2>6 DEF t
<1> HIDE DEF S
<1>3. Seq(L) \subseteq S
  BY <1>1, <1>2, SequenceInduction
<1> QED BY <1>3 DEF S
-----------------------------------------------------------------------------
(* Lines that are joined can be told apart again.                          *)

(* A line holds no line end. *)
Plain(w) == \A j \in 1..Len(w) : w[j] # "\n"

(* The text x is a, a line end and l. *)
EndsWith(x, a, l) ==
    /\ Len(x) = Len(a) + 1 + Len(l)
    /\ \A j \in 1..Len(a) : x[j] = a[j]
    /\ x[Len(a) + 1] = "\n"
    /\ \A j \in 1..Len(l) : x[Len(a) + 1 + j] = l[j]

(* A text, a line end and a line, token by token. *)
LEMMA LineEnds ==
    ASSUME NEW A, "\n" \in A, NEW a \in Seq(A), NEW l \in Seq(A)
    PROVE  /\ a \o (<<"\n">> \o l) \in Seq(A)
           /\ EndsWith(a \o (<<"\n">> \o l), a, l)
<1> DEFINE one == <<"\n">>
           tail == one \o l
           x == a \o tail
<1>1. one \in Seq(A) /\ Len(one) = 1 /\ one[1] = "\n"
  OBVIOUS
<1> HIDE DEF one
<1>2. /\ tail \in Seq(A) /\ Len(tail) = Len(one) + Len(l)
      /\ \A j \in 1..(Len(one) + Len(l)) : tail[j] = IF j <= Len(one) THEN one[j] ELSE l[j - Len(one)]
  BY <1>1, ConcatProperties
<1> HIDE DEF tail
<1>3. /\ x \in Seq(A) /\ Len(x) = Len(a) + Len(tail)
      /\ \A j \in 1..(Len(a) + Len(tail)) : x[j] = IF j <= Len(a) THEN a[j] ELSE tail[j - Len(a)]
  <2>1. tail \in Seq(A)
    BY <1>2
  <2> QED BY <2>1, ConcatProperties
<1> HIDE DEF x
<1>4. Len(a) \in Nat /\ Len(l) \in Nat /\ Len(tail) = 1 + Len(l)
  BY <1>1, <1>2
<1>5. \A j \in 1..Len(a) : x[j] = a[j]
  BY <1>3, <1>4
<1>6. x[Len(a) + 1] = "\n"
  <2>1. /\ Len(a) + 1 \in 1..(Len(a) + Len(tail)) /\ ~(Len(a) + 1 <= Len(a))
        /\ Len(a) + 1 - Len(a) = 1 /\ 1 \in 1..(Len(one) + Len(l)) /\ 1 <= Len(one)
    BY <1>1, <1>4
  <2>2. x[Len(a) + 1] = tail[1]
    BY <1>3, <2>1
  <2> QED BY <1>1, <1>2, <2>1, <2>2
<1>7. ASSUME NEW j \in 1..Len(l) PROVE x[Len(a) + 1 + j] = l[j]
  <2> DEFINE k == Len(a) + 1 + j
             h == 1 + j
  <2>1. /\ k \in 1..(Len(a) + Len(tail)) /\ ~(k <= Len(a)) /\ k - Len(a) = h
        /\ h \in 1..(Len(one) + Len(l)) /\ ~(h <= Len(one)) /\ h - Len(one) = j
    BY <1>1, <1>4
  <2> HIDE DEF k, h
  <2>2. x[k] = tail[h]
    BY <1>3, <2>1
  <2>3. tail[h] = l[j]
    BY <1>2, <2>1
  <2> QED BY <2>2, <2>3 DEF k
<1>8. EndsWith(x, a, l)
  BY <1>3, <1>4, <1>5, <1>6, <1>7 DEF EndsWith
<1> QED BY <1>3, <1>8 DEF x, tail, one

(* The last line of a text and what is before it are the only ones. *)
LEMMA LastLineEnd ==
    ASSUME NEW A, NEW x, NEW a \in Seq(A), NEW b \in Seq(A), NEW l \in Seq(A), NEW m \in Seq(A),
           Plain(l), Plain(m), EndsWith(x, a, l), EndsWith(x, b, m)
    PROVE  a = b /\ l = m
<1>1. Len(a) \in Nat /\ Len(b) \in Nat /\ Len(l) \in Nat /\ Len(m) \in Nat
  OBVIOUS
<1>2. ~(Len(a) < Len(b))
  <2> SUFFICES ASSUME Len(a) < Len(b) PROVE FALSE
    OBVIOUS
  <2> DEFINE j == Len(b) - Len(a)
  <2>1. j \in 1..Len(l) /\ Len(a) + 1 + j = Len(b) + 1
    BY <1>1 DEF EndsWith
  <2>2. x[Len(a) + 1 + j] = l[j] /\ x[Len(b) + 1] = "\n"
    BY <2>1 DEF EndsWith
  <2> HIDE DEF j
  <2> QED BY <2>1, <2>2 DEF Plain
<1>3. ~(Len(b) < Len(a))
  <2> SUFFICES ASSUME Len(b) < Len(a) PROVE FALSE
    OBVIOUS
  <2> DEFINE j == Len(a) - Len(b)
  <2>1. j \in 1..Len(m) /\ Len(b) + 1 + j = Len(a) + 1
    BY <1>1 DEF EndsWith
  <2>2. x[Len(b) + 1 + j] = m[j] /\ x[Len(a) + 1] = "\n"
    BY <2>1 DEF EndsWith
  <2> HIDE DEF j
  <2> QED BY <2>1, <2>2 DEF Plain
<1>4. Len(a) = Len(b)
  BY <1>1, <1>2, <1>3
<1>5. Len(l) = Len(m)
  BY <1>1, <1>4 DEF EndsWith
<1>6. \A j \in 1..Len(a) : a[j] = b[j]
  BY <1>4 DEF EndsWith
<1>7. \A j \in 1..Len(l) : l[j] = m[j]
  BY <1>4, <1>5 DEF EndsWith
<1>8. a = b
  BY <1>4, <1>6, SeqEqual
<1>9. l = m
  BY <1>5, <1>7, SeqEqual
<1> QED BY <1>8, <1>9

(* No lines make no text. *)
LEMMA JoinLinesEmpty == JoinLines(<<>>) = <<>>
<1>1. [i \in 1..Len(<<>>) |-> IF i = 1 THEN <<>>[i] ELSE <<"\n">> \o <<>>[i]] = <<>>
  OBVIOUS
<1> QED BY <1>1, FlattenEmpty DEF JoinLines

(* What JoinLines makes of one more line. *)
LEMMA JoinLinesAppend ==
    ASSUME NEW A, "\n" \in A, NEW lines \in Seq(Seq(A)), NEW l \in Seq(A)
    PROVE  /\ JoinLines(lines) \in Seq(A)
           /\ lines = <<>> => JoinLines(Append(lines, l)) = l
           /\ lines # <<>> => JoinLines(Append(lines, l)) = JoinLines(lines) \o (<<"\n">> \o l)
<1> DEFINE Marked(s) == [i \in 1..Len(s) |-> IF i = 1 THEN s[i] ELSE <<"\n">> \o s[i]]
           all == Append(lines, l)
           n == Len(lines)
           end == IF lines = <<>> THEN l ELSE <<"\n">> \o l
<1>1. /\ all \in Seq(Seq(A)) /\ Len(all) = n + 1 /\ n \in Nat
      /\ all[n + 1] = l /\ \A i \in 1..n : all[i] = lines[i]
  BY AppendProperties
<1>2. <<"\n">> \in Seq(A) /\ \A s \in Seq(A) : <<"\n">> \o s \in Seq(A)
  <2>1. <<"\n">> \in Seq(A)
    OBVIOUS
  <2> QED BY <2>1, ConcatProperties
<1>3. end \in Seq(A)
  BY <1>2
<1>4. ASSUME NEW s \in Seq(Seq(A))
      PROVE  /\ Marked(s) \in Seq(Seq(A)) /\ Len(Marked(s)) = Len(s)
             /\ \A i \in 1..Len(s) : Marked(s)[i] = IF i = 1 THEN s[i] ELSE <<"\n">> \o s[i]
  <2>1. \A i \in 1..Len(s) : (IF i = 1 THEN s[i] ELSE <<"\n">> \o s[i]) \in Seq(A)
    BY <1>2
  <2> QED BY <2>1
<1>5. JoinLines(lines) = FlattenSeq(Marked(lines)) /\ JoinLines(all) = FlattenSeq(Marked(all))
  BY DEF JoinLines
<1> HIDE DEF all, Marked
<1>6. Marked(all) = Append(Marked(lines), end)
  <2> DEFINE x == Marked(all)
             y == Append(Marked(lines), end)
             m == Marked(lines)
  <2>1. /\ x \in Seq(Seq(A)) /\ Len(x) = n + 1
        /\ \A i \in 1..(n + 1) : x[i] = IF i = 1 THEN all[i] ELSE <<"\n">> \o all[i]
    BY <1>1, <1>4
  <2>2. /\ m \in Seq(Seq(A)) /\ Len(m) = n
        /\ \A i \in 1..n : m[i] = IF i = 1 THEN lines[i] ELSE <<"\n">> \o lines[i]
    BY <1>4
  <2>3. /\ y \in Seq(Seq(A)) /\ Len(y) = Len(m) + 1
        /\ \A i \in 1..Len(m) : y[i] = m[i]
        /\ y[Len(m) + 1] = end
    <3>1. /\ Append(m, end) \in Seq(Seq(A)) /\ Len(Append(m, end)) = Len(m) + 1
          /\ \A i \in 1..Len(m) : Append(m, end)[i] = m[i]
          /\ Append(m, end)[Len(m) + 1] = end
      <4> HIDE DEF m, end
      <4>1. m \in Seq(Seq(A))
        BY <2>2
      <4> QED BY <1>3, <4>1, AppendProperties
    <3> HIDE DEF end
    <3> QED BY <3>1
  <2> HIDE DEF x, y, m, end
  <2>4. Len(x) = Len(y)
    BY <2>1, <2>2, <2>3
  <2>5. ASSUME NEW i \in 1..Len(x) PROVE x[i] = y[i]
    <3>1. CASE i \in 1..n
      <4>1. all[i] = lines[i] /\ x[i] = (IF i = 1 THEN all[i] ELSE <<"\n">> \o all[i]) /\ y[i] = m[i]
        BY <1>1, <2>1, <2>2, <2>3, <3>1
      <4> QED BY <2>2, <3>1, <4>1
    <3>2. CASE i = n + 1
      <4>1. y[i] = end /\ all[i] = l
        BY <1>1, <2>2, <2>3, <3>2
      <4>2. i = 1 <=> lines = <<>>
        BY <1>1, <3>2, EmptySeq
      <4>3. x[i] = IF i = 1 THEN all[i] ELSE <<"\n">> \o all[i]
        BY <2>1
      <4> QED BY <4>1, <4>2, <4>3 DEF end
    <3> QED BY <1>1, <2>1, <3>1, <3>2
  <2>6. x = y
    BY <2>1, <2>3, <2>4, <2>5, SeqEqual
  <2> QED BY <2>6 DEF x, y, m
<1>7. FlattenSeq(Append(Marked(lines), end)) = FlattenSeq(Marked(lines)) \o end
  <2> HIDE DEF end
  <2> QED BY <1>3, <1>4, FlattenAppend
<1>8. FlattenSeq(Marked(lines)) \in Seq(A)
  BY <1>4, FlattenIsSeq
<1>9. ASSUME lines = <<>> PROVE JoinLines(all) = l
  <2>1. JoinLines(lines) = <<>> /\ end = l
    BY <1>9, JoinLinesEmpty
  <2>2. <<>> \o l = l
    BY ConcatEmptySeq
  <2> HIDE DEF end
  <2> QED BY <1>5, <1>6, <1>7, <2>1, <2>2
<1>10. ASSUME lines # <<>> PROVE JoinLines(all) = JoinLines(lines) \o (<<"\n">> \o l)
  <2>1. end = <<"\n">> \o l
    BY <1>10
  <2> HIDE DEF end
  <2> QED BY <1>5, <1>6, <1>7, <2>1
<1> QED BY <1>5, <1>8, <1>9, <1>10 DEF all

(* Lines that are joined can be told apart again: none of them is blank,   *)
(* and none holds a line end.                                              *)
LEMMA JoinLinesInjective ==
    ASSUME NEW A, "\n" \in A,
           NEW lines \in Seq(Seq(A \ {"\n"}) \ {<<>>}), NEW others \in Seq(Seq(A \ {"\n"}) \ {<<>>}),
           JoinLines(lines) = JoinLines(others)
    PROVE  lines = others
<1> DEFINE V == Seq(A \ {"\n"}) \ {<<>>}
           S == {s \in Seq(V) : \A t \in Seq(V) : JoinLines(s) = JoinLines(t) => s = t}
<1>1. ASSUME NEW w \in V PROVE w \in Seq(A) /\ w # <<>> /\ Plain(w)
  <2>1. \A j \in 1..Len(w) : w[j] \in A \ {"\n"}
    OBVIOUS
  <2> QED BY <2>1, SeqMonotonic DEF Plain
<1>2. ASSUME NEW s \in Seq(V) PROVE s \in Seq(Seq(A))
  <2>1. V \subseteq Seq(A)
    BY <1>1
  <2> HIDE DEF V
  <2> QED BY <2>1
<1> HIDE DEF V
<1>3. ASSUME NEW s \in Seq(V), NEW w \in V, s = <<>> PROVE JoinLines(Append(s, w)) = w
  BY <1>1, <1>2, <1>3, JoinLinesAppend
<1>4. ASSUME NEW s \in Seq(V), NEW w \in V, s # <<>>
      PROVE  JoinLines(s) \in Seq(A) /\ EndsWith(JoinLines(Append(s, w)), JoinLines(s), w)
  <2>1. w \in Seq(A) /\ s \in Seq(Seq(A))
    BY <1>1, <1>2
  <2>2. JoinLines(s) \in Seq(A) /\ JoinLines(Append(s, w)) = JoinLines(s) \o (<<"\n">> \o w)
    BY <1>4, <2>1, JoinLinesAppend
  <2>3. EndsWith(JoinLines(s) \o (<<"\n">> \o w), JoinLines(s), w)
    BY <2>1, <2>2, LineEnds
  <2> QED BY <2>2, <2>3
<1>5. ASSUME NEW x, NEW a \in Seq(A), NEW w \in V, NEW v \in V, EndsWith(x, a, w) PROVE x # v
  <2>1. Len(a) + 1 \in 1..Len(x) /\ x[Len(a) + 1] = "\n"
    <3>1. Len(w) \in Nat /\ Len(a) \in Nat
      BY <1>1
    <3> QED BY <1>5, <3>1 DEF EndsWith
  <2> QED BY <1>1, <2>1 DEF Plain
<1>6. ASSUME NEW s \in Seq(V), NEW w \in V PROVE JoinLines(Append(s, w)) # <<>>
  <2>1. CASE s = <<>>
    BY <1>1, <1>3, <2>1
  <2>2. CASE s # <<>>
    <3>1. JoinLines(s) \in Seq(A) /\ EndsWith(JoinLines(Append(s, w)), JoinLines(s), w)
      BY <1>4, <2>2
    <3>2. Len(JoinLines(s)) \in Nat /\ Len(w) \in Nat
      BY <1>1, <3>1
    <3> QED BY <3>1, <3>2 DEF EndsWith
  <2> QED BY <2>1, <2>2
<1>7. <<>> \in S
  <2>1. ASSUME NEW t \in Seq(V), t # <<>> PROVE JoinLines(t) # <<>>
    <3>1. PICK s \in Seq(V), w \in V : t = Append(s, w)
      BY <2>1, SequenceEmptyOrAppend
    <3> QED BY <1>6, <3>1
  <2>2. <<>> \in Seq(V)
    OBVIOUS
  <2> QED BY <2>1, <2>2, JoinLinesEmpty
<1>8. ASSUME NEW s \in Seq(V), NEW w \in V, s \in S PROVE Append(s, w) \in S
  <2>1. Append(s, w) \in Seq(V)
    BY AppendProperties
  <2>2. SUFFICES ASSUME NEW t \in Seq(V), JoinLines(Append(s, w)) = JoinLines(t) PROVE Append(s, w) = t
    BY <2>1
  <2>3. t # <<>>
    BY <1>6, <2>2, JoinLinesEmpty
  <2>4. PICK r \in Seq(V), v \in V : t = Append(r, v)
    BY <2>3, SequenceEmptyOrAppend
  <2> DEFINE x == JoinLines(Append(s, w))
  <2>5. x = JoinLines(Append(r, v))
    BY <2>2, <2>4
  <2> HIDE DEF x
  <2>6. CASE s = <<>>
    <3>1. x = w
      BY <1>3, <2>6 DEF x
    <3>2. r = <<>>
      BY <1>4, <1>5, <2>5, <3>1
    <3>3. x = v
      BY <1>3, <2>5, <3>2
    <3> QED BY <2>4, <2>6, <3>1, <3>2, <3>3
  <2>7. CASE s # <<>>
    <3>1. JoinLines(s) \in Seq(A) /\ EndsWith(x, JoinLines(s), w)
      BY <1>4, <2>7 DEF x
    <3>2. r # <<>>
      <4>1. x # v
        BY <1>5, <3>1
      <4> QED BY <1>3, <2>5, <4>1
    <3>3. JoinLines(r) \in Seq(A) /\ EndsWith(x, JoinLines(r), v)
      BY <1>4, <2>5, <3>2
    <3>4. w \in Seq(A) /\ v \in Seq(A) /\ Plain(w) /\ Plain(v)
      BY <1>1
    <3>5. JoinLines(s) = JoinLines(r) /\ w = v
      BY <3>1, <3>3, <3>4, LastLineEnd
    <3>6. s = r
      BY <1>8, <3>5
    <3> QED BY <2>4, <3>5, <3>6
  <2> QED BY <2>6, <2>7
<1> HIDE DEF S
<1>9. Seq(V) \subseteq S
  BY <1>7, <1>8, SequenceInduction
<1> QED BY <1>9 DEF S, V
-----------------------------------------------------------------------------
(* What a fingerprint tells.                                               *)

(* The frames are the first three lines that are not blank. *)
LEMMA FramesOf ==
    ASSUME NEW W, NEW trace \in Seq(LinesOf(W))
    PROVE  /\ Frames(trace) \in Seq(W \ {<<>>})
           /\ Len(Frames(trace)) = IF Len(Filled(trace)) <= 3 THEN Len(Filled(trace)) ELSE 3
           /\ \A j \in 1..Len(Frames(trace)) : Frames(trace)[j] = Filled(trace)[j]
<1> DEFINE lines == Filled(trace)
           n == Min({Len(lines), 3})
<1>1. lines \in Seq(W \ {<<>>}) /\ Len(lines) \in Nat
  BY FilledIsSeq
<1>2. Frames(trace) = SubSeq(lines, 1, n)
  BY DEF Frames
<1> HIDE DEF lines
<1>3. n = IF Len(lines) <= 3 THEN Len(lines) ELSE 3
  BY <1>1, MinOfTwo
<1> HIDE DEF n
<1>4. 1 \in Int /\ n \in Int /\ \A j \in 1..n : lines[j] \in W \ {<<>>}
  BY <1>1, <1>3
<1>5. /\ SubSeq(lines, 1, n) \in Seq(W \ {<<>>})
      /\ Len(SubSeq(lines, 1, n)) = IF 1 <= n THEN n - 1 + 1 ELSE 0
      /\ \A j \in 1..(n - 1 + 1) : SubSeq(lines, 1, n)[j] = lines[1 + j - 1]
  BY <1>4, SubSeqProperties
<1>6. (IF 1 <= n THEN n - 1 + 1 ELSE 0) = n /\ n - 1 + 1 = n /\ \A j \in 1..n : 1 + j - 1 = j
  BY <1>1, <1>3
<1>7. Len(Frames(trace)) = n /\ Frames(trace) \in Seq(W \ {<<>>})
  BY <1>2, <1>5, <1>6
<1>8. \A j \in 1..n : Frames(trace)[j] = lines[j]
  BY <1>2, <1>5, <1>6
<1> QED BY <1>3, <1>7, <1>8 DEF lines

(* What another line at i does to the frames. *)
WithLine(new, trace, i, l) ==
    /\ Frames(new) = Frames(trace) <=> Frame(new, i) > 3
    /\ Filled(new) # <<>> /\ Frame(new, i) \in Nat \ {0}
    /\ Frame(new, i) = 1 => Filled(new)[1] = l.words
    /\ Frame(new, i) > 1 => Filled(trace) # <<>> /\ Filled(new)[1] = Filled(trace)[1]

(* Another line at i, which is not in the trace, changes the frames unless *)
(* there are three before it, and is the first line of them or leaves that *)
(* as it is.                                                               *)
LEMMA FramesWithLine ==
    ASSUME NEW W, NEW trace \in Seq(LinesOf(W)), NEW i \in 1..Len(trace), NEW l \in LinesOf(W),
           l.words # <<>>, \A j \in 1..Len(trace) : trace[j].words # l.words
    PROVE  WithLine([trace EXCEPT ![i] = l], trace, i, l)
<1> DEFINE V == W \ {<<>>}
           new == [trace EXCEPT ![i] = l]
           a == SubSeq(trace, 1, i - 1)
           b == SubSeq(trace, i + 1, Len(trace))
           P == Filled(a)
           c == l.words
<1> SUFFICES /\ Frames(new) = Frames(trace) <=> Frame(new, i) > 3
             /\ Filled(new) # <<>> /\ Frame(new, i) \in Nat \ {0}
             /\ Frame(new, i) = 1 => Filled(new)[1] = c
             /\ Frame(new, i) > 1 => Filled(trace) # <<>> /\ Filled(new)[1] = Filled(trace)[1]
  BY DEF WithLine
<1>1. /\ new \in Seq(LinesOf(W)) /\ Len(new) = Len(trace)
      /\ \A j \in 1..Len(trace) : new[j] = IF j = i THEN l ELSE trace[j]
  BY ExceptSeq
<1>2. /\ a \in Seq(LinesOf(W)) /\ Len(a) = i - 1 /\ \A j \in 1..(i - 1) : a[j] = trace[j]
  <2>1. 1 \in Int /\ i - 1 \in Int /\ \A j \in 1..(i - 1) : trace[j] \in LinesOf(W)
    OBVIOUS
  <2>2. /\ a \in Seq(LinesOf(W)) /\ Len(a) = IF 1 <= i - 1 THEN (i - 1) - 1 + 1 ELSE 0
        /\ \A j \in 1..((i - 1) - 1 + 1) : a[j] = trace[1 + j - 1]
    BY <2>1, SubSeqProperties
  <2>3. (i - 1) - 1 + 1 = i - 1 /\ \A j \in 1..(i - 1) : 1 + j - 1 = j
    OBVIOUS
  <2> HIDE DEF a
  <2> QED BY <2>2, <2>3
<1>3. b \in Seq(LinesOf(W))
  <2>1. i + 1 \in Int /\ Len(trace) \in Int /\ \A j \in (i + 1)..Len(trace) : trace[j] \in LinesOf(W)
    OBVIOUS
  <2> QED BY <2>1, SubSeqProperties
<1>4. Filled(new) = P \o (OneLine(l) \o Filled(b))
  BY FilledReplaced
<1>5. Filled(trace) = P \o (OneLine(trace[i]) \o Filled(b))
  <2> DEFINE With(m) == [trace EXCEPT ![i] = m]
  <2>1. With(trace[i]) = trace /\ trace[i] \in LinesOf(W)
    OBVIOUS
  <2>2. \A m \in LinesOf(W) : Filled(With(m)) = P \o (OneLine(m) \o Filled(b))
    BY FilledReplaced
  <2> HIDE DEF With
  <2> QED BY <2>1, <2>2
<1> HIDE DEF a, b, new, V
<1>6. /\ P \in Seq(V) /\ OneLine(l) \o Filled(b) \in Seq(V)
      /\ OneLine(trace[i]) \o Filled(b) \in Seq(V)
  <2>1. trace[i] \in LinesOf(W)
    OBVIOUS
  <2>2. OneLine(l) \in Seq(V) /\ OneLine(trace[i]) \in Seq(V)
    BY <2>1, FilledOne DEF V
  <2>3. P \in Seq(V) /\ Filled(b) \in Seq(V)
    BY <1>2, <1>3, FilledIsSeq DEF V
  <2> QED BY <2>2, <2>3, ConcatProperties
<1>7. Frame(new, i) = Len(P) + 1 /\ Len(P) \in Nat
  <2> DEFINE n == i - 1
  <2>1. n \in Nat /\ n + 1 = i /\ Len(a) = n
    BY <1>2
  <2>2. \A j \in 1..n : new[j].words = a[j].words
    BY <1>1, <1>2
  <2>3. new[i].words # <<>>
    BY <1>1
  <2> HIDE DEF n
  <2>4. Frame(new, n) = Frame(a, n)
    BY <2>1, <2>2, FrameOfSame
  <2>5. Frame(a, n) = Len(P)
    BY <1>2, <2>1, FramesAreFilled
  <2>6. Frame(new, n) \in Nat /\ Frame(new, n + 1) = Frame(new, n) + 1
    BY <2>1, <2>3, FrameStep
  <2> QED BY <2>1, <2>4, <2>5, <2>6
<1> HIDE DEF P
<1>8. /\ Len(Filled(new)) = Len(P) + Len(OneLine(l) \o Filled(b))
      /\ \A j \in 1..Len(P) : Filled(new)[j] = P[j]
      /\ Filled(new)[Len(P) + 1] = c /\ Len(OneLine(l) \o Filled(b)) >= 1
  <2> DEFINE rest == OneLine(l) \o Filled(b)
             one == <<c>>
  <2>1. one \in Seq(V) /\ OneLine(l) = one /\ Len(one) = 1 /\ one[1] = c
    BY DEF OneLine, LinesOf, V
  <2>2. Filled(b) \in Seq(V)
    BY <1>3, FilledIsSeq DEF V
  <2> HIDE DEF one
  <2>3. Len(one \o Filled(b)) = 1 + Len(Filled(b)) /\ (one \o Filled(b))[1] = c
    <3> DEFINE f == Filled(b)
    <3>1. f \in Seq(V) /\ one \in Seq(V)
      BY <2>1, <2>2
    <3> HIDE DEF f
    <3>2. /\ Len(one \o f) = Len(one) + Len(f)
          /\ \A j \in 1..(Len(one) + Len(f)) :
                 (one \o f)[j] = IF j <= Len(one) THEN one[j] ELSE f[j - Len(one)]
      BY <3>1, ConcatProperties
    <3>3. 1 \in 1..(Len(one) + Len(f)) /\ 1 <= Len(one)
      BY <2>1, <3>1
    <3> QED BY <2>1, <3>2, <3>3 DEF f
  <2>4. Len(rest) >= 1 /\ rest[1] = c
    BY <2>1, <2>2, <2>3
  <2>5. rest \in Seq(V)
    BY <1>6
  <2> HIDE DEF rest
  <2>6. /\ Len(P \o rest) = Len(P) + Len(rest)
        /\ \A j \in 1..(Len(P) + Len(rest)) :
               (P \o rest)[j] = IF j <= Len(P) THEN P[j] ELSE rest[j - Len(P)]
    BY <1>6, <2>5, ConcatProperties
  <2>7. Len(P) + 1 - Len(P) = 1 /\ Len(P) + 1 \in 1..(Len(P) + Len(rest)) /\ ~(Len(P) + 1 <= Len(P))
    BY <1>7, <2>4, <2>5
  <2>8. (P \o rest)[Len(P) + 1] = c
    BY <2>4, <2>6, <2>7
  <2>9. \A j \in 1..Len(P) : (P \o rest)[j] = P[j]
    BY <1>7, <2>5, <2>6
  <2> QED BY <1>4, <2>4, <2>6, <2>8, <2>9 DEF rest
<1>9. /\ Len(Filled(trace)) >= Len(P) /\ \A j \in 1..Len(P) : Filled(trace)[j] = P[j]
  <2> DEFINE rest == OneLine(trace[i]) \o Filled(b)
  <2>1. rest \in Seq(V)
    BY <1>6
  <2> HIDE DEF rest
  <2>2. /\ Len(P \o rest) = Len(P) + Len(rest)
        /\ \A j \in 1..(Len(P) + Len(rest)) :
               (P \o rest)[j] = IF j <= Len(P) THEN P[j] ELSE rest[j - Len(P)]
    BY <1>6, <2>1, ConcatProperties
  <2>3. Len(P \o rest) >= Len(P) /\ \A j \in 1..Len(P) : (P \o rest)[j] = P[j]
    BY <1>7, <2>1, <2>2
  <2> QED BY <1>5, <2>3 DEF rest
<1>10. /\ Len(Frames(new)) = IF Len(Filled(new)) <= 3 THEN Len(Filled(new)) ELSE 3
       /\ \A j \in 1..Len(Frames(new)) : Frames(new)[j] = Filled(new)[j]
  BY <1>1, FramesOf
<1>11. /\ Len(Frames(trace)) = IF Len(Filled(trace)) <= 3 THEN Len(Filled(trace)) ELSE 3
       /\ \A j \in 1..Len(Frames(trace)) : Frames(trace)[j] = Filled(trace)[j]
  BY FramesOf
<1>12. Frames(new) \in Seq(V) /\ Frames(trace) \in Seq(V) /\ Len(OneLine(l) \o Filled(b)) \in Nat
       /\ Len(Filled(trace)) \in Nat
  <2>1. Filled(trace) \in Seq(V)
    BY FilledIsSeq DEF V
  <2>2. new \in Seq(LinesOf(W))
    BY <1>1
  <2>3. Frames(new) \in Seq(V) /\ Frames(trace) \in Seq(V)
    BY <2>2, FramesOf DEF V
  <2> QED BY <1>6, <2>1, <2>3
<1>13. ASSUME Len(P) >= 3 PROVE Frames(new) = Frames(trace)
  <2>1. Len(Frames(new)) = 3 /\ Len(Frames(trace)) = 3
    BY <1>7, <1>8, <1>9, <1>10, <1>11, <1>12, <1>13
  <2>2. \A j \in 1..3 : Frames(new)[j] = Frames(trace)[j]
    BY <1>7, <1>8, <1>9, <1>10, <1>11, <1>13, <2>1
  <2> QED BY <1>12, <2>1, <2>2, SeqEqual
<1>14. ASSUME Len(P) < 3, Frames(new) = Frames(trace) PROVE FALSE
  <2> DEFINE k == Len(P) + 1
             used == {trace[j].words : j \in 1..Len(trace)}
  <2>1. k \in 1..Len(Frames(new))
    BY <1>7, <1>8, <1>10, <1>12, <1>14
  <2>2. Frames(new)[k] = c
    <3>1. Filled(new)[k] = c
      BY <1>8
    <3> HIDE DEF k, c
    <3> QED BY <1>10, <2>1, <3>1
  <2>3. trace \in Seq(LinesOf(used))
    <3>1. \A j \in 1..Len(trace) : trace[j] \in LinesOf(used)
      <4>1. ASSUME NEW j \in 1..Len(trace) PROVE trace[j] \in LinesOf(used)
        <5>1. trace[j] \in LinesOf(W) /\ trace[j].words \in used
          OBVIOUS
        <5> HIDE DEF used
        <5> QED BY <5>1 DEF LinesOf
      <4> QED BY <4>1
    <3> HIDE DEF used
    <3> QED BY <3>1
  <2>4. c \notin used
    OBVIOUS
  <2> HIDE DEF used, k, c
  <2>5. Frames(trace) \in Seq(used \ {<<>>})
    BY <2>3, FramesOf
  <2>6. Frames(trace)[k] \in used
    BY <1>14, <2>1, <2>5
  <2> QED BY <1>14, <2>2, <2>4, <2>6
<1>15. /\ Filled(new) # <<>> /\ Frame(new, i) \in Nat \ {0}
       /\ Frame(new, i) = 1 => Filled(new)[1] = c
       /\ Frame(new, i) > 1 => Filled(trace) # <<>> /\ Filled(new)[1] = Filled(trace)[1]
  <2>1. Len(Filled(new)) >= 1
    BY <1>7, <1>8, <1>12
  <2>2. ASSUME Frame(new, i) = 1 PROVE Filled(new)[1] = c
    <3>1. Len(P) + 1 = 1
      BY <1>7, <2>2
    <3> QED BY <1>8, <3>1
  <2>3. ASSUME Frame(new, i) > 1
        PROVE  Filled(trace) # <<>> /\ Filled(new)[1] = Filled(trace)[1]
    <3>1. 1 \in 1..Len(P) /\ Len(Filled(trace)) >= 1
      BY <1>7, <1>9, <1>12, <2>3
    <3>2. Filled(new)[1] = P[1] /\ Filled(trace)[1] = P[1]
      BY <1>8, <1>9, <3>1
    <3> QED BY <3>1, <3>2
  <2>4. Filled(new) # <<>>
    BY <2>1
  <2> QED BY <1>7, <2>2, <2>3, <2>4
<1> QED BY <1>7, <1>13, <1>14, <1>15

(* The words of a report, and those that come in when it is changed.       *)
Alphabet == STRING \cup {"\n", "fail", "changed"}

(* The lines of a report. *)
Report == LinesOf(Seq(Alphabet \ {"\n"}))

(* Lower keeps the length of a message. *)
LEMMA LowerIsSeq ==
    ASSUME NEW message \in Seq(Alphabet)
    PROVE  Lower(message) \in Seq(Alphabet) /\ Len(Lower(message)) = Len(message)
<1>1. \A i \in 1..Len(message) : (IF message[i] = "Fail" THEN "fail" ELSE message[i]) \in Alphabet
  BY DEF Alphabet
<1> QED BY <1>1 DEF Lower

(* Lower does its work at once. *)
LEMMA LowerOfLower ==
    ASSUME NEW message \in Seq(Alphabet)
    PROVE  Lower(Lower(message)) = Lower(message)
<1>1. Lower(message) = [i \in 1..Len(message) |-> IF message[i] = "Fail" THEN "fail" ELSE message[i]]
  BY DEF Lower
<1>2. Len(Lower(message)) = Len(message)
  BY LowerIsSeq
<1>3. Lower(Lower(message)) =
          [i \in 1..Len(message) |-> IF Lower(message)[i] = "Fail" THEN "fail" ELSE Lower(message)[i]]
  BY <1>2 DEF Lower
<1>4. \A i \in 1..Len(message) :
          (IF Lower(message)[i] = "Fail" THEN "fail" ELSE Lower(message)[i])
              = IF message[i] = "Fail" THEN "fail" ELSE message[i]
  BY <1>1
<1> QED BY <1>1, <1>3, <1>4

(* Frames can be joined, to a text. *)
LEMMA FramesAreLines ==
    ASSUME NEW trace \in Seq(Report)
    PROVE  Frames(trace) \in Seq(Seq(Alphabet \ {"\n"}) \ {<<>>}) /\ JoinLines(Frames(trace)) \in Seq(Alphabet)
<1> DEFINE W == Seq(Alphabet \ {"\n"})
           lines == Frames(trace)
<1>1. lines \in Seq(W \ {<<>>})
  BY FramesOf DEF Report
<1> HIDE DEF lines
<1>2. W \ {<<>>} \subseteq Seq(Alphabet)
  OBVIOUS
<1>3. lines \in Seq(Seq(Alphabet))
  <2> DEFINE V == W \ {<<>>}
  <2>1. V \subseteq Seq(Alphabet) /\ lines \in Seq(V)
    BY <1>1, <1>2
  <2> HIDE DEF V
  <2> QED BY <2>1
<1>4. "\n" \in Alphabet /\ <<>> \in Seq(Alphabet)
  BY DEF Alphabet
<1>5. JoinLines(lines) \in Seq(Alphabet)
  BY <1>3, <1>4, JoinLinesAppend
<1> QED BY <1>1, <1>5 DEF lines

(* Of two traces under one message, the frames decide: their fingerprints  *)
(* are the same when their first three lines are, but for indentation, and *)
(* only then.                                                              *)
THEOREM FramesDecide ==
    ASSUME NEW message \in Seq(Alphabet), NEW s \in Seq(Report), NEW t \in Seq(Report)
    PROVE  Fingerprint(message, s) = Fingerprint(message, t) <=> Frames(s) = Frames(t)
<1>1. SUFFICES ASSUME Fingerprint(message, s) = Fingerprint(message, t) PROVE Frames(s) = Frames(t)
  BY DEF Fingerprint
<1> DEFINE a == Lower(message)
           b == JoinLines(Frames(s))
           c == JoinLines(Frames(t))
<1>2. a \in Seq(Alphabet) /\ b \in Seq(Alphabet) /\ c \in Seq(Alphabet)
  BY LowerIsSeq, FramesAreLines
<1>3. a \o b = a \o c
  BY <1>1 DEF Fingerprint
<1> HIDE DEF a, b, c
<1>4. b = c
  BY <1>2, <1>3, ConcatSimplifications
<1>5. "\n" \in Alphabet
  BY DEF Alphabet
<1> DEFINE V == Seq(Alphabet \ {"\n"}) \ {<<>>}
           x == Frames(s)
           y == Frames(t)
<1>6. x \in Seq(V) /\ y \in Seq(V) /\ JoinLines(x) = JoinLines(y)
  BY <1>4, FramesAreLines DEF b, c
<1> HIDE DEF x, y
<1>7. x = y
  BY <1>5, <1>6, JoinLinesInjective
<1> QED BY <1>7 DEF x, y


(* What is said of the errors is said of their words. *)
LEMMA ReportsAreReports ==
    ASSUME NEW e \in Errors
    PROVE  e.message \in Seq(Alphabet) /\ e.trace \in Seq(Report)
<1>1. e.message \in Seq(STRING) /\ e.trace \in Seq([indent : BOOLEAN, words : Seq(STRING \ {"\n"})])
  BY ErrorsAssumption
<1>2. STRING \subseteq Alphabet /\ STRING \ {"\n"} \subseteq Alphabet \ {"\n"}
  BY DEF Alphabet
<1>3. e.message \in Seq(Alphabet)
  <2> DEFINE message == e.message
  <2>1. message \in Seq(STRING)
    BY <1>1
  <2> HIDE DEF message
  <2>2. message \in Seq(Alphabet)
    BY <1>2, <2>1, SeqMonotonic
  <2> QED BY <2>2 DEF message
<1>4. [indent : BOOLEAN, words : Seq(STRING \ {"\n"})] \subseteq Report
  <2> DEFINE V == STRING \ {"\n"}
             W == Alphabet \ {"\n"}
  <2>1. V \subseteq W
    BY <1>2
  <2> HIDE DEF V, W
  <2>2. Seq(V) \subseteq Seq(W)
    BY <2>1, SeqMonotonic
  <2>3. [indent : BOOLEAN, words : Seq(V)] \subseteq [indent : BOOLEAN, words : Seq(W)]
    BY <2>2
  <2> QED BY <2>3 DEF V, W, Report, LinesOf
<1>5. e.trace \in Seq(Report)
  <2> DEFINE trace == e.trace
             L == [indent : BOOLEAN, words : Seq(STRING \ {"\n"})]
  <2>1. trace \in Seq(L) /\ L \subseteq Report
    BY <1>1, <1>4
  <2> HIDE DEF trace, L
  <2>2. trace \in Seq(Report)
    BY <2>1, SeqMonotonic
  <2> QED BY <2>2 DEF trace
<1> QED BY <1>3, <1>5

(* A line may be indented or not. *)
LEMMA FilledIndented ==
    ASSUME NEW W, NEW trace \in Seq(LinesOf(W)), NEW i \in 1..Len(trace), NEW l \in LinesOf(W),
           l.words = trace[i].words
    PROVE  Filled([trace EXCEPT ![i] = l]) = Filled(trace)
<1> DEFINE With(m) == [trace EXCEPT ![i] = m]
<1>1. With(trace[i]) = trace /\ trace[i] \in LinesOf(W)
  OBVIOUS
<1>2. \A m \in LinesOf(W) :
          Filled(With(m)) = Filled(SubSeq(trace, 1, i - 1))
                                \o (OneLine(m) \o Filled(SubSeq(trace, i + 1, Len(trace))))
  BY FilledReplaced
<1>3. OneLine(l) = OneLine(trace[i])
  BY DEF OneLine
<1> SUFFICES Filled(With(l)) = Filled(trace)
  OBVIOUS
<1> HIDE DEF With
<1> QED BY <1>1, <1>2, <1>3

(* What a text of lines begins with: its first line, and the end of it. *)
Begins(text, line) ==
    /\ Len(text) >= Len(line) /\ \A i \in 1..Len(line) : text[i] = line[i]
    /\ Len(text) > Len(line) => text[Len(line) + 1] = "\n"

(* It still does when more lines follow. *)
LEMMA BeginsLonger ==
    ASSUME NEW A, NEW t \in Seq(A), NEW u \in Seq(A), NEW f \in Seq(A),
           Begins(t, f), u # <<>>, u[1] = "\n"
    PROVE  Begins(t \o u, f)
<1>1. /\ Len(t \o u) = Len(t) + Len(u)
      /\ \A i \in 1..(Len(t) + Len(u)) : (t \o u)[i] = IF i <= Len(t) THEN t[i] ELSE u[i - Len(t)]
  BY ConcatProperties
<1>2. Len(t) \in Nat /\ Len(u) \in Nat \ {0} /\ Len(f) \in Nat /\ Len(t) >= Len(f)
  BY EmptySeq DEF Begins
<1>3. ASSUME NEW i \in 1..Len(f) PROVE (t \o u)[i] = f[i]
  <2>1. i \in 1..(Len(t) + Len(u)) /\ i <= Len(t) /\ t[i] = f[i]
    BY <1>2 DEF Begins
  <2> QED BY <1>1, <2>1
<1>4. (t \o u)[Len(f) + 1] = "\n"
  <2>1. CASE Len(t) = Len(f)
    <3>1. Len(f) + 1 - Len(t) = 1 /\ Len(f) + 1 \in 1..(Len(t) + Len(u)) /\ ~(Len(f) + 1 <= Len(t))
      BY <1>2, <2>1
    <3> QED BY <1>1, <3>1
  <2>2. CASE Len(t) > Len(f)
    <3>1. Len(f) + 1 \in 1..(Len(t) + Len(u)) /\ Len(f) + 1 <= Len(t)
      BY <1>2, <2>2
    <3>2. t[Len(f) + 1] = "\n"
      BY <2>2 DEF Begins
    <3> QED BY <1>1, <3>1, <3>2
  <2> QED BY <1>2, <2>1, <2>2
<1>5. Len(t \o u) >= Len(f)
  BY <1>1, <1>2
<1> QED BY <1>3, <1>4, <1>5 DEF Begins

(* It begins with it however many lines there are. *)
LEMMA JoinLinesBegins ==
    ASSUME NEW lines \in Seq(Seq(Alphabet)), lines # <<>>
    PROVE  JoinLines(lines) \in Seq(Alphabet) /\ Begins(JoinLines(lines), lines[1])
<1> DEFINE V == Seq(Alphabet)
           S == {ls \in Seq(V) : ls # <<>> => Begins(JoinLines(ls), ls[1])}
<1>1. "\n" \in Alphabet
  BY DEF Alphabet
<1>2. <<>> \in S
  OBVIOUS
<1>3. ASSUME NEW ls \in Seq(V), ls \in S, NEW l \in V PROVE Append(ls, l) \in S
  <2> DEFINE all == Append(ls, l)
  <2>1. /\ all \in Seq(V) /\ Len(all) = Len(ls) + 1 /\ all[Len(ls) + 1] = l
        /\ \A i \in 1..Len(ls) : all[i] = ls[i]
    <3> HIDE DEF V
    <3> QED BY AppendProperties
  <2>2. SUFFICES Begins(JoinLines(all), all[1])
    BY <2>1
  <2>3. /\ ls = <<>> => JoinLines(all) = l
        /\ ls # <<>> => JoinLines(all) = JoinLines(ls) \o (<<"\n">> \o l)
        /\ JoinLines(ls) \in V
    <3>1. ls \in Seq(Seq(Alphabet)) /\ l \in Seq(Alphabet)
      OBVIOUS
    <3> QED BY <1>1, <3>1, JoinLinesAppend
  <2>4. ls # <<>> => Begins(JoinLines(ls), ls[1]) /\ 1 \in 1..Len(ls)
    BY <1>3
  <2> HIDE DEF all, S
  <2>5. CASE ls = <<>>
    <3>1. Len(ls) + 1 = 1
      BY <2>5
    <3>2. all[1] = l
      BY <2>1, <3>1
    <3>3. Begins(l, l)
      BY DEF Begins
    <3> QED BY <2>3, <2>5, <3>2, <3>3
  <2>6. CASE ls # <<>>
    <3> DEFINE u == <<"\n">> \o l
    <3>1. u \in V /\ u # <<>> /\ u[1] = "\n"
      <4> DEFINE one == <<"\n">>
      <4>1. one \in V /\ Len(one) = 1 /\ one[1] = "\n" /\ l \in Seq(Alphabet) /\ Len(l) \in Nat
        BY <1>1
      <4> HIDE DEF one
      <4>2. /\ one \o l \in Seq(Alphabet) /\ Len(one \o l) = Len(one) + Len(l)
            /\ \A i \in 1..(Len(one) + Len(l)) :
                   (one \o l)[i] = IF i <= Len(one) THEN one[i] ELSE l[i - Len(one)]
        BY <4>1, ConcatProperties
      <4>3. 1 \in 1..(Len(one) + Len(l)) /\ 1 <= Len(one)
        BY <4>1
      <4>4. (one \o l)[1] = "\n" /\ one \o l # <<>>
        BY <4>1, <4>2, <4>3
      <4> QED BY <4>2, <4>4 DEF one
    <3> HIDE DEF u
    <3>2. all[1] = ls[1] /\ ls[1] \in V
      BY <2>1, <2>4, <2>6
    <3>3. JoinLines(ls) \in Seq(Alphabet) /\ u \in Seq(Alphabet) /\ ls[1] \in Seq(Alphabet)
      BY <2>3, <3>1, <3>2
    <3>4. Begins(JoinLines(ls), ls[1])
      BY <2>4, <2>6
    <3>5. Begins(JoinLines(ls) \o u, ls[1])
      BY <3>1, <3>3, <3>4, BeginsLonger
    <3> QED BY <2>3, <2>6, <3>2, <3>5 DEF u
  <2> QED BY <2>5, <2>6
<1>4. \A ls \in Seq(V) : ls \in S
  <2> HIDE DEF S, V
  <2> QED BY <1>2, <1>3, SequenceInduction
<1>5. JoinLines(lines) \in Seq(Alphabet)
  BY <1>1, JoinLinesAppend, EmptySeq
<1> QED BY <1>4, <1>5

(* The text that is hashed of a trace begins with its first frame. *)
LEMMA TextBegins ==
    ASSUME NEW trace \in Seq(Report), Filled(trace) # <<>>
    PROVE  /\ Filled(trace)[1] \in Seq(Alphabet \ {"\n"}) \ {<<>>}
           /\ Filled(trace)[1] \in Seq(Alphabet)
           /\ JoinLines(Frames(trace)) \in Seq(Alphabet)
           /\ Begins(JoinLines(Frames(trace)), Filled(trace)[1])
<1> DEFINE W == Seq(Alphabet \ {"\n"})
           lines == Frames(trace)
<1>1. /\ lines \in Seq(W \ {<<>>})
      /\ Len(lines) = IF Len(Filled(trace)) <= 3 THEN Len(Filled(trace)) ELSE 3
      /\ \A j \in 1..Len(lines) : lines[j] = Filled(trace)[j]
  BY FramesOf DEF Report
<1>2. Filled(trace) \in Seq(W \ {<<>>})
  BY FilledIsSeq DEF Report
<1> HIDE DEF lines
<1>3. 1 \in 1..Len(lines) /\ lines # <<>>
  BY <1>1, <1>2
<1>4. lines[1] = Filled(trace)[1] /\ lines[1] \in W \ {<<>>}
  BY <1>1, <1>3
<1>5. W \ {<<>>} \subseteq Seq(Alphabet)
  OBVIOUS
<1>6. lines \in Seq(Seq(Alphabet))
  <2> DEFINE V == W \ {<<>>}
  <2>1. V \subseteq Seq(Alphabet) /\ lines \in Seq(V)
    BY <1>1, <1>5
  <2> HIDE DEF V
  <2> QED BY <2>1
<1>7. JoinLines(lines) \in Seq(Alphabet) /\ Begins(JoinLines(lines), lines[1])
  BY <1>3, <1>6, JoinLinesBegins
<1> QED BY <1>4, <1>5, <1>7 DEF lines

(* A title of one word. *)
LEMMA TitleOfOne ==
    ASSUME NEW f \in Seq(Alphabet), Len(f) = 1, Lower(f)[1] = "changed"
    PROVE  f = <<"changed">>
<1>1. Lower(f)[1] = IF f[1] = "Fail" THEN "fail" ELSE f[1]
  BY DEF Lower
<1>2. f[1] = "changed"
  BY <1>1
<1> QED BY <1>2

(* The word that is changed to is its own title in lower case. *)
LEMMA LowerOfChanged ==
    /\ <<"changed">> \in Seq(Alphabet) /\ Len(<<"changed">>) = 1 /\ <<"changed">>[1] = "changed"
    /\ Lower(<<"changed">>) = <<"changed">>
<1>1. "changed" \in Alphabet /\ <<"changed">> \in Seq(Alphabet) /\ Len(<<"changed">>) = 1
  BY DEF Alphabet
<1>2. Lower(<<"changed">>) \in Seq(Alphabet) /\ Len(Lower(<<"changed">>)) = 1
  BY <1>1, LowerIsSeq
<1>3. Lower(<<"changed">>)[1] = "changed"
  BY <1>1 DEF Lower
<1>4. \A s \in Seq(Alphabet) : Len(s) = 1 /\ s[1] = "changed" => s = <<"changed">>
  BY <1>1
<1> QED BY <1>1, <1>2, <1>3, <1>4

(* What is hashed under a title, place by place. *)
LEMMA HashedIs ==
    ASSUME NEW title \in Seq(Alphabet), NEW trace \in Seq(Report)
    PROVE  LET text == JoinLines(Frames(trace))
               sum  == Fingerprint(title, trace)
               n    == Len(title)
           IN  /\ text \in Seq(Alphabet) /\ Len(sum) = n + Len(text)
               /\ \A i \in 1..n : sum[i] = Lower(title)[i]
               /\ \A i \in 1..Len(text) : sum[n + i] = text[i]
<1> DEFINE text == JoinLines(Frames(trace))
           low  == Lower(title)
           n    == Len(title)
<1>1. text \in Seq(Alphabet) /\ low \in Seq(Alphabet) /\ Len(low) = n
  BY FramesAreLines, LowerIsSeq
<1>2. Fingerprint(title, trace) = low \o text
  BY DEF Fingerprint
<1> SUFFICES /\ text \in Seq(Alphabet) /\ Len(low \o text) = n + Len(text)
             /\ \A i \in 1..n : (low \o text)[i] = low[i]
             /\ \A i \in 1..Len(text) : (low \o text)[n + i] = text[i]
  BY <1>2
<1> HIDE DEF text, low
<1>3. n \in Nat /\ Len(text) \in Nat
  BY <1>1
<1> HIDE DEF n
<1>4. /\ Len(low \o text) = Len(low) + Len(text)
      /\ \A i \in 1..(Len(low) + Len(text)) :
             (low \o text)[i] = IF i <= Len(low) THEN low[i] ELSE text[i - Len(low)]
  BY <1>1, ConcatProperties
<1>5. ASSUME NEW i \in 1..Len(text) PROVE (low \o text)[n + i] = text[i]
  <2>1. n + i \in 1..(n + Len(text)) /\ ~(n + i <= n) /\ n + i - n = i
    BY <1>3
  <2> QED BY <1>1, <1>4, <2>1
<1>6. ASSUME NEW i \in 1..n PROVE (low \o text)[i] = low[i]
  BY <1>1, <1>3, <1>4
<1> QED BY <1>1, <1>4, <1>5, <1>6

LEMMA LengthsTell ==
    ASSUME NEW m \in Nat, NEW k \in Nat, NEW n \in Nat, m # 0, 1 + k = m + n
    PROVE  /\ k = n => m = 1
           /\ m # 1 /\ n >= m => k >= 3
           /\ m # 1 => m = 2 \/ m >= 3
OBVIOUS

(* A report without message, whose first frame is changed or that gets a   *)
(* message: the place of the first line end gives away how long its title  *)
(* was, and the first word what it was.                                    *)
LEMMA TitlesTell ==
    ASSUME NEW s \in Seq(Report), NEW t \in Seq(Report), Filled(s) # <<>>, Filled(t) # <<>>,
           Filled(t)[1] # <<"changed">>,
           Filled(s)[1] = <<"changed">> \/ s = t
    PROVE  Fingerprint(<<"changed">>, s) # Fingerprint(Filled(t)[1], t)
<1> DEFINE c == <<"changed">>
           f == Filled(t)[1]
           a == JoinLines(Frames(s))
           b == JoinLines(Frames(t))
           x == Fingerprint(c, s)
           y == Fingerprint(f, t)
<1>1. c \in Seq(Alphabet) /\ Len(c) = 1 /\ c[1] = "changed" /\ Lower(c) = c
  BY LowerOfChanged
<1>2. /\ f \in Seq(Alphabet \ {"\n"}) \ {<<>>} /\ f \in Seq(Alphabet)
      /\ a \in Seq(Alphabet) /\ b \in Seq(Alphabet) /\ Begins(a, Filled(s)[1]) /\ Begins(b, f)
  BY TextBegins
<1>3. /\ Len(x) = Len(c) + Len(a) /\ \A i \in 1..Len(c) : x[i] = Lower(c)[i]
      /\ \A i \in 1..Len(a) : x[Len(c) + i] = a[i]
  BY <1>1, HashedIs
<1>4. /\ Len(y) = Len(f) + Len(b) /\ \A i \in 1..Len(f) : y[i] = Lower(f)[i]
      /\ \A i \in 1..Len(b) : y[Len(f) + i] = b[i]
  BY <1>2, HashedIs
<1>5. SUFFICES ASSUME x = y PROVE FALSE
  OBVIOUS
<1>6. f # c /\ (Filled(s)[1] = c \/ a = b)
  OBVIOUS
<1>7. \A i \in 1..Len(f) : Lower(f)[i] # "\n"
  <2> SUFFICES ASSUME NEW i \in 1..Len(f) PROVE Lower(f)[i] # "\n"
    OBVIOUS
  <2>1. f[i] # "\n"
    BY <1>2
  <2>2. Lower(f)[i] = IF f[i] = "Fail" THEN "fail" ELSE f[i]
    BY DEF Lower
  <2> QED BY <2>1, <2>2
<1> HIDE DEF c, f, a, b, x, y
<1>8. Len(f) \in Nat \ {0} /\ Len(a) \in Nat /\ Len(b) \in Nat
  BY <1>2, EmptySeq
<1> DEFINE m == Len(f)
           k == Len(a)
           n == Len(b)
<1>9. Len(f) = 1
  <2>1. 1 + Len(a) = Len(f) + Len(b)
    <3>1. Len(x) = 1 + Len(a) /\ Len(y) = Len(f) + Len(b)
      BY <1>1, <1>3, <1>4
    <3> QED BY <1>5, <3>1
  <2> HIDE DEF m, k, n
  <2>a. m \in Nat /\ m # 0 /\ k \in Nat /\ n \in Nat /\ 1 + k = m + n
    BY <1>8, <2>1 DEF m, k, n
  <2>b. /\ k = n => m = 1
        /\ m # 1 /\ n >= m => k >= 3
        /\ m # 1 => m = 2 \/ m >= 3
    BY <2>a, LengthsTell
  <2>2. CASE a = b
    BY <2>b, <2>2 DEF m, k, n
  <2>3. CASE Filled(s)[1] = c
    <3>1. SUFFICES ASSUME Len(f) # 1 PROVE FALSE
      OBVIOUS
    <3>2. Len(b) >= Len(f) /\ \A i \in 1..Len(f) : b[i] = f[i]
      BY <1>2 DEF Begins
    <3>3. Len(a) >= 3
      BY <2>b, <3>1, <3>2 DEF m, k, n
    <3>4. a[2] = "\n"
      <4>1. Begins(a, c) /\ Len(c) + 1 = 2 /\ Len(a) > Len(c)
        BY <1>1, <1>2, <1>8, <2>3, <3>3
      <4> QED BY <4>1 DEF Begins
    <3>5. x[3] = "\n"
      <4>1. 2 \in 1..Len(a) /\ Len(c) + 2 = 3
        BY <1>1, <1>8, <3>3
      <4> QED BY <1>3, <3>4, <4>1
    <3>6. y[3] # "\n"
      <4>1. CASE Len(f) = 2
        <5>1. 1 \in 1..Len(b) /\ 1 \in 1..Len(f) /\ Len(f) + 1 = 3
          BY <1>8, <3>2, <4>1
        <5>2. y[3] = f[1] /\ f[1] # "\n"
          BY <1>2, <1>4, <3>2, <5>1
        <5> QED BY <5>2
      <4>2. CASE Len(f) >= 3
        <5>1. 3 \in 1..Len(f)
          BY <1>8, <4>2
        <5> QED BY <1>4, <1>7, <5>1
      <4>3. Len(f) = 2 \/ Len(f) >= 3
        BY <2>b, <3>1 DEF m
      <4> QED BY <4>1, <4>2, <4>3, Zenon
    <3> QED BY <1>5, <3>5, <3>6
  <2> QED BY <1>6, <2>2, <2>3
<1>10. Lower(f)[1] = "changed"
  <2>1. 1 \in 1..Len(f) /\ 1 \in 1..Len(c)
    BY <1>1, <1>9
  <2> QED BY <1>1, <1>3, <1>4, <1>5, <2>1
<1>11. f = c
  BY <1>2, <1>9, <1>10, TitleOfOne DEF c
<1> QED BY <1>6, <1>11

(* FingerprintTellsErrors, of any fingerprint, message and trace. *)
Tells(fingerprint, message, trace) ==
    LET Same(m, t) == Fingerprint(Title(m, t), t) = fingerprint
        Changed(i) == [trace EXCEPT ![i].words = <<"changed">>]
        Fresh == \A i \in 1..Len(trace) : trace[i].words # <<"changed">>
    IN  /\ \A i \in 1..(Len(trace) + 1) :
               Same(message, InsertAt(trace, i, [indent |-> TRUE, words |-> <<>>]))
        /\ \A i \in 1..Len(trace) : Same(message, [trace EXCEPT ![i].indent = ~@])
        /\ Fresh => \A i \in 1..Len(trace) :
                        Same(message, Changed(i)) <=> Frame(Changed(i), i) > 3
        /\ Same(Lower(message), trace)
        /\ (message # <<>> \/ Fresh) => ~Same(message \o <<"changed">>, trace)

(* The first frame is a line of the trace. *)
LEMMA FirstIsLine ==
    ASSUME NEW trace \in Seq(Report), Filled(trace) # <<>>
    PROVE  \E i \in 1..Len(trace) : trace[i].words = Filled(trace)[1]
<1> DEFINE used == {trace[j].words : j \in 1..Len(trace)}
<1>1. trace \in Seq(LinesOf(used))
  <2>1. \A j \in 1..Len(trace) : trace[j] \in LinesOf(used)
    <3> SUFFICES ASSUME NEW j \in 1..Len(trace) PROVE trace[j] \in LinesOf(used)
      OBVIOUS
    <3>1. trace[j] \in Report /\ trace[j].words \in used
      OBVIOUS
    <3> HIDE DEF used
    <3> QED BY <3>1 DEF Report, LinesOf
  <2> HIDE DEF used
  <2> QED BY <2>1
<1>2. Filled(trace) \in Seq(used \ {<<>>})
  <2> HIDE DEF used
  <2> QED BY <1>1, FilledIsSeq
<1>3. Filled(trace)[1] \in used
  <2> HIDE DEF used
  <2> QED BY <1>2
<1> QED BY <1>3

(* What changes the fingerprint of a report and what does not. *)
LEMMA FingerprintTells ==
    ASSUME NEW message \in Seq(Alphabet), NEW trace \in Seq(Report), Reportable(message, trace)
    PROVE  Tells(Fingerprint(Title(message, trace), trace), message, trace)
<1> DEFINE W == Seq(Alphabet \ {"\n"})
           c == <<"changed">>
           Changed(i) == [trace EXCEPT ![i].words = c]
           title == Title(message, trace)
           sum == Fingerprint(title, trace)
           Fresh == \A i \in 1..Len(trace) : trace[i].words # c
<1>1. trace \in Seq(LinesOf(W))
  BY DEF Report
<1>2. c \in W /\ c # <<>> /\ c \in Seq(Alphabet) /\ <<>> \in W
  BY DEF Alphabet
<1>3. message = <<>> => Filled(trace) # <<>>
  BY DEF Reportable
<1>4. title \in Seq(Alphabet) /\ (message # <<>> => title = message)
  <2>1. CASE message = <<>>
    BY <1>3, <2>1, TextBegins DEF Title
  <2>2. CASE message # <<>>
    BY <2>2 DEF Title
  <2> QED BY <2>1, <2>2
<1>5. ASSUME NEW t, Filled(t) = Filled(trace)
      PROVE  Fingerprint(Title(message, t), t) = sum
  BY <1>5 DEF Title, Fingerprint, Frames
<1>6. ASSUME NEW i \in 1..(Len(trace) + 1)
      PROVE  Filled(InsertAt(trace, i, [indent |-> TRUE, words |-> <<>>])) = Filled(trace)
  <2> DEFINE l == [indent |-> TRUE, words |-> <<>>]
  <2>1. l \in LinesOf(W) /\ l.words = <<>>
    BY <1>2 DEF LinesOf
  <2> HIDE DEF l, W
  <2>2. Filled(InsertAt(trace, i, l)) = Filled(trace)
    BY <1>1, <2>1, FilledWithBlank
  <2> QED BY <2>2 DEF l
<1>7. ASSUME NEW i \in 1..Len(trace)
      PROVE  Filled([trace EXCEPT ![i].indent = ~@]) = Filled(trace)
  <2> DEFINE l == [trace[i] EXCEPT !.indent = ~@]
             With(m) == [trace EXCEPT ![i] = m]
  <2>1. trace[i] \in LinesOf(W)
    BY <1>1
  <2>2. l \in LinesOf(W) /\ l.words = trace[i].words
    BY <2>1 DEF LinesOf
  <2>3. [trace EXCEPT ![i].indent = ~@] = With(l)
    OBVIOUS
  <2> HIDE DEF l, W
  <2>4. Filled(With(l)) = Filled(trace)
    BY <1>1, <2>2, FilledIndented
  <2> QED BY <2>3, <2>4
<1>8. ASSUME Fresh, NEW i \in 1..Len(trace)
      PROVE  Fingerprint(Title(message, Changed(i)), Changed(i)) = sum <=> Frame(Changed(i), i) > 3
  <2> DEFINE l == [trace[i] EXCEPT !.words = c]
             With(m) == [trace EXCEPT ![i] = m]
             new == With(l)
  <2>1. trace[i] \in LinesOf(W)
    BY <1>1
  <2>2. l \in LinesOf(W) /\ l.words = c
    BY <1>2, <2>1 DEF LinesOf
  <2>3. Changed(i) = new
    OBVIOUS
  <2>4. \A j \in 1..Len(trace) : trace[j].words # l.words
    BY <1>8, <2>2
  <2>5. new \in Seq(Report)
    BY <2>2 DEF Report
  <2> HIDE DEF l, W, Changed
  <2>6. l.words # <<>>
    BY <1>2, <2>2
  <2>7. /\ Frames(new) = Frames(trace) <=> Frame(new, i) > 3
        /\ Filled(new) # <<>> /\ Frame(new, i) \in Nat \ {0}
        /\ Frame(new, i) = 1 => Filled(new)[1] = l.words
        /\ Frame(new, i) > 1 => Filled(trace) # <<>> /\ Filled(new)[1] = Filled(trace)[1]
    <3>1. WithLine(new, trace, i, l)
      BY <1>1, <2>2, <2>4, <2>6, FramesWithLine
    <3> HIDE DEF new
    <3> QED BY <3>1 DEF WithLine
  <2> HIDE DEF new
  <2>8. Fingerprint(title, new) = sum <=> Frame(new, i) > 3
    <3> HIDE DEF title
    <3> QED BY <1>4, <2>5, <2>7, FramesDecide
  <2>9. CASE message # <<>> \/ Frame(new, i) > 1
    <3>1. Title(message, new) = title
      BY <2>7, <2>9 DEF Title
    <3> QED BY <2>3, <2>8, <3>1
  <2>10. CASE message = <<>> /\ Frame(new, i) = 1
    <3>1. Title(message, new) = c /\ title = Filled(trace)[1] /\ Filled(new)[1] = c
      BY <2>2, <2>7, <2>10 DEF Title
    <3>2. Filled(trace)[1] # c
      BY <1>3, <1>8, <2>10, FirstIsLine
    <3>3. Fingerprint(c, new) # Fingerprint(Filled(trace)[1], trace)
      BY <1>3, <2>5, <2>7, <2>10, <3>1, <3>2, TitlesTell
    <3>4. ~(Frame(new, i) > 3)
      BY <2>10
    <3> HIDE DEF c, title
    <3> QED BY <2>3, <3>1, <3>3, <3>4
  <2> QED BY <2>7, <2>9, <2>10
<1>9. Fingerprint(Title(Lower(message), trace), trace) = sum
  <2>1. CASE message = <<>>
    <3>1. Lower(message) \in Seq(Alphabet) /\ Len(Lower(message)) = 0
      BY <2>1, LowerIsSeq
    <3>2. Lower(message) = message
      BY <2>1, <3>1
    <3> QED BY <3>2
  <2>2. CASE message # <<>>
    <3>1. Lower(message) \in Seq(Alphabet) /\ Len(Lower(message)) = Len(message)
      BY LowerIsSeq
    <3>2. Lower(message) # <<>>
      BY <2>2, <3>1
    <3>3. Title(Lower(message), trace) = Lower(message) /\ title = message
      BY <2>2, <3>2 DEF Title
    <3>4. Fingerprint(Lower(message), trace) = Fingerprint(message, trace)
      BY LowerOfLower DEF Fingerprint
    <3> QED BY <3>3, <3>4
  <2> QED BY <2>1, <2>2
<1>10. ASSUME message # <<>> PROVE Fingerprint(Title(message \o c, trace), trace) # sum
  <2> DEFINE longer == message \o c
             b == JoinLines(Frames(trace))
  <2>1. longer \in Seq(Alphabet) /\ Len(longer) = Len(message) + 1
    <3>1. Len(c) = 1
      OBVIOUS
    <3>2. c \in Seq(Alphabet)
      BY <1>2
    <3> HIDE DEF c
    <3> QED BY <3>1, <3>2, ConcatProperties
  <2>2. longer # <<>>
    BY <2>1
  <2> HIDE DEF longer
  <2>3. Title(longer, trace) = longer /\ title = message
    BY <1>10, <2>2 DEF Title
  <2>4. /\ Lower(longer) \in Seq(Alphabet) /\ Len(Lower(longer)) = Len(message) + 1
        /\ Lower(message) \in Seq(Alphabet) /\ Len(Lower(message)) = Len(message)
    BY <2>1, LowerIsSeq
  <2>5. b \in Seq(Alphabet)
    BY FramesAreLines
  <2> HIDE DEF b
  <2>6. /\ Len(Lower(longer) \o b) = Len(message) + 1 + Len(b)
        /\ Len(Lower(message) \o b) = Len(message) + Len(b)
    <3>1. \A s, t \in Seq(Alphabet) : Len(s \o t) = Len(s) + Len(t)
      BY ConcatProperties
    <3> QED BY <2>4, <2>5, <3>1
  <2>7. Len(b) \in Nat /\ Len(message) \in Nat
    BY <2>5
  <2>8. Lower(longer) \o b # Lower(message) \o b
    BY <2>6, <2>7
  <2>9. Fingerprint(longer, trace) # Fingerprint(message, trace)
    BY <2>8 DEF Fingerprint, b
  <2> QED BY <2>3, <2>9 DEF longer
<1>11. ASSUME message = <<>>, Fresh PROVE Fingerprint(Title(message \o c, trace), trace) # sum
  <2>1. message \o c = c
    BY <1>2, <1>11, ConcatEmptySeq
  <2>2. Title(message \o c, trace) = c /\ title = Filled(trace)[1]
    BY <1>2, <1>11, <2>1 DEF Title
  <2>3. Filled(trace)[1] # c
    BY <1>3, <1>11, FirstIsLine
  <2>4. Fingerprint(c, trace) # Fingerprint(Filled(trace)[1], trace)
    BY <1>3, <1>11, <2>3, TitlesTell
  <2> QED BY <2>2, <2>4
<1>12. \A i \in 1..(Len(trace) + 1) :
           LET t == InsertAt(trace, i, [indent |-> TRUE, words |-> <<>>])
           IN  Fingerprint(Title(message, t), t) = sum
  <2> HIDE DEF sum
  <2> QED BY <1>5, <1>6, Zenon
<1>13. \A i \in 1..Len(trace) :
           LET t == [trace EXCEPT ![i].indent = ~@] IN Fingerprint(Title(message, t), t) = sum
  <2> HIDE DEF sum
  <2> QED BY <1>5, <1>7, Zenon
<1> QED BY <1>8, <1>9, <1>10, <1>11, <1>12, <1>13, Zenon DEF Tells

-----------------------------------------------------------------------------
(* What was read.                                                          *)

(* Whatever source code an object holds and whatever is around it: the     *)
(* reply is cut down to the object exactly when it stands alone, when a    *)
(* closing fence follows it at once in its fence, or nothing does and it   *)
(* has no fences, or when no braces are in the text that it follows.       *)
THEOREM ObjectsAreUnwrapped == Spec => []ObjectIsUnwrapped
<1>1. ASSUME ReadInv PROVE ObjectIsUnwrapped
  <2> SUFFICES ASSUME read.kind = "reply" PROVE ObjectIsUnwrapped
    BY DEF ObjectIsUnwrapped
  <2> DEFINE before == read.reply.before
             object == read.reply.object
             after  == read.reply.after
  <2>1. read.reply \in Replies /\ read.result = StripFences(before \o object \o after)
    BY <1>1 DEF ReadInv
  <2>2. /\ before \in Seq(STRING) /\ object \in Seq(STRING) /\ after \in Seq(STRING)
        /\ Len(object) >= 2 /\ object[1] = "lbrace" /\ object[Len(object)] = "rbrace"
    BY <2>1, RepliesAssumption
  <2>3. Unwraps(read.result, before, object, after)
    <3> HIDE DEF before, object, after
    <3> QED BY <2>1, <2>2, StripFencesUnwraps
  <2> QED BY <2>3, Zenon DEF ObjectIsUnwrapped, Unwraps
<1>2. QED BY <1>1, ReadInvariant, PTL

(* However long a report is, and with or without a message: blank lines,   *)
(* indentation, a line below the third frame and the case of the message   *)
(* leave its fingerprint as it is, one line that is new among its frames   *)
(* or a longer message does not.                                           *)
THEOREM FingerprintsTellErrors == Spec => []FingerprintTellsErrors
<1>1. ASSUME ReadInv PROVE FingerprintTellsErrors
  <2> SUFFICES ASSUME read.kind = "report" PROVE FingerprintTellsErrors
    BY DEF FingerprintTellsErrors
  <2> DEFINE message == read.report.message
             trace   == read.report.trace
  <2>1. /\ read.report \in Errors /\ Reportable(message, trace)
        /\ read.result = Fingerprint(Title(message, trace), trace)
    BY <1>1 DEF ReadInv
  <2>2. message \in Seq(Alphabet) /\ trace \in Seq(Report)
    BY <2>1, ReportsAreReports
  <2>3. Tells(read.result, message, trace)
    <3> HIDE DEF message, trace
    <3> QED BY <2>1, <2>2, FingerprintTells
  <2> QED BY <2>3, Zenon DEF FingerprintTellsErrors, Tells
<1>2. QED BY <1>1, ReadInvariant, PTL

=============================================================================
