----------------------------- MODULE EvidenceProofs -----------------------------
(***************************************************************************)
(* What a decision about a case rests on.                                   *)
(*                                                                          *)
(* The readings of the case: for any feed, processes, sizes and crashes,    *)
(* one voice is never a wave, a wave is seen, who is called a returning     *)
(* customer has returned, and what a model thinks of an author stays in     *)
(* the middle.                                                              *)
(*                                                                          *)
(* The record of decisions about others (Autonomy): for any policy and     *)
(* however the file is pruned, who acts alone has earned it.                *)
(***************************************************************************)
EXTENDS Readings, Autonomy, SequenceTheorems, FiniteSetTheorems, TLAPS

(* The window's operators.                                                  *)

Once(s) == \A i, j \in 1 .. Len(s) : s[i] = s[j] => i = j

Lesser(a, b) == IF a <= b THEN a ELSE b

LEMMA MaxOfTwo ==
    ASSUME NEW a \in Int, NEW b \in Int
    PROVE  Max({a, b}) = IF a >= b THEN a ELSE b
BY DEF Max

LEMMA MinOfTwo ==
    ASSUME NEW a \in Int, NEW b \in Int
    PROVE  Min({a, b}) = Lesser(a, b)
BY DEF Min, Lesser

LEMMA ToSetIsRange ==
    ASSUME NEW S, NEW s \in Seq(S)
    PROVE  /\ ToSet(s) = {s[i] : i \in 1 .. Len(s)}
           /\ ToSet(s) \subseteq S
BY LenProperties, ElementOfSeq DEF ToSet

\* What is kept of a sequence is its end.
LEMMA LastOfIsTheEnd ==
    ASSUME NEW S, NEW s \in Seq(S), NEW n \in Nat
    PROVE  /\ LastOf(s, n) \in Seq(S)
           /\ Len(LastOf(s, n)) = Lesser(Len(s), n)
           /\ \A i \in 1 .. Lesser(Len(s), n) :
                 LastOf(s, n)[i] = s[Len(s) - Lesser(Len(s), n) + i]
           /\ ToSet(LastOf(s, n)) \subseteq ToSet(s)
           /\ Once(s) => Once(LastOf(s, n))
<1> DEFINE k == Lesser(Len(s), n)
           m == Len(s) - k + 1
<1>1. Len(s) \in Nat /\ k \in 0 .. Len(s) /\ m \in 1 .. Len(s) + 1
  <2>1. Len(s) \in Nat
    BY LenProperties
  <2>2. k \in 0 .. Len(s)
    BY <2>1 DEF Lesser
  <2> QED
    BY <2>1, <2>2
<1>2. Max({1, Len(s) - n + 1}) = m
  <2>1. Len(s) - n + 1 \in Int
    BY <1>1
  <2>2. Max({1, Len(s) - n + 1}) = IF 1 >= Len(s) - n + 1 THEN 1 ELSE Len(s) - n + 1
    BY <2>1, MaxOfTwo
  <2>3. CASE Len(s) <= n
    <3>1. k = Len(s)
      BY <2>3 DEF Lesser
    <3> QED
      BY <1>1, <2>2, <2>3, <3>1
  <2>4. CASE ~(Len(s) <= n)
    <3>1. k = n
      BY <2>4 DEF Lesser
    <3> QED
      BY <1>1, <2>2, <2>4, <3>1
  <2> QED
    BY <2>3, <2>4
<1>3. \A i \in m .. Len(s) : s[i] \in S
  BY <1>1, ElementOfSeq
<1> HIDE DEF m
<1>4. /\ SubSeq(s, m, Len(s)) \in Seq(S)
      /\ Len(SubSeq(s, m, Len(s))) = IF m <= Len(s) THEN Len(s) - m + 1 ELSE 0
      /\ \A i \in 1 .. Len(s) - m + 1 : SubSeq(s, m, Len(s))[i] = s[m + i - 1]
  BY <1>1, <1>3, SubSeqProperties
<1>5. LastOf(s, n) = SubSeq(s, m, Len(s))
  BY <1>2 DEF LastOf
<1> USE DEF m
<1> HIDE DEF k
<1>6. /\ LastOf(s, n) \in Seq(S)
      /\ Len(LastOf(s, n)) = k
      /\ \A i \in 1 .. k : LastOf(s, n)[i] = s[Len(s) - k + i]
  BY <1>1, <1>4, <1>5
<1>7. ToSet(LastOf(s, n)) \subseteq ToSet(s)
  <2>1. \A i \in 1 .. k : Len(s) - k + i \in 1 .. Len(s)
    BY <1>1
  <2> QED
    BY <1>6, <2>1, ToSetIsRange
<1>8. Once(s) => Once(LastOf(s, n))
  <2>1. ASSUME Once(s), NEW i \in 1 .. k, NEW j \in 1 .. k,
               LastOf(s, n)[i] = LastOf(s, n)[j]
        PROVE  i = j
    <3>1. Len(s) - k + i \in 1 .. Len(s) /\ Len(s) - k + j \in 1 .. Len(s)
      BY <1>1
    <3>2. s[Len(s) - k + i] = s[Len(s) - k + j]
      BY <1>6, <2>1
    <3>3. Len(s) - k + i = Len(s) - k + j
      BY <2>1, <3>1, <3>2 DEF Once
    <3> QED
      BY <1>1, <3>3
  <2> QED
    BY <1>6, <2>1 DEF Once
<1> QED
  BY <1>6, <1>7, <1>8 DEF k

\* Where c was, if it was there, the rest closes up.
LEMMA RemoveFirstClosesUp ==
    ASSUME NEW S, NEW s \in Seq(S), NEW c, Once(s)
    PROVE  \/ /\ c \notin ToSet(s)
              /\ RemoveFirst(s, c) = s
           \/ \E k \in 1 .. Len(s) :
                 /\ s[k] = c
                 /\ RemoveFirst(s, c) \in Seq(S)
                 /\ Len(RemoveFirst(s, c)) = Len(s) - 1
                 /\ \A i \in 1 .. Len(s) - 1 :
                       RemoveFirst(s, c)[i] = s[IF i < k THEN i ELSE i + 1]
<1>1. Len(s) \in Nat
  BY LenProperties
<1>2. CASE \E i \in 1 .. Len(s) : s[i] = c
  <2> DEFINE I == {i \in 1 .. Len(s) : s[i] = c}
             k == Min(I)
             front == SubSeq(s, 1, k - 1)
             back == SubSeq(s, k + 1, Len(s))
  <2>1. PICK j \in 1 .. Len(s) : s[j] = c
    BY <1>2
  <2>2. I = {j}
    BY <2>1 DEF Once
  <2>3. k = j
    BY <2>1, <2>2, MinOfTwo DEF Min
  <2>4. RemoveFirst(s, c) = front \o back
    BY <1>2, <2>2 DEF RemoveFirst, RemoveAt, SelectInSeq
  <2>5. k \in 1 .. Len(s) /\ s[k] = c
    BY <2>1, <2>3
  <2> HIDE DEF k
  <2>6. front \in Seq(S) /\ Len(front) = k - 1 /\ \A i \in 1 .. k - 1 : front[i] = s[i]
    <3>1. \A i \in 1 .. k - 1 : s[i] \in S
      BY <1>1, <2>5, ElementOfSeq
    <3> QED
      BY <1>1, <2>5, <3>1, SubSeqProperties
  <2>7. /\ back \in Seq(S) /\ Len(back) = Len(s) - k
        /\ \A i \in 1 .. Len(s) - k : back[i] = s[k + i]
    <3>1. \A i \in k + 1 .. Len(s) : s[i] \in S
      BY <1>1, <2>5, ElementOfSeq
    <3> QED
      BY <1>1, <2>5, <3>1, SubSeqProperties
  <2> HIDE DEF front, back
  <2>8. /\ front \o back \in Seq(S)
        /\ Len(front \o back) = Len(s) - 1
        /\ \A i \in 1 .. Len(s) - 1 :
              (front \o back)[i] = IF i <= k - 1 THEN front[i] ELSE back[i - (k - 1)]
    <3>1. /\ front \o back \in Seq(S)
          /\ Len(front \o back) = Len(front) + Len(back)
          /\ \A i \in 1 .. Len(front) + Len(back) :
                (front \o back)[i] = IF i <= Len(front) THEN front[i] ELSE back[i - Len(front)]
      BY <2>6, <2>7, ConcatProperties
    <3>2. Len(front) + Len(back) = Len(s) - 1
      BY <1>1, <2>5, <2>6, <2>7
    <3> QED
      BY <2>6, <3>1, <3>2
  <2>9. \A i \in 1 .. Len(s) - 1 : (front \o back)[i] = s[IF i < k THEN i ELSE i + 1]
    BY <1>1, <2>5, <2>6, <2>7, <2>8
  <2> QED
    BY <2>4, <2>5, <2>8, <2>9
<1>3. CASE ~ \E i \in 1 .. Len(s) : s[i] = c
  BY <1>3, ToSetIsRange DEF RemoveFirst
<1> QED
  BY <1>2, <1>3

\* A fingerprint joins at the end, and leaves the place k where it was before.
Joins(c, s, k, t) ==
    /\ k \in 1 .. Len(s) + 1
    /\ k <= Len(s) => s[k] = c /\ Len(t) = Len(s)
    /\ k = Len(s) + 1 => c \notin ToSet(s) /\ Len(t) = Len(s) + 1
    /\ \A i \in 1 .. Len(t) - 1 : t[i] = s[IF i < k THEN i ELSE i + 1]
    /\ t[Len(t)] = c

LEMMA JoiningJoins ==
    ASSUME NEW S, NEW s \in Seq(S), NEW c \in S, Once(s)
    PROVE  /\ Joining(c, s) \in Seq(S)
           /\ \E k \in 1 .. Len(s) + 1 : Joins(c, s, k, Joining(c, s))
<1> DEFINE r == RemoveFirst(s, c)
<1>1. Len(s) \in Nat
  BY LenProperties
<1>2. ASSUME r \in Seq(S)
      PROVE  /\ Joining(c, s) \in Seq(S)
             /\ Len(Joining(c, s)) = Len(r) + 1
             /\ Len(r) \in Nat
             /\ \A i \in 1 .. Len(r) : Joining(c, s)[i] = r[i]
             /\ Joining(c, s)[Len(r) + 1] = c
  <2> HIDE DEF r
  <2>1. Joining(c, s) = Append(r, c)
    BY DEF Joining, r
  <2>2. Len(r) \in Nat
    BY <1>2, LenProperties
  <2> QED
    BY <1>2, <2>1, <2>2, AppendProperties
<1>3. CASE c \notin ToSet(s) /\ r = s
  <2>1. Joins(c, s, Len(s) + 1, Joining(c, s))
    BY <1>1, <1>2, <1>3 DEF Joins
  <2> QED
    BY <1>1, <1>2, <1>3, <2>1
<1>4. ASSUME NEW k \in 1 .. Len(s), s[k] = c, r \in Seq(S), Len(r) = Len(s) - 1,
             \A i \in 1 .. Len(s) - 1 : r[i] = s[IF i < k THEN i ELSE i + 1]
      PROVE  Joins(c, s, k, Joining(c, s))
  <2> HIDE DEF r
  <2>1. Len(Joining(c, s)) = Len(s) /\ Joining(c, s)[Len(s)] = c
    BY <1>1, <1>2, <1>4
  <2>2. \A i \in 1 .. Len(s) - 1 : Joining(c, s)[i] = s[IF i < k THEN i ELSE i + 1]
    BY <1>1, <1>2, <1>4
  <2> QED
    BY <1>1, <1>4, <2>1, <2>2 DEF Joins
<1> QED
  <2>1. CASE c \notin ToSet(s) /\ r = s
    BY <1>1, <1>2, <1>3, <2>1, RemoveFirstClosesUp DEF Joins
  <2>2. CASE ~(c \notin ToSet(s) /\ r = s)
    <3>1. PICK k \in 1 .. Len(s) :
             /\ s[k] = c /\ r \in Seq(S) /\ Len(r) = Len(s) - 1
             /\ \A i \in 1 .. Len(s) - 1 : r[i] = s[IF i < k THEN i ELSE i + 1]
      BY <2>2, RemoveFirstClosesUp
    <3>2. Joins(c, s, k, Joining(c, s))
      BY <3>1, <1>4
    <3> QED
      BY <1>1, <1>2, <3>1, <3>2
  <2> QED
    BY <2>1, <2>2

\* Whoever is there is there once, and nobody is lost.
LEMMA JoiningKeeps ==
    ASSUME NEW S, NEW s \in Seq(S), NEW c \in S, Once(s)
    PROVE  /\ Joining(c, s) \in Seq(S)
           /\ Once(Joining(c, s))
           /\ ToSet(Joining(c, s)) = ToSet(s) \cup {c}
<1> DEFINE t == Joining(c, s)
<1>1. t \in Seq(S) /\ Len(s) \in Nat /\ Len(t) \in Nat
  BY JoiningJoins, LenProperties
<1>2. PICK k \in 1 .. Len(s) + 1 : Joins(c, s, k, t)
  BY JoiningJoins
<1> HIDE DEF t
<1>3. \A i \in 1 .. Len(s) : s[i] = c => i = k
  <2>1. CASE k <= Len(s)
    BY <1>1, <1>2, <2>1 DEF Joins, Once
  <2>2. CASE k = Len(s) + 1
    BY <1>2, <2>2, ToSetIsRange DEF Joins
  <2> QED
    BY <1>1, <2>1, <2>2
<1> DEFINE from(i) == IF i < k THEN i ELSE i + 1
<1>4. Len(t) > 0 /\ Len(t) >= Len(s) /\ Len(t) <= Len(s) + 1 /\ (k <= Len(s) => Len(t) = Len(s))
      /\ (k = Len(s) + 1 => Len(t) = Len(s) + 1)
  BY <1>1, <1>2 DEF Joins
<1>5. \A i \in 1 .. Len(t) - 1 :
         /\ from(i) \in 1 .. Len(s) /\ from(i) # k
         /\ t[i] = s[from(i)] /\ t[i] # c
  <2> TAKE i \in 1 .. Len(t) - 1
  <2>1. from(i) \in 1 .. Len(s) /\ from(i) # k
    BY <1>1, <1>4
  <2>2. t[i] = s[from(i)]
    BY <1>2 DEF Joins
  <2> QED
    BY <1>3, <2>1, <2>2
<1>6. t[Len(t)] = c
  BY <1>2 DEF Joins
<1>7. Once(t)
  <2>1. ASSUME NEW i \in 1 .. Len(t) - 1, NEW j \in 1 .. Len(t) - 1, t[i] = t[j]
        PROVE  i = j
    <3>1. from(i) = from(j)
      BY <1>5, <2>1 DEF Once
    <3> QED
      BY <3>1
  <2>2. \A i \in 1 .. Len(t) : i \in 1 .. Len(t) - 1 \/ i = Len(t)
    BY <1>1, <1>4
  <2> QED
    BY <1>5, <1>6, <2>1, <2>2 DEF Once
<1>8. ToSet(t) \subseteq ToSet(s) \cup {c}
  <2>1. \A i \in 1 .. Len(t) : t[i] \in {s[j] : j \in 1 .. Len(s)} \cup {c}
    <3> TAKE i \in 1 .. Len(t)
    <3>1. CASE i = Len(t)
      BY <1>6, <3>1
    <3>2. CASE i # Len(t)
      <4>1. i \in 1 .. Len(t) - 1
        BY <1>1, <3>2
      <4> QED
        BY <1>5, <4>1
    <3> QED
      BY <3>1, <3>2
  <2> QED
    BY <1>1, <2>1, ToSetIsRange
<1>9. ToSet(s) \cup {c} \subseteq ToSet(t)
  <2>1. \A j \in 1 .. Len(s) : \E i \in 1 .. Len(t) : t[i] = s[j]
    <3> TAKE j \in 1 .. Len(s)
    <3>1. CASE j = k
      <4>1. s[j] = c
        BY <1>2, <3>1 DEF Joins
      <4> QED
        BY <1>1, <1>4, <1>6, <4>1
    <3>2. CASE j < k
      <4>1. j \in 1 .. Len(t) - 1 /\ from(j) = j
        BY <1>1, <1>4, <3>2
      <4> QED
        BY <1>5, <4>1
    <3>3. CASE j > k
      <4>1. j - 1 \in 1 .. Len(t) - 1 /\ from(j - 1) = j
        BY <1>1, <1>4, <3>3
      <4>2. t[j - 1] = s[j]
        BY <1>5, <4>1
      <4>3. j - 1 \in 1 .. Len(t)
        BY <1>1, <4>1
      <4> QED
        BY <4>2, <4>3
    <3> QED
      BY <3>1, <3>2, <3>3
  <2>2. Len(t) \in 1 .. Len(t)
    BY <1>1, <1>4
  <2>3. ToSet(s) = {s[j] : j \in 1 .. Len(s)} /\ ToSet(t) = {t[j] : j \in 1 .. Len(t)}
    BY <1>1, ToSetIsRange
  <2> QED
    BY <1>6, <2>1, <2>2, <2>3
<1> QED
  BY <1>1, <1>7, <1>8, <1>9 DEF t

LEMMA SameEnd ==
    ASSUME NEW S, NEW a \in Seq(S), NEW b \in Seq(S), NEW n \in Nat,
           Len(a) <= Len(b), Lesser(Len(b), n) <= Len(a),
           \A i \in 1 .. Len(a) : a[i] = b[Len(b) - Len(a) + i]
    PROVE  LastOf(a, n) = LastOf(b, n)
<1>1. Len(a) \in Nat /\ Len(b) \in Nat
  BY LenProperties
<1>2. Lesser(Len(a), n) = Lesser(Len(b), n) /\ Lesser(Len(b), n) \in Nat
  BY <1>1 DEF Lesser
<1> DEFINE k == Lesser(Len(b), n)
<1> HIDE DEF k
<1>3. k <= Len(a) /\ k \in Nat /\ Lesser(Len(a), n) = k
  BY <1>2 DEF k
<1>4. ASSUME NEW i \in 1 .. k
      PROVE  a[Len(a) - k + i] = b[Len(b) - k + i]
  <2>1. Len(a) - k + i \in 1 .. Len(a)
    BY <1>1, <1>3
  <2>2. Len(b) - Len(a) + (Len(a) - k + i) = Len(b) - k + i
    BY <1>1, <1>3
  <2> QED
    BY <2>1, <2>2
<1>5. /\ LastOf(a, n) \in Seq(S) /\ Len(LastOf(a, n)) = k
      /\ \A i \in 1 .. k : LastOf(a, n)[i] = a[Len(a) - k + i]
  BY <1>3, LastOfIsTheEnd
<1>6. /\ LastOf(b, n) \in Seq(S) /\ Len(LastOf(b, n)) = k
      /\ \A i \in 1 .. k : LastOf(b, n)[i] = b[Len(b) - k + i]
  BY LastOfIsTheEnd DEF k
<1> QED
  BY <1>4, <1>5, <1>6, SeqEqual

\* To trim before a fingerprint joins is as good as to keep them all.
LEMMA TrimmingIsHarmless ==
    ASSUME NEW S, NEW s \in Seq(S), NEW c \in S, Once(s), NEW n \in Nat \ {0}
    PROVE  LastOf(Joining(c, LastOf(s, n)), n) = LastOf(Joining(c, s), n)
<1> DEFINE w == LastOf(s, n)
           l == Len(s)
           m == Len(w)
           a == Joining(c, w)
           b == Joining(c, s)
<1>1. /\ w \in Seq(S) /\ Once(w) /\ m = Lesser(l, n)
      /\ \A i \in 1 .. Lesser(l, n) : w[i] = s[l - Lesser(l, n) + i]
  BY LastOfIsTheEnd
<1>2. \A i \in 1 .. m : w[i] = s[l - m + i]
  BY <1>1
<1>3. l \in Nat /\ m \in Nat
  BY <1>1, LenProperties
<1>4. m <= l /\ m <= n /\ (m < l => m = n)
  BY <1>1, <1>3 DEF Lesser
<1>5. PICK p \in 1 .. m + 1 : Joins(c, w, p, a)
  BY <1>1, JoiningJoins
<1>6. PICK q \in 1 .. l + 1 : Joins(c, s, q, b)
  BY JoiningJoins
<1>7. a \in Seq(S) /\ b \in Seq(S) /\ Len(a) \in Nat /\ Len(b) \in Nat
  BY <1>1, JoiningJoins, LenProperties
<1>8. ToSet(w) = {w[i] : i \in 1 .. m} /\ ToSet(s) = {s[i] : i \in 1 .. l}
  BY <1>1, ToSetIsRange
<1> HIDE DEF w, l, m, a, b
<1>9. \A i, j \in 1 .. l : s[i] = s[j] => i = j
  BY DEF Once, l
<1>10. /\ p <= m => w[p] = c /\ Len(a) = m
       /\ p = m + 1 => c \notin ToSet(w) /\ Len(a) = m + 1
       /\ \A i \in 1 .. Len(a) - 1 : a[i] = w[IF i < p THEN i ELSE i + 1]
       /\ a[Len(a)] = c
  BY <1>5 DEF Joins, m
<1>11. /\ q <= l => s[q] = c /\ Len(b) = l
       /\ q = l + 1 => c \notin ToSet(s) /\ Len(b) = l + 1
       /\ \A i \in 1 .. Len(b) - 1 : b[i] = s[IF i < q THEN i ELSE i + 1]
       /\ b[Len(b)] = c
  BY <1>6 DEF Joins, l
\* Where c was: among those kept, before them, or nowhere.
<1>12. CASE p <= m
  <2>1. l - m + p \in 1 .. l /\ s[l - m + p] = c
    BY <1>2, <1>3, <1>4, <1>10, <1>12
  <2>2. q <= l /\ q = l - m + p
    BY <1>3, <1>8, <1>9, <1>11, <2>1
  <2>3. Len(a) = m /\ Len(b) = l
    BY <1>10, <1>11, <1>12, <2>2
  <2>4. ASSUME NEW i \in 1 .. m - 1
        PROVE  a[i] = b[l - m + i]
    <3> DEFINE j == IF i < p THEN i ELSE i + 1
    <3>1. a[i] = w[j] /\ j \in 1 .. m
      BY <1>3, <1>10, <2>3
    <3>2. w[j] = s[l - m + j]
      BY <1>2, <3>1
    <3>3. l - m + i \in 1 .. l - 1
      BY <1>3, <1>4
    <3>4. b[l - m + i] = s[IF l - m + i < q THEN l - m + i ELSE l - m + i + 1]
      BY <1>11, <2>3, <3>3
    <3>5. (IF l - m + i < q THEN l - m + i ELSE l - m + i + 1) = l - m + j
      BY <1>3, <2>2
    <3> QED
      BY <3>1, <3>2, <3>4, <3>5
  <2>5. a[m] = b[l]
    BY <1>10, <1>11, <2>3
  <2>6. \A i \in 1 .. m : a[i] = b[l - m + i]
    BY <1>3, <2>4, <2>5
  <2>7. Lesser(Len(b), n) <= Len(a) /\ Len(a) <= Len(b)
    BY <1>1, <1>3, <1>4, <2>3 DEF Lesser
  <2>8. LastOf(a, n) = LastOf(b, n)
    BY <1>7, <2>3, <2>6, <2>7, SameEnd
  <2> QED
    BY <2>8 DEF a, b, w
<1>13. CASE p = m + 1 /\ q <= l
  <2>1. Len(a) = m + 1 /\ Len(b) = l /\ c \notin ToSet(w) /\ s[q] = c
    BY <1>10, <1>11, <1>13
  <2>2. q <= l - m
    <3>1. SUFFICES ASSUME q > l - m PROVE FALSE
      BY <1>3, <1>13
    <3>2. q - (l - m) \in 1 .. m
      BY <1>3, <1>4, <1>13, <3>1
    <3>3. w[q - (l - m)] = s[q]
      BY <1>2, <1>3, <3>2
    <3> QED
      BY <1>8, <2>1, <3>2, <3>3
  <2>3. m = n /\ m < l
    BY <1>3, <1>4, <2>2
  <2>4. ASSUME NEW i \in 1 .. m
        PROVE  a[i] = b[l - (m + 1) + i]
    <3>1. a[i] = w[i]
      BY <1>3, <1>10, <1>13, <2>1
    <3>2. l - (m + 1) + i \in 1 .. l - 1
      BY <1>3, <2>3
    <3>3. b[l - (m + 1) + i] = s[IF l - (m + 1) + i < q THEN l - (m + 1) + i
                                  ELSE l - (m + 1) + i + 1]
      BY <1>11, <2>1, <3>2
    <3>4. (IF l - (m + 1) + i < q THEN l - (m + 1) + i ELSE l - (m + 1) + i + 1) = l - m + i
      BY <1>3, <2>2
    <3> QED
      BY <1>2, <3>1, <3>3, <3>4
  <2>5. a[m + 1] = b[l]
    BY <1>10, <1>11, <2>1
  <2>6. \A i \in 1 .. m + 1 : a[i] = b[l - (m + 1) + i]
    BY <1>3, <2>4, <2>5
  <2>7. Lesser(Len(b), n) <= Len(a) /\ Len(a) <= Len(b)
    BY <1>3, <2>1, <2>3 DEF Lesser
  <2>8. \A i \in 1 .. Len(a) : a[i] = b[Len(b) - Len(a) + i]
    BY <2>1, <2>6
  <2>9. LastOf(a, n) = LastOf(b, n)
    BY <1>7, <2>7, <2>8, SameEnd
  <2> QED
    BY <2>9 DEF a, b, w
<1>14. CASE p = m + 1 /\ q = l + 1
  <2>1. Len(a) = m + 1 /\ Len(b) = l + 1
    BY <1>10, <1>11, <1>14
  <2>2. ASSUME NEW i \in 1 .. m
        PROVE  a[i] = b[l - m + i]
    <3>1. a[i] = w[i]
      BY <1>3, <1>10, <1>14, <2>1
    <3>2. l - m + i \in 1 .. l
      BY <1>3, <1>4
    <3>3. b[l - m + i] = s[l - m + i]
      BY <1>3, <1>11, <1>14, <2>1, <3>2
    <3> QED
      BY <1>2, <3>1, <3>3
  <2>3. a[m + 1] = b[l + 1]
    BY <1>10, <1>11, <2>1
  <2>4. \A i \in 1 .. Len(a) : a[i] = b[Len(b) - Len(a) + i]
    <3> TAKE i \in 1 .. Len(a)
    <3>1. Len(b) - Len(a) + i = l - m + i
      BY <1>3, <2>1
    <3>2. i \in 1 .. m \/ (i = m + 1 /\ l - m + i = l + 1)
      BY <1>3, <2>1
    <3> QED
      BY <2>2, <2>3, <3>1, <3>2
  <2>5. Lesser(Len(b), n) <= Len(a) /\ Len(a) <= Len(b)
    BY <1>3, <1>4, <2>1 DEF Lesser
  <2>6. LastOf(a, n) = LastOf(b, n)
    BY <1>7, <2>4, <2>5, SameEnd
  <2> QED
    BY <2>6 DEF a, b, w
<1> QED
  BY <1>3, <1>12, <1>13, <1>14

-----------------------------------------------------------------------------
(* Type correctness, and what is on file.                                   *)

Writes(p) == work[p].step \in {"loaded", "writing"}

\* No case is on file twice, nor in what is about to be written; and nothing is
\* there that did not join, or is about to.
OnFile ==
    /\ Once(window) /\ Once(joined)
    /\ ToSet(window) \subseteq ToSet(joined)
    /\ \A p \in Process : work[p].step # "idle" => work[p].case \in Case
    /\ \A p \in Process : Writes(p) =>
          /\ Once(work[p].prints)
          /\ ToSet(work[p].prints) \subseteq ToSet(joined) \cup {work[p].case}

BaseInv == TypeOK /\ OnFile

LEMMA CountsOfAuthors ==
    ASSUME NEW A, A \subseteq Author
    PROVE  IsFiniteSet(A) /\ Cardinality(A) \in Nat
BY ReadingsAssumption, FS_Subset, FS_CardinalityType

LEMMA CountsOfCases ==
    ASSUME NEW C, C \subseteq Case
    PROVE  IsFiniteSet(C) /\ Cardinality(C) \in Nat
BY ReadingsAssumption, FS_Subset, FS_CardinalityType

LEMMA WithinBounds ==
    ASSUME NEW low \in Int, NEW high \in Int, low <= high, NEW n \in Int
    PROVE  Within(low, high, n) \in low .. high
<1>1. Min({high, n}) = Lesser(high, n) /\ Lesser(high, n) \in Int /\ Lesser(high, n) <= high
  BY MinOfTwo DEF Lesser
<1>2. Within(low, high, n) = IF low >= Lesser(high, n) THEN low ELSE Lesser(high, n)
  BY <1>1, MaxOfTwo DEF Within
<1> QED
  BY <1>1, <1>2

LEMMA WhenIsAnInteger ==
    ASSUME NEW condition, NEW delta \in Int
    PROVE  When(condition, delta) \in Int
BY DEF When

LEMMA AuthenticityIsAScore ==
    ASSUME NEW a \in Profile, NEW history \in Nat, NEW dup \in Nat
    PROVE  Authenticity(a, history, dup) \in 0 .. 100
<1>1. AccountSignals(a) \in Int
  <2>1. When(a.age = "new", -30) \in Int /\ When(a.age = "old", 15) \in Int
    BY WhenIsAnInteger
  <2>2. When(a.karma = "throwaway", -20) \in Int /\ When(a.karma = "much", 10) \in Int
    BY WhenIsAnInteger
  <2>3. When(a.verified, 15) \in Int /\ When(a.fewPosts, -10) \in Int
    BY WhenIsAnInteger
  <2> QED
    BY <2>1, <2>2, <2>3 DEF AccountSignals
<1>2. RhetoricSignals(a) \in Int
  <2>1. When(a.outrage /\ a.specifics = 0, -25) \in Int
    BY WhenIsAnInteger
  <2>2. When(a.motive /\ a.specifics = 0, -15) \in Int
    BY WhenIsAnInteger
  <2>3. When(a.shouting, -10) \in Int
    BY WhenIsAnInteger
  <2> QED
    BY <2>1, <2>2, <2>3 DEF RhetoricSignals
<1>3. When(dup >= CampaignSize, -35) \in Int
  BY WhenIsAnInteger
<1>4. Min({a.specifics, 3}) \in Int
  BY MinOfTwo DEF Profile, Lesser
<1>5. Min({10 * history, 20}) \in Int
  BY MinOfTwo DEF Lesser
<1> QED
  <2> DEFINE n == 55 + 18 * Min({a.specifics, 3}) + AccountSignals(a)
                     + Min({10 * history, 20}) + When(dup >= CampaignSize, -35)
                     + RhetoricSignals(a)
  <2>1. n \in Int
    BY <1>1, <1>2, <1>3, <1>4, <1>5
  <2>2. Authenticity(a, history, dup) = Within(0, 100, n)
    BY DEF Authenticity
  <2> HIDE DEF n
  <2>3. Within(0, 100, n) \in 0 .. 100
    <3>1. 0 \in Int /\ 100 \in Int /\ 0 <= 100
      OBVIOUS
    <3> QED
      BY <2>1, <3>1, WithinBounds
  <2> QED
    BY <2>2, <2>3

LEMMA NothingOnFile ==
    /\ << >> \in Seq(Case) /\ Len(<< >>) = 0
    /\ Once(<< >>) /\ ToSet(<< >>) = {}
<1>1. << >> \in Seq(Case) /\ Len(<< >>) = 0
  BY EmptySeq
<1>2. Once(<< >>)
  BY <1>1 DEF Once
<1>3. ToSet(<< >>) = {<< >>[i] : i \in 1 .. Len(<< >>)}
  BY <1>1, ToSetIsRange
<1> QED
  BY <1>1, <1>2, <1>3

LEMMA LoadIsCases ==
    ASSUME BaseInv
    PROVE  /\ Load \in Seq(Case) /\ Once(Load)
           /\ ToSet(Load) \subseteq ToSet(window) /\ ToSet(Load) \subseteq Case
<1>1. window \in Seq(Case)
  BY DEF BaseInv, TypeOK
<1> QED
  BY <1>1, NothingOnFile, ToSetIsRange DEF Load, BaseInv, OnFile

LEMMA ByRulesIsAVerdict ==
    ASSUME BaseInv, NEW c \in Case
    PROVE  ByRules(c) \in Verdict
<1>1. AuthorHistory(c) \in Nat
  <2>1. {d \in ToSet(Load) : post[d].author = post[c].author /\ d # c} \subseteq Case
    BY LoadIsCases
  <2> QED
    BY <2>1, CountsOfCases DEF AuthorHistory
<1>2. post[c].profile \in Profile /\ copies[c] \in Nat
  BY DEF BaseInv, TypeOK, Post
<1>3. Authenticity(post[c].profile, AuthorHistory(c), copies[c]) \in 0 .. 100
  BY <1>1, <1>2, AuthenticityIsAScore
<1>4. Classify(post[c].profile, Authenticity(post[c].profile, AuthorHistory(c), copies[c]),
               AuthorHistory(c), copies[c]) \in Class
  BY DEF Classify, Class
<1> QED
  BY <1>1, <1>3, <1>4 DEF ByRules, Verdict

LEMMA MovedIsAVerdict ==
    ASSUME NEW v \in Verdict, NEW o \in Opinion \cup {<<v.class, v.authenticity>>}
    PROVE  Moved(v, o[1], o[2]) \in Verdict
<1>1. o[1] \in Class /\ o[2] \in Int
  <2>1. CASE o \in Opinion
    <3>1. o \in Class \X (0 .. 100)
      BY <2>1, ReadingsAssumption
    <3> QED
      BY <3>1
  <2>2. CASE o = <<v.class, v.authenticity>>
    BY <2>2 DEF Verdict
  <2> QED
    BY <2>1, <2>2
<1>2. Within(AmbiguousLow, AmbiguousHigh, o[2]) \in AmbiguousLow .. AmbiguousHigh
  <2>1. AmbiguousLow \in Int /\ AmbiguousHigh \in Int /\ AmbiguousLow <= AmbiguousHigh
    BY DEF AmbiguousLow, AmbiguousHigh
  <2> QED
    BY <1>1, <2>1, WithinBounds
<1>3. Within(AmbiguousLow, AmbiguousHigh, o[2]) \in 0 .. 100
  BY <1>2 DEF AmbiguousLow, AmbiguousHigh
<1> QED
  BY <1>1, <1>3 DEF Moved, Verdict

LEMMA InitBase == Init => BaseInv
<1> SUFFICES ASSUME Init PROVE BaseInv
  OBVIOUS
<1>1. NoWork \in Work /\ NoWork.step = "idle"
  BY NothingOnFile DEF NoWork, Work
<1>2. TypeOK
  <2>1. work \in [Process -> Work] /\ post \in [Case -> Post]
    BY <1>1, ReadingsAssumption DEF Init
  <2>2. window \in Seq(Case) /\ joined \in Seq(Case) /\ Len(window) <= MaxHistory
    BY NothingOnFile, ReadingsAssumption DEF Init
  <2>3. torn \in BOOLEAN /\ overlapped \in BOOLEAN
    BY DEF Init
  <2>4. crashes \in 0 .. MaxCrashes
    BY ReadingsAssumption DEF Init
  <2>5. level \in [Case -> Level \cup {None}] /\ verdict \in [Case -> Verdict \cup {None}]
    BY DEF Init
  <2>6. copies \in [Case -> Nat] /\ before \in [Case -> SUBSET Case]
    BY DEF Init
  <2> QED
    BY <2>1, <2>2, <2>3, <2>4, <2>5, <2>6 DEF TypeOK
<1>3. OnFile
  BY <1>1, NothingOnFile DEF Init, OnFile, Writes
<1> QED
  BY <1>2, <1>3 DEF BaseInv

LEMMA DetectBase ==
    ASSUME BaseInv, NEW p \in Process, NEW c \in Case, Detect(p, c)
    PROVE  BaseInv'
<1> DEFINE recent == Recent(c)
<1>1. AssessCluster(c, Alike(c, recent)) \in Level
  BY DEF AssessCluster, Level
<1>2. CoordinatedAuthors(c, recent) \in Nat
  <2>1. recent \subseteq Case
    BY LoadIsCases DEF Recent
  <2>2. \A d \in Case : post[d].author \in Author
    BY DEF BaseInv, TypeOK, Post
  <2>3. AuthorsOf({d \in recent : post[d].wording = post[c].wording}) \subseteq Author
    BY <2>1, <2>2 DEF AuthorsOf
  <2> QED
    BY <2>3, CountsOfAuthors DEF CoordinatedAuthors
<1> HIDE DEF recent
<1>3. [case |-> c, step |-> "scored", prints |-> << >>] \in Work
  BY EmptySeq DEF Work
<1>4. ToSet(LastOf(joined, MaxHistory)) \subseteq Case
  BY ReadingsAssumption, LastOfIsTheEnd, ToSetIsRange DEF BaseInv, TypeOK
<1>5. /\ level' = [level EXCEPT ![c] = AssessCluster(c, Alike(c, recent))]
      /\ copies' = [copies EXCEPT ![c] = CoordinatedAuthors(c, recent)]
      /\ work' = [work EXCEPT ![p] = [case |-> c, step |-> "scored", prints |-> << >>]]
      /\ before' = [before EXCEPT ![c] = ToSet(LastOf(joined, MaxHistory))]
      /\ overlapped' = (overlapped \/ Others(p) # {})
      /\ UNCHANGED <<post, window, torn, verdict, joined, crashes>>
  BY DEF Detect, recent
<1>6. TypeOK'
  BY <1>1, <1>2, <1>3, <1>4, <1>5 DEF BaseInv, TypeOK
<1>7. OnFile'
  <2>1. \A q \in Process : work'[q] = IF q = p
            THEN [case |-> c, step |-> "scored", prints |-> << >>] ELSE work[q]
    BY <1>5 DEF BaseInv, TypeOK
  <2> QED
    BY <1>5, <2>1 DEF BaseInv, OnFile, Writes
<1> QED
  BY <1>6, <1>7 DEF BaseInv

LEMMA AddLoadsBase ==
    ASSUME BaseInv, NEW p \in Process, AddLoads(p)
    PROVE  BaseInv'
<1> DEFINE prints == Joining(work[p].case, Load)
           now == [work[p] EXCEPT !.step = "loaded", !.prints = prints]
<1>1. work[p].case \in Case
  BY DEF AddLoads, BaseInv, OnFile
<1>2. /\ prints \in Seq(Case) /\ Once(prints)
      /\ ToSet(prints) = ToSet(Load) \cup {work[p].case}
  BY <1>1, LoadIsCases, JoiningKeeps
<1>3. ToSet(prints) \subseteq ToSet(joined) \cup {work[p].case}
  BY <1>2, LoadIsCases DEF BaseInv, OnFile
<1> HIDE DEF prints
<1>4. \A q \in Process : work'[q] = IF q = p THEN now ELSE work[q]
  BY DEF AddLoads, BaseInv, TypeOK, prints
<1>5. now \in Work /\ now.case = work[p].case /\ now.prints = prints /\ now.step = "loaded"
  BY <1>2 DEF BaseInv, TypeOK, Work
<1>6. work' \in [Process -> Work]
  BY <1>5 DEF AddLoads, BaseInv, TypeOK, prints
<1> HIDE DEF now
<1>7. UNCHANGED <<post, window, torn, level, copies, verdict, joined, before,
                  overlapped, crashes>>
  BY DEF AddLoads
<1>8. TypeOK'
  BY <1>6, <1>7 DEF BaseInv, TypeOK
<1>9. OnFile'
  BY <1>1, <1>2, <1>3, <1>4, <1>5, <1>7 DEF BaseInv, OnFile, Writes
<1> QED
  BY <1>8, <1>9 DEF BaseInv

LEMMA SaveOpensBase ==
    ASSUME BaseInv, NEW p \in Process, SaveOpens(p)
    PROVE  BaseInv'
<1> DEFINE now == [work[p] EXCEPT !.step = "writing"]
<1>1. \A q \in Process : work'[q] = IF q = p THEN now ELSE work[q]
  BY DEF SaveOpens, BaseInv, TypeOK
<1>2. /\ now \in Work /\ now.case = work[p].case /\ now.prints = work[p].prints
      /\ now.step = "writing"
  BY DEF BaseInv, TypeOK, Work
<1>3. work' \in [Process -> Work]
  BY <1>2 DEF SaveOpens, BaseInv, TypeOK
<1> HIDE DEF now
<1>4. Writes(p) /\ work[p].step # "idle"
  BY DEF SaveOpens, Writes
<1>5. torn' = TRUE /\ UNCHANGED <<post, window, level, copies, verdict, joined, before,
                                  overlapped, crashes>>
  BY DEF SaveOpens
<1>6. TypeOK'
  BY <1>3, <1>5 DEF BaseInv, TypeOK
<1>7. OnFile'
  BY <1>1, <1>2, <1>4, <1>5 DEF BaseInv, OnFile, Writes
<1> QED
  BY <1>6, <1>7 DEF BaseInv

LEMMA SaveEndsBase ==
    ASSUME BaseInv, NEW p \in Process, SaveEnds(p)
    PROVE  BaseInv'
<1>1. work[p].case \in Case /\ Writes(p) /\ work[p].prints \in Seq(Case)
  BY DEF SaveEnds, BaseInv, OnFile, Writes, TypeOK, Work
<1>2. /\ joined' = Joining(work[p].case, joined)
      /\ joined' \in Seq(Case) /\ Once(joined')
      /\ ToSet(joined') = ToSet(joined) \cup {work[p].case}
  BY <1>1, JoiningKeeps DEF SaveEnds, BaseInv, OnFile, TypeOK
<1>3. /\ window' \in Seq(Case) /\ Once(window')
      /\ Len(window') <= MaxHistory
      /\ ToSet(window') \subseteq ToSet(work[p].prints)
  <2>1. window' = LastOf(work[p].prints, MaxHistory)
    BY DEF SaveEnds, Trimmed
  <2>2. MaxHistory \in Nat
    BY ReadingsAssumption
  <2>3. Once(work[p].prints)
    BY <1>1 DEF BaseInv, OnFile
  <2>4. Len(work[p].prints) \in Nat
    BY <1>1, LenProperties
  <2>5. Len(window') = Lesser(Len(work[p].prints), MaxHistory)
    BY <1>1, <2>1, <2>2, LastOfIsTheEnd
  <2> QED
    BY <1>1, <2>1, <2>2, <2>3, <2>4, <2>5, LastOfIsTheEnd DEF Lesser
<1>4. ToSet(window') \subseteq ToSet(joined')
  BY <1>1, <1>2, <1>3 DEF BaseInv, OnFile
<1>5. \A q \in Process : work'[q] = IF q = p THEN NoWork ELSE work[q]
  BY DEF SaveEnds, BaseInv, TypeOK
<1>6. NoWork \in Work /\ NoWork.step = "idle"
  BY EmptySeq DEF NoWork, Work
<1>7. work' \in [Process -> Work]
  BY <1>6 DEF SaveEnds, BaseInv, TypeOK
<1>8. torn' = FALSE /\ UNCHANGED <<post, level, copies, verdict, before, overlapped, crashes>>
  BY DEF SaveEnds
<1>9. TypeOK'
  BY <1>2, <1>3, <1>7, <1>8 DEF BaseInv, TypeOK
<1>10. OnFile'
  BY <1>2, <1>3, <1>4, <1>5, <1>6 DEF BaseInv, OnFile, Writes
<1> QED
  BY <1>9, <1>10 DEF BaseInv

LEMMA CrashBase ==
    ASSUME BaseInv, NEW p \in Process, Crash(p)
    PROVE  BaseInv'
<1>1. \A q \in Process : work'[q] = IF q = p THEN NoWork ELSE work[q]
  BY DEF Crash, BaseInv, TypeOK
<1>2. NoWork \in Work /\ NoWork.step = "idle"
  BY EmptySeq DEF NoWork, Work
<1>3. work' \in [Process -> Work]
  BY <1>2 DEF Crash, BaseInv, TypeOK
<1>4. level' \in [Case -> Level \cup {None}]
  BY DEF Crash, BaseInv, TypeOK
<1>5. crashes' \in 0 .. MaxCrashes /\ overlapped' \in BOOLEAN
  BY ReadingsAssumption DEF Crash, BaseInv, TypeOK
<1>6. UNCHANGED <<post, window, torn, copies, verdict, joined, before>>
  BY DEF Crash
<1>7. TypeOK'
  BY <1>3, <1>4, <1>5, <1>6 DEF BaseInv, TypeOK
<1>8. OnFile'
  BY <1>1, <1>2, <1>6 DEF BaseInv, OnFile, Writes
<1> QED
  BY <1>7, <1>8 DEF BaseInv

\* What the judge finds is by the rules, or is that moved by a model.
LEMMA JudgeFinds ==
    ASSUME BaseInv, NEW c \in Case, Judge(c)
    PROVE  /\ \/ verdict' = [verdict EXCEPT ![c] = ByRules(c)]
              \/ /\ NeedsASecondOpinion(ByRules(c))
                 /\ \E o \in Opinion \cup {<<ByRules(c).class, ByRules(c).authenticity>>} :
                       verdict' = [verdict EXCEPT ![c] = Moved(ByRules(c), o[1], o[2])]
           /\ UNCHANGED <<post, window, torn, work, level, copies, joined, before,
                          overlapped, crashes>>
BY DEF Judge

LEMMA JudgeBase ==
    ASSUME BaseInv, NEW c \in Case, Judge(c)
    PROVE  BaseInv'
<1>1. verdict' \in [Case -> Verdict \cup {None}]
  <2>1. ByRules(c) \in Verdict
    BY ByRulesIsAVerdict
  <2>2. \A o \in Opinion \cup {<<ByRules(c).class, ByRules(c).authenticity>>} :
           Moved(ByRules(c), o[1], o[2]) \in Verdict
    BY <2>1, MovedIsAVerdict
  <2>3. \E v \in Verdict : verdict' = [verdict EXCEPT ![c] = v]
    BY <2>1, <2>2, JudgeFinds
  <2> QED
    BY <2>3 DEF BaseInv, TypeOK
<1>2. UNCHANGED <<post, window, torn, work, level, copies, joined, before,
                  overlapped, crashes>>
  BY DEF Judge
<1> QED
  BY <1>1, <1>2 DEF BaseInv, TypeOK, OnFile, Writes

LEMMA BaseStep == BaseInv /\ [Next]_vars => BaseInv'
<1> SUFFICES ASSUME BaseInv, [Next]_vars PROVE BaseInv'
  OBVIOUS
<1>1. CASE UNCHANGED vars
  BY <1>1 DEF vars, BaseInv, TypeOK, OnFile, Writes
<1>2. CASE Next
  BY <1>2, DetectBase, AddLoadsBase, SaveOpensBase, SaveEndsBase, CrashBase, JudgeBase DEF Next
<1> QED
  BY <1>1, <1>2

THEOREM BaseInvariant == Spec => []BaseInv
<1> QED
  BY InitBase, BaseStep, PTL DEF Spec

\* Every variable of the two processes and the readings keeps its type, for any
\* feed, sizes and crashes: the window keeps its bound and scores stay scores.
THEOREM TypeCorrect == Spec => []TypeOK
<1>1. BaseInv => TypeOK
  BY DEF BaseInv
<1> QED
  BY <1>1, BaseInvariant, PTL

-----------------------------------------------------------------------------
(* Waves.                                                                   *)

\* What a step does to the level of a case.
LEMMA LevelsChange ==
    ASSUME BaseInv, [Next]_vars, NEW c \in Case
    PROVE  /\ post' = post
           /\ \/ level'[c] = level[c] /\ before'[c] = before[c]
              \/ level'[c] = None
              \/ \E p \in Process : Detect(p, c)
<1>1. CASE UNCHANGED vars
  BY <1>1 DEF vars
<1>2. ASSUME NEW p \in Process, NEW d \in Case, Detect(p, d)
      PROVE  /\ post' = post
             /\ d = c \/ (level'[c] = level[c] /\ before'[c] = before[c])
  BY <1>2 DEF Detect, BaseInv, TypeOK
<1>3. ASSUME NEW p \in Process, AddLoads(p) \/ SaveOpens(p) \/ SaveEnds(p)
      PROVE  UNCHANGED <<post, level, before>>
  BY <1>3 DEF AddLoads, SaveOpens, SaveEnds
<1>4. ASSUME NEW p \in Process, Crash(p)
      PROVE  /\ UNCHANGED <<post, before>>
             /\ level'[c] = level[c] \/ level'[c] = None
  BY <1>4 DEF Crash, BaseInv, TypeOK
<1>5. ASSUME NEW d \in Case, Judge(d)
      PROVE  UNCHANGED <<post, level, before>>
  BY <1>5 DEF Judge
<1> QED
  BY <1>1, <1>2, <1>3, <1>4, <1>5 DEF Next

LEMMA RecentAreCases ==
    ASSUME BaseInv, NEW c \in Case
    PROVE  Recent(c) \subseteq Case
BY LoadIsCases DEF Recent

\* A level is at least as many people as it says.
LEMMA LevelsCount ==
    ASSUME BaseInv, NEW c \in Case, NEW alike, alike \subseteq Case
    PROVE  /\ Cluster(c, alike) \in Nat
           /\ Cluster(c, alike) >= CrisisSize => AssessCluster(c, alike) = "crisis"
           /\ Cluster(c, alike) >= WatchSize => AssessCluster(c, alike) \in {"watch", "crisis"}
           /\ AssessCluster(c, alike) \in {"watch", "crisis"} => Cluster(c, alike) >= WatchSize
<1>1. \A d \in Case : post[d].author \in Author
  BY DEF BaseInv, TypeOK, Post
<1>2. AuthorsOf(alike) \cup {post[c].author} \subseteq Author
  BY <1>1 DEF AuthorsOf
<1>3. Cluster(c, alike) \in Nat
  BY <1>2, CountsOfAuthors DEF Cluster
<1>4. CrisisSize \in Nat /\ WatchSize \in Nat /\ WatchSize <= CrisisSize
  BY ReadingsAssumption
<1> QED
  BY <1>3, <1>4 DEF AssessCluster

LEMMA VoicesStep ==
    ASSUME BaseInv, OneVoiceIsNoWave, [Next]_vars
    PROVE  OneVoiceIsNoWave'
<1> SUFFICES ASSUME NEW c \in Case, level'[c] \in {"watch", "crisis"}
             PROVE  Cardinality(Voices(c)') >= WatchSize
  BY DEF OneVoiceIsNoWave
<1>1. post' = post
  BY LevelsChange
<1>2. Voices(c)' = Voices(c)
  BY <1>1 DEF Voices, AuthorsOf, Alike
<1>3. ASSUME NEW p \in Process, Detect(p, c)
      PROVE  Cardinality(Voices(c)) >= WatchSize
  <2> DEFINE alike == Alike(c, Recent(c))
  <2>1. alike \subseteq Alike(c, Case) /\ alike \subseteq Case /\ c \in Alike(c, Case)
    BY RecentAreCases DEF Alike
  <2>2. level'[c] = AssessCluster(c, alike)
    BY <1>3 DEF Detect, BaseInv, TypeOK
  <2> HIDE DEF alike
  <2>3. Cluster(c, alike) >= WatchSize /\ Cluster(c, alike) \in Nat
    BY <2>1, <2>2, LevelsCount
  <2>4. AuthorsOf(alike) \cup {post[c].author} \subseteq Voices(c)
    BY <2>1 DEF AuthorsOf, Voices
  <2>5. \A d \in Case : post[d].author \in Author
    BY DEF BaseInv, TypeOK, Post
  <2>6. Voices(c) \subseteq Author
    BY <2>5 DEF Voices, AuthorsOf, Alike
  <2>7. IsFiniteSet(Voices(c)) /\ Cardinality(Voices(c)) \in Nat
    BY <2>6, CountsOfAuthors
  <2>8. Cluster(c, alike) <= Cardinality(Voices(c))
    BY <2>4, <2>7, FS_Subset DEF Cluster
  <2> QED
    BY <2>3, <2>7, <2>8, ReadingsAssumption
<1>4. CASE level'[c] = level[c]
  BY <1>2, <1>4 DEF OneVoiceIsNoWave
<1>5. level'[c] # None
  BY ReadingsAssumption DEF Level
<1> QED
  BY <1>2, <1>3, <1>4, <1>5, LevelsChange

\* However often one person posts, and however often a case is run again, no
\* level of detect() stands for fewer people than it says, for any feed.
THEOREM OneVoiceIsNeverAWave == Spec => []OneVoiceIsNoWave
<1>1. Init => OneVoiceIsNoWave
  BY ReadingsAssumption DEF Init, OneVoiceIsNoWave, Level
<1> QED
  BY <1>1, BaseInvariant, VoicesStep, PTL DEF Spec

\* A process is in detect().
Busy(p) == work[p].step # "idle"

\* As long as no two processes were in detect() at once, and none died writing,
\* what is on file is the end of all that joined.
AloneInv ==
    ~overlapped =>
        /\ \A p, q \in Process : Busy(p) /\ Busy(q) => p = q
        /\ window = LastOf(joined, MaxHistory)
        /\ torn => \E p \in Process : work[p].step = "writing"
        /\ \A p \in Process : Writes(p) => work[p].prints = Joining(work[p].case, window)

LEMMA LastOfNothing == LastOf(<< >>, MaxHistory) = << >>
<1>1. << >> \in Seq(Case) /\ Len(<< >>) = 0 /\ MaxHistory \in Nat
  BY NothingOnFile, ReadingsAssumption
<1>2. LastOf(<< >>, MaxHistory) \in Seq(Case) /\ Len(LastOf(<< >>, MaxHistory)) = Lesser(0, MaxHistory)
  BY <1>1, LastOfIsTheEnd
<1>3. Lesser(0, MaxHistory) = 0
  BY <1>1 DEF Lesser
<1> QED
  BY <1>2, <1>3, EmptySeq

LEMMA AloneStep ==
    ASSUME BaseInv, AloneInv, [Next]_vars
    PROVE  AloneInv'
<1> SUFFICES ASSUME ~overlapped'
             PROVE  /\ \A p, q \in Process : Busy(p)' /\ Busy(q)' => p = q
                    /\ window' = LastOf(joined', MaxHistory)
                    /\ torn' => \E p \in Process : work'[p].step = "writing"
                    /\ \A p \in Process :
                          Writes(p)' => work'[p].prints = Joining(work'[p].case, window')
  BY DEF AloneInv
<1>1. CASE UNCHANGED vars
  BY <1>1 DEF vars, AloneInv, Busy, Writes
<1>2. ASSUME NEW p \in Process, NEW c \in Case, Detect(p, c)
      PROVE  /\ \A q, r \in Process : Busy(q)' /\ Busy(r)' => q = r
             /\ window' = LastOf(joined', MaxHistory)
             /\ ~torn'
             /\ \A q \in Process : ~Writes(q)'
  <2>1. ~overlapped /\ \A q \in Process : Busy(q) => q = p
    BY <1>2 DEF Detect, Others, Busy
  <2>2. \A q \in Process : ~Busy(q)
    BY <1>2, <2>1 DEF Detect, Busy
  <2>3. ~torn /\ window = LastOf(joined, MaxHistory)
    BY <2>1, <2>2 DEF AloneInv, Busy
  <2>4. \A q \in Process : work'[q] = IF q = p
            THEN [case |-> c, step |-> "scored", prints |-> << >>] ELSE work[q]
    BY <1>2 DEF Detect, BaseInv, TypeOK
  <2> QED
    BY <1>2, <2>2, <2>3, <2>4 DEF Detect, Busy, Writes
<1>3. ASSUME NEW p \in Process, AddLoads(p)
      PROVE  /\ \A q, r \in Process : Busy(q)' /\ Busy(r)' => q = r
             /\ window' = LastOf(joined', MaxHistory)
             /\ ~torn'
             /\ \A q \in Process :
                   Writes(q)' => work'[q].prints = Joining(work'[q].case, window')
  <2>1. ~overlapped /\ UNCHANGED <<window, joined, torn>>
    BY <1>3 DEF AddLoads
  <2>2. \A q \in Process : Busy(q) => q = p
    BY <1>3, <2>1 DEF AddLoads, Busy, AloneInv
  <2>3. ~torn /\ window = LastOf(joined, MaxHistory)
    BY <1>3, <2>1, <2>2 DEF AddLoads, Busy, AloneInv
  <2>4. Load = window
    BY <2>3 DEF Load
  <2>5. work'[p] = [work[p] EXCEPT !.step = "loaded", !.prints = Joining(work[p].case, window)]
    BY <1>3, <2>4 DEF AddLoads, BaseInv, TypeOK
  <2>6. \A q \in Process \ {p} : work'[q] = work[q]
    BY <1>3 DEF AddLoads, BaseInv, TypeOK
  <2>7. work'[p].prints = Joining(work'[p].case, window) /\ work'[p].step = "loaded"
    BY <2>5 DEF BaseInv, TypeOK, Work
  <2>8. \A q \in Process : Busy(q)' => q = p
    BY <2>2, <2>6 DEF Busy
  <2>9. \A q \in Process : Writes(q)' => q = p
    BY <2>8 DEF Busy, Writes
  <2> QED
    BY <2>1, <2>3, <2>7, <2>8, <2>9
<1>4. ASSUME NEW p \in Process, SaveOpens(p)
      PROVE  /\ \A q, r \in Process : Busy(q)' /\ Busy(r)' => q = r
             /\ window' = LastOf(joined', MaxHistory)
             /\ work'[p].step = "writing"
             /\ \A q \in Process :
                   Writes(q)' => work'[q].prints = Joining(work'[q].case, window')
  <2>1. ~overlapped /\ UNCHANGED <<window, joined>>
    BY <1>4 DEF SaveOpens
  <2>2. Writes(p) /\ Busy(p)
    BY <1>4 DEF SaveOpens, Writes, Busy
  <2>3. work'[p] = [work[p] EXCEPT !.step = "writing"]
    BY <1>4 DEF SaveOpens, BaseInv, TypeOK
  <2>4. \A q \in Process \ {p} : work'[q] = work[q]
    BY <1>4 DEF SaveOpens, BaseInv, TypeOK
  <2>5. /\ work'[p].prints = work[p].prints /\ work'[p].case = work[p].case
        /\ work'[p].step = "writing"
    BY <2>3 DEF BaseInv, TypeOK, Work
  <2>6. \A q \in Process : Busy(q)' => Busy(q)
    BY <2>2, <2>4 DEF Busy
  <2>7. \A q \in Process : Writes(q)' => Writes(q)
    BY <2>2, <2>4 DEF Writes
  <2> QED
    BY <2>1, <2>4, <2>5, <2>6, <2>7 DEF AloneInv
<1>5. ASSUME NEW p \in Process, SaveEnds(p)
      PROVE  /\ \A q \in Process : ~Busy(q)'
             /\ window' = LastOf(joined', MaxHistory)
             /\ ~torn'
             /\ \A q \in Process : ~Writes(q)'
  <2>1. ~overlapped /\ Writes(p) /\ Busy(p) /\ work[p].case \in Case
    BY <1>5 DEF SaveEnds, Writes, Busy, BaseInv, OnFile
  <2>2. /\ \A q \in Process : Busy(q) => q = p
        /\ work[p].prints = Joining(work[p].case, LastOf(joined, MaxHistory))
    BY <2>1 DEF AloneInv
  <2>3. joined \in Seq(Case) /\ Once(joined) /\ MaxHistory \in Nat \ {0}
    BY ReadingsAssumption DEF BaseInv, TypeOK, OnFile
  <2>4. LastOf(work[p].prints, MaxHistory) = LastOf(Joining(work[p].case, joined), MaxHistory)
    BY <2>1, <2>2, <2>3, TrimmingIsHarmless
  <2>5. \A q \in Process : work'[q] = IF q = p THEN NoWork ELSE work[q]
    BY <1>5 DEF SaveEnds, BaseInv, TypeOK
  <2>6. \A q \in Process : ~Busy(q)'
    BY <2>2, <2>5 DEF Busy, NoWork
  <2> QED
    BY <1>5, <2>4, <2>6 DEF SaveEnds, Trimmed, Busy, Writes
<1>6. ASSUME NEW p \in Process, Crash(p)
      PROVE  /\ \A q \in Process : ~Busy(q)'
             /\ window' = LastOf(joined', MaxHistory)
             /\ ~torn'
             /\ \A q \in Process : ~Writes(q)'
  <2>1. ~overlapped /\ Busy(p) /\ work[p].step # "writing"
    BY <1>6 DEF Crash, Busy
  <2>2. \A q \in Process : Busy(q) => q = p
    BY <2>1 DEF AloneInv
  <2>3. ~torn /\ window = LastOf(joined, MaxHistory)
    BY <2>1, <2>2 DEF AloneInv, Busy
  <2>4. \A q \in Process : work'[q] = IF q = p THEN NoWork ELSE work[q]
    BY <1>6 DEF Crash, BaseInv, TypeOK
  <2>5. \A q \in Process : ~Busy(q)'
    BY <2>2, <2>4 DEF Busy, NoWork
  <2> QED
    BY <1>6, <2>3, <2>5 DEF Crash, Busy, Writes
<1>7. ASSUME NEW c \in Case, Judge(c)
      PROVE  UNCHANGED <<window, torn, work, joined, overlapped>>
  BY <1>7 DEF Judge
<1>8. CASE UNCHANGED <<window, torn, work, joined, overlapped>>
  BY <1>8 DEF AloneInv, Busy, Writes
<1> QED
  BY <1>1, <1>2, <1>3, <1>4, <1>5, <1>6, <1>7, <1>8 DEF Next

LEMMA WaveStep ==
    ASSUME BaseInv, AloneInv, WaveIsSeen, [Next]_vars
    PROVE  WaveIsSeen'
<1> DEFINE Wave(c, earlier, p) ==
        {d \in {e \in earlier \cup {c} : p[e].topic = p[c].topic} :
            p[d].at \in p[c].at - Window .. p[c].at}
           People(c, earlier, p) == {p[d].author : d \in Wave(c, earlier, p)}
           Seen(c, earlier, l, p) ==
             /\ Cardinality(People(c, earlier, p)) >= CrisisSize => l = "crisis"
             /\ Cardinality(People(c, earlier, p)) >= WatchSize => l \in {"watch", "crisis"}
<1>1. WaveIsSeen <=>
        (~overlapped => \A c \in Case : level[c] # None => Seen(c, before[c], level[c], post))
  BY DEF WaveIsSeen, Alike, AuthorsOf
<1>2. WaveIsSeen' <=>
        (~overlapped' => \A c \in Case : level'[c] # None => Seen(c, before'[c], level'[c], post'))
  BY DEF WaveIsSeen, Alike, AuthorsOf
<1>3. overlapped => overlapped'
  BY DEF Next, vars, Detect, AddLoads, SaveOpens, SaveEnds, Crash, Judge
<1>4. ASSUME NEW p \in Process, NEW c \in Case, Detect(p, c), ~overlapped'
      PROVE  Seen(c, before'[c], level'[c], post)
  <2> DEFINE alike == Alike(c, Recent(c))
  <2>1. ~overlapped /\ \A q \in Process : ~Busy(q)
    BY <1>4 DEF Detect, Others, Busy
  <2>2. ~torn /\ window = LastOf(joined, MaxHistory)
    BY <2>1 DEF AloneInv, Busy
  <2>3. level'[c] = AssessCluster(c, alike) /\ before'[c] = ToSet(window)
    BY <1>4, <2>2 DEF Detect, BaseInv, TypeOK
  <2>4. alike = {d \in ToSet(window) : /\ d # c /\ post[d].at >= post[c].at - Window
                                       /\ post[d].topic = post[c].topic}
    BY <2>2 DEF Alike, Recent, Load
  <2>5. alike \subseteq Case /\ ToSet(window) \subseteq Case
    BY RecentAreCases, <2>2, LoadIsCases DEF Alike, Load
  <2>6. \A d \in Case : post[d].at \in Nat /\ post[d].author \in Author
    BY DEF BaseInv, TypeOK, Post
  <2> HIDE DEF alike
  <2>7. People(c, ToSet(window), post) \subseteq AuthorsOf(alike) \cup {post[c].author}
    <3>1. ASSUME NEW d \in Wave(c, ToSet(window), post)
          PROVE  d = c \/ d \in alike
      <4>1. d \in ToSet(window) \cup {c} /\ post[d].topic = post[c].topic
        OBVIOUS
      <4>2. post[d].at \in post[c].at - Window .. post[c].at
        OBVIOUS
      <4>3. post[d].at >= post[c].at - Window
        BY <2>5, <2>6, <4>1, <4>2, ReadingsAssumption
      <4> QED
        BY <2>4, <4>1, <4>3
    <3> HIDE DEF Wave
    <3> QED
      BY <3>1 DEF AuthorsOf
  <2>8. AuthorsOf(alike) \cup {post[c].author} \subseteq Author
    BY <2>5, <2>6 DEF AuthorsOf
  <2>9. Cardinality(People(c, ToSet(window), post)) <= Cluster(c, alike)
    BY <2>7, <2>8, CountsOfAuthors, FS_Subset DEF Cluster
  <2>10. Cardinality(People(c, ToSet(window), post)) \in Nat /\ Cluster(c, alike) \in Nat
    BY <2>7, <2>8, CountsOfAuthors DEF Cluster
  <2>11. CrisisSize \in Nat /\ WatchSize \in Nat
    BY ReadingsAssumption
  <2> HIDE DEF People
  <2> QED
    BY <2>3, <2>5, <2>9, <2>10, <2>11, LevelsCount
<1> HIDE DEF Seen
<1>5. ASSUME ~overlapped', NEW c \in Case, level'[c] # None
      PROVE  Seen(c, before'[c], level'[c], post')
  <2>1. post' = post
    BY LevelsChange
  <2>2. CASE level'[c] = level[c] /\ before'[c] = before[c]
    BY <1>1, <1>3, <1>5, <2>1, <2>2
  <2>3. CASE \E p \in Process : Detect(p, c)
    BY <1>4, <1>5, <2>1, <2>3
  <2> QED
    BY <1>5, <2>2, <2>3, LevelsChange
<1> QED
  BY <1>2, <1>5

\* When enough people have posted the like within the window before a comment,
\* the comment is part of a crisis, for any feed and order of handling, unless
\* two processes ran into each other, or one died while it wrote.
THEOREM WavesAreSeen == Spec => []WaveIsSeen
<1>1. Init => AloneInv
  BY LastOfNothing DEF Init, AloneInv, Busy, Writes, NoWork
<1>2. Init => WaveIsSeen
  BY DEF Init, WaveIsSeen
<1> QED
  BY <1>1, <1>2, BaseInvariant, AloneStep, WaveStep, PTL DEF Spec

-----------------------------------------------------------------------------
(* The judge.                                                               *)

\* The cases of c's author that have joined, without c.
Earlier(c) == {d \in ToSet(joined) \ {c} : post[d].author = post[c].author}

LEMMA JoinedStays ==
    ASSUME BaseInv, [Next]_vars
    PROVE  ToSet(joined) \subseteq ToSet(joined')
<1>1. ASSUME NEW p \in Process, SaveEnds(p)
      PROVE  ToSet(joined) \subseteq ToSet(joined')
  <2>1. work[p].case \in Case /\ joined \in Seq(Case) /\ Once(joined)
    BY <1>1 DEF SaveEnds, BaseInv, OnFile, TypeOK
  <2>2. joined' = Joining(work[p].case, joined)
    BY <1>1 DEF SaveEnds
  <2> QED
    BY <2>1, <2>2, JoiningKeeps
<1>2. CASE joined' = joined
  BY <1>2
<1>3. joined' = joined \/ \E p \in Process : SaveEnds(p)
  BY DEF Next, vars, Detect, AddLoads, SaveOpens, Crash, Judge
<1> QED
  BY <1>1, <1>2, <1>3

LEMMA VerdictsChange ==
    ASSUME BaseInv, [Next]_vars, NEW c \in Case
    PROVE  verdict'[c] = verdict[c] \/ Judge(c)
<1>1. ASSUME NEW d \in Case, Judge(d)
      PROVE  d = c \/ verdict'[c] = verdict[c]
  BY <1>1, JudgeFinds DEF BaseInv, TypeOK
<1> QED
  BY <1>1 DEF Next, vars, Detect, AddLoads, SaveOpens, SaveEnds, Crash

LEMMA ReturningStep ==
    ASSUME BaseInv, ReturningHasReturned, [Next]_vars
    PROVE  ReturningHasReturned'
<1> SUFFICES ASSUME NEW c \in Case, verdict'[c] # None
             PROVE  verdict'[c].history <= Cardinality(Earlier(c)')
  BY DEF ReturningHasReturned, Earlier
<1>1. post' = post
  BY LevelsChange
<1>2. Earlier(c) \subseteq Earlier(c)'
  BY <1>1, JoinedStays DEF Earlier
<1>3. joined \in Seq(Case) /\ joined' \in Seq(Case)
  BY BaseStep DEF BaseInv, TypeOK
<1>4. Earlier(c) \subseteq Case /\ Earlier(c)' \subseteq Case
  BY <1>3, ToSetIsRange DEF Earlier
<1>5. /\ Cardinality(Earlier(c)) \in Nat /\ Cardinality(Earlier(c)') \in Nat
      /\ Cardinality(Earlier(c)) <= Cardinality(Earlier(c)')
  BY <1>2, <1>4, CountsOfCases, FS_Subset
<1>6. CASE verdict'[c] = verdict[c]
  <2>1. verdict[c].history <= Cardinality(Earlier(c)) /\ verdict[c] \in Verdict
    BY <1>6 DEF ReturningHasReturned, Earlier, BaseInv, TypeOK
  <2>2. verdict[c].history \in Nat
    BY <2>1 DEF Verdict
  <2> QED
    BY <1>5, <1>6, <2>1, <2>2
<1>7. CASE Judge(c)
  <2>1. ByRules(c).history = AuthorHistory(c)
    BY DEF ByRules
  <2>2. \A o : Moved(ByRules(c), o[1], o[2]).history = ByRules(c).history
    BY ByRulesIsAVerdict DEF Moved, Verdict
  <2> DEFINE v == ByRules(c)
  <2> HIDE DEF v
  <2>3. \/ verdict'[c] = v
        \/ \E o \in Opinion \cup {<<v.class, v.authenticity>>} :
              verdict'[c] = Moved(v, o[1], o[2])
    BY <1>7, JudgeFinds DEF BaseInv, TypeOK, v
  <2>4. verdict'[c].history = AuthorHistory(c)
    BY <2>1, <2>2, <2>3 DEF v
  <2> DEFINE found == {d \in ToSet(Load) : post[d].author = post[c].author /\ d # c}
  <2>5. found \subseteq Earlier(c)
    BY LoadIsCases DEF BaseInv, OnFile, Earlier
  <2>6. AuthorHistory(c) = Cardinality(found)
    BY DEF AuthorHistory
  <2> HIDE DEF found
  <2>7. Cardinality(found) \in Nat /\ Cardinality(found) <= Cardinality(Earlier(c))
    BY <1>4, <2>5, CountsOfCases, FS_Subset
  <2> QED
    BY <1>5, <2>4, <2>6, <2>7
<1> QED
  BY <1>6, <1>7, VerdictsChange

\* Whoever is called a returning customer has returned: the history the judge
\* counts never holds the case in hand, nor one that never joined, also when
\* processes overwrite each other's file, die in it and run cases again.
THEOREM ReturningAlwaysReturned == Spec => []ReturningHasReturned
<1>1. Init => ReturningHasReturned
  BY DEF Init, ReturningHasReturned
<1> QED
  BY <1>1, BaseInvariant, ReturningStep, PTL DEF Spec

LEMMA MiddleStep ==
    ASSUME BaseInv, OpinionStaysInTheMiddle, [Next]_vars
    PROVE  OpinionStaysInTheMiddle'
<1> SUFFICES ASSUME NEW c \in Case, verdict'[c] # None
             PROVE  IF verdict'[c].asked
                    THEN {verdict'[c].byRules, verdict'[c].authenticity}
                            \subseteq AmbiguousLow .. AmbiguousHigh
                    ELSE verdict'[c].authenticity = verdict'[c].byRules
  BY DEF OpinionStaysInTheMiddle
<1>1. CASE verdict'[c] = verdict[c]
  BY <1>1 DEF OpinionStaysInTheMiddle
<1>2. CASE Judge(c)
  <2> DEFINE v == ByRules(c)
  <2>1. v.authenticity = v.byRules /\ ~v.asked
    BY DEF ByRules
  <2>2. v \in Verdict
    BY ByRulesIsAVerdict
  <2> HIDE DEF v
  <2>3. CASE verdict'[c] = v
    BY <2>1, <2>3
  <2>4. ASSUME NeedsASecondOpinion(v), NEW o \in Opinion \cup {<<v.class, v.authenticity>>},
               verdict'[c] = Moved(v, o[1], o[2])
        PROVE  /\ verdict'[c].asked
               /\ {verdict'[c].byRules, verdict'[c].authenticity}
                     \subseteq AmbiguousLow .. AmbiguousHigh
    <3>1. o[2] \in Int
      <4>1. CASE o \in Opinion
        <5>1. o \in Class \X (0 .. 100)
          BY <4>1, ReadingsAssumption
        <5> QED
          BY <5>1
      <4>2. CASE o = <<v.class, v.authenticity>>
        BY <2>2, <4>2 DEF Verdict
      <4> QED
        BY <4>1, <4>2
    <3>2. Within(AmbiguousLow, AmbiguousHigh, o[2]) \in AmbiguousLow .. AmbiguousHigh
      <4>1. AmbiguousLow \in Int /\ AmbiguousHigh \in Int /\ AmbiguousLow <= AmbiguousHigh
        BY DEF AmbiguousLow, AmbiguousHigh
      <4> QED
        BY <3>1, <4>1, WithinBounds
    <3>3. v.byRules \in AmbiguousLow .. AmbiguousHigh
      BY <2>1, <2>4 DEF NeedsASecondOpinion
    <3>4. /\ verdict'[c].asked /\ verdict'[c].byRules = v.byRules
          /\ verdict'[c].authenticity = Within(AmbiguousLow, AmbiguousHigh, o[2])
      BY <2>2, <2>4 DEF Moved, Verdict
    <3> QED
      BY <3>2, <3>3, <3>4
  <2>5. \/ verdict'[c] = v
        \/ /\ NeedsASecondOpinion(v)
           /\ \E o \in Opinion \cup {<<v.class, v.authenticity>>} :
                 verdict'[c] = Moved(v, o[1], o[2])
    BY <1>2, JudgeFinds DEF BaseInv, TypeOK, v
  <2> QED
    BY <2>3, <2>4, <2>5
<1> QED
  BY <1>1, <1>2, VerdictsChange

\* A model is asked about the middle only, and what it says stays there, for
\* any opinions: evidence that is strong either way is never overturned.
THEOREM OpinionsStayInTheMiddle == Spec => []OpinionStaysInTheMiddle
<1>1. Init => OpinionStaysInTheMiddle
  BY DEF Init, OpinionStaysInTheMiddle
<1> QED
  BY <1>1, BaseInvariant, MiddleStep, PTL DEF Spec

-----------------------------------------------------------------------------
(* The track record (Autonomy).                                             *)

\* What is rejected was not agreed with, and what is not lost and not too old
\* for the ledger is on it.
RecordInv ==
    /\ RecordTypeOK
    /\ \A i \in DOMAIN decided : ~(decided[i].consequential /\ decided[i].agreed)
    /\ ~lost => Kept(DOMAIN decided) \subseteq ledger

LEMMA RecordBegins ==
    ASSUME RecordInit
    PROVE  RecordInv
<1>1. decided = <<>> /\ decided \in Seq(Row) /\ Len(decided) = 0 /\ DOMAIN decided = {}
  BY DEF RecordInit
<1>2. RecordTypeOK
  <2>1. 0 \in 0 .. MaxPending /\ 0 <= MaxDecisions
    BY AutonomyAssumption
  <2>2. pending \in [Capability -> 0 .. MaxPending]
    BY <2>1 DEF RecordInit
  <2> QED
    BY <1>1, <2>1, <2>2 DEF RecordInit, RecordTypeOK
<1> QED
  BY <1>1, <1>2 DEF RecordInit, RecordInv, Kept

LEMMA DecisionIsARow ==
    ASSUME NEW c \in Capability, NEW row \in Decisions(c)
    PROVE  row \in Row /\ ~(row.consequential /\ row.agreed) /\ row.age = 0
<1>1. 0 \in 0 .. Ancient
  BY AutonomyAssumption DEF Ancient
<1>2. \A agreed, rejects \in BOOLEAN :
        Decided(c, agreed, rejects) \in Row
  BY <1>1 DEF Decided, Row
<1>3. PICK agreed, rejects \in BOOLEAN :
        row = Decided(c, agreed, rejects) /\ ~(rejects /\ agreed)
  BY DEF Decisions
<1>4. row \in Row
  BY <1>2, <1>3
<1> QED
  BY <1>3, <1>4 DEF Decided

\* A decision joins, on file or lost.
LEMMA JoiningKeepsTheRecord ==
    ASSUME RecordInv, Len(decided) < MaxDecisions,
           NEW c \in Capability, NEW row \in Decisions(c),
           decided' = Append(decided, row),
           \/ ledger' = ledger \cup {Len(decided')} /\ UNCHANGED lost
           \/ ledger' = ledger /\ lost' = TRUE,
           UNCHANGED pruning,
           pending' \in [Capability -> 0 .. MaxPending]
    PROVE  RecordInv'
<1> DEFINE n == Len(decided)
<1>1. /\ row \in Row /\ ~(row.consequential /\ row.agreed)
      /\ decided \in Seq(Row) /\ n \in Nat /\ DOMAIN decided = 1 .. n
  BY DecisionIsARow, LenProperties DEF RecordInv, RecordTypeOK
<1>2. /\ decided' \in Seq(Row) /\ Len(decided') = n + 1 /\ DOMAIN decided' = 1 .. n + 1
      /\ \A i \in 1 .. n : decided'[i] = decided[i]
      /\ decided'[n + 1] = row
  BY <1>1, AppendProperties
<1>3. RecordTypeOK'
  <2>1. n + 1 <= MaxDecisions
    BY <1>1, AutonomyAssumption
  <2>2. ledger' \subseteq DOMAIN decided'
    BY <1>1, <1>2 DEF RecordInv, RecordTypeOK
  <2>3. pruning' # NotPruning => pruning' \subseteq DOMAIN decided'
    BY <1>1, <1>2 DEF RecordInv, RecordTypeOK
  <2>4. lost' \in BOOLEAN
    BY DEF RecordInv, RecordTypeOK
  <2> QED
    BY <1>2, <2>1, <2>2, <2>3, <2>4 DEF RecordTypeOK
<1>4. \A i \in DOMAIN decided' : ~(decided'[i].consequential /\ decided'[i].agreed)
  BY <1>1, <1>2 DEF RecordInv
<1>5. ASSUME ~lost', NEW i \in DOMAIN decided', decided'[i].age <= Retention
      PROVE  i \in ledger'
  <2>1. ~lost /\ ledger' = ledger \cup {n + 1}
    BY <1>2, <1>5
  <2>2. CASE i = n + 1
    BY <2>1, <2>2
  <2>3. CASE i # n + 1
    <3>1. i \in DOMAIN decided /\ decided[i].age <= Retention
      BY <1>1, <1>2, <1>5, <2>3
    <3> QED
      BY <2>1, <3>1 DEF RecordInv, Kept
  <2> QED
    BY <2>2, <2>3
<1> QED
  BY <1>3, <1>4, <1>5 DEF RecordInv, Kept

LEMMA RecordGoesOn ==
    ASSUME RecordInv, [RecordNext]_recordVars
    PROVE  RecordInv'
<1> USE DEF RecordInv
<1>1. CASE UNCHANGED recordVars
  BY <1>1 DEF recordVars, RecordTypeOK, Kept
<1>2. ASSUME NEW c \in Capability, Gate(c)
      PROVE  RecordInv'
  <2>1. pending' \in [Capability -> 0 .. MaxPending]
    BY <1>2, AutonomyAssumption DEF Gate, RecordTypeOK
  <2> QED
    BY <1>2, <2>1 DEF Gate, RecordTypeOK, Kept
<1>3. ASSUME NEW c \in Capability, Review(c)
      PROVE  RecordInv'
  <2>1. pending' \in [Capability -> 0 .. MaxPending]
    BY <1>3, AutonomyAssumption DEF Review, RecordTypeOK
  <2>2. PICK row \in Decisions(c) :
          /\ Len(decided) < MaxDecisions
          /\ decided' = Append(decided, row)
          /\ \/ ledger' = ledger \cup {Len(decided')} /\ UNCHANGED lost
             \/ ledger' = ledger /\ lost' = TRUE
    BY <1>3 DEF Review, Record
  <2>3. UNCHANGED pruning
    BY <1>3 DEF Review
  <2> QED
    BY <2>1, <2>2, <2>3, JoiningKeepsTheRecord
<1>4. ASSUME NEW c \in Capability, ReviewGrave(c)
      PROVE  RecordInv'
  <2>1. PICK row \in Decisions(c) :
          /\ Len(decided) < MaxDecisions
          /\ decided' = Append(decided, row)
          /\ \/ ledger' = ledger \cup {Len(decided')} /\ UNCHANGED lost
             \/ ledger' = ledger /\ lost' = TRUE
    BY <1>4 DEF ReviewGrave, Record
  <2>2. UNCHANGED pruning /\ pending' \in [Capability -> 0 .. MaxPending]
    BY <1>4 DEF ReviewGrave, RecordTypeOK
  <2> QED
    BY <2>1, <2>2, JoiningKeepsTheRecord
<1>5. CASE Tick
  <2> DEFINE Older(row) == [row EXCEPT !.age = IF @ < Ancient THEN @ + 1 ELSE @]
  <2>1. /\ decided \in Seq(Row) /\ Len(decided) \in Nat
        /\ DOMAIN decided = 1 .. Len(decided) /\ Len(decided) <= MaxDecisions
    BY LenProperties DEF RecordTypeOK
  <2>2. ASSUME NEW row \in Row
        PROVE  /\ Older(row) \in Row
               /\ Older(row).agreed = row.agreed
               /\ Older(row).consequential = row.consequential
               /\ Older(row).age <= Retention => row.age <= Retention
    BY <2>2, AutonomyAssumption DEF Row, Ancient
  <2>3. decided' = [i \in 1 .. Len(decided) |-> Older(decided[i])]
    BY <1>5, <2>1 DEF Tick, OlderBy1
  <2>4. \A i \in 1 .. Len(decided) : decided[i] \in Row
    BY <2>1, ElementOfSeq
  <2>5. /\ decided' \in Seq(Row) /\ Len(decided') = Len(decided)
        /\ DOMAIN decided' = 1 .. Len(decided)
        /\ \A i \in 1 .. Len(decided) : decided'[i] = Older(decided[i])
    <3>1. decided' \in [1 .. Len(decided) -> Row]
      BY <2>2, <2>3, <2>4
    <3>2. decided' \in Seq(Row)
      BY <2>1, <3>1
    <3> QED
      BY <2>1, <2>3, <3>1, <3>2, LenProperties
  <2>6. RecordTypeOK'
    BY <1>5, <2>1, <2>5 DEF Tick, RecordTypeOK
  <2>7. \A i \in DOMAIN decided' : ~(decided'[i].consequential /\ decided'[i].agreed)
    BY <2>1, <2>2, <2>4, <2>5
  <2>8. ASSUME ~lost', NEW i \in DOMAIN decided', decided'[i].age <= Retention
        PROVE  i \in ledger'
    <3>1. decided[i].age <= Retention /\ i \in DOMAIN decided
      BY <2>1, <2>2, <2>4, <2>5, <2>8
    <3> QED
      BY <1>5, <2>8, <3>1 DEF Tick, Kept
  <2> QED
    BY <2>6, <2>7, <2>8 DEF Kept
<1>6. CASE PruneReads
  BY <1>6 DEF PruneReads, RecordTypeOK, Kept
<1>7. CASE PruneWrites
  BY <1>7 DEF PruneWrites, RecordTypeOK, Kept
<1> QED
  BY <1>1, <1>2, <1>3, <1>4, <1>5, <1>6, <1>7 DEF RecordNext

\* What a level above ASSISTED says of the rows it was given for.
LEMMA EarnedByShare ==
    ASSUME RecordInv, NEW c \in Capability,
           ActsAlone(c)
    PROVE  LET rows == Rows(ledger, c)
               yes == {i \in rows : decided[i].agreed}
           IN  /\ ~RecentBad(rows)
               /\ Cardinality(rows) >= MinDecisions
               /\ LevelOf(c) = AUTONOMOUS => Cardinality(rows) >= MinForAutonomous
               /\ 100 * Cardinality(yes) >= PromoteAt * Cardinality(rows)
               /\ Ceiling[c] >= SUPERVISED
<1> DEFINE rows == Rows(ledger, c)
           yes == {i \in rows : decided[i].agreed}
           n == Cardinality(rows)
           share == 100 * Cardinality(yes)
<1>1. IsFiniteSet(rows) /\ IsFiniteSet(yes)
  <2>1. DOMAIN decided = 1 .. Len(decided) /\ Len(decided) \in Nat
    BY LenProperties DEF RecordInv, RecordTypeOK
  <2>2. IsFiniteSet(DOMAIN decided)
    BY <2>1, FS_Interval
  <2>3. rows \subseteq DOMAIN decided /\ yes \subseteq DOMAIN decided
    BY DEF RecordInv, RecordTypeOK, Rows
  <2> QED
    BY <2>2, <2>3, FS_Subset
<1>2. n \in Nat /\ Cardinality(yes) \in Nat
  BY <1>1, FS_CardinalityType
<1>3. Ceiling[c] \in 0 .. 3
  BY AutonomyAssumption DEF Authority, SHADOW, AUTONOMOUS
<1> DEFINE earned == IF Enabled THEN Earned(rows) ELSE 1
<1>4. LevelOf(c) = IF earned <= Ceiling[c] THEN earned ELSE Ceiling[c]
  BY DEF LevelOf, Capped, ASSISTED
<1>5. Earned(rows) = IF rows = {} \/ RecentBad(rows) THEN 1 ELSE ByShare(n, share)
  BY DEF Earned, Agreed, ASSISTED
<1>6. ByShare(n, share) =
        IF share < DemoteAt * n THEN 0
        ELSE IF share < PromoteAt * n \/ n < MinDecisions THEN 1
        ELSE IF n < MinForAutonomous THEN 2 ELSE 3
  BY DEF ByShare, SHADOW, ASSISTED, SUPERVISED, AUTONOMOUS
<1>7. LevelOf(c) >= 2
  BY DEF ActsAlone, SUPERVISED
<1>8. PromoteAt \in Int /\ DemoteAt \in Int /\ MinDecisions \in Int /\ MinForAutonomous \in Int
  BY AutonomyAssumption
<1>9. DemoteAt * n \in Int /\ PromoteAt * n \in Int /\ share \in Int
  BY <1>2, <1>8
<1> HIDE DEF rows, yes, n, share, earned
<1>10. earned \in Int /\ Ceiling[c] >= 2 /\ earned >= 2
  <2>1. Earned(rows) \in Int
    BY <1>5, <1>6
  <2>2. earned \in Int
    BY <2>1 DEF earned
  <2> QED
    BY <1>3, <1>4, <1>7, <2>2
<1>11. Earned(rows) >= 2 /\ earned = Earned(rows)
  BY <1>10 DEF earned
<1>12. ~RecentBad(rows) /\ Earned(rows) = ByShare(n, share)
  BY <1>5, <1>11
<1>13. share >= PromoteAt * n /\ n >= MinDecisions
  BY <1>2, <1>6, <1>8, <1>9, <1>11, <1>12
<1>14. ByShare(n, share) = 3 => n >= MinForAutonomous
  BY <1>2, <1>6, <1>8
<1>15. LevelOf(c) = 3 => earned = 3
  BY <1>3, <1>4, <1>6, <1>10, <1>11, <1>12
<1> QED
  BY <1>10, <1>11, <1>12, <1>13, <1>14, <1>15
    DEF rows, yes, n, share, SUPERVISED, AUTONOMOUS

LEMMA RecordInvEarns ==
    ASSUME RecordInv
    PROVE  AuthorityIsEarned
<1> SUFFICES ASSUME NEW c \in Capability, ActsAlone(c), ~lost
             PROVE  LET lately == Lately(c, WindowDays)
                        yes == {i \in lately : decided[i].agreed}
                    IN  /\ Cardinality(lately) >= MinDecisions
                        /\ LevelOf(c) = AUTONOMOUS
                              => Cardinality(lately) >= MinForAutonomous
                        /\ 100 * Cardinality(yes) >= PromoteAt * Cardinality(lately)
                        /\ \A i \in Lately(c, Cooloff) : ~decided[i].consequential
                        /\ Ceiling[c] >= SUPERVISED
  BY DEF AuthorityIsEarned
<1>1. \A i \in DOMAIN decided : decided[i].age \in Int
  <2>1. decided \in Seq(Row) /\ DOMAIN decided = 1 .. Len(decided)
    BY LenProperties DEF RecordInv, RecordTypeOK
  <2>2. \A i \in DOMAIN decided : decided[i] \in Row
    BY <2>1, ElementOfSeq
  <2>3. \A row \in Row : row.age \in Int
    BY AutonomyAssumption DEF Row, Ancient
  <2> QED
    BY <2>2, <2>3
<1>2. Rows(ledger, c) = Lately(c, WindowDays)
  BY <1>1, AutonomyAssumption DEF RecordInv, RecordTypeOK, Rows, Lately, Kept
<1>3. ASSUME NEW i \in Lately(c, Cooloff)
      PROVE  ~decided[i].consequential
  <2>1. i \in DOMAIN decided /\ decided[i].age <= Cooloff /\ i \in Lately(c, WindowDays)
    BY <1>1, <1>3, AutonomyAssumption DEF Lately
  <2> QED
    BY <1>2, <2>1, EarnedByShare DEF RecentBad, RecordInv
<1> QED
  BY <1>2, <1>3, EarnedByShare

\* The constants' and variables' types hold in every reachable state
\* (AutonomyLedger, prune).
THEOREM RecordIsWellFormed ==
    RecordSpec => []RecordTypeOK
<1>1. RecordInit => RecordInv
  BY RecordBegins
<1>2. RecordInv /\ [RecordNext]_recordVars => RecordInv'
  BY RecordGoesOn
<1>3. RecordInv => RecordTypeOK
  BY DEF RecordInv
<1> QED
  BY <1>1, <1>2, <1>3, PTL DEF RecordSpec

\* Who acts alone has been told so often enough and of late, by all that people
\* decided and not only by what retention left on file, unless a decision was
\* lost (verdict, prune).
THEOREM AuthorityIsAlwaysEarned ==
    RecordSpec => []AuthorityIsEarned
<1>1. RecordInit => RecordInv
  BY RecordBegins
<1>2. RecordInv /\ [RecordNext]_recordVars => RecordInv'
  BY RecordGoesOn
<1>3. RecordInv => AuthorityIsEarned
  BY RecordInvEarns
<1> QED
  BY <1>1, <1>2, <1>3, PTL DEF RecordSpec

\* Who acts alone has that many decisions of the last days behind it, and the
\* agreement that many take: whatever rows were lost.
Founded(c) ==
    LET lately == Lately(c, WindowDays)
        yes == {i \in lately : decided[i].agreed}
    IN  /\ Cardinality(lately) >= MinDecisions
        /\ 100 * Cardinality(yes) >= PromoteAt * MinDecisions

NeverUnfounded == \A c \in Capability : ActsAlone(c) => Founded(c)

LEMMA MoreIsMore ==
    ASSUME NEW k \in Nat, NEW m \in Nat, NEW n \in Nat, m <= n
    PROVE  k * m <= k * n
<1>1. PICK d \in Nat : n = m + d
  <2>1. n - m \in Nat /\ n = m + (n - m)
    OBVIOUS
  <2> QED
    BY <2>1
<1>2. k * n = k * m + k * d /\ k * d \in Nat /\ k * m \in Nat
  BY <1>1
<1> QED
  BY <1>2

LEMMA RecordInvFounds ==
    ASSUME RecordInv
    PROVE  NeverUnfounded
<1> SUFFICES ASSUME NEW c \in Capability, ActsAlone(c)
             PROVE  Founded(c)
  BY DEF NeverUnfounded
<1> DEFINE rows == Rows(ledger, c)
           onFile == {i \in rows : decided[i].agreed}
           lately == Lately(c, WindowDays)
           yes == {i \in lately : decided[i].agreed}
<1>1. rows \subseteq lately /\ onFile \subseteq yes /\ yes \subseteq lately
  BY DEF RecordInv, RecordTypeOK, Rows, Lately
<1>2. IsFiniteSet(lately)
  <2>1. DOMAIN decided = 1 .. Len(decided) /\ Len(decided) \in Nat
    BY LenProperties DEF RecordInv, RecordTypeOK
  <2>2. IsFiniteSet(DOMAIN decided)
    BY <2>1, FS_Interval
  <2>3. lately \subseteq DOMAIN decided
    BY DEF Lately
  <2> QED
    BY <2>2, <2>3, FS_Subset
<1>3. /\ Cardinality(rows) \in Nat /\ Cardinality(lately) \in Nat
      /\ Cardinality(rows) <= Cardinality(lately)
  BY <1>1, <1>2, FS_Subset, FS_CardinalityType
<1>4. IsFiniteSet(yes)
  BY <1>1, <1>2, FS_Subset
<1>5. /\ Cardinality(onFile) \in Nat /\ Cardinality(yes) \in Nat
      /\ Cardinality(onFile) <= Cardinality(yes)
  BY <1>1, <1>4, FS_Subset, FS_CardinalityType
<1>6. /\ Cardinality(rows) >= MinDecisions
      /\ 100 * Cardinality(onFile) >= PromoteAt * Cardinality(rows)
  BY EarnedByShare
<1>7. MinDecisions \in Nat /\ PromoteAt \in Nat
  BY AutonomyAssumption
<1> HIDE DEF rows, onFile, lately, yes
<1>8. PromoteAt * MinDecisions <= PromoteAt * Cardinality(rows)
  BY <1>3, <1>6, <1>7, MoreIsMore
<1>9. PromoteAt * MinDecisions \in Int /\ PromoteAt * Cardinality(rows) \in Int
  BY <1>3, <1>7
<1>10. 100 * Cardinality(yes) >= PromoteAt * MinDecisions
  BY <1>5, <1>6, <1>8, <1>9
<1> QED
  BY <1>3, <1>6, <1>7, <1>10 DEF Founded, lately, yes

\* Decisions that were lost, or a file that was written over, make nobody act
\* alone without a record of people's agreement (record, prune).
THEOREM AuthorityIsNeverUnfounded ==
    RecordSpec => []NeverUnfounded
<1>1. RecordInit => RecordInv
  BY RecordBegins
<1>2. RecordInv /\ [RecordNext]_recordVars => RecordInv'
  BY RecordGoesOn
<1>3. RecordInv => NeverUnfounded
  BY RecordInvFounds
<1> QED
  BY <1>1, <1>2, <1>3, PTL DEF RecordSpec
=================================================================================
