---------------------------- MODULE SyntaxProofs ----------------------------
(***************************************************************************)
(* What the operations of crates/h11r/src/wire.rs on Host values and on    *)
(* lists of header fields do, for all values and lists.                    *)
(***************************************************************************)
EXTENDS Syntax, SequenceTheorems, WellFoundedInduction, TLAPS

----------------------------------------------------------------------------
(* Induction.  Proofs by induction are proofs by a least counterexample.   *)

(* A set of numbers that is not empty has a least one.                     *)
LEMMA LeastNumber ==
    ASSUME NEW T \in SUBSET Nat, T # {}
    PROVE  \E x \in T : \A y \in T : x <= y
<1> DEFINE R == OpToRel(<, Nat)
<1>1. IsWellFoundedOn(R, Nat)
  BY NatLessThanWellFounded, Zenon
<1>2. \A y, x \in Nat : y < x => <<y, x>> \in R
  BY DEF OpToRel
<1> HIDE DEF R
<1>3. PICK x \in T : \A y \in T : ~(<<y, x>> \in R)
  BY <1>1, WFMin, Zenon
<1>4. ASSUME NEW y \in T PROVE x <= y
  <2>1. x \in Nat /\ y \in Nat
    OBVIOUS
  <2>2. ~(y < x)
    BY <1>2, <1>3, <2>1, Zenon
  <2> QED BY <2>1, <2>2
<1> QED BY <1>4

(* A set of numbers with 0 and with every successor has all of them.       *)
LEMMA AllNumbers ==
    ASSUME NEW P \in SUBSET Nat, 0 \in P, \A n \in P : n + 1 \in P
    PROVE  P = Nat
<1> SUFFICES ASSUME Nat \ P # {} PROVE FALSE
  BY Zenon
<1>1. PICK x \in Nat \ P : \A y \in Nat \ P : x <= y
  BY LeastNumber, Zenon
<1>2. x # 0 /\ x - 1 \in Nat /\ ~(x <= x - 1)
  BY <1>1
<1>3. x - 1 \in P
  BY <1>1, <1>2
<1>4. (x - 1) + 1 = x
  BY <1>1
<1> QED BY <1>1, <1>3, <1>4

(* The least element of a set of numbers.                                  *)
LEMMA MinIsLeast ==
    ASSUME NEW S \in SUBSET Nat, S # {}
    PROVE  Min(S) \in S /\ \A y \in S : Min(S) <= y
BY LeastNumber, Zenon DEF Min

(* A part of a sequence.                                                   *)
LEMMA Cut ==
    ASSUME NEW S, NEW s \in Seq(S), NEW i \in 1..(Len(s) + 1), NEW j \in (i - 1)..Len(s)
    PROVE  /\ SubSeq(s, i, j) \in Seq(S)
           /\ Len(SubSeq(s, i, j)) = j - i + 1
           /\ \A k \in 1..(j - i + 1) : SubSeq(s, i, j)[k] = s[i + k - 1]
<1>1. Len(s) \in Nat
  OBVIOUS
<1>2. i \in Int /\ j \in Int /\ i - 1 <= j /\ 1 <= i /\ j <= Len(s)
  BY <1>1
<1>3. \A k \in i..j : s[k] \in S
  BY <1>1, <1>2, ElementOfSeq
<1>4. /\ SubSeq(s, i, j) \in Seq(S)
      /\ Len(SubSeq(s, i, j)) = IF i <= j THEN j - i + 1 ELSE 0
      /\ \A k \in 1..(j - i + 1) : SubSeq(s, i, j)[k] = s[i + k - 1]
  BY <1>2, <1>3, SubSeqProperties
<1>5. (IF i <= j THEN j - i + 1 ELSE 0) = j - i + 1
  BY <1>2
<1> QED BY <1>4, <1>5

(* Two cuts with the same elements are the same.                           *)
LEMMA SameCut ==
    ASSUME NEW S, NEW s \in Seq(S), NEW i \in 1..(Len(s) + 1), NEW j \in (i - 1)..Len(s),
           NEW t \in Seq(S), NEW h \in 1..(Len(t) + 1), NEW g \in (h - 1)..Len(t),
           j - i = g - h, \A k \in 1..(j - i + 1) : s[i + k - 1] = t[h + k - 1]
    PROVE  SubSeq(s, i, j) = SubSeq(t, h, g)
<1> DEFINE a == SubSeq(s, i, j)
           b == SubSeq(t, h, g)
<1>1. /\ a \in Seq(S) /\ Len(a) = j - i + 1
      /\ \A k \in 1..(j - i + 1) : a[k] = s[i + k - 1]
  BY Cut
<1>2. /\ b \in Seq(S) /\ Len(b) = g - h + 1
      /\ \A k \in 1..(g - h + 1) : b[k] = t[h + k - 1]
  BY Cut
<1>3. j - i + 1 = g - h + 1
  OBVIOUS
<1> HIDE DEF a, b
<1>4. Len(a) = Len(b) /\ \A k \in 1..Len(a) : a[k] = b[k]
  BY <1>1, <1>2, <1>3, Zenon
<1>5. a = b
  BY <1>1, <1>2, <1>4, SeqEqual
<1> QED BY <1>5 DEF a, b

----------------------------------------------------------------------------
(* Induction over sequences.                                               *)

(* A sequence to which x is appended.                                      *)
LEMMA Appended ==
    ASSUME NEW T, NEW t \in Seq(T), NEW x \in T
    PROVE  /\ Append(t, x) \in Seq(T)
           /\ Len(Append(t, x)) = Len(t) + 1
           /\ Append(t, x)[Len(t) + 1] = x
           /\ \A k \in 1..Len(t) : Append(t, x)[k] = t[k]
BY AppendProperties

(* A set of sequences with the empty one and with every sequence that is   *)
(* one element longer has all of them.                                     *)
LEMMA AllSequences ==
    ASSUME NEW T, NEW P \in SUBSET Seq(T), <<>> \in P,
           \A s \in P : \A x \in T : Append(s, x) \in P
    PROVE  P = Seq(T)
<1> DEFINE N == {n \in Nat : \A s \in Seq(T) : Len(s) = n => s \in P}
<1>1. 0 \in N
  <2>1. \A s \in Seq(T) : Len(s) = 0 => s = <<>>
    BY EmptySeq
  <2> QED BY <2>1
<1>2. ASSUME NEW n \in N PROVE n + 1 \in N
  <2>1. n \in Nat /\ n + 1 \in Nat /\ (n + 1) - 1 = n
    BY <1>2
  <2>2. ASSUME NEW s \in Seq(T), Len(s) = n + 1 PROVE s \in P
    <3> DEFINE t == SubSeq(s, 1, n)
    <3>1. /\ t \in Seq(T) /\ Len(t) = n /\ \A k \in 1..n : t[k] = s[k]
      <4>1. 1 \in 1..(Len(s) + 1) /\ n \in (1 - 1)..Len(s) /\ n - 1 + 1 = n
        BY <2>1, <2>2
      <4>2. /\ t \in Seq(T) /\ Len(t) = n - 1 + 1
            /\ \A k \in 1..(n - 1 + 1) : t[k] = s[1 + k - 1]
        BY <4>1, Cut
      <4>3. \A k \in 1..n : 1 + k - 1 = k
        BY <2>1
      <4> QED BY <4>1, <4>2, <4>3, Zenon
    <3> HIDE DEF t
    <3>2. t \in P
      BY <1>2, <3>1
    <3>3. PICK x \in T : x = s[n + 1]
      BY <2>1, <2>2
    <3>4. PICK a : a = Append(t, x)
      BY Zenon
    <3>5. /\ a \in Seq(T) /\ Len(a) = Len(t) + 1 /\ a[Len(t) + 1] = x
          /\ \A k \in 1..Len(t) : a[k] = t[k]
      BY <3>1, <3>4, Appended
    <3>6. \A k \in 1..(n + 1) : k \in 1..n \/ k = n + 1
      BY <2>1
    <3>7. a \in P
      BY <3>2, <3>4
    <3>8. \A k \in 1..(n + 1) : a[k] = s[k]
      BY <3>1, <3>3, <3>5, <3>6, Zenon
    <3>9. a = s
      BY <2>2, <3>1, <3>5, <3>8, SeqEqual
    <3> QED BY <3>7, <3>9
  <2> QED BY <2>1, <2>2
<1>3. N \in SUBSET Nat
  OBVIOUS
<1> HIDE DEF N
<1>4. N = Nat
  BY <1>1, <1>2, <1>3, AllNumbers
<1>5. ASSUME NEW s \in Seq(T) PROVE s \in P
  <2>1. Len(s) \in N
    BY <1>4
  <2> QED BY <2>1 DEF N
<1> QED BY <1>5, Zenon

(* A function that is given by its value at 0 and by a step from each      *)
(* place to the next.                                                      *)
Iterates(f, n, z, G, V) ==
    /\ f \in [0..n -> V]
    /\ f[0] = z
    /\ \A i \in 1..n : f[i] = G[i][f[i - 1]]

(* There is such a function.                                               *)
LEMMA Iteration ==
    ASSUME NEW V, NEW z \in V, NEW n \in Nat, NEW G \in [1..n -> [V -> V]]
    PROVE  \E f : Iterates(f, n, z, G, V)
<1> DEFINE IsUpTo(f, k) == f[0] = z /\ \A i \in 1..k : f[i] = G[i][f[i - 1]]
           N == {k \in Nat : k <= n => \E f \in [0..k -> V] : IsUpTo(f, k)}
<1>1. 0 \in N
  <2> DEFINE f == [i \in 0..0 |-> z]
  <2>1. f \in [0..0 -> V] /\ IsUpTo(f, 0)
    OBVIOUS
  <2> QED BY <2>1, Zenon
<1>2. ASSUME NEW k \in N PROVE k + 1 \in N
  <2>0. k \in Nat /\ k + 1 \in Nat
    BY <1>2
  <2> SUFFICES ASSUME k + 1 <= n PROVE \E f \in [0..(k + 1) -> V] : IsUpTo(f, k + 1)
    BY <2>0
  <2>1. k <= n
    BY <2>0
  <2>2. PICK f \in [0..k -> V] : IsUpTo(f, k)
    BY <1>2, <2>1
  <2> DEFINE g == [i \in 0..(k + 1) |-> IF i = k + 1 THEN G[k + 1][f[k]] ELSE f[i]]
  <2>3. G[k + 1][f[k]] \in V
    <3>1. k \in 0..k /\ k + 1 \in 1..n
      BY <2>0
    <3> QED BY <2>2, <3>1
  <2>4. g \in [0..(k + 1) -> V]
    <3>1. \A i \in 0..(k + 1) : i # k + 1 => i \in 0..k
      BY <2>0
    <3> QED BY <2>2, <2>3, <3>1
  <2>5. g[k + 1] = G[k + 1][f[k]] /\ \A i \in 0..k : g[i] = f[i]
    BY <2>0
  <2> HIDE DEF g
  <2>6. g[0] = z
    BY <2>0, <2>2, <2>5
  <2>7. ASSUME NEW i \in 1..(k + 1) PROVE g[i] = G[i][g[i - 1]]
    <3>1. i - 1 \in 0..k
      BY <2>0
    <3>2. CASE i = k + 1
      BY <2>0, <2>5, <3>2
    <3>3. CASE i # k + 1
      <4>1. i \in 1..k /\ i \in 0..k
        BY <2>0, <3>3
      <4> QED BY <2>2, <2>5, <3>1, <4>1
    <3> QED BY <3>2, <3>3
  <2> QED BY <2>4, <2>6, <2>7, Zenon
<1>3. N \in SUBSET Nat
  OBVIOUS
<1>4. n \in N
  <2> HIDE DEF N
  <2>1. N = Nat
    BY <1>1, <1>2, <1>3, AllNumbers
  <2> QED BY <2>1
<1> QED BY <1>4 DEF Iterates

Follows(g, n, z, G, V) == g[0] = z /\ \A i \in 1..n : g[i - 1] \in V => g[i] = G[i][g[i - 1]]

Agree(g, f, n) == \A i \in 0..n : g[i] = f[i]

(* There is only one.                                                      *)
LEMMA OneIteration ==
    ASSUME NEW V, NEW z, NEW n \in Nat, NEW G, NEW f, Iterates(f, n, z, G, V),
           NEW g, Follows(g, n, z, G, V)
    PROVE  Agree(g, f, n)
<1> DEFINE N == {k \in Nat : k <= n => g[k] = f[k]}
<1>1. 0 \in N
  BY DEF Iterates, Follows
<1>2. ASSUME NEW k \in N PROVE k + 1 \in N
  <2>1. k \in Nat /\ k + 1 \in Nat /\ (k + 1) - 1 = k
    BY <1>2
  <2>2. ASSUME k + 1 <= n PROVE g[k + 1] = f[k + 1]
    <3>1. k <= n /\ k \in 0..n /\ k + 1 \in 1..n
      BY <2>1, <2>2
    <3>2. g[k] = f[k] /\ f[k] \in V
      BY <1>2, <3>1 DEF Iterates
    <3> HIDE DEF N
    <3>3. g[k + 1] = G[k + 1][g[k]]
      BY <2>1, <3>1, <3>2 DEF Follows
    <3>4. f[k + 1] = G[k + 1][f[k]]
      BY <2>1, <3>1 DEF Iterates
    <3> QED BY <3>2, <3>3, <3>4
  <2> QED BY <2>1, <2>2
<1>3. N \in SUBSET Nat
  OBVIOUS
<1> HIDE DEF N
<1>4. N = Nat
  BY <1>1, <1>2, <1>3, AllNumbers
<1>5. ASSUME NEW i \in 0..n PROVE g[i] = f[i]
  <2>1. i \in N /\ i <= n
    BY <1>4
  <2> QED BY <2>1 DEF N
<1> QED BY <1>5 DEF Agree

----------------------------------------------------------------------------
(* Host values.                                                            *)

(* What the grammar says of the byte at i of a registered name.            *)
Encoded(s, i) ==
    \/ s[i] \in NameByte
    \/ s[i] = "%" /\ \A j \in {i + 1, i + 2} : j \in DOMAIN s /\ s[j] \in HexByte

(* One turn of the loop of valid_percent_encoded.                          *)
EncodedStep(s, f, k) ==
    \/ k > Len(s)
    \/ /\ s[k] = "%" /\ k + 2 <= Len(s)
       /\ s[k + 1] \in HexByte /\ s[k + 2] \in HexByte
       /\ f[k + 3]
    \/ s[k] \in NameByte /\ f[k + 1]

(* If the scan is right behind k, it is right at k.                        *)
LEMMA EncodedFrom ==
    ASSUME NEW s \in Seq(HostByte), NEW k \in 1..(Len(s) + 1), NEW f,
           \A l \in (k + 1)..(Len(s) + 1) : f[l] <=> \A i \in l..Len(s) : Encoded(s, i)
    PROVE  EncodedStep(s, f, k) <=> \A i \in k..Len(s) : Encoded(s, i)
<1> DEFINE Good(l) == \A i \in l..Len(s) : Encoded(s, i)
<1>0. Len(s) \in Nat /\ k \in Nat /\ DOMAIN s = 1..Len(s)
  OBVIOUS
<1>1. CASE k > Len(s)
  BY <1>0, <1>1 DEF EncodedStep
<1>2. CASE ~(k > Len(s))
  <2>1. Good(k) <=> Encoded(s, k) /\ Good(k + 1)
    BY <1>0, <1>2
  <2>2. f[k + 1] <=> Good(k + 1)
    BY <1>0, <1>2
  <2>3. CASE s[k] \in NameByte
    <3>1. s[k] # "%"
      BY <2>3 DEF NameByte, is_unreserved, is_sub_delim, HexByte, Digit
    <3>2. EncodedStep(s, f, k) <=> f[k + 1]
      BY <1>2, <2>3, <3>1 DEF EncodedStep
    <3> QED BY <2>1, <2>2, <2>3, <3>2, Zenon DEF Encoded
  <2>4. CASE s[k] \notin NameByte
    <3> DEFINE Digits == /\ s[k] = "%" /\ k + 2 <= Len(s)
                         /\ s[k + 1] \in HexByte /\ s[k + 2] \in HexByte
    <3>1. Encoded(s, k) <=> Digits
      BY <1>0, <2>4 DEF Encoded
    <3>2. ASSUME Digits PROVE f[k + 3] <=> Good(k + 1)
      <4>1. k + 3 \in (k + 1)..(Len(s) + 1)
        BY <1>0, <3>2
      <4>2. f[k + 3] <=> Good(k + 3)
        BY <4>1
      <4>3. Encoded(s, k + 1) /\ Encoded(s, k + 2)
        BY <3>2 DEF Encoded, NameByte, is_unreserved
      <4>4. \A i \in (k + 1)..Len(s) : i = k + 1 \/ i = k + 2 \/ i \in (k + 3)..Len(s)
        BY <1>0
      <4>5. \A i \in (k + 3)..Len(s) : i \in (k + 1)..Len(s)
        BY <1>0
      <4> QED BY <4>2, <4>3, <4>4, <4>5, Zenon
    <3>3. EncodedStep(s, f, k) <=> Digits /\ f[k + 3]
      BY <1>2, <2>4, Zenon DEF EncodedStep
    <3> QED BY <2>1, <3>1, <3>2, <3>3, Zenon
  <2> QED BY <2>3, <2>4
<1> QED BY <1>1, <1>2

(* valid_percent_encoded accepts the registered names of RFC 3986.         *)
LEMMA PercentEncoded ==
    ASSUME NEW s \in Seq(HostByte)
    PROVE  valid_percent_encoded(s) <=> RegName(s)
<1> DEFINE D == 1..(Len(s) + 1)
           Valid == CHOOSE f : f = [k \in D |-> EncodedStep(s, f, k)]
           Good(k) == \A i \in k..Len(s) : Encoded(s, i)
           g == [k \in D |-> Good(k)]
<1>0. Len(s) \in Nat
  OBVIOUS
<1>1. \A k \in D : g[k] <=> Good(k)
  OBVIOUS
<1>2. ASSUME NEW k \in D PROVE EncodedStep(s, g, k) <=> Good(k)
  <2>1. \A l \in (k + 1)..(Len(s) + 1) : l \in D
    BY <1>0
  <2>2. \A l \in (k + 1)..(Len(s) + 1) : g[l] <=> Good(l)
    BY <1>1, <2>1, Zenon
  <2> HIDE DEF g
  <2> QED BY <2>2, EncodedFrom
<1>3. g = [k \in D |-> EncodedStep(s, g, k)]
  <2>1. \A k \in D : Good(k) = EncodedStep(s, g, k)
    <3> HIDE DEF g, D
    <3> QED BY <1>2, Zenon DEF EncodedStep
  <2> DEFINE h == [k \in D |-> EncodedStep(s, g, k)]
  <2> HIDE DEF D, Good
  <2> QED BY <2>1, Zenon
<1>4. Valid = [k \in D |-> EncodedStep(s, Valid, k)]
  <2> HIDE DEF g, D
  <2> QED BY <1>3, Zenon
<1>5. valid_percent_encoded(s) <=> Valid[1]
  BY DEF valid_percent_encoded, EncodedStep
<1> HIDE DEF Valid
<1>6. \A k \in D : Valid[k] <=> EncodedStep(s, Valid, k)
  <2> HIDE DEF D
  <2> QED BY <1>4, Zenon
<1> DEFINE N == {n \in Nat : \A k \in D : Len(s) + 1 - k <= n => (Valid[k] <=> Good(k))}
<1>7. ASSUME NEW k \in D, \A l \in (k + 1)..(Len(s) + 1) : Valid[l] <=> Good(l)
      PROVE  Valid[k] <=> Good(k)
  BY <1>6, <1>7, EncodedFrom
<1>8. 0 \in N
  <2> SUFFICES ASSUME NEW k \in D, Len(s) + 1 - k <= 0 PROVE Valid[k] <=> Good(k)
    OBVIOUS
  <2>1. \A l \in (k + 1)..(Len(s) + 1) : FALSE
    BY <1>0
  <2> QED BY <1>7, <2>1, Zenon
<1>9. ASSUME NEW n \in N PROVE n + 1 \in N
  <2> SUFFICES ASSUME NEW k \in D, Len(s) + 1 - k <= n + 1 PROVE Valid[k] <=> Good(k)
    BY <1>9
  <2>1. n \in Nat /\ k \in Nat
    BY <1>9
  <2>2. \A l \in (k + 1)..(Len(s) + 1) : l \in D /\ Len(s) + 1 - l <= n
    BY <1>0, <2>1
  <2>3. \A l \in (k + 1)..(Len(s) + 1) : Valid[l] <=> Good(l)
    BY <1>9, <2>2, Zenon
  <2> QED BY <1>7, <2>3, Zenon
<1>10. N \in SUBSET Nat
  OBVIOUS
<1>11. Len(s) \in N
  <2> HIDE DEF N
  <2>1. N = Nat
    BY <1>8, <1>9, <1>10, AllNumbers
  <2> QED BY <1>0, <2>1
<1>12. 1 \in D /\ Len(s) + 1 - 1 <= Len(s)
  BY <1>0
<1>13. Valid[1] <=> Good(1)
  BY <1>11, <1>12
<1>14. Good(1) <=> RegName(s)
  <2>1. DOMAIN s = 1..Len(s)
    OBVIOUS
  <2> QED BY <2>1, Zenon DEF RegName, Encoded
<1> QED BY <1>5, <1>13, <1>14, Zenon

(* Position gives the first place of the byte, or 0.                       *)
LEMMA PositionFacts ==
    ASSUME NEW s \in Seq(HostByte), NEW byte
    PROVE  LET p == Position(s, byte) IN
           \/ p = 0 /\ \A i \in 1..Len(s) : s[i] # byte
           \/ p \in 1..Len(s) /\ s[p] = byte /\ \A i \in 1..(p - 1) : s[i] # byte
<1> DEFINE found == {i \in DOMAIN s : s[i] = byte}
           p == Position(s, byte)
<1>1. p = IF found = {} THEN 0 ELSE Min(found)
  BY DEF Position
<1>2. found \in SUBSET Nat /\ Len(s) \in Nat /\ DOMAIN s = 1..Len(s)
  OBVIOUS
<1>3. CASE found = {}
  BY <1>1, <1>2, <1>3
<1>4. CASE found # {}
  <2>1. p \in found /\ \A i \in found : p <= i
    BY <1>1, <1>2, <1>4, MinIsLeast, Zenon
  <2>2. p \in 1..Len(s) /\ s[p] = byte
    BY <1>2, <2>1
  <2>3. ASSUME NEW i \in 1..(p - 1) PROVE s[i] # byte
    <3>1. i \in 1..Len(s) /\ ~(p <= i)
      BY <1>2, <2>2
    <3> QED BY <1>2, <2>1, <3>1
  <2> QED BY <2>2, <2>3
<1> QED BY <1>3, <1>4

(* The first place is the only one with nothing before it.                 *)
LEMMA PositionIs ==
    ASSUME NEW s \in Seq(HostByte), NEW byte, NEW i \in 1..Len(s), s[i] = byte,
           \A k \in 1..(i - 1) : s[k] # byte
    PROVE  Position(s, byte) = i
<1> DEFINE p == Position(s, byte)
<1> HIDE DEF p
<1>1. \/ p = 0 /\ \A k \in 1..Len(s) : s[k] # byte
      \/ p \in 1..Len(s) /\ s[p] = byte /\ \A k \in 1..(p - 1) : s[k] # byte
  BY PositionFacts DEF p
<1>2. p \in 1..Len(s) /\ s[p] = byte /\ \A k \in 1..(p - 1) : s[k] # byte
  BY <1>1, Zenon
<1>3. Len(s) \in Nat /\ p \in Nat /\ i \in Nat /\ 1 <= p /\ 1 <= i
  BY <1>2
<1>4. ~(p < i)
  <2>1. p < i => p \in 1..(i - 1)
    BY <1>3
  <2> QED BY <1>2, <2>1, Zenon
<1>5. ~(i < p)
  <2>1. i < p => i \in 1..(p - 1)
    BY <1>3
  <2> QED BY <1>2, <2>1, Zenon
<1>6. p = i
  BY <1>3, <1>4, <1>5
<1> QED BY <1>6 DEF p

(* A part of a Host value.                                                 *)
LEMMA PieceFacts ==
    ASSUME NEW s \in Seq(HostByte), NEW i \in 1..(Len(s) + 1), NEW j \in (i - 1)..Len(s)
    PROVE  /\ SubSeq(s, i, j) \in Seq(HostByte)
           /\ Len(SubSeq(s, i, j)) = j - i + 1
           /\ \A k \in 1..(j - i + 1) : SubSeq(s, i, j)[k] = s[i + k - 1]
           /\ \A class : Within(SubSeq(s, i, j), class) <=> \A k \in i..j : s[k] \in class
<1> DEFINE t == SubSeq(s, i, j)
<1>1. /\ t \in Seq(HostByte) /\ Len(t) = j - i + 1
      /\ \A k \in 1..(j - i + 1) : t[k] = s[i + k - 1]
  BY Cut
<1> HIDE DEF t
<1>2. Len(s) \in Nat /\ DOMAIN t = 1..(j - i + 1) /\ i \in Nat /\ j \in Int
  BY <1>1
<1>3. ASSUME NEW class PROVE Within(t, class) <=> \A k \in i..j : s[k] \in class
  <2>1. \A k \in i..j : k - i + 1 \in 1..(j - i + 1) /\ i + (k - i + 1) - 1 = k
    BY <1>2
  <2>2. \A k \in 1..(j - i + 1) : i + k - 1 \in i..j
    BY <1>2
  <2>3. \A k \in i..j : t[k - i + 1] = s[k]
    BY <1>1, <2>1
  <2>4. ASSUME Within(t, class), NEW k \in i..j PROVE s[k] \in class
    <3>1. t[k - i + 1] \in class
      BY <1>2, <2>1, <2>4, Zenon DEF Within
    <3> QED BY <2>3, <3>1
  <2>5. ASSUME \A k \in i..j : s[k] \in class PROVE Within(t, class)
    BY <1>1, <1>2, <2>2, <2>5, Zenon DEF Within
  <2> QED BY <2>4, <2>5
<1> QED BY <1>1, <1>3 DEF t

(* The part in front of i.                                                 *)
LEMMA BeforeFacts ==
    ASSUME NEW s \in Seq(HostByte), NEW i \in 1..(Len(s) + 1)
    PROVE  /\ Before(s, i) \in Seq(HostByte)
           /\ Len(Before(s, i)) = i - 1
           /\ \A k \in 1..(i - 1) : Before(s, i)[k] = s[k]
           /\ \A class : Within(Before(s, i), class) <=> \A k \in 1..(i - 1) : s[k] \in class
<1>1. Len(s) \in Nat /\ i \in Nat /\ 1 \in 1..(Len(s) + 1) /\ i - 1 \in (1 - 1)..Len(s)
  OBVIOUS
<1>2. (i - 1) - 1 + 1 = i - 1 /\ \A k \in 1..(i - 1) : 1 + k - 1 = k
  BY <1>1
<1>3. /\ Before(s, i) \in Seq(HostByte)
      /\ Len(Before(s, i)) = (i - 1) - 1 + 1
      /\ \A k \in 1..((i - 1) - 1 + 1) : Before(s, i)[k] = s[1 + k - 1]
      /\ \A class : Within(Before(s, i), class) <=> \A k \in 1..(i - 1) : s[k] \in class
  BY <1>1, PieceFacts, Zenon DEF Before
<1> QED BY <1>2, <1>3

(* The part behind i.                                                      *)
LEMMA AfterFacts ==
    ASSUME NEW s \in Seq(HostByte), NEW i \in 0..Len(s)
    PROVE  /\ After(s, i) \in Seq(HostByte)
           /\ Len(After(s, i)) = Len(s) - i
           /\ \A k \in 1..(Len(s) - i) : After(s, i)[k] = s[i + k]
           /\ \A class : Within(After(s, i), class) <=> \A k \in (i + 1)..Len(s) : s[k] \in class
<1>1. Len(s) \in Nat /\ i \in Nat /\ i + 1 \in 1..(Len(s) + 1) /\ Len(s) \in ((i + 1) - 1)..Len(s)
  OBVIOUS
<1>2. Len(s) - (i + 1) + 1 = Len(s) - i /\ \A k \in 1..(Len(s) - i) : (i + 1) + k - 1 = i + k
  BY <1>1
<1>3. /\ After(s, i) \in Seq(HostByte)
      /\ Len(After(s, i)) = Len(s) - (i + 1) + 1
      /\ \A k \in 1..(Len(s) - (i + 1) + 1) : After(s, i)[k] = s[(i + 1) + k - 1]
      /\ \A class : Within(After(s, i), class) <=> \A k \in (i + 1)..Len(s) : s[k] \in class
  BY <1>1, PieceFacts, Zenon DEF After
<1> QED BY <1>2, <1>3

Literal(s) == Ipv6Addr(s) \/ IpFuture(s)

(* valid_ip_literal accepts the literals of the grammar.                   *)
LEMMA IpLiteral ==
    ASSUME NEW s \in Seq(HostByte)
    PROVE  valid_ip_literal(s) <=> Literal(s)
<1> DEFINE dot == Position(s, ".")
           Ending(i) == Within(After(s, i), NameByte \cup {":"})
           Hex(i) == Within(SubSeq(s, 2, i - 1), HexByte)
           Future == /\ s # <<>> /\ s[1] = "v" /\ dot > 2 /\ Hex(dot)
                     /\ After(s, dot) # <<>> /\ Ending(dot)
<1>0. Len(s) \in Nat /\ (s # <<>> <=> Len(s) # 0)
  BY EmptySeq
<1>1. dot = 0 \/ (dot \in 1..Len(s) /\ s[dot] = ".")
  BY PositionFacts
<1>2. ASSUME Future PROVE IpFuture(s)
  <2> HIDE DEF dot
  <2>1. dot \in 1..Len(s) /\ s[dot] = "." /\ dot > 2
    BY <1>1, <1>2
  <2>2. dot \in 0..Len(s)
    BY <1>0, <2>1
  <2>3. Len(After(s, dot)) = Len(s) - dot /\ After(s, dot) \in Seq(HostByte)
    BY <2>2, AfterFacts, Zenon
  <2>4. Len(s) - dot # 0
    BY <1>2, <2>3, EmptySeq
  <2>5. dot \in 3..(Len(s) - 1)
    BY <1>0, <2>1, <2>4
  <2> QED BY <1>2, <2>1, <2>5, Zenon DEF IpFuture
<1>3. ASSUME IpFuture(s) PROVE Future
  <2>1. PICK i \in 3..(Len(s) - 1) : s[1] = "v" /\ s[i] = "." /\ Hex(i) /\ Ending(i)
    BY <1>3, Zenon DEF IpFuture
  <2>2. /\ i \in 1..Len(s) /\ i \in 0..Len(s) /\ i > 2 /\ Len(s) - i # 0 /\ Len(s) # 0
        /\ 2 \in 1..(Len(s) + 1) /\ i - 1 \in (2 - 1)..Len(s)
    BY <1>0, <2>1
  <2>3. \A k \in 2..(i - 1) : s[k] \in HexByte
    BY <2>1, <2>2, PieceFacts, Zenon
  <2>4. "." \notin HexByte
    BY DEF HexByte, Digit
  <2>5. \A k \in 1..(i - 1) : k = 1 \/ k \in 2..(i - 1)
    BY <2>2
  <2>6. \A k \in 1..(i - 1) : s[k] # "."
    BY <2>1, <2>3, <2>4, <2>5
  <2>7. dot = i
    BY <2>1, <2>2, <2>6, PositionIs, Zenon
  <2>8. Len(After(s, i)) = Len(s) - i
    BY <2>2, AfterFacts, Zenon
  <2>9. After(s, i) # <<>>
    BY <2>2, <2>8
  <2> HIDE DEF dot
  <2> QED BY <1>0, <2>1, <2>2, <2>7, <2>9, Zenon
<1>4. valid_ip_literal(s) <=> Ipv6Addr(s) \/ Future
  BY Zenon DEF valid_ip_literal
<1> QED BY <1>2, <1>3, <1>4, Zenon DEF Literal

(* A literal has no closing bracket in it.                                 *)
LEMMA LiteralBytes ==
    ASSUME NEW s \in Seq(HostByte), Literal(s), NEW k \in 1..Len(s)
    PROVE  s[k] # "]"
<1> DEFINE class == NameByte \cup {":"}
<1>0. Len(s) \in Nat /\ "]" \notin class /\ HexByte \cup {":"} \subseteq class /\ k \in Nat
  BY DEF HexByte, Digit, NameByte, is_unreserved, is_sub_delim
<1>1. CASE Ipv6Addr(s)
  <2>1. PICK i \in 1..(Len(s) - 1) :
            s[i] = ":" /\ s[i + 1] = ":" /\ Groups(Before(s, i)) /\ Groups(After(s, i + 1))
    BY <1>1, Zenon DEF Ipv6Addr
  <2>2. i \in 1..(Len(s) + 1) /\ i + 1 \in 0..Len(s)
    BY <1>0
  <2>3. Within(Before(s, i), HexByte \cup {":"}) /\ Within(After(s, i + 1), HexByte \cup {":"})
    BY <2>1, Zenon DEF Groups
  <2>4. /\ \A j \in 1..(i - 1) : s[j] \in HexByte \cup {":"}
        /\ \A j \in ((i + 1) + 1)..Len(s) : s[j] \in HexByte \cup {":"}
    BY <2>2, <2>3, BeforeFacts, AfterFacts, Zenon
  <2>5. k \in 1..(i - 1) \/ k = i \/ k = i + 1 \/ k \in ((i + 1) + 1)..Len(s)
    BY <1>0, <2>2
  <2> HIDE DEF class
  <2>6. s[k] \in class
    <3>1. ":" \in class
      BY DEF class
    <3> QED BY <1>0, <2>1, <2>4, <2>5, <3>1, Zenon
  <2> QED BY <1>0, <2>6
<1>2. CASE IpFuture(s)
  <2>1. PICK i \in 3..(Len(s) - 1) :
            /\ s[1] = "v" /\ s[i] = "." /\ Within(SubSeq(s, 2, i - 1), HexByte)
            /\ Within(After(s, i), class)
    BY <1>2, Zenon DEF IpFuture
  <2>2. 2 \in 1..(Len(s) + 1) /\ i - 1 \in (2 - 1)..Len(s) /\ i \in 0..Len(s)
    BY <1>0
  <2>3. /\ \A j \in 2..(i - 1) : s[j] \in HexByte
        /\ \A j \in (i + 1)..Len(s) : s[j] \in class
    BY <2>1, <2>2, PieceFacts, AfterFacts, Zenon
  <2>4. k = 1 \/ k \in 2..(i - 1) \/ k = i \/ k \in (i + 1)..Len(s)
    BY <1>0, <2>2
  <2>5. "v" \in class /\ "." \in class
    BY DEF NameByte, is_unreserved
  <2> HIDE DEF class
  <2>6. s[k] \in class
    BY <1>0, <2>1, <2>3, <2>4, <2>5
  <2> QED BY <1>0, <2>6
<1> QED BY <1>1, <1>2 DEF Literal

(* The value begins with a literal whose bracket is closed at c.           *)
Closed(s, c) == s[c] = "]" /\ Literal(SubSeq(s, 2, c - 1))

(* The bracket that closes a literal is the first closing bracket.         *)
LEMMA FirstClosed ==
    ASSUME NEW s \in Seq(HostByte), s[1] = "[", NEW c \in 2..Len(s), Closed(s, c)
    PROVE  Position(s, "]") = c
<1>0. /\ Len(s) \in Nat /\ c \in 1..Len(s) /\ 2 \in 1..(Len(s) + 1) /\ c - 1 \in (2 - 1)..Len(s)
      /\ c \in Nat
  OBVIOUS
<1> DEFINE l == SubSeq(s, 2, c - 1)
<1>1. /\ l \in Seq(HostByte) /\ Len(l) = (c - 1) - 2 + 1
      /\ \A k \in 1..((c - 1) - 2 + 1) : l[k] = s[2 + k - 1]
  BY <1>0, PieceFacts, Zenon
<1> HIDE DEF l
<1>2. ASSUME NEW k \in 1..(c - 1) PROVE s[k] # "]"
  <2>1. CASE k = 1
    BY <2>1
  <2>2. CASE k # 1
    <3>1. k - 1 \in 1..((c - 1) - 2 + 1) /\ 2 + (k - 1) - 1 = k
      BY <1>0, <2>2
    <3>2. l[k - 1] = s[k]
      BY <1>1, <3>1
    <3>3. Literal(l)
      BY DEF Closed, l
    <3>4. l[k - 1] # "]"
      BY <1>1, <3>1, <3>3, LiteralBytes
    <3> QED BY <3>2, <3>4
  <2> QED BY <2>1, <2>2
<1>3. s[c] = "]"
  BY DEF Closed
<1> QED BY <1>0, <1>2, <1>3, PositionIs

(* From i on there is a port.                                              *)
Port(s, i) == s[i] = ":" /\ \A k \in (i + 1)..Len(s) : s[k] \in Digit

(* valid_authority and the grammar on a value that begins with a bracket.  *)
LEMMA BracketIsScanned ==
    ASSUME NEW s \in Seq(HostByte), s # <<>>, s[1] = "["
    PROVE  valid_authority(s) <=> \E c \in 2..Len(s) : Closed(s, c) /\ (c = Len(s) \/ Port(s, c + 1))
<1> DEFINE close == Position(s, "]")
           rest == After(s, close)
           Ending(r) == r = <<>> \/ (r[1] = ":" /\ Within(Tail(r), Digit))
<1>0. Len(s) \in Nat
  OBVIOUS
<1>1. valid_authority(s) <=> /\ close # 0 /\ valid_ip_literal(SubSeq(s, 2, close - 1))
                             /\ Ending(rest)
  BY Zenon DEF valid_authority
<1>2. ASSUME NEW c \in 2..Len(s)
      PROVE  /\ Ending(After(s, c)) <=> c = Len(s) \/ Port(s, c + 1)
             /\ valid_ip_literal(SubSeq(s, 2, c - 1)) <=> Literal(SubSeq(s, 2, c - 1))
  <2>1. c \in 0..Len(s) /\ 2 \in 1..(Len(s) + 1) /\ c - 1 \in (2 - 1)..Len(s) /\ c \in Nat
    BY <1>0
  <2> DEFINE r == After(s, c)
  <2>2. /\ r \in Seq(HostByte) /\ Len(r) = Len(s) - c
        /\ \A k \in 1..(Len(s) - c) : r[k] = s[c + k]
    BY <2>1, AfterFacts, Zenon
  <2>3. SubSeq(s, 2, c - 1) \in Seq(HostByte)
    BY <2>1, PieceFacts, Zenon
  <2> HIDE DEF r
  <2>4. CASE c = Len(s)
    <3>1. r = <<>>
      BY <1>0, <2>2, <2>4, EmptySeq
    <3> QED BY <2>3, <2>4, <3>1, IpLiteral, Zenon DEF r
  <2>5. CASE c # Len(s)
    <3>1. Len(s) - c \in Nat \ {0} /\ c + 1 \in 0..Len(s)
      BY <1>0, <2>1, <2>5
    <3>2. r # <<>> /\ r[1] = s[c + 1]
      BY <2>2, <3>1
    <3>3. /\ Tail(r) \in Seq(HostByte) /\ Len(Tail(r)) = Len(s) - c - 1
          /\ \A k \in 1..(Len(s) - c - 1) : Tail(r)[k] = r[k + 1]
      BY <2>2, <3>1, <3>2, HeadTailProperties
    <3>4. /\ After(s, c + 1) \in Seq(HostByte) /\ Len(After(s, c + 1)) = Len(s) - (c + 1)
          /\ \A k \in 1..(Len(s) - (c + 1)) : After(s, c + 1)[k] = s[(c + 1) + k]
          /\ Within(After(s, c + 1), Digit) <=> \A k \in ((c + 1) + 1)..Len(s) : s[k] \in Digit
      BY <3>1, AfterFacts, Zenon
    <3>5. Len(s) - c - 1 = Len(s) - (c + 1)
      BY <1>0, <2>1
    <3>6. \A k \in 1..(Len(s) - c - 1) :
              k + 1 \in 1..(Len(s) - c) /\ c + (k + 1) = (c + 1) + k
      BY <1>0, <2>1
    <3>7. \A k \in 1..(Len(s) - c - 1) : Tail(r)[k] = After(s, c + 1)[k]
      BY <2>2, <3>3, <3>4, <3>5, <3>6
    <3>8. Tail(r) = After(s, c + 1)
      BY <3>3, <3>4, <3>5, <3>7, SeqEqual, Zenon
    <3>9. Ending(r) <=> Port(s, c + 1)
      BY <3>2, <3>4, <3>8, Zenon DEF Port
    <3> QED BY <2>3, <2>5, <3>9, IpLiteral, Zenon DEF r
  <2> QED BY <2>4, <2>5
<1>3. ASSUME valid_authority(s)
      PROVE  \E c \in 2..Len(s) : Closed(s, c) /\ (c = Len(s) \/ Port(s, c + 1))
  <2>1. close \in 1..Len(s) /\ s[close] = "]"
    BY <1>1, <1>3, PositionFacts
  <2> HIDE DEF close
  <2>2. close \in 2..Len(s)
    <3>1. close # 1
      BY <2>1
    <3> QED BY <1>0, <2>1, <3>1
  <2> QED BY <1>1, <1>2, <1>3, <2>1, <2>2, Zenon DEF Closed
<1>4. ASSUME NEW c \in 2..Len(s), Closed(s, c), c = Len(s) \/ Port(s, c + 1)
      PROVE  valid_authority(s)
  <2>1. close = c
    BY <1>4, FirstClosed, Zenon
  <2>2. c # 0
    BY <1>0
  <2> HIDE DEF close
  <2> QED BY <1>1, <1>2, <1>4, <2>1, <2>2, Zenon DEF Closed
<1> QED BY <1>3, <1>4, Zenon

(* The place behind c.                                                     *)
LEMMA NextPlace ==
    ASSUME NEW n \in Nat, NEW c \in 2..n, c # n
    PROVE  c + 1 \in 1..n /\ c + 1 \in 2..n /\ (c + 1) - 1 = c
OBVIOUS

(* What the grammar says of a value that begins with a bracket.            *)
LEMMA BracketIsWritten ==
    ASSUME NEW s \in Seq(HostByte), s # <<>>, s[1] = "["
    PROVE  HostGrammar(s) <=> \E c \in 2..Len(s) : Closed(s, c) /\ (c = Len(s) \/ Port(s, c + 1))
<1>0. Len(s) \in Nat /\ Len(s) # 0 /\ DOMAIN s = 1..Len(s)
  BY EmptySeq
<1>1. ASSUME NEW t \in Seq(HostByte), t # <<>>, t[1] = "["
      PROVE  UriHost(t) <=> Len(t) >= 2 /\ t[Len(t)] = "]" /\ Literal(SubSeq(t, 2, Len(t) - 1))
  <2>1. Len(t) \in Nat /\ Len(t) # 0 /\ DOMAIN t = 1..Len(t)
    BY <1>1, EmptySeq
  <2>2. 1 \in DOMAIN t
    BY <2>1
  <2>3. "[" \notin NameByte
    BY DEF HexByte, Digit, NameByte, is_unreserved, is_sub_delim
  <2>4. ~RegName(t)
    BY <1>1, <2>2, <2>3 DEF RegName
  <2> QED BY <1>1, <2>4, Zenon DEF UriHost, Literal
<1>2. UriHost(s) <=> \E c \in 2..Len(s) : Closed(s, c) /\ c = Len(s)
  <2>1. Len(s) >= 2 <=> Len(s) \in 2..Len(s)
    BY <1>0
  <2>2. UriHost(s) <=> Len(s) >= 2 /\ s[Len(s)] = "]" /\ Literal(SubSeq(s, 2, Len(s) - 1))
    BY <1>1
  <2> QED BY <2>1, <2>2, Zenon DEF Closed
<1>3. ASSUME NEW i \in 2..Len(s)
      PROVE  UriHost(Before(s, i)) <=> i - 1 \in 2..Len(s) /\ Closed(s, i - 1)
  <2>1. /\ i \in 1..(Len(s) + 1) /\ i \in Nat /\ i - 1 \in Nat
        /\ 1 \in 1..(i - 1) /\ i - 1 \in 1..(i - 1) /\ (i - 1 >= 2 <=> i - 1 \in 2..Len(s))
    BY <1>0
  <2> DEFINE t == Before(s, i)
  <2>2. t \in Seq(HostByte) /\ Len(t) = i - 1 /\ \A k \in 1..(i - 1) : t[k] = s[k]
    BY <2>1, BeforeFacts, Zenon
  <2> HIDE DEF t
  <2>3. t # <<>> /\ t[1] = "[" /\ t[i - 1] = s[i - 1]
    BY <2>1, <2>2
  <2>4. UriHost(t) <=> i - 1 >= 2 /\ t[i - 1] = "]" /\ Literal(SubSeq(t, 2, (i - 1) - 1))
    BY <1>1, <2>2, <2>3
  <2>5. i - 1 >= 2 => SubSeq(t, 2, (i - 1) - 1) = SubSeq(s, 2, (i - 1) - 1)
    <3> SUFFICES ASSUME i - 1 >= 2 PROVE SubSeq(t, 2, (i - 1) - 1) = SubSeq(s, 2, (i - 1) - 1)
      OBVIOUS
    <3> DEFINE g == (i - 1) - 1
    <3>1. /\ 2 \in 1..(Len(t) + 1) /\ g \in (2 - 1)..Len(t)
          /\ 2 \in 1..(Len(s) + 1) /\ g \in (2 - 1)..Len(s)
      BY <1>0, <2>1, <2>2
    <3>2. \A k \in 1..(g - 2 + 1) : t[2 + k - 1] = s[2 + k - 1]
      <4>1. \A k \in 1..(g - 2 + 1) : 2 + k - 1 \in 1..(i - 1)
        BY <2>1
      <4> QED BY <2>2, <4>1
    <3> HIDE DEF g
    <3>3. SubSeq(t, 2, g) = SubSeq(s, 2, g)
      BY <2>2, <3>1, <3>2, SameCut
    <3> QED BY <3>3 DEF g
  <2> QED BY <2>1, <2>3, <2>4, <2>5, Zenon DEF Closed, t
<1>4. ASSUME NEW i \in 1..Len(s)
      PROVE  s[i] = ":" /\ Within(After(s, i), Digit) <=> Port(s, i)
  <2>1. i \in 0..Len(s)
    BY <1>0
  <2> QED BY <2>1, AfterFacts, Zenon DEF Port
<1>5. (\E i \in DOMAIN s : s[i] = ":" /\ UriHost(Before(s, i)) /\ Within(After(s, i), Digit))
        <=> \E c \in 2..Len(s) : Closed(s, c) /\ c # Len(s) /\ Port(s, c + 1)
  <2>1. ASSUME NEW i \in DOMAIN s, s[i] = ":", UriHost(Before(s, i)), Within(After(s, i), Digit)
        PROVE  \E c \in 2..Len(s) : Closed(s, c) /\ c # Len(s) /\ Port(s, c + 1)
    <3>1. i # 1 /\ i \in 1..Len(s)
      BY <1>0, <2>1
    <3>2. i \in 2..Len(s) /\ (i - 1) + 1 = i /\ i - 1 # Len(s)
      BY <1>0, <3>1
    <3>3. i - 1 \in 2..Len(s) /\ Closed(s, i - 1)
      BY <1>3, <2>1, <3>2, Zenon
    <3>4. Port(s, (i - 1) + 1)
      BY <1>4, <2>1, <3>1, <3>2
    <3> QED BY <3>2, <3>3, <3>4, Zenon
  <2>2. ASSUME NEW c \in 2..Len(s), Closed(s, c), c # Len(s), Port(s, c + 1)
        PROVE  \E i \in DOMAIN s : s[i] = ":" /\ UriHost(Before(s, i)) /\ Within(After(s, i), Digit)
    <3>0. c # Len(s)
      BY <2>2
    <3>1. c + 1 \in 1..Len(s) /\ c + 1 \in 2..Len(s) /\ (c + 1) - 1 = c
      BY <1>0, <3>0, NextPlace, Zenon
    <3>2. UriHost(Before(s, c + 1))
      BY <1>3, <2>2, <3>1
    <3>3. s[c + 1] = ":" /\ Within(After(s, c + 1), Digit)
      BY <1>4, <2>2, <3>1, Zenon
    <3> QED BY <1>0, <3>1, <3>2, <3>3, Zenon
  <2> QED BY <2>1, <2>2, Zenon
<1>6. ASSUME NEW c \in 2..Len(s), Closed(s, c), c = Len(s) \/ Port(s, c + 1)
      PROVE  c = Len(s) \/ (c # Len(s) /\ Port(s, c + 1))
  BY <1>6
<1> QED BY <1>2, <1>5, <1>6, Zenon DEF HostGrammar

(* The same on a value that does not.                                      *)
LEMMA NameIsUriHost ==
    ASSUME NEW s \in Seq(HostByte), s = <<>> \/ s[1] # "["
    PROVE  valid_authority(s) <=> HostGrammar(s)
<1> DEFINE colon == Position(s, ":")
           Only(p) == \A i \in DOMAIN s : s[i] = ":" => i = p
           Parts(i) == RegName(Before(s, i)) /\ Within(After(s, i), Digit)
<1>0. Len(s) \in Nat /\ DOMAIN s = 1..Len(s)
  OBVIOUS
<1>1. ":" \notin NameByte /\ ":" \notin Digit
  BY DEF HexByte, Digit, NameByte, is_unreserved, is_sub_delim
<1>2. ASSUME NEW t \in Seq(HostByte), RegName(t), NEW i \in 1..Len(t) PROVE t[i] # ":"
  BY <1>1, <1>2 DEF RegName
<1>3. ASSUME NEW i \in 1..Len(s)
      PROVE  /\ Before(s, i) \in Seq(HostByte) /\ Len(Before(s, i)) = i - 1
             /\ \A k \in 1..(i - 1) : Before(s, i)[k] = s[k]
             /\ Before(s, i) = <<>> \/ Before(s, i)[1] # "["
             /\ Within(After(s, i), Digit) <=> \A k \in (i + 1)..Len(s) : s[k] \in Digit
  <2>1. i \in 1..(Len(s) + 1) /\ i \in 0..Len(s) /\ (i # 1 => 1 \in 1..(i - 1)) /\ i \in Nat
    BY <1>0
  <2> DEFINE t == Before(s, i)
  <2>2. /\ t \in Seq(HostByte) /\ Len(t) = i - 1
        /\ \A k \in 1..(i - 1) : t[k] = s[k]
        /\ Within(After(s, i), Digit) <=> \A k \in (i + 1)..Len(s) : s[k] \in Digit
    BY <2>1, BeforeFacts, AfterFacts, Zenon
  <2> HIDE DEF t
  <2>3. CASE i = 1
    <3>1. t = <<>>
      BY <2>2, <2>3, EmptySeq
    <3> QED BY <2>2, <3>1 DEF t
  <2>4. CASE i # 1
    <3>1. s # <<>>
      BY <1>0
    <3>2. t[1] # "["
      BY <2>1, <2>2, <2>4, <3>1
    <3> QED BY <2>2, <3>2 DEF t
  <2> QED BY <2>3, <2>4
<1>4. ASSUME NEW t \in Seq(HostByte), t = <<>> \/ t[1] # "[" PROVE UriHost(t) <=> RegName(t)
  <2>1. Len(t) >= 2 => t # <<>>
    OBVIOUS
  <2> QED BY <1>4, <2>1, Zenon DEF UriHost
<1>5. HostGrammar(s) <=> RegName(s) \/ \E i \in 1..Len(s) : s[i] = ":" /\ Parts(i)
  <2>1. \A i \in 1..Len(s) : UriHost(Before(s, i)) <=> RegName(Before(s, i))
    BY <1>3, <1>4, Zenon
  <2>2. UriHost(s) <=> RegName(s)
    BY <1>4
  <2> QED BY <1>0, <2>1, <2>2, Zenon DEF HostGrammar
<1>6. /\ valid_percent_encoded(s) <=> RegName(s)
      /\ \A i \in 1..Len(s) : valid_percent_encoded(Before(s, i)) <=> RegName(Before(s, i))
  BY <1>3, PercentEncoded, Zenon
<1>7. valid_authority(s) <=> /\ Only(colon)
                             /\ IF colon = 0 THEN valid_percent_encoded(s)
                                ELSE valid_percent_encoded(Before(s, colon))
                                     /\ Within(After(s, colon), Digit)
  <2>1. ~(s # <<>> /\ s[1] = "[")
    BY Zenon
  <2> QED BY <2>1, Zenon DEF valid_authority
<1>8. colon = 0 \/ (colon \in 1..Len(s) /\ s[colon] = ":")
  BY PositionFacts
<1>9. ASSUME valid_authority(s) PROVE HostGrammar(s)
  <2> HIDE DEF colon
  <2>1. CASE colon = 0
    BY <1>5, <1>6, <1>7, <1>9, <2>1, Zenon
  <2>2. CASE colon # 0
    BY <1>5, <1>6, <1>7, <1>8, <1>9, <2>2, Zenon
  <2> QED BY <2>1, <2>2
<1>10. ASSUME RegName(s) PROVE valid_authority(s)
  <2>1. \A i \in 1..Len(s) : s[i] # ":"
    BY <1>2, <1>10, Zenon
  <2> HIDE DEF colon
  <2>2. colon = 0
    BY <1>8, <2>1, Zenon
  <2> QED BY <1>0, <1>6, <1>7, <1>10, <2>1, <2>2, Zenon
<1>11. ASSUME NEW i \in 1..Len(s), s[i] = ":", Parts(i) PROVE valid_authority(s)
  <2>0. i \in Nat /\ i # 0
    BY <1>0
  <2>1. \A k \in 1..(i - 1) : s[k] # ":"
    <3> DEFINE t == Before(s, i)
    <3>1. t \in Seq(HostByte) /\ RegName(t) /\ Len(t) = i - 1 /\ \A k \in 1..(i - 1) : t[k] = s[k]
      BY <1>3, <1>11
    <3> HIDE DEF t
    <3>2. \A k \in 1..Len(t) : t[k] # ":"
      BY <1>2, <3>1, Zenon
    <3> QED BY <3>1, <3>2
  <2>2. \A k \in (i + 1)..Len(s) : s[k] # ":"
    BY <1>1, <1>3, <1>11
  <2>3. colon = i
    BY <1>11, <2>1, PositionIs, Zenon
  <2> HIDE DEF colon
  <2>4. \A k \in 1..Len(s) : k \in 1..(i - 1) \/ k = i \/ k \in (i + 1)..Len(s)
    BY <1>0, <2>0
  <2>5. Only(i)
    BY <1>0, <2>1, <2>2, <2>4, Zenon
  <2> QED BY <1>6, <1>7, <1>11, <2>0, <2>3, <2>5, Zenon
<1> QED BY <1>5, <1>9, <1>10, <1>11, Zenon

(* valid_authority accepts the uri-hosts with an optional port.            *)
LEMMA AuthorityIsGrammar ==
    ASSUME NEW s \in Seq(HostByte)
    PROVE  valid_authority(s) <=> HostGrammar(s)
<1>1. CASE s # <<>> /\ s[1] = "["
  BY <1>1, BracketIsScanned, BracketIsWritten, Zenon
<1>2. CASE ~(s # <<>> /\ s[1] = "[")
  BY <1>2, NameIsUriHost, Zenon
<1> QED BY <1>1, <1>2

----------------------------------------------------------------------------
(* Lists of fields: what is selected from a list, and the values of a     *)
(* field, from the beginning of the list to its end.                       *)

(* Select goes through the sequence from its beginning.                    *)
IsSelection(F, s, S) ==
    /\ F[0] = <<>>
    /\ \A n \in 1..Len(s) : F[n] = IF s[n] \in S THEN Append(F[n - 1], s[n]) ELSE F[n - 1]

(* The recursive function in Select exists and is this one.                *)
LEMMA SelectRuns ==
    ASSUME NEW T, NEW s \in Seq(T), NEW S
    PROVE  \E F \in [0..Len(s) -> Seq(T)] : IsSelection(F, s, S) /\ Select(s, S) = F[Len(s)]
<1> DEFINE D == 0..Len(s)
           Step(F, n) == IF n = 0 THEN <<>>
                         ELSE IF s[n] \in S THEN Append(F[n - 1], s[n]) ELSE F[n - 1]
           Selected == CHOOSE F : F = [n \in D |-> Step(F, n)]
           G == [n \in 1..Len(s) |-> [v \in Seq(T) |-> IF s[n] \in S THEN Append(v, s[n]) ELSE v]]
<1>0. Len(s) \in Nat /\ <<>> \in Seq(T) /\ \A n \in 1..Len(s) : s[n] \in T
  OBVIOUS
<1>1. G \in [1..Len(s) -> [Seq(T) -> Seq(T)]]
  <2>1. ASSUME NEW n \in 1..Len(s), NEW v \in Seq(T)
        PROVE  (IF s[n] \in S THEN Append(v, s[n]) ELSE v) \in Seq(T)
    BY <1>0, Appended
  <2> QED BY <2>1
<1>2. PICK F : Iterates(F, Len(s), <<>>, G, Seq(T))
  <2> HIDE DEF G
  <2> QED BY <1>0, <1>1, Iteration, Zenon
<1>3. \A n \in 1..Len(s) : n - 1 \in D /\ n # 0 /\ n \in D
  BY <1>0
<1>4. \A v \in Seq(T) : \A n \in 1..Len(s) : G[n][v] = IF s[n] \in S THEN Append(v, s[n]) ELSE v
  OBVIOUS
<1> HIDE DEF G
<1>5. IsSelection(F, s, S)
  <2>1. \A n \in 1..Len(s) : F[n - 1] \in Seq(T)
    BY <1>2, <1>3, Zenon DEF Iterates
  <2> QED BY <1>2, <1>4, <2>1 DEF Iterates, IsSelection
<1>6. \A n \in D : n = 0 \/ n \in 1..Len(s)
  BY <1>0
<1>7. \A n \in D : F[n] = Step(F, n)
  BY <1>3, <1>5, <1>6 DEF IsSelection
<1>8. F = [n \in D |-> Step(F, n)]
  <2> HIDE DEF D, Step
  <2>1. F \in [D -> Seq(T)]
    BY <1>2 DEF Iterates, D
  <2> QED BY <1>7, <2>1
<1>9. Selected = [n \in D |-> Step(Selected, n)]
  <2> HIDE DEF D, Step
  <2> QED BY <1>8
<1>10. Select(s, S) = Selected[Len(s)]
  BY DEF Select
<1> HIDE DEF Selected
<1>11. \A n \in D : Selected[n] = Step(Selected, n)
  <2> HIDE DEF Step
  <2> QED BY <1>9
<1>12. 0 \in D /\ Selected[0] = <<>>
  BY <1>0, <1>11
<1>13. \A n \in 1..Len(s) : Selected[n - 1] \in Seq(T) => Selected[n] = G[n][Selected[n - 1]]
  BY <1>3, <1>4, <1>11
<1>14. \A n \in D : Selected[n] = F[n]
  <2>1. Follows(Selected, Len(s), <<>>, G, Seq(T))
    BY <1>12, <1>13 DEF Follows
  <2>2. Agree(Selected, F, Len(s))
    BY <1>0, <1>2, <2>1, OneIteration, Zenon
  <2> QED BY <2>2 DEF Agree
<1>15. Select(s, S) = F[Len(s)]
  BY <1>0, <1>10, <1>14
<1> QED BY <1>2, <1>5, <1>15 DEF Iterates

(* Nothing is selected from nothing.                                       *)
LEMMA SelectEmpty ==
    ASSUME NEW S PROVE Select(<<>>, S) = <<>>
<1>0. <<>> \in Seq({}) /\ Len(<<>>) = 0
  OBVIOUS
<1>1. PICK e \in Seq({}) : e = <<>> /\ Len(e) = 0
  BY <1>0, Zenon
<1>2. PICK E \in [0..Len(e) -> Seq({})] : IsSelection(E, e, S) /\ Select(e, S) = E[Len(e)]
  BY SelectRuns, Zenon
<1> QED BY <1>1, <1>2 DEF IsSelection

(* One more element adds itself to the selection or nothing.               *)
LEMMA SelectStep ==
    ASSUME NEW T, NEW s \in Seq(T), NEW x \in T, NEW S
    PROVE  /\ Select(s, S) \in Seq(T)
           /\ Select(Append(s, x), S) = IF x \in S THEN Append(Select(s, S), x) ELSE Select(s, S)
<1> DEFINE a == Append(s, x)
<1>0. Len(s) \in Nat /\ Len(s) \in 0..Len(s)
  OBVIOUS
<1>1. a \in Seq(T) /\ Len(a) = Len(s) + 1 /\ a[Len(s) + 1] = x /\ \A k \in 1..Len(s) : a[k] = s[k]
  BY Appended
<1> HIDE DEF a
<1>2. PICK F \in [0..Len(s) -> Seq(T)] : IsSelection(F, s, S) /\ Select(s, S) = F[Len(s)]
  BY SelectRuns, Zenon
<1>3. PICK H \in [0..Len(a) -> Seq(T)] : IsSelection(H, a, S) /\ Select(a, S) = H[Len(a)]
  BY <1>1, SelectRuns, Zenon
<1> DEFINE G == [n \in 1..Len(s) |-> [v \in Seq(T) |-> IF s[n] \in S THEN Append(v, s[n]) ELSE v]]
<1>4. \A n \in 1..Len(s) : F[n - 1] \in Seq(T) /\ H[n - 1] \in Seq(T) /\ n \in 1..Len(a)
  <2>1. \A n \in 1..Len(s) : n - 1 \in 0..Len(s) /\ n - 1 \in 0..Len(a) /\ n \in 1..Len(a)
    BY <1>0, <1>1
  <2> QED BY <1>2, <1>3, <2>1
<1>5. \A v \in Seq(T) : \A n \in 1..Len(s) : G[n][v] = IF s[n] \in S THEN Append(v, s[n]) ELSE v
  OBVIOUS
<1> HIDE DEF G
<1>6. Iterates(F, Len(s), <<>>, G, Seq(T))
  BY <1>2, <1>4, <1>5, Zenon DEF Iterates, IsSelection
<1>7. Follows(H, Len(s), <<>>, G, Seq(T))
  <2>1. H[0] = <<>>
    BY <1>3 DEF IsSelection
  <2>2. \A n \in 1..Len(s) : H[n] = IF s[n] \in S THEN Append(H[n - 1], s[n]) ELSE H[n - 1]
    BY <1>1, <1>3, <1>4 DEF IsSelection
  <2>3. \A n \in 1..Len(s) : H[n] = G[n][H[n - 1]]
    BY <1>4, <1>5, <2>2, Zenon
  <2> QED BY <2>1, <2>3 DEF Follows
<1>8. Agree(H, F, Len(s))
  BY <1>0, <1>6, <1>7, OneIteration, Zenon
<1>9. H[Len(s)] = F[Len(s)]
  BY <1>0, <1>8 DEF Agree
<1>10. Len(a) \in 1..Len(a) /\ Len(a) - 1 = Len(s)
  BY <1>0, <1>1
<1>11. H[Len(a)] = IF x \in S THEN Append(H[Len(s)], x) ELSE H[Len(s)]
  BY <1>1, <1>3, <1>10 DEF IsSelection
<1>12. F[Len(s)] \in Seq(T)
  BY <1>0, <1>2
<1> QED BY <1>2, <1>3, <1>9, <1>11, <1>12 DEF a

(* header_values does too.                                                 *)
IsListing(F, h, name) ==
    /\ F[0] = <<>>
    /\ \A n \in 1..Len(h) : F[n] = IF h[n].name = name THEN F[n - 1] \o h[n].members ELSE F[n - 1]

(* The recursive function in header_values exists and is this one.         *)
LEMMA ValuesRun ==
    ASSUME NEW h \in Seq(FieldLine(Name)), NEW name
    PROVE  \E F \in [0..Len(h) -> Seq(Member)] :
              IsListing(F, h, name) /\ header_values(h, name) = F[Len(h)]
<1> DEFINE D == 0..Len(h)
           Step(F, n) == IF n = 0 THEN <<>>
                         ELSE IF h[n].name = name THEN F[n - 1] \o h[n].members ELSE F[n - 1]
           Values == CHOOSE F : F = [n \in D |-> Step(F, n)]
           G == [n \in 1..Len(h) |-> [v \in Seq(Member) |->
                    IF h[n].name = name THEN v \o h[n].members ELSE v]]
<1>0. Len(h) \in Nat /\ <<>> \in Seq(Member) /\ \A n \in 1..Len(h) : h[n].members \in Seq(Member)
  <2>1. \A x \in FieldLine(Name) : x.members \in Seq(Member)
    BY DEF FieldLine
  <2> QED BY <2>1
<1>1. G \in [1..Len(h) -> [Seq(Member) -> Seq(Member)]]
  <2>1. ASSUME NEW n \in 1..Len(h), NEW v \in Seq(Member)
        PROVE  (IF h[n].name = name THEN v \o h[n].members ELSE v) \in Seq(Member)
    BY <1>0, ConcatProperties
  <2> QED BY <2>1
<1>2. PICK F : Iterates(F, Len(h), <<>>, G, Seq(Member))
  <2> HIDE DEF G
  <2> QED BY <1>0, <1>1, Iteration, Zenon
<1>3. \A n \in 1..Len(h) : n - 1 \in D /\ n # 0 /\ n \in D
  BY <1>0
<1>4. \A v \in Seq(Member) : \A n \in 1..Len(h) :
         G[n][v] = IF h[n].name = name THEN v \o h[n].members ELSE v
  OBVIOUS
<1> HIDE DEF G
<1>5. IsListing(F, h, name)
  <2>1. \A n \in 1..Len(h) : F[n - 1] \in Seq(Member)
    BY <1>2, <1>3, Zenon DEF Iterates
  <2> QED BY <1>2, <1>4, <2>1, Zenon DEF Iterates, IsListing
<1>6. \A n \in D : n = 0 \/ n \in 1..Len(h)
  BY <1>0
<1>7. \A n \in D : F[n] = Step(F, n)
  BY <1>3, <1>5, <1>6 DEF IsListing
<1>8. F = [n \in D |-> Step(F, n)]
  <2> HIDE DEF D, Step
  <2>1. F \in [D -> Seq(Member)]
    BY <1>2 DEF Iterates, D
  <2> QED BY <1>7, <2>1
<1>9. Values = [n \in D |-> Step(Values, n)]
  <2> HIDE DEF D, Step
  <2> QED BY <1>8
<1>10. header_values(h, name) = Values[Len(h)]
  BY DEF header_values
<1> HIDE DEF Values
<1>11. \A n \in D : Values[n] = Step(Values, n)
  <2> HIDE DEF Step
  <2> QED BY <1>9
<1>12. 0 \in D /\ Values[0] = <<>>
  BY <1>0, <1>11
<1>13. \A n \in 1..Len(h) : Values[n - 1] \in Seq(Member) => Values[n] = G[n][Values[n - 1]]
  BY <1>3, <1>4, <1>11
<1>14. \A n \in D : Values[n] = F[n]
  <2>1. Follows(Values, Len(h), <<>>, G, Seq(Member))
    BY <1>12, <1>13 DEF Follows
  <2>2. Agree(Values, F, Len(h))
    BY <1>0, <1>2, <2>1, OneIteration, Zenon
  <2> QED BY <2>2 DEF Agree
<1>15. header_values(h, name) = F[Len(h)]
  BY <1>0, <1>10, <1>14
<1> QED BY <1>2, <1>5, <1>15 DEF Iterates

(* An empty list has no values.                                            *)
LEMMA ValuesEmpty ==
    ASSUME NEW name PROVE header_values(<<>>, name) = <<>>
<1>0. <<>> \in Seq(FieldLine(Name)) /\ Len(<<>>) = 0
  OBVIOUS
<1>1. PICK e \in Seq(FieldLine(Name)) : e = <<>> /\ Len(e) = 0
  BY <1>0, Zenon
<1>2. PICK E \in [0..Len(e) -> Seq(Member)] :
          IsListing(E, e, name) /\ header_values(e, name) = E[Len(e)]
  BY ValuesRun, Zenon
<1> QED BY <1>1, <1>2 DEF IsListing

(* One more line adds its members to the values of its field.              *)
LEMMA ValuesStep ==
    ASSUME NEW h \in Seq(FieldLine(Name)), NEW x \in FieldLine(Name), NEW name
    PROVE  /\ header_values(h, name) \in Seq(Member)
           /\ header_values(Append(h, x), name)
                = IF x.name = name THEN header_values(h, name) \o x.members ELSE header_values(h, name)
<1> DEFINE a == Append(h, x)
<1>0. Len(h) \in Nat /\ Len(h) \in 0..Len(h)
  OBVIOUS
<1>1. /\ a \in Seq(FieldLine(Name)) /\ Len(a) = Len(h) + 1 /\ a[Len(h) + 1] = x
      /\ \A k \in 1..Len(h) : a[k] = h[k]
  BY Appended
<1> HIDE DEF a
<1>2. PICK F \in [0..Len(h) -> Seq(Member)] :
         IsListing(F, h, name) /\ header_values(h, name) = F[Len(h)]
  BY ValuesRun, Zenon
<1>3. PICK H \in [0..Len(a) -> Seq(Member)] :
         IsListing(H, a, name) /\ header_values(a, name) = H[Len(a)]
  BY <1>1, ValuesRun, Zenon
<1> DEFINE G == [n \in 1..Len(h) |-> [v \in Seq(Member) |->
                    IF h[n].name = name THEN v \o h[n].members ELSE v]]
<1>4. \A n \in 1..Len(h) : F[n - 1] \in Seq(Member) /\ H[n - 1] \in Seq(Member) /\ n \in 1..Len(a)
  <2>1. \A n \in 1..Len(h) : n - 1 \in 0..Len(h) /\ n - 1 \in 0..Len(a) /\ n \in 1..Len(a)
    BY <1>0, <1>1
  <2> QED BY <1>2, <1>3, <2>1
<1>5. \A v \in Seq(Member) : \A n \in 1..Len(h) :
         G[n][v] = IF h[n].name = name THEN v \o h[n].members ELSE v
  OBVIOUS
<1> HIDE DEF G
<1>6. Iterates(F, Len(h), <<>>, G, Seq(Member))
  BY <1>2, <1>4, <1>5, Zenon DEF Iterates, IsListing
<1>7. Follows(H, Len(h), <<>>, G, Seq(Member))
  <2>1. H[0] = <<>>
    BY <1>3 DEF IsListing
  <2>2. \A n \in 1..Len(h) : H[n] = IF h[n].name = name THEN H[n - 1] \o h[n].members ELSE H[n - 1]
    BY <1>1, <1>3, <1>4 DEF IsListing
  <2>3. \A n \in 1..Len(h) : H[n] = G[n][H[n - 1]]
    BY <1>4, <1>5, <2>2, Zenon
  <2> QED BY <2>1, <2>3 DEF Follows
<1>8. Agree(H, F, Len(h))
  BY <1>0, <1>6, <1>7, OneIteration, Zenon
<1>9. H[Len(h)] = F[Len(h)]
  BY <1>0, <1>8 DEF Agree
<1>10. Len(a) \in 1..Len(a) /\ Len(a) - 1 = Len(h)
  BY <1>0, <1>1
<1>11. H[Len(a)] = IF x.name = name THEN H[Len(h)] \o x.members ELSE H[Len(h)]
  BY <1>1, <1>3, <1>10 DEF IsListing
<1>12. F[Len(h)] \in Seq(Member)
  BY <1>0, <1>2
<1> QED BY <1>2, <1>3, <1>9, <1>11, <1>12 DEF a

Occurs(x, s) == \E i \in 1..Len(s) : s[i] = x

(* What occurs in a sequence to which y is appended.                       *)
LEMMA OccursAppended ==
    ASSUME NEW T, NEW s \in Seq(T), NEW y \in T, NEW x
    PROVE  Occurs(x, Append(s, y)) <=> Occurs(x, s) \/ x = y
<1>1. /\ Len(Append(s, y)) = Len(s) + 1 /\ Append(s, y)[Len(s) + 1] = y
      /\ \A k \in 1..Len(s) : Append(s, y)[k] = s[k]
  BY Appended
<1>2. /\ Len(s) + 1 \in 1..(Len(s) + 1)
      /\ \A k \in 1..(Len(s) + 1) : k \in 1..Len(s) \/ k = Len(s) + 1
      /\ \A k \in 1..Len(s) : k \in 1..(Len(s) + 1)
  OBVIOUS
<1> QED BY <1>1, <1>2, Zenon DEF Occurs

(* What is selected.                                                       *)
LEMMA Selected ==
    ASSUME NEW T, NEW s \in Seq(T), NEW S
    PROVE  /\ Select(s, S) \in Seq(T \cap S)
           /\ \A x \in S : Occurs(x, s) <=> Occurs(x, Select(s, S))
<1> DEFINE Good(t) == /\ Select(t, S) \in Seq(T \cap S)
                      /\ \A x \in S : Occurs(x, t) <=> Occurs(x, Select(t, S))
           P == {t \in Seq(T) : Good(t)}
<1>1. <<>> \in P
  <2>1. <<>> \in Seq(T) /\ <<>> \in Seq(T \cap S) /\ \A x : ~Occurs(x, <<>>)
    BY DEF Occurs
  <2> QED BY <2>1, SelectEmpty, Zenon
<1>2. ASSUME NEW t \in P, NEW y \in T PROVE Append(t, y) \in P
  <2>0. t \in Seq(T) /\ Good(t) /\ Append(t, y) \in Seq(T)
    BY <1>2, Appended
  <2> HIDE DEF P
  <2>1. CASE y \in S
    <3>1. Select(Append(t, y), S) = Append(Select(t, S), y)
      BY <2>0, <2>1, SelectStep
    <3>2. Append(Select(t, S), y) \in Seq(T \cap S)
      BY <2>0, <2>1, Appended
    <3>3. \A x : /\ Occurs(x, Append(t, y)) <=> Occurs(x, t) \/ x = y
                 /\ Occurs(x, Append(Select(t, S), y)) <=> Occurs(x, Select(t, S)) \/ x = y
      BY <2>0, <2>1, OccursAppended
    <3>4. Good(Append(t, y))
      BY <2>0, <3>1, <3>2, <3>3
    <3> QED BY <2>0, <3>4 DEF P
  <2>2. CASE y \notin S
    <3>1. Select(Append(t, y), S) = Select(t, S)
      BY <2>0, <2>2, SelectStep
    <3>2. \A x : Occurs(x, Append(t, y)) <=> Occurs(x, t) \/ x = y
      BY <2>0, OccursAppended
    <3>3. Good(Append(t, y))
      BY <2>0, <2>2, <3>1, <3>2
    <3> QED BY <2>0, <3>3 DEF P
  <2> QED BY <2>1, <2>2
<1>3. P \in SUBSET Seq(T)
  OBVIOUS
<1>4. s \in P
  <2> HIDE DEF P
  <2>1. P = Seq(T)
    BY <1>1, <1>2, <1>3, AllSequences, Zenon
  <2> QED BY <2>1
<1> QED BY <1>4

(* The selection by an empty set.                                          *)
LEMMA SelectNone ==
    ASSUME NEW T, NEW s \in Seq(T) PROVE Select(s, {}) = <<>>
<1>1. Select(s, {}) \in Seq(T \cap {}) /\ T \cap {} = {}
  BY Selected
<1>2. Select(s, {}) \in Seq({})
  BY <1>1
<1> QED BY <1>2, EmptySeq

SelectsNext(s, x, S) ==
    /\ x \in S => Select(Append(s, x), S) = Append(Select(s, S), x)
    /\ x \notin S => Select(Append(s, x), S) = Select(s, S)

(* SelectStep, as a fact about the two cases.                              *)
LEMMA SelectCases ==
    ASSUME NEW T, NEW s \in Seq(T), NEW S, NEW x \in T
    PROVE  Select(s, S) \in Seq(T) /\ SelectsNext(s, x, S)
BY SelectStep DEF SelectsNext

(* A selection from a selection is the one by both sets.                   *)
LEMMA SelectTwice ==
    ASSUME NEW T, NEW s \in Seq(T), NEW S, NEW R, NEW Q, Q = S \cap R
    PROVE  Select(Select(s, S), R) = Select(s, Q)
<1> DEFINE P == {t \in Seq(T) : Select(Select(t, S), R) = Select(t, Q)}
<1>1. <<>> \in P
  <2>1. <<>> \in Seq(T)
    OBVIOUS
  <2> QED BY <2>1, SelectEmpty
<1>2. ASSUME NEW t \in P, NEW x \in T PROVE Append(t, x) \in P
  <2>1. /\ t \in Seq(T) /\ Append(t, x) \in Seq(T)
        /\ Select(Select(t, S), R) = Select(t, Q)
    BY <1>2, Appended
  <2> HIDE DEF P
  <2>2. PICK u : u = Select(t, S)
    OBVIOUS
  <2>3. u \in Seq(T) /\ SelectsNext(t, x, S) /\ SelectsNext(t, x, Q)
    BY <2>1, <2>2, SelectCases, Zenon
  <2>4. SelectsNext(u, x, R)
    BY <2>3, SelectCases, Zenon
  <2>5. Select(Select(Append(t, x), S), R) = Select(Append(t, x), Q)
    <3>1. CASE x \in S /\ x \in R
      BY <2>1, <2>2, <2>3, <2>4, <3>1, Zenon DEF SelectsNext
    <3>2. CASE x \in S /\ x \notin R
      BY <2>1, <2>2, <2>3, <2>4, <3>2, Zenon DEF SelectsNext
    <3>3. CASE x \notin S
      BY <2>1, <2>2, <2>3, <3>3, Zenon DEF SelectsNext
    <3> QED BY <3>1, <3>2, <3>3, Zenon
  <2> QED BY <2>1, <2>5 DEF P
<1>3. P \in SUBSET Seq(T)
  OBVIOUS
<1>4. s \in P
  <2> HIDE DEF P
  <2>1. P = Seq(T)
    BY <1>1, <1>2, <1>3, AllSequences, Zenon
  <2> QED BY <2>1
<1> QED BY <1>4

(* The values of a field are those of its lines.                           *)
LEMMA ValuesOfSelected ==
    ASSUME NEW h \in Seq(FieldLine(Name)), NEW names, NEW name
    PROVE  header_values(Select(h, FieldLine(names)), name)
             = IF name \in names THEN header_values(h, name) ELSE <<>>
<1> DEFINE V(t) == IF name \in names THEN header_values(t, name) ELSE <<>>
           P == {t \in Seq(FieldLine(Name)) :
                    header_values(Select(t, FieldLine(names)), name) = V(t)}
<1>0. \A x \in FieldLine(Name) : x \in FieldLine(names) <=> x.name \in names
  BY DEF FieldLine
<1>1. <<>> \in P
  <2>1. <<>> \in Seq(FieldLine(Name))
    OBVIOUS
  <2> QED BY <2>1, SelectEmpty, ValuesEmpty
<1>2. ASSUME NEW t \in P, NEW x \in FieldLine(Name) PROVE Append(t, x) \in P
  <2>1. /\ t \in Seq(FieldLine(Name)) /\ Append(t, x) \in Seq(FieldLine(Name))
        /\ header_values(Select(t, FieldLine(names)), name) = V(t)
    BY <1>2, Appended
  <2> HIDE DEF P
  <2> DEFINE s == Select(t, FieldLine(names))
  <2>2. /\ s \in Seq(FieldLine(Name))
        /\ Select(Append(t, x), FieldLine(names))
             = IF x \in FieldLine(names) THEN Append(s, x) ELSE s
    BY <2>1, SelectStep, Zenon
  <2>3. header_values(Append(t, x), name)
          = IF x.name = name THEN header_values(t, name) \o x.members ELSE header_values(t, name)
    BY <2>1, ValuesStep, Zenon
  <2>4. header_values(Append(s, x), name)
          = IF x.name = name THEN header_values(s, name) \o x.members ELSE header_values(s, name)
    BY <2>2, ValuesStep, Zenon
  <2>5. header_values(Select(Append(t, x), FieldLine(names)), name) = V(Append(t, x))
    <3>1. CASE x.name \in names
      <4>1. Select(Append(t, x), FieldLine(names)) = Append(s, x)
        BY <1>0, <2>2, <3>1, Zenon
      <4>2. header_values(s, name) = V(t)
        BY <2>1
      <4> HIDE DEF s
      <4> QED BY <2>3, <2>4, <3>1, <4>1, <4>2, Zenon
    <3>2. CASE x.name \notin names
      <4>1. Select(Append(t, x), FieldLine(names)) = s
        BY <1>0, <2>2, <3>2, Zenon
      <4> QED BY <2>1, <2>3, <3>2, <4>1, Zenon
    <3> QED BY <3>1, <3>2
  <2> QED BY <2>1, <2>5 DEF P
<1>3. P \in SUBSET Seq(FieldLine(Name))
  OBVIOUS
<1>4. h \in P
  <2> HIDE DEF P
  <2>1. P = Seq(FieldLine(Name))
    BY <1>1, <1>2, <1>3, AllSequences, Zenon
  <2> QED BY <2>1
<1> QED BY <1>4

----------------------------------------------------------------------------
(* Framing.                                                                *)

(* The values of a field are members.                                      *)
LEMMA ValuesAreMembers ==
    ASSUME NEW h \in Seq(FieldLine(Name)), NEW name
    PROVE  header_values(h, name) \in Seq(Member)
<1> DEFINE P == {t \in Seq(FieldLine(Name)) : header_values(t, name) \in Seq(Member)}
<1>1. <<>> \in P
  <2>1. <<>> \in Seq(FieldLine(Name)) /\ <<>> \in Seq(Member)
    OBVIOUS
  <2> QED BY <2>1, ValuesEmpty, Zenon
<1>2. ASSUME NEW t \in P, NEW x \in FieldLine(Name) PROVE Append(t, x) \in P
  <2>1. /\ t \in Seq(FieldLine(Name)) /\ Append(t, x) \in Seq(FieldLine(Name))
        /\ header_values(t, name) \in Seq(Member)
    BY <1>2, Appended
  <2>2. x.members \in Seq(Member)
    BY DEF FieldLine
  <2>3. header_values(Append(t, x), name)
          = IF x.name = name THEN header_values(t, name) \o x.members ELSE header_values(t, name)
    BY <2>1, ValuesStep, Zenon
  <2>4. header_values(t, name) \o x.members \in Seq(Member)
    BY <2>1, <2>2, ConcatProperties
  <2>5. header_values(Append(t, x), name) \in Seq(Member)
    BY <2>1, <2>3, <2>4, Zenon
  <2> QED BY <2>1, <2>5
<1>3. P \in SUBSET Seq(FieldLine(Name))
  OBVIOUS
<1>4. h \in P
  <2> HIDE DEF P
  <2>1. P = Seq(FieldLine(Name))
    BY <1>1, <1>2, <1>3, AllSequences, Zenon
  <2> QED BY <2>1
<1> QED BY <1>4

Table(g, n, U) == g \in [1..n -> U]
Tabulates(g, n) == Len(g) = n /\ (g = <<>> <=> n = 0)
Codings == {"chunked", "other", ""}
Lengths == {1, 2, BadLength}

(* A function on 1..n is a sequence of length n.                           *)
LEMMA Tabulated ==
    ASSUME NEW n \in Nat, NEW U, NEW g, Table(g, n, U)
    PROVE  Tabulates(g, n)
<1>1. g \in Seq(U)
  BY DEF Table
<1>2. Len(g) = n
  BY <1>1 DEF Table
<1> QED BY <1>1, <1>2, EmptySeq DEF Tabulates

(* What LengthFraming says of the lengths L, and TransferFraming of the    *)
(* codings C.                                                              *)
LengthSays(f, L, n) ==
    /\ f.k = "Fixed" <=> \E v \in {1, 2} : \A i \in 1..n : L[i] = v
    /\ f.k = "Fixed" /\ n # 0 => \A i \in 1..n : L[i] = f.n
    /\ f.k # "Chunked"
    /\ f # FramingError(501)
CodingSays(f, C, n) ==
    /\ f.k = "Chunked" <=> n = 1 /\ C[1] = "chunked"
    /\ f.k # "Fixed"

(* Lengths are accepted if they denote one number.                         *)
LEMMA LengthCases ==
    ASSUME NEW n \in Nat, NEW L, Table(L, n, Lengths)
    PROVE  LengthSays(LengthFraming(L), L, n)
<1>1. Len(L) = n /\ (L = <<>> <=> n = 0)
  BY Tabulated, Zenon DEF Tabulates
<1>2. CASE n = 0
  <2>1. LengthFraming(L) = Fixed(0)
    BY <1>1, <1>2 DEF LengthFraming
  <2>2. \A i \in 1..n : FALSE
    BY <1>2
  <2> QED BY <1>2, <2>1, <2>2 DEF Fixed, FramingError, LengthSays
<1>3. CASE n # 0
  <2>0. 1 \in 1..n /\ L[1] \in {1, 2, BadLength}
    BY <1>3 DEF Table, Lengths
  <2>1. CASE L[1] = BadLength \/ \E i \in 1..n : L[i] # L[1]
    <3>1. LengthFraming(L) = FramingError(400)
      BY <1>1, <1>3, <2>1, Zenon DEF LengthFraming
    <3>2. BadLength \notin {1, 2}
      BY DEF BadLength
    <3>3. ~\E v \in {1, 2} : \A i \in 1..n : L[i] = v
      BY <2>0, <2>1, <3>2, Zenon
    <3> QED BY <3>1, <3>3 DEF FramingError, LengthSays
  <2>2. CASE L[1] # BadLength /\ \A i \in 1..n : L[i] = L[1]
    <3>1. LengthFraming(L) = Fixed(L[1])
      BY <1>1, <1>3, <2>2, Zenon DEF LengthFraming
    <3>2. L[1] \in {1, 2}
      BY <2>0, <2>2
    <3>3. \E v \in {1, 2} : \A i \in 1..n : L[i] = v
      BY <2>2, <3>2, Zenon
    <3>4. LengthFraming(L).k = "Fixed" /\ LengthFraming(L).n = L[1]
      BY <3>1 DEF Fixed
    <3>5. LengthFraming(L) # FramingError(501)
      BY <3>1 DEF Fixed, FramingError
    <3>6. "Fixed" # "Chunked"
      OBVIOUS
    <3> QED BY <2>2, <3>3, <3>4, <3>5, <3>6, Zenon DEF LengthSays
  <2> QED BY <2>1, <2>2, Zenon
<1> QED BY <1>2, <1>3

(* Codings are accepted if chunked is the only one.                        *)
LEMMA TransferCases ==
    ASSUME NEW n \in Nat, n # 0, NEW C, Table(C, n, Codings)
    PROVE  CodingSays(TransferFraming(C), C, n)
<1>1. Len(C) = n
  BY Tabulated, Zenon DEF Tabulates
<1>2. /\ Chunked.k = "Chunked" /\ FramingError(400).k = "Error" /\ FramingError(501).k = "Error"
  BY DEF Chunked, FramingError
<1>3. \A i \in 1..1 : i = 1
  OBVIOUS
<1> DEFINE Empty == \E i \in 1..Len(C) : C[i] = ""
<1>4. CASE n = 1 /\ C[1] = "chunked"
  <2>1. ~Empty
    BY <1>1, <1>3, <1>4, Zenon
  <2>2. TransferFraming(C) = Chunked
    BY <1>1, <1>4, <2>1, Zenon DEF TransferFraming
  <2> QED BY <1>2, <1>4, <2>2, Zenon DEF CodingSays
<1>5. CASE ~(n = 1 /\ C[1] = "chunked")
  <2>1. CASE Empty
    <3>1. TransferFraming(C) = FramingError(400)
      BY <2>1, Zenon DEF TransferFraming
    <3> QED BY <1>2, <1>5, <3>1, Zenon DEF CodingSays
  <2>2. CASE ~Empty /\ Len(C) = 1
    <3>1. C[1] # "chunked"
      BY <1>1, <1>5, <2>2, Zenon
    <3>2. TransferFraming(C) = FramingError(501)
      BY <2>2, <3>1, Zenon DEF TransferFraming
    <3> QED BY <1>2, <1>5, <3>2, Zenon DEF CodingSays
  <2>3. CASE ~Empty /\ Len(C) # 1
    <3> DEFINE Wrong == C[Len(C)] # "chunked" \/ \E i \in 1..(Len(C) - 1) : C[i] = "chunked"
    <3>1. CASE Wrong
      <4>1. TransferFraming(C) = FramingError(400)
        BY <2>3, <3>1, Zenon DEF TransferFraming
      <4> QED BY <1>2, <1>5, <4>1, Zenon DEF CodingSays
    <3>2. CASE ~Wrong
      <4>1. TransferFraming(C) = FramingError(501)
        BY <2>3, <3>2, Zenon DEF TransferFraming
      <4> QED BY <1>2, <1>5, <4>1, Zenon DEF CodingSays
    <3> QED BY <3>1, <3>2
  <2> QED BY <2>1, <2>2, <2>3, Zenon
<1> QED BY <1>4, <1>5

(* How a member is read as a coding and as a length.                       *)
LEMMA MembersRead ==
    \A m \in Member : /\ Coding(m) \in Codings
                      /\ Coding(m) = "chunked" <=> m = "chunked"
                      /\ Length(m) \in Lengths
<1>1. \A m \in Member : Coding(m) \in Codings
  BY Zenon DEF Coding, Codings
<1>2. \A m \in Member : Coding(m) = "chunked" <=> m = "chunked"
  BY Zenon DEF Coding
<1>3. \A m \in Member : Length(m) \in Lengths
  BY Zenon DEF Length, Lengths
<1> QED BY <1>1, <1>2, <1>3, Zenon

(* What FramingIsUnambiguous asks of the framing f of a list of fields     *)
(* with the codings te and the lengths cl.                                 *)
Unambiguous(f, te, cl, version) ==
    LET clear_chunked == te = <<"chunked">> /\ cl = <<>> /\ version = "Http11"
        clear_length(n) == te = <<>> /\ \A i \in DOMAIN cl : Length(cl[i]) = n
    IN /\ f.k = "Chunked" <=> clear_chunked
       /\ f.k = "Fixed" <=> \E n \in {1, 2} : clear_length(n)
       /\ f.k = "Fixed" /\ cl # <<>> => clear_length(f.n)
       /\ f = FramingError(501) => te # <<>> /\ cl = <<>> /\ version = "Http11"

(* framing decides every list of fields as FramingIsUnambiguous asks.      *)
LEMMA FramingCases ==
    ASSUME NEW h \in Seq(FieldLine(Name)), NEW version \in Version
    PROVE  Unambiguous(framing(h, version), header_values(h, "transfer-encoding"),
                       header_values(h, "content-length"), version)
<1>1. PICK te \in Seq(Member) : te = header_values(h, "transfer-encoding")
  BY ValuesAreMembers, Zenon
<1>2. PICK cl \in Seq(Member) : cl = header_values(h, "content-length")
  BY ValuesAreMembers, Zenon
<1>3. PICK C, L, f, j, k : /\ C = [i \in 1..j |-> Coding(te[i])]
                           /\ L = [i \in 1..k |-> Length(cl[i])]
                           /\ f = framing(h, version)
                           /\ j = Len(te) /\ k = Len(cl)
  BY Zenon
<1>4. j \in Nat /\ k \in Nat
  BY <1>3
<1>5. /\ DOMAIN te = 1..j /\ (te = <<>> <=> j = 0)
      /\ DOMAIN cl = 1..k /\ (cl = <<>> <=> k = 0)
      /\ \A i \in 1..j : te[i] \in Member
      /\ \A i \in 1..k : cl[i] \in Member
  BY <1>3, EmptySeq
<1>6. Table(C, j, Codings)
  BY <1>3, <1>5, MembersRead, Zenon DEF Table
<1>7. Table(L, k, Lengths)
  BY <1>3, <1>5, MembersRead, Zenon DEF Table
<1>8. \A i \in 1..j : C[i] = "chunked" <=> te[i] = "chunked"
  BY <1>3, <1>5, MembersRead, Zenon
<1>9. \A i \in 1..k : L[i] = Length(cl[i])
  BY <1>3, Zenon
<1>10. (C = <<>> <=> te = <<>>) /\ (L = <<>> <=> cl = <<>>)
  <2>1. Tabulates(C, j)
    BY <1>4, <1>6, Tabulated, Zenon
  <2>2. Tabulates(L, k)
    BY <1>4, <1>7, Tabulated, Zenon
  <2> QED BY <1>5, <2>1, <2>2, Zenon DEF Tabulates
<1>11. f = IF C = <<>> THEN LengthFraming(L)
          ELSE IF L # <<>> \/ version = "Http10" THEN FramingError(400)
          ELSE TransferFraming(C)
  <2> DEFINE m == FramingFields(h, version)
  <2>1. m.transfer = C /\ m.lengths = L /\ m.version = version
    <3>1. m = [NoMessage EXCEPT !.version = version, !.transfer = C, !.lengths = L]
      BY <1>3, <1>1, <1>2, <1>5, Zenon DEF FramingFields
    <3> HIDE DEF m
    <3> QED BY <3>1 DEF NoMessage
  <2>2. f = FramingOf(m)
    BY <1>3 DEF framing
  <2> HIDE DEF m
  <2> QED BY <2>1, <2>2, Zenon DEF FramingOf
<1>12. te = <<"chunked">> <=> j = 1 /\ te[1] = "chunked"
  <2>1. ASSUME Len(te) = 1, te[1] = "chunked" PROVE te = <<"chunked">>
    BY <2>1
  <2>2. ASSUME te = <<"chunked">> PROVE Len(te) = 1 /\ te[1] = "chunked"
    BY <2>2
  <2> QED BY <1>3, <2>1, <2>2
<1>13. FramingError(400).k = "Error" /\ FramingError(400) # FramingError(501)
  BY DEF FramingError
<1>14. version \in {"Http10", "Http11"}
  BY DEF Version
<1>15. Unambiguous(f, te, cl, version)
  <2>1. CASE te = <<>>
    <3>1. f = LengthFraming(L)
      BY <1>10, <1>11, <2>1, Zenon
    <3>2. LengthSays(LengthFraming(L), L, k)
      BY <1>4, <1>7, LengthCases, Zenon
    <3>3. te # <<"chunked">>
      BY <1>5, <1>12, <2>1
    <3> QED BY <1>5, <1>9, <2>1, <3>1, <3>2, <3>3, Zenon DEF LengthSays, Unambiguous
  <2>2. CASE te # <<>> /\ (cl # <<>> \/ version = "Http10")
    <3>1. f = FramingError(400)
      BY <1>10, <1>11, <2>2, Zenon
    <3>2. version = "Http10" => version # "Http11"
      OBVIOUS
    <3>3. "Error" # "Chunked" /\ "Error" # "Fixed"
      OBVIOUS
    <3> QED BY <1>13, <2>2, <3>1, <3>2, <3>3, Zenon DEF Unambiguous
  <2>3. CASE te # <<>> /\ cl = <<>> /\ version # "Http10"
    <3>1. f = TransferFraming(C)
      BY <1>10, <1>11, <2>3, Zenon
    <3>2. j # 0
      BY <1>5, <2>3, Zenon
    <3>3. CodingSays(TransferFraming(C), C, j)
      BY <1>4, <1>6, <3>2, TransferCases, Zenon
    <3>4. j = 1 => 1 \in 1..j
      OBVIOUS
    <3>5. version = "Http11"
      BY <1>14, <2>3, Zenon
    <3> QED BY <1>8, <1>12, <2>3, <3>1, <3>3, <3>4, <3>5, Zenon DEF CodingSays, Unambiguous
  <2> QED BY <2>1, <2>2, <2>3, Zenon
<1> QED BY <1>3, <1>1, <1>2, <1>15, Zenon

----------------------------------------------------------------------------
(* set_connection_close.                                                   *)

Other == FieldLine(Name \ {"connection"})

(* The lines of Connection and those of the other fields.                  *)
LEMMA LinesOf ==
    /\ Other \subseteq FieldLine(Name)
    /\ Other \cap Other = Other
    /\ Other \cap FieldLine({"connection"}) = {}
    /\ \A name \in Name \ {"connection"} : Other \cap FieldLine({name}) = FieldLine({name})
<1>1. Other \subseteq FieldLine(Name)
  BY DEF Other, FieldLine
<1>2. Other \cap FieldLine({"connection"}) = {}
  BY DEF Other, FieldLine
<1>3. ASSUME NEW name \in Name \ {"connection"} PROVE FieldLine({name}) \subseteq Other
  <2>1. {name} \subseteq Name \ {"connection"}
    BY Zenon
  <2> QED BY <2>1 DEF Other, FieldLine
<1> QED BY <1>1, <1>2, <1>3, Zenon

(* Which options set_connection_close keeps.                               *)
LEMMA OptionsRead ==
    /\ OtherOption \subseteq Member
    /\ \A m \in OtherOption : Lower(m) # "close" /\ Lower(m) # "keep-alive"
    /\ "close" \in Member /\ "close" \notin OtherOption /\ Lower("close") = "close"
    /\ "upgrade" \in OtherOption
    /\ \A m \in Member : Lower(m) = "upgrade" <=> m = "upgrade"
<1>1. /\ OtherOption \subseteq Member
      /\ \A m \in OtherOption : Lower(m) # "close" /\ Lower(m) # "keep-alive"
  BY Zenon DEF OtherOption
<1>2. Lower("close") = "close"
  BY Zenon DEF Lower
<1>3. "close" \in Member /\ "close" \notin OtherOption
  BY <1>2, Zenon DEF Member, OtherOption
<1>4. Lower("upgrade") = "upgrade" /\ "upgrade" \in Member
  BY Zenon DEF Lower, Member
<1>5. "upgrade" \in OtherOption
  BY <1>4, Zenon DEF OtherOption
<1>6. \A m \in Member : Lower(m) = "upgrade" <=> m = "upgrade"
  BY Zenon DEF Lower
<1> QED BY <1>1, <1>2, <1>3, <1>5, <1>6, Zenon

(* A token is there if a member is that differs from it at most in case.   *)
LEMMA TokenOccurs ==
    ASSUME NEW h, NEW name, NEW token, header_values(h, name) \in Seq(Member)
    PROVE  has_token(h, name, token)
             <=> \E m \in Member : Lower(m) = token /\ Occurs(m, header_values(h, name))
<1>1. PICK v \in Seq(Member) : v = header_values(h, name)
  OBVIOUS
<1>2. DOMAIN v = 1..Len(v) /\ \A i \in 1..Len(v) : v[i] \in Member
  OBVIOUS
<1>3. has_token(h, name, token) <=> \E i \in 1..Len(v) : Lower(v[i]) = token
  BY <1>1, <1>2, Zenon DEF has_token
<1>4. (\E i \in 1..Len(v) : Lower(v[i]) = token)
         <=> \E m \in Member : Lower(m) = token /\ Occurs(m, v)
  BY <1>2, Zenon DEF Occurs
<1> QED BY <1>1, <1>3, <1>4, Zenon

(* What set_connection_close does to the lists that the others read.       *)
Rewritten(r, h, opts) ==
    /\ r \in Seq(FieldLine(Name))
    /\ opts = Select(header_values(h, "connection"), OtherOption)
    /\ header_values(r, "connection") = Append(opts, "close")
    /\ \A name \in Name \ {"connection"} :
          /\ header_values(r, name) = header_values(h, name)
          /\ Select(r, FieldLine({name})) = Select(h, FieldLine({name}))
    /\ Select(r, Other) = Select(h, Other)
    /\ Select(r, FieldLine({"connection"})) = Append(<<>>, ConnectionLine(opts))

(* The rewritten list, field by field.                                     *)
LEMMA CloseRewrites ==
    ASSUME NEW h \in Seq(FieldLine(Name))
    PROVE  \E opts \in Seq(OtherOption) : Rewritten(set_connection_close(h), h, opts)
<1> DEFINE F == FieldLine(Name)
<1>1. PICK v \in Seq(Member) : v = header_values(h, "connection")
  BY ValuesAreMembers, Zenon
<1>2. PICK opts \in Seq(OtherOption) : opts = Select(v, OtherOption)
  <2>1. Select(v, OtherOption) \in Seq(Member \cap OtherOption)
    BY Selected
  <2>2. Member \cap OtherOption = OtherOption
    BY OptionsRead, Zenon
  <2> QED BY <2>1, <2>2, Zenon
<1>3. PICK o \in Seq(F) : o = Select(h, Other)
  <2>1. Select(h, Other) \in Seq(F \cap Other)
    BY Selected
  <2>2. F \cap Other = Other /\ Other \subseteq F
    BY LinesOf, Zenon
  <2>3. Seq(Other) \subseteq Seq(F)
    BY <2>2
  <2> QED BY <2>1, <2>2, <2>3, Zenon
<1>4. PICK c : c = ConnectionLine(opts)
  OBVIOUS
<1>5. opts \in Seq(Member) /\ Append(opts, "close") \in Seq(Member)
  <2>1. "close" \in Member /\ OtherOption \subseteq Member
    BY OptionsRead, Zenon
  <2>2. opts \in Seq(Member)
    BY <2>1
  <2> QED BY <2>1, <2>2, Appended
<1>6. /\ c.name = "connection" /\ c.members = Append(opts, "close")
      /\ c \in FieldLine({"connection"})
  BY <1>4, <1>5 DEF ConnectionLine, FieldLine
<1>7. c \in F /\ c \notin Other
  <2>1. "connection" \in Name
    BY DEF Name
  <2> QED BY <1>6, <2>1 DEF FieldLine, Other
<1>8. PICK r : r = Append(o, c)
  BY Zenon
<1>9. r \in Seq(F) /\ r = set_connection_close(h)
  <2>1. r \in Seq(F)
    BY <1>7, <1>8, Appended
  <2>2. r = set_connection_close(h)
    BY <1>1, <1>2, <1>3, <1>4, <1>8, Zenon DEF set_connection_close, Other
  <2> QED BY <2>1, <2>2
<1>10. /\ header_values(o, "connection") = <<>>
       /\ \A name \in Name \ {"connection"} : header_values(o, name) = header_values(h, name)
  BY <1>3, ValuesOfSelected DEF Other
<1>11. header_values(r, "connection") = Append(opts, "close")
  <2>1. header_values(r, "connection") = header_values(o, "connection") \o c.members
    BY <1>6, <1>7, <1>8, ValuesStep, Zenon
  <2>2. PICK q \in Seq(Member) : q = Append(opts, "close")
    BY <1>5, Zenon
  <2>3. <<>> \o q = q
    BY ConcatEmptySeq
  <2> QED BY <1>6, <1>10, <2>1, <2>2, <2>3, Zenon
<1>12. ASSUME NEW name \in Name \ {"connection"}
       PROVE  header_values(r, name) = header_values(h, name)
  <2>1. header_values(r, name) = header_values(o, name)
    BY <1>6, <1>7, <1>8, ValuesStep
  <2> QED BY <1>10, <2>1
<1>13. ASSUME NEW name \in Name \ {"connection"}
       PROVE  Select(r, FieldLine({name})) = Select(h, FieldLine({name}))
  <2>1. c \notin FieldLine({name})
    BY <1>6 DEF FieldLine
  <2>2. Select(r, FieldLine({name})) = Select(o, FieldLine({name}))
    BY <1>7, <1>8, <2>1, SelectCases DEF SelectsNext
  <2>3. Select(o, FieldLine({name})) = Select(h, FieldLine({name}))
    BY <1>3, LinesOf, SelectTwice
  <2> QED BY <2>2, <2>3, Zenon
<1>14. Select(r, Other) = o
  <2>1. Select(r, Other) = Select(o, Other)
    BY <1>7, <1>8, SelectCases DEF SelectsNext
  <2>2. Select(o, Other) = Select(h, Other)
    BY <1>3, LinesOf, SelectTwice
  <2> QED BY <1>3, <2>1, <2>2, Zenon
<1>15. Select(r, FieldLine({"connection"})) = Append(<<>>, c)
  <2>1. Select(r, FieldLine({"connection"})) = Append(Select(o, FieldLine({"connection"})), c)
    BY <1>6, <1>7, <1>8, SelectCases DEF SelectsNext
  <2>2. Select(o, FieldLine({"connection"})) = Select(h, {})
    BY <1>3, LinesOf, SelectTwice
  <2>3. Select(h, {}) = <<>>
    BY SelectNone
  <2> QED BY <2>1, <2>2, <2>3, Zenon
<1>16. Rewritten(r, h, opts)
  BY <1>1, <1>2, <1>3, <1>4, <1>9, <1>11, <1>12, <1>13, <1>14, <1>15, Zenon DEF Rewritten
<1> QED BY <1>9, <1>16, Zenon

(* What CloseReplacesKeepAlive asks of the list r made from the list h.    *)
Replaced(r, h) ==
    /\ has_token(r, "connection", "close")
    /\ ~has_token(r, "connection", "keep-alive")
    /\ has_token(r, "connection", "upgrade") <=> has_token(h, "connection", "upgrade")
    /\ count_header(r, "connection") = 1
    /\ Select(r, Other) = Select(h, Other)
    /\ set_connection_close(r) = r
    /\ upgrade_protocols(r) = upgrade_protocols(h)
    /\ \A version \in Version : framing(r, version) = framing(h, version)

(* So set_connection_close does what CloseReplacesKeepAlive asks.          *)
LEMMA CloseReplaces ==
    ASSUME NEW h \in Seq(FieldLine(Name))
    PROVE  Replaced(set_connection_close(h), h)
<1>0. PICK r : r = set_connection_close(h)
  OBVIOUS
<1>1. PICK opts \in Seq(OtherOption) : Rewritten(r, h, opts)
  BY <1>0, CloseRewrites, Zenon
<1>2. /\ opts = Select(header_values(h, "connection"), OtherOption)
      /\ header_values(r, "connection") = Append(opts, "close")
      /\ Select(r, Other) = Select(h, Other)
      /\ Select(r, FieldLine({"connection"})) = Append(<<>>, ConnectionLine(opts))
  BY <1>1, Zenon DEF Rewritten
<1>3. \A name \in Name \ {"connection"} :
          /\ header_values(r, name) = header_values(h, name)
          /\ Select(r, FieldLine({name})) = Select(h, FieldLine({name}))
  BY <1>1, Zenon DEF Rewritten
<1>4. {"upgrade", "transfer-encoding", "content-length"} \subseteq Name \ {"connection"}
  BY Zenon DEF Name
<1>5. /\ header_values(h, "connection") \in Seq(Member)
      /\ header_values(r, "connection") \in Seq(Member)
  BY <1>1, ValuesAreMembers, Zenon DEF Rewritten
<1>6. opts \in Seq(Member) /\ "close" \in Member
  <2>1. OtherOption \subseteq Member /\ "close" \in Member
    BY OptionsRead, Zenon
  <2> QED BY <2>1
<1>7. \A m : Occurs(m, header_values(r, "connection")) <=> Occurs(m, opts) \/ m = "close"
  <2>1. \A m : Occurs(m, Append(opts, "close")) <=> Occurs(m, opts) \/ m = "close"
    BY <1>6, OccursAppended
  <2> QED BY <1>2, <2>1, Zenon
<1>8. \A m : Occurs(m, opts) => m \in OtherOption
  BY DEF Occurs
<1>9. \A token : /\ has_token(r, "connection", token)
                      <=> \E m \in Member : Lower(m) = token /\ Occurs(m, header_values(r, "connection"))
                 /\ has_token(h, "connection", token)
                      <=> \E m \in Member : Lower(m) = token /\ Occurs(m, header_values(h, "connection"))
  BY <1>5, TokenOccurs, Zenon
<1>10. has_token(r, "connection", "close")
  BY <1>7, <1>9, OptionsRead, Zenon
<1>11. ~has_token(r, "connection", "keep-alive")
  <2>1. "close" # "keep-alive"
    OBVIOUS
  <2> QED BY <1>7, <1>8, <1>9, <2>1, OptionsRead, Zenon
<1>12. has_token(r, "connection", "upgrade") <=> has_token(h, "connection", "upgrade")
  <2>1. Occurs("upgrade", header_values(h, "connection")) <=> Occurs("upgrade", opts)
    BY <1>2, <1>5, Selected, OptionsRead, Zenon
  <2>2. "upgrade" # "close" /\ "upgrade" \in Member
    BY OptionsRead
  <2>3. \A m \in Member : Lower(m) = "upgrade" <=> m = "upgrade"
    BY OptionsRead, Zenon
  <2>4. has_token(r, "connection", "upgrade") <=> Occurs("upgrade", header_values(r, "connection"))
    BY <1>9, <2>2, <2>3, Zenon
  <2>5. has_token(h, "connection", "upgrade") <=> Occurs("upgrade", header_values(h, "connection"))
    BY <1>9, <2>2, <2>3, Zenon
  <2> QED BY <1>7, <2>1, <2>2, <2>4, <2>5, Zenon
<1>13. count_header(r, "connection") = 1
  <2>1. PICK c : c = ConnectionLine(opts)
    OBVIOUS
  <2>2. Len(Append(<<>>, c)) = 1
    OBVIOUS
  <2> QED BY <1>2, <2>1, <2>2, Zenon DEF count_header
<1>14. set_connection_close(r) = r
  <2>1. Select(header_values(r, "connection"), OtherOption) = opts
    <3>1. Select(Append(opts, "close"), OtherOption) = Select(opts, OtherOption)
      BY <1>6, SelectCases, OptionsRead DEF SelectsNext
    <3>2. Select(opts, OtherOption) = Select(header_values(h, "connection"), OtherOption)
      BY <1>2, <1>5, SelectTwice
    <3> QED BY <1>2, <3>1, <3>2, Zenon
  <2> QED BY <1>0, <1>2, <2>1, Zenon DEF set_connection_close, Other
<1>15. upgrade_protocols(r) = upgrade_protocols(h)
  <2>1. header_values(r, "upgrade") = header_values(h, "upgrade")
    BY <1>3, <1>4, Zenon
  <2>2. count_header(r, "upgrade") = count_header(h, "upgrade")
    BY <1>3, <1>4, Zenon DEF count_header
  <2> QED BY <2>1, <2>2, Zenon DEF upgrade_protocols
<1>16. ASSUME NEW version \in Version PROVE framing(r, version) = framing(h, version)
  <2>1. /\ header_values(r, "transfer-encoding") = header_values(h, "transfer-encoding")
        /\ header_values(r, "content-length") = header_values(h, "content-length")
    BY <1>3, <1>4, Zenon
  <2> QED BY <2>1, Zenon DEF framing, FramingFields
<1> QED BY <1>0, <1>2, <1>10, <1>11, <1>12, <1>13, <1>14, <1>15, <1>16, Zenon DEF Replaced

----------------------------------------------------------------------------
(* The specification.  Its texts are of the elements their subject has.    *)

TextInv == subject \in Grammars => text \in Seq(Element(subject))

(* Every text consists of the elements of its subject.                     *)
LEMMA TextsAreTyped == SyntaxSpec => []TextInv
<1>1. SyntaxInit => TextInv
  <2> SUFFICES ASSUME SyntaxInit, subject \in Grammars PROVE text \in Seq(Element(subject))
    BY DEF TextInv
  <2>1. subject # "body"
    BY Zenon DEF Grammars
  <2>2. text \in Texts[subject].seeds
    BY <2>1 DEF SyntaxInit
  <2> QED BY <2>2, SyntaxAssumption
<1>2. TextInv /\ [SyntaxNext]_svars => TextInv'
  <2> SUFFICES ASSUME TextInv, [SyntaxNext]_svars, subject' \in Grammars
               PROVE  text' \in Seq(Element(subject'))
    BY DEF TextInv
  <2>1. CASE grow
    <3>1. subject' = subject /\ subject \in Grammars /\ text \in Seq(Element(subject))
      BY <2>1 DEF grow, TextInv
    <3>2. PICK e \in Texts[subject].elements : text' = Append(text, e)
      BY <2>1, Zenon DEF grow
    <3>3. e \in Element(subject)
      BY <3>1, <3>2, SyntaxAssumption, Zenon
    <3> QED BY <3>1, <3>2, <3>3, Appended
  <2>2. CASE UNCHANGED <<subject, text>>
    BY <2>2 DEF TextInv
  <2> QED BY <2>1, <2>2 DEF SyntaxNext, svars
<1> QED BY <1>1, <1>2, PTL DEF SyntaxSpec

(* HostIsUriHost follows for every Host value.                             *)
LEMMA HostGrammarHolds == TextInv => HostIsUriHost
<1> SUFFICES ASSUME TextInv, subject = "host", NEW version \in Version
             PROVE  /\ valid_host(version, <<text>>) <=> HostGrammar(text)
                    /\ ~valid_host(version, <<text, text>>)
                    /\ valid_host(version, <<>>) <=> version = "Http10"
  BY Zenon DEF HostIsUriHost
<1>1. text \in Seq(HostByte)
  BY DEF TextInv, Grammars, Element
<1>2. /\ Len(<<text>>) <= 1 /\ <<text>> # <<>> /\ <<text>>[1] = text
      /\ ~(Len(<<text, text>>) <= 1) /\ Len(<<>>) <= 1
  OBVIOUS
<1>3. valid_host(version, <<text>>) <=> valid_authority(text)
  BY <1>2, Zenon DEF valid_host
<1>4. valid_authority(text) <=> HostGrammar(text)
  BY <1>1, AuthorityIsGrammar, Zenon
<1> QED BY <1>2, <1>3, <1>4, Zenon DEF valid_host

(* valid_host (wire.rs) accepts one Host field exactly if its value is a   *)
(* uri-host with an optional port, however long it is; two fields never,   *)
(* and none only in HTTP/1.0.                                              *)
THEOREM HostsAreUriHosts == SyntaxSpec => []HostIsUriHost
BY TextsAreTyped, HostGrammarHolds, PTL

(* A list of headers, however long, has a body length only if it states    *)
(* one thing: the one coding chunked, in HTTP/1.1 and without a length, or *)
(* lengths that denote one number, without a coding (`framing`, wire.rs).  *)
THEOREM FramingIsClear == SyntaxSpec => []FramingIsUnambiguous
<1>1. TextInv => FramingIsUnambiguous
  <2> SUFFICES ASSUME TextInv, subject = "headers" PROVE FramingIsUnambiguous
    BY Zenon DEF FramingIsUnambiguous
  <2>1. text \in Seq(FieldLine(Name))
    BY DEF TextInv, Grammars, Element
  <2>2. \A version \in Version :
           Unambiguous(framing(text, version), header_values(text, "transfer-encoding"),
                       header_values(text, "content-length"), version)
    BY <2>1, FramingCases, Zenon
  <2> QED BY <2>2, Zenon DEF FramingIsUnambiguous, Unambiguous
<1> QED BY <1>1, TextsAreTyped, PTL

(* set_connection_close (wire.rs) leaves one Connection field that says    *)
(* close and not keep-alive, whatever the list was and however long; it    *)
(* keeps the other options and fields, the framing and the upgrade, and a  *)
(* second call changes nothing.                                            *)
THEOREM CloseIsWrittenOnce == SyntaxSpec => []CloseReplacesKeepAlive
<1>1. TextInv => CloseReplacesKeepAlive
  <2> SUFFICES ASSUME TextInv, subject = "headers" PROVE CloseReplacesKeepAlive
    BY Zenon DEF CloseReplacesKeepAlive
  <2>1. text \in Seq(FieldLine(Name))
    BY DEF TextInv, Grammars, Element
  <2>2. Replaced(set_connection_close(text), text)
    BY <2>1, CloseReplaces, Zenon
  <2> QED BY <2>2, Zenon DEF CloseReplacesKeepAlive, Replaced, Other
<1> QED BY <1>1, TextsAreTyped, PTL
============================================================================
