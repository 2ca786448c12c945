-------------------------- MODULE ChunkScanProofs --------------------------
(***************************************************************************)
(* The chunked reader decides a stream as a decoder does that sees it      *)
(* whole, for all streams, limits and orders of calls.                     *)
(***************************************************************************)
EXTENDS ChunkScan, SequenceTheorems, WellFoundedInduction, TLAPS

----------------------------------------------------------------------------
(* Induction.  Proofs by induction are proofs by a least counterexample.   *)

(* A set of numbers that is not empty has a least one.                     *)
LEMMA LeastNumber ==
    ASSUME NEW T \in SUBSET Nat, T # {}
    PROVE  \E x \in T : \A y \in T : x <= y
<1> DEFINE R == OpToRel(<, Nat)
<1>1. IsWellFoundedOn(R, Nat)
  BY NatLessThanWellFounded, Zenon
<1>2. \A y, x \in Nat : y < x => <<y, x>> \in R
  BY DEF OpToRel
<1> HIDE DEF R
<1>3. PICK x \in T : \A y \in T : ~(<<y, x>> \in R)
  BY <1>1, WFMin, Zenon
<1>4. ASSUME NEW y \in T PROVE x <= y
  <2>1. x \in Nat /\ y \in Nat
    OBVIOUS
  <2>2. ~(y < x)
    BY <1>2, <1>3, <2>1, Zenon
  <2> QED BY <2>1, <2>2
<1> QED BY <1>4

(* A set of numbers with 0 and with every successor has all of them.       *)
LEMMA AllNumbers ==
    ASSUME NEW P \in SUBSET Nat, 0 \in P, \A n \in P : n + 1 \in P
    PROVE  P = Nat
<1> SUFFICES ASSUME Nat \ P # {} PROVE FALSE
  BY Zenon
<1>1. PICK x \in Nat \ P : \A y \in Nat \ P : x <= y
  BY LeastNumber, Zenon
<1>2. x # 0 /\ x - 1 \in Nat /\ ~(x <= x - 1)
  BY <1>1
<1>3. x - 1 \in P
  BY <1>1, <1>2
<1>4. (x - 1) + 1 = x
  BY <1>1
<1> QED BY <1>1, <1>3, <1>4

(* E gives the value at p from those at places of a smaller measure m.     *)
IsRecursive(D, V, M, m, E) ==
    /\ m \in [D -> 0..M]
    /\ E \in [D -> [[D -> V] -> V]]
    /\ \A p \in D : \A f, g \in [D -> V] :
          (\A q \in D : m[q] < m[p] => f[q] = g[q]) => E[p][f] = E[p][g]

HasSolution(D, V, E) == \E f \in [D -> V] : \A p \in D : f[p] = E[p][f]

(* A recursive definition has a solution.                                  *)
LEMMA Recursion ==
    ASSUME NEW D, NEW V, NEW v \in V, NEW M \in Nat, NEW m, NEW E, IsRecursive(D, V, M, m, E)
    PROVE  HasSolution(D, V, E)
<1> SUFFICES ASSUME m \in [D -> 0..M], E \in [D -> [[D -> V] -> V]],
                    \A p \in D : \A f, g \in [D -> V] :
                        (\A q \in D : m[q] < m[p] => f[q] = g[q]) => E[p][f] = E[p][g]
             PROVE  \E f \in [D -> V] : \A p \in D : f[p] = E[p][f]
  BY Zenon DEF IsRecursive, HasSolution
<1> DEFINE P == {n \in Nat : \E f \in [D -> V] : \A p \in D : m[p] < n => f[p] = E[p][f]}
<1>1. 0 \in P
  <2>1. [p \in D |-> v] \in [D -> V]
    OBVIOUS
  <2>2. \A p \in D : ~(m[p] < 0)
    OBVIOUS
  <2> QED BY <2>1, <2>2, Zenon
<1>2. ASSUME NEW n \in P PROVE n + 1 \in P
  <2>1. PICK f \in [D -> V] : \A p \in D : m[p] < n => f[p] = E[p][f]
    BY <1>2
  <2> DEFINE g == [p \in D |-> E[p][f]]
  <2>2. g \in [D -> V] /\ n \in Nat
    BY <1>2
  <2>3. \A p \in D : g[p] = E[p][f]
    OBVIOUS
  <2> HIDE DEF g
  <2>4. ASSUME NEW p \in D, m[p] < n + 1 PROVE g[p] = E[p][g]
    <3>1. ASSUME NEW q \in D, m[q] < m[p] PROVE f[q] = g[q]
      <4>1. m[q] \in Int /\ m[p] \in Int
        OBVIOUS
      <4>2. m[q] < n
        BY <2>2, <2>4, <3>1, <4>1
      <4> QED BY <2>1, <2>3, <4>2
    <3>2. E[p][f] = E[p][g]
      BY <2>2, <3>1, Zenon
    <3> QED BY <2>3, <3>2
  <2> QED BY <2>2, <2>4
<1>3. P \in SUBSET Nat
  OBVIOUS
<1> HIDE DEF P
<1>4. P = Nat
  BY <1>1, <1>2, <1>3, AllNumbers
<1>5. M + 1 \in P
  BY <1>4
<1>6. PICK f \in [D -> V] : \A p \in D : m[p] < M + 1 => f[p] = E[p][f]
  BY <1>5 DEF P
<1>7. \A p \in D : m[p] < M + 1
  OBVIOUS
<1> QED BY <1>6, <1>7

----------------------------------------------------------------------------
(* Lines.                                                                  *)

(* Min of a set of numbers that is not empty is its least element.         *)
LEMMA MinIsLeast ==
    ASSUME NEW S \in SUBSET Nat, S # {}
    PROVE  Min(S) \in S /\ \A y \in S : Min(S) <= y
BY LeastNumber, Zenon DEF Min

(* The smaller of two numbers.                                             *)
LEMMA MinOfTwo ==
    ASSUME NEW a \in Nat, NEW b \in Nat
    PROVE  Min({a, b}) = IF a <= b THEN a ELSE b
<1>1. {a, b} \in SUBSET Nat /\ {a, b} # {}
  OBVIOUS
<1>2. Min({a, b}) \in {a, b} /\ \A y \in {a, b} : Min({a, b}) <= y
  BY <1>1, MinIsLeast
<1> QED BY <1>2

(* A line end at i of data.                                                *)
CrlfAt(data, i) == data[i - 1] = "CR" /\ data[i] = "LF"

(* find_crlf gives the end of the first line end at or behind start, and 0 *)
(* if there is none.                                                       *)
LEMMA FindCrlf ==
    ASSUME NEW data \in Seq(ChunkByte), NEW start \in Nat
    PROVE  LET end == find_crlf(data, start) IN
           /\ end \in Nat
           /\ end = 0 => \A i \in (start + 2)..Len(data) : ~CrlfAt(data, i)
           /\ end # 0 => /\ end \in (start + 2)..Len(data) /\ CrlfAt(data, end)
                         /\ \A i \in (start + 2)..(end - 1) : ~CrlfAt(data, i)
<1> DEFINE ends == {i \in (start + 2)..Len(data) : data[i - 1] = "CR" /\ data[i] = "LF"}
           end == find_crlf(data, start)
<1>1. end = IF ends = {} THEN 0 ELSE Min(ends)
  BY DEF find_crlf
<1>2. ends \in SUBSET Nat /\ 0 \notin ends /\ Len(data) \in Nat
  OBVIOUS
<1>3. CASE ends = {}
  BY <1>1, <1>3 DEF CrlfAt
<1>4. CASE ends # {}
  <2>1. end \in ends /\ \A y \in ends : end <= y
    BY <1>1, <1>2, <1>4, MinIsLeast, Zenon
  <2>2. end \in (start + 2)..Len(data) /\ CrlfAt(data, end)
    BY <2>1 DEF CrlfAt
  <2>3. ASSUME NEW i \in (start + 2)..(end - 1) PROVE ~CrlfAt(data, i)
    <3>1. i \in (start + 2)..Len(data) /\ ~(end <= i)
      BY <1>2, <2>2
    <3> QED BY <2>1, <3>1 DEF CrlfAt
  <2> QED BY <2>2, <2>3
<1> QED BY <1>3, <1>4

(* The same from the beginning.                                            *)
LEMMA FirstCrlf ==
    ASSUME NEW data \in Seq(ChunkByte)
    PROVE  LET end == find_crlf(data, 0) IN
           /\ end \in Nat
           /\ end = 0 => \A i \in 2..Len(data) : ~CrlfAt(data, i)
           /\ end # 0 => /\ end \in 2..Len(data) /\ CrlfAt(data, end)
                         /\ \A i \in 2..(end - 1) : ~CrlfAt(data, i)
<1>1. 0 \in Nat /\ 0 + 2 = 2
  OBVIOUS
<1> DEFINE end == find_crlf(data, 0)
<1> HIDE DEF end
<1>2. /\ end \in Nat
      /\ end = 0 => \A i \in (0 + 2)..Len(data) : ~CrlfAt(data, i)
      /\ end # 0 => /\ end \in (0 + 2)..Len(data) /\ CrlfAt(data, end)
                    /\ \A i \in (0 + 2)..(end - 1) : ~CrlfAt(data, i)
  BY <1>1, FindCrlf, Zenon DEF end
<1>3. /\ end \in Nat
      /\ end = 0 => \A i \in 2..Len(data) : ~CrlfAt(data, i)
      /\ end # 0 => /\ end \in 2..Len(data) /\ CrlfAt(data, end)
                    /\ \A i \in 2..(end - 1) : ~CrlfAt(data, i)
  BY <1>1, <1>2
<1> QED BY <1>3, Zenon DEF end

(* Where the search begins makes no difference if there is nothing before. *)
LEMMA SearchedBefore ==
    ASSUME NEW data \in Seq(ChunkByte), NEW start \in Nat,
           \A i \in 2..(start + 1) : i <= Len(data) => ~CrlfAt(data, i)
    PROVE  find_crlf(data, start) = find_crlf(data, 0)
<1> DEFINE S(k) == {i \in (k + 2)..Len(data) : data[i - 1] = "CR" /\ data[i] = "LF"}
<1>1. S(start) = S(0)
  BY DEF CrlfAt
<1> QED BY <1>1, Zenon DEF find_crlf
----------------------------------------------------------------------------
(* Numbers.                                                                *)

Usize == 0..UsizeMax

(* A step of parse_number stays within usize, or fails.                    *)
LEMMA AccumulateType ==
    ASSUME NEW n \in Usize \cup {None}, NEW radix \in Nat, NEW digit \in Nat \cup {None}
    PROVE  Accumulate(n, radix, digit) \in Usize \cup {None}
<1>1. CASE n = None \/ digit = None
  BY <1>1 DEF Accumulate
<1>2. CASE n \in Nat /\ digit \in Nat
  <2>1. n * radix + digit \in Nat
    BY <1>2
  <2> DEFINE k == n * radix + digit
  <2>2. Checked(k) \in Usize \cup {None}
    <3> HIDE DEF k
    <3> QED BY <2>1, UsizeAssumption DEF Checked, Usize, None, k
  <2> QED BY <2>2 DEF Accumulate
<1> QED BY <1>1, <1>2 DEF Usize

(* A digit is a number or none.                                            *)
LEMMA DigitType ==
    ASSUME NEW byte, NEW radix PROVE to_digit(byte, radix) \in Nat \cup {None}
BY DEF to_digit

(* parse_number never leaves the width of usize.                           *)
LEMMA ParseNumberType ==
    ASSUME NEW value \in Seq(ChunkByte), NEW radix \in Nat
    PROVE  parse_number(value, radix) \in Usize \cup {None}
<1> DEFINE D == 0..Len(value)
           V == Usize \cup {None}
           Step(f, i) == IF i = 0 THEN 0
                         ELSE Accumulate(f[i - 1], radix, to_digit(value[i], radix))
           E == [i \in D |-> [f \in [D -> V] |-> Step(f, i)]]
           m == [i \in D |-> i]
           Parsed == CHOOSE f : f = [i \in D |-> Step(f, i)]
<1>0. Len(value) \in Nat /\ 0 \in V /\ 0 \in D
  BY UsizeAssumption DEF Usize
<1>1. ASSUME NEW f, NEW i \in D, i # 0 => f[i - 1] \in V PROVE Step(f, i) \in V
  BY <1>0, <1>1, AccumulateType, DigitType, Zenon
<1>2. E \in [D -> [[D -> V] -> V]]
  <2>1. ASSUME NEW f \in [D -> V], NEW i \in D PROVE Step(f, i) \in V
    <3>1. i # 0 => i - 1 \in D
      BY <1>0
    <3> HIDE DEF Step, D, V
    <3> QED BY <1>1, <3>1
  <2> HIDE DEF Step, D, V
  <2> QED BY <2>1
<1>3. ASSUME NEW i \in D, NEW f \in [D -> V], NEW g \in [D -> V],
             \A j \in D : m[j] < m[i] => f[j] = g[j]
      PROVE  E[i][f] = E[i][g]
  <2>1. i # 0 => i - 1 \in D /\ m[i - 1] < m[i]
    BY <1>0
  <2>2. Step(f, i) = Step(g, i)
    BY <1>3, <2>1
  <2> HIDE DEF Step, D, V
  <2> QED BY <2>2
<1>4. m \in [D -> 0..Len(value)]
  OBVIOUS
<1>5. PICK f \in [D -> V] : \A i \in D : f[i] = E[i][f]
  <2> HIDE DEF D, V, E, m
  <2>1. \A i \in D : \A f, g \in [D -> V] :
            (\A j \in D : m[j] < m[i] => f[j] = g[j]) => E[i][f] = E[i][g]
    BY <1>3
  <2>2. IsRecursive(D, V, Len(value), m, E)
    BY <1>2, <1>4, <2>1, Zenon DEF IsRecursive
  <2>3. HasSolution(D, V, E)
    BY <1>0, <2>2, Recursion, Zenon
  <2> QED BY <2>3 DEF HasSolution
<1>6. f = [i \in D |-> Step(f, i)]
  <2> HIDE DEF D, V, Step
  <2> QED BY <1>5
<1>7. Parsed = [i \in D |-> Step(Parsed, i)]
  <2> HIDE DEF D, V, Step
  <2> QED BY <1>6
<1> DEFINE P == {n \in Nat : n \in D => Parsed[n] \in V}
<1>8. parse_number(value, radix) = IF value = <<>> THEN None ELSE Parsed[Len(value)]
  BY DEF parse_number
<1> HIDE DEF Parsed
<1>9. \A i \in D : Parsed[i] = Step(Parsed, i)
  BY <1>7
<1>10. 0 \in P
  BY <1>0, <1>9
<1>11. ASSUME NEW n \in P PROVE n + 1 \in P
  <2>1. n + 1 \in D => n \in D /\ n + 1 # 0 /\ (n + 1) - 1 = n
    BY <1>0, <1>11
  <2> HIDE DEF Step, D, V
  <2> QED BY <1>1, <1>9, <1>11, <2>1
<1>12. P = Nat
  <2> HIDE DEF P
  <2>1. P \in SUBSET Nat
    BY DEF P
  <2> QED BY <1>10, <1>11, <2>1, AllNumbers
<1>13. Parsed[Len(value)] \in V
  BY <1>0, <1>12
<1> QED BY <1>8, <1>13

(* Skipping a class goes no further than the end of the line.              *)
LEMMA SkipType ==
    ASSUME NEW line \in Seq(ChunkByte), NEW class, Byte(line, Len(line) + 1) \notin class, NEW from \in 1..(Len(line) + 1)
    PROVE  Skip(line, from, class) \in from..(Len(line) + 1)
<1> DEFINE S == {i \in from..(Len(line) + 1) : Byte(line, i) \notin class}
<1>0. Len(line) \in Nat
  OBVIOUS
<1> HIDE DEF S
<1>1. Len(line) + 1 \in S
  <2>1. Len(line) + 1 \in from..(Len(line) + 1)
    BY <1>0
  <2> QED BY <2>1 DEF S
<1>2. S \in SUBSET Nat
  BY <1>0 DEF S
<1>3. Min(S) \in S
  BY <1>1, <1>2, MinIsLeast
<1> QED BY <1>3 DEF Skip, S

(* A chunk size is a number or none.                                       *)
LEMMA ChunkHeaderType ==
    ASSUME NEW line \in Seq(ChunkByte)
    PROVE  parse_chunk_header(line) \in Nat \cup {None}
<1> DEFINE digits == Skip(line, 1, HexDigit) - 1
<1>1. 1 \in 1..(Len(line) + 1) /\ Byte(line, Len(line) + 1) \notin HexDigit
  <2>1. ~(Len(line) + 1 <= Len(line)) /\ 1 \in 1..(Len(line) + 1)
    OBVIOUS
  <2>2. Byte(line, Len(line) + 1) = ""
    BY <2>1, Zenon DEF Byte
  <2> QED BY <2>1, <2>2, Zenon DEF HexDigit
<1>2. Skip(line, 1, HexDigit) \in 1..(Len(line) + 1)
  BY <1>1, SkipType
<1>3. digits \in 0..Len(line)
  BY <1>2
<1>4. SubSeq(line, 1, digits) \in Seq(ChunkByte)
  BY <1>3
<1>5. parse_number(SubSeq(line, 1, digits), 16) \in Nat \cup {None}
  <2>1. parse_number(SubSeq(line, 1, digits), 16) \in Usize \cup {None}
    <3> HIDE DEF digits
    <3> QED BY <1>4, ParseNumberType, Zenon
  <2> QED BY <2>1, UsizeAssumption DEF Usize
<1> QED BY <1>5 DEF parse_chunk_header
----------------------------------------------------------------------------
(* Parts of a stream.                                                      *)

RestOf(s, p) == SubSeq(s, p + 1, Len(s))

(* A part of a sequence and its elements.                                  *)
LEMMA Cut ==
    ASSUME NEW S, NEW s \in Seq(S), NEW i \in 1..(Len(s) + 1), NEW j \in (i - 1)..Len(s)
    PROVE  /\ SubSeq(s, i, j) \in Seq(S)
           /\ Len(SubSeq(s, i, j)) = j - i + 1
           /\ \A k \in 1..(j - i + 1) : SubSeq(s, i, j)[k] = s[i + k - 1]
<1>1. Len(s) \in Nat
  OBVIOUS
<1>2. i \in Int /\ j \in Int /\ i - 1 <= j /\ 1 <= i /\ j <= Len(s)
  BY <1>1
<1>3. \A k \in i..j : s[k] \in S
  BY <1>1, <1>2, ElementOfSeq
<1>4. /\ SubSeq(s, i, j) \in Seq(S)
      /\ Len(SubSeq(s, i, j)) = IF i <= j THEN j - i + 1 ELSE 0
      /\ \A k \in 1..(j - i + 1) : SubSeq(s, i, j)[k] = s[i + k - 1]
  BY <1>2, <1>3, SubSeqProperties
<1>5. (IF i <= j THEN j - i + 1 ELSE 0) = j - i + 1
  BY <1>2
<1> QED BY <1>4, <1>5

(* Two cuts with the same elements are the same.                           *)
LEMMA SameCut ==
    ASSUME NEW S, NEW s \in Seq(S), NEW i \in 1..(Len(s) + 1), NEW j \in (i - 1)..Len(s),
           NEW t \in Seq(S), NEW h \in 1..(Len(t) + 1), NEW g \in (h - 1)..Len(t),
           j - i = g - h, \A k \in 1..(j - i + 1) : s[i + k - 1] = t[h + k - 1]
    PROVE  SubSeq(s, i, j) = SubSeq(t, h, g)
<1> DEFINE a == SubSeq(s, i, j)
           b == SubSeq(t, h, g)
<1>1. /\ a \in Seq(S) /\ Len(a) = j - i + 1
      /\ \A k \in 1..(j - i + 1) : a[k] = s[i + k - 1]
  BY Cut
<1>2. /\ b \in Seq(S) /\ Len(b) = g - h + 1
      /\ \A k \in 1..(g - h + 1) : b[k] = t[h + k - 1]
  BY Cut
<1>3. j - i + 1 = g - h + 1
  OBVIOUS
<1> HIDE DEF a, b
<1>4. Len(a) = Len(b) /\ \A k \in 1..Len(a) : a[k] = b[k]
  BY <1>1, <1>2, <1>3, Zenon
<1>5. a = b
  BY <1>1, <1>2, <1>4, SeqEqual
<1> QED BY <1>5 DEF a, b

(* What is behind p.                                                       *)
LEMMA RestFacts ==
    ASSUME NEW s \in Seq(ChunkByte), NEW p \in 0..Len(s)
    PROVE  /\ RestOf(s, p) \in Seq(ChunkByte)
           /\ Len(RestOf(s, p)) = Len(s) - p
           /\ \A k \in 1..(Len(s) - p) : RestOf(s, p)[k] = s[p + k]
<1>1. p + 1 \in 1..(Len(s) + 1) /\ Len(s) \in ((p + 1) - 1)..Len(s) /\ Len(s) \in Nat /\ p \in Nat
  OBVIOUS
<1>2. /\ RestOf(s, p) \in Seq(ChunkByte)
      /\ Len(RestOf(s, p)) = Len(s) - (p + 1) + 1
      /\ \A k \in 1..(Len(s) - (p + 1) + 1) : RestOf(s, p)[k] = s[(p + 1) + k - 1]
  BY <1>1, Cut DEF RestOf
<1>3. Len(s) - (p + 1) + 1 = Len(s) - p /\ \A k \in Int : (p + 1) + k - 1 = p + k
  BY <1>1
<1> QED BY <1>2, <1>3

(* What comes later does not change what is there.                         *)
LEMMA CutOfLonger ==
    ASSUME NEW s \in Seq(ChunkByte), NEW t \in Seq(ChunkByte),
           NEW i \in 1..(Len(s) + 1), NEW j \in (i - 1)..Len(s)
    PROVE  SubSeq(s \o t, i, j) = SubSeq(s, i, j)
<1> DEFINE u == s \o t
<1>1. /\ u \in Seq(ChunkByte) /\ Len(u) = Len(s) + Len(t)
      /\ \A k \in 1..(Len(s) + Len(t)) : u[k] = IF k <= Len(s) THEN s[k] ELSE t[k - Len(s)]
  BY ConcatProperties
<1> HIDE DEF u
<1>2. Len(s) \in Nat /\ Len(t) \in Nat
  OBVIOUS
<1>3. i \in 1..(Len(u) + 1) /\ j \in (i - 1)..Len(u)
  BY <1>1, <1>2
<1>4. \A k \in 1..(j - i + 1) : u[i + k - 1] = s[i + k - 1]
  BY <1>1, <1>2
<1>5. SubSeq(u, i, j) = SubSeq(s, i, j)
  BY <1>1, <1>3, <1>4, SameCut
<1> QED BY <1>5 DEF u

(* The beginning of what is behind p is a part of the stream.              *)
LEMMA CutOfRest ==
    ASSUME NEW s \in Seq(ChunkByte), NEW p \in 0..Len(s), NEW k \in 0..(Len(s) - p)
    PROVE  SubSeq(RestOf(s, p), 1, k) = SubSeq(s, p + 1, p + k)
<1>0. Len(s) \in Nat /\ p \in Nat /\ k \in Nat /\ p + k <= Len(s)
  OBVIOUS
<1>1. /\ RestOf(s, p) \in Seq(ChunkByte) /\ Len(RestOf(s, p)) = Len(s) - p
      /\ \A i \in 1..(Len(s) - p) : RestOf(s, p)[i] = s[p + i]
  BY RestFacts
<1> DEFINE r == RestOf(s, p)
<1> HIDE DEF r
<1>2. /\ 1 \in 1..(Len(r) + 1) /\ k \in (1 - 1)..Len(r)
      /\ p + 1 \in 1..(Len(s) + 1) /\ p + k \in ((p + 1) - 1)..Len(s)
      /\ k - 1 = (p + k) - (p + 1)
  BY <1>0, <1>1 DEF r
<1>3. \A i \in 1..(k - 1 + 1) : r[1 + i - 1] = s[(p + 1) + i - 1]
  BY <1>0, <1>1 DEF r
<1>4. r \in Seq(ChunkByte)
  BY <1>1 DEF r
<1>5. SubSeq(r, 1, k) = SubSeq(s, p + 1, p + k)
  BY <1>2, <1>3, <1>4, SameCut
<1> QED BY <1>5 DEF r
----------------------------------------------------------------------------
(* Chunk lines.                                                            *)

LineEnd(s, p) == find_crlf(RestOf(s, p), 0)
SizeAt(s, p) == parse_chunk_header(SubSeq(RestOf(s, p), 1, LineEnd(s, p) - 2))

(* At p of s is a chunk line of e bytes, its end included, for n bytes.    *)
Line(s, p, e, n) ==
    /\ p \in 0..Len(s)
    /\ e = LineEnd(s, p) /\ e # 0
    /\ n = SizeAt(s, p) /\ n # None
    /\ ~(e - 2 > MaxHead)

(* Where the line at p ends, if it does, and that its size can be asked    *)
(* for.                                                                    *)
LEMMA LineEndFacts ==
    ASSUME NEW s \in Seq(ChunkByte), NEW p \in 0..Len(s)
    PROVE  /\ LineEnd(s, p) \in Nat
           /\ LineEnd(s, p) # 0 =>
                /\ LineEnd(s, p) \in 2..(Len(s) - p)
                /\ SubSeq(RestOf(s, p), 1, LineEnd(s, p) - 2) \in Seq(ChunkByte)
                /\ SizeAt(s, p) \in Nat \cup {None}
<1>1. RestOf(s, p) \in Seq(ChunkByte) /\ Len(RestOf(s, p)) = Len(s) - p
  BY RestFacts
<1>2. /\ LineEnd(s, p) \in Nat
      /\ LineEnd(s, p) # 0 => LineEnd(s, p) \in (0 + 2)..Len(RestOf(s, p))
  BY <1>1, FindCrlf, Zenon DEF LineEnd
<1>3. LineEnd(s, p) # 0 => LineEnd(s, p) \in 2..(Len(s) - p)
  BY <1>1, <1>2
<1>4. ASSUME LineEnd(s, p) # 0
      PROVE  SubSeq(RestOf(s, p), 1, LineEnd(s, p) - 2) \in Seq(ChunkByte)
  <2>1. 1 \in 1..(Len(RestOf(s, p)) + 1) /\ LineEnd(s, p) - 2 \in (1 - 1)..Len(RestOf(s, p))
    BY <1>1, <1>3, <1>4
  <2> QED BY <1>1, <2>1, Cut
<1> QED BY <1>2, <1>3, <1>4, ChunkHeaderType, Zenon DEF SizeAt

(* The places and the size of a line are numbers in their ranges.          *)
LEMMA LineFacts ==
    ASSUME NEW s \in Seq(ChunkByte), NEW p, NEW e, NEW n, Line(s, p, e, n)
    PROVE  /\ p \in 0..Len(s) /\ e \in 2..(Len(s) - p) /\ n \in Nat
           /\ p \in Nat /\ e \in Nat /\ Len(s) \in Nat
<1>1. p \in 0..Len(s) /\ Len(s) \in Nat
  BY DEF Line
<1> QED BY <1>1, LineEndFacts DEF Line

(* What comes later does not change a line.                                *)
LEMMA LineStays ==
    ASSUME NEW s \in Seq(ChunkByte), NEW t \in Seq(ChunkByte),
           NEW p, NEW e, NEW n, Line(s, p, e, n)
    PROVE  Line(s \o t, p, e, n)
<1> DEFINE u == s \o t
           a == RestOf(s, p)
           b == RestOf(u, p)
<1>0. p \in 0..Len(s) /\ p \in Nat /\ Len(s) \in Nat /\ Len(t) \in Nat
  BY LineFacts
<1>1. /\ u \in Seq(ChunkByte) /\ Len(u) = Len(s) + Len(t)
      /\ \A k \in 1..(Len(s) + Len(t)) : u[k] = IF k <= Len(s) THEN s[k] ELSE t[k - Len(s)]
  BY ConcatProperties
<1> HIDE DEF u
<1>2. p \in 0..Len(u)
  BY <1>0, <1>1
<1>3. /\ a \in Seq(ChunkByte) /\ Len(a) = Len(s) - p
      /\ \A k \in 1..(Len(s) - p) : a[k] = s[p + k]
  BY <1>0, RestFacts
<1>4. /\ b \in Seq(ChunkByte) /\ Len(b) = Len(u) - p
      /\ \A k \in 1..(Len(u) - p) : b[k] = u[p + k]
  BY <1>1, <1>2, RestFacts, Zenon
<1> HIDE DEF a, b
<1>5. Len(a) <= Len(b) /\ Len(a) \in Nat /\ Len(b) \in Nat
  BY <1>0, <1>1, <1>3, <1>4
<1>6. ASSUME NEW k \in 1..Len(a) PROVE a[k] = b[k]
  <2>1. /\ k \in 1..(Len(s) - p) /\ k \in 1..(Len(u) - p)
        /\ p + k \in 1..(Len(s) + Len(t)) /\ p + k <= Len(s)
    BY <1>0, <1>1, <1>3
  <2>2. u[p + k] = s[p + k]
    BY <1>1, <2>1
  <2> QED BY <1>3, <1>4, <2>1, <2>2
<1>7. find_crlf(a, 0) = e /\ e # 0
  BY DEF Line, LineEnd, a
<1>8. e \in 2..Len(a) /\ CrlfAt(a, e) /\ \A i \in 2..(e - 1) : ~CrlfAt(a, i)
  BY <1>3, <1>7, FirstCrlf, Zenon
<1>9. CrlfAt(b, e) /\ \A i \in 2..(e - 1) : ~CrlfAt(b, i)
  <2>1. \A i \in 2..Len(a) : CrlfAt(a, i) <=> CrlfAt(b, i)
    BY <1>5, <1>6 DEF CrlfAt
  <2> QED BY <1>5, <1>8, <2>1
<1>10. find_crlf(b, 0) = e
  <2> DEFINE d == find_crlf(b, 0)
  <2>1. /\ d \in Nat
        /\ d = 0 => \A i \in 2..Len(b) : ~CrlfAt(b, i)
        /\ d # 0 => /\ d \in 2..Len(b) /\ CrlfAt(b, d)
                    /\ \A i \in 2..(d - 1) : ~CrlfAt(b, i)
    BY <1>4, FirstCrlf, Zenon
  <2> HIDE DEF d
  <2>2. e \in 2..Len(b) /\ e \in Nat
    BY <1>5, <1>8
  <2>3. d # 0
    BY <1>9, <2>1, <2>2
  <2>4. ~(d < e)
    BY <1>9, <2>1, <2>2, <2>3
  <2>5. ~(e < d)
    BY <1>9, <2>1, <2>2, <2>3
  <2>6. d = e
    BY <2>1, <2>2, <2>4, <2>5
  <2> QED BY <2>6 DEF d
<1>11. SubSeq(b, 1, e - 2) = SubSeq(a, 1, e - 2)
  <2>1. /\ 1 \in 1..(Len(a) + 1) /\ e - 2 \in (1 - 1)..Len(a)
        /\ 1 \in 1..(Len(b) + 1) /\ e - 2 \in (1 - 1)..Len(b)
    BY <1>5, <1>8
  <2>2. \A k \in 1..((e - 2) - 1 + 1) : b[1 + k - 1] = a[1 + k - 1]
    BY <1>5, <1>6, <1>8
  <2>3. (e - 2) - 1 = (e - 2) - 1
    OBVIOUS
  <2> QED BY <1>3, <1>4, <2>1, <2>2, SameCut
<1>12. LineEnd(u, p) = e /\ SizeAt(u, p) = SizeAt(s, p)
  BY <1>7, <1>10, <1>11, Zenon DEF LineEnd, SizeAt, a, b
<1>13. Line(u, p, e, n)
  BY <1>2, <1>12 DEF Line
<1> QED BY <1>13 DEF u
----------------------------------------------------------------------------
(* The reference decoder.                                                  *)

Chunk == [data : Seq(ChunkByte), closed : BOOLEAN]
Decoded == [verdict : {"bad", "more", "end"}, at : Nat, chunks : Seq(Chunk)]

(* What there is of the chunk behind the line at p.                        *)
Piece(s, p, e, n) ==
    [data |-> SubSeq(s, p + e + 1, Min({p + e + n, Len(s)})), closed |-> p + e + n <= Len(s)]

(* The decoder at a place without a line end: bad if the line is already   *)
(* too long.                                                               *)
LEMMA NoLineThere ==
    ASSUME NEW s, NEW p, NEW f, LineEnd(s, p) = 0
    PROVE  ChunkAt(s, p, f) =
             Stop(IF incomplete_line_len(RestOf(s, p)) > MaxHead THEN "bad" ELSE "more", p, <<>>)
BY Zenon DEF ChunkAt, LineEnd, RestOf

(* The decoder at a line that is too long or has no size.                  *)
LEMMA BadLineThere ==
    ASSUME NEW s, NEW p, NEW f, LineEnd(s, p) # 0,
           LineEnd(s, p) - 2 > MaxHead \/ SizeAt(s, p) = None
    PROVE  ChunkAt(s, p, f) = Stop("bad", p, <<>>)
BY Zenon DEF ChunkAt, LineEnd, SizeAt, RestOf

(* The decoder at the line of size 0.                                      *)
LEMMA LastLineThere ==
    ASSUME NEW s, NEW p, NEW f, NEW e, Line(s, p, e, 0)
    PROVE  ChunkAt(s, p, f) = Stop("end", p + e, <<>>)
BY Zenon DEF ChunkAt, Line, LineEnd, SizeAt, RestOf

WithChunk(s, p, e, n, f) ==
    LET this == Piece(s, p, e, n)
        behind == p + e + n
    IN IF behind + 2 > Len(s)
       THEN Stop("more", p, IF this.data = <<>> THEN <<>> ELSE <<this>>)
       ELSE IF s[behind + 1] # "CR" \/ s[behind + 2] # "LF" THEN Stop("bad", p, <<this>>)
       ELSE Stop(f[behind + 2].verdict, f[behind + 2].at, <<this>> \o f[behind + 2].chunks)

(* The decoder at the line of a chunk.                                     *)
LEMMA ChunkThere ==
    ASSUME NEW s, NEW p, NEW f, NEW e, NEW n, Line(s, p, e, n), n # 0
    PROVE  ChunkAt(s, p, f) = WithChunk(s, p, e, n, f)
<1>1. Piece(s, p, e, n).data = SubSeq(s, p + e + 1, Min({p + e + n, Len(s)}))
  BY Zenon DEF Piece
<1> QED BY <1>1, Zenon DEF ChunkAt, WithChunk, Line, LineEnd, SizeAt, RestOf, Piece

(* Every stream is at one of these at p.                                   *)
LEMMA LineCases ==
    ASSUME NEW s \in Seq(ChunkByte), NEW p \in 0..Len(s)
    PROVE  \/ LineEnd(s, p) = 0
           \/ LineEnd(s, p) # 0 /\ (LineEnd(s, p) - 2 > MaxHead \/ SizeAt(s, p) = None)
           \/ Line(s, p, LineEnd(s, p), SizeAt(s, p))
BY DEF Line

(* What is there of a chunk is a chunk.                                    *)
LEMMA PieceType ==
    ASSUME NEW s \in Seq(ChunkByte), NEW p, NEW e, NEW n, Line(s, p, e, n)
    PROVE  Piece(s, p, e, n) \in Chunk
<1>1. p \in Nat /\ e \in Nat /\ n \in Nat /\ p + e <= Len(s) /\ Len(s) \in Nat
  BY LineFacts
<1>2. p + e + n \in Nat /\ p + e <= p + e + n
  BY <1>1
<1> DEFINE top == Min({p + e + n, Len(s)})
<1>3. top = IF p + e + n <= Len(s) THEN p + e + n ELSE Len(s)
  BY <1>1, <1>2, MinOfTwo
<1> HIDE DEF top
<1>4. p + e + 1 \in 1..(Len(s) + 1) /\ top \in ((p + e + 1) - 1)..Len(s)
  BY <1>1, <1>2, <1>3
<1>5. SubSeq(s, p + e + 1, top) \in Seq(ChunkByte)
  BY <1>4, Cut
<1>6. (p + e + n <= Len(s)) \in BOOLEAN
  OBVIOUS
<1> QED BY <1>5, <1>6, Zenon DEF Piece, Chunk, top

(* Where the decoder stops it has a decision.                              *)
LEMMA StopType ==
    ASSUME NEW v \in {"bad", "more", "end"}, NEW p \in Nat, NEW seen \in Seq(Chunk)
    PROVE  Stop(v, p, seen) \in Decoded
BY DEF Stop, Decoded

(* The decoder has a decision at p if it has one behind p.                 *)
LEMMA ChunkAtType ==
    ASSUME NEW s \in Seq(ChunkByte), NEW p \in 0..Len(s), NEW f,
           \A q \in 0..Len(s) : q > p => f[q] \in Decoded
    PROVE  ChunkAt(s, p, f) \in Decoded
<1>0. p \in Nat /\ Len(s) \in Nat /\ <<>> \in Seq(Chunk)
  OBVIOUS
<1> DEFINE e == LineEnd(s, p)
           n == SizeAt(s, p)
           this == Piece(s, p, e, n)
           behind == p + e + n
<1>1. CASE e = 0
  BY <1>0, <1>1, NoLineThere, StopType, Zenon
<1>2. CASE e # 0 /\ (e - 2 > MaxHead \/ n = None)
  BY <1>0, <1>2, BadLineThere, StopType, Zenon
<1>3. CASE Line(s, p, e, n)
  <2>1. e \in 2..(Len(s) - p) /\ n \in Nat /\ e \in Nat
    BY <1>3, LineFacts
  <2>2. CASE n = 0
    <3>1. ChunkAt(s, p, f) = Stop("end", p + e, <<>>)
      BY <1>3, <2>2, LastLineThere
    <3>2. p + e \in Nat
      BY <1>0, <2>1
    <3> QED BY <1>0, <3>1, <3>2, StopType, Zenon
  <2>3. CASE n # 0
    <3>1. this \in Chunk
      BY <1>3, PieceType
    <3>2. <<this>> \in Seq(Chunk)
      BY <3>1
    <3>3. ChunkAt(s, p, f) =
             IF behind + 2 > Len(s)
             THEN Stop("more", p, IF this.data = <<>> THEN <<>> ELSE <<this>>)
             ELSE IF s[behind + 1] # "CR" \/ s[behind + 2] # "LF" THEN Stop("bad", p, <<this>>)
             ELSE Stop(f[behind + 2].verdict, f[behind + 2].at, <<this>> \o f[behind + 2].chunks)
      <4> HIDE DEF e, n
      <4>1. ChunkAt(s, p, f) = WithChunk(s, p, e, n, f)
        BY <1>3, <2>3, ChunkThere
      <4> QED BY <4>1, Zenon DEF WithChunk
    <3>4. behind \in Nat /\ behind + 2 > p
      BY <1>0, <2>1
    <3> HIDE DEF this, behind
    <3>5. CASE behind + 2 > Len(s)
      BY <1>0, <3>2, <3>3, <3>5, StopType, Zenon
    <3>6. CASE ~(behind + 2 > Len(s))
      <4> DEFINE rest == f[behind + 2]
      <4>1. behind + 2 \in 0..Len(s)
        BY <1>0, <3>4, <3>6
      <4>2. rest \in Decoded
        BY <3>4, <4>1
      <4> HIDE DEF rest
      <4>3. rest.verdict \in {"bad", "more", "end"} /\ rest.at \in Nat /\ rest.chunks \in Seq(Chunk)
        BY <4>2 DEF Decoded
      <4>4. <<this>> \o rest.chunks \in Seq(Chunk)
        BY <3>2, <4>3
      <4>5. Stop(rest.verdict, rest.at, <<this>> \o rest.chunks) \in Decoded
        BY <4>3, <4>4, StopType, Zenon
      <4>6. Stop("bad", p, <<this>>) \in Decoded
        BY <1>0, <3>2, StopType, Zenon
      <4> QED BY <3>3, <3>6, <4>5, <4>6, Zenon DEF rest
    <3> QED BY <3>5, <3>6
  <2> QED BY <2>2, <2>3
<1> QED BY <1>1, <1>2, <1>3, LineCases, Zenon
(* The decoder at p looks only behind p.                                   *)
LEMMA LooksBehind ==
    ASSUME NEW s \in Seq(ChunkByte), NEW p \in 0..Len(s), NEW f, NEW g,
           \A q \in 0..Len(s) : q > p => f[q] = g[q]
    PROVE  ChunkAt(s, p, f) = ChunkAt(s, p, g)
<1> DEFINE e == LineEnd(s, p)
           n == SizeAt(s, p)
           behind == p + e + n
<1>1. CASE e = 0
  BY <1>1, NoLineThere
<1>2. CASE e # 0 /\ (e - 2 > MaxHead \/ n = None)
  BY <1>2, BadLineThere
<1>3. CASE Line(s, p, e, n)
  <2>1. e \in Nat /\ n \in Nat /\ p \in Nat /\ Len(s) \in Nat /\ e \in 2..(Len(s) - p)
    BY <1>3, LineFacts
  <2> HIDE DEF e, n
  <2>2. CASE n = 0
    BY <1>3, <2>2, LastLineThere
  <2>3. CASE n # 0
    <3>1. ChunkAt(s, p, f) = WithChunk(s, p, e, n, f) /\ ChunkAt(s, p, g) = WithChunk(s, p, e, n, g)
      BY <1>3, <2>3, ChunkThere
    <3>2. ~(behind + 2 > Len(s)) => behind + 2 \in 0..Len(s) /\ behind + 2 > p
      BY <2>1
    <3>3. ~(behind + 2 > Len(s)) => f[behind + 2] = g[behind + 2]
      BY <3>2
    <3>4. WithChunk(s, p, e, n, f) = WithChunk(s, p, e, n, g)
      BY <3>3, Zenon DEF WithChunk
    <3> QED BY <3>1, <3>4
  <2> QED BY <2>2, <2>3
<1> QED BY <1>1, <1>2, <1>3, LineCases, Zenon

(* The definition of the decoder has a solution, and it is typed.          *)
LEMMA Decoding ==
    ASSUME NEW s \in Seq(ChunkByte)
    PROVE  \A p \in 0..Len(s) : From(s)[p] = ChunkAt(s, p, From(s)) /\ From(s)[p] \in Decoded
<1> DEFINE D == 0..Len(s)
           E == [p \in D |-> [f \in [D -> Decoded] |-> ChunkAt(s, p, f)]]
           m == [p \in D |-> Len(s) - p]
           F == From(s)
<1>0. Len(s) \in Nat
  OBVIOUS
<1>1. E \in [D -> [[D -> Decoded] -> Decoded]]
  <2>1. ASSUME NEW p \in D, NEW f \in [D -> Decoded] PROVE ChunkAt(s, p, f) \in Decoded
    BY ChunkAtType
  <2> HIDE DEF D
  <2> QED BY <2>1
<1>2. m \in [D -> 0..Len(s)]
  BY <1>0
<1>3. ASSUME NEW p \in D, NEW f \in [D -> Decoded], NEW g \in [D -> Decoded],
             \A q \in D : m[q] < m[p] => f[q] = g[q]
      PROVE  E[p][f] = E[p][g]
  <2>1. \A q \in D : q > p => m[q] < m[p]
    BY <1>0
  <2>2. \A q \in D : q > p => f[q] = g[q]
    BY <1>3, <2>1
  <2>3. ChunkAt(s, p, f) = ChunkAt(s, p, g)
    BY <2>2, LooksBehind
  <2> HIDE DEF D
  <2> QED BY <2>3
<1>4. PICK f \in [D -> Decoded] : \A p \in D : f[p] = E[p][f]
  <2> HIDE DEF D, E, m
  <2>1. \A p \in D : \A f, g \in [D -> Decoded] :
            (\A q \in D : m[q] < m[p] => f[q] = g[q]) => E[p][f] = E[p][g]
    BY <1>3
  <2>2. IsRecursive(D, Decoded, Len(s), m, E)
    BY <1>1, <1>2, <2>1, Zenon DEF IsRecursive
  <2>3. Stop("end", 0, <<>>) \in Decoded
    <3>1. 0 \in Nat /\ <<>> \in Seq(Chunk)
      OBVIOUS
    <3> QED BY <3>1, StopType, Zenon
  <2>4. HasSolution(D, Decoded, E)
    BY <1>0, <2>2, <2>3, Recursion, Zenon
  <2> QED BY <2>4 DEF HasSolution
<1>5. f = [p \in D |-> ChunkAt(s, p, f)]
  <2> HIDE DEF D
  <2> QED BY <1>4
<1>6. F = [p \in D |-> ChunkAt(s, p, F)]
  <2>1. F = CHOOSE h : h = [p \in D |-> ChunkAt(s, p, h)]
    BY DEF From
  <2> HIDE DEF D, F
  <2> QED BY <1>5, <2>1
<1> HIDE DEF F
<1>7. \A p \in D : F[p] = ChunkAt(s, p, F)
  BY <1>6
<1> DEFINE P == {k \in Nat : \A p \in D : Len(s) - p < k => F[p] \in Decoded}
<1>8. 0 \in P
  BY <1>0
<1>9. ASSUME NEW k \in P PROVE k + 1 \in P
  <2>1. k \in Nat /\ \A p \in D : Len(s) - p < k => F[p] \in Decoded
    BY <1>9
  <2>2. ASSUME NEW p \in D, Len(s) - p < k + 1 PROVE F[p] \in Decoded
    <3>1. ASSUME NEW q \in 0..Len(s), q > p PROVE F[q] \in Decoded
      <4>1. Len(s) - q < k
        BY <1>0, <2>1, <2>2, <3>1
      <4> QED BY <2>1, <4>1
    <3>2. ChunkAt(s, p, F) \in Decoded
      BY <3>1, ChunkAtType
    <3> QED BY <1>7, <3>2
  <2> QED BY <2>1, <2>2
<1>10. P \in SUBSET Nat
  OBVIOUS
<1> HIDE DEF P
<1>11. P = Nat
  BY <1>8, <1>9, <1>10, AllNumbers
<1>12. Len(s) + 1 \in P
  BY <1>0, <1>11
<1>13. ASSUME NEW p \in D PROVE F[p] \in Decoded
  <2>1. Len(s) - p < Len(s) + 1
    BY <1>0
  <2> QED BY <1>12, <2>1 DEF P
<1> QED BY <1>7, <1>13 DEF F
----------------------------------------------------------------------------
(* How far a stream is decoded.                                            *)

Continued(done, d) == Stop(d.verdict, d.at, done \o d.chunks)

(* However the stream s goes on, its body is the chunks done and what the  *)
(* decoder finds from p on.                                                *)
Reached(s, p, done) ==
    /\ p \in 0..Len(s) /\ done \in Seq(Chunk)
    /\ \A t \in Seq(ChunkByte) : Body(s \o t) = Continued(done, From(s \o t)[p])

Ended(s, p, done) == \A t \in Seq(ChunkByte) : Body(s \o t) = Stop("end", p, done)

WholeChunk(s, p, e, n) == [data |-> SubSeq(s, p + e + 1, p + e + n), closed |-> TRUE]

(* A chunk whose data are all there.                                       *)
LEMMA WholePiece ==
    ASSUME NEW s \in Seq(ChunkByte), NEW p, NEW e, NEW n, Line(s, p, e, n), p + e + n <= Len(s)
    PROVE  Piece(s, p, e, n) = WholeChunk(s, p, e, n)
<1>1. p + e + n \in Nat /\ Len(s) \in Nat
  BY LineFacts
<1>2. Min({p + e + n, Len(s)}) = p + e + n
  BY <1>1, MinOfTwo
<1>3. (p + e + n <= Len(s)) = TRUE
  OBVIOUS
<1> QED BY <1>2, <1>3, Zenon DEF Piece, WholeChunk

(* A chunk whose data are not all there.                                   *)
LEMMA PartPiece ==
    ASSUME NEW s \in Seq(ChunkByte), NEW p, NEW e, NEW n, Line(s, p, e, n), ~(p + e + n <= Len(s))
    PROVE  Piece(s, p, e, n) = [data |-> SubSeq(s, p + e + 1, Len(s)), closed |-> FALSE]
<1>1. p + e + n \in Nat /\ Len(s) \in Nat
  BY LineFacts
<1>2. Min({p + e + n, Len(s)}) = Len(s)
  BY <1>1, MinOfTwo
<1>3. (p + e + n <= Len(s)) = FALSE
  OBVIOUS
<1> QED BY <1>2, <1>3, Zenon DEF Piece

(* A stream to which bytes are appended begins as before.                  *)
LEMMA Longer ==
    ASSUME NEW s \in Seq(ChunkByte), NEW t \in Seq(ChunkByte)
    PROVE  /\ s \o t \in Seq(ChunkByte) /\ Len(s \o t) = Len(s) + Len(t)
           /\ Len(s) \in Nat /\ Len(s \o t) \in Nat /\ Len(s) <= Len(s \o t)
           /\ \A k \in 1..Len(s) : (s \o t)[k] = s[k]
<1> DEFINE u == s \o t
<1>1. /\ u \in Seq(ChunkByte) /\ Len(u) = Len(s) + Len(t)
      /\ \A k \in 1..(Len(s) + Len(t)) : u[k] = IF k <= Len(s) THEN s[k] ELSE t[k - Len(s)]
  BY ConcatProperties
<1>2. Len(s) \in Nat /\ Len(t) \in Nat
  OBVIOUS
<1> HIDE DEF u
<1>3. \A k \in 1..Len(s) : u[k] = s[k]
  BY <1>1, <1>2
<1>4. Len(u) \in Nat /\ Len(s) <= Len(u)
  BY <1>1, <1>2
<1> QED BY <1>1, <1>2, <1>3, <1>4 DEF u

(* More bytes do not change what was decoded up to p.                      *)
LEMMA ReachedStays ==
    ASSUME NEW s \in Seq(ChunkByte), NEW u \in Seq(ChunkByte), NEW p, NEW done,
           Reached(s, p, done)
    PROVE  Reached(s \o u, p, done)
<1>1. p \in 0..Len(s \o u)
  <2>1. p \in 0..Len(s)
    BY DEF Reached
  <2> QED BY <2>1, Longer
<1>2. ASSUME NEW t \in Seq(ChunkByte)
      PROVE  Body((s \o u) \o t) = Continued(done, From((s \o u) \o t)[p])
  <2>1. (s \o u) \o t = s \o (u \o t)
    BY ConcatAssociative
  <2>2. u \o t \in Seq(ChunkByte)
    BY Longer
  <2>3. Body(s \o (u \o t)) = Continued(done, From(s \o (u \o t))[p])
    BY <2>2, Zenon DEF Reached
  <2> QED BY <2>1, <2>3, Zenon
<1> QED BY <1>1, <1>2, Zenon DEF Reached

(* More bytes do not change where the body ended.                          *)
LEMMA EndedStays ==
    ASSUME NEW s \in Seq(ChunkByte), NEW u \in Seq(ChunkByte), NEW p, NEW done,
           Ended(s, p, done)
    PROVE  Ended(s \o u, p, done)
<1>1. ASSUME NEW t \in Seq(ChunkByte) PROVE Body((s \o u) \o t) = Stop("end", p, done)
  <2>1. (s \o u) \o t = s \o (u \o t)
    BY ConcatAssociative
  <2>2. u \o t \in Seq(ChunkByte)
    BY Longer
  <2>3. Body(s \o (u \o t)) = Stop("end", p, done)
    BY <2>2, Zenon DEF Ended
  <2> QED BY <2>1, <2>3, Zenon
<1> QED BY <1>1, Zenon DEF Ended

(* What the decoder finds in the bytes received so far.                    *)
LEMMA ReachedNow ==
    ASSUME NEW s \in Seq(ChunkByte), NEW p, NEW done, Reached(s, p, done)
    PROVE  Body(s) = Continued(done, ChunkAt(s, p, From(s)))
<1>1. s \o <<>> = s /\ <<>> \in Seq(ChunkByte)
  OBVIOUS
<1>2. Body(s \o <<>>) = Continued(done, From(s \o <<>>)[p]) /\ p \in 0..Len(s)
  BY <1>1, Zenon DEF Reached
<1>3. Body(s) = Continued(done, From(s)[p])
  BY <1>1, <1>2, Zenon
<1>4. From(s)[p] = ChunkAt(s, p, From(s))
  BY <1>2, Decoding
<1> QED BY <1>3, <1>4, Zenon

(* What the decoder finds if the body has ended.                           *)
LEMMA EndedNow ==
    ASSUME NEW s \in Seq(ChunkByte), NEW p, NEW done, Ended(s, p, done)
    PROVE  Body(s) = Stop("end", p, done)
<1>1. s \o <<>> = s /\ <<>> \in Seq(ChunkByte)
  OBVIOUS
<1>2. Body(s \o <<>>) = Stop("end", p, done)
  BY <1>1, Zenon DEF Ended
<1> QED BY <1>1, <1>2, Zenon

(* The line of the last chunk ends the body.                               *)
LEMMA ReachedLast ==
    ASSUME NEW s \in Seq(ChunkByte), NEW p, NEW done, NEW e,
           Reached(s, p, done), Line(s, p, e, 0)
    PROVE  Ended(s, p + e, done)
<1>0. done \in Seq(Chunk)
  BY DEF Reached
<1>1. ASSUME NEW t \in Seq(ChunkByte) PROVE Body(s \o t) = Stop("end", p + e, done)
  <2>1. s \o t \in Seq(ChunkByte) /\ Line(s \o t, p, e, 0) /\ Reached(s \o t, p, done)
    BY Longer, LineStays, ReachedStays
  <2>2. ChunkAt(s \o t, p, From(s \o t)) = Stop("end", p + e, <<>>)
    BY <2>1, LastLineThere
  <2>3. Body(s \o t) = Continued(done, Stop("end", p + e, <<>>))
    BY <2>1, <2>2, ReachedNow, Zenon
  <2>4. done \o <<>> = done
    BY <1>0
  <2>5. Continued(done, Stop("end", p + e, <<>>)) = Stop("end", p + e, done \o <<>>)
    BY DEF Continued, Stop
  <2> QED BY <2>3, <2>4, <2>5
<1> QED BY <1>1 DEF Ended

(* A chunk between two lists of chunks belongs to either.                  *)
LEMMA PutAmid ==
    ASSUME NEW a \in Seq(Chunk), NEW x \in Chunk, NEW b \in Seq(Chunk)
    PROVE  a \o (<<x>> \o b) = (a \o <<x>>) \o b
<1> DEFINE one == <<x>>
<1>1. one \in Seq(Chunk)
  OBVIOUS
<1> HIDE DEF one
<1>2. a \o (one \o b) = (a \o one) \o b
  BY <1>1, ConcatAssociative
<1> QED BY <1>2 DEF one

(* A chunk that is followed by its line end leads to the next line.        *)
LEMMA ReachedNext ==
    ASSUME NEW s \in Seq(ChunkByte), NEW p, NEW done, NEW e, NEW n,
           Reached(s, p, done), Line(s, p, e, n), n # 0, p + e + n + 2 <= Len(s),
           s[p + e + n + 1] = "CR", s[p + e + n + 2] = "LF"
    PROVE  Reached(s, p + e + n + 2, Append(done, WholeChunk(s, p, e, n)))
<1> DEFINE q == p + e + n
           this == WholeChunk(s, p, e, n)
<1>0. /\ done \in Seq(Chunk) /\ p \in Nat /\ e \in Nat /\ n \in Nat /\ Len(s) \in Nat
      /\ q \in Nat /\ q + 2 \in 0..Len(s) /\ q + 1 \in 1..Len(s) /\ q + 2 \in 1..Len(s)
  <2>1. done \in Seq(Chunk)
    BY DEF Reached
  <2>2. p \in Nat /\ e \in Nat /\ n \in Nat /\ Len(s) \in Nat
    BY LineFacts
  <2> QED BY <2>1, <2>2
<1>1. Piece(s, p, e, n) = this
  <2>1. q <= Len(s)
    BY <1>0
  <2> QED BY <2>1, WholePiece
<1>2. this \in Chunk
  BY <1>1, PieceType
<1> HIDE DEF this
<1>3. <<this>> \in Seq(Chunk) /\ Append(done, this) \in Seq(Chunk)
  BY <1>0, <1>2
<1>4. ASSUME NEW t \in Seq(ChunkByte)
      PROVE  Body(s \o t) = Continued(Append(done, this), From(s \o t)[q + 2])
  <2> DEFINE u == s \o t
             rest == From(u)[q + 2]
  <2>1. /\ u \in Seq(ChunkByte) /\ Len(u) \in Nat /\ Len(s) <= Len(u)
        /\ \A k \in 1..Len(s) : u[k] = s[k]
    BY Longer
  <2>2. Line(u, p, e, n) /\ Reached(u, p, done)
    BY LineStays, ReachedStays
  <2>3. SubSeq(u, p + e + 1, q) = SubSeq(s, p + e + 1, q)
    <3>1. p + e + 1 \in 1..(Len(s) + 1) /\ q \in ((p + e + 1) - 1)..Len(s)
      BY <1>0
    <3> QED BY <3>1, CutOfLonger, Zenon
  <2> HIDE DEF u
  <2>4. Piece(u, p, e, n) = this
    <3>1. q <= Len(u)
      BY <1>0, <2>1
    <3>2. Piece(u, p, e, n) = WholeChunk(u, p, e, n)
      BY <2>1, <2>2, <3>1, WholePiece
    <3> QED BY <2>3, <3>2, Zenon DEF WholeChunk, this
  <2>5. u[q + 1] = "CR" /\ u[q + 2] = "LF" /\ ~(q + 2 > Len(u)) /\ q + 2 \in 0..Len(u)
    BY <1>0, <2>1
  <2>6. WithChunk(u, p, e, n, From(u)) = Stop(rest.verdict, rest.at, <<this>> \o rest.chunks)
    BY <2>4, <2>5, Zenon DEF WithChunk
  <2>7. ChunkAt(u, p, From(u)) = Stop(rest.verdict, rest.at, <<this>> \o rest.chunks)
    BY <2>2, <2>6, ChunkThere
  <2>8. rest.chunks \in Seq(Chunk)
    <3>1. rest \in Decoded
      BY <2>1, <2>5, Decoding
    <3> QED BY <3>1 DEF Decoded
  <2>9. Body(u) = Continued(done, Stop(rest.verdict, rest.at, <<this>> \o rest.chunks))
    BY <2>1, <2>2, <2>7, ReachedNow
  <2> HIDE DEF rest
  <2>10. Continued(done, Stop(rest.verdict, rest.at, <<this>> \o rest.chunks))
           = Stop(rest.verdict, rest.at, done \o (<<this>> \o rest.chunks))
    BY DEF Continued, Stop
  <2>11. done \o (<<this>> \o rest.chunks) = (done \o <<this>>) \o rest.chunks
    BY <1>0, <1>2, <2>8, PutAmid, Zenon
  <2>12. done \o <<this>> = Append(done, this)
    BY <1>0, <1>2, AppendIsConcat
  <2>13. Body(u) = Continued(Append(done, this), rest)
    BY <2>9, <2>10, <2>11, <2>12, Zenon DEF Continued
  <2> QED BY <2>13 DEF u, rest
<1>5. Reached(s, q + 2, Append(done, this))
  BY <1>0, <1>3, <1>4, Zenon DEF Reached
<1> QED BY <1>5 DEF this

----------------------------------------------------------------------------
(* The invariant.                                                          *)

ChunkReader == [k : {"Size", "Data", "DataEnd", "Trailers"},
                scanned : Nat, remaining : Nat, first : BOOLEAN]
Mode == {"idle", "call", "asked", "failed", "trailers"}

BTypeOK ==
    /\ stream \in Seq(ChunkByte) /\ at \in 0..Len(stream)
    /\ reader \in ChunkReader /\ eof \in BOOLEAN /\ mode \in Mode
    /\ chunks \in Seq(Chunk)

(* The search for the end of a line has left nothing behind.               *)
Searched(data, scanned) ==
    /\ scanned = 0 \/ scanned + 1 <= Len(data)
    /\ \A i \in 2..(scanned + 1) : ~CrlfAt(data, i)

(* Of the chunk at p of s, ch has all up to to.                            *)
Partial(s, ch, p, done, e, n, to) ==
    /\ Reached(s, p, done) /\ Line(s, p, e, n) /\ n # 0
    /\ to \in (p + e)..(p + e + n)
    /\ ch = IF to = p + e THEN done
            ELSE Append(done, [data |-> SubSeq(s, p + e + 1, to), closed |-> to = p + e + n])

(* What the reader r stands for when the first a bytes of s are consumed.  *)
SizeAccount(s, a, r, ch) == Reached(s, a, ch) /\ Searched(RestOf(s, a), r.scanned)

DataAccount(s, a, r, ch) ==
    \E p, done, e, n :
        /\ Partial(s, ch, p, done, e, n, a)
        /\ r.remaining \in 1..n /\ a = p + e + n - r.remaining
        /\ r.first <=> r.remaining = n

DataEndAccount(s, a, ch) == \E p, done, e, n : Partial(s, ch, p, done, e, n, a) /\ a = p + e + n

Account(s, a, r, ch) ==
    /\ r.k = "Size" => SizeAccount(s, a, r, ch)
    /\ r.k = "Data" => DataAccount(s, a, r, ch)
    /\ r.k = "DataEnd" => DataEndAccount(s, a, ch)
    /\ r.k = "Trailers" => Ended(s, a, ch)

BInv == BTypeOK /\ Account(stream, at, reader, chunks) /\ StreamDecides

(* The readers are of their type.                                          *)
LEMMA ReaderTypes ==
    ASSUME NEW n \in Nat, NEW b \in BOOLEAN
    PROVE  /\ AtSize(n) \in ChunkReader /\ AtData(n, b) \in ChunkReader
           /\ At("DataEnd") \in ChunkReader /\ At("Trailers") \in ChunkReader
BY DEF AtSize, AtData, At, ChunkReader

(* A step that only moves the reader keeps the types.                      *)
LEMMA StillTyped ==
    ASSUME BTypeOK, UNCHANGED <<stream, eof>>, at' \in 0..Len(stream), reader' \in ChunkReader,
           mode' \in Mode, chunks' \in Seq(Chunk)
    PROVE  BTypeOK'
BY DEF BTypeOK

(* The invariant holds at the beginning.                                   *)
LEMMA InitBInv == Init => BInv
<1> SUFFICES ASSUME Init PROVE BInv
  OBVIOUS
<1>1. BTypeOK
  <2>1. stream \in Seq(ChunkByte) /\ at \in 0..Len(stream) /\ chunks \in Seq(Chunk)
    BY DEF Init
  <2>2. reader \in ChunkReader
    BY ReaderTypes, Zenon DEF Init
  <2> QED BY <2>1, <2>2, Zenon DEF Init, BTypeOK, Mode
<1>2. reader.k = "Size" /\ reader.scanned = 0 /\ mode = "idle"
  BY DEF Init, AtSize
<1>3. SizeAccount(stream, at, reader, chunks)
  <2>1. ASSUME NEW t \in Seq(ChunkByte)
        PROVE  Body(stream \o t) = Continued(chunks, From(stream \o t)[at])
    <3> DEFINE u == stream \o t
               d == From(u)[0]
    <3>1. u \in Seq(ChunkByte) /\ Len(u) \in Nat
      BY <1>1, Longer DEF BTypeOK
    <3> HIDE DEF u
    <3>2. d \in Decoded
      <4>1. 0 \in 0..Len(u)
        BY <3>1
      <4> QED BY <3>1, <4>1, Decoding
    <3>3. Body(u) = d
      BY DEF Body
    <3> HIDE DEF d
    <3>4. <<>> \o d.chunks = d.chunks
      BY <3>2 DEF Decoded
    <3>5. Stop(d.verdict, d.at, d.chunks) = d
      BY <3>2 DEF Decoded, Stop
    <3>6. d = Continued(<<>>, d)
      BY <3>4, <3>5 DEF Continued
    <3> QED BY <3>3, <3>6, Zenon DEF Init, u, d
  <2>2. Reached(stream, at, chunks)
    BY <1>1, <2>1, Zenon DEF Reached, BTypeOK
  <2>3. Searched(RestOf(stream, at), 0)
    BY DEF Searched
  <2> QED BY <1>2, <2>2, <2>3 DEF SizeAccount
<1>4. StreamDecides
  BY <1>2 DEF StreamDecides
<1>5. Account(stream, at, reader, chunks)
  BY <1>2, <1>3 DEF Account
<1> QED BY <1>1, <1>4, <1>5 DEF BInv

(* The answers of a call: of none is claimed anything while it lasts.      *)
LEMMA NothingSaid ==
    ASSUME mode' \in {"idle", "call"} PROVE StreamDecides'
BY DEF StreamDecides

(* The unread bytes.                                                       *)
LEMMA InputFacts ==
    ASSUME BTypeOK
    PROVE  /\ input = RestOf(stream, at)
           /\ input \in Seq(ChunkByte) /\ Len(input) = Len(stream) - at
           /\ Len(stream) \in Nat /\ at \in Nat /\ Len(input) \in Nat
           /\ \A k \in 1..Len(input) : input[k] = stream[at + k]
<1>1. stream \in Seq(ChunkByte) /\ at \in 0..Len(stream)
  BY DEF BTypeOK
<1>2. input = RestOf(stream, at)
  BY DEF input, RestOf
<1>3. /\ RestOf(stream, at) \in Seq(ChunkByte) /\ Len(RestOf(stream, at)) = Len(stream) - at
      /\ \A k \in 1..(Len(stream) - at) : RestOf(stream, at)[k] = stream[at + k]
  BY <1>1, RestFacts, Zenon
<1>4. Len(stream) \in Nat /\ at \in Nat /\ Len(stream) - at \in Nat
  BY <1>1
<1> QED BY <1>2, <1>3, <1>4

(* A call of next_event begins.                                            *)
LEMMA NextEventKeeps == BInv /\ next_event => BInv'
<1> SUFFICES ASSUME BInv, next_event PROVE BInv'
  OBVIOUS
<1>1. /\ UNCHANGED <<stream, at, reader, eof, chunks>> /\ mode' = "call"
  BY DEF next_event
<1>2. BTypeOK'
  BY <1>1 DEF BInv, BTypeOK, Mode
<1>3. StreamDecides'
  BY <1>1, NothingSaid
<1> QED BY <1>1, <1>2, <1>3 DEF BInv

(* Reaching the trailers keeps the invariant.                              *)
LEMMA TrailersKeep == BInv /\ read_trailers => BInv'
<1> SUFFICES ASSUME BInv, read_trailers PROVE BInv'
  OBVIOUS
<1>1. /\ UNCHANGED <<stream, at, reader, eof, chunks>> /\ mode' = "trailers"
      /\ reader.k = "Trailers"
  BY DEF read_trailers
<1>2. BTypeOK' /\ stream \in Seq(ChunkByte)
  BY <1>1 DEF BInv, BTypeOK, Mode
<1>3. Body(stream) = Stop("end", at, chunks)
  BY <1>1, <1>2, EndedNow DEF BInv, Account
<1>4. StreamDecides'
  BY <1>1, <1>3 DEF StreamDecides, Stop
<1> QED BY <1>1, <1>2, <1>4 DEF BInv

(* More bytes leave every account as it is.                                *)
LEMMA AccountStays ==
    ASSUME NEW s \in Seq(ChunkByte), NEW u \in Seq(ChunkByte), NEW a \in 0..Len(s), NEW r, NEW ch,
           r.scanned \in Nat, Account(s, a, r, ch)
    PROVE  Account(s \o u, a, r, ch)
<1> DEFINE v == s \o u
<1>0. /\ v \in Seq(ChunkByte) /\ Len(s) \in Nat /\ Len(v) \in Nat /\ Len(s) <= Len(v)
      /\ \A k \in 1..Len(s) : v[k] = s[k]
  BY Longer
<1>1. ASSUME SizeAccount(s, a, r, ch) PROVE SizeAccount(v, a, r, ch)
  <2>1. Reached(v, a, ch)
    BY <1>1, ReachedStays DEF SizeAccount
  <2> DEFINE x == RestOf(s, a)
             y == RestOf(v, a)
  <2> HIDE DEF v
  <2>2. Len(x) = Len(s) - a /\ \A k \in 1..(Len(s) - a) : x[k] = s[a + k]
    BY RestFacts
  <2>3. Len(y) = Len(v) - a /\ \A k \in 1..(Len(v) - a) : y[k] = v[a + k]
    <3>1. a \in 0..Len(v)
      BY <1>0
    <3> QED BY <1>0, <3>1, RestFacts
  <2>4. Searched(x, r.scanned)
    BY <1>1 DEF SizeAccount
  <2> HIDE DEF x, y
  <2>5. Len(x) <= Len(y) /\ Len(x) \in Nat /\ Len(y) \in Nat /\ a \in Nat
    BY <1>0, <2>2, <2>3
  <2>6. ASSUME NEW k \in 1..Len(x) PROVE x[k] = y[k]
    <3>1. k \in 1..(Len(s) - a) /\ k \in 1..(Len(v) - a) /\ a + k \in 1..Len(s)
      BY <1>0, <2>2, <2>5
    <3> QED BY <1>0, <2>2, <2>3, <3>1
  <2>7. ASSUME NEW i \in 2..(r.scanned + 1) PROVE ~CrlfAt(y, i)
    <3>1. ~CrlfAt(x, i)
      BY <2>4, <2>7 DEF Searched
    <3>2. i \in 1..Len(x) /\ i - 1 \in 1..Len(x)
      BY <2>4, <2>5, <2>7 DEF Searched
    <3> QED BY <2>6, <3>1, <3>2 DEF CrlfAt
  <2>8. r.scanned = 0 \/ r.scanned + 1 <= Len(y)
    BY <2>4, <2>5 DEF Searched
  <2>9. Searched(y, r.scanned)
    BY <2>7, <2>8 DEF Searched
  <2> QED BY <2>1, <2>9 DEF SizeAccount, y
<1>2. ASSUME NEW p, NEW done, NEW e, NEW n, Partial(s, ch, p, done, e, n, a)
      PROVE  Partial(v, ch, p, done, e, n, a)
  <2>1. Reached(v, p, done) /\ Line(v, p, e, n)
    BY <1>2, ReachedStays, LineStays DEF Partial
  <2>2. SubSeq(v, p + e + 1, a) = SubSeq(s, p + e + 1, a)
    <3>1. p \in Nat /\ e \in Nat /\ n \in Nat
      BY <1>2, LineFacts DEF Partial
    <3>2. a \in (p + e)..(p + e + n)
      BY <1>2 DEF Partial
    <3>3. p + e + 1 \in 1..(Len(s) + 1) /\ a \in ((p + e + 1) - 1)..Len(s)
      BY <1>0, <3>1, <3>2
    <3> QED BY <3>3, CutOfLonger
  <2> HIDE DEF v
  <2> QED BY <1>2, <2>1, <2>2, Zenon DEF Partial
<1>3. ASSUME Ended(s, a, ch) PROVE Ended(v, a, ch)
  BY <1>3, EndedStays
<1> HIDE DEF v
<1>4. DataAccount(s, a, r, ch) => DataAccount(v, a, r, ch)
  BY <1>2, Zenon DEF DataAccount
<1>5. DataEndAccount(s, a, ch) => DataEndAccount(v, a, ch)
  BY <1>2, Zenon DEF DataEndAccount
<1>6. Account(v, a, r, ch)
  BY <1>1, <1>3, <1>4, <1>5, Zenon DEF Account
<1> QED BY <1>6 DEF v

(* A segment of any bytes keeps the invariant.                             *)
LEMMA ReceiveDataKeeps ==
    ASSUME BInv, NEW segment \in Seq(ChunkByte), receive_data(segment) PROVE BInv'
<1>1. /\ stream' = stream \o segment /\ mode' = "idle" /\ eof' \in BOOLEAN
      /\ UNCHANGED <<at, reader, chunks>>
  BY DEF receive_data
<1>2. stream \in Seq(ChunkByte) /\ at \in 0..Len(stream) /\ reader.scanned \in Nat
  BY DEF BInv, BTypeOK, ChunkReader
<1>3. stream' \in Seq(ChunkByte) /\ at' \in 0..Len(stream')
  <2>1. stream \o segment \in Seq(ChunkByte) /\ at \in 0..Len(stream \o segment)
    BY <1>2, Longer
  <2> QED BY <1>1, <2>1
<1>4. BTypeOK'
  BY <1>1, <1>3 DEF BInv, BTypeOK, Mode
<1>5. Account(stream \o segment, at, reader, chunks)
  BY <1>2, AccountStays DEF BInv
<1>6. StreamDecides'
  BY <1>1, NothingSaid
<1> QED BY <1>1, <1>4, <1>5, <1>6 DEF BInv

(* A call that needs more bytes may say so where the decoder does.         *)
LEMMA AskingIsRight ==
    ASSUME BTypeOK, need_data_or_eof, UNCHANGED <<stream, eof, chunks>>,
           Body(stream).verdict = "more", Body(stream).chunks = chunks
    PROVE  StreamDecides' /\ mode' \in {"failed", "asked"}
<1>1. Body(stream)' = Body(stream)
  OBVIOUS
<1>2. mode' = IF eof THEN "failed" ELSE "asked"
  BY DEF need_data_or_eof
<1>3. mode' = "asked" \/ (mode' = "failed" /\ eof)
  BY <1>2
<1> QED BY <1>1, <1>3 DEF StreamDecides

(* The reader fails where the decoder does.                                *)
LEMMA FailingIsRight ==
    ASSUME mode' = "failed", UNCHANGED <<stream, eof, chunks>>,
           Body(stream).verdict = "bad", Body(stream).chunks = chunks
    PROVE  StreamDecides'
<1>1. Body(stream)' = Body(stream)
  OBVIOUS
<1> QED BY <1>1 DEF StreamDecides

(* Stopping without another chunk.                                         *)
LEMMA AfterNothing ==
    ASSUME NEW done \in Seq(Chunk), NEW v, NEW p
    PROVE  /\ Continued(done, Stop(v, p, <<>>)).verdict = v
           /\ Continued(done, Stop(v, p, <<>>)).chunks = done
<1>1. done \o <<>> = done
  OBVIOUS
<1> QED BY <1>1 DEF Continued, Stop

(* Stopping with one more chunk.                                           *)
LEMMA AfterOne ==
    ASSUME NEW done \in Seq(Chunk), NEW x \in Chunk, NEW v, NEW p
    PROVE  /\ Continued(done, Stop(v, p, <<x>>)).verdict = v
           /\ Continued(done, Stop(v, p, <<x>>)).chunks = Append(done, x)
<1>1. done \o <<x>> = Append(done, x)
  BY AppendIsConcat
<1> QED BY <1>1 DEF Continued, Stop

(* Reading a chunk line, or not finding its end, keeps the invariant.      *)
LEMMA ReadSizeKeeps ==
    ASSUME BInv, read_size PROVE BInv'
<1> DEFINE end == find_crlf(input, reader.scanned)
           size == parse_chunk_header(SubSeq(input, 1, end - 2))
<1>1. /\ mode = "call" /\ reader.k = "Size" /\ UNCHANGED <<stream, eof, chunks>>
  BY DEF read_size
<1>2. /\ BTypeOK /\ stream \in Seq(ChunkByte) /\ at \in 0..Len(stream) /\ chunks \in Seq(Chunk)
      /\ reader.scanned \in Nat
  BY DEF BInv, BTypeOK, ChunkReader
<1>3. /\ Reached(stream, at, chunks) /\ Searched(input, reader.scanned)
      /\ input = RestOf(stream, at) /\ input \in Seq(ChunkByte) /\ Len(input) \in Nat
      /\ Len(input) = Len(stream) - at /\ at \in Nat /\ Len(stream) \in Nat
  <2>1. SizeAccount(stream, at, reader, chunks)
    BY <1>1 DEF BInv, Account
  <2> QED BY <1>2, <2>1, InputFacts DEF SizeAccount
<1>4. end = LineEnd(stream, at)
  <2>1. \A i \in 2..(reader.scanned + 1) : i <= Len(input) => ~CrlfAt(input, i)
    BY <1>3 DEF Searched
  <2>2. end = find_crlf(input, 0)
    BY <1>2, <1>3, <2>1, SearchedBefore, Zenon
  <2> QED BY <1>3, <2>2 DEF LineEnd
<1>5. size = SizeAt(stream, at)
  BY <1>3, <1>4 DEF SizeAt
<1>6. Body(stream) = Continued(chunks, ChunkAt(stream, at, From(stream)))
  BY <1>2, <1>3, ReachedNow
<1>7. CASE end = 0
  <2>1. /\ UNCHANGED at
        /\ IF incomplete_line_len(input) > MaxHead
           THEN mode' = "failed" /\ UNCHANGED reader
           ELSE reader' = AtSize(NextScan) /\ need_data_or_eof
    BY <1>7 DEF read_size
  <2>2. ChunkAt(stream, at, From(stream)) =
          Stop(IF incomplete_line_len(input) > MaxHead THEN "bad" ELSE "more", at, <<>>)
    BY <1>3, <1>4, <1>7, NoLineThere, Zenon
  <2>3. /\ Body(stream).verdict = IF incomplete_line_len(input) > MaxHead THEN "bad" ELSE "more"
        /\ Body(stream).chunks = chunks
    BY <1>2, <1>6, <2>2, AfterNothing
  <2>4. CASE incomplete_line_len(input) > MaxHead
    <3>1. UNCHANGED <<stream, at, reader, eof, chunks>> /\ mode' = "failed"
      BY <1>1, <2>1, <2>4
    <3>2. StreamDecides'
      BY <2>3, <2>4, <3>1, FailingIsRight
    <3>3. BTypeOK'
      BY <1>2, <3>1 DEF BTypeOK, Mode
    <3> QED BY <3>1, <3>2, <3>3 DEF BInv
  <2>5. CASE ~(incomplete_line_len(input) > MaxHead)
    <3>1. reader' = AtSize(NextScan) /\ need_data_or_eof
      BY <2>1, <2>5
    <3>2. StreamDecides' /\ mode' \in {"failed", "asked"}
      BY <1>1, <1>2, <2>3, <2>5, <3>1, AskingIsRight
    <3>3. NextScan \in Nat /\ (NextScan = 0 \/ NextScan + 1 <= Len(input))
      BY <1>3 DEF NextScan
    <3>4. Searched(input, NextScan)
      <4>1. \A i \in 2..Len(input) : ~CrlfAt(input, i)
        BY <1>3, <1>4, <1>7, FirstCrlf DEF LineEnd
      <4> QED BY <1>3, <3>3, <4>1 DEF Searched
    <3>5. BTypeOK'
      BY <1>1, <1>2, <2>1, <3>1, <3>2, <3>3, ReaderTypes, StillTyped, Zenon DEF Mode
    <3>6. reader'.k = "Size" /\ reader'.scanned = NextScan
      BY <3>1 DEF AtSize
    <3>7. SizeAccount(stream, at, reader', chunks)
      BY <1>3, <3>4, <3>6 DEF SizeAccount
    <3>8. Account(stream, at, reader', chunks)
      BY <3>6, <3>7 DEF Account
    <3> QED BY <1>1, <2>1, <3>2, <3>5, <3>8 DEF BInv
  <2> QED BY <2>4, <2>5
<1>8. CASE end # 0 /\ (end - 2 > MaxHead \/ size = None)
  <2>1. UNCHANGED <<stream, at, reader, eof, chunks>> /\ mode' = "failed"
    BY <1>1, <1>8, Zenon DEF read_size
  <2>2. ChunkAt(stream, at, From(stream)) = Stop("bad", at, <<>>)
    BY <1>4, <1>5, <1>8, BadLineThere
  <2>3. Body(stream).verdict = "bad" /\ Body(stream).chunks = chunks
    BY <1>2, <1>6, <2>2, AfterNothing
  <2>4. StreamDecides'
    BY <2>1, <2>3, FailingIsRight
  <2>5. BTypeOK'
    BY <1>2, <2>1 DEF BTypeOK, Mode
  <2> QED BY <2>1, <2>4, <2>5 DEF BInv
<1>9. CASE end # 0 /\ ~(end - 2 > MaxHead) /\ size # None
  <2>1. /\ at' = at + end /\ mode' = "call"
        /\ reader' = IF size = 0 THEN At("Trailers") ELSE AtData(size, TRUE)
    BY <1>1, <1>9, Zenon DEF read_size
  <2>2. Line(stream, at, end, size)
    BY <1>2, <1>4, <1>5, <1>9 DEF Line
  <2>3. StreamDecides'
    BY <2>1, NothingSaid
  <2> HIDE DEF end, size
  <2>4. /\ end \in Nat /\ size \in Nat /\ at + end \in 0..Len(stream) /\ at + end \in Nat
    <3>1. end \in 2..(Len(stream) - at) /\ size \in Nat
      BY <1>2, <2>2, LineFacts
    <3> QED BY <1>3, <3>1
  <2>5. CASE size = 0
    <3>1. Ended(stream, at + end, chunks)
      BY <1>2, <1>3, <2>2, <2>5, ReachedLast
    <3>2. reader' = At("Trailers") /\ reader'.k = "Trailers"
      BY <2>1, <2>5 DEF At
    <3>3. BTypeOK'
      BY <1>1, <1>2, <2>1, <2>4, <3>2, ReaderTypes, StillTyped, Zenon DEF Mode
    <3>4. Account(stream, at + end, reader', chunks)
      BY <3>1, <3>2 DEF Account
    <3> QED BY <1>1, <2>1, <2>3, <3>3, <3>4, Zenon DEF BInv
  <2>6. CASE size # 0
    <3>1. /\ reader' = AtData(size, TRUE) /\ reader'.k = "Data"
          /\ reader'.remaining = size /\ reader'.first = TRUE
      BY <2>1, <2>6 DEF AtData
    <3>2. BTypeOK'
      BY <1>1, <1>2, <2>1, <2>4, <3>1, ReaderTypes, StillTyped, Zenon DEF Mode
    <3>3. at + end \in (at + end)..(at + end + size) /\ size \in 1..size
          /\ at + end = at + end + size - size
      BY <1>3, <2>4, <2>6
    <3>4. Partial(stream, chunks, at, chunks, end, size, at + end)
      BY <1>3, <2>2, <2>6, <3>3 DEF Partial
    <3>5. DataAccount(stream, at + end, reader', chunks)
      BY <3>1, <3>3, <3>4, Zenon DEF DataAccount
    <3>6. Account(stream, at + end, reader', chunks)
      BY <3>1, <3>5, Zenon DEF Account
    <3> QED BY <1>1, <2>1, <2>3, <3>2, <3>6, Zenon DEF BInv
  <2> QED BY <2>5, <2>6
<1> QED BY <1>7, <1>8, <1>9, Zenon

(* Replacing the last chunk of a list.                                     *)
LEMMA ReplaceLast ==
    ASSUME NEW done \in Seq(Chunk), NEW x \in Chunk, NEW y \in Chunk
    PROVE  LET ch == Append(done, x) IN
           /\ ch[Len(ch)] = x
           /\ [ch EXCEPT ![Len(ch)] = y] = Append(done, y)
<1> DEFINE ch == Append(done, x)
           l == Len(done) + 1
           new == [ch EXCEPT ![l] = y]
           b == Append(done, y)
<1>1. /\ ch \in Seq(Chunk) /\ Len(ch) = l
      /\ \A i \in 1..Len(done) : ch[i] = done[i]
      /\ ch[l] = x /\ Len(done) \in Nat /\ l \in 1..l
  BY AppendProperties
<1>2. /\ b \in Seq(Chunk) /\ Len(b) = l
      /\ \A i \in 1..Len(done) : b[i] = done[i]
      /\ b[l] = y
  BY AppendProperties
<1> HIDE DEF ch, b
<1>3. /\ new \in Seq(Chunk) /\ Len(new) = Len(ch)
      /\ \A j \in 1..Len(ch) : new[j] = IF j = l THEN y ELSE ch[j]
  <2>1. l \in 1..Len(ch)
    BY <1>1
  <2> HIDE DEF l
  <2> QED BY <1>1, <2>1, ExceptSeq
<1> HIDE DEF new
<1>4. \A i \in 1..l : new[i] = b[i]
  BY <1>1, <1>2, <1>3
<1>5. new = b
  BY <1>1, <1>2, <1>3, <1>4, SeqEqual
<1> QED BY <1>1, <1>5 DEF ch, b, new

(* Only the empty stream has length 0.                                     *)
LEMMA EmptyIsShort ==
    ASSUME NEW s \in Seq(ChunkByte) PROVE s = <<>> <=> Len(s) = 0
BY EmptySeq

(* The place behind count more of the rem bytes of a chunk that are left.  *)
LEMMA Counting ==
    ASSUME NEW b \in Nat, NEW n \in Nat, NEW rem \in 1..n, NEW a, a = b + n - rem,
           NEW count \in 1..rem
    PROVE  /\ a + count \in b..(b + n) /\ a + count # b /\ a + count \in Nat
           /\ count = rem <=> a + count = b + n
           /\ count # rem => /\ rem - count \in 1..n /\ rem - count \in Nat /\ rem - count # n
                            /\ a + count = b + n - (rem - count)
OBVIOUS

(* Delivering data of a chunk keeps the invariant.                         *)
LEMMA ReadDataKeeps ==
    ASSUME BInv, read_data PROVE BInv'
<1> DEFINE rem == reader.remaining
           count == Min({rem, Len(input)})
           last == count = rem
<1>1. /\ mode = "call" /\ reader.k = "Data" /\ UNCHANGED <<stream, eof>>
      /\ IF count = 0
         THEN need_data_or_eof /\ UNCHANGED <<at, reader, chunks>>
         ELSE /\ reader' = IF last THEN At("DataEnd") ELSE AtData(rem - count, FALSE)
              /\ at' = at + count
              /\ chunks' = Deliver(SubSeq(input, 1, count), reader.first, last)
              /\ mode' = "idle"
  BY Zenon DEF read_data
<1>2. /\ BTypeOK /\ stream \in Seq(ChunkByte) /\ at \in 0..Len(stream) /\ chunks \in Seq(Chunk)
  BY DEF BInv, BTypeOK
<1>3. /\ input = RestOf(stream, at) /\ Len(input) \in Nat
      /\ Len(input) = Len(stream) - at /\ at \in Nat /\ Len(stream) \in Nat
  BY <1>2, InputFacts
<1>4. DataAccount(stream, at, reader, chunks)
  BY <1>1 DEF BInv, Account
<1>5. PICK p, done, e, n :
        /\ Partial(stream, chunks, p, done, e, n, at)
        /\ rem \in 1..n /\ at = p + e + n - rem
        /\ reader.first <=> rem = n
  BY <1>4 DEF DataAccount
<1>6. Reached(stream, p, done) /\ Line(stream, p, e, n) /\ n # 0 /\ done \in Seq(Chunk)
  BY <1>5 DEF Partial, Reached
<1>7. /\ p \in Nat /\ e \in Nat /\ n \in Nat /\ rem \in Nat /\ rem # 0
      /\ p + e <= at /\ at < p + e + n
      /\ p + e \in Nat /\ rem \in 1..n /\ at = p + e + n - rem /\ (rem = n <=> at = p + e)
  <2>1. p \in Nat /\ e \in Nat /\ n \in Nat
    BY <1>2, <1>6, LineFacts
  <2>2. rem \in 1..n /\ at = p + e + n - rem
    BY <1>5
  <2> HIDE DEF rem
  <2> QED BY <2>1, <2>2
<1> HIDE DEF rem
<1>8. count = IF rem <= Len(input) THEN rem ELSE Len(input)
  BY <1>3, <1>7, MinOfTwo
<1> DEFINE part == [data |-> SubSeq(stream, p + e + 1, at), closed |-> FALSE]
<1>9. chunks = IF at = p + e THEN done ELSE Append(done, part)
  <2>1. (at = p + e + n) = FALSE
    BY <1>3, <1>7
  <2> QED BY <1>5, <2>1, Zenon DEF Partial
<1>10. reader.first <=> at = p + e
  BY <1>5, <1>7, Zenon
<1>11. SubSeq(stream, p + e + 1, at) \in Seq(ChunkByte)
       /\ Len(SubSeq(stream, p + e + 1, at)) = at - (p + e)
  <2>1. p + e + 1 \in 1..(Len(stream) + 1) /\ at \in ((p + e + 1) - 1)..Len(stream)
        /\ at - (p + e + 1) + 1 = at - (p + e)
    BY <1>2, <1>3, <1>7
  <2> QED BY <1>2, <2>1, Cut
<1>12. part \in Chunk
  BY <1>11 DEF Chunk
<1>13. CASE count = 0
  <2>1. at = Len(stream) /\ need_data_or_eof /\ UNCHANGED <<stream, at, reader, eof, chunks>>
    BY <1>1, <1>3, <1>7, <1>8, <1>13
  <2>2. Piece(stream, p, e, n) = part /\ p + e + n + 2 > Len(stream)
    <3>1. ~(p + e + n <= Len(stream)) /\ p + e + n + 2 > Len(stream)
      BY <1>3, <1>7, <2>1
    <3> QED BY <1>2, <1>6, <2>1, <3>1, PartPiece
  <2>3. part.data = <<>> <=> at = p + e
    <3>1. at - (p + e) = 0 <=> at = p + e
      BY <1>3, <1>7
    <3>2. SubSeq(stream, p + e + 1, at) = <<>> <=> at = p + e
      BY <1>11, <3>1, EmptyIsShort, Zenon
    <3> QED BY <3>2
  <2>4. ChunkAt(stream, p, From(stream)) = Stop("more", p, IF at = p + e THEN <<>> ELSE <<part>>)
    <3> HIDE DEF part
    <3>1. ChunkAt(stream, p, From(stream)) = WithChunk(stream, p, e, n, From(stream))
      BY <1>6, ChunkThere
    <3> QED BY <2>2, <2>3, <3>1, Zenon DEF WithChunk
  <2>5. Body(stream).verdict = "more" /\ Body(stream).chunks = chunks
    <3> HIDE DEF part
    <3>1. Body(stream) = Continued(done, ChunkAt(stream, p, From(stream)))
      BY <1>2, <1>6, ReachedNow
    <3>2. CASE at = p + e
      BY <1>6, <1>9, <2>4, <3>1, <3>2, AfterNothing
    <3>3. CASE at # p + e
      BY <1>6, <1>9, <1>12, <2>4, <3>1, <3>3, AfterOne
    <3> QED BY <3>2, <3>3
  <2>6. StreamDecides' /\ mode' \in {"failed", "asked"}
    BY <1>2, <2>1, <2>5, AskingIsRight
  <2>7. BTypeOK'
    BY <1>2, <2>1, <2>6 DEF BTypeOK, Mode
  <2> QED BY <2>1, <2>6, <2>7 DEF BInv
<1>14. CASE count # 0
  <2> DEFINE to == at + count
             whole == [data |-> SubSeq(stream, p + e + 1, to), closed |-> last]
  <2>1. /\ reader' = IF last THEN At("DataEnd") ELSE AtData(rem - count, FALSE)
        /\ at' = to
        /\ chunks' = Deliver(SubSeq(input, 1, count), reader.first, last)
        /\ mode' = "idle"
    BY <1>1, <1>14, Zenon
  <2>2. /\ count \in 1..rem /\ count \in Nat /\ count <= Len(input)
    BY <1>3, <1>7, <1>8, <1>14
  <2> HIDE DEF count
  <2>3. /\ to \in Nat /\ to \in 0..Len(stream) /\ to \in (p + e)..(p + e + n) /\ to # p + e
        /\ last <=> to = p + e + n
    <3>1. /\ to \in Nat /\ to \in (p + e)..(p + e + n) /\ to # p + e
          /\ last <=> to = p + e + n
      BY <1>7, <2>2, Counting
    <3>2. to \in 0..Len(stream)
      BY <1>3, <2>2
    <3> QED BY <3>1, <3>2
  <2>4. SubSeq(input, 1, count) = SubSeq(stream, at + 1, to)
    <3>1. count \in 0..(Len(stream) - at)
      BY <1>3, <2>2
    <3> QED BY <1>2, <1>3, <3>1, CutOfRest
  <2>5. whole \in Chunk
    <3>1. p + e + 1 \in 1..(Len(stream) + 1) /\ to \in ((p + e + 1) - 1)..Len(stream)
      BY <1>3, <1>7, <2>3
    <3>2. SubSeq(stream, p + e + 1, to) \in Seq(ChunkByte)
      BY <1>2, <3>1, Cut
    <3>3. last \in BOOLEAN
      OBVIOUS
    <3> QED BY <3>2, <3>3, Zenon DEF Chunk
  <2>6. chunks' = Append(done, whole)
    <3>1. CASE at = p + e
      <4>1. chunks' = Append(chunks, [data |-> SubSeq(stream, at + 1, to), closed |-> last])
        BY <1>10, <2>1, <2>4, <3>1, Zenon DEF Deliver
      <4> QED BY <1>9, <3>1, <4>1
    <3>2. CASE at # p + e
      <4>1. chunks' = [chunks EXCEPT ![Len(chunks)] =
                         [data |-> chunks[Len(chunks)].data \o SubSeq(stream, at + 1, to),
                          closed |-> last]]
        BY <1>10, <2>1, <2>4, <3>2, Zenon DEF Deliver
      <4>2. chunks = Append(done, part)
        BY <1>9, <3>2
      <4>3. chunks[Len(chunks)] = part /\ [chunks EXCEPT ![Len(chunks)] = whole] = Append(done, whole)
        <5> HIDE DEF part, whole
        <5> QED BY <1>6, <1>12, <2>5, <4>2, ReplaceLast
      <4>4. SubSeq(stream, p + e + 1, at) \o SubSeq(stream, at + 1, to) = SubSeq(stream, p + e + 1, to)
        <5>1. /\ p + e + 1 \in 1..(Len(stream) + 1) /\ at \in ((p + e + 1) - 1)..Len(stream)
              /\ to \in at..Len(stream)
          BY <1>2, <1>3, <1>7, <2>2, <2>3
        <5> QED BY <1>2, <5>1, ConcatAdjacentSubSeq, Zenon
      <4>5. part.data = SubSeq(stream, p + e + 1, at)
        BY Zenon
      <4>6. chunks' = [chunks EXCEPT ![Len(chunks)] = whole]
        <5> HIDE DEF part, last, to
        <5> QED BY <4>1, <4>3, <4>4, <4>5, Zenon
      <4> QED BY <4>3, <4>6
    <3> QED BY <3>1, <3>2
  <2>7. Partial(stream, chunks', p, done, e, n, to)
    <3>1. last = (to = p + e + n)
      BY <2>3
    <3> HIDE DEF to, last
    <3> QED BY <1>6, <2>3, <2>6, <3>1, Zenon DEF Partial
  <2>8. chunks' \in Seq(Chunk)
    <3> HIDE DEF whole
    <3> QED BY <1>6, <2>5, <2>6
  <2>9. StreamDecides'
    BY <2>1, NothingSaid
  <2> HIDE DEF to
  <2>10. CASE last
    <3>1. reader' = At("DataEnd") /\ reader'.k = "DataEnd"
      BY <2>1, <2>10 DEF At
    <3>2. DataEndAccount(stream, to, chunks')
      BY <2>3, <2>7, <2>10, Zenon DEF DataEndAccount
    <3>3. Account(stream, to, reader', chunks')
      BY <3>1, <3>2 DEF Account
    <3>4. BTypeOK'
      BY <1>1, <1>2, <1>7, <2>1, <2>3, <2>8, <3>1, ReaderTypes, StillTyped, Zenon DEF Mode
    <3> QED BY <1>1, <2>1, <2>9, <3>3, <3>4, Zenon DEF BInv
  <2>11. CASE ~last
    <3>1. /\ reader' = AtData(rem - count, FALSE) /\ reader'.k = "Data"
          /\ reader'.remaining = rem - count /\ reader'.first = FALSE
      BY <2>1, <2>11 DEF AtData
    <3>2. rem - count \in Nat /\ rem - count \in 1..n /\ to = p + e + n - (rem - count) /\ rem - count # n
      BY <1>7, <2>2, <2>11, Counting DEF to
    <3>3. DataAccount(stream, to, reader', chunks')
      BY <2>7, <3>1, <3>2, Zenon DEF DataAccount
    <3>4. Account(stream, to, reader', chunks')
      BY <3>1, <3>3, Zenon DEF Account
    <3>5. BTypeOK'
      BY <1>1, <1>2, <2>1, <2>3, <2>8, <3>1, <3>2, ReaderTypes, StillTyped, Zenon DEF Mode
    <3> QED BY <1>1, <2>1, <2>9, <3>4, <3>5, Zenon DEF BInv
  <2> QED BY <2>10, <2>11
<1> QED BY <1>13, <1>14

(* The places of n bytes behind b.                                         *)
LEMMA Behind ==
    ASSUME NEW b \in Nat, NEW n \in Nat, n # 0, NEW l \in Nat, b + n <= l
    PROVE  /\ b + 1 \in 1..(l + 1) /\ b + n \in ((b + 1) - 1)..l
           /\ b + n - (b + 1) + 1 # 0
OBVIOUS

(* Reading the line end behind a chunk keeps the invariant.                *)
LEMMA ReadDataEndKeeps ==
    ASSUME BInv, read_data_end PROVE BInv'
<1>1. /\ mode = "call" /\ reader.k = "DataEnd" /\ UNCHANGED <<stream, eof, chunks>>
      /\ IF Len(input) < 2
         THEN need_data_or_eof /\ UNCHANGED <<at, reader>>
         ELSE IF SubSeq(input, 1, 2) # <<"CR", "LF">>
              THEN mode' = "failed" /\ UNCHANGED <<at, reader>>
         ELSE at' = at + 2 /\ reader' = AtSize(0) /\ UNCHANGED mode
  BY Zenon DEF read_data_end
<1>2. /\ BTypeOK /\ stream \in Seq(ChunkByte) /\ at \in 0..Len(stream) /\ chunks \in Seq(Chunk)
  BY DEF BInv, BTypeOK
<1>3. /\ input \in Seq(ChunkByte) /\ Len(input) \in Nat
      /\ Len(input) = Len(stream) - at /\ at \in Nat /\ Len(stream) \in Nat
      /\ \A k \in 1..Len(input) : input[k] = stream[at + k]
  BY <1>2, InputFacts
<1>4. DataEndAccount(stream, at, chunks)
  BY <1>1 DEF BInv, Account
<1>5. PICK p, done, e, n : Partial(stream, chunks, p, done, e, n, at) /\ at = p + e + n
  BY <1>4 DEF DataEndAccount
<1>6. Reached(stream, p, done) /\ Line(stream, p, e, n) /\ n # 0 /\ done \in Seq(Chunk)
  BY <1>5 DEF Partial, Reached
<1>7. /\ p \in Nat /\ e \in Nat /\ n \in Nat /\ p + e \in Nat /\ n # 0
      /\ at = p + e + n /\ at # p + e /\ at <= Len(stream)
  <2>1. p \in Nat /\ e \in Nat /\ n \in Nat
    BY <1>2, <1>6, LineFacts
  <2>2. at = p + e + n
    BY <1>5
  <2>3. n # 0 /\ at <= Len(stream)
    BY <1>2, <1>3, <1>6
  <2> QED BY <2>1, <2>2, <2>3
<1> DEFINE this == WholeChunk(stream, p, e, n)
<1>8. Piece(stream, p, e, n) = this /\ this \in Chunk
  <2>1. p + e + n <= Len(stream)
    BY <1>2, <1>3, <1>7
  <2>2. Piece(stream, p, e, n) = this
    BY <1>2, <1>6, <2>1, WholePiece
  <2> QED BY <1>2, <1>6, <2>2, PieceType
<1>9. chunks = Append(done, this)
  <2>1. (at = p + e + n) = TRUE
    BY <1>7
  <2>2. chunks = Append(done, [data |-> SubSeq(stream, p + e + 1, at), closed |-> at = p + e + n])
    BY <1>5, <1>7, Zenon DEF Partial
  <2> QED BY <1>7, <2>1, <2>2, Zenon DEF WholeChunk
<1>10. this.data # <<>>
  <2>1. p + e + 1 \in 1..(Len(stream) + 1) /\ at \in ((p + e + 1) - 1)..Len(stream)
        /\ at - (p + e + 1) + 1 # 0
    BY <1>3, <1>7, Behind
  <2>2. SubSeq(stream, p + e + 1, at) # <<>>
    <3>1. SubSeq(stream, p + e + 1, at) \in Seq(ChunkByte) /\ Len(SubSeq(stream, p + e + 1, at)) # 0
      BY <1>2, <2>1, Cut
    <3> QED BY <3>1, EmptyIsShort, Zenon
  <2>3. this.data = SubSeq(stream, p + e + 1, at)
    BY <1>7 DEF WholeChunk
  <2> QED BY <2>2, <2>3
<1>11. ChunkAt(stream, p, From(stream)) = WithChunk(stream, p, e, n, From(stream))
  BY <1>6, ChunkThere
<1>12. Body(stream) = Continued(done, ChunkAt(stream, p, From(stream)))
  BY <1>2, <1>6, ReachedNow
<1> HIDE DEF this
<1>13. CASE Len(input) < 2
  <2>1. need_data_or_eof /\ UNCHANGED <<stream, at, reader, eof, chunks>>
    BY <1>1, <1>13
  <2>2. p + e + n + 2 > Len(stream)
    BY <1>3, <1>7, <1>13
  <2>3. ChunkAt(stream, p, From(stream)) = Stop("more", p, <<this>>)
    BY <1>8, <1>10, <1>11, <2>2, Zenon DEF WithChunk
  <2>4. Body(stream).verdict = "more" /\ Body(stream).chunks = chunks
    BY <1>6, <1>8, <1>9, <1>12, <2>3, AfterOne
  <2>5. StreamDecides' /\ mode' \in {"failed", "asked"}
    BY <1>2, <2>1, <2>4, AskingIsRight
  <2>6. BTypeOK'
    BY <1>2, <2>1, <2>5 DEF BTypeOK, Mode
  <2> QED BY <2>1, <2>5, <2>6 DEF BInv
<1>14. CASE ~(Len(input) < 2)
  <2>1. /\ ~(p + e + n + 2 > Len(stream)) /\ p + e + n + 2 <= Len(stream)
        /\ 1 \in 1..Len(input) /\ 2 \in 1..Len(input) /\ at + 2 \in 0..Len(stream)
    BY <1>3, <1>7, <1>14
  <2>2. SubSeq(input, 1, 2) = <<"CR", "LF">>
          <=> stream[p + e + n + 1] = "CR" /\ stream[p + e + n + 2] = "LF"
    <3>1. input[1] = stream[p + e + n + 1] /\ input[2] = stream[p + e + n + 2]
      BY <1>3, <1>7, <2>1
    <3> DEFINE two == SubSeq(input, 1, 2)
    <3>2. two \in Seq(ChunkByte) /\ Len(two) = 2 /\ two[1] = input[1] /\ two[2] = input[2]
      <4>1. 1 \in 1..(Len(input) + 1) /\ 2 \in (1 - 1)..Len(input) /\ 2 - 1 + 1 = 2
            /\ 1 + 1 - 1 = 1 /\ 1 + 2 - 1 = 2 /\ 1 \in 1..2 /\ 2 \in 1..2
        BY <1>3, <2>1
      <4>2. two \in Seq(ChunkByte) /\ Len(two) = 2 - 1 + 1
            /\ \A k \in 1..(2 - 1 + 1) : two[k] = input[1 + k - 1]
        BY <1>3, <4>1, Cut
      <4> HIDE DEF two
      <4> QED BY <4>1, <4>2
    <3> HIDE DEF two
    <3>3. two = <<"CR", "LF">> <=> two[1] = "CR" /\ two[2] = "LF"
      BY <3>2
    <3> QED BY <3>1, <3>2, <3>3 DEF two
  <2>3. CASE SubSeq(input, 1, 2) # <<"CR", "LF">>
    <3>1. mode' = "failed" /\ UNCHANGED <<stream, at, reader, eof, chunks>>
      BY <1>1, <1>14, <2>3
    <3>2. ChunkAt(stream, p, From(stream)) = Stop("bad", p, <<this>>)
      BY <1>8, <1>11, <2>1, <2>2, <2>3, Zenon DEF WithChunk
    <3>3. Body(stream).verdict = "bad" /\ Body(stream).chunks = chunks
      BY <1>6, <1>8, <1>9, <1>12, <3>2, AfterOne
    <3>4. StreamDecides'
      BY <3>1, <3>3, FailingIsRight
    <3>5. BTypeOK'
      BY <1>2, <3>1 DEF BTypeOK, Mode
    <3> QED BY <3>1, <3>4, <3>5 DEF BInv
  <2>4. CASE SubSeq(input, 1, 2) = <<"CR", "LF">>
    <3>1. at' = at + 2 /\ reader' = AtSize(0) /\ mode' = "call"
      BY <1>1, <1>14, <2>4
    <3>2. Reached(stream, p + e + n + 2, chunks)
      BY <1>2, <1>6, <1>9, <2>1, <2>2, <2>4, ReachedNext DEF this
    <3>3. reader'.k = "Size" /\ reader'.scanned = 0
      BY <3>1 DEF AtSize
    <3>4. Searched(RestOf(stream, at + 2), 0)
      BY DEF Searched
    <3>5. SizeAccount(stream, at + 2, reader', chunks)
      BY <1>7, <3>2, <3>3, <3>4 DEF SizeAccount
    <3>6. Account(stream, at + 2, reader', chunks)
      BY <3>3, <3>5 DEF Account
    <3>7. BTypeOK'
      BY <1>1, <1>2, <2>1, <3>1, ReaderTypes, StillTyped, Zenon DEF Mode
    <3>8. StreamDecides'
      BY <3>1, NothingSaid
    <3> QED BY <1>1, <3>1, <3>6, <3>7, <3>8 DEF BInv
  <2> QED BY <2>3, <2>4
<1> QED BY <1>13, <1>14

(* Every step keeps the invariant.                                         *)
LEMMA NextKeepsBInv == BInv /\ [Next]_vars => BInv'
<1> SUFFICES ASSUME BInv, [Next]_vars PROVE BInv'
  OBVIOUS
<1>1. CASE UNCHANGED vars
  <2>1. BTypeOK' /\ StreamDecides'
    BY <1>1 DEF vars, BInv, BTypeOK, StreamDecides
  <2> QED BY <1>1, <2>1 DEF vars, BInv
<1>2. ASSUME NEW byte \in Alphabet, receive_data(<<byte>>) PROVE BInv'
  <2>1. <<byte>> \in Seq(ChunkByte)
    BY ChunkScanAssumption
  <2> QED BY <1>2, <2>1, ReceiveDataKeeps, Zenon
<1>3. CASE receive_data(<<>>)
  <2>1. <<>> \in Seq(ChunkByte)
    OBVIOUS
  <2> QED BY <1>3, <2>1, ReceiveDataKeeps, Zenon
<1> QED BY Zenon, <1>1, <1>2, <1>3, NextEventKeeps, ReadSizeKeeps, ReadDataKeeps, ReadDataEndKeeps,
           TrailersKeep DEF Next

(* What `read_chunked` answers and what it delivers is what a decoder that *)
(* sees the stream at once finds: for all streams, for all orders of       *)
(* receive_data and next_event, for all limits.                            *)
THEOREM ChunkedIsDecoded == Spec => []StreamDecides
<1>1. BInv => StreamDecides
  BY DEF BInv
<1> QED BY InitBInv, NextKeepsBInv, <1>1, PTL DEF Spec
============================================================================
