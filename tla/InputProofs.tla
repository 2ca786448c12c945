---------------------------- MODULE InputProofs ----------------------------
(***************************************************************************)
(* The input buffer implements a queue, and its compaction costs no more   *)
(* than what was consumed, for every set of segments.  The retry hint of   *)
(* the reader on top of it misses no end of a section, asks for no vain    *)
(* parse and looks at each byte once, for every segmentation and limit;    *)
(* the reader uses the buffer as its own specification does, so that what  *)
(* is proved of the buffer holds of it too.                                *)
(***************************************************************************)
EXTENDS SectionScan, SequenceTheorems, TLAPS

----------------------------------------------------------------------------
(* The buffer.                                                             *)

(* CompactionIsAmortized is not inductive: a compaction is paid for by the *)
(* dead prefix it removes, so the prefix has to be part of the account.    *)
IInv == BufferTypeOK /\ moved + start <= consumed

(* What is left when a prefix is dropped.                                  *)
LEMMA DropFacts ==
    ASSUME NEW s \in Seq(Octet), NEW k \in 0..Len(s)
    PROVE  /\ SubSeq(s, k + 1, Len(s)) \in Seq(Octet)
           /\ Len(SubSeq(s, k + 1, Len(s))) = Len(s) - k
           /\ \A i \in 1..(Len(s) - k) : SubSeq(s, k + 1, Len(s))[i] = s[k + i]
BY SubSeqProperties

(* What is in a sequence to which d is appended.                           *)
LEMMA AppendFacts ==
    ASSUME NEW s \in Seq(Octet), NEW d \in Seq(Octet)
    PROVE  /\ s \o d \in Seq(Octet)
           /\ Len(s \o d) = Len(s) + Len(d)
           /\ \A i \in 1..(Len(s) + Len(d)) :
                 (s \o d)[i] = IF i <= Len(s) THEN s[i] ELSE d[i - Len(s)]
BY ConcatProperties

(* Dropping a prefix and appending commute.                                *)
LEMMA DropAppend ==
    ASSUME NEW s \in Seq(Octet), NEW d \in Seq(Octet), NEW k \in 0..Len(s)
    PROVE  SubSeq(s \o d, k + 1, Len(s \o d)) = SubSeq(s, k + 1, Len(s)) \o d
<1>1. ASSUME NEW c \in Seq(Octet), c = s \o d,
             NEW r \in Seq(Octet), r = SubSeq(s, k + 1, Len(s))
      PROVE  SubSeq(c, k + 1, Len(c)) = r \o d
  <2>1. /\ Len(c) = Len(s) + Len(d)
        /\ \A i \in 1..(Len(s) + Len(d)) :
              c[i] = IF i <= Len(s) THEN s[i] ELSE d[i - Len(s)]
    BY <1>1, AppendFacts
  <2>2. Len(r) = Len(s) - k /\ \A i \in 1..(Len(s) - k) : r[i] = s[k + i]
    BY <1>1, DropFacts
  <2>3. ASSUME NEW l \in Seq(Octet), l = SubSeq(c, k + 1, Len(c)),
               NEW q \in Seq(Octet), q = r \o d
        PROVE  l = q
    <3>0. k \in 0..Len(c)
      BY <2>1
    <3>1. Len(l) = Len(c) - k /\ \A i \in 1..(Len(c) - k) : l[i] = c[k + i]
      BY <2>3, <3>0, DropFacts
    <3>2. /\ Len(q) = Len(r) + Len(d)
          /\ \A i \in 1..(Len(r) + Len(d)) :
                q[i] = IF i <= Len(r) THEN r[i] ELSE d[i - Len(r)]
      BY <2>3, AppendFacts
    <3>3. Len(l) = Len(q)
      BY <2>1, <2>2, <3>1, <3>2
    <3>4. ASSUME NEW i \in 1..Len(l) PROVE l[i] = q[i]
      <4>1. l[i] = c[k + i] /\ k + i \in 1..(Len(s) + Len(d)) /\ i \in 1..(Len(r) + Len(d))
        BY <2>1, <2>2, <3>1
      <4>2. CASE i <= Len(r)
        <5>1. k + i <= Len(s) /\ i \in 1..(Len(s) - k)
          BY <2>2, <4>2
        <5> QED BY <2>1, <2>2, <3>2, <4>1, <4>2, <5>1
      <4>3. CASE ~(i <= Len(r))
        <5>1. ~(k + i <= Len(s)) /\ k + i - Len(s) = i - Len(r)
          BY <2>2, <4>3
        <5>2. c[k + i] = d[k + i - Len(s)]
          <6>1. \A j \in 1..(Len(s) + Len(d)) : ~(j <= Len(s)) => c[j] = d[j - Len(s)]
            BY <2>1
          <6>2. ASSUME NEW j \in 1..(Len(s) + Len(d)), j = k + i
                PROVE  c[j] = d[j - Len(s)]
            BY <5>1, <6>1, <6>2
          <6> QED BY <4>1, <6>2
        <5>3. q[i] = d[i - Len(r)]
          BY <3>2, <4>1, <4>3
        <5> QED BY <4>1, <5>1, <5>2, <5>3
      <4> QED BY <4>2, <4>3
    <3> QED BY <3>3, <3>4, SeqEqual
  <2>4. SubSeq(c, k + 1, Len(c)) \in Seq(Octet) /\ r \o d \in Seq(Octet)
    BY <2>1, DropFacts, AppendFacts
  <2> QED BY <2>3, <2>4, Zenon
<1> QED BY <1>1, DropFacts, AppendFacts, Zenon

(* Dropping twice drops the sum.                                           *)
LEMMA DropDrop ==
    ASSUME NEW s \in Seq(Octet), NEW k \in 0..Len(s), NEW c \in 0..(Len(s) - k),
           NEW t \in Seq(Octet), t = SubSeq(s, k + 1, Len(s))
    PROVE  SubSeq(t, c + 1, Len(t)) = SubSeq(s, k + c + 1, Len(s))
<1>1. Len(t) = Len(s) - k /\ \A i \in 1..(Len(s) - k) : t[i] = s[k + i]
  BY DropFacts
<1>2. ASSUME NEW l \in Seq(Octet), l = SubSeq(t, c + 1, Len(t)),
             NEW r \in Seq(Octet), r = SubSeq(s, k + c + 1, Len(s))
      PROVE  l = r
  <2>0. c \in 0..Len(t) /\ k + c \in 0..Len(s)
    BY <1>1
  <2>1. Len(l) = Len(t) - c /\ \A i \in 1..(Len(t) - c) : l[i] = t[c + i]
    BY <1>2, <2>0, DropFacts, ZenonT(60)
  <2>2. Len(r) = Len(s) - (k + c) /\ \A i \in 1..(Len(s) - (k + c)) : r[i] = s[k + c + i]
    BY <1>2, <2>0, DropFacts
  <2>3. Len(l) = Len(r)
    BY <1>1, <2>1, <2>2
  <2>4. ASSUME NEW i \in 1..Len(l) PROVE l[i] = r[i]
    <3>1. i \in 1..(Len(t) - c) /\ i \in 1..(Len(s) - (k + c)) /\ c + i \in 1..(Len(s) - k)
      BY <1>1, <2>1
    <3>2. l[i] = t[c + i] /\ r[i] = s[k + c + i]
      BY <2>1, <2>2, <3>1, Zenon
    <3>3. t[c + i] = s[k + (c + i)]
      BY <1>1, <3>1, Zenon
    <3>4. k + (c + i) = k + c + i
      BY <3>1
    <3> QED BY <3>2, <3>3, <3>4, Zenon
  <2> QED BY <2>3, <2>4, SeqEqual
<1>3. SubSeq(t, c + 1, Len(t)) \in Seq(Octet) /\ SubSeq(s, k + c + 1, Len(s)) \in Seq(Octet)
  <2>1. c \in 0..Len(t) /\ k + c \in 0..Len(s)
    BY <1>1
  <2> QED BY <2>1, DropFacts
<1> QED BY <1>2, <1>3

(* The live bytes after each operation.                                    *)
LEMMA ExtendAppends ==
    ASSUME BufferTypeOK, NEW segment \in Seq(Octet), extend(segment)
    PROVE  /\ as_slice' = as_slice \o segment
           /\ bytes' \in Seq(Octet)
           /\ start' \in 0..Len(bytes')
           /\ Len(bytes') = (IF Compacts THEN live ELSE Len(bytes)) + Len(segment)
<1>0. /\ bytes \in Seq(Octet) /\ start \in 0..Len(bytes) /\ Len(bytes) \in Nat
      /\ Len(segment) \in Nat
  BY DEF BufferTypeOK
<1>1. as_slice \in Seq(Octet) /\ Len(as_slice) = Len(bytes) - start
  BY <1>0, SubSeqProperties DEF as_slice
<1>2. CASE Compacts
  <2>1. bytes' = as_slice \o segment /\ start' = 0
    BY <1>2 DEF extend
  <2>2. bytes' \in Seq(Octet) /\ Len(bytes') = live + Len(segment)
    BY <1>1, <2>1, ConcatProperties, Zenon DEF live
  <2>3. SubSeq(bytes', 0 + 1, Len(bytes')) = bytes'
    BY <2>2, SubSeqFull
  <2>4. as_slice' = as_slice \o segment
    BY <2>1, <2>3, Zenon DEF as_slice
  <2> QED BY <1>2, <2>1, <2>2, <2>4
<1>3. CASE ~Compacts
  <2>1. bytes' = bytes \o segment /\ start' = start
    BY <1>3 DEF extend
  <2>2. bytes' \in Seq(Octet) /\ Len(bytes') = Len(bytes) + Len(segment)
    BY <1>0, <2>1, ConcatProperties
  <2>3. as_slice' = as_slice \o segment
    BY <1>0, <2>1, DropAppend, Zenon DEF as_slice
  <2> QED BY <1>0, <1>3, <2>1, <2>2, <2>3
<1> QED BY <1>2, <1>3

(* consume and take drop the first bytes and move nothing.                 *)
LEMMA RemoveDrops ==
    ASSUME BufferTypeOK, NEW count \in 1..live, consume(count) \/ take(count)
    PROVE  /\ count \in 1..Len(as_slice)
           /\ as_slice' = SubSeq(as_slice, count + 1, Len(as_slice))
           /\ start' \in 0..Len(bytes')
           /\ bytes' = bytes
           /\ SubSeq(as_slice, 1, count) \in Seq(Octet)
<1>0. /\ bytes \in Seq(Octet) /\ start \in 0..Len(bytes) /\ Len(bytes) \in Nat
      /\ count \in 0..(Len(bytes) - start)
  BY DEF BufferTypeOK, live
<1>1. as_slice \in Seq(Octet) /\ Len(as_slice) = Len(bytes) - start
  BY <1>0, SubSeqProperties DEF as_slice
<1>2. bytes' = bytes /\ start' = start + count
  BY DEF consume, take
<1>3. as_slice' = SubSeq(as_slice, count + 1, Len(as_slice))
  BY <1>0, <1>2, DropDrop DEF as_slice
<1>4. SubSeq(as_slice, 1, count) \in Seq(Octet)
  BY <1>0, <1>1, SubSeqProperties
<1> QED BY <1>0, <1>1, <1>2, <1>3, <1>4

(* Every step of the buffer keeps the invariant.                           *)
LEMMA Inductive == IInv /\ [BufferNext]_buffer => IInv'
<1> SUFFICES ASSUME IInv, [BufferNext]_buffer PROVE IInv'
  OBVIOUS
<1>0. /\ BufferTypeOK /\ moved + start <= consumed
      /\ start \in Nat /\ Len(bytes) \in Nat /\ start <= Len(bytes)
      /\ received \in Nat /\ consumed \in Nat /\ moved \in Nat /\ taken \in Seq(Octet)
  BY DEF IInv, BufferTypeOK
<1>1. CASE \E segment \in Segments : extend(segment)
  <2>1. PICK segment \in Segments : extend(segment)
    BY <1>1
  <2>2. segment \in Seq(Octet) /\ Len(segment) \in Nat
    BY BufferAssumption
  <2>3. bytes' \in Seq(Octet) /\ start' \in 0..Len(bytes')
    BY <1>0, <2>1, <2>2, ExtendAppends
  <2>4. /\ taken' = taken /\ consumed' = consumed /\ received' = received + Len(segment)
        /\ start' = IF Compacts THEN 0 ELSE start
        /\ moved' = moved + (IF Compacts THEN live ELSE 0)
    BY <2>1 DEF extend
  <2>5. moved' \in Nat /\ moved' + start' <= consumed'
    BY <1>0, <2>4 DEF Compacts, live
  <2> QED BY <1>0, <2>2, <2>3, <2>4, <2>5 DEF IInv, BufferTypeOK
<1>2. CASE \E count \in 1..live : consume(count) \/ take(count)
  <2>1. PICK count \in 1..live : consume(count) \/ take(count)
    BY <1>2
  <2>2. /\ bytes' = bytes /\ start' \in 0..Len(bytes')
        /\ SubSeq(as_slice, 1, count) \in Seq(Octet)
    BY <1>0, <2>1, RemoveDrops
  <2>3. /\ received' = received /\ moved' = moved
        /\ start' = start + count /\ consumed' = consumed + count
        /\ taken' = taken \/ taken' = SubSeq(as_slice, 1, count)
    BY <2>1 DEF consume, take
  <2>4. taken' \in Seq(Octet) /\ bytes' \in Seq(Octet)
    BY <1>0, <2>2, <2>3 DEF BufferTypeOK
  <2>5. count \in Nat
    BY <1>0, <2>1 DEF live
  <2>6. /\ received' \in Nat /\ consumed' \in Nat /\ moved' \in Nat
        /\ moved' + start' <= consumed'
    BY <1>0, <2>3, <2>5
  <2> QED BY <2>2, <2>4, <2>6, Zenon DEF IInv, BufferTypeOK
<1>3. CASE UNCHANGED buffer
  BY <1>0, <1>3 DEF IInv, BufferTypeOK, buffer, history
<1> QED BY <1>1, <1>2, <1>3 DEF BufferNext

(* The empty buffer satisfies the invariant.                               *)
LEMMA Initial == BufferInit => IInv
<1>1. <<>> \in Seq(Octet) /\ Len(<<>>) = 0
  BY EmptySeq
<1> QED BY <1>1 DEF BufferInit, IInv, BufferTypeOK

(* The invariant holds in every reachable state of the buffer.             *)
LEMMA BufferInvariance == BufferSpec => []IInv
BY Initial, Inductive, PTL DEF BufferSpec

(* The offset never leaves the vector.                                     *)
THEOREM BufferTypeCorrect == BufferSpec => []BufferTypeOK
BY BufferInvariance, PTL DEF IInv

(* Compaction copies no more than was consumed, whatever the boundaries.   *)
THEOREM CompactionCost == BufferSpec => []CompactionIsAmortized
<1>1. IInv => CompactionIsAmortized
  BY DEF IInv, BufferTypeOK, CompactionIsAmortized
<1> QED BY <1>1, BufferInvariance, PTL

(* Every append leaves less than half of the vector dead.                  *)
THEOREM DeadSpace == BufferSpec => DeadSpaceIsBounded
<1>1. IInv /\ [BufferNext]_buffer => [bytes' # bytes => start' = 0 \/ 2 * start' < Len(bytes')]_buffer
  <2> SUFFICES ASSUME IInv, BufferNext, bytes' # bytes
               PROVE  start' = 0 \/ 2 * start' < Len(bytes')
    OBVIOUS
  <2>1. PICK segment \in Segments : extend(segment)
    BY DEF BufferNext, consume, take
  <2>2. segment \in Seq(Octet) /\ Len(segment) \in Nat
    BY BufferAssumption
  <2>3. Len(bytes') = (IF Compacts THEN live ELSE Len(bytes)) + Len(segment)
    BY <2>1, <2>2, ExtendAppends DEF IInv
  <2>4. start \in Nat /\ Len(bytes) \in Nat
    BY DEF IInv, BufferTypeOK
  <2>5. CASE Compacts
    BY <2>1, <2>5 DEF extend
  <2>6. CASE ~Compacts
    BY <2>1, <2>2, <2>3, <2>4, <2>6 DEF extend, Compacts, live
  <2> QED BY <2>5, <2>6
<1> QED BY <1>1, BufferInvariance, PTL DEF BufferSpec, DeadSpaceIsBounded

(* The live bytes are a queue: every operation of the buffer is the queue  *)
(* operation of the same effect, compaction is invisible.                  *)
THEOREM BufferIsQueue == BufferSpec => IsQueue
<1>1. BufferInit => Q!Init
  <2>1. SubSeq(<<>>, 0 + 1, Len(<<>>)) = <<>>
    BY EmptySeq, SubSeqEmpty
  <2> QED BY <2>1 DEF BufferInit, Q!Init, as_slice
<1>2. IInv /\ [BufferNext]_buffer => [Q!Next]_<<as_slice, taken>>
  <2> SUFFICES ASSUME IInv, [BufferNext]_buffer PROVE [Q!Next]_<<as_slice, taken>>
    OBVIOUS
  <2>1. CASE \E segment \in Segments : extend(segment)
    <3>1. PICK segment \in Segments : extend(segment)
      BY <2>1
    <3>2. as_slice' = as_slice \o segment /\ taken' = taken
      BY <3>1, BufferAssumption, ExtendAppends DEF IInv, extend
    <3> QED BY <3>1, <3>2 DEF Q!Next, Q!Put
  <2>2. CASE \E count \in 1..live : consume(count) \/ take(count)
    <3>1. PICK count \in 1..live : consume(count) \/ take(count)
      BY <2>2
    <3>2. /\ count \in 1..Len(as_slice)
          /\ as_slice' = SubSeq(as_slice, count + 1, Len(as_slice))
      BY <3>1, RemoveDrops DEF IInv
    <3>3. taken' = taken \/ taken' = SubSeq(as_slice, 1, count)
      BY <3>1 DEF consume, take
    <3> QED BY <3>2, <3>3 DEF Q!Next, Q!Drop, Q!Take, Q!Remaining
  <2>3. CASE UNCHANGED buffer
    BY <2>3 DEF buffer, as_slice
  <2> QED BY <2>1, <2>2, <2>3 DEF BufferNext
<1> QED BY <1>1, <1>2, BufferInvariance, PTL DEF BufferSpec, IsQueue, Q!Spec

----------------------------------------------------------------------------
(* The reader of sections.                                                 *)

(* What SectionProgress remembers of the bytes it has passed.              *)
Remembers ==
    /\ progress.line_start <= progress.at
    /\ progress.line_start = 0 \/ data[progress.line_start] = "LF"
    /\ \A i \in 1..progress.at : data[i] = "LF" => i <= progress.line_start
    /\ progress.started <=> Begun(data, progress.at)

(* The inductive invariant.  The third conjunct is what makes it safe that *)
(* wait_for_section drops the result of its scan: there is nothing to be   *)
(* found.  The last but one is needed for the account of the bytes.        *)
SInv ==
    /\ IInv /\ TypeOK
    /\ Remembers
    /\ mode \in {"wait", "answer", "asked"} => Ends(data, skip) = {}
    /\ RetryIsJustified
    /\ mode \in {"retry", "wait"} => tried
    /\ mode = "body" => ~tried
    /\ ~tried => progress = NewProgress
    /\ mode \notin {"parse", "failed"} => \A i \in Ends(data, skip) : i > progress.at
    /\ \A i \in Ends(data, skip) : i >= progress.at
    /\ visited + (Len(data) - progress.at) <= received

(* The data of the reader are the live bytes of the buffer.                *)
LEMMA DataType ==
    ASSUME BufferTypeOK
    PROVE  data \in Seq(Octet) /\ Len(data) = live /\ Len(data) \in Nat
<1>1. bytes \in Seq(Octet) /\ start \in 0..Len(bytes)
  BY DEF BufferTypeOK
<1>2. data \in Seq(Octet) /\ Len(data) = Len(bytes) - start
  BY <1>1, DropFacts DEF data, as_slice
<1> QED BY <1>1, <1>2 DEF live

(* A step that leaves the buffer alone leaves the data alone.              *)
LEMMA BufferSame == ASSUME UNCHANGED buffer PROVE data' = data /\ received' = received
BY DEF buffer, history, data, as_slice

(* The reference looks only at the bytes up to the position asked about.   *)
LEMMA PrefixDecides ==
    ASSUME NEW d \in Seq(Octet), NEW e \in Seq(Octet), NEW n \in Nat,
           \A i \in 1..n : e[i] = d[i]
    PROVE  \A i \in 1..n : /\ BlankAt(e, i) <=> BlankAt(d, i)
                           /\ Begun(e, i) <=> Begun(d, i)
<1>1. ASSUME NEW i \in 1..n PROVE BlankAt(e, i) <=> BlankAt(d, i)
  <2>1. /\ e[i] = d[i]
        /\ i # 1 => i - 1 \in 1..n /\ e[i - 1] = d[i - 1]
        /\ i # 1 /\ i # 2 => i - 2 \in 1..n /\ e[i - 2] = d[i - 2]
    OBVIOUS
  <2> QED BY <2>1 DEF BlankAt
<1>2. ASSUME NEW i \in 1..n PROVE Begun(e, i) <=> Begun(d, i)
  <2>1. \A j \in 1..i : j \in 1..n
    OBVIOUS
  <2> QED BY <1>1, <2>1 DEF Begun
<1> QED BY <1>1, <1>2

(* Appending bytes neither adds nor removes an end among the old ones.     *)
LEMMA AppendKeepsEnds ==
    ASSUME NEW d \in Seq(Octet), NEW g \in Seq(Octet), NEW s \in BOOLEAN
    PROVE  /\ d \o g \in Seq(Octet)
           /\ Len(d \o g) = Len(d) + Len(g)
           /\ \A i \in 1..Len(d) : /\ (d \o g)[i] = d[i]
                                   /\ BlankAt(d \o g, i) <=> BlankAt(d, i)
                                   /\ Begun(d \o g, i) <=> Begun(d, i)
           /\ \A i \in Ends(d \o g, s) : i \in Ends(d, s) \/ i > Len(d)
           /\ Ends(d, s) \subseteq Ends(d \o g, s)
<1>1. d \o g \in Seq(Octet) /\ Len(d \o g) = Len(d) + Len(g) /\ Len(d) \in Nat /\ Len(g) \in Nat
  BY ConcatProperties
<1>2. \A i \in 1..Len(d) : (d \o g)[i] = d[i]
  BY ConcatProperties
<1>3. \A i \in 1..Len(d) : /\ BlankAt(d \o g, i) <=> BlankAt(d, i)
                           /\ Begun(d \o g, i) <=> Begun(d, i)
  BY <1>1, <1>2, PrefixDecides, Zenon
<1>4. ASSUME NEW i \in 1..Len(d) PROVE Begun(d \o g, i - 1) <=> Begun(d, i - 1)
  <2>1. CASE i = 1
    BY <2>1 DEF Begun
  <2>2. CASE i # 1
    <3>1. i - 1 \in 1..Len(d)
      BY <2>2
    <3> QED BY <3>1, <1>3
  <2> QED BY <2>1, <2>2
<1>5. \A i \in 1..Len(d) : i \in Ends(d \o g, s) <=> i \in Ends(d, s)
  BY <1>1, <1>3, <1>4 DEF Ends
<1>6. \A i \in Ends(d \o g, s) : i \in Nat
  BY <1>1 DEF Ends
<1> QED BY <1>1, <1>2, <1>3, <1>5, <1>6 DEF Ends

(* The test of the loop, made with line_start, is the reference's.         *)
LEMMA StepIsExact ==
    ASSUME TypeOK, Remembers, progress.at < Len(data)
    PROVE  /\ reached \in 1..Len(data)
           /\ AtLineEnd => (LineIsEmpty <=> BlankAt(data, reached))
           /\ FoundEnd <=> reached \in Ends(data, skip)
           /\ Begun(data, reached) <=> progress.started \/ (AtLineEnd /\ ~LineIsEmpty)
<1> DEFINE at == progress.at
           ls == progress.line_start
<1>0. /\ at \in Nat /\ ls \in Nat /\ reached = at + 1 /\ reached \in 1..Len(data)
      /\ Len(data) \in Nat /\ ls <= at /\ progress.started \in BOOLEAN
      /\ progress.started <=> Begun(data, at)
      /\ ls = 0 \/ data[ls] = "LF"
      /\ \A i \in 1..at : data[i] = "LF" => i <= ls
      /\ at - 1 = reached - 2
  BY DEF TypeOK, Remembers, reached
<1> HIDE DEF at, ls
<1>1. ASSUME AtLineEnd PROVE LineIsEmpty <=> BlankAt(data, reached)
  <2>0. data[reached] = "LF"
    BY <1>1 DEF AtLineEnd
  <2>1. LineIsEmpty <=> at = ls \/ (at - 1 = ls /\ data[at] = "CR")
    <3>1. LineIsEmpty <=> reached - 1 = ls \/ (reached - 2 = ls /\ data[reached - 1] = "CR")
      BY DEF LineIsEmpty, ls
    <3>2. reached - 1 = at /\ reached - 2 = at - 1
      BY <1>0
    <3> QED BY <3>1, <3>2
  <2>2. BlankAt(data, reached)
          <=> at = 0 \/ data[at] = "LF" \/ (data[at] = "CR" /\ (at = 1 \/ data[at - 1] = "LF"))
    BY <1>0, <2>0 DEF BlankAt
  <2>3. ASSUME at = ls \/ (at - 1 = ls /\ data[at] = "CR")
        PROVE  BlankAt(data, reached)
    BY <1>0, <2>2, <2>3
  <2>4. ASSUME at = 0 \/ data[at] = "LF" \/ (data[at] = "CR" /\ (at = 1 \/ data[at - 1] = "LF"))
        PROVE  at = ls \/ (at - 1 = ls /\ data[at] = "CR")
    <3>1. CASE at = 0
      BY <1>0, <3>1
    <3>2. CASE at # 0 /\ data[at] = "LF"
      BY <1>0, <3>2
    <3>3. CASE at # 0 /\ data[at] = "CR"
      <4>1. ls # at
        BY <1>0, <3>3
      <4>2. CASE at = 1
        BY <1>0, <3>3, <4>1, <4>2
      <4>3. CASE at # 1 /\ data[at - 1] = "LF"
        <5>1. at - 1 \in 1..at
          BY <1>0, <3>3, <4>3
        <5> QED BY <1>0, <3>3, <4>1, <4>3, <5>1
      <4> QED BY <2>4, <3>3, <4>2, <4>3
    <3> QED BY <2>4, <3>1, <3>2, <3>3
  <2> QED BY <2>1, <2>2, <2>3, <2>4
<1>2. FoundEnd <=> reached \in Ends(data, skip)
  <2>1. BlankAt(data, reached) => AtLineEnd
    BY DEF BlankAt, AtLineEnd
  <2>2. skip \in BOOLEAN /\ reached - 1 = at
    BY <1>0 DEF TypeOK
  <2>3. reached \in Ends(data, skip)
          <=> BlankAt(data, reached) /\ (skip => Begun(data, at))
    BY <1>0, <2>2 DEF Ends
  <2> QED BY <1>0, <1>1, <2>1, <2>2, <2>3 DEF FoundEnd
<1>3. Begun(data, reached)
        <=> Begun(data, at) \/ (data[reached] = "LF" /\ ~BlankAt(data, reached))
  BY <1>0 DEF Begun
<1> QED BY <1>0, <1>1, <1>2, <1>3 DEF AtLineEnd

----------------------------------------------------------------------------

(* Every step of the reader and its caller is a step of the buffer's own   *)
(* specification: counts are read off the live bytes.                      *)
LEMMA UsesBuffer == ASSUME SInv, [Next]_vars PROVE [BufferNext]_buffer
<1>1. CASE \E segment \in Segments \cup {<<>>} :
             received + Len(segment) <= MaxReceived /\ receive_data(segment)
  BY <1>1 DEF receive_data, BufferNext
<1>2. CASE parse_complete
  <2>1. PICK end \in 1..MaxHead : IsFirstEnd(end) /\ consume(end)
    BY <1>2 DEF parse_complete
  <2>2. end \in 1..live
    BY <2>1, DataType DEF IsFirstEnd, Ends, SInv, IInv
  <2> QED BY <2>1, <2>2 DEF BufferNext
<1>3. CASE peer_data
  BY <1>3 DEF peer_data, BufferNext
<1>4. CASE section_ready \/ poll \/ poll_none \/ need_data_or_eof \/ parse_partial
              \/ parse_error \/ finish_peer \/ UNCHANGED vars
  BY <1>4 DEF section_ready, poll, poll_none, need_data_or_eof, parse_partial,
              parse_error, finish_peer, vars
<1> QED BY <1>1, <1>2, <1>3, <1>4 DEF Next, Reader

(* The invariant of the scan holds at the beginning.                       *)
LEMMA ScanInitial == Init => SInv
<1>1. Ends(<<>>, skip) = {} /\ Len(<<>>) = 0 /\ <<>> \in Seq(Octet)
  BY EmptySeq DEF Ends
<1>2. ~Begun(<<>>, 0)
  BY DEF Begun
<1> SUFFICES ASSUME Init PROVE SInv
  OBVIOUS
<1>0. data = <<>> /\ IInv
  <2>1. SubSeq(<<>>, 0 + 1, Len(<<>>)) = <<>>
    BY EmptySeq, SubSeqEmpty
  <2> QED BY <2>1, Initial DEF Init, BufferInit, data, as_slice
<1>3. TypeOK
  <2>1. NewProgress \in [at : 0..0, line_start : Nat, started : BOOLEAN]
    BY DEF NewProgress
  <2> QED BY <1>0, <1>1, <2>1, Zenon DEF Init, TypeOK, IInv
<1>4. Remembers
  BY <1>0, <1>2 DEF Init, Remembers, NewProgress
<1>5. received = 0
  BY DEF Init, BufferInit
<1> QED BY <1>0, <1>1, <1>3, <1>4, <1>5 DEF Init, SInv, RetryIsJustified, NewProgress

(* A segment is appended behind the scanned part.                          *)
LEMMA ReceiveKeeps ==
    ASSUME SInv, NEW segment \in Segments \cup {<<>>}, receive_data(segment), IInv'
    PROVE  SInv'
<1>0. segment \in Seq(Octet) /\ Len(segment) \in Nat
  <2>1. <<>> \in Seq(Octet)
    BY EmptySeq
  <2>2. Segments \subseteq Seq(Octet)
    BY BufferAssumption
  <2>3. segment \in Seq(Octet)
    BY <2>1, <2>2, Zenon
  <2> QED BY <2>3
<1>1. /\ data \in Seq(Octet) /\ Len(data) \in Nat /\ skip \in BOOLEAN /\ tried \in BOOLEAN
      /\ progress \in [at : 0..Len(data), line_start : Nat, started : BOOLEAN]
      /\ received \in Nat /\ visited \in Nat /\ progress.at \in Nat
      /\ progress.at <= Len(data) /\ progress.line_start \in Nat
  BY DataType DEF SInv, TypeOK, BufferTypeOK
<1>2. /\ data' = data \o segment /\ received' = received + Len(segment)
      /\ mode' \in {"idle", "body"} /\ (mode' = "body" => mode = "body")
      /\ skip' = skip /\ progress' = progress /\ tried' = tried /\ visited' = visited
      /\ eof' \in BOOLEAN /\ mode \in {"idle", "asked", "body"}
  <2>1. CASE segment = <<>>
    <3>1. data' = data /\ received' = received
      BY <2>1, BufferSame DEF receive_data
    <3>2. data \o segment = data /\ Len(segment) = 0
      BY <1>1, <2>1, ConcatEmptySeq, EmptySeq
    <3> QED BY <1>1, <2>1, <3>1, <3>2 DEF receive_data, section
  <2>2. CASE segment # <<>>
    <3>1. extend(segment) /\ eof' = eof
      BY <2>2 DEF receive_data
    <3>2. data' = data \o segment
      BY <1>0, <3>1, ExtendAppends DEF SInv, IInv, data
    <3> QED BY <3>1, <3>2 DEF receive_data, section, extend, SInv, TypeOK
  <2> QED BY <2>1, <2>2
<1>3. /\ data' \in Seq(Octet) /\ Len(data') = Len(data) + Len(segment)
      /\ \A i \in 1..Len(data) : data'[i] = data[i] /\ (Begun(data', i) <=> Begun(data, i))
      /\ \A i \in Ends(data', skip) : i \in Ends(data, skip) \/ i > Len(data)
  BY <1>0, <1>1, <1>2, AppendKeepsEnds
<1>4. TypeOK'
  BY <1>0, <1>1, <1>2, <1>3 DEF TypeOK, IInv
<1>5. Remembers'
  <2>1. Begun(data', progress.at) <=> Begun(data, progress.at)
    <3>1. CASE progress.at = 0
      BY <3>1 DEF Begun
    <3>2. CASE progress.at # 0
      BY <1>1, <1>3, <3>2
    <3> QED BY <3>1, <3>2
  <2>2. Remembers
    BY DEF SInv
  <2>3. progress.line_start = 0 \/ data'[progress.line_start] = "LF"
    BY <1>1, <1>3, <2>2 DEF Remembers
  <2>4. ASSUME NEW i \in 1..progress.at, data'[i] = "LF" PROVE i <= progress.line_start
    <3>1. i \in 1..Len(data)
      BY <1>1
    <3>2. data[i] = "LF"
      BY <1>3, <2>4, <3>1
    <3> QED BY <2>2, <3>2 DEF Remembers
  <2>5. progress.line_start <= progress.at /\ (progress.started <=> Begun(data', progress.at))
    BY <2>1, <2>2 DEF Remembers
  <2>6. progress' = progress
    BY <1>2
  <2> QED BY <2>3, <2>4, <2>5, <2>6 DEF Remembers
<1>6. \A i \in Ends(data', skip') : i > progress'.at
  <2>1. \A i \in Ends(data, skip) : i > progress.at
    BY <1>2 DEF SInv
  <2>2. \A i \in Ends(data', skip) : i \in Nat
    BY DEF Ends
  <2> QED BY <1>1, <1>2, <1>3, <2>1, <2>2
<1>7. visited' + (Len(data') - progress'.at) <= received'
  <2>1. visited + (Len(data) - progress.at) <= received
    BY DEF SInv
  <2> QED BY <1>0, <1>1, <1>2, <1>3, <2>1
<1>8. \A i \in Ends(data', skip') : i >= progress'.at
  <2>1. \A i \in Ends(data', skip') : i \in Nat
    BY DEF Ends
  <2> QED BY <1>1, <1>2, <1>6, <2>1
<1> QED BY <1>2, <1>4, <1>5, <1>6, <1>7, <1>8 DEF SInv, RetryIsJustified

(* A step of SectionProgress::poll, one byte further, keeps the invariant. *)
LEMMA PollKeeps == ASSUME SInv, poll, IInv' PROVE SInv'
<1>0. /\ data \in Seq(Octet) /\ Len(data) \in Nat /\ skip \in BOOLEAN /\ tried \in BOOLEAN
      /\ received \in Nat /\ visited \in Nat /\ progress.at \in Nat /\ eof \in BOOLEAN
      /\ progress.line_start \in Nat /\ progress.started \in BOOLEAN
      /\ TypeOK /\ Remembers
  BY DataType DEF SInv, TypeOK, BufferTypeOK
<1>1. /\ mode \in {"retry", "wait"} /\ progress.at < Len(data)
      /\ visited' = visited + 1 /\ data' = data /\ skip' = skip /\ tried' = tried
      /\ eof' = eof /\ received' = received
      /\ mode' = IF ~FoundEnd THEN mode ELSE IF mode = "retry" THEN "parse" ELSE "answer"
      /\ progress' = [at |-> reached,
                      line_start |-> IF AtLineEnd THEN reached ELSE progress.line_start,
                      started |-> progress.started \/ (AtLineEnd /\ ~LineIsEmpty)]
  BY BufferSame DEF poll
<1>2. /\ reached \in 1..Len(data) /\ reached = progress.at + 1
      /\ FoundEnd <=> reached \in Ends(data, skip)
      /\ Begun(data, reached) <=> progress.started \/ (AtLineEnd /\ ~LineIsEmpty)
  BY <1>0, <1>1, StepIsExact DEF reached
<1>3. TypeOK'
  BY <1>0, <1>1, <1>2 DEF TypeOK, IInv
<1>4. Remembers'
  <2>1. progress'.started <=> Begun(data', progress'.at)
    BY <1>1, <1>2, Zenon
  <2>2. CASE AtLineEnd
    BY <1>0, <1>1, <1>2, <2>1, <2>2 DEF Remembers, AtLineEnd
  <2>3. CASE ~AtLineEnd
    BY <1>0, <1>1, <1>2, <2>1, <2>3 DEF Remembers, AtLineEnd
  <2> QED BY <2>2, <2>3
<1>5. \A i \in Ends(data, skip) : i \in Nat /\ i > progress.at
  BY <1>1 DEF SInv, Ends
<1>6. \A i \in Ends(data', skip') : i >= progress'.at
  BY <1>0, <1>1, <1>2, <1>5
<1>7. ~FoundEnd => \A i \in Ends(data', skip') : i > progress'.at
  <2>1. ASSUME ~FoundEnd, NEW i \in Ends(data, skip) PROVE i > reached
    BY <1>0, <1>2, <1>5, <2>1
  <2> QED BY <1>1, <2>1
<1>8. mode = "wait" => ~FoundEnd /\ Ends(data, skip) = {}
  BY <1>2 DEF SInv
<1>9. visited' + (Len(data') - progress'.at) <= received'
  <2>1. visited + (Len(data) - progress.at) <= received
    BY DEF SInv
  <2>2. /\ visited' = visited + 1 /\ Len(data') = Len(data) /\ received' = received
        /\ progress'.at = progress.at + 1
    BY <1>1, <1>2
  <2> QED BY <1>0, <2>1, <2>2
<1>10. RetryIsJustified'
  BY <1>1, <1>2, <1>8 DEF RetryIsJustified
<1>11. tried
  BY <1>1 DEF SInv
<1>12. mode' \in {"wait", "answer", "asked"} => Ends(data', skip') = {}
  BY <1>1, <1>8
<1>13. mode' \notin {"parse", "failed"} => \A i \in Ends(data', skip') : i > progress'.at
  BY <1>1, <1>7, <1>8
<1>14. tried'
  BY <1>1, <1>11
<1> QED BY <1>1, <1>3, <1>4, <1>6, <1>9, <1>10, <1>12, <1>13, <1>14 DEF SInv

(* wait_for_section, reached when there is no end in the data.             *)
LEMMA WaitKeeps ==
    ASSUME SInv, wait_for_section, Ends(data, skip) = {},
           UNCHANGED <<buffer, skip, eof, visited>>, IInv'
    PROVE  SInv'
<1>1. /\ data' = data /\ skip' = skip /\ eof' = eof /\ received' = received
      /\ visited' = visited /\ progress' = progress
      /\ \/ mode' = "failed" /\ tried' = tried
         \/ mode' = "wait" /\ tried' = TRUE
  BY BufferSame DEF wait_for_section
<1>2. TypeOK'
  BY <1>1, Zenon DEF SInv, TypeOK, IInv
<1>3. Remembers'
  BY <1>1 DEF SInv, Remembers
<1>4. ~tried' => progress' = NewProgress
  BY <1>1 DEF SInv
<1> QED BY <1>1, <1>2, <1>3, <1>4 DEF SInv, RetryIsJustified

(* Steps that change only the mode.                                        *)
LEMMA ModeKeeps ==
    ASSUME SInv, section_ready \/ poll_none \/ need_data_or_eof \/ parse_partial \/ parse_error
               \/ finish_peer, IInv'
    PROVE  SInv'
<1>1. ASSUME UNCHANGED <<buffer, section, eof, visited>>,
             mode' \in {"idle", "retry", "wait", "parse", "answer", "asked", "body", "failed"},
             mode' \in {"wait", "answer", "asked"} => Ends(data, skip) = {},
             mode' = "parse" /\ tried /\ ~eof => Ends(data, skip) # {},
             mode' \in {"retry", "wait"} => tried,
             mode' # "body",
             mode' \notin {"parse", "failed"} => mode \notin {"parse", "failed"}
      PROVE  SInv'
  <2>0. /\ data' = data /\ received' = received /\ skip' = skip
        /\ progress' = progress /\ tried' = tried
    BY <1>1, BufferSame DEF section
  <2>1. TypeOK'
    BY <1>1, <2>0 DEF SInv, TypeOK, IInv
  <2>2. Remembers'
    BY <2>0 DEF SInv, Remembers
  <2> QED BY <1>1, <2>0, <2>1, <2>2 DEF SInv, RetryIsJustified
<1>2. CASE section_ready
  BY <1>1, <1>2 DEF section_ready
<1>3. CASE poll_none
  <2>1. CASE mode = "retry"
    <3>1. Ends(data, skip) = {}
      <4>1. \A i \in Ends(data, skip) : i > progress.at /\ i \in 1..Len(data)
        BY <2>1 DEF SInv, Ends
      <4>2. progress.at >= Len(data) /\ progress.at \in Nat /\ Len(data) \in Nat
        BY <1>3, DataType DEF poll_none, SInv, TypeOK
      <4> QED BY <4>1, <4>2
    <3> QED BY <1>3, <2>1, <3>1, WaitKeeps DEF poll_none
  <2>2. CASE mode = "wait"
    <3>1. Ends(data, skip) = {} /\ tried
      BY <2>2 DEF SInv
    <3> QED BY <1>1, <1>3, <2>2, <3>1 DEF poll_none, section
  <2> QED BY <1>3, <2>1, <2>2 DEF poll_none
<1>4. CASE need_data_or_eof
  <2>1. Ends(data, skip) = {}
    BY <1>4 DEF SInv, need_data_or_eof
  <2> QED BY <1>1, <1>4, <2>1 DEF need_data_or_eof
<1>5. CASE parse_partial
  BY <1>5, WaitKeeps DEF parse_partial
<1>6. CASE parse_error
  BY <1>1, <1>6 DEF parse_error
<1>7. CASE finish_peer
  BY <1>1, <1>7 DEF finish_peer
<1> QED BY <1>2, <1>3, <1>4, <1>5, <1>6, <1>7

(* Consuming a section starts the scan anew.                               *)
LEMMA CompleteKeeps == ASSUME SInv, parse_complete, IInv' PROVE SInv'
<1>1. PICK end \in 1..MaxHead : IsFirstEnd(end) /\ consume(end)
  BY DEF parse_complete
<1>2. /\ skip' \in BOOLEAN /\ progress' = NewProgress /\ tried' = FALSE
      /\ mode' \in {"idle", "body"}
      /\ eof' = eof /\ received' = received /\ visited' = visited
  BY <1>1 DEF parse_complete, consume
<1>3. /\ data \in Seq(Octet) /\ Len(data) \in Nat /\ received \in Nat /\ visited \in Nat
      /\ progress.at \in Nat /\ eof \in BOOLEAN /\ Len(data) = live
  BY DataType DEF SInv, TypeOK, BufferTypeOK
<1>4. end \in 1..Len(data) /\ end >= progress.at
  BY <1>1 DEF IsFirstEnd, Ends, SInv
<1>5. data' \in Seq(Octet) /\ Len(data') = Len(data) - end
  <2>1. data' = SubSeq(data, end + 1, Len(data))
    BY <1>1, <1>3, <1>4, RemoveDrops DEF SInv, IInv, data
  <2> QED BY <1>3, <1>4, <2>1, SubSeqProperties
<1>6. NewProgress \in [at : 0..Len(data'), line_start : Nat, started : BOOLEAN]
  BY <1>3, <1>4, <1>5 DEF NewProgress
<1>7. TypeOK'
  BY <1>2, <1>3, <1>5, <1>6, Zenon DEF TypeOK, IInv
<1>8. Remembers'
  BY <1>2 DEF Remembers, NewProgress, Begun
<1>9. \A i \in Ends(data', skip') : i > progress'.at
  BY <1>2, <1>3, <1>4, <1>5 DEF Ends, NewProgress
<1>10. visited' + (Len(data') - progress'.at) <= received'
  BY <1>2, <1>3, <1>4, <1>5 DEF SInv, NewProgress
<1>11. \A i \in Ends(data', skip') : i >= progress'.at
  BY <1>2, <1>3, <1>4, <1>5 DEF Ends, NewProgress
<1> QED BY <1>2, <1>7, <1>8, <1>9, <1>10, <1>11 DEF SInv, RetryIsJustified

(* A body is taken between two sections, when nothing is remembered.       *)
LEMMA BodyKeeps == ASSUME SInv, peer_data, IInv' PROVE SInv'
<1>1. PICK count \in 1..live : take(count)
  BY DEF peer_data
<1>2. /\ skip' = skip /\ progress' = progress /\ tried' = tried /\ mode' = "body"
      /\ eof' = eof /\ received' = received /\ visited' = visited /\ mode = "body"
  BY <1>1 DEF peer_data, section, take
<1>3. /\ data \in Seq(Octet) /\ Len(data) \in Nat /\ received \in Nat /\ visited \in Nat
      /\ Len(data) = live /\ skip \in BOOLEAN /\ tried \in BOOLEAN /\ eof \in BOOLEAN
      /\ progress = NewProgress /\ ~tried
  BY <1>2, DataType DEF SInv, TypeOK, BufferTypeOK
<1>4. data' \in Seq(Octet) /\ Len(data') = Len(data) - count /\ count \in 1..Len(data)
  <2>1. data' = SubSeq(data, count + 1, Len(data))
    BY <1>1, <1>3, RemoveDrops DEF SInv, IInv, data
  <2> QED BY <1>3, <2>1, SubSeqProperties
<1>5. NewProgress \in [at : 0..Len(data'), line_start : Nat, started : BOOLEAN]
  BY <1>3, <1>4 DEF NewProgress
<1>6. TypeOK'
  BY <1>2, <1>3, <1>5 DEF TypeOK, IInv
<1>7. Remembers'
  BY <1>2, <1>3 DEF Remembers, NewProgress, Begun
<1>8. \A i \in Ends(data', skip') : i > progress'.at /\ i >= progress'.at
  BY <1>2, <1>3, <1>4 DEF Ends, NewProgress
<1>9. visited' + (Len(data') - progress'.at) <= received'
  BY <1>2, <1>3, <1>4 DEF SInv, NewProgress
<1> QED BY <1>2, <1>3, <1>6, <1>7, <1>8, <1>9 DEF SInv, RetryIsJustified

(* The invariant of the scan holds in every reachable state.               *)
LEMMA ScanInvariance == Spec => []SInv
<1>1. SInv /\ [Next]_vars => SInv'
  <2> SUFFICES ASSUME SInv, [Next]_vars PROVE SInv'
    OBVIOUS
  <2>0. IInv'
    BY UsesBuffer, Inductive DEF SInv
  <2>1. CASE UNCHANGED vars
    <3>0. /\ data' = data /\ received' = received /\ skip' = skip /\ eof' = eof
          /\ progress' = progress /\ tried' = tried /\ mode' = mode /\ visited' = visited
      BY <2>1, BufferSame DEF vars, section
    <3>1. TypeOK'
      BY <2>0, <3>0 DEF SInv, TypeOK, IInv
    <3>2. Remembers'
      BY <3>0 DEF SInv, Remembers
    <3> QED BY <2>0, <3>0, <3>1, <3>2 DEF SInv, RetryIsJustified
  <2> QED BY <2>0, <2>1, ReceiveKeeps, PollKeeps, ModeKeeps, CompleteKeeps, BodyKeeps
          DEF Next, Reader
<1> QED BY <1>1, ScanInitial, PTL DEF Spec

(* The end of a section is never missed, whatever the segmentation.        *)
THEOREM HintIsSound == Spec => []NoEndMissed
<1>1. SInv => NoEndMissed
  BY DEF SInv, NoEndMissed
<1> QED BY <1>1, ScanInvariance, PTL

(* No incomplete section is parsed again before its end or EOF is there.   *)
THEOREM HintIsExact == Spec => []RetryIsJustified
<1>1. SInv => RetryIsJustified
  BY DEF SInv
<1> QED BY <1>1, ScanInvariance, PTL

(* All tries together look at no more bytes than were received.            *)
THEOREM HintIsLinear == Spec => []ScanIsLinear
<1>1. SInv => ScanIsLinear
  <2> SUFFICES ASSUME SInv PROVE visited <= received
    BY DEF ScanIsLinear
  <2>1. /\ progress.at \in 0..Len(data) /\ Len(data) \in Nat /\ visited \in Nat
        /\ received \in Nat /\ visited + (Len(data) - progress.at) <= received
    BY DataType DEF SInv, TypeOK, BufferTypeOK
  <2> QED BY <2>1
<1> QED BY <1>1, ScanInvariance, PTL

(* Every step of the reader is a step of the buffer, or leaves it alone.   *)
LEMMA ScanUsesBuffer == Spec => BufferSpec
<1>1. Init => BufferInit
  BY DEF Init
<1>2. SInv /\ [Next]_vars => [BufferNext]_buffer
  BY UsesBuffer
<1> QED BY <1>1, <1>2, ScanInvariance, PTL DEF Spec, BufferSpec

(* For the reader the buffer is a queue, whatever it consumes and takes.   *)
THEOREM InputIsQueue == Spec => IsQueue
BY ScanUsesBuffer, BufferIsQueue

(* Over all sections and bodies compaction copies no more bytes than the   *)
(* reader consumed.                                                        *)
THEOREM InputIsAmortized == Spec => []CompactionIsAmortized
BY ScanUsesBuffer, CompactionCost

(* After every append less than half of the buffer is dead.                *)
THEOREM InputIsCompact == Spec => DeadSpaceIsBounded
BY ScanUsesBuffer, DeadSpace
============================================================================
