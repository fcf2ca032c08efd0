-------------------------- MODULE HexChunksProofs --------------------------
(***************************************************************************)
(* The hex conversions, for every chunk size, every slice and every width  *)
(* of usize: the chunk iterator's position fits a usize, and what is       *)
(* written is the slice's text or, if a write fails, a beginning of it.    *)
(*                                                                         *)
(* NoOverflow alone is not inductive: it says nothing of how pos got where *)
(* it is.  IInv adds that pos is at the start, at least one chunk further, *)
(* or at the end of the slice.  Text then ties what is written to pos: it  *)
(* is the first 2 * pos digits of Reference(slice).                        *)
(*                                                                         *)
(* Reference is one function over the slice, but HexString joins the       *)
(* strings of its bytes by a recursive one; that the two agree is the one  *)
(* induction here, made as a fact about a set of numbers (Induction).      *)
(***************************************************************************)
EXTENDS HexChunks, SequenceTheorems, WellFoundedInduction, TLAPS

\* What a slice, a chunk size and a position may be: a slice is never longer than
\* isize::MAX.
Bounded ==
  /\ slice \in Seq(Bytes) /\ Len(slice) <= MaxLen
  /\ chunk \in Usize /\ pos \in Usize

\* Where ChunkIter::next leaves pos.
Stepped == form = "chunks" => pos = 0 \/ chunk <= pos \/ Len(slice) <= pos

IInv == Bounded /\ Stepped

-----------------------------------------------------------------------------
\* A sum that fits a usize is not wrapped (the + of ChunkIter::next).
LEMMA FittingSum ==
  ASSUME NEW x \in Nat, NEW m \in Nat, x <= m
  PROVE  x % (m + 1) = x
<1> DEFINE k == m + 1
<1>1. k \in Nat /\ k > 0 /\ x < k
  OBVIOUS
<1>2. \A j \in Nat : j > 0 /\ x < j => x % j = x
  BY Z3
<1> QED BY <1>1, <1>2

\* At a position inside the slice, one more chunk is no further than usize::MAX.
LEMMA ChunkFits ==
  ASSUME IInv
  PROVE  NoOverflow
<1> SUFFICES ASSUME form = "chunks", pos < Len(slice)
             PROVE  pos + chunk \in Usize
  BY DEF NoOverflow
<1>1. Len(slice) \in Nat /\ Len(slice) <= MaxLen
  BY DEF IInv, Bounded
<1>2. CASE pos = 0
  BY <1>2, HexAssumption DEF IInv, Bounded, Usize
<1>3. CASE chunk <= pos
  BY <1>1, <1>3, HexAssumption DEF IInv, Bounded, Usize
<1> QED BY <1>1, <1>2, <1>3, HexAssumption DEF IInv, Bounded, Stepped, Usize

LEMMA InitIInv == Init => IInv
<1> SUFFICES ASSUME Init PROVE IInv
  OBVIOUS
<1>1. PICK n \in 0..MaxLen : slice \in [1..n -> Bytes]
  BY DEF Init
<1>2. slice \in Seq(Bytes) /\ Len(slice) <= MaxLen
  BY <1>1, HexAssumption, SMTT(30)
<1> QED BY <1>2, HexAssumption DEF Init, IInv, Bounded, Stepped, Usize

\* A step of a loop over single bytes.
LEMMA ByteKeeps ==
  ASSUME IInv, form # "chunks", pos < Len(slice), pos' \in 0..Len(slice),
         UNCHANGED <<form, slice, chunk>>
  PROVE  IInv'
<1>1. Len(slice) \in Nat /\ Len(slice) <= UsizeMax
  BY HexAssumption DEF IInv, Bounded
<1>2. pos' \in Usize
  BY <1>1, HexAssumption DEF Usize
<1> QED BY <1>2 DEF IInv, Bounded, Stepped

LEMMA StepKeeps == IInv /\ [Next]_vars => IInv'
<1> SUFFICES ASSUME IInv, [Next]_vars PROVE IInv'
  OBVIOUS
<1>1. CASE NextChunk
  <2>1. /\ form = "chunks" /\ pos < Len(slice)
        /\ pos' = (pos + chunk) % (UsizeMax + 1)
        /\ UNCHANGED <<form, slice, chunk>>
    BY <1>1 DEF NextChunk, More
  <2>2. pos + chunk \in Usize
    BY <2>1, ChunkFits DEF NoOverflow
  <2>3. pos' = pos + chunk
    BY <2>1, <2>2, FittingSum, HexAssumption DEF Usize
  <2>4. pos' = 0 \/ chunk <= pos' \/ Len(slice) <= pos'
    BY <2>1, <2>3, HexAssumption DEF IInv, Bounded, Usize
  <2>5. Bounded'
    BY <2>1, <2>2, <2>3 DEF IInv, Bounded
  <2> QED BY <2>1, <2>4, <2>5 DEF IInv, Stepped
<1>2. CASE NextByte \/ FillSlot
  <2>1. form # "chunks" /\ pos < Len(slice) /\ pos' = pos + 1 /\ UNCHANGED <<form, slice, chunk>>
    BY <1>2 DEF NextByte, FillSlot, More
  <2>2. pos' \in 0..Len(slice)
    BY <2>1, HexAssumption DEF IInv, Bounded, Usize
  <2> QED BY <2>1, <2>2, ByteKeeps
<1>3. CASE ToString
  <2>1. form # "chunks" /\ pos < Len(slice) /\ pos' = Len(slice) /\ UNCHANGED <<form, slice, chunk>>
    BY <1>3 DEF ToString, More
  <2>2. pos' \in 0..Len(slice)
    BY <2>1, HexAssumption DEF IInv, Bounded, Usize
  <2> QED BY <2>1, <2>2, ByteKeeps
<1>4. CASE Finish \/ UNCHANGED vars
  <2>1. UNCHANGED <<form, slice, chunk, pos>>
    BY <1>4 DEF Finish, vars
  <2> QED BY <2>1 DEF IInv, Bounded, Stepped
<1> QED BY <1>1, <1>2, <1>3, <1>4 DEF Next

-----------------------------------------------------------------------------
(* The text.                                                               *)

HexDigits == {UpperDigits[i] : i \in 1..16} \cup {LowerDigits[i] : i \in 1..16}

\* The first k digits of the slice's text.
Upto(k) == [i \in 1..k |-> Reference(slice)[i]]

\* What is written is a part of the text, and how long it is as long as no write failed; an
\* array is filled as far as pos and nothing is written of it.
Text ==
  /\ form \in Forms
  /\ state \in {"run", "done", "error"}
  /\ slots \in [DOMAIN slice -> {<<>>} \cup {LOWER_HEX_BYTES[b] : b \in Bytes}]
  /\ \E k \in 0..(2 * Len(slice)) :
       /\ out = Upto(k)
       /\ state = "done" => k = 2 * Len(slice)
       /\ state = "run" => k = IF form = "array" THEN 0 ELSE 2 * Smaller(pos, Len(slice))
  /\ form = "array" => \A i \in DOMAIN slice : i <= pos => slots[i] = ToHex(slice[i])

\* Induction, as a fact about sets.
LEMMA Induction ==
  ASSUME NEW S \in SUBSET Nat, 0 \in S, \A k \in S : k + 1 \in S
  PROVE  \A n \in Nat : n \in S
<1> SUFFICES ASSUME NEW n \in Nat, n \notin S PROVE FALSE
  OBVIOUS
<1> DEFINE R == OpToRel(<, Nat)
           T == Nat \ S
<1>1. IsWellFoundedOn(R, Nat)
  BY NatLessThanWellFounded
<1>2. \A x, y \in Nat : x < y => <<x, y>> \in R
  BY DEF OpToRel
<1> HIDE DEF R
<1>3. T \in SUBSET Nat /\ T # {}
  OBVIOUS
<1> HIDE DEF T
<1>4. PICK m \in T : \A k \in T : <<k, m>> \notin R
  BY <1>1, <1>3, WFMin, Zenon
<1>5. m \in Nat /\ m # 0 /\ m \notin S
  BY <1>4 DEF T
<1>6. m - 1 \in Nat /\ m - 1 < m /\ (m - 1) + 1 = m
  BY <1>5
<1>7. m - 1 \in T
  BY <1>5, <1>6 DEF T
<1> QED BY <1>2, <1>4, <1>5, <1>6, <1>7

\* The first or second digit of a byte in the tables.
Digit(b, k) ==
  LET nibble == IF k = 1 THEN b \div 16 ELSE b % 16
  IN IF form = "upper" THEN UpperDigits[nibble + 1] ELSE LowerDigits[nibble + 1]

LEMMA ByteIsTwoDigits ==
  ASSUME NEW b \in Bytes
  PROVE  /\ ToHex(b) = <<Digit(b, 1), Digit(b, 2)>>
         /\ Digit(b, 1) \in HexDigits /\ Digit(b, 2) \in HexDigits
<1>1. b \in 0..255
  BY HexAssumption
<1>2. (b \div 16) + 1 \in 1..16 /\ (b % 16) + 1 \in 1..16
  BY <1>1
<1>3. ToHex(b) = <<Digit(b, 1), Digit(b, 2)>>
  <2>1. UPPER_HEX_BYTES[b] = <<UpperDigits[(b \div 16) + 1], UpperDigits[(b % 16) + 1]>>
    BY <1>1, Zenon DEF UPPER_HEX_BYTES
  <2>2. LOWER_HEX_BYTES[b] = <<LowerDigits[(b \div 16) + 1], LowerDigits[(b % 16) + 1]>>
    BY <1>1, Zenon DEF LOWER_HEX_BYTES
  <2>3. /\ Digit(b, 1) = IF form = "upper" THEN UpperDigits[(b \div 16) + 1]
                                          ELSE LowerDigits[(b \div 16) + 1]
        /\ Digit(b, 2) = IF form = "upper" THEN UpperDigits[(b % 16) + 1]
                                          ELSE LowerDigits[(b % 16) + 1]
    BY DEF Digit
  <2>4. CASE form = "upper"
    BY <2>1, <2>3, <2>4, Zenon DEF ToHex
  <2>5. CASE form # "upper"
    BY <2>2, <2>3, <2>5, Zenon DEF ToHex
  <2> QED BY <2>4, <2>5
<1>4. Digit(b, 1) \in HexDigits /\ Digit(b, 2) \in HexDigits
  BY <1>2 DEF Digit, HexDigits
<1> QED BY <1>3, <1>4

\* Which byte a digit of the text belongs to.
LEMMA ReferenceDigits ==
  ASSUME NEW bytes \in Seq(Bytes)
  PROVE  /\ Reference(bytes) \in Seq(HexDigits)
         /\ Len(Reference(bytes)) = 2 * Len(bytes)
         /\ \A j \in 1..Len(bytes) : /\ Reference(bytes)[2 * j - 1] = Digit(bytes[j], 1)
                                     /\ Reference(bytes)[2 * j] = Digit(bytes[j], 2)
<1> DEFINE D(i) == Digit(bytes[(i + 1) \div 2], IF i % 2 = 1 THEN 1 ELSE 2)
           n == 2 * Len(bytes)
<1>1. Reference(bytes) = [i \in 1..n |-> D(i)]
  BY DEF Reference, Digit
<1>2. n \in Nat /\ Len(bytes) \in Nat
  OBVIOUS
<1>3. \A i \in 1..n : (i + 1) \div 2 \in 1..Len(bytes)
  BY <1>2
<1>4. \A i \in 1..n : bytes[(i + 1) \div 2] \in Bytes
  BY <1>3
<1>5. \A i \in 1..n : D(i) \in HexDigits
  BY <1>4, ByteIsTwoDigits
<1>6. ASSUME NEW j \in 1..Len(bytes)
      PROVE  D(2 * j - 1) = Digit(bytes[j], 1) /\ D(2 * j) = Digit(bytes[j], 2)
  <2>1. /\ ((2 * j - 1) + 1) \div 2 = j /\ (2 * j - 1) % 2 = 1
        /\ (2 * j + 1) \div 2 = j /\ (2 * j) % 2 = 0
    BY <1>2
  <2> QED BY <2>1
<1>7. \A j \in 1..Len(bytes) : 2 * j - 1 \in 1..n /\ 2 * j \in 1..n
  BY <1>2
<1> HIDE DEF D, n
<1>8. Reference(bytes) \in Seq(HexDigits) /\ Len(Reference(bytes)) = n
  BY <1>1, <1>2, <1>5
<1> QED BY <1>1, <1>6, <1>7, <1>8 DEF n

\* The library's facts on concatenation, at the sequences of this module.
LEMMA ConcatDigits ==
  \A s, t \in Seq(HexDigits) :
    /\ s \o t \in Seq(HexDigits) /\ Len(s \o t) = Len(s) + Len(t)
    /\ \A i \in 1..(Len(s) + Len(t)) :
         (s \o t)[i] = IF i <= Len(s) THEN s[i] ELSE t[i - Len(s)]
BY ConcatProperties

\* Pushing the two digits of each byte, one byte after the other, gives the text of all of
\* them (the loops of to_string, of iter_chunks and of StrArray's Display).
LEMMA JoinedIsReference ==
  ASSUME NEW bytes \in Seq(Bytes), NEW S, NEW s \in Seq(S), Len(s) = Len(bytes),
         \A i \in 1..Len(s) : s[i] = ToHex(bytes[i])
  PROVE  Joined(s) = Reference(bytes)
<1> DEFINE n == Len(s)
           ref == Reference(bytes)
           P(k) == [i \in 1..(2 * k) |-> ref[i]]
           w == [k \in 0..n |-> P(k)]
           h == CHOOSE f : f = [k \in 0..n |-> IF k = 0 THEN <<>> ELSE f[k - 1] \o s[k]]
<1>1. Joined(s) = h[n]
  BY DEF Joined
<1>2. n \in Nat
  OBVIOUS
<1>3. /\ ref \in Seq(HexDigits) /\ Len(ref) = 2 * n
      /\ \A j \in 1..n : ref[2 * j - 1] = Digit(bytes[j], 1) /\ ref[2 * j] = Digit(bytes[j], 2)
  BY ReferenceDigits
<1> HIDE DEF ref
<1>4. \A k \in 0..n : P(k) \in Seq(HexDigits) /\ Len(P(k)) = 2 * k
  <2> SUFFICES ASSUME NEW k \in 0..n
               PROVE  P(k) \in Seq(HexDigits) /\ Len(P(k)) = 2 * k
    OBVIOUS
  <2>1. 2 * k \in Nat /\ \A i \in 1..(2 * k) : i \in 1..Len(ref)
    BY <1>2, <1>3
  <2>2. \A i \in 1..(2 * k) : ref[i] \in HexDigits
    BY <1>3, <2>1
  <2> QED BY <2>1, <2>2
<1>5. ASSUME NEW k \in 1..n PROVE P(k - 1) \o s[k] = P(k)
  <2> DEFINE a == P(k - 1)
             b == s[k]
             c == a \o b
             d == P(k)
  <2>1. /\ b = <<Digit(bytes[k], 1), Digit(bytes[k], 2)>>
        /\ Digit(bytes[k], 1) \in HexDigits /\ Digit(bytes[k], 2) \in HexDigits
    BY ByteIsTwoDigits
  <2>2. b \in Seq(HexDigits) /\ Len(b) = 2 /\ b[1] = ref[2 * k - 1] /\ b[2] = ref[2 * k]
    BY <1>3, <2>1
  <2>3. k - 1 \in 0..n /\ k \in 0..n /\ 2 * (k - 1) = 2 * k - 2 /\ 2 * k - 2 \in Nat
    BY <1>2
  <2>4. /\ a \in Seq(HexDigits) /\ Len(a) = 2 * k - 2
        /\ \A i \in 1..(2 * k - 2) : a[i] = ref[i]
        /\ d \in Seq(HexDigits) /\ Len(d) = 2 * k
        /\ \A i \in 1..(2 * k) : d[i] = ref[i]
    BY <1>4, <2>3
  <2> HIDE DEF a, b, d
  <2>5. /\ c \in Seq(HexDigits) /\ Len(c) = Len(a) + Len(b)
        /\ \A i \in 1..(Len(a) + Len(b)) : c[i] = IF i <= Len(a) THEN a[i] ELSE b[i - Len(a)]
    BY <2>2, <2>4, ConcatDigits, Zenon
  <2> HIDE DEF c
  <2>6. Len(c) = 2 * k
    BY <2>2, <2>3, <2>4, <2>5
  <2>7. ASSUME NEW i \in 1..(2 * k) PROVE c[i] = ref[i]
    <3>1. i \in 1..(Len(a) + Len(b))
      BY <2>2, <2>3, <2>4
    <3>2. CASE i <= 2 * k - 2
      <4>1. c[i] = a[i] /\ i \in 1..(2 * k - 2)
        BY <2>3, <2>4, <2>5, <3>1, <3>2
      <4> QED BY <2>4, <4>1
    <3>3. CASE i = 2 * k - 1
      <4>1. ~(i <= Len(a)) /\ i - Len(a) = 1
        BY <2>3, <2>4, <3>3
      <4> QED BY <2>2, <2>5, <3>1, <3>3, <4>1
    <3>4. CASE i = 2 * k
      <4>1. ~(i <= Len(a)) /\ i - Len(a) = 2
        BY <2>3, <2>4, <3>4
      <4> QED BY <2>2, <2>5, <3>1, <3>4, <4>1
    <3> QED BY <2>3, <3>2, <3>3, <3>4
  <2>8. \A i \in 1..Len(c) : c[i] = d[i]
    BY <2>4, <2>6, <2>7
  <2>9. c = d
    BY <2>4, <2>5, <2>6, <2>8, SeqEqual
  <2> QED BY <2>9 DEF a, b, c, d
<1>6. P(0) = <<>>
  OBVIOUS
<1>7. w = [k \in 0..n |-> IF k = 0 THEN <<>> ELSE w[k - 1] \o s[k]]
  <2>1. \A k \in 1..n : k - 1 \in 0..n /\ w[k - 1] = P(k - 1)
    BY <1>2
  <2>2. \A k \in 0..n : P(k) = IF k = 0 THEN <<>> ELSE w[k - 1] \o s[k]
    <3> HIDE DEF w, P
    <3> SUFFICES ASSUME NEW k \in 0..n, k # 0 PROVE P(k) = w[k - 1] \o s[k]
      BY <1>6
    <3>1. k \in 1..n
      BY <1>2
    <3> QED BY <1>5, <2>1, <3>1
  <2> HIDE DEF P
  <2> QED BY <2>2
<1> HIDE DEF w, P
<1>8. h = [k \in 0..n |-> IF k = 0 THEN <<>> ELSE h[k - 1] \o s[k]]
  BY <1>7
<1> HIDE DEF h
<1>9. \A k \in Nat : k \in {j \in Nat : j <= n => h[j] = P(j)}
  <2> DEFINE I == {j \in Nat : j <= n => h[j] = P(j)}
  <2>1. 0 \in I
    <3>1. 0 \in 0..n /\ h[0] = <<>>
      BY <1>2, <1>8
    <3> QED BY <1>6, <3>1
  <2>2. ASSUME NEW k \in I PROVE k + 1 \in I
    <3> SUFFICES ASSUME k + 1 <= n PROVE h[k + 1] = P(k + 1)
      OBVIOUS
    <3>1. h[k] = P(k) /\ k + 1 \in 1..n /\ k + 1 \in 0..n /\ k + 1 # 0 /\ (k + 1) - 1 = k
      BY <1>2
    <3>2. h[k + 1] = h[k] \o s[k + 1]
      BY <1>8, <3>1
    <3>3. P(k) \o s[k + 1] = P(k + 1)
      BY <1>5, <3>1
    <3> QED BY <3>1, <3>2, <3>3
  <2> HIDE DEF I
  <2>3. I \in SUBSET Nat
    BY DEF I
  <2>4. \A k \in Nat : k \in I
    BY <2>1, <2>2, <2>3, Induction
  <2> QED BY <2>4 DEF I
<1>10. h[n] = P(n)
  BY <1>2, <1>9
<1>11. P(n) = ref
  <2>1. ref = [i \in 1..Len(ref) |-> ref[i]]
    BY <1>3, LenProperties
  <2> QED BY <1>3, <2>1 DEF P
<1> QED BY <1>1, <1>10, <1>11 DEF ref

LEMMA HexStringIsReference ==
  ASSUME NEW bytes \in Seq(Bytes)
  PROVE  HexString(bytes) = Reference(bytes)
<1> DEFINE s == [i \in DOMAIN bytes |-> ToHex(bytes[i])]
           S == {ToHex(b) : b \in Bytes}
<1>1. s \in Seq(S) /\ Len(s) = Len(bytes) /\ \A i \in 1..Len(s) : s[i] = ToHex(bytes[i])
  OBVIOUS
<1> HIDE DEF s, S
<1>2. Joined(s) = Reference(bytes)
  BY <1>1, JoinedIsReference
<1> QED BY <1>2 DEF s, HexString

-----------------------------------------------------------------------------
(* One lemma per kind of step.                                             *)

\* The text of a chunk is the part of the text of the slice that it stands for.
LEMMA PartOfText ==
  ASSUME slice \in Seq(Bytes), NEW p \in Nat, NEW q \in p..Len(slice)
  PROVE  /\ Reference(SubSeq(slice, p + 1, q)) \in Seq(HexDigits)
         /\ Len(Reference(SubSeq(slice, p + 1, q))) = 2 * (q - p)
         /\ \A i \in 1..(2 * (q - p)) :
              Reference(SubSeq(slice, p + 1, q))[i] = Reference(slice)[2 * p + i]
<1> DEFINE t == SubSeq(slice, p + 1, q)
<1>0. Len(slice) \in Nat /\ q \in Nat
  OBVIOUS
<1>1. t \in Seq(Bytes) /\ Len(t) = q - p /\ \A j \in 1..(q - p) : t[j] = slice[p + j]
  BY <1>0
<1> HIDE DEF t
<1>2. Reference(t) \in Seq(HexDigits) /\ Len(Reference(t)) = 2 * (q - p)
  BY <1>1, ReferenceDigits
<1>3. ASSUME NEW j \in 1..(q - p)
      PROVE  /\ Reference(t)[2 * j - 1] = Reference(slice)[2 * p + (2 * j - 1)]
             /\ Reference(t)[2 * j] = Reference(slice)[2 * p + 2 * j]
  <2>1. p + j \in 1..Len(slice) /\ t[j] = slice[p + j]
    BY <1>0, <1>1
  <2>2. /\ Reference(t)[2 * j - 1] = Digit(t[j], 1)
        /\ Reference(t)[2 * j] = Digit(t[j], 2)
    BY <1>1, ReferenceDigits
  <2>3. /\ Reference(slice)[2 * (p + j) - 1] = Digit(slice[p + j], 1)
        /\ Reference(slice)[2 * (p + j)] = Digit(slice[p + j], 2)
    BY <2>1, ReferenceDigits
  <2>4. 2 * (p + j) - 1 = 2 * p + (2 * j - 1) /\ 2 * (p + j) = 2 * p + 2 * j
    BY <1>0
  <2> QED BY <2>1, <2>2, <2>3, <2>4
<1>4. ASSUME NEW i \in 1..(2 * (q - p))
      PROVE  Reference(t)[i] = Reference(slice)[2 * p + i]
  <2>1. PICK j \in 1..(q - p) : i = 2 * j - 1 \/ i = 2 * j
    <3>1. /\ (i + 1) \div 2 \in 1..(q - p)
          /\ i = 2 * ((i + 1) \div 2) - 1 \/ i = 2 * ((i + 1) \div 2)
      BY <1>0
    <3> QED BY <3>1
  <2> QED BY <1>3, <2>1
<1> QED BY <1>2, <1>4 DEF t

\* A write of the digits of the bytes from p on, to the end or to where the writer failed.
LEMMA WriteKeeps ==
  ASSUME slice \in Seq(Bytes), NEW p \in Nat, NEW q \in p..Len(slice),
         out = Upto(2 * p), state = "run",
         NEW text \in Seq(HexDigits), Len(text) = 2 * (q - p),
         \A i \in 1..(2 * (q - p)) : text[i] = Reference(slice)[2 * p + i],
         Write(text)
  PROVE  \E k \in 0..(2 * Len(slice)) :
           out' = Upto(k) /\ ((state' = "run" /\ k = 2 * q) \/ state' = "error")
<1> DEFINE ref == Reference(slice)
<1>0. Len(slice) \in Nat /\ q \in Nat /\ 2 * p \in Nat /\ 2 * p <= 2 * q /\ 2 * q <= 2 * Len(slice)
  OBVIOUS
<1>1. ref \in Seq(HexDigits) /\ Len(ref) = 2 * Len(slice)
  BY ReferenceDigits
<1>2. \A k \in 0..(2 * Len(slice)) : /\ Upto(k) \in Seq(HexDigits) /\ Len(Upto(k)) = k
                                     /\ \A i \in 1..k : Upto(k)[i] = ref[i]
  <2> SUFFICES ASSUME NEW k \in 0..(2 * Len(slice))
               PROVE  /\ Upto(k) \in Seq(HexDigits) /\ Len(Upto(k)) = k
                      /\ \A i \in 1..k : Upto(k)[i] = ref[i]
    OBVIOUS
  <2>1. k \in Nat /\ \A i \in 1..k : ref[i] \in HexDigits
    <3>1. k \in Nat /\ \A i \in 1..k : i \in 1..Len(ref)
      BY <1>0, <1>1
    <3>2. \A i \in 1..Len(ref) : ref[i] \in HexDigits
      BY <1>1, ElementOfSeq
    <3> QED BY <3>1, <3>2
  <2>2. Upto(k) = [i \in 1..k |-> ref[i]]
    BY DEF Upto
  <2> HIDE DEF ref
  <2> QED BY <2>1, <2>2, SMTT(30)
<1> HIDE DEF ref
<1>3. ASSUME NEW t \in Seq(HexDigits), Len(t) <= 2 * (q - p),
             \A i \in 1..Len(t) : t[i] = ref[2 * p + i]
      PROVE  out \o t = Upto(2 * p + Len(t)) /\ 2 * p + Len(t) \in 0..(2 * Len(slice))
  <2> DEFINE c == out \o t
             k == 2 * p + Len(t)
             d == Upto(k)
  <2>1. Len(t) \in Nat /\ k \in 0..(2 * Len(slice))
    BY <1>0, <1>3
  <2>2. /\ out \in Seq(HexDigits) /\ Len(out) = 2 * p
        /\ \A i \in 1..(2 * p) : out[i] = ref[i]
    BY <1>0, <1>2
  <2>3. d \in Seq(HexDigits) /\ Len(d) = k /\ \A i \in 1..k : d[i] = ref[i]
    BY <1>2, <2>1
  <2> HIDE DEF d
  <2>4. /\ c \in Seq(HexDigits) /\ Len(c) = Len(out) + Len(t)
        /\ \A i \in 1..(Len(out) + Len(t)) : c[i] = IF i <= Len(out) THEN out[i] ELSE t[i - Len(out)]
    BY <1>3, <2>2, ConcatDigits, Zenon
  <2> HIDE DEF c
  <2>5. Len(c) = k
    BY <2>1, <2>2, <2>4
  <2>6. ASSUME NEW i \in 1..k PROVE c[i] = ref[i]
    <3>0. i \in Nat /\ i \in 1..(Len(out) + Len(t))
      BY <1>0, <2>1, <2>2
    <3>1. CASE i <= 2 * p
      <4>1. i \in 1..(2 * p) /\ i <= Len(out)
        BY <1>0, <2>2, <3>0, <3>1
      <4>2. c[i] = out[i]
        BY <2>4, <3>0, <4>1
      <4> QED BY <2>2, <4>1, <4>2
    <3>2. CASE ~(i <= 2 * p)
      <4>0. i - 2 * p \in 1..Len(t) /\ 2 * p + (i - 2 * p) = i
        BY <1>0, <2>1, <2>2, <3>0, <3>2
      <4>1. c[i] = t[i - 2 * p]
        BY <2>2, <2>4, <3>0, <3>2
      <4>2. t[i - 2 * p] = ref[2 * p + (i - 2 * p)]
        BY <1>3, <4>0
      <4> QED BY <4>0, <4>1, <4>2
    <3> QED BY <3>1, <3>2
  <2>7. \A i \in 1..Len(c) : c[i] = d[i]
    BY <2>3, <2>5, <2>6
  <2>8. c = d
    BY <2>3, <2>4, <2>5, <2>7, SeqEqual
  <2> QED BY <2>1, <2>8 DEF c, d
<1>4. CASE out' = out \o text /\ state' = state
  <2>1. Len(text) <= 2 * (q - p) /\ 2 * p + Len(text) = 2 * q
    BY <1>0
  <2>2. \A i \in 1..Len(text) : text[i] = ref[2 * p + i]
    BY DEF ref
  <2>3. out \o text = Upto(2 * q) /\ 2 * q \in 0..(2 * Len(slice))
    BY <1>3, <2>1, <2>2
  <2> QED BY <1>4, <2>3
<1>5. CASE state' = "error" /\ \E k \in 0..Len(text) : out' = out \o SubSeq(text, 1, k)
  <2>1. PICK k \in 0..Len(text) : out' = out \o SubSeq(text, 1, k)
    BY <1>5
  <2> DEFINE t == SubSeq(text, 1, k)
  <2>2. /\ t \in Seq(HexDigits) /\ Len(t) = k /\ \A i \in 1..k : t[i] = text[i]
        /\ k \in Nat /\ k <= 2 * (q - p)
    BY <1>0
  <2> HIDE DEF t
  <2>3. \A i \in 1..Len(t) : t[i] = ref[2 * p + i]
    <3>1. \A i \in 1..k : i \in 1..(2 * (q - p))
      BY <1>0, <2>2
    <3> QED BY <2>2, <3>1 DEF ref
  <2>4. out \o t = Upto(2 * p + k) /\ 2 * p + k \in 0..(2 * Len(slice))
    BY <1>3, <2>2, <2>3
  <2> QED BY <1>5, <2>1, <2>4 DEF t
<1> QED BY <1>4, <1>5 DEF Write

LEMMA InitText == Init => Text
<1> SUFFICES ASSUME Init PROVE Text
  OBVIOUS
<1>1. slice \in Seq(Bytes)
  BY InitIInv DEF IInv, Bounded
<1>2. Len(slice) \in Nat /\ Upto(0) = <<>> /\ Smaller(0, Len(slice)) = 0
  BY <1>1 DEF Upto, Smaller
<1>3. slots \in [DOMAIN slice -> {<<>>} \cup {LOWER_HEX_BYTES[b] : b \in Bytes}]
  BY DEF Init
<1>4. \A i \in DOMAIN slice : ~(i <= pos)
  BY <1>1 DEF Init
<1>5. \E k \in 0..(2 * Len(slice)) :
        /\ out = Upto(k)
        /\ state = "done" => k = 2 * Len(slice)
        /\ state = "run" => k = IF form = "array" THEN 0 ELSE 2 * Smaller(pos, Len(slice))
  <2>1. 0 \in 0..(2 * Len(slice)) /\ out = Upto(0) /\ state = "run"
        /\ 0 = IF form = "array" THEN 0 ELSE 2 * Smaller(pos, Len(slice))
    BY <1>2 DEF Init
  <2> QED BY <2>1
<1> QED BY <1>3, <1>4, <1>5 DEF Text, Init

\* A step that leaves the call's data alone keeps the text of its slice.
LEMMA SameText ==
  ASSUME UNCHANGED <<form, slice>>
  PROVE  Reference(slice)' = Reference(slice) /\ \A k : Upto(k)' = Upto(k)
BY DEF Reference, Upto

\* A loop has written the digits of the bytes up to pos.
LEMMA Written ==
  ASSUME IInv, Text, state = "run", form # "array", pos < Len(slice)
  PROVE  out = Upto(2 * pos) /\ pos \in Nat /\ Len(slice) \in Nat
<1>1. pos \in Nat /\ Len(slice) \in Nat
  BY HexAssumption DEF IInv, Bounded, Usize
<1> QED BY <1>1 DEF Text, Smaller

\* What a write at pos leaves behind, if the loop has moved to next.
LEMMA LoopKeeps ==
  ASSUME IInv, Text, form # "array", pos < Len(slice), state = "run",
         NEW text \in Seq(HexDigits), Write(text),
         NEW q \in pos..Len(slice), Len(text) = 2 * (q - pos),
         \A i \in 1..(2 * (q - pos)) : text[i] = Reference(slice)[2 * pos + i],
         Smaller(pos', Len(slice)) = q,
         UNCHANGED <<form, slice, slots>>
  PROVE  Text'
<1>1. out = Upto(2 * pos) /\ pos \in Nat /\ slice \in Seq(Bytes) /\ Len(slice) \in Nat
  BY Written DEF IInv, Bounded
<1>2. PICK k \in 0..(2 * Len(slice)) :
         out' = Upto(k) /\ ((state' = "run" /\ k = 2 * q) \/ state' = "error")
  BY <1>1, WriteKeeps
<1>3. out' = Upto(k)'
  BY <1>2, SameText
<1>4. state' = "run" => k = 2 * Smaller(pos', Len(slice'))
  BY <1>2
<1> QED BY <1>2, <1>3, <1>4 DEF Text

LEMMA ChunkKeeps == IInv /\ Text /\ NextChunk => Text'
<1> SUFFICES ASSUME IInv, Text, NextChunk PROVE Text'
  OBVIOUS
<1> DEFINE q == Smaller(pos + chunk, Len(slice))
           text == HexString(SubSeq(slice, pos + 1, q))
<1>1. /\ form = "chunks" /\ state = "run" /\ pos < Len(slice)
      /\ pos' = (pos + chunk) % (UsizeMax + 1)
      /\ UNCHANGED <<form, slice, chunk, slots>>
  BY DEF NextChunk, More
<1>2. pos + chunk \in Usize /\ pos \in Nat /\ chunk \in Nat /\ Len(slice) \in Nat
      /\ slice \in Seq(Bytes)
  BY <1>1, ChunkFits, HexAssumption DEF NoOverflow, IInv, Bounded, Usize
<1>3. (pos + chunk) % (UsizeMax + 1) = pos + chunk
  BY <1>2, FittingSum, HexAssumption DEF Usize
<1>4. Write(text) /\ pos' = pos + chunk
  BY <1>1, <1>3 DEF NextChunk
<1>5. q \in pos..Len(slice) /\ Smaller(pos', Len(slice)) = q
  BY <1>1, <1>2, <1>4 DEF Smaller
<1> HIDE DEF q
<1>6. SubSeq(slice, pos + 1, q) \in Seq(Bytes)
  BY <1>2, <1>5
<1>7. text = Reference(SubSeq(slice, pos + 1, q))
  BY <1>6, HexStringIsReference
<1> HIDE DEF text
<1>8. /\ text \in Seq(HexDigits) /\ Len(text) = 2 * (q - pos)
      /\ \A i \in 1..(2 * (q - pos)) : text[i] = Reference(slice)[2 * pos + i]
  BY <1>2, <1>5, <1>7, PartOfText
<1> QED BY <1>1, <1>4, <1>5, <1>8, LoopKeeps

LEMMA NextByteKeeps == IInv /\ Text /\ NextByte => Text'
<1> SUFFICES ASSUME IInv, Text, NextByte PROVE Text'
  OBVIOUS
<1> DEFINE q == pos + 1
           text == ToHex(slice[pos + 1])
<1>1. /\ form \in {"upper", "lower"} /\ state = "run" /\ pos < Len(slice)
      /\ Write(text) /\ pos' = pos + 1 /\ UNCHANGED <<form, slice, chunk, slots>>
  BY DEF NextByte, More
<1>2. pos \in Nat /\ Len(slice) \in Nat /\ slice \in Seq(Bytes) /\ slice[pos + 1] \in Bytes
  BY <1>1, HexAssumption DEF IInv, Bounded, Usize
<1>3. q \in pos..Len(slice) /\ Smaller(pos', Len(slice)) = q /\ q - pos = 1
      /\ pos + 1 \in 1..Len(slice) /\ 2 * (pos + 1) - 1 = 2 * pos + 1 /\ 2 * (pos + 1) = 2 * pos + 2
  BY <1>1, <1>2 DEF Smaller
<1>4. text \in Seq(HexDigits) /\ Len(text) = 2
      /\ text[1] = Digit(slice[pos + 1], 1) /\ text[2] = Digit(slice[pos + 1], 2)
  <2> DEFINE b == slice[pos + 1]
  <2>1. /\ ToHex(b) = <<Digit(b, 1), Digit(b, 2)>>
        /\ Digit(b, 1) \in HexDigits /\ Digit(b, 2) \in HexDigits
    BY <1>2, ByteIsTwoDigits
  <2> HIDE DEF b
  <2>2. /\ ToHex(b) \in Seq(HexDigits) /\ Len(ToHex(b)) = 2
        /\ ToHex(b)[1] = Digit(b, 1) /\ ToHex(b)[2] = Digit(b, 2)
    BY <2>1
  <2> QED BY <2>2 DEF b
<1>5. /\ Reference(slice)[2 * pos + 1] = Digit(slice[pos + 1], 1)
      /\ Reference(slice)[2 * pos + 2] = Digit(slice[pos + 1], 2)
  BY <1>2, <1>3, ReferenceDigits
<1> HIDE DEF q, text
<1>6. Len(text) = 2 * (q - pos)
      /\ \A i \in 1..(2 * (q - pos)) : text[i] = Reference(slice)[2 * pos + i]
  BY <1>3, <1>4, <1>5
<1>7. form # "array"
  BY <1>1
<1> QED BY <1>1, <1>3, <1>4, <1>6, <1>7, LoopKeeps

\* The text is complete when the whole of it was written.
LEMMA AllOfText ==
  ASSUME slice \in Seq(Bytes)
  PROVE  Reference(slice) = Upto(2 * Len(slice)) /\ 2 * Len(slice) \in 0..(2 * Len(slice))
<1>1. Reference(slice) \in Seq(HexDigits) /\ Len(Reference(slice)) = 2 * Len(slice)
  BY ReferenceDigits
<1>2. Reference(slice) = [i \in 1..Len(Reference(slice)) |-> Reference(slice)[i]]
  BY <1>1, LenProperties
<1>3. 2 * Len(slice) \in Nat
  OBVIOUS
<1> QED BY <1>1, <1>2, <1>3 DEF Upto

LEMMA ToStringKeeps == IInv /\ Text /\ ToString => Text'
<1> SUFFICES ASSUME IInv, Text, ToString PROVE Text'
  OBVIOUS
<1>1. /\ form = "string" /\ state' = "run" /\ pos' = Len(slice) /\ out' = HexString(slice)
      /\ UNCHANGED <<form, slice, chunk, slots>>
  BY DEF ToString, More
<1>2. slice \in Seq(Bytes) /\ Len(slice) \in Nat
  BY DEF IInv, Bounded
<1>3. out' = Upto(2 * Len(slice))' /\ 2 * Len(slice) \in 0..(2 * Len(slice))
  BY <1>1, <1>2, HexStringIsReference, AllOfText, SameText
<1>4. 2 * Len(slice) = 2 * Smaller(pos', Len(slice'))
  BY <1>1, <1>2 DEF Smaller
<1> QED BY <1>1, <1>3, <1>4 DEF Text

LEMMA FillSlotKeeps == IInv /\ Text /\ FillSlot => Text'
<1> SUFFICES ASSUME IInv, Text, FillSlot PROVE Text'
  OBVIOUS
<1>1. /\ form = "array" /\ state = "run" /\ pos < Len(slice) /\ pos' = pos + 1
      /\ slots' = [slots EXCEPT ![pos + 1] = ToHex(slice[pos + 1])]
      /\ UNCHANGED <<form, slice, chunk, out, state>>
  BY DEF FillSlot, More
<1>2. pos \in Nat /\ Len(slice) \in Nat /\ slice \in Seq(Bytes) /\ slice[pos + 1] \in Bytes
      /\ DOMAIN slice = 1..Len(slice)
  BY <1>1, HexAssumption DEF IInv, Bounded, Usize
<1>3. ToHex(slice[pos + 1]) \in {LOWER_HEX_BYTES[b] : b \in Bytes}
  BY <1>1, <1>2 DEF ToHex
<1>4. slots' \in [DOMAIN slice -> {<<>>} \cup {LOWER_HEX_BYTES[b] : b \in Bytes}]
  BY <1>1, <1>3 DEF Text
<1>5. ASSUME NEW i \in DOMAIN slice, i <= pos' PROVE slots'[i] = ToHex(slice[i])'
  <2>1. ToHex(slice[i])' = ToHex(slice[i])
    BY <1>1 DEF ToHex
  <2>2. CASE i = pos + 1
    BY <1>1, <2>1, <2>2 DEF Text
  <2>3. CASE i <= pos
    BY <1>1, <1>2, <2>1, <2>3 DEF Text
  <2> QED BY <1>1, <1>2, <1>5, <2>2, <2>3
<1>6. PICK k \in 0..(2 * Len(slice)) : out = Upto(k) /\ k = 0
  BY <1>1 DEF Text
<1>7. out' = Upto(k)' /\ k = 0
  BY <1>1, <1>6, SameText
<1> QED BY <1>1, <1>4, <1>5, <1>6, <1>7 DEF Text

LEMMA FinishKeeps == IInv /\ Text /\ Finish => Text'
<1> SUFFICES ASSUME IInv, Text, Finish PROVE Text'
  OBVIOUS
<1>1. /\ state = "run" /\ state' = "done" /\ pos >= Len(slice)
      /\ out' = IF form = "array" THEN Joined(slots) ELSE out
      /\ UNCHANGED <<form, slice, chunk, pos, slots>>
  BY DEF Finish
<1>2. pos \in Nat /\ Len(slice) \in Nat /\ slice \in Seq(Bytes) /\ DOMAIN slice = 1..Len(slice)
  BY HexAssumption DEF IInv, Bounded, Usize
<1>3. out' = Upto(2 * Len(slice))
  <2>1. CASE form = "array"
    <3> DEFINE S == {<<>>} \cup {LOWER_HEX_BYTES[b] : b \in Bytes}
    <3>1. slots \in [1..Len(slice) -> S]
      BY <1>2 DEF Text
    <3> HIDE DEF S
    <3>2. slots \in Seq(S) /\ Len(slots) = Len(slice)
      BY <1>2, <3>1
    <3>3. \A i \in 1..Len(slots) : slots[i] = ToHex(slice[i])
      BY <1>1, <1>2, <2>1, <3>2 DEF Text
    <3>4. Joined(slots) = Reference(slice)
      BY <1>2, <3>2, <3>3, JoinedIsReference
    <3> QED BY <1>1, <1>2, <2>1, <3>4, AllOfText
  <2>2. CASE form # "array"
    <3>1. Smaller(pos, Len(slice)) = Len(slice)
      <4>1. ~(pos < Len(slice))
        BY <1>1, <1>2
      <4> QED BY <4>1, Zenon DEF Smaller
    <3> QED BY <1>1, <2>2, <3>1 DEF Text
  <2> QED BY <2>1, <2>2
<1>4. out' = Upto(2 * Len(slice))' /\ 2 * Len(slice) \in 0..(2 * Len(slice))
  BY <1>1, <1>2, <1>3, AllOfText, SameText
<1>5. form = "array" => \A i \in DOMAIN slice : i <= pos => slots[i] = ToHex(slice[i])
  BY DEF Text
<1>6. \A b : ToHex(b)' = ToHex(b)
  BY <1>1 DEF ToHex
<1> QED BY <1>1, <1>4, <1>5, <1>6 DEF Text

LEMMA TextKeeps == IInv /\ Text /\ [Next]_vars => Text'
<1> SUFFICES ASSUME IInv, Text, [Next]_vars PROVE Text'
  OBVIOUS
<1>1. CASE UNCHANGED vars
  <2>1. UNCHANGED <<form, slice, pos, slots, out, state>>
    BY <1>1 DEF vars
  <2>2. \A b : ToHex(b)' = ToHex(b)
    BY <2>1 DEF ToHex
  <2> QED BY <2>1, <2>2, SameText DEF Text
<1> QED BY <1>1, ChunkKeeps, NextByteKeeps, ToStringKeeps, FillSlotKeeps, FinishKeeps DEF Next

-----------------------------------------------------------------------------
(* The theorems.                                                           *)

\* The invariant holds however the call is made and wherever the writer fails.
THEOREM Invariant == Spec => [](IInv /\ Text)
BY InitIInv, InitText, StepKeeps, TextKeeps, PTL DEF Spec

\* The call keeps its types, the text is one of hex digits, a slot holds two of them.
THEOREM TypeCorrect == Spec => []TypeOK
<1>1. IInv /\ Text => TypeOK
  <2> SUFFICES ASSUME IInv, Text PROVE TypeOK
    OBVIOUS
  <2>1. slice \in Seq(Bytes) /\ Len(slice) \in Nat /\ chunk \in Usize /\ pos \in Usize
    BY DEF IInv, Bounded
  <2>2. PICK k \in 0..(2 * Len(slice)) : out = Upto(k)
    BY DEF Text
  <2>3. Upto(k) \in Seq(HexDigits)
    <3>1. k \in Nat /\ \A i \in 1..k : i \in 1..(2 * Len(slice))
      BY <2>1
    <3>2. \A i \in 1..k : Reference(slice)[i] \in HexDigits
      BY <2>1, <3>1, ReferenceDigits, ElementOfSeq
    <3> QED BY <3>1, <3>2 DEF Upto
  <2> QED BY <2>1, <2>2, <2>3 DEF TypeOK, IInv, Bounded, Text, HexDigits
<1> QED BY <1>1, Invariant, PTL

\* Whatever the chunk size, and wherever the writer fails, what is written is the beginning
\* of the slice's hex text, digit by digit, and all of it once the call has returned
\* (ChunkIter, LowerHex and UpperHex, to_string, to_lower_hex_array).
THEOREM WritesTheHexText == Spec => []OutIsHex
<1>1. IInv /\ Text => OutIsHex
  <2> SUFFICES ASSUME IInv, Text PROVE OutIsHex
    OBVIOUS
  <2>1. slice \in Seq(Bytes) /\ Len(slice) \in Nat
    BY DEF IInv, Bounded
  <2>2. PICK k \in 0..(2 * Len(slice)) : out = Upto(k) /\ (state = "done" => k = 2 * Len(slice))
    BY DEF Text
  <2>3. Len(out) = k
    BY <2>1, <2>2 DEF Upto
  <2> DEFINE ref == Reference(slice)
  <2>4. ref \in Seq(HexDigits) /\ Len(ref) = 2 * Len(slice)
    BY <2>1, ReferenceDigits
  <2>5. Upto(k) = [i \in 1..k |-> ref[i]]
    BY DEF Upto
  <2> HIDE DEF ref
  <2>6. SubSeq(ref, 1, k) = [i \in 1..k |-> ref[i]]
    BY <2>1, <2>4
  <2> QED BY <2>2, <2>3, <2>5, <2>6 DEF OutIsHex, ref
<1> QED BY <1>1, Invariant, PTL

\* For every chunk size a caller of iter_chunks may choose, pos + chunk_size never wraps,
\* on any platform on which a slice is at most half as long as a usize counts
\* (ChunkIter::next).
THEOREM PositionFits == Spec => []NoOverflow
<1>1. IInv => NoOverflow
  BY ChunkFits
<1> QED BY InitIInv, StepKeeps, <1>1, PTL DEF Spec
=============================================================================
