--------------------------- MODULE CobsFormatProofs ---------------------------
(***************************************************************************)
(* The size algebra of Codec.h and Format.h is exact, and decoding undoes  *)
(* encoding, for every FullCode, every format, every size and every        *)
(* sequence of bytes: nothing here is bounded.                             *)
(*                                                                         *)
(* The recursive functions of CobsReference are reasoned about by          *)
(* induction over the places of a sequence, from its end down: `Downwards` *)
(* is that induction, with the set of places for which a fact holds in the *)
(* part of the predicate.                                                  *)
(***************************************************************************)
EXTENDS CobsReference, FiniteSetTheorems, WellFoundedInduction, SequenceTheorems, TLAPS

\* What Layout asserts of a format, with 16 bits as two bytes.
LengthTop == FullCode * (FullCode + 1) + FullCode

IsFormat(f) ==
    /\ f.crc_size \in Nat /\ f.max_receive_size \in Nat /\ f.max_send_size \in Nat
    /\ wire_length_limit(f) <= LengthTop

-----------------------------------------------------------------------------
(* Rounding up.                                                            *)

\* FullData counts at least one byte, and FullCode follows it.
LEMMA Codes == FullData \in Nat \ {0} /\ FullCode = FullData + 1 /\ 0 \in Byte
BY FullCodeAssumption DEF FullData, Byte

\* CeilDiv rounds up, and by less than one divisor.
LEMMA CeilDivBound ==
    ASSUME NEW n \in Nat, NEW k \in Nat \ {0}
    PROVE  /\ CeilDiv(n, k) \in Nat
           /\ n <= CeilDiv(n, k) * k /\ CeilDiv(n, k) * k < n + k
<1> DEFINE m == n + k - 1
           q == m \div k
<1>1. m \in Nat
  OBVIOUS
<1>2. q \in Int /\ k * q <= m /\ m < k * (q + 1)
  BY <1>1, Z3
<1>3. q \in Nat
  BY <1>2, <1>1
<1> QED BY <1>2, <1>3 DEF CeilDiv

\* A common factor can be dropped from a strict inequality.
LEMMA Cancel ==
    ASSUME NEW a \in Nat, NEW b \in Nat, NEW k \in Nat, a * k < b * k
    PROVE  a < b
<1> SUFFICES ASSUME b <= a
             PROVE  FALSE
  OBVIOUS
<1>1. b * k <= a * k
  OBVIOUS
<1> QED BY <1>1

\* CeilDiv(n, k) is the least number of k's that hold n.
LEMMA CeilDivLeast ==
    ASSUME NEW n \in Nat, NEW k \in Nat \ {0}, NEW c \in Nat, n <= c * k
    PROVE  CeilDiv(n, k) <= c
<1> DEFINE q == CeilDiv(n, k)
<1>1. q \in Nat /\ q * k < n + k
  BY CeilDivBound
<1> HIDE DEF q
<1>2. c * k \in Nat /\ (c + 1) * k = c * k + k
  OBVIOUS
<1>3. q * k \in Nat /\ q * k < (c + 1) * k
  BY <1>1, <1>2
<1>4. q < c + 1
  BY <1>1, <1>3, Cancel
<1> QED BY <1>1, <1>4 DEF q

LEMMA CeilDivMonotone ==
    ASSUME NEW m \in Nat, NEW n \in Nat, NEW k \in Nat \ {0}, m <= n
    PROVE  CeilDiv(m, k) <= CeilDiv(n, k)
<1> DEFINE q == CeilDiv(n, k)
<1>1. q \in Nat /\ n <= q * k
  BY CeilDivBound
<1> HIDE DEF q
<1>2. m <= q * k
  BY <1>1
<1> QED BY <1>1, <1>2, CeilDivLeast DEF q

\* The headroom of n raw bytes is one more than the full blocks they can
\* begin, and their wire size is the headroom and the bytes.
LEMMA Headroom ==
    ASSUME NEW n \in Nat
    PROVE  /\ max_wire_size(n) \in Nat /\ raw_offset(n) \in Nat
           /\ max_wire_size(n) = raw_offset(n) + n
           /\ raw_offset(n) >= 2
           /\ n > 0 => raw_offset(n) = CeilDiv(n, FullData) + 1
<1>1. CeilDiv(n, FullData) \in Nat /\ n <= CeilDiv(n, FullData) * FullData
  BY Codes, CeilDivBound
<1>2. n > 0 => CeilDiv(n, FullData) > 0
  BY <1>1, Codes
<1> HIDE DEF CeilDiv
<1> QED BY <1>1, <1>2 DEF max_wire_size, max_encoded_size, raw_offset

\* A longer string never has a shorter frame.
LEMMA WireSizeMonotone ==
    ASSUME NEW m \in Nat, NEW n \in Nat, m < n
    PROVE  max_wire_size(m) < max_wire_size(n)
<1>1. CeilDiv(m, FullData) <= CeilDiv(n, FullData)
      /\ CeilDiv(m, FullData) \in Nat /\ CeilDiv(n, FullData) \in Nat
  <2>1. m <= n /\ FullData \in Nat \ {0}
    BY Codes
  <2> QED BY <2>1, CeilDivMonotone, CeilDivBound
<1>2. n <= CeilDiv(n, FullData) * FullData
  BY Codes, CeilDivBound
<1>3. CeilDiv(n, FullData) > 0
  BY <1>1, <1>2, Codes
<1> HIDE DEF CeilDiv
<1> QED BY <1>1, <1>3 DEF max_wire_size, max_encoded_size

-----------------------------------------------------------------------------
(* The capacity of a grant.                                                *)

\* Taking one byte in FullCode away from M encoded bytes leaves exactly what M
\* encoded bytes can stand for.
LEMMA DecodedInEncoded ==
    ASSUME NEW M \in Nat, NEW d, d = M - CeilDiv(M, FullCode)
    PROVE  /\ d \in Nat /\ d + CeilDiv(d, FullData) <= M
           /\ M < d + 1 + CeilDiv(d + 1, FullData)
<1> DEFINE c == CeilDiv(M, FullCode)
           k == FullData
<1>1. k \in Nat \ {0} /\ FullCode = k + 1
  BY Codes
<1>2. c \in Nat /\ M <= c * (k + 1) /\ c * (k + 1) < M + k + 1
  BY <1>1, CeilDivBound
<1>3. c <= M
  <2>1. M <= M * FullCode
    BY <1>1
  <2> QED BY <1>1, <2>1, CeilDivLeast
<1>4. d = M - c /\ d \in Nat
  BY <1>2, <1>3
<1> HIDE DEF c, k
<1>5. c * k \in Nat /\ c * (k + 1) = c * k + c
  BY <1>1, <1>2
<1>6. CeilDiv(d, k) <= c
  <2>1. d <= c * k
    BY <1>2, <1>4, <1>5
  <2> QED BY <1>1, <1>2, <1>4, <2>1, CeilDivLeast
<1>7. CeilDiv(d, k) \in Nat /\ CeilDiv(d + 1, k) \in Nat /\ d + 1 <= CeilDiv(d + 1, k) * k
  <2>1. d \in Nat /\ d + 1 \in Nat /\ k \in Nat \ {0}
    BY <1>1, <1>4
  <2> HIDE DEF CeilDiv
  <2> QED BY <2>1, CeilDivBound
<1>8. c <= CeilDiv(d + 1, k)
  <2> DEFINE q == CeilDiv(d + 1, k)
  <2>1. q \in Nat /\ d + 1 <= q * k
    BY <1>7
  <2> HIDE DEF q
  <2>2. q * k \in Nat /\ (q + 1) * k = q * k + k
    BY <1>1, <2>1
  <2>3. c * k < (q + 1) * k
    BY <1>1, <1>2, <1>4, <1>5, <2>1, <2>2
  <2>4. c < q + 1
    BY <1>1, <1>2, <2>1, <2>3, Cancel
  <2> QED BY <1>2, <2>1, <2>4 DEF q
<1> QED BY <1>2, <1>4, <1>6, <1>7, <1>8 DEF k

\* The same of a grant of `bytes`, for decoded strings that are h bytes longer
\* than their payload, which is top bytes at most.
LEMMA DecodedInGrant ==
    ASSUME NEW h \in Nat \ {0}, NEW top \in Nat, NEW bytes \in Nat,
           max_wire_size(h) <= bytes, NEW M, NEW d,
           M = (IF bytes < max_wire_size(h + top) THEN bytes ELSE max_wire_size(h + top)) - 1,
           d = M - CeilDiv(M, FullCode)
    PROVE  /\ d - h \in 0 .. top
           /\ max_wire_size(d) <= bytes
           /\ d - h < top => bytes < max_wire_size(d + 1)
<1>1. /\ max_wire_size(h) \in Nat /\ max_wire_size(h) >= 2
      /\ max_wire_size(h + top) \in Nat /\ max_wire_size(h) <= max_wire_size(h + top)
  <2>1. max_wire_size(h) \in Nat /\ max_wire_size(h) >= 2 /\ max_wire_size(h + top) \in Nat
    BY Headroom
  <2>2. CASE top = 0
    BY <2>1, <2>2
  <2>3. CASE top > 0
    <3>1. h + top \in Nat /\ h < h + top
      BY <2>3
    <3>2. max_wire_size(h) < max_wire_size(h + top)
      BY <3>1, WireSizeMonotone
    <3> QED BY <2>1, <3>2
  <2> QED BY <2>1, <2>2, <2>3
<1>2. M \in Nat /\ max_wire_size(h) <= M + 1
      /\ M + 1 <= max_wire_size(h + top) /\ M + 1 <= bytes
      /\ (M + 1 = bytes \/ M + 1 = max_wire_size(h + top))
  BY <1>1
<1>3. d \in Nat /\ d + CeilDiv(d, FullData) <= M /\ M < d + 1 + CeilDiv(d + 1, FullData)
  BY <1>2, DecodedInEncoded
<1>4. \A n \in Nat : n > 0 => max_wire_size(n) = n + CeilDiv(n, FullData) + 1
  <2> SUFFICES ASSUME NEW n \in Nat, n > 0
               PROVE  max_wire_size(n) = n + CeilDiv(n, FullData) + 1
    OBVIOUS
  <2>1. CeilDiv(n, FullData) \in Nat
    BY Codes, CeilDivBound
  <2> HIDE DEF CeilDiv
  <2> QED BY <2>1 DEF max_wire_size, max_encoded_size
<1>5. M + 1 < max_wire_size(d + 1) /\ max_wire_size(d + 1) \in Nat
  <2>1. d + 1 \in Nat /\ d + 1 > 0
    BY <1>3
  <2>2. max_wire_size(d + 1) = d + 1 + CeilDiv(d + 1, FullData) + 1
    BY <2>1, <1>4
  <2>3. CeilDiv(d + 1, FullData) \in Nat
    BY <2>1, Codes, CeilDivBound
  <2> HIDE DEF CeilDiv
  <2> QED BY <1>2, <1>3, <2>2, <2>3
<1>6. h <= d
  <2> SUFFICES ASSUME d < h
               PROVE  FALSE
    BY <1>3
  <2>1. d + 1 = h \/ d + 1 < h
    BY <1>3
  <2>2. d + 1 \in Nat /\ (d + 1 < h => max_wire_size(d + 1) < max_wire_size(h))
    BY <1>3, WireSizeMonotone
  <2>3. max_wire_size(d + 1) <= max_wire_size(h)
    BY <1>1, <1>5, <2>1, <2>2
  <2> QED BY <1>1, <1>2, <1>5, <2>3
<1>7. max_wire_size(d) <= M + 1 /\ max_wire_size(d) \in Nat
  <2>1. max_wire_size(d) = d + CeilDiv(d, FullData) + 1
    BY <1>3, <1>4, <1>6
  <2>2. CeilDiv(d, FullData) \in Nat
    BY <1>3, Codes, CeilDivBound
  <2> HIDE DEF CeilDiv
  <2> QED BY <1>2, <1>3, <2>1, <2>2
<1>8. d <= h + top
  <2> SUFFICES ASSUME h + top < d
               PROVE  FALSE
    BY <1>3
  <2>1. max_wire_size(h + top) < max_wire_size(d)
    BY <1>3, WireSizeMonotone
  <2> QED BY <1>1, <1>2, <1>7, <2>1
<1>9. ASSUME d - h < top
      PROVE  M + 1 = bytes
  <2> SUFFICES ASSUME M + 1 = max_wire_size(h + top)
               PROVE  FALSE
    BY <1>2
  <2>1. d + 1 \in Nat /\ h + top \in Nat /\ (d + 1 = h + top \/ d + 1 < h + top)
    BY <1>3, <1>9
  <2>2. d + 1 < h + top => max_wire_size(d + 1) < max_wire_size(h + top)
    BY <2>1, WireSizeMonotone
  <2> QED BY <1>1, <1>5, <2>1, <2>2
<1> QED BY <1>2, <1>3, <1>5, <1>6, <1>7, <1>8, <1>9

\* What every format has: a length of one or two bytes, and thus something to
\* encode in every frame.
LEMMA FormatSizes ==
    ASSUME NEW f, IsFormat(f)
    PROVE  /\ length_size(f) \in {1, 2}
           /\ \A n \in Nat : /\ decoded_size_for_payload(f, n) \in Nat \ {0}
                             /\ decoded_size_for_payload(f, n) = n + decoded_size_for_payload(f, 0)
<1>1. length_size(f) \in {1, 2}
  BY DEF length_size
<1> QED BY <1>1 DEF IsFormat, decoded_size_for_payload

\* Format.h:81, "Exact O(1) inverse": the capacity computed for a grant is
\* legal, its largest frame fits the grant, and unless it is the limit of the
\* format one more byte would not fit.
THEOREM CapacityIsExactInverse ==
    ASSUME NEW f, IsFormat(f), NEW bytes \in Nat,
           tx_storage_size_for_capacity(f, 0) <= bytes
    PROVE  LET c == payload_capacity_for_storage(f, bytes)
           IN  /\ c \in 0 .. f.max_send_size
               /\ tx_storage_size_for_capacity(f, c) <= bytes
               /\ c < f.max_send_size => bytes < tx_storage_size_for_capacity(f, c + 1)
<1> DEFINE h == decoded_size_for_payload(f, 0)
           top == f.max_send_size
           maximum == max_wire_size(h + top)
           room == IF bytes < maximum THEN bytes ELSE maximum
           M == room - 1
           d == M - CeilDiv(M, FullCode)
           c == d - h
<1>1. top \in Nat /\ h \in Nat \ {0} /\ max_wire_size(h) <= bytes
  BY FormatSizes DEF IsFormat, tx_storage_size_for_capacity
<1>2. \A n \in Nat : decoded_size_for_payload(f, n) = h + n
  BY FormatSizes, <1>1
<1>m. M \in Nat /\ d \in Int
  <2>1. maximum \in Nat /\ maximum >= 2 /\ max_wire_size(h) >= 2 /\ max_wire_size(h) \in Nat
    BY <1>1, Headroom
  <2>2. room \in Nat /\ room >= 2
    <3> HIDE DEF maximum, h
    <3> QED BY <1>1, <2>1
  <2>3. M \in Nat
    <3> HIDE DEF room
    <3> QED BY <2>2
  <2>4. FullCode \in Nat \ {0}
    BY Codes
  <2> HIDE DEF M, CeilDiv
  <2>5. CeilDiv(M, FullCode) \in Nat
    BY <2>3, <2>4, CeilDivBound
  <2> QED BY <2>3, <2>5
<1>3. payload_capacity_for_storage(f, bytes) = c
  <2>1. maximum = tx_storage_size_for_capacity(f, top)
    BY <1>1, <1>2 DEF tx_storage_size_for_capacity
  <2>2. h = length_size(f) + f.crc_size /\ length_size(f) \in Nat /\ f.crc_size \in Nat
    BY FormatSizes DEF IsFormat, decoded_size_for_payload
  <2>3. payload_capacity_for_storage(f, bytes)
          = M - CeilDiv(M, FullCode) - length_size(f) - f.crc_size
    <3>1. tx_storage_size_for_capacity(f, 0) \in Nat
      BY <1>1, Headroom DEF tx_storage_size_for_capacity
    <3> HIDE DEF CeilDiv
    <3> QED BY <2>1, <3>1 DEF payload_capacity_for_storage
  <2> HIDE DEF M, h
  <2>4. d = M - CeilDiv(M, FullCode)
    OBVIOUS
  <2> HIDE DEF d
  <2>5. M - CeilDiv(M, FullCode) \in Int
    BY <1>m, <2>4
  <2>6. M - CeilDiv(M, FullCode) - length_size(f) - f.crc_size = d - length_size(f) - f.crc_size
    BY <2>4
  <2> QED BY <1>m, <2>2, <2>3, <2>6
<1>4. /\ c \in 0 .. top
      /\ max_wire_size(d) <= bytes
      /\ c < top => bytes < max_wire_size(d + 1)
  <2> HIDE DEF h, top
  <2> QED BY <1>1, DecodedInGrant
<1>5. d = h + c /\ d + 1 = h + (c + 1)
  <2> HIDE DEF d, h
  <2> QED BY <1>m, <1>1
<1>6. tx_storage_size_for_capacity(f, c) = max_wire_size(d)
      /\ tx_storage_size_for_capacity(f, c + 1) = max_wire_size(d + 1)
  <2> HIDE DEF c, d, h
  <2> QED BY <1>2, <1>4, <1>5 DEF tx_storage_size_for_capacity
<1> QED BY <1>3, <1>4, <1>6

-----------------------------------------------------------------------------
(* The length field and the guard of the arithmetic.                       *)

\* A length field gives back every length of its format: store_length and
\* load_length (Format.h) are inverse on what the static assertions admit.
THEOREM LengthFieldExact ==
    ASSUME NEW f, IsFormat(f), NEW n \in 0 .. wire_length_limit(f)
    PROVE  load_length(f, store_length(f, n)) = n
<1> DEFINE b == FullCode + 1
           q == n \div b
           r == n % b
<1>1. b \in Nat /\ b > 2 /\ FullCode = b - 1
  BY FullCodeAssumption
<1>2. n \in Nat /\ n <= wire_length_limit(f) /\ wire_length_limit(f) \in Nat
  BY DEF IsFormat, wire_length_limit, max_receive_body, max_send_body
<1> HIDE DEF b
<1>3. q \in Int /\ r \in 0 .. b - 1 /\ n = b * q + r
  BY <1>1, <1>2, Z3
<1>4. CASE length_size(f) = 1
  <2>1. n <= FullCode
    <3>1. ~(wire_length_limit(f) <= FullCode) => length_size(f) = 2
      BY DEF length_size
    <3> QED BY <1>2, <1>4, <3>1, FullCodeAssumption
  <2>2. r = n
    BY <1>1, <1>2, <2>1, Z3
  <2> QED BY <1>4, <2>2 DEF load_length, store_length, b
<1>5. CASE length_size(f) = 2
  <2>1. n < b * b
    <3>1. n <= LengthTop
      BY <1>2, FullCodeAssumption DEF IsFormat, LengthTop
    <3>2. LengthTop = (b - 1) * b + (b - 1)
      BY <1>1 DEF LengthTop
    <3>3. (b - 1) * b = b * b - b
      BY <1>1
    <3> QED BY <1>1, <1>2, <3>1, <3>2, <3>3
  <2>2. q \in 0 .. b - 1
    BY <1>1, <1>2, <1>3, <2>1
  <2> HIDE DEF q, r
  <2>3. q % b = q
    BY <1>1, <2>2
  <2>4. load_length(f, store_length(f, n)) = r + q * b
    BY <1>5, <2>3 DEF load_length, store_length, b, q, r
  <2>5. q * b = b * q
    BY <1>1, <1>3
  <2>6. r + q * b = n
    BY <1>1, <1>2, <1>3, <2>2, <2>5
  <2> QED BY <2>4, <2>6
<1>6. length_size(f) \in {1, 2}
  BY FormatSizes
<1> QED BY <1>4, <1>5, <1>6

\* Dividing, and adding one for a remainder, rounds up.
LEMMA CeilDivSplit ==
    ASSUME NEW n \in Nat, NEW k \in Nat \ {0}
    PROVE  CeilDiv(n, k) = n \div k + (IF n % k # 0 THEN 1 ELSE 0)
<1> DEFINE q == n \div k
           r == n % k
<1>1. q \in Int /\ r \in 0 .. k - 1 /\ n = k * q + r
  BY Z3
<1>2. CASE r = 0
  <2>1. (k * q + (k - 1)) \div k = q
    BY <1>1, Z3
  <2>2. n + k - 1 = k * q + (k - 1)
    BY <1>1, <1>2
  <2>3. CeilDiv(n, k) = q
    BY <2>1, <2>2 DEF CeilDiv
  <2> HIDE DEF CeilDiv
  <2> QED BY <1>1, <1>2, <2>3
<1>3. CASE r # 0
  <2>1. (k * (q + 1) + (r - 1)) \div k = q + 1
    <3>1. r - 1 \in 0 .. k - 1 /\ q + 1 \in Int
      BY <1>1, <1>3
    <3> QED BY <3>1, Z3
  <2>2. n + k - 1 = k * (q + 1) + (r - 1)
    <3>1. k * (q + 1) = k * q + k
      BY <1>1
    <3> QED BY <1>1, <3>1
  <2>3. CeilDiv(n, k) = q + 1
    BY <2>1, <2>2 DEF CeilDiv
  <2> HIDE DEF CeilDiv
  <2> QED BY <1>3, <2>3
<1> QED BY <1>2, <1>3

\* size_arithmetic_fits (Codec.h) admits exactly the sizes whose frame a size_t
\* that holds 0 .. top can count, although it computes no number above top.
THEOREM ArithmeticGuardExact ==
    ASSUME NEW n \in Nat \ {0}, NEW top \in Nat
    PROVE  size_arithmetic_fits(n, top) <=> max_wire_size(n) <= top
<1> DEFINE c == CeilDiv(n, FullData)
<1>1. c \in Nat /\ c = n \div FullData + (IF n % FullData # 0 THEN 1 ELSE 0)
  <2>1. n \in Nat /\ FullData \in Nat \ {0}
    BY Codes
  <2> QED BY <2>1, CeilDivBound, CeilDivSplit
<1>2. max_wire_size(n) = n + c + 1
  <2> HIDE DEF CeilDiv
  <2> QED BY DEF max_wire_size, max_encoded_size
<1>3. size_arithmetic_fits(n, top) <=> n <= top - (c + 1)
  BY <1>1 DEF size_arithmetic_fits
<1> HIDE DEF c
<1> QED BY <1>1, <1>2, <1>3

-----------------------------------------------------------------------------
(* The reference: what a string of blocks means, and what bytes are encoded  *)
(* as.                                                                       *)

\* Every non-empty set of naturals has a least element.
LEMMA LeastElement ==
    ASSUME NEW T \in SUBSET Nat, T # {}
    PROVE  \E x \in T : \A y \in T : x <= y
<1> DEFINE R == StrictSubsetOrdering(Nat)
           U == {0 .. x : x \in T}
<1>1. IsWellFoundedOn(R, FiniteSubsetsOf(Nat))
  BY FS_StrictSubsetOrderingWellFounded
<1>2. U \subseteq FiniteSubsetsOf(Nat)
  <2>1. \A x \in Nat : IsFiniteSet(0 .. x)
    BY FS_Interval
  <2> QED BY <2>1 DEF FiniteSubsetsOf
<1>3. PICK u \in U : \A v \in U : ~(<<v, u>> \in R)
  <2> HIDE DEF R
  <2>1. U # {}
    OBVIOUS
  <2> HIDE DEF U
  <2> QED BY <1>1, <1>2, <2>1, WFMin
<1>4. PICK x \in T : u = 0 .. x
  BY <1>3
<1>5. ASSUME NEW y \in T, y < x
      PROVE  FALSE
  <2>1. 0 .. y \subseteq 0 .. x /\ 0 .. y # 0 .. x
    BY <1>5
  <2>2. <<0 .. y, 0 .. x>> \in R
    BY <2>1 DEF StrictSubsetOrdering
  <2> QED BY <2>2, <1>3, <1>4
<1> QED BY <1>5


\* What holds at n and, with each larger place up to n, at a place holds on 1 .. n.
LEMMA Downwards ==
    ASSUME NEW n \in Nat, NEW S, \A p \in 1 .. n : p + 1 .. n \subseteq S => p \in S
    PROVE  1 .. n \subseteq S
<1> DEFINE T == {n - p : p \in (1 .. n) \ S}
<1> SUFFICES ASSUME T # {} PROVE FALSE
  OBVIOUS
<1>1. PICK x \in T : \A y \in T : x <= y
  <2>1. T \in SUBSET Nat
    OBVIOUS
  <2> HIDE DEF T
  <2> QED BY <2>1, LeastElement
<1>2. PICK p \in (1 .. n) \ S : x = n - p
  BY <1>1
<1>3. p + 1 .. n \subseteq S
  <2> SUFFICES ASSUME NEW k \in p + 1 .. n, k \notin S PROVE FALSE
    OBVIOUS
  <2>1. n - k \in T
    BY <1>2
  <2> HIDE DEF T
  <2>2. n - p <= n - k
    BY <1>1, <1>2, <2>1
  <2> QED BY <2>2
<1> QED BY <1>2, <1>3

-----------------------------------------------------------------------------
(***************************************************************************)
(* The canonical encoding.                                                 *)
(*                                                                         *)
(* A recursive function is a CHOOSE: that one exists is shown by building  *)
(* it from its last place down, and then it satisfies its equation.        *)
(***************************************************************************)
LEMMA ChainsDefined ==
    ASSUME NEW raw, \E f : f = [p \in 1 .. Len(raw) + 1 |-> Chain(raw, f, p)]
    PROVE  Chains(raw) = [p \in 1 .. Len(raw) + 1 |-> Chain(raw, Chains(raw), p)]
<1> DEFINE G == CHOOSE f : f = [p \in 1 .. Len(raw) + 1 |-> Chain(raw, f, p)]
<1>1. Chains(raw) = G
  BY Zenon DEF Chains
<1>2. G = [p \in 1 .. Len(raw) + 1 |-> Chain(raw, G, p)]
  <2> HIDE DEF Chain
  <2> QED BY Zenon
<1> QED BY <1>1, <1>2

\* The block opened at p ends where it is said to.
LEMMA BlockEnds ==
    ASSUME NEW raw, Len(raw) \in Nat, NEW p \in 1 .. Len(raw) + 1
    PROVE  LET q == BlockEnd(raw, p)
           IN  /\ q \in p .. Len(raw) + 1 /\ q <= p + FullData
               /\ q = Len(raw) + 1 \/ raw[q] = 0 \/ q = p + FullData
               /\ \A k \in p .. q - 1 : raw[k] # 0 /\ k # p + FullData
<1> DEFINE end == Len(raw) + 1
           Stop(q) == q = end \/ raw[q] = 0 \/ q = p + FullData
           T == {q \in p .. end : Stop(q)}
<1>1. FullData \in Nat \ {0}
  BY Codes
<1>2. PICK q \in T : \A y \in T : q <= y
  <2>1. T \in SUBSET Nat /\ T # {}
    OBVIOUS
  <2> HIDE DEF T
  <2> QED BY <2>1, LeastElement
<1>3. \A k \in p .. q - 1 : raw[k] # 0 /\ k # p + FullData
  BY <1>2
<1>4. \E b \in p .. end : Stop(b) /\ \A k \in p .. b - 1 : raw[k] # 0 /\ k # p + FullData
  BY <1>2, <1>3
<1>5. LET b == BlockEnd(raw, p)
      IN  b \in p .. end /\ Stop(b) /\ \A k \in p .. b - 1 : raw[k] # 0 /\ k # p + FullData
  BY <1>4, Zenon DEF BlockEnd
<1>6. BlockEnd(raw, p) <= p + FullData
  BY <1>1, <1>5
<1> QED BY <1>5, <1>6

\* The chain from p on only asks for the chain from a later place on.
LEMMA NextBlockLater ==
    ASSUME NEW raw, Len(raw) \in Nat, NEW p \in 1 .. Len(raw) + 1,
           BlockEnd(raw, p) # Len(raw) + 1
    PROVE  NextBlock(raw, p) \in p + 1 .. Len(raw) + 1
<1>1. BlockEnd(raw, p) \in p .. Len(raw) + 1 /\ FullData \in Nat \ {0}
  BY BlockEnds, Codes
<1> QED BY <1>1 DEF NextBlock

LEMMA ChainsExist ==
    ASSUME NEW raw, Len(raw) \in Nat
    PROVE  \E f : f = [p \in 1 .. Len(raw) + 1 |-> Chain(raw, f, p)]
<1> DEFINE end == Len(raw) + 1
           Good(f, k) == f = [p \in k .. end |-> Chain(raw, f, p)]
           S == {k \in 1 .. end : \E f : Good(f, k)}
<1>1. ASSUME NEW k \in 1 .. end, k + 1 .. end \subseteq S PROVE k \in S
  <2>1. CASE k = end
    <3> DEFINE f == [p \in k .. end |-> Chain(raw, <<>>, p)]
    <3>1. BlockEnd(raw, end) = end
      <4>1. end \in 1 .. Len(raw) + 1
        OBVIOUS
      <4>2. BlockEnd(raw, end) \in end .. Len(raw) + 1
        BY <4>1, BlockEnds, Zenon
      <4> QED BY <4>2
    <3>2. \A g : Chain(raw, g, end) = Block(raw, end)
      BY <3>1 DEF Chain
    <3>3. f = [p \in k .. end |-> Chain(raw, f, p)]
      <4>1. ASSUME NEW p \in k .. end PROVE Chain(raw, <<>>, p) = Chain(raw, f, p)
        <5>1. p = end
          BY <2>1
        <5> QED BY <3>2, <5>1, Zenon
      <4>2. \A g : (\A p \in k .. end : Chain(raw, <<>>, p) = Chain(raw, g, p))
                     => f = [p \in k .. end |-> Chain(raw, g, p)]
        OBVIOUS
      <4> QED BY <4>1, <4>2, Zenon
    <3> QED BY <3>3
  <2>2. CASE k # end
    <3>1. PICK h : Good(h, k + 1)
      BY <1>1, <2>2
    <3> DEFINE f == [p \in k .. end |-> IF p = k THEN Chain(raw, h, k) ELSE h[p]]
    <3>2. \A p \in k + 1 .. end : f[p] = h[p]
      OBVIOUS
    <3>3. \A p \in k .. end : Chain(raw, f, p) = Chain(raw, h, p)
      <4> SUFFICES ASSUME NEW p \in k .. end PROVE Chain(raw, f, p) = Chain(raw, h, p)
        OBVIOUS
      <4>1. BlockEnd(raw, p) # Len(raw) + 1 => f[NextBlock(raw, p)] = h[NextBlock(raw, p)]
        BY <3>2, NextBlockLater
      <4> HIDE DEF f
      <4> QED BY <4>1 DEF Chain
    <3>4. \A p \in k .. end : f[p] = Chain(raw, f, p)
      <4>1. \A p \in k + 1 .. end : h[p] = Chain(raw, h, p)
        <5> HIDE DEF f
        <5> QED BY <3>1
      <4> QED BY <3>3, <4>1
    <3>5. f = [p \in k .. end |-> f[p]]
      OBVIOUS
    <3> HIDE DEF f
    <3>6. Good(f, k)
      BY <3>4, <3>5
    <3> QED BY <3>6
  <2> QED BY <2>1, <2>2
<1>2. 1 \in S
  <2>1. end \in Nat /\ 1 \in 1 .. end
    OBVIOUS
  <2> HIDE DEF S, end
  <2> QED BY <1>1, <2>1, Downwards
<1> QED BY <1>2

LEMMA ChainsUnfold ==
    ASSUME NEW raw, Len(raw) \in Nat, NEW p \in 1 .. Len(raw) + 1
    PROVE  Chains(raw)[p] = IF BlockEnd(raw, p) = Len(raw) + 1 THEN Block(raw, p)
                            ELSE Block(raw, p) \o Chains(raw)[NextBlock(raw, p)]
<1>1. Chains(raw) = [n \in 1 .. Len(raw) + 1 |-> Chain(raw, Chains(raw), n)]
  BY ChainsExist, ChainsDefined
<1>2. Chains(raw)[p] = Chain(raw, Chains(raw), p)
  BY <1>1
<1> QED BY <1>2 DEF Chain

\* The part of s from m up to n.
LEMMA Slice ==
    ASSUME NEW S, NEW s, NEW m \in Nat, NEW n \in Nat, m <= n, \A k \in m .. n - 1 : s[k] \in S
    PROVE  /\ SubSeq(s, m, n - 1) \in Seq(S) /\ Len(SubSeq(s, m, n - 1)) = n - m
           /\ \A k \in 1 .. n - m : SubSeq(s, m, n - 1)[k] = s[m + k - 1]
<1> DEFINE j == n - 1
<1>1. j \in Int /\ m \in Int
  OBVIOUS
<1>2. \A k \in m .. j : s[k] \in S
  OBVIOUS
<1>3. j - m + 1 = n - m /\ (m <= j => j - m + 1 = n - m) /\ (~(m <= j) => n - m = 0)
  OBVIOUS
<1> HIDE DEF j
<1>4. /\ SubSeq(s, m, j) \in Seq(S)
      /\ Len(SubSeq(s, m, j)) = IF m <= j THEN j - m + 1 ELSE 0
      /\ \A i \in 1 .. j - m + 1 : SubSeq(s, m, j)[i] = s[m + i - 1]
  BY <1>1, <1>2, SubSeqProperties
<1> QED BY <1>3, <1>4 DEF j

\* A block holds its code and its data, none of them zero.
LEMMA BlockFacts ==
    ASSUME NEW raw \in Seq(Byte), NEW p \in 1 .. Len(raw) + 1
    PROVE  LET q == BlockEnd(raw, p)
           IN  /\ Block(raw, p) \in Seq(1 .. FullCode) /\ Len(Block(raw, p)) = q - p + 1
               /\ Block(raw, p)[1] = q - p + 1
               /\ \A k \in 1 .. q - p : Block(raw, p)[k + 1] = raw[p + k - 1]
<1> DEFINE q == BlockEnd(raw, p)
           data == SubSeq(raw, p, q - 1)
<1>1. /\ q \in p .. Len(raw) + 1 /\ q <= p + FullData /\ Len(raw) \in Nat
      /\ \A k \in p .. q - 1 : raw[k] # 0
      /\ FullData \in Nat /\ FullCode = FullData + 1
  BY BlockEnds, Codes
<1> HIDE DEF q
<1>2. \A k \in p .. q - 1 : raw[k] \in 1 .. FullCode
  BY <1>1 DEF Byte
<1>3. /\ data \in Seq(1 .. FullCode) /\ Len(data) = q - p
      /\ \A k \in 1 .. q - p : data[k] = raw[p + k - 1]
  BY <1>1, <1>2, Slice
<1> HIDE DEF data
<1> DEFINE b == <<q - p + 1>> \o data
<1>4. q - p + 1 \in 1 .. FullCode
  BY <1>1
<1>5. <<q - p + 1>> \in Seq(1 .. FullCode) /\ Len(<<q - p + 1>>) = 1 /\ <<q - p + 1>>[1] = q - p + 1
  BY <1>4
<1>6. /\ b \in Seq(1 .. FullCode) /\ Len(b) = 1 + (q - p)
      /\ \A i \in 1 .. 1 + (q - p) : b[i] = IF i <= 1 THEN <<q - p + 1>>[i] ELSE data[i - 1]
  BY <1>3, <1>5, ConcatProperties
<1> HIDE DEF b
<1>7. Len(b) = q - p + 1 /\ b[1] = q - p + 1 /\ \A k \in 1 .. q - p : b[k + 1] = data[k]
  BY <1>1, <1>5, <1>6
<1>8. Block(raw, p) = b
  BY DEF Block, q, b, data
<1> QED BY <1>3, <1>6, <1>7, <1>8 DEF q

\* A chain is free of zeros and no longer than max_encoded_size promises.
LEMMA ChainFacts ==
    ASSUME NEW raw \in Seq(Byte), NEW p \in 1 .. Len(raw) + 1
    PROVE  /\ Chains(raw)[p] \in Seq(1 .. FullCode)
           /\ Len(Chains(raw)[p]) \in 1 .. max_encoded_size(Len(raw) + 1 - p)
<1> DEFINE end == Len(raw) + 1
           Fine(k) == /\ Chains(raw)[k] \in Seq(1 .. FullCode)
                      /\ Len(Chains(raw)[k]) \in 1 .. max_encoded_size(end - k)
           S == {k \in 1 .. end : Fine(k)}
<1>1. Len(raw) \in Nat /\ FullData \in Nat \ {0} /\ FullCode = FullData + 1
  BY Codes
<1>2. ASSUME NEW k \in 1 .. end, k + 1 .. end \subseteq S PROVE Fine(k)
  <2> DEFINE q == BlockEnd(raw, k)
             b == Block(raw, k)
             n == NextBlock(raw, k)
             m == end - k
  <2>1. q \in k .. end /\ q <= k + FullData
    BY <1>1, BlockEnds
  <2>2. b \in Seq(1 .. FullCode) /\ Len(b) = q - k + 1
    BY BlockFacts
  <2>3. CeilDiv(m, FullData) \in Nat /\ (m > 0 => CeilDiv(m, FullData) >= 1)
    <3>1. m \in Nat
      BY <1>1
    <3> HIDE DEF m
    <3>2. CeilDiv(m, FullData) \in Nat /\ m <= CeilDiv(m, FullData) * FullData
      BY <1>1, <3>1, CeilDivBound
    <3> QED BY <1>1, <3>1, <3>2
  <2>4. CASE q = end
    <3>1. Chains(raw)[k] = b
      BY <1>1, <2>4, ChainsUnfold
    <3>2. q - k + 1 <= max_encoded_size(m)
      BY <1>1, <2>1, <2>3, <2>4 DEF max_encoded_size
    <3> HIDE DEF b, q
    <3>3. q - k + 1 >= 1 /\ q - k + 1 \in Nat
      BY <2>1
    <3>4. Len(b) \in 1 .. max_encoded_size(m)
      BY <2>2, <2>3, <3>2, <3>3 DEF max_encoded_size
    <3> QED BY <2>2, <3>1, <3>4
  <2>5. CASE q # end
    <3> DEFINE rest == Chains(raw)[n]
               l == end - n
    <3>1. Chains(raw)[k] = b \o rest
      BY <1>1, <2>5, ChainsUnfold
    <3>2. n \in k + 1 .. end /\ n = (IF q - k = FullData THEN q ELSE q + 1)
      BY <1>1, <2>5, NextBlockLater DEF NextBlock
    <3>3. rest \in Seq(1 .. FullCode) /\ Len(rest) \in 1 .. max_encoded_size(l)
      BY <1>2, <3>2
    <3>4. l \in Nat /\ CeilDiv(l, FullData) \in Nat /\ CeilDiv(l, FullData) <= CeilDiv(m, FullData)
          /\ (q - k = FullData => CeilDiv(l, FullData) + 1 <= CeilDiv(m, FullData))
      <4>1. l \in Nat /\ m \in Nat /\ l <= m /\ (q - k = FullData => l = m - FullData)
        BY <1>1, <2>1, <3>2
      <4> HIDE DEF l, m, q
      <4>2. CeilDiv(l, FullData) \in Nat /\ CeilDiv(l, FullData) <= CeilDiv(m, FullData)
        BY <1>1, <4>1, CeilDivBound, CeilDivMonotone
      <4>3. ASSUME q - k = FullData PROVE CeilDiv(l, FullData) + 1 <= CeilDiv(m, FullData)
        <5> DEFINE c == CeilDiv(m, FullData)
        <5>1. c \in Nat /\ m <= c * FullData /\ l = m - FullData
          BY <1>1, <4>1, <4>3, CeilDivBound
        <5> HIDE DEF c
        <5>2. c # 0
          BY <1>1, <4>1, <5>1
        <5>3. l <= (c - 1) * FullData
          BY <1>1, <4>1, <5>1, <5>2
        <5>4. CeilDiv(l, FullData) <= c - 1
          BY <1>1, <4>1, <5>1, <5>2, <5>3, CeilDivLeast
        <5> QED BY <4>2, <5>1, <5>4 DEF c
      <4> QED BY <4>1, <4>2, <4>3
    <3>5. Len(b) + Len(rest) <= max_encoded_size(m) /\ Len(b) + Len(rest) >= 1
      <4>1. Len(rest) \in Nat /\ Len(rest) <= (IF l = 0 THEN 1 ELSE l + CeilDiv(l, FullData))
            /\ Len(rest) >= 1
        BY <3>3, <3>4 DEF max_encoded_size
      <4>2. m > 0 /\ max_encoded_size(m) = m + CeilDiv(m, FullData)
        BY <1>1, <2>1, <2>5 DEF max_encoded_size
      <4>3. Len(b) = q - k + 1 /\ l = end - n
        BY <2>2
      <4> HIDE DEF l, b, q, rest
      <4>4. CASE q - k = FullData
        BY <1>1, <2>1, <2>3, <2>5, <3>2, <3>4, <4>1, <4>2, <4>3, <4>4
      <4>5. CASE q - k # FullData
        BY <1>1, <2>1, <2>3, <2>5, <3>2, <3>4, <4>1, <4>2, <4>3, <4>5
      <4> QED BY <4>4, <4>5
    <3> HIDE DEF b, rest, l
    <3>6. b \o rest \in Seq(1 .. FullCode) /\ Len(b \o rest) = Len(b) + Len(rest)
      BY <2>2, <3>3
    <3>7. max_encoded_size(m) \in Nat
      BY <1>1, <2>3 DEF max_encoded_size
    <3>8. Len(b) \in Nat /\ Len(rest) \in Nat
      BY <2>2, <3>3
    <3> QED BY <3>1, <3>5, <3>6, <3>7, <3>8
  <2> QED BY <2>4, <2>5
<1>3. \A k \in 1 .. end : k + 1 .. end \subseteq S => k \in S
  BY <1>2
<1>4. 1 .. end \subseteq S
  <2>1. end \in Nat
    BY <1>1
  <2> HIDE DEF S, end
  <2> QED BY <1>3, <2>1, Downwards
<1> QED BY <1>4

-----------------------------------------------------------------------------
(***************************************************************************)
(* What a string of blocks stands for.                                     *)
(***************************************************************************)
LEMMA MeaningsDefined ==
    ASSUME NEW w, \E f : f = [p \in 1 .. Len(w) + 1 |-> Meaning(w, f, p)]
    PROVE  Meanings(w) = [p \in 1 .. Len(w) + 1 |-> Meaning(w, Meanings(w), p)]
<1> DEFINE G == CHOOSE f : f = [p \in 1 .. Len(w) + 1 |-> Meaning(w, f, p)]
<1>1. Meanings(w) = G
  BY Zenon DEF Meanings
<1>2. G = [p \in 1 .. Len(w) + 1 |-> Meaning(w, G, p)]
  <2> HIDE DEF Meaning
  <2> QED BY Zenon
<1> QED BY <1>1, <1>2

LEMMA MeaningsExist ==
    ASSUME NEW w \in Seq(1 .. FullCode)
    PROVE  \E f : f = [p \in 1 .. Len(w) + 1 |-> Meaning(w, f, p)]
<1> DEFINE end == Len(w) + 1
           Good(f, k) == f = [p \in k .. end |-> Meaning(w, f, p)]
           S == {k \in 1 .. end : \E f : Good(f, k)}
<1>1. Len(w) \in Nat /\ \A p \in 1 .. Len(w) : p + w[p] \in Nat /\ p + w[p] > p
  BY FullCodeAssumption
<1>2. ASSUME NEW k \in 1 .. end, k + 1 .. end \subseteq S PROVE k \in S
  <2>1. CASE k = end
    <3> DEFINE f == [p \in k .. end |-> Meaning(w, <<>>, p)]
    <3>1. \A g : Meaning(w, g, end) = [stop |-> Len(w) + 1, bytes |-> <<>>]
      BY DEF Meaning
    <3>2. ASSUME NEW p \in k .. end PROVE Meaning(w, <<>>, p) = Meaning(w, f, p)
      <4>1. p = end
        BY <1>1, <2>1
      <4> QED BY <3>1, <4>1, Zenon
    <3>3. \A g : (\A p \in k .. end : Meaning(w, <<>>, p) = Meaning(w, g, p))
                   => f = [p \in k .. end |-> Meaning(w, g, p)]
      OBVIOUS
    <3>4. f = [p \in k .. end |-> Meaning(w, f, p)]
      BY <3>2, <3>3, Zenon
    <3> QED BY <3>4
  <2>2. CASE k # end
    <3>1. PICK h : Good(h, k + 1)
      BY <1>1, <1>2, <2>2
    <3> DEFINE f == [p \in k .. end |-> IF p = k THEN Meaning(w, h, k) ELSE h[p]]
    <3>2. \A p \in k + 1 .. end : f[p] = h[p]
      BY <1>1
    <3>3. \A p \in k .. end : Meaning(w, f, p) = Meaning(w, h, p)
      <4> SUFFICES ASSUME NEW p \in k .. end PROVE Meaning(w, f, p) = Meaning(w, h, p)
        OBVIOUS
      <4>1. p # end /\ ~(p + w[p] > end) => f[p + w[p]] = h[p + w[p]]
        <5>1. p # end /\ ~(p + w[p] > end) => p + w[p] \in k + 1 .. end
          BY <1>1
        <5> HIDE DEF f
        <5> QED BY <3>2, <5>1
      <4> HIDE DEF f
      <4> QED BY <4>1 DEF Meaning
    <3>4. \A p \in k .. end : f[p] = Meaning(w, f, p)
      <4>1. \A p \in k + 1 .. end : h[p] = Meaning(w, h, p)
        <5> HIDE DEF f
        <5> QED BY <3>1
      <4> QED BY <1>1, <3>3, <4>1
    <3>5. f = [p \in k .. end |-> f[p]]
      OBVIOUS
    <3> HIDE DEF f
    <3>6. Good(f, k)
      BY <3>4, <3>5
    <3> QED BY <3>6
  <2> QED BY <2>1, <2>2
<1>3. 1 \in S
  <2>1. end \in Nat /\ 1 \in 1 .. end
    BY <1>1
  <2> HIDE DEF S, end
  <2> QED BY <1>2, <2>1, Downwards
<1> QED BY <1>3

LEMMA MeaningsUnfold ==
    ASSUME NEW w \in Seq(1 .. FullCode), NEW p \in 1 .. Len(w) + 1
    PROVE  Meanings(w)[p] = Meaning(w, Meanings(w), p)
<1>1. Meanings(w) = [n \in 1 .. Len(w) + 1 |-> Meaning(w, Meanings(w), n)]
  BY MeaningsExist, MeaningsDefined
<1> QED BY <1>1


\* When w ends with b and then d, b lies at its place and d behind it.
LEMMA EndsAt ==
    ASSUME NEW S, NEW w \in Seq(S), NEW t \in 1 .. Len(w), NEW b \in Seq(S), NEW d \in Seq(S),
           Len(b) >= 1, SubSeq(w, t, Len(w)) = b \o d
    PROVE  /\ t + Len(b) + Len(d) = Len(w) + 1
           /\ \A j \in 1 .. Len(b) : w[t + j - 1] = b[j]
           /\ \A j \in 1 .. Len(d) : w[t + Len(b) + j - 1] = d[j]
<1>1. Len(w) \in Nat /\ Len(b) \in Nat /\ Len(d) \in Nat /\ t \in Nat
  OBVIOUS
<1> DEFINE c == SubSeq(w, t, Len(w))
<1>2. /\ Len(c) = Len(w) + 1 - t
      /\ \A j \in 1 .. Len(w) + 1 - t : c[j] = w[t + j - 1]
  <2> DEFINE n == Len(w) + 1
  <2>1. n \in Nat /\ t <= n /\ n - 1 = Len(w) /\ \A k \in t .. n - 1 : w[k] \in S
    BY <1>1
  <2> HIDE DEF n
  <2>2. /\ Len(SubSeq(w, t, n - 1)) = n - t
        /\ \A k \in 1 .. n - t : SubSeq(w, t, n - 1)[k] = w[t + k - 1]
    BY <1>1, <2>1, Slice
  <2> QED BY <2>1, <2>2 DEF n
<1>3. /\ Len(c) = Len(b) + Len(d)
      /\ \A j \in 1 .. Len(b) + Len(d) : c[j] = IF j <= Len(b) THEN b[j] ELSE d[j - Len(b)]
  BY ConcatProperties
<1> HIDE DEF c
<1>4. t + Len(b) + Len(d) = Len(w) + 1
  BY <1>1, <1>2, <1>3
<1>5. \A j \in 1 .. Len(b) : w[t + j - 1] = b[j]
  BY <1>1, <1>2, <1>3
<1>6. \A j \in 1 .. Len(d) : w[t + Len(b) + j - 1] = d[j]
  <2> SUFFICES ASSUME NEW j \in 1 .. Len(d) PROVE w[t + Len(b) + j - 1] = d[j]
    OBVIOUS
  <2>1. Len(b) + j \in 1 .. Len(b) + Len(d) /\ ~(Len(b) + j <= Len(b)) /\ Len(b) + j - Len(b) = j
        /\ Len(b) + j \in 1 .. Len(w) + 1 - t /\ t + (Len(b) + j) - 1 = t + Len(b) + j - 1
    BY <1>1, <1>4
  <2> QED BY <1>2, <1>3, <2>1
<1> QED BY <1>4, <1>5, <1>6

\* What lies behind the first byte of b is the rest of b.
LEMMA EndsRest ==
    ASSUME NEW S, NEW w \in Seq(S), NEW t \in 1 .. Len(w), NEW b \in Seq(S), NEW d \in Seq(S),
           Len(b) >= 1, SubSeq(w, t, Len(w)) = b \o d
    PROVE  SubSeq(w, t + 1, (t + Len(b)) - 1) = SubSeq(b, 2, Len(b))
<1> DEFINE n == t + Len(b)
           m == Len(b) + 1
           x == SubSeq(w, t + 1, n - 1)
           y == SubSeq(b, 2, m - 1)
<1>1. Len(w) \in Nat /\ Len(b) \in Nat /\ Len(d) \in Nat /\ t \in Nat
  OBVIOUS
<1>2. t + Len(b) + Len(d) = Len(w) + 1 /\ \A j \in 1 .. Len(b) : w[t + j - 1] = b[j]
  BY EndsAt
<1>3. n \in Nat /\ m \in Nat /\ t + 1 \in Nat /\ t + 1 <= n /\ 2 <= m /\ m - 1 = Len(b)
      /\ n - (t + 1) = Len(b) - 1 /\ m - 2 = Len(b) - 1
      /\ (\A k \in t + 1 .. n - 1 : w[k] \in S) /\ (\A k \in 2 .. m - 1 : b[k] \in S)
  BY <1>1, <1>2
<1> HIDE DEF n, m
<1>4. x \in Seq(S) /\ Len(x) = Len(b) - 1 /\ \A k \in 1 .. Len(b) - 1 : x[k] = w[t + 1 + k - 1]
  BY <1>3, Slice
<1>5. y \in Seq(S) /\ Len(y) = Len(b) - 1 /\ \A k \in 1 .. Len(b) - 1 : y[k] = b[2 + k - 1]
  BY <1>3, Slice
<1>6. ASSUME NEW k \in 1 .. Len(b) - 1 PROVE w[t + 1 + k - 1] = b[2 + k - 1]
  <2>1. k + 1 \in 1 .. Len(b) /\ t + (k + 1) - 1 = t + 1 + k - 1 /\ 2 + k - 1 = k + 1
    BY <1>1
  <2> QED BY <1>2, <2>1
<1> HIDE DEF x, y
<1>7. x = y
  BY <1>4, <1>5, <1>6, SeqEqual
<1> QED BY <1>3, <1>7 DEF x, y, n

\* What lies behind b is d.
LEMMA EndsTail ==
    ASSUME NEW S, NEW w \in Seq(S), NEW t \in 1 .. Len(w), NEW b \in Seq(S), NEW d \in Seq(S),
           Len(b) >= 1, SubSeq(w, t, Len(w)) = b \o d
    PROVE  SubSeq(w, t + Len(b), Len(w)) = d
<1> DEFINE n == Len(w) + 1
           m == t + Len(b)
           x == SubSeq(w, m, n - 1)
<1>1. Len(w) \in Nat /\ Len(b) \in Nat /\ Len(d) \in Nat /\ t \in Nat
  OBVIOUS
<1>2. t + Len(b) + Len(d) = Len(w) + 1
  BY EndsAt
<1>3. n \in Nat /\ m \in Nat /\ m <= n /\ n - 1 = Len(w) /\ n - m = Len(d)
      /\ \A k \in m .. n - 1 : w[k] \in S
  BY <1>1, <1>2
<1>4. \A j \in 1 .. Len(d) : w[m + j - 1] = d[j]
  BY EndsAt, Zenon
<1> HIDE DEF n, m
<1>5. x \in Seq(S) /\ Len(x) = Len(d) /\ \A k \in 1 .. Len(d) : x[k] = w[m + k - 1]
  BY <1>3, Slice
<1> HIDE DEF x
<1>6. x = d
  BY <1>4, <1>5, SeqEqual
<1> QED BY <1>3, <1>6 DEF x, m

\* A block that lies at t of w is read, and then what follows it.
LEMMA MeaningStep ==
    ASSUME NEW w \in Seq(1 .. FullCode), NEW t \in 1 .. Len(w), t + w[t] <= Len(w) + 1
    PROVE  Meanings(w)[t] =
              [stop |-> Meanings(w)[t + w[t]].stop,
               bytes |-> SubSeq(w, t + 1, (t + w[t]) - 1) \o Owed(w, t)
                            \o Meanings(w)[t + w[t]].bytes]
<1>1. Len(w) \in Nat /\ t # Len(w) + 1 /\ t \in 1 .. Len(w) + 1
  OBVIOUS
<1>2. w[t] \in Nat /\ t + w[t] \in Nat /\ ~(t + w[t] > Len(w) + 1)
  BY FullCodeAssumption
<1>3. Meanings(w)[t] = Meaning(w, Meanings(w), t)
  BY <1>1, MeaningsUnfold
<1> QED BY <1>1, <1>2, <1>3, Zenon DEF Meaning

LEMMA MeaningEnd ==
    ASSUME NEW w \in Seq(1 .. FullCode)
    PROVE  Meanings(w)[Len(w) + 1] = [stop |-> Len(w) + 1, bytes |-> <<>>]
<1>1. Len(w) + 1 \in 1 .. Len(w) + 1
  OBVIOUS
<1>2. Meanings(w)[Len(w) + 1] = Meaning(w, Meanings(w), Len(w) + 1)
  BY <1>1, MeaningsUnfold
<1> QED BY <1>2 DEF Meaning

\* The data of a block, and with the zero it stands for what it took from raw.
LEMMA BlockData ==
    ASSUME NEW raw \in Seq(Byte), NEW p \in 1 .. Len(raw) + 1
    PROVE  SubSeq(Block(raw, p), 2, Len(Block(raw, p))) = SubSeq(raw, p, BlockEnd(raw, p) - 1)
<1> DEFINE q == BlockEnd(raw, p)
           b == Block(raw, p)
           m == q - p + 2
           x == SubSeq(b, 2, m - 1)
           y == SubSeq(raw, p, q - 1)
<1>1. /\ q \in p .. Len(raw) + 1 /\ p \in Nat /\ Len(raw) \in Nat /\ q \in Nat
      /\ \A k \in p .. q - 1 : raw[k] \in Byte
  BY BlockEnds
<1>2. /\ b \in Seq(1 .. FullCode) /\ Len(b) = q - p + 1
      /\ \A k \in 1 .. q - p : b[k + 1] = raw[p + k - 1]
  BY BlockFacts
<1> HIDE DEF q, b
<1>3. m \in Nat /\ 2 <= m /\ m - 1 = Len(b) /\ m - 2 = q - p
      /\ \A k \in 2 .. m - 1 : b[k] \in Byte
  <2>1. 1 .. FullCode \subseteq Byte
    BY FullCodeAssumption DEF Byte
  <2>2. \A k \in 1 .. Len(b) : b[k] \in 1 .. FullCode
    BY <1>2, ElementOfSeq
  <2>3. m \in Nat /\ 2 <= m /\ m - 1 = Len(b) /\ m - 2 = q - p
    BY <1>1, <1>2
  <2> HIDE DEF m
  <2> QED BY <1>1, <1>2, <2>1, <2>2, <2>3
<1> HIDE DEF m
<1>4. x \in Seq(Byte) /\ Len(x) = q - p /\ \A k \in 1 .. q - p : x[k] = b[2 + k - 1]
  BY <1>3, Slice
<1>5. y \in Seq(Byte) /\ Len(y) = q - p /\ \A k \in 1 .. q - p : y[k] = raw[p + k - 1]
  BY <1>1, Slice
<1>6. ASSUME NEW k \in 1 .. q - p PROVE x[k] = y[k]
  <2>1. 2 + k - 1 = k + 1
    BY <1>1
  <2> QED BY <1>2, <1>4, <1>5, <2>1
<1> HIDE DEF x, y
<1>7. x = y
  BY <1>4, <1>5, <1>6, SeqEqual
<1> QED BY <1>3, <1>7 DEF x, y, q, b

\* From each place on, the chain of raw means the rest of raw - wherever in a
\* string w it lies, as long as w ends with it.
LEMMA ChainMeaning ==
    ASSUME NEW raw \in Seq(Byte), NEW w \in Seq(1 .. FullCode), NEW p \in 1 .. Len(raw) + 1,
           NEW s \in 1 .. Len(w), SubSeq(w, s, Len(w)) = Chains(raw)[p]
    PROVE  Meanings(w)[s] = [stop |-> Len(w) + 1, bytes |-> SubSeq(raw, p, Len(raw))]
<1> DEFINE end == Len(raw) + 1
           Says(k) == \A t \in 1 .. Len(w) :
               SubSeq(w, t, Len(w)) = Chains(raw)[k]
                  => Meanings(w)[t] = [stop |-> Len(w) + 1, bytes |-> SubSeq(raw, k, Len(raw))]
           S == {k \in 1 .. end : Says(k)}
<1>1. Len(raw) \in Nat /\ Len(w) \in Nat /\ FullData \in Nat \ {0} /\ FullCode = FullData + 1
      /\ 0 \in Byte
  BY Codes
<1>2. ASSUME NEW k \in 1 .. end, k + 1 .. end \subseteq S,
             NEW t \in 1 .. Len(w), SubSeq(w, t, Len(w)) = Chains(raw)[k]
      PROVE  Meanings(w)[t] = [stop |-> Len(w) + 1, bytes |-> SubSeq(raw, k, Len(raw))]
  <2> DEFINE q == BlockEnd(raw, k)
             b == Block(raw, k)
             n == NextBlock(raw, k)
             d == IF q = end THEN <<>> ELSE Chains(raw)[n]
             y == SubSeq(raw, k, q - 1)
             next == t + w[t]
  <2>1. /\ q \in k .. end /\ q <= k + FullData
        /\ q = Len(raw) + 1 \/ raw[q] = 0 \/ q = k + FullData
    BY <1>1, BlockEnds
  <2>2. b \in Seq(1 .. FullCode) /\ Len(b) = q - k + 1 /\ b[1] = q - k + 1
    BY BlockFacts
  <2>3. SubSeq(b, 2, Len(b)) = y
    BY BlockData
  <2>4. y \in Seq(Byte)
    <3>1. \A j \in k .. q - 1 : raw[j] \in Byte
      BY <1>1, <2>1
    <3> QED BY <1>1, <2>1, <3>1, Slice
  <2>5. /\ q = end => d = <<>>
        /\ q # end => n \in k + 1 .. end /\ d = Chains(raw)[n] /\ Len(d) >= 1
        /\ d \in Seq(1 .. FullCode) /\ Len(d) \in Nat
    <3>1. CASE q = end
      <4>1. <<>> \in Seq(1 .. FullCode) /\ Len(<<>>) = 0
        OBVIOUS
      <4> QED BY <3>1, <4>1
    <3>2. CASE q # end
      <4>1. n \in k + 1 .. end /\ n \in 1 .. Len(raw) + 1
        BY <1>1, <3>2, NextBlockLater
      <4> HIDE DEF n
      <4>2. /\ Chains(raw)[n] \in Seq(1 .. FullCode)
            /\ Len(Chains(raw)[n]) \in 1 .. max_encoded_size(Len(raw) + 1 - n)
        BY <4>1, ChainFacts
      <4>3. Len(Chains(raw)[n]) >= 1 /\ Len(Chains(raw)[n]) \in Nat
        BY <4>2
      <4> QED BY <3>2, <4>1, <4>2, <4>3
    <3> QED BY <3>1, <3>2
  <2>6. Chains(raw)[k] = b \o d
    <3>1. Chains(raw)[k] = IF q = end THEN b ELSE b \o Chains(raw)[n]
      BY <1>1, ChainsUnfold
    <3>2. b \o <<>> = b
      BY <2>2, ConcatEmptySeq
    <3> QED BY <2>5, <3>1, <3>2
  <2>7. n = IF q - k = FullData THEN q ELSE q + 1
    BY DEF NextBlock
  <2> HIDE DEF b, q, d, n, y, next
  <2>8. /\ w[t] = b[1] /\ t + Len(b) + Len(d) = Len(w) + 1
        /\ SubSeq(w, t + 1, (t + Len(b)) - 1) = SubSeq(b, 2, Len(b))
        /\ SubSeq(w, t + Len(b), Len(w)) = d
    <3>1. SubSeq(w, t, Len(w)) = b \o d /\ Len(b) >= 1
      BY <1>1, <1>2, <2>1, <2>2, <2>6
    <3>2. b \in Seq(1 .. FullCode) /\ d \in Seq(1 .. FullCode)
      BY <2>2, <2>5
    <3> DEFINE V == 1 .. FullCode
    <3>3. w \in Seq(V) /\ b \in Seq(V) /\ d \in Seq(V)
      BY <3>2
    <3> HIDE DEF end, Says, S, V
    <3>4. t + Len(b) + Len(d) = Len(w) + 1
      BY <3>1, <3>3, EndsAt
    <3>t. \A j \in 1 .. Len(b) : w[t + j - 1] = b[j]
      BY <3>1, <3>3, EndsAt, Zenon
    <3>5. w[t] = b[1]
      <4>1. 1 \in 1 .. Len(b) /\ t + 1 - 1 = t
        BY <1>1, <2>1, <2>2
      <4> QED BY <3>t, <4>1
    <3>6. SubSeq(w, t + 1, (t + Len(b)) - 1) = SubSeq(b, 2, Len(b))
      BY <3>1, <3>3, EndsRest
    <3>7. SubSeq(w, t + Len(b), Len(w)) = d
      BY <3>1, <3>3, EndsTail
    <3> QED BY <3>4, <3>5, <3>6, <3>7
  <2>9. /\ w[t] = q - k + 1 /\ next = t + Len(b) /\ next \in Nat /\ next <= Len(w) + 1
        /\ Len(d) \in Nat /\ next + Len(d) = Len(w) + 1
    <3>1. Len(d) \in Nat /\ t \in Nat /\ q \in Nat /\ k \in Nat
      BY <1>1, <2>1, <2>5
    <3> QED BY <1>1, <2>1, <2>2, <2>8, <3>1 DEF next
  <2>10. Meanings(w)[t] = [stop |-> Meanings(w)[next].stop,
                           bytes |-> y \o Owed(w, t) \o Meanings(w)[next].bytes]
    <3>1. t + w[t] <= Len(w) + 1
      BY <2>9 DEF next
    <3>2. SubSeq(w, t + 1, next - 1) = y
      BY <2>3, <2>8, <2>9
    <3>3. Meanings(w)[t] =
              [stop |-> Meanings(w)[next].stop,
               bytes |-> SubSeq(w, t + 1, next - 1) \o Owed(w, t) \o Meanings(w)[next].bytes]
      BY <3>1, MeaningStep DEF next
    <3> QED BY <3>2, <3>3
  <2>11. CASE q = end
    <3>1. next = Len(w) + 1 /\ Owed(w, t) = <<>>
      BY <2>5, <2>9, <2>11 DEF Owed, next
    <3>2. Meanings(w)[next] = [stop |-> Len(w) + 1, bytes |-> <<>>]
      BY <3>1, MeaningEnd
    <3>3. y \o <<>> \o <<>> = y
      BY <2>4, ConcatEmptySeq
    <3>4. y = SubSeq(raw, k, Len(raw))
      BY <1>1, <2>11 DEF y
    <3> QED BY <2>10, <3>1, <3>2, <3>3, <3>4
  <2>12. CASE q # end
    <3> DEFINE z == SubSeq(raw, n, Len(raw))
    <3>1. next \in 1 .. Len(w) /\ n \in k + 1 .. end /\ SubSeq(w, next, Len(w)) = Chains(raw)[n]
      <4>1. Len(d) >= 1 /\ n \in k + 1 .. end /\ SubSeq(w, next, Len(w)) = Chains(raw)[n]
        BY <2>5, <2>8, <2>9, <2>12
      <4>2. next >= 1
        BY <1>1, <2>1, <2>9 DEF next
      <4>3. next <= Len(w)
        BY <1>1, <2>9, <4>1
      <4>4. next \in 1 .. Len(w)
        BY <1>1, <2>9, <4>2, <4>3
      <4> QED BY <4>1, <4>4
    <3>2. Meanings(w)[next] = [stop |-> Len(w) + 1, bytes |-> z]
      BY <1>2, <3>1
    <3>3. Meanings(w)[t] = [stop |-> Len(w) + 1, bytes |-> y \o Owed(w, t) \o z]
      BY <2>10, <3>2
    <3>4. w[t] = FullCode <=> q - k = FullData
      BY <1>1, <2>1, <2>9
    <3>5. CASE q - k = FullData
      <4>1. Owed(w, t) = <<>> /\ n = q
        BY <2>7, <3>4, <3>5 DEF Owed
      <4>2. y \o <<>> = y
        BY <2>4, ConcatEmptySeq
      <4>3. k \in 1 .. Len(raw) + 1 /\ q - 1 \in k - 1 .. Len(raw) /\ Len(raw) \in q - 1 .. Len(raw)
            /\ (q - 1) + 1 = q
        BY <1>1, <2>1
      <4>4. y \o z = SubSeq(raw, k, Len(raw))
        BY <4>1, <4>3, ConcatAdjacentSubSeq DEF y
      <4> QED BY <3>3, <4>1, <4>2, <4>4
    <3>6. CASE q - k # FullData
      <4>1. Owed(w, t) = <<0>> /\ n = q + 1 /\ raw[q] = 0
        <5>1. next # Len(w) + 1
          BY <3>1, <1>1
        <5>2. raw[q] = 0
          BY <1>1, <2>1, <2>12, <3>6
        <5> QED BY <2>7, <3>4, <3>6, <5>1, <5>2 DEF Owed, next
      <4>2. /\ q \in k .. Len(raw) /\ k \in 1 .. Len(raw) /\ k \in 1 .. Len(raw) + 1
            /\ q \in k - 1 .. Len(raw) /\ Len(raw) \in q .. Len(raw)
        BY <1>1, <2>1, <2>12
      <4>3. y \o <<0>> = SubSeq(raw, k, q)
        BY <4>1, <4>2, SubSeqRecursiveSecond DEF y
      <4>4. SubSeq(raw, k, q) \o z = SubSeq(raw, k, Len(raw))
        BY <4>1, <4>2, ConcatAdjacentSubSeq
      <4> QED BY <3>3, <4>1, <4>3, <4>4
    <3> QED BY <3>5, <3>6
  <2> QED BY <2>11, <2>12
<1>3. \A k \in 1 .. end : k + 1 .. end \subseteq S => k \in S
  BY <1>2
<1>4. 1 .. end \subseteq S
  <2>1. end \in Nat
    BY <1>1
  <2> HIDE DEF S, end
  <2> QED BY <1>3, <2>1, Downwards
<1> QED BY <1>4

\* The canonical encoding is free of zeros and fits where max_encoded_size says.
LEMMA EncodedFacts ==
    ASSUME NEW raw \in Seq(Byte)
    PROVE  /\ Encoded(raw) \in Seq(1 .. FullCode) /\ Encoded(raw) \in Seq(Byte)
           /\ Len(Encoded(raw)) \in 1 .. max_encoded_size(Len(raw))
<1>1. Len(raw) \in Nat /\ 1 \in 1 .. Len(raw) + 1 /\ Len(raw) + 1 - 1 = Len(raw)
  OBVIOUS
<1>2. 1 .. FullCode \subseteq Byte
  BY FullCodeAssumption DEF Byte
<1>3. /\ Chains(raw)[1] \in Seq(1 .. FullCode)
      /\ Len(Chains(raw)[1]) \in 1 .. max_encoded_size(Len(raw) + 1 - 1)
  BY <1>1, ChainFacts
<1> QED BY <1>1, <1>2, <1>3, SeqMonotonic DEF Encoded

\* Decoding undoes encoding, for every sequence of bytes and every FullCode: the
\* canonical encoding is a chain of blocks that lands on its end and stands for
\* the bytes it was made from (PROTOCOL.md, section 6).
THEOREM EncodingRoundTrips ==
    ASSUME NEW raw \in Seq(Byte)
    PROVE  /\ WellFormed(Encoded(raw)) /\ Decoded(Encoded(raw)) = raw
           /\ \A k \in 1 .. Len(Encoded(raw)) : Encoded(raw)[k] # 0
           /\ Len(Encoded(raw)) + 1 <= max_wire_size(Len(raw))
<1> DEFINE w == Encoded(raw)
<1>1. w \in Seq(1 .. FullCode) /\ Len(w) \in 1 .. max_encoded_size(Len(raw)) /\ Len(raw) \in Nat
  BY EncodedFacts
<1>2. max_encoded_size(Len(raw)) \in Nat
  <2>1. Len(raw) \in Nat /\ FullData \in Nat \ {0}
    BY <1>1, Codes
  <2>2. CeilDiv(Len(raw), FullData) \in Nat
    BY <2>1, CeilDivBound
  <2> QED BY <2>1, <2>2 DEF max_encoded_size
<1>3. 1 \in 1 .. Len(w) /\ 1 \in 1 .. Len(raw) + 1
  BY <1>1, <1>2
<1>4. SubSeq(w, 1, Len(w)) = Chains(raw)[1]
  BY <1>1, SubSeqFull DEF Encoded
<1> HIDE DEF w
<1>5. Meanings(w)[1] = [stop |-> Len(w) + 1, bytes |-> SubSeq(raw, 1, Len(raw))]
  BY <1>1, <1>3, <1>4, ChainMeaning
<1>6. SubSeq(raw, 1, Len(raw)) = raw
  BY SubSeqFull
<1>7. WellFormed(w) /\ Decoded(w) = raw
  BY <1>5, <1>6 DEF WellFormed, Decoded
<1>8. \A k \in 1 .. Len(w) : w[k] # 0
  <2>1. \A k \in 1 .. Len(w) : w[k] \in 1 .. FullCode
    BY <1>1, ElementOfSeq
  <2> QED BY <2>1
<1>9. Len(w) + 1 <= max_wire_size(Len(raw))
  BY <1>1, <1>2 DEF max_wire_size
<1> QED BY <1>7, <1>8, <1>9 DEF w

-----------------------------------------------------------------------------
(***************************************************************************)
(* What is known of a string while it arrives.                             *)
(***************************************************************************)
LEMMA MeaningBreaks ==
    ASSUME NEW w \in Seq(1 .. FullCode), NEW t \in 1 .. Len(w), t + w[t] > Len(w) + 1
    PROVE  Meanings(w)[t] = [stop |-> t + w[t], bytes |-> SubSeq(w, t + 1, Len(w))]
<1>1. Len(w) \in Nat /\ t # Len(w) + 1 /\ t \in 1 .. Len(w) + 1
  OBVIOUS
<1>2. Meanings(w)[t] = Meaning(w, Meanings(w), t)
  BY <1>1, MeaningsUnfold
<1> QED BY <1>1, <1>2, Zenon DEF Meaning

\* The part of w behind its block code at t, up to m.
LEMMA Part ==
    ASSUME NEW w \in Seq(1 .. FullCode), NEW t \in 1 .. Len(w), NEW m \in t .. Len(w)
    PROVE  /\ SubSeq(w, t + 1, m) \in Seq(Byte) /\ Len(SubSeq(w, t + 1, m)) = m - t
           /\ \A k \in 1 .. m - t : SubSeq(w, t + 1, m)[k] = w[t + k]
<1> DEFINE n == m + 1
           l == t + 1
<1>1. /\ Len(w) \in Nat /\ t \in Nat /\ m \in Nat /\ t <= m /\ n \in Nat /\ n - 1 = m /\ l \in Nat
      /\ l <= n /\ n - l = m - t /\ \A k \in l .. m : k \in 1 .. Len(w)
  OBVIOUS
<1>2. \A k \in 1 .. Len(w) : w[k] \in Byte
  <2>1. 1 .. FullCode \subseteq Byte
    BY FullCodeAssumption DEF Byte
  <2>2. \A k \in 1 .. Len(w) : w[k] \in 1 .. FullCode
    BY ElementOfSeq
  <2> QED BY <2>1, <2>2
<1>3. \A k \in l .. n - 1 : w[k] \in Byte
  BY <1>1, <1>2
<1>5. \A k \in 1 .. m - t : l + k - 1 = t + k
  BY <1>1
<1> HIDE DEF n, l
<1>4. /\ SubSeq(w, l, n - 1) \in Seq(Byte) /\ Len(SubSeq(w, l, n - 1)) = n - l
      /\ \A k \in 1 .. n - l : SubSeq(w, l, n - 1)[k] = w[l + k - 1]
  BY <1>1, <1>3, Slice
<1> QED BY <1>1, <1>4, <1>5 DEF l

LEMMA MeaningsBytes ==
    ASSUME NEW w \in Seq(1 .. FullCode)
    PROVE  \A p \in 1 .. Len(w) + 1 : Meanings(w)[p].bytes \in Seq(Byte)
<1> DEFINE end == Len(w) + 1
           S == {p \in 1 .. end : Meanings(w)[p].bytes \in Seq(Byte)}
<1>1. Len(w) \in Nat /\ \A p \in 1 .. Len(w) : p + w[p] \in Nat /\ p + w[p] > p
  BY FullCodeAssumption
<1>2. ASSUME NEW p \in 1 .. end, p + 1 .. end \subseteq S PROVE p \in S
  <2>1. CASE p = end
    <3>3. Meanings(w)[end] = [stop |-> end, bytes |-> <<>>]
      BY MeaningEnd
    <3>1. Meanings(w)[end].bytes = <<>>
      BY <3>3
    <3>2. <<>> \in Seq(Byte)
      OBVIOUS
    <3> QED BY <2>1, <3>1, <3>2
  <2>2. CASE p # end /\ p + w[p] > end
    <3>1. p \in 1 .. Len(w) /\ Len(w) \in p .. Len(w)
      BY <1>1, <2>2
    <3>2. Meanings(w)[p] = [stop |-> p + w[p], bytes |-> SubSeq(w, p + 1, Len(w))]
      BY <2>2, <3>1, MeaningBreaks
    <3>3. SubSeq(w, p + 1, Len(w)) \in Seq(Byte)
      BY <3>1, Part
    <3> DEFINE x == SubSeq(w, p + 1, Len(w))
               m == Meanings(w)[p]
    <3> HIDE DEF x, m
    <3>4. m.bytes = x
      BY <3>2 DEF x, m
    <3> QED BY <3>3, <3>4 DEF x, m
  <2>3. CASE p # end /\ ~(p + w[p] > end)
    <3>1. p \in 1 .. Len(w) /\ p + w[p] \in p + 1 .. end /\ p + w[p] <= Len(w) + 1
      BY <1>1, <2>3
    <3> DEFINE x == SubSeq(w, p + 1, (p + w[p]) - 1)
               y == Owed(w, p)
               z == Meanings(w)[p + w[p]].bytes
    <3>2. Meanings(w)[p].bytes = x \o y \o z
      <4>1. Meanings(w)[p] = [stop |-> Meanings(w)[p + w[p]].stop, bytes |-> x \o y \o z]
        BY <3>1, MeaningStep
      <4> HIDE DEF x, y, z
      <4> QED BY <4>1
    <3>3. x \in Seq(Byte)
      <4> DEFINE m == (p + w[p]) - 1
      <4>1. m \in p .. Len(w)
        BY <3>1
      <4> HIDE DEF m
      <4>2. SubSeq(w, p + 1, m) \in Seq(Byte)
        BY <3>1, <4>1, Part
      <4> QED BY <4>2 DEF m
    <3>4. y \in Seq(Byte)
      BY Codes DEF Owed
    <3>5. z \in Seq(Byte)
      BY <1>2, <3>1
    <3> HIDE DEF x, y, z
    <3>6. x \o y \o z \in Seq(Byte)
      BY <3>3, <3>4, <3>5
    <3> QED BY <3>2, <3>6
  <2> QED BY <2>1, <2>2, <2>3
<1>3. 1 .. end \subseteq S
  <2>1. end \in Nat
    BY <1>1
  <2> HIDE DEF S, end
  <2> QED BY <1>2, <2>1, Downwards
<1> QED BY <1>3

\* v begins as w does, up to place n.
Agree(v, w, n) == Len(v) >= n /\ \A k \in 1 .. n : v[k] = w[k]

\* Of a string that begins like w up to its block at l, all but what follows is
\* settled: x comes first.
Settled(w, l, x) ==
    \A v \in Seq(1 .. FullCode) : Agree(v, w, l) =>
        /\ Meanings(v)[1].stop = Meanings(v)[l].stop
        /\ Meanings(v)[1].bytes = x \o Meanings(v)[l].bytes

\* w has stood for out so far, its last block owes r more bytes, and a zero when q.
Tracks(w, r, q, out) ==
    \E l \in 1 .. Len(w), x \in Seq(Byte) :
        /\ l + w[l] = Len(w) + 1 + r /\ q = (w[l] # FullCode)
        /\ out = x \o SubSeq(w, l + 1, Len(w))
        /\ Settled(w, l, x)

LEMMA TracksMeaning ==
    ASSUME NEW w \in Seq(1 .. FullCode), NEW r \in Nat, NEW q, NEW out, Tracks(w, r, q, out)
    PROVE  /\ out \in Seq(Byte) /\ Decoded(w) = out
           /\ WellFormed(w) <=> r = 0
<1>1. PICK l \in 1 .. Len(w), x \in Seq(Byte) :
        /\ l + w[l] = Len(w) + 1 + r /\ q = (w[l] # FullCode)
        /\ out = x \o SubSeq(w, l + 1, Len(w))
        /\ Settled(w, l, x)
  BY DEF Tracks
<1>2. Len(w) \in Nat /\ Len(w) \in l .. Len(w) /\ w[l] \in 1 .. FullCode /\ w[l] \in Nat /\ l \in Nat
  BY FullCodeAssumption
<1> DEFINE y == SubSeq(w, l + 1, Len(w))
<1>3. y \in Seq(Byte)
  BY <1>2, Part
<1>4. Meanings(w)[1].stop = Meanings(w)[l].stop /\ Meanings(w)[1].bytes = x \o Meanings(w)[l].bytes
  BY <1>1, <1>2 DEF Settled, Agree
<1>5. CASE r = 0
  <2>0. l + w[l] = Len(w) + 1 + r
    BY <1>1
  <2>1. l + w[l] <= Len(w) + 1 /\ l + w[l] = Len(w) + 1 /\ (l + w[l]) - 1 = Len(w)
    BY <1>2, <1>5, <2>0
  <2>2. Meanings(w)[l] = [stop |-> Meanings(w)[Len(w) + 1].stop,
                          bytes |-> y \o Owed(w, l) \o Meanings(w)[Len(w) + 1].bytes]
    BY <2>1, MeaningStep
  <2>3. Owed(w, l) = <<>>
    BY <2>1 DEF Owed
  <2>4. y \o <<>> \o <<>> = y
    BY <1>3
  <2> HIDE DEF y
  <2>6. Meanings(w)[Len(w) + 1] = [stop |-> Len(w) + 1, bytes |-> <<>>]
    BY MeaningEnd
  <2>5. Meanings(w)[l].stop = Len(w) + 1 /\ Meanings(w)[l].bytes = y
    BY <2>2, <2>3, <2>4, <2>6
  <2> QED BY <1>1, <1>3, <1>4, <1>5, <2>5 DEF y, Decoded, WellFormed
<1>6. CASE r # 0
  <2>1. l + w[l] > Len(w) + 1
    BY <1>1, <1>2, <1>6
  <2>2. Meanings(w)[l] = [stop |-> l + w[l], bytes |-> y]
    BY <2>1, MeaningBreaks
  <2>3. Meanings(w)[l].stop # Len(w) + 1
    BY <2>1, <2>2
  <2> HIDE DEF y
  <2> QED BY <1>1, <1>3, <1>4, <1>6, <2>2, <2>3 DEF y, Decoded, WellFormed
<1> QED BY <1>5, <1>6

LEMMA TracksFirst ==
    ASSUME NEW b \in 1 .. FullCode
    PROVE  Tracks(<<b>>, b - 1, b # FullCode, <<>>)
<1> DEFINE w == <<b>>
<1>1. w \in Seq(1 .. FullCode) /\ Len(w) = 1 /\ w[1] = b
  OBVIOUS
<1>2. Settled(w, 1, <<>>)
  <2> SUFFICES ASSUME NEW v \in Seq(1 .. FullCode)
               PROVE  Meanings(v)[1].bytes = <<>> \o Meanings(v)[1].bytes
    BY DEF Settled
  <2> DEFINE s == Meanings(v)[1].bytes
  <2>1. s \in Seq(Byte)
    BY MeaningsBytes
  <2> HIDE DEF s
  <2> QED BY <2>1
<1> HIDE DEF w
<1>3. SubSeq(w, 2, 1) = <<>>
  BY SubSeqEmpty
<1>4. 1 \in 1 .. Len(w) /\ 1 + w[1] = Len(w) + 1 + (b - 1) /\ 1 + 1 = 2
      /\ <<>> \in Seq(Byte) /\ <<>> = <<>> \o <<>>
  BY <1>1
<1>5. (b # FullCode) = (w[1] # FullCode)
  BY <1>1
<1> DEFINE r == b - 1
           q == b # FullCode
<1> HIDE DEF r
<1>6. Tracks(w, r, q, <<>>)
  BY <1>1, <1>2, <1>3, <1>4, <1>5 DEF Tracks, r
<1> QED BY <1>6 DEF w, r

\* Strings that agree have the same parts.
LEMMA SameData ==
    ASSUME NEW v \in Seq(1 .. FullCode), NEW w \in Seq(1 .. FullCode), NEW n \in 1 .. Len(w),
           Agree(v, w, n), NEW t \in 1 .. n
    PROVE  SubSeq(v, t + 1, n) = SubSeq(w, t + 1, n)
<1>1. /\ Len(v) \in Nat /\ Len(w) \in Nat /\ n \in Nat /\ t \in Nat /\ n \in t .. Len(v)
      /\ n \in t .. Len(w) /\ t \in 1 .. Len(v) /\ t \in 1 .. Len(w)
  BY DEF Agree
<1> DEFINE x == SubSeq(v, t + 1, n)
           y == SubSeq(w, t + 1, n)
<1>2. x \in Seq(Byte) /\ Len(x) = n - t /\ \A k \in 1 .. n - t : x[k] = v[t + k]
  BY <1>1, Part
<1>3. y \in Seq(Byte) /\ Len(y) = n - t /\ \A k \in 1 .. n - t : y[k] = w[t + k]
  BY <1>1, Part
<1>4. \A k \in 1 .. n - t : v[t + k] = w[t + k]
  <2> SUFFICES ASSUME NEW k \in 1 .. n - t PROVE v[t + k] = w[t + k]
    OBVIOUS
  <2>1. t + k \in 1 .. n
    BY <1>1
  <2> QED BY <2>1 DEF Agree
<1> HIDE DEF x, y
<1>5. x = y
  BY <1>2, <1>3, <1>4, SeqEqual
<1> QED BY <1>5 DEF x, y

\* A byte of data.
LEMMA TracksData ==
    ASSUME NEW w \in Seq(1 .. FullCode), NEW r \in Nat, NEW q, NEW out, Tracks(w, r, q, out),
           NEW b \in 1 .. FullCode, r > 0
    PROVE  Tracks(Append(w, b), r - 1, q, Append(out, b))
<1> DEFINE v == Append(w, b)
<1>1. PICK l \in 1 .. Len(w), x \in Seq(Byte) :
        /\ l + w[l] = Len(w) + 1 + r /\ q = (w[l] # FullCode)
        /\ out = x \o SubSeq(w, l + 1, Len(w))
        /\ Settled(w, l, x)
  BY DEF Tracks
<1>2. /\ v \in Seq(1 .. FullCode) /\ Len(v) = Len(w) + 1 /\ v[Len(w) + 1] = b
      /\ Len(w) \in Nat /\ l \in Nat /\ l \in 1 .. Len(v)
      /\ \A k \in 1 .. Len(w) : v[k] = w[k]
  OBVIOUS
<1> HIDE DEF v
<1>3. w[l] \in Nat /\ v[l] = w[l]
  <2>1. w[l] \in 1 .. FullCode
    BY ElementOfSeq
  <2> QED BY <1>2, <2>1, FullCodeAssumption
<1> DEFINE y == SubSeq(w, l + 1, Len(w))
           z == SubSeq(v, l + 1, Len(v))
           m == Len(w) - l
<1>4. /\ Len(w) \in l .. Len(w) /\ Len(v) \in l .. Len(v) /\ Len(v) - l = m + 1 /\ m \in Nat
      /\ l + (m + 1) = Len(w) + 1
  BY <1>2
<1>5. y \in Seq(Byte) /\ Len(y) = m /\ \A k \in 1 .. m : y[k] = w[l + k]
  BY <1>4, Part
<1>6. z \in Seq(Byte) /\ Len(z) = m + 1 /\ \A k \in 1 .. m + 1 : z[k] = v[l + k]
  BY <1>2, <1>4, Part
<1>7. \A k \in 1 .. m : l + k \in 1 .. Len(w)
  BY <1>2
<1>8. b \in Byte
  BY FullCodeAssumption DEF Byte
<1>11. l + w[l] = Len(w) + 1 + r
  BY <1>1
<1>12. l + v[l] = Len(v) + 1 + (r - 1)
  BY <1>2, <1>3, <1>11
<1> HIDE DEF y, z, m
<1>9. z = Append(y, b)
  <2> DEFINE a == Append(y, b)
  <2>1. a \in Seq(Byte) /\ Len(a) = m + 1 /\ a[m + 1] = b /\ \A k \in 1 .. m : a[k] = y[k]
    BY <1>5, <1>8
  <2> HIDE DEF a
  <2>2. \A k \in 1 .. m : z[k] = a[k]
    <3> SUFFICES ASSUME NEW k \in 1 .. m PROVE z[k] = a[k]
      OBVIOUS
    <3>1. k \in 1 .. m + 1 /\ l + k \in 1 .. Len(w)
      BY <1>4, <1>7
    <3>2. z[k] = v[l + k] /\ v[l + k] = w[l + k]
      BY <1>2, <1>6, <3>1
    <3>3. a[k] = w[l + k]
      BY <1>5, <2>1
    <3> QED BY <3>2, <3>3
  <2>3. z[m + 1] = a[m + 1]
    BY <1>2, <1>4, <1>6, <2>1
  <2>4. \A k \in 1 .. m + 1 : z[k] = a[k]
    BY <1>4, <2>2, <2>3
  <2> QED BY <1>6, <2>1, <2>4, SeqEqual DEF a
<1>10. x \o z = Append(x \o y, b)
  BY <1>5, <1>8, <1>9
<1>13. Settled(v, l, x)
  <2> SUFFICES ASSUME NEW u \in Seq(1 .. FullCode), Agree(u, v, l)
               PROVE  Agree(u, w, l)
    BY <1>1 DEF Settled
  <2> QED BY <1>2 DEF Agree
<1>14. /\ l \in 1 .. Len(v) /\ q = (v[l] # FullCode)
       /\ Append(out, b) = x \o SubSeq(v, l + 1, Len(v))
  BY <1>1, <1>2, <1>3, <1>10 DEF y, z
<1> DEFINE s == r - 1
<1> HIDE DEF s
<1>15. Tracks(v, s, q, Append(out, b))
  BY <1>12, <1>13, <1>14 DEF Tracks, s
<1> QED BY <1>15 DEF v, s

LEMMA Regroup ==
    ASSUME NEW x \in Seq(Byte), NEW b \in Seq(Byte), NEW d \in Seq(Byte)
    PROVE  (x \o b) \o d = x \o (b \o d)
BY ConcatAssociative

\* The code of another block, which makes the zero of the last one real.
LEMMA TracksBlock ==
    ASSUME NEW w \in Seq(1 .. FullCode), NEW q, NEW out, Tracks(w, 0, q, out),
           NEW b \in 1 .. FullCode
    PROVE  Tracks(Append(w, b), b - 1, b # FullCode, IF q THEN Append(out, 0) ELSE out)
<1> DEFINE v == Append(w, b)
           owed == IF q THEN <<0>> ELSE <<>>
           n == Len(w) + 1
<1>1. PICK l \in 1 .. Len(w), x \in Seq(Byte) :
        /\ l + w[l] = Len(w) + 1 + 0 /\ q = (w[l] # FullCode)
        /\ out = x \o SubSeq(w, l + 1, Len(w))
        /\ Settled(w, l, x)
  BY DEF Tracks
<1>2. /\ v \in Seq(1 .. FullCode) /\ Len(v) = n /\ v[n] = b
      /\ Len(w) \in Nat /\ l \in Nat /\ n \in 1 .. Len(v) /\ Len(w) \in l .. Len(w) /\ n - 1 = Len(w)
      /\ \A k \in 1 .. Len(w) : v[k] = w[k]
  OBVIOUS
<1> HIDE DEF v
<1>3. w[l] \in Nat /\ l + w[l] = n /\ owed \in Seq(Byte)
  <2>1. w[l] \in 1 .. FullCode
    BY ElementOfSeq
  <2>2. l + w[l] = Len(w) + 1 + 0
    BY <1>1
  <2>3. owed \in Seq(Byte)
    BY Codes
  <2> QED BY <1>2, <2>1, <2>2, <2>3, FullCodeAssumption
<1> DEFINE y == SubSeq(w, l + 1, Len(w))
           o == IF q THEN Append(out, 0) ELSE out
<1>4. y \in Seq(Byte) /\ out = x \o y
  BY <1>1, <1>2, Part
<1> HIDE DEF y
<1>5. o = x \o y \o owed /\ o \in Seq(Byte)
  <2>1. 0 \in Byte
    BY Codes
  <2> QED BY <1>4, <2>1
<1>6. ASSUME NEW u \in Seq(1 .. FullCode), Agree(u, v, n)
      PROVE  /\ Meanings(u)[1].stop = Meanings(u)[n].stop
             /\ Meanings(u)[1].bytes = o \o Meanings(u)[n].bytes
  <2>1. Agree(u, w, Len(w)) /\ Agree(u, w, l) /\ Len(u) >= n /\ Len(u) \in Nat
    BY <1>2, <1>6 DEF Agree
  <2>2. /\ Meanings(u)[1].stop = Meanings(u)[l].stop
        /\ Meanings(u)[1].bytes = x \o Meanings(u)[l].bytes
    BY <1>1, <2>1 DEF Settled
  <2>3. u[l] = w[l] /\ l \in 1 .. Len(u) /\ l + u[l] = n /\ l + u[l] <= Len(u) + 1
        /\ n # Len(u) + 1 /\ n \in 1 .. Len(u) + 1
    BY <1>2, <1>3, <2>1 DEF Agree
  <2>4. Meanings(u)[l] = [stop |-> Meanings(u)[n].stop,
                          bytes |-> SubSeq(u, l + 1, n - 1) \o Owed(u, l) \o Meanings(u)[n].bytes]
    <3>1. Meanings(u)[l] = [stop |-> Meanings(u)[l + u[l]].stop,
                            bytes |-> SubSeq(u, l + 1, (l + u[l]) - 1) \o Owed(u, l)
                                        \o Meanings(u)[l + u[l]].bytes]
      BY <2>3, MeaningStep
    <3> HIDE DEF n
    <3> QED BY <2>3, <3>1
  <2>5. Owed(u, l) = owed
    BY <1>1, <2>3 DEF Owed
  <2>6. SubSeq(u, l + 1, n - 1) = y
    <3>1. Len(w) \in 1 .. Len(w) /\ l \in 1 .. Len(w)
      BY <1>2
    <3>2. SubSeq(u, l + 1, Len(w)) = SubSeq(w, l + 1, Len(w))
      BY <2>1, <3>1, SameData
    <3> QED BY <1>2, <3>2 DEF y
  <2> DEFINE z == Meanings(u)[n].bytes
             m == Meanings(u)[l]
  <2>7. z \in Seq(Byte)
    BY <2>3, MeaningsBytes
  <2>8. m.stop = Meanings(u)[n].stop /\ m.bytes = y \o owed \o z
    <3> DEFINE p == Meanings(u)[n].stop
    <3>1. m = [stop |-> p, bytes |-> y \o owed \o z]
      BY <2>4, <2>5, <2>6, Zenon
    <3> HIDE DEF m, z, p, owed, n, o
    <3>2. m.stop = p /\ m.bytes = y \o owed \o z
      BY <3>1
    <3> QED BY <3>2 DEF p
  <2> HIDE DEF z, m, o, owed
  <2>9. x \o (y \o owed \o z) = (x \o y \o owed) \o z
    <3>1. /\ y \o owed \in Seq(Byte) /\ x \o (y \o owed) = (x \o y) \o owed
          /\ x \o ((y \o owed) \o z) = (x \o (y \o owed)) \o z
      <4> DEFINE yo == y \o owed
      <4>1. yo \in Seq(Byte)
        BY <1>3, <1>4
      <4>2. x \o (y \o owed) = (x \o y) \o owed
        BY <1>3, <1>4, Regroup
      <4> HIDE DEF yo
      <4>3. x \o (yo \o z) = (x \o yo) \o z
        BY <2>7, <4>1, Regroup
      <4> QED BY <4>1, <4>2, <4>3 DEF yo
    <3> QED BY <3>1
  <2> QED BY <1>5, <2>2, <2>8, <2>9 DEF z, m
<1>7. Settled(v, n, o)
  BY <1>6 DEF Settled
<1>8. SubSeq(v, n + 1, Len(v)) = <<>>
  BY <1>2, SubSeqEmpty
<1> DEFINE r == b - 1
           p == b # FullCode
<1>9. n + v[n] = Len(v) + 1 + r /\ p = (v[n] # FullCode)
  BY <1>2
<1> HIDE DEF o, r, n
<1>11. o = o \o <<>>
  BY <1>5
<1>10. Tracks(v, r, p, o)
  BY <1>2, <1>5, <1>7, <1>8, <1>9, <1>11 DEF Tracks
<1> QED BY <1>10 DEF v, r, o
===============================================================================
