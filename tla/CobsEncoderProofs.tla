-------------------------- MODULE CobsEncoderProofs --------------------------
(***************************************************************************)
(* The in-place encoder never overwrites a raw byte it has not read, never *)
(* leaves its storage, and returns the canonical encoding, which decodes   *)
(* to the raw bytes: for every FullCode, payload, size and offset.         *)
(*                                                                         *)
(* The argument is the one of COBS_ENGINE.md, 8.4, made inductive: the     *)
(* writing leads the reading by one slot and by one byte for every block   *)
(* closed as full, and each of those blocks has consumed FullData raw      *)
(* bytes of its own.  A block closed by a zero gives back what it took.    *)
(* What lies before the open block, followed by the encoding of the raw    *)
(* bytes from where that block begins, is at every turn the encoding of    *)
(* the whole: a turn that closes a block moves it from the one to the      *)
(* other.                                                                  *)
(***************************************************************************)
EXTENDS CobsEncoder, CobsFormatProofs

\* The raw bytes consumed so far pay for `full` full blocks, for the data of
\* the open block and, when a zero has just closed a block, for that zero.
Pays(full) ==
    /\ w = i + 1 + full
    /\ full * FullData + (code - 1) <= i
    /\ code = 1 /\ ~last_block_was_ff /\ i > 0 => full * FullData + 1 <= i

CallOK == raw \in Seq(Byte) /\ size \in Nat /\ offset \in Nat

LoopOK ==
    /\ Fits
    /\ code_pos = w - code
    /\ \E full \in Nat : Pays(full)

IInv ==
    /\ CallOK
    /\ TypeOK
    /\ pc = "start" => i = 0 /\ code = 1 /\ code_pos = 0
    /\ UnreadIntact
    /\ pc = "loop" => LoopOK

-----------------------------------------------------------------------------
\* While something is unread, the full blocks closed are fewer than the
\* headroom allows: the overlap invariant.
LEMMA LeadBelowHeadroom ==
    ASSUME CallOK, TypeOK, i < N, NEW full \in Nat, Pays(full)
    PROVE  full + 1 < raw_offset(N) /\ w <= i + raw_offset(N) - 1
<1>1. N \in Nat /\ i \in Nat /\ code \in Nat /\ code >= 1
  BY Codes DEF CallOK, TypeOK, N
<1>2. CeilDiv(N, FullData) \in Nat /\ N <= CeilDiv(N, FullData) * FullData
  BY <1>1, Codes, CeilDivBound
<1>3. full * FullData < CeilDiv(N, FullData) * FullData
  <2>1. full * FullData \in Nat /\ CeilDiv(N, FullData) * FullData \in Nat
    BY <1>2, Codes
  <2> HIDE DEF CeilDiv
  <2> QED BY <1>1, <1>2, <2>1 DEF Pays
<1>4. full < CeilDiv(N, FullData)
  BY <1>2, <1>3, Codes, Cancel
<1>5. raw_offset(N) = CeilDiv(N, FullData) + 1
  BY <1>1, Headroom
<1> QED BY <1>1, <1>2, <1>4, <1>5 DEF Pays

\* At the end of the raw bytes the delimiter still has a slot.
LEMMA EndBelowWireSize ==
    ASSUME CallOK, TypeOK, i = N, code_pos = w - code,
           NEW full \in Nat, Pays(full)
    PROVE  End \in Nat /\ End < max_wire_size(N)
<1>1. N \in Nat /\ i \in Nat /\ code \in Nat /\ code >= 1 /\ w \in Nat /\ code_pos \in Nat
  BY Codes DEF CallOK, TypeOK, N
<1>2. max_wire_size(N) = raw_offset(N) + N /\ raw_offset(N) >= 2
      /\ raw_offset(N) \in Nat
  BY <1>1, Headroom
<1>3. CASE N = 0
  <2>1. full * FullData <= 0
    BY <1>1, <1>3, Codes DEF Pays
  <2>2. full = 0
    BY <2>1, Codes
  <2> QED BY <1>1, <1>2, <1>3, <2>2 DEF Pays, End
<1>4. CASE N > 0
  <2>1. CeilDiv(N, FullData) \in Nat /\ N <= CeilDiv(N, FullData) * FullData
    BY <1>1, Codes, CeilDivBound
  <2>2. raw_offset(N) = CeilDiv(N, FullData) + 1
    BY <1>1, <1>4, Headroom
  <2>3. full * FullData \in Nat /\ CeilDiv(N, FullData) * FullData \in Nat
    BY <2>1, Codes
  <2> HIDE DEF CeilDiv
  <2>4. CASE Redundant
    <3>1. full * FullData <= CeilDiv(N, FullData) * FullData
      BY <1>1, <2>1, <2>3 DEF Pays
    <3>2. full * FullData < (CeilDiv(N, FullData) + 1) * FullData
      BY <3>1, <2>1, <2>3, Codes
    <3>3. full < CeilDiv(N, FullData) + 1
      BY <3>2, <2>1, Codes, Cancel
    <3> QED BY <1>1, <1>2, <2>1, <2>2, <2>4, <3>3 DEF Pays, End, Redundant
  <2>5. CASE ~Redundant
    <3>1. full * FullData < N
      <4>1. CASE code = 1
        BY <1>1, <1>4, <2>3, <2>5, <4>1 DEF Pays, Redundant
      <4>2. CASE code # 1
        BY <1>1, <1>4, <2>3, <4>2 DEF Pays
      <4> QED BY <4>1, <4>2
    <3>2. full * FullData < CeilDiv(N, FullData) * FullData
      BY <1>1, <2>1, <2>3, <3>1
    <3>3. full < CeilDiv(N, FullData)
      BY <3>2, <2>1, Codes, Cancel
    <3> QED BY <1>1, <1>2, <2>1, <2>2, <2>5, <3>3 DEF Pays, End
  <2> QED BY <2>4, <2>5
<1> QED BY <1>1, <1>3, <1>4

-----------------------------------------------------------------------------
LEMMA InitIInv == Init => IInv
<1> SUFFICES ASSUME Init
             PROVE  IInv
  OBVIOUS
<1>1. CallOK
  BY PayloadAssumption DEF Init, CallOK
<1>2. N \in Nat /\ i = 0 /\ w = 0 /\ pc = "start"
  BY <1>1 DEF Init, CallOK, N
<1>3. storage \in [0 .. size - 1 -> Byte]
  <2>1. ASSUME NEW k \in offset .. offset + N - 1
        PROVE  raw[k - offset + 1] \in Byte
    BY <1>1, <1>2, <2>1 DEF CallOK, N
  <2> QED BY <2>1, PayloadAssumption DEF Init
<1>4. TypeOK
  <2>1. i \in 0 .. N /\ w \in Nat
    BY <1>2
  <2>2. code \in 1 .. FullData /\ code_pos \in Nat
    BY Codes DEF Init
  <2>3. last_block_was_ff \in BOOLEAN
    BY DEF Init
  <2> QED BY <1>2, <1>3, <2>1, <2>2, <2>3 DEF TypeOK
<1>5. UnreadIntact
  <2> SUFFICES ASSUME Fits, NEW k \in 0 .. N - 1
               PROVE  storage[offset + k] = raw[k + 1]
    BY <1>2 DEF UnreadIntact
  <2>1. offset + k \in 0 .. size - 1 /\ offset + k \in offset .. offset + N - 1
    BY <1>1, <1>2 DEF Fits, CallOK
  <2>2. (offset + k) - offset + 1 = k + 1
    BY <1>1 DEF CallOK
  <2> QED BY <2>1, <2>2 DEF Init
<1> QED BY <1>1, <1>2, <1>4, <1>5 DEF IInv, Init

\* What a turn of the loop starts from: the next write and the slot of the
\* open block lie below the next unread byte, which lies in the storage.
LEMMA TurnStart ==
    ASSUME IInv, Reading
    PROVE  /\ CallOK /\ TypeOK /\ N \in Nat /\ i \in Nat /\ i < N
           /\ code \in Nat /\ code >= 1 /\ code <= FullData /\ w \in Nat
           /\ code_pos \in Nat /\ code_pos = w - code /\ code_pos < w
           /\ w < offset + i /\ offset + i < size
           /\ Fits
           /\ \A k \in i .. N - 1 : storage[offset + k] = raw[k + 1]
<1>1. CallOK /\ TypeOK /\ LoopOK /\ pc = "loop" /\ i < N
  BY DEF IInv, Reading
<1>2. N \in Nat /\ i \in Nat /\ code \in Nat /\ code >= 1 /\ code <= FullData /\ w \in Nat
      /\ code_pos \in Nat
  BY <1>1, Codes DEF CallOK, TypeOK, N
<1>3. PICK full \in Nat : Pays(full)
  BY <1>1 DEF LoopOK
<1>4. w <= i + raw_offset(N) - 1 /\ raw_offset(N) \in Nat
  BY <1>1, <1>2, <1>3, LeadBelowHeadroom, Headroom
<1>5. w < offset + i /\ offset + i < size
  BY <1>1, <1>2, <1>4 DEF LoopOK, Fits, CallOK
<1>6. \A k \in i .. N - 1 : storage[offset + k] = raw[k + 1]
  BY <1>1 DEF IInv, UnreadIntact, LoopOK
<1> QED BY <1>1, <1>2, <1>5, <1>6 DEF LoopOK

LEMMA NextIInv == IInv /\ [Next]_vars => IInv'
<1> SUFFICES ASSUME IInv, [Next]_vars
             PROVE  IInv'
  OBVIOUS
<1>t. CallOK /\ TypeOK
  BY DEF IInv
<1>1. CASE Refuse
  BY <1>1 DEF Refuse, IInv, CallOK, TypeOK, UnreadIntact, call, N
<1>2. CASE Start
  <2>1. CallOK' /\ TypeOK'
    BY <1>2, <1>t DEF Start, CallOK, TypeOK, call, N
  <2>2. UnreadIntact'
    BY <1>2 DEF Start, IInv, UnreadIntact, Fits, call, N
  <2>3. i' = 0 /\ w' = 1 /\ code' = 1 /\ code_pos' = 0 /\ pc' = "loop" /\ Fits'
    BY <1>2 DEF Start, IInv, Fits, call, N
  <2>4. Pays(0)'
    BY <2>3, Codes DEF Pays
  <2> QED BY <2>1, <2>2, <2>3, <2>4 DEF IInv, LoopOK
<1>3. CASE Copy
  <2>1. Reading
    BY <1>3 DEF Copy
  <2> DEFINE b == storage[offset + i]
  <2>2. b \in Byte /\ w \in 0 .. size - 1 /\ offset + i \in 0 .. size - 1
    BY <1>t, <2>1, TurnStart DEF TypeOK, CallOK
  <2>3. /\ i' = i + 1 /\ w' = w + 1 /\ code' = code + 1 /\ code_pos' = code_pos
        /\ last_block_was_ff' = last_block_was_ff /\ pc' = "loop"
        /\ storage' = [storage EXCEPT ![w] = b]
        /\ raw' = raw /\ size' = size /\ offset' = offset /\ N' = N
    BY <1>3, <2>1 DEF Copy, Reading, call, N
  <2>4. code + 1 <= FullData
    BY <1>3, <2>1, TurnStart, Codes DEF Copy, Fills
  <2>5. CallOK' /\ TypeOK'
    BY <1>t, <2>1, <2>2, <2>3, <2>4, TurnStart, Codes DEF CallOK, TypeOK
  <2>6. UnreadIntact'
    <3> SUFFICES ASSUME NEW k \in i + 1 .. N - 1
                 PROVE  storage'[offset + k] = raw[k + 1]
      BY <2>3 DEF UnreadIntact
    <3> QED BY <1>t, <2>1, <2>2, <2>3, TurnStart DEF CallOK, TypeOK
  <2>7. PICK full \in Nat : Pays(full)
    BY <2>1 DEF Reading, IInv, LoopOK
  <2>8. Pays(full)'
    <3>1. full * FullData \in Nat
      BY Codes
    <3> QED BY <2>1, <2>3, <2>7, <3>1, TurnStart DEF Pays
  <2>9. Fits' /\ code_pos' = w' - code'
    BY <2>1, <2>3, TurnStart DEF Fits
  <2> QED BY <2>3, <2>5, <2>6, <2>8, <2>9 DEF IInv, LoopOK
<1>4. CASE CloseFull
  <2>1. Reading
    BY <1>4 DEF CloseFull
  <2> DEFINE b == storage[offset + i]
  <2>2. /\ b \in Byte /\ w \in 0 .. size - 1 /\ offset + i \in 0 .. size - 1
        /\ code_pos \in 0 .. size - 1
    BY <1>t, <2>1, TurnStart DEF TypeOK, CallOK
  <2>f. code = FullData /\ code + 1 = FullCode
    BY <1>4, <2>1, TurnStart, Codes DEF CloseFull, Fills
  <2>3. /\ i' = i + 1 /\ w' = w + 2 /\ code' = 1 /\ code_pos' = w + 1
        /\ last_block_was_ff' = TRUE /\ pc' = "loop"
        /\ storage' = [storage EXCEPT ![w] = b, ![code_pos] = code + 1]
        /\ raw' = raw /\ size' = size /\ offset' = offset /\ N' = N
    BY <1>4, <2>1, <2>f DEF CloseFull, Reading, call, N
  <2>4. code + 1 \in Byte
    BY <2>f, Codes DEF Byte
  <2>5. CallOK' /\ TypeOK'
    BY <1>t, <2>1, <2>2, <2>3, <2>4, TurnStart, Codes DEF CallOK, TypeOK
  <2>6. UnreadIntact'
    <3> SUFFICES ASSUME NEW k \in i + 1 .. N - 1
                 PROVE  storage'[offset + k] = raw[k + 1]
      BY <2>3 DEF UnreadIntact
    <3>1. /\ offset + k # w /\ offset + k # code_pos /\ offset + k \in 0 .. size - 1
          /\ k \in i .. N - 1
      BY <1>t, <2>1, TurnStart DEF Fits, CallOK, TypeOK
    <3>2. storage'[offset + k] = storage[offset + k]
      BY <1>t, <2>3, <3>1 DEF TypeOK
    <3> QED BY <2>1, <3>1, <3>2, TurnStart
  <2>7. PICK full \in Nat : Pays(full)
    BY <2>1 DEF Reading, IInv, LoopOK
  <2>8. Pays(full + 1)'
    <3>1. full * FullData \in Nat /\ (full + 1) * FullData = full * FullData + FullData
      BY Codes
    <3> QED BY <2>1, <2>3, <2>7, <2>f, <3>1, TurnStart, Codes DEF Pays
  <2>9. Fits' /\ code_pos' = w' - code'
    BY <2>1, <2>3, TurnStart DEF Fits
  <2> QED BY <2>3, <2>5, <2>6, <2>8, <2>9 DEF IInv, LoopOK
<1>5. CASE CloseZero
  <2>1. Reading
    BY <1>5 DEF CloseZero
  <2>2. w \in 0 .. size - 1 /\ offset + i \in 0 .. size - 1 /\ code_pos \in 0 .. size - 1
    BY <1>t, <2>1, TurnStart DEF TypeOK, CallOK
  <2>f. code # FullCode
    BY <2>1, TurnStart, Codes
  <2>3. /\ i' = i + 1 /\ w' = w + 1 /\ code' = 1 /\ code_pos' = w
        /\ last_block_was_ff' = FALSE /\ pc' = "loop"
        /\ storage' = [storage EXCEPT ![code_pos] = code]
        /\ raw' = raw /\ size' = size /\ offset' = offset /\ N' = N
    BY <1>5, <2>1, <2>f DEF CloseZero, Reading, call, N
  <2>4. code \in Byte
    BY <2>1, TurnStart, Codes DEF Byte
  <2>5. CallOK' /\ TypeOK'
    <3>1. storage' \in [0 .. size' - 1 -> Byte]
      BY <1>t, <2>2, <2>3, <2>4 DEF TypeOK
    <3>2. i' \in 0 .. N' /\ w' \in Nat /\ code_pos' \in Nat /\ code' \in 1 .. FullData
      BY <2>1, <2>3, TurnStart, Codes
    <3> QED BY <1>t, <2>3, <3>1, <3>2 DEF CallOK, TypeOK
  <2>6. UnreadIntact'
    <3> SUFFICES ASSUME NEW k \in i + 1 .. N - 1
                 PROVE  storage'[offset + k] = raw[k + 1]
      BY <2>3 DEF UnreadIntact
    <3> QED BY <1>t, <2>1, <2>2, <2>3, TurnStart DEF CallOK, TypeOK
  <2>7. PICK full \in Nat : Pays(full)
    BY <2>1 DEF Reading, IInv, LoopOK
  <2>8. Pays(full)'
    <3>1. full * FullData \in Nat
      BY Codes
    <3> QED BY <2>1, <2>3, <2>7, <3>1, TurnStart DEF Pays
  <2>9. Fits' /\ code_pos' = w' - code'
    BY <2>1, <2>3, TurnStart DEF Fits
  <2> QED BY <2>3, <2>5, <2>6, <2>8, <2>9 DEF IInv, LoopOK
<1>6. CASE Finish
  <2>1. /\ i' = i /\ code' = code /\ code_pos' = code_pos /\ w' = End + 1
        /\ last_block_was_ff' = last_block_was_ff /\ pc' = "done"
        /\ raw' = raw /\ size' = size /\ offset' = offset /\ N' = N
    BY <1>6 DEF Finish, call, N
  <2>2. code \in Byte /\ End \in Nat
    BY <1>t, Codes DEF TypeOK, Byte, End
  <2>3. storage' \in [0 .. size - 1 -> Byte]
    BY <1>6, <1>t, <2>2, Codes DEF Finish, TypeOK
  <2>4. CallOK' /\ TypeOK' /\ UnreadIntact'
    BY <1>t, <2>1, <2>2, <2>3 DEF CallOK, TypeOK, UnreadIntact
  <2> QED BY <2>1, <2>4 DEF IInv
<1>7. CASE UNCHANGED vars
  BY <1>7 DEF vars, call, IInv, CallOK, TypeOK, UnreadIntact, LoopOK, Pays, Fits, N
<1> QED BY <1>1, <1>2, <1>3, <1>4, <1>5, <1>6, <1>7 DEF Next

LEMMA Inductive == Spec => []IInv
<1>1. Init => IInv
  BY InitIInv
<1>2. IInv /\ [Next]_vars => IInv'
  BY NextIInv
<1> QED BY <1>1, <1>2, PTL DEF Spec

\* No index that the code uses next leaves the storage.
LEMMA BoundsHold == IInv => InBounds
<1> SUFFICES ASSUME IInv
             PROVE  InBounds
  OBVIOUS
<1>1. ASSUME Reading
      PROVE  code_pos < size /\ w < size /\ offset + i < size
  BY <1>1, TurnStart DEF CallOK
<1>2. ASSUME pc = "loop", i = N
      PROVE  code_pos < size /\ End < size
  <2>1. CallOK /\ TypeOK /\ LoopOK
    BY <1>2 DEF IInv
  <2>2. PICK full \in Nat : Pays(full)
    BY <2>1 DEF LoopOK
  <2>3. End \in Nat /\ End < max_wire_size(N) /\ max_wire_size(N) <= size
        /\ code_pos = w - code
    BY <1>2, <2>1, <2>2, EndBelowWireSize DEF LoopOK, Fits
  <2>4. max_wire_size(N) \in Nat
    BY <2>1, Headroom DEF CallOK, N
  <2>5. code_pos <= End
    BY <2>1, <2>3, Codes DEF TypeOK, End
  <2> QED BY <2>1, <2>3, <2>4, <2>5 DEF CallOK, TypeOK
<1> QED BY <1>1, <1>2 DEF InBounds

-----------------------------------------------------------------------------
\* The locals keep their ranges; in particular the uint8_t `code` never wraps.
THEOREM EncoderTypeCorrect == Spec => []TypeOK
<1>1. IInv => TypeOK
  BY DEF IInv
<1> QED BY Inductive, <1>1, PTL

\* The overlap invariant that Codec.h and PROTOCOL 10.1 state.
THEOREM EncoderOverlap == Spec => []Overlap
<1>1. IInv => Overlap
  <2> SUFFICES ASSUME IInv, Reading
               PROVE  w <= i + raw_offset(N) - 1
    BY DEF Overlap
  <2>1. PICK full \in Nat : Pays(full)
    BY DEF Reading, IInv, LoopOK
  <2> QED BY <2>1, LeadBelowHeadroom DEF IInv, Reading
<1> QED BY Inductive, <1>1, PTL

\* The encoder never overwrites a raw byte before it has read it.
THEOREM EncoderUnreadIntact == Spec => []UnreadIntact
<1>1. IInv => UnreadIntact
  BY DEF IInv
<1> QED BY Inductive, <1>1, PTL

\* The encoder touches nothing outside the storage the caller gave it.
THEOREM EncoderInBounds == Spec => []InBounds
BY Inductive, BoundsHold, PTL

\* Encoding in place is safe at every placement that the guard lets through.
THEOREM EncoderInPlaceIsSafe == Spec => []InPlaceIsSafe
<1>1. UnreadIntact /\ InBounds => InPlaceIsSafe
  BY DEF InPlaceIsSafe
<1> QED BY <1>1, EncoderUnreadIntact, EncoderInBounds, PTL

-----------------------------------------------------------------------------
(* What has been written is the encoding so far.                           *)

\* Sequences that agree on their lengths and at every place.
Prefix(f, n) == [k \in 1 .. n |-> f[k - 1]]

\* Where the open block begins in raw, counted from 1.
Open == i - code + 2

\* What is still to be written from the open block on.
Rest == IF Redundant /\ i = N THEN <<>> ELSE Chains(raw)[Open]

\* What lies before the open block is the encoding so far, and the data of the
\* open block, which holds no zero, lies behind its slot.
WrittenOK ==
    /\ code <= i + 1
    /\ Encoded(raw) = Prefix(storage, code_pos) \o Rest
    /\ \A k \in 1 .. code - 1 :
          /\ storage[code_pos + k] = raw[Open + k - 1]
          /\ raw[Open + k - 1] # 0

EncInv ==
    /\ pc = "start" => ~last_block_was_ff
    /\ pc = "loop" => WrittenOK
    /\ Canonical

LEMMA PrefixSeq ==
    ASSUME NEW S, NEW f, NEW n \in Nat, \A k \in 0 .. n - 1 : f[k] \in S
    PROVE  /\ Prefix(f, n) \in Seq(S) /\ Len(Prefix(f, n)) = n
           /\ \A k \in 1 .. n : Prefix(f, n)[k] = f[k - 1]
<1>1. \A k \in 1 .. n : k - 1 \in 0 .. n - 1
  OBVIOUS
<1>2. Prefix(f, n) \in [1 .. n -> S]
  BY <1>1 DEF Prefix
<1>3. Prefix(f, n) \in Seq(S) /\ Len(Prefix(f, n)) = n
  BY <1>2, SeqDef DEF Prefix
<1> QED BY <1>3 DEF Prefix

\* A prefix that keeps its first n places and gets b behind them.
LEMMA PrefixGrows ==
    ASSUME NEW f, NEW g, NEW n \in Nat, NEW b \in Seq(Byte),
           \A k \in 0 .. n - 1 : f[k] \in Byte,
           \A k \in 0 .. n - 1 : g[k] = f[k],
           \A k \in 1 .. Len(b) : g[n + k - 1] = b[k]
    PROVE  Prefix(g, n + Len(b)) = Prefix(f, n) \o b
<1> DEFINE x == Prefix(f, n)
           y == Prefix(g, n + Len(b))
           z == x \o b
<1>1. Len(b) \in Nat /\ n + Len(b) \in Nat /\ \A k \in 1 .. Len(b) : b[k] \in Byte
  OBVIOUS
<1>2. \A k \in 0 .. n + Len(b) - 1 : g[k] \in Byte
  <2> SUFFICES ASSUME NEW k \in 0 .. n + Len(b) - 1, k >= n PROVE g[k] \in Byte
    BY <1>1
  <2>1. k - n + 1 \in 1 .. Len(b) /\ n + (k - n + 1) - 1 = k
    BY <1>1
  <2> QED BY <1>1, <2>1
<1>3. x \in Seq(Byte) /\ Len(x) = n /\ \A k \in 1 .. n : x[k] = f[k - 1]
  BY PrefixSeq
<1> DEFINE l == n + Len(b)
<1>l. l \in Nat /\ \A k \in 0 .. l - 1 : g[k] \in Byte
  BY <1>1, <1>2
<1>4. y \in Seq(Byte) /\ Len(y) = l /\ \A k \in 1 .. l : y[k] = g[k - 1]
  <2> HIDE DEF l
  <2> QED BY <1>l, PrefixSeq DEF l
<1> HIDE DEF x, y
<1>5. /\ z \in Seq(Byte) /\ Len(z) = n + Len(b)
      /\ \A k \in 1 .. n + Len(b) : z[k] = IF k <= n THEN x[k] ELSE b[k - n]
  BY <1>3, ConcatProperties
<1> HIDE DEF z
<1>6. ASSUME NEW k \in 1 .. l PROVE y[k] = z[k]
  <2>1. CASE k <= n
    <3>1. k \in 1 .. n /\ k - 1 \in 0 .. n - 1
      BY <1>1, <2>1
    <3> QED BY <1>3, <1>4, <1>5, <2>1, <3>1
  <2>2. CASE ~(k <= n)
    <3>1. k - n \in 1 .. Len(b) /\ n + (k - n) - 1 = k - 1
      BY <1>1, <2>2
    <3> QED BY <1>4, <1>5, <2>2, <3>1
  <2> QED BY <2>1, <2>2
<1>7. y = z
  BY <1>4, <1>5, <1>6, SeqEqual
<1> QED BY <1>7 DEF x, y, z

\* The end of a block is the only place of its kind.
LEMMA BlockEndIs ==
    ASSUME NEW r \in Seq(Byte), NEW p \in 1 .. Len(r) + 1, NEW q \in p .. Len(r) + 1,
           q = Len(r) + 1 \/ r[q] = 0 \/ q = p + FullData,
           q <= p + FullData, \A k \in p .. q - 1 : r[k] # 0
    PROVE  BlockEnd(r, p) = q
<1> DEFINE e == BlockEnd(r, p)
<1>1. /\ e \in p .. Len(r) + 1 /\ e <= p + FullData
      /\ e = Len(r) + 1 \/ r[e] = 0 \/ e = p + FullData
      /\ \A k \in p .. e - 1 : r[k] # 0
  BY BlockEnds
<1> HIDE DEF e
<1>2. Len(r) \in Nat /\ p \in Nat /\ FullData \in Nat
  BY Codes
<1>3. ~(e < q)
  <2> SUFFICES ASSUME e < q PROVE FALSE
    OBVIOUS
  <2>1. e \in p .. q - 1 /\ e # Len(r) + 1 /\ e # p + FullData
    BY <1>1, <1>2
  <2> QED BY <1>1, <2>1
<1>4. ~(q < e)
  <2> SUFFICES ASSUME q < e PROVE FALSE
    OBVIOUS
  <2>1. q \in p .. e - 1 /\ q # Len(r) + 1 /\ q # p + FullData
    BY <1>1, <1>2
  <2> QED BY <1>1, <2>1
<1>5. e = q
  BY <1>1, <1>2, <1>3, <1>4
<1> QED BY <1>5 DEF e

\* The block that has been written when the slot at `at` holds its code and its
\* data lies behind it.
LEMMA BlockWritten ==
    ASSUME NEW r \in Seq(Byte), NEW p \in 1 .. Len(r) + 1,
           NEW f, NEW g, NEW at \in Nat,
           \A k \in 0 .. at - 1 : f[k] \in Byte,
           \A k \in 0 .. at - 1 : g[k] = f[k],
           g[at] = BlockEnd(r, p) - p + 1,
           \A k \in 1 .. BlockEnd(r, p) - p : g[at + k] = r[p + k - 1]
    PROVE  Prefix(g, at + (BlockEnd(r, p) - p + 1)) = Prefix(f, at) \o Block(r, p)
<1> DEFINE b == Block(r, p)
           q == BlockEnd(r, p)
<1>1. q \in p .. Len(r) + 1 /\ p \in Nat /\ Len(r) \in Nat
  BY BlockEnds
<1>2. /\ b \in Seq(1 .. FullCode) /\ Len(b) = q - p + 1 /\ b[1] = q - p + 1
      /\ \A k \in 1 .. q - p : b[k + 1] = r[p + k - 1]
  BY BlockFacts
<1>3. b \in Seq(Byte)
  <2>1. 1 .. FullCode \subseteq Byte
    BY FullCodeAssumption DEF Byte
  <2> QED BY <1>2, <2>1, SeqMonotonic
<1> HIDE DEF b, q
<1>4. \A k \in 1 .. Len(b) : g[at + k - 1] = b[k]
  <2> SUFFICES ASSUME NEW k \in 1 .. Len(b) PROVE g[at + k - 1] = b[k]
    OBVIOUS
  <2>1. CASE k = 1
    <3>1. at + k - 1 = at
      BY <2>1
    <3> QED BY <1>2, <2>1, <3>1 DEF q
  <2>2. CASE k # 1
    <3>1. k - 1 \in 1 .. q - p /\ (k - 1) + 1 = k /\ at + k - 1 = at + (k - 1)
      BY <1>1, <1>2, <2>2
    <3> QED BY <1>2, <3>1 DEF q
  <2> QED BY <2>1, <2>2
<1>5. Prefix(g, at + Len(b)) = Prefix(f, at) \o b
  BY <1>3, <1>4, PrefixGrows
<1> QED BY <1>2, <1>5 DEF b, q

\* A prefix does not see what lies behind it.
LEMMA PrefixSame ==
    ASSUME NEW f, NEW g, NEW n \in Nat, \A k \in 0 .. n - 1 : g[k] = f[k]
    PROVE  Prefix(g, n) = Prefix(f, n)
<1>1. \A k \in 1 .. n : k - 1 \in 0 .. n - 1
  OBVIOUS
<1> QED BY <1>1 DEF Prefix

\* What the loop knows of its open block.
LEMMA OpenBlock ==
    ASSUME IInv, pc = "loop", WrittenOK
    PROVE  /\ raw \in Seq(Byte) /\ N = Len(raw) /\ N \in Nat /\ i \in 0 .. N
           /\ code \in 1 .. FullData /\ Open \in 1 .. N + 1
           /\ w \in Nat /\ code_pos \in Nat /\ code_pos = w - code
           /\ code_pos < size /\ size \in Nat
           /\ \A k \in 0 .. code_pos - 1 : storage[k] \in Byte
           /\ \A k \in Open .. i : raw[k] # 0
<1>1. CallOK /\ TypeOK /\ LoopOK /\ InBounds
  BY BoundsHold DEF IInv
<1>2. /\ raw \in Seq(Byte) /\ N = Len(raw) /\ N \in Nat /\ i \in 0 .. N
      /\ code \in 1 .. FullData /\ FullData \in Nat /\ w \in Nat /\ code_pos \in Nat
      /\ size \in Nat
  BY <1>1, Codes DEF CallOK, TypeOK, N
<1>3. Open \in 1 .. N + 1
  BY <1>2 DEF WrittenOK, Open
<1>4. code_pos < size
  <2>1. i = N \/ Reading
    BY <1>2 DEF Reading
  <2> QED BY <1>1, <2>1 DEF InBounds
<1>5. \A k \in 0 .. code_pos - 1 : storage[k] \in Byte
  <2>1. \A k \in 0 .. code_pos - 1 : k \in 0 .. size - 1
    BY <1>2, <1>4
  <2> QED BY <1>1, <2>1 DEF TypeOK
<1>6. ASSUME NEW k \in Open .. i
      PROVE  raw[k] # 0
  <2>1. k - Open + 1 \in 1 .. code - 1 /\ Open + (k - Open + 1) - 1 = k
    BY <1>2, <1>3 DEF Open
  <2> QED BY <2>1 DEF WrittenOK
<1> QED BY <1>1, <1>2, <1>3, <1>4, <1>5, <1>6 DEF LoopOK

\* The turn writes the code of the open block, whose data lies behind its slot.
ClosesBlock ==
    LET q == BlockEnd(raw, Open)
    IN  /\ code_pos' = code_pos + (q - Open + 1)
        /\ \A k \in 0 .. code_pos - 1 : storage'[k] = storage[k]
        /\ storage'[code_pos] = q - Open + 1
        /\ \A k \in 1 .. q - Open : storage'[code_pos + k] = raw[Open + k - 1]

\* A turn that closes a block: the block has been written, and the encoding goes on
\* where the next one opens.
LEMMA ClosedBy ==
    ASSUME raw \in Seq(Byte), Open \in 1 .. Len(raw) + 1, code_pos \in Nat,
           \A k \in 0 .. code_pos - 1 : storage[k] \in Byte, ClosesBlock,
           Encoded(raw) = Prefix(storage, code_pos) \o Chains(raw)[Open]
    PROVE  /\ BlockEnd(raw, Open) = Len(raw) + 1 => Encoded(raw) = Prefix(storage', code_pos')
           /\ BlockEnd(raw, Open) # Len(raw) + 1
                => Encoded(raw) = Prefix(storage', code_pos') \o Chains(raw)[NextBlock(raw, Open)]
<1> DEFINE p == Open
           g == storage'
           at == code_pos
           to == code_pos'
<1>0. /\ p \in 1 .. Len(raw) + 1 /\ at \in Nat
      /\ to = at + (BlockEnd(raw, p) - p + 1)
      /\ g[at] = BlockEnd(raw, p) - p + 1
      /\ \A k \in 0 .. at - 1 : storage[k] \in Byte
      /\ \A k \in 0 .. at - 1 : g[k] = storage[k]
      /\ \A k \in 1 .. BlockEnd(raw, p) - p : g[at + k] = raw[p + k - 1]
      /\ Encoded(raw) = Prefix(storage, at) \o Chains(raw)[p]
  BY DEF ClosesBlock
<1> HIDE DEF p, g, at, to
<1> DEFINE x == Prefix(storage, at)
           b == Block(raw, p)
           d == Chains(raw)[NextBlock(raw, p)]
<1>1. Prefix(g, to) = x \o b
  BY <1>0, BlockWritten
<1>2. Len(raw) \in Nat
  OBVIOUS
<1>3. Chains(raw)[p] = IF BlockEnd(raw, p) = Len(raw) + 1 THEN b ELSE b \o d
  BY <1>0, <1>2, ChainsUnfold
<1>4. CASE BlockEnd(raw, p) = Len(raw) + 1
  BY <1>0, <1>1, <1>3, <1>4 DEF p, g, to
<1>5. CASE BlockEnd(raw, p) # Len(raw) + 1
  <2>1. 1 .. FullCode \subseteq Byte
    BY FullCodeAssumption DEF Byte
  <2>2. x \in Seq(Byte)
    BY <1>0, PrefixSeq
  <2>3. b \in Seq(Byte)
    BY <1>0, <2>1, BlockFacts, SeqMonotonic
  <2>4. d \in Seq(Byte)
    <3> DEFINE n == NextBlock(raw, p)
    <3>1. n \in p + 1 .. Len(raw) + 1
      BY <1>0, <1>2, <1>5, NextBlockLater
    <3>2. n \in 1 .. Len(raw) + 1
      BY <1>0, <1>2, <3>1
    <3> HIDE DEF n
    <3>3. Chains(raw)[n] \in Seq(1 .. FullCode)
      BY <3>2, ChainFacts
    <3> QED BY <2>1, <3>3, SeqMonotonic DEF n
  <2> HIDE DEF x, b, d
  <2>5. (x \o b) \o d = x \o (b \o d)
    BY <2>2, <2>3, <2>4, Regroup
  <2>6. Encoded(raw) = (x \o b) \o d
    BY <1>0, <1>3, <1>5, <2>5 DEF x
  <2> QED BY <1>1, <1>5, <2>6 DEF d, p, g, to
<1> QED BY <1>4, <1>5

LEMMA InitEncInv == Init => EncInv
BY DEF Init, EncInv, Canonical

LEMMA StartWrites == ASSUME IInv, EncInv, Start PROVE EncInv'
<1>1. /\ i' = 0 /\ code' = 1 /\ code_pos' = 0 /\ raw' = raw /\ pc' = "loop" /\ raw \in Seq(Byte)
      /\ ~last_block_was_ff' /\ storage' = storage
  BY DEF Start, IInv, EncInv, CallOK, call
<1>2. Open' = 1 /\ ~Redundant'
  BY <1>1 DEF Open, Redundant
<1>3. Rest' = Encoded(raw)
  BY <1>1, <1>2 DEF Rest, Encoded
<1>4. Prefix(storage, 0) = <<>>
  BY DEF Prefix
<1>5. <<>> \o Encoded(raw) = Encoded(raw)
  BY <1>1, EncodedFacts, ConcatEmptySeq
<1>6. WrittenOK'
  <2>1. code' <= i' + 1 /\ \A k \in 1 .. code' - 1 : FALSE
    BY <1>1
  <2>2. Encoded(raw') = Prefix(storage', code_pos') \o Rest'
    BY <1>1, <1>3, <1>4, <1>5
  <2> QED BY <2>1, <2>2 DEF WrittenOK
<1> QED BY <1>1, <1>6 DEF EncInv, Canonical

\* What a turn of the loop reads, and where it writes.
LEMMA TurnIndexes ==
    ASSUME IInv, Reading
    PROVE  /\ i \in Nat /\ code \in Nat /\ code >= 1 /\ code <= FullData /\ w \in Nat
           /\ code_pos \in Nat /\ code_pos = w - code
           /\ w \in DOMAIN storage /\ code_pos \in DOMAIN storage
           /\ \A k \in 0 .. w : k \in DOMAIN storage
           /\ storage[offset + i] = raw[i + 1]
<1>1. /\ CallOK /\ TypeOK /\ N \in Nat /\ i \in Nat /\ i < N
      /\ code \in Nat /\ code >= 1 /\ code <= FullData /\ w \in Nat
      /\ code_pos \in Nat /\ code_pos = w - code /\ code_pos < w
      /\ w < offset + i /\ offset + i < size
  BY TurnStart
<1>2. \A k \in i .. N - 1 : storage[offset + k] = raw[k + 1]
  BY TurnStart
<1>3. i \in i .. N - 1
  BY <1>1
<1>4. /\ w \in DOMAIN storage /\ code_pos \in DOMAIN storage
      /\ \A k \in 0 .. w : k \in DOMAIN storage
  BY <1>1 DEF TypeOK, CallOK
<1> QED BY <1>1, <1>2, <1>3, <1>4

LEMMA CopyWrites == ASSUME IInv, EncInv, Copy PROVE EncInv'
<1> DEFINE y == storage[offset + i]
<1>1. Reading /\ pc = "loop" /\ WrittenOK /\ i < N
  BY DEF Copy, Reading, EncInv
<1>2. /\ i' = i + 1 /\ w' = w + 1 /\ code' = code + 1 /\ code_pos' = code_pos /\ pc' = "loop"
      /\ storage' = [storage EXCEPT ![w] = y] /\ raw' = raw /\ y # 0
  BY <1>1 DEF Copy, Reading, call
<1>3. /\ i \in Nat /\ code \in Nat /\ code >= 1 /\ w \in Nat /\ code_pos \in Nat
      /\ code_pos = w - code /\ w \in DOMAIN storage /\ y = raw[i + 1]
  BY <1>1, TurnIndexes
<1>4. Open' = Open /\ Open + code - 1 = i + 1 /\ Open \in Nat
  <2>1. code <= i + 1
    BY <1>1 DEF WrittenOK
  <2> QED BY <1>2, <1>3, <2>1 DEF Open
<1>5. Prefix(storage', code_pos) = Prefix(storage, code_pos)
  <2>1. \A k \in 0 .. code_pos - 1 : storage'[k] = storage[k]
    BY <1>2, <1>3
  <2> QED BY <1>3, <2>1, PrefixSame
<1>6. Rest' = Rest
  <2>1. ~Redundant' /\ i # N
    BY <1>1, <1>2, <1>3 DEF Redundant
  <2> QED BY <1>2, <1>4, <2>1 DEF Rest
<1>7. ASSUME NEW k \in 1 .. code
      PROVE  storage'[code_pos + k] = raw[Open + k - 1] /\ raw[Open + k - 1] # 0
  <2>1. CASE k = code
    <3>1. code_pos + k = w /\ Open + k - 1 = i + 1
      BY <1>3, <1>4, <2>1
    <3> QED BY <1>2, <1>3, <3>1
  <2>2. CASE k # code
    <3>1. k \in 1 .. code - 1 /\ code_pos + k # w
      BY <1>3, <2>2
    <3>2. storage'[code_pos + k] = storage[code_pos + k]
      BY <1>2, <3>1
    <3> QED BY <1>1, <3>1, <3>2 DEF WrittenOK
  <2> QED BY <2>1, <2>2
<1>8. WrittenOK'
  <2>1. code' <= i' + 1 /\ code' - 1 = code
    BY <1>1, <1>2, <1>3 DEF WrittenOK
  <2>2. Encoded(raw') = Prefix(storage', code_pos') \o Rest'
    BY <1>1, <1>2, <1>5, <1>6 DEF WrittenOK
  <2> QED BY <1>2, <1>4, <1>7, <2>1, <2>2 DEF WrittenOK
<1> QED BY <1>2, <1>8 DEF EncInv, Canonical

LEMMA CloseFullWrites == ASSUME IInv, EncInv, CloseFull PROVE EncInv'
<1> DEFINE y == storage[offset + i]
<1>1. Reading /\ pc = "loop" /\ WrittenOK /\ i < N
  BY DEF CloseFull, Reading, EncInv
<1>2. /\ i' = i + 1 /\ w' = w + 2 /\ code' = 1 /\ code_pos' = w + 1 /\ pc' = "loop"
      /\ storage' = [storage EXCEPT ![w] = y, ![code_pos] = code + 1]
      /\ raw' = raw /\ y # 0 /\ code + 1 = FullCode /\ last_block_was_ff' /\ N' = N
  BY <1>1 DEF CloseFull, Reading, Fills, call, N
<1>3. /\ i \in Nat /\ code \in Nat /\ code = FullData /\ w \in Nat /\ code_pos \in Nat
      /\ code_pos = w - code /\ w \in DOMAIN storage /\ code_pos \in DOMAIN storage
      /\ y = raw[i + 1] /\ code_pos # w /\ code >= 1
      /\ \A k \in 0 .. w : k \in DOMAIN storage
  BY <1>1, <1>2, TurnIndexes, Codes
<1>4. /\ raw \in Seq(Byte) /\ N = Len(raw) /\ N \in Nat /\ Open \in 1 .. Len(raw) + 1
      /\ \A k \in 0 .. code_pos - 1 : storage[k] \in Byte
      /\ \A k \in Open .. i : raw[k] # 0
  BY <1>1, OpenBlock
<1>5. Open + FullData = i + 2 /\ Open <= i + 1 /\ i + 2 <= N + 1
  BY <1>1, <1>3, <1>4, Codes DEF Open
<1>6. BlockEnd(raw, Open) = i + 2
  <2>1. i + 2 \in Open .. Len(raw) + 1 /\ i + 2 <= Open + FullData
    BY <1>3, <1>4, <1>5
  <2>2. \A k \in Open .. (i + 2) - 1 : raw[k] # 0
    BY <1>2, <1>3, <1>4
  <2> QED BY <1>4, <1>5, <2>1, <2>2, BlockEndIs
<1>7. BlockEnd(raw, Open) - Open + 1 = FullCode /\ BlockEnd(raw, Open) - Open = FullData
  BY <1>3, <1>4, <1>5, <1>6, Codes
<1>8. /\ \A k \in 0 .. w : k # w /\ k # code_pos => storage'[k] = storage[k]
      /\ storage'[code_pos] = FullCode /\ storage'[w] = y
  <2> DEFINE x == y
             z == code + 1
  <2>1. storage' = [storage EXCEPT ![w] = x, ![code_pos] = z] /\ z = FullCode
    BY <1>2
  <2> HIDE DEF x, z
  <2>2. /\ \A k \in 0 .. w : k # w /\ k # code_pos => storage'[k] = storage[k]
        /\ storage'[code_pos] = z /\ storage'[w] = x
    BY <1>3, <2>1
  <2> QED BY <2>1, <2>2 DEF x
<1>9. \A k \in 0 .. code_pos - 1 : storage'[k] = storage[k]
  BY <1>3, <1>8
<1>10. ASSUME NEW k \in 1 .. FullData
       PROVE  storage'[code_pos + k] = raw[Open + k - 1]
  <2>1. CASE k = code
    <3>1. code_pos + k = w /\ Open + k - 1 = i + 1
      BY <1>3, <1>4, <1>5, <2>1
    <3> QED BY <1>3, <1>8, <3>1
  <2>2. CASE k # code
    <3>1. /\ k \in 1 .. code - 1 /\ code_pos + k # w /\ code_pos + k # code_pos
          /\ code_pos + k \in 0 .. w
      BY <1>3, <2>2
    <3>2. storage'[code_pos + k] = storage[code_pos + k]
      BY <1>8, <3>1
    <3> QED BY <1>1, <3>1, <3>2 DEF WrittenOK
  <2> QED BY <2>1, <2>2
<1>11. code_pos' = code_pos + (BlockEnd(raw, Open) - Open + 1)
  BY <1>2, <1>3, <1>7, Codes
<1>12. Encoded(raw) = Prefix(storage, code_pos) \o Chains(raw)[Open]
  BY <1>1, <1>4 DEF WrittenOK, Rest
<1>13. /\ BlockEnd(raw, Open) = Len(raw) + 1 => Encoded(raw) = Prefix(storage', code_pos')
       /\ BlockEnd(raw, Open) # Len(raw) + 1
            => Encoded(raw) = Prefix(storage', code_pos') \o Chains(raw)[NextBlock(raw, Open)]
  BY <1>3, <1>4, <1>7, <1>8, <1>9, <1>10, <1>11, <1>12, ClosedBy DEF ClosesBlock
<1>14. Encoded(raw) = Prefix(storage', code_pos') \o Rest'
  <2>1. Redundant' /\ Open' = i + 2
    BY <1>2, <1>3 DEF Redundant, Open
  <2>2. CASE i + 1 = N
    <3>1. Rest' = <<>>
      BY <1>2, <2>1, <2>2 DEF Rest
    <3>2. Encoded(raw) = Prefix(storage', code_pos')
      BY <1>3, <1>4, <1>6, <1>13, <2>2
    <3>3. Encoded(raw) \o <<>> = Encoded(raw)
      BY <1>4, EncodedFacts, ConcatEmptySeq
    <3> QED BY <3>1, <3>2, <3>3
  <2>3. CASE i + 1 # N
    <3>1. Rest' = Chains(raw)[i + 2]
      BY <1>2, <2>1, <2>3 DEF Rest
    <3>2. NextBlock(raw, Open) = i + 2
      BY <1>6, <1>7 DEF NextBlock
    <3>3. BlockEnd(raw, Open) # Len(raw) + 1
      BY <1>3, <1>4, <1>6, <2>3
    <3> QED BY <1>13, <3>1, <3>2, <3>3
  <2> QED BY <2>2, <2>3
<1>15. WrittenOK'
  <2>1. code' <= i' + 1 /\ \A k \in 1 .. code' - 1 : FALSE
    BY <1>2, <1>3
  <2> QED BY <1>2, <1>14, <2>1 DEF WrittenOK
<1> QED BY <1>2, <1>15 DEF EncInv, Canonical

LEMMA CloseZeroWrites == ASSUME IInv, EncInv, CloseZero PROVE EncInv'
<1>1. Reading /\ pc = "loop" /\ WrittenOK /\ i < N /\ storage[offset + i] = 0
  BY DEF CloseZero, Reading, EncInv
<1>3. /\ i \in Nat /\ code \in Nat /\ code <= FullData /\ w \in Nat /\ code_pos \in Nat
      /\ code_pos = w - code /\ code >= 1
      /\ \A k \in 0 .. w : k \in DOMAIN storage
      /\ raw[i + 1] = 0
  BY <1>1, TurnIndexes
<1>2. /\ i' = i + 1 /\ w' = w + 1 /\ code' = 1 /\ code_pos' = w /\ pc' = "loop"
      /\ storage' = [storage EXCEPT ![code_pos] = code]
      /\ raw' = raw /\ ~last_block_was_ff' /\ N' = N
  <2>1. code # FullCode
    BY <1>3, Codes
  <2> QED BY <1>1, <2>1 DEF CloseZero, Reading, call, N
<1>4. /\ raw \in Seq(Byte) /\ N = Len(raw) /\ N \in Nat /\ Open \in 1 .. Len(raw) + 1
      /\ \A k \in 0 .. code_pos - 1 : storage[k] \in Byte
      /\ \A k \in Open .. i : raw[k] # 0
  BY <1>1, OpenBlock
<1>5. Open + code = i + 2 /\ Open <= i + 1 /\ i + 1 <= N
  BY <1>1, <1>3, <1>4 DEF Open
<1>6. BlockEnd(raw, Open) = i + 1
  <2>1. i + 1 \in Open .. Len(raw) + 1 /\ i + 1 <= Open + FullData
    BY <1>3, <1>4, <1>5, Codes
  <2>2. \A k \in Open .. (i + 1) - 1 : raw[k] # 0
    BY <1>3, <1>4
  <2> QED BY <1>3, <1>4, <2>1, <2>2, BlockEndIs
<1>7. BlockEnd(raw, Open) - Open + 1 = code /\ BlockEnd(raw, Open) - Open = code - 1
  BY <1>3, <1>4, <1>5, <1>6
<1>8. /\ \A k \in 0 .. w : k # code_pos => storage'[k] = storage[k]
      /\ storage'[code_pos] = code
  BY <1>2, <1>3
<1>9. ClosesBlock
  <2>1. code_pos' = code_pos + code
    BY <1>2, <1>3
  <2>2. \A k \in 0 .. code_pos - 1 : storage'[k] = storage[k]
    BY <1>3, <1>8
  <2>3. ASSUME NEW k \in 1 .. code - 1
        PROVE  storage'[code_pos + k] = raw[Open + k - 1]
    <3>1. code_pos + k \in 0 .. w /\ code_pos + k # code_pos
      BY <1>3
    <3>2. storage'[code_pos + k] = storage[code_pos + k]
      BY <1>8, <3>1
    <3> QED BY <1>1, <3>2 DEF WrittenOK
  <2> QED BY <1>7, <1>8, <2>1, <2>2, <2>3 DEF ClosesBlock
<1>10. Encoded(raw) = Prefix(storage, code_pos) \o Chains(raw)[Open]
  BY <1>1, <1>4 DEF WrittenOK, Rest
<1>11. BlockEnd(raw, Open) # Len(raw) + 1
  BY <1>3, <1>4, <1>5, <1>6
<1>12. Encoded(raw) = Prefix(storage', code_pos') \o Chains(raw)[NextBlock(raw, Open)]
  BY <1>3, <1>4, <1>9, <1>10, <1>11, ClosedBy
<1>13. NextBlock(raw, Open) = i + 2
  <2>1. BlockEnd(raw, Open) - Open # FullData /\ BlockEnd(raw, Open) + 1 = i + 2
    BY <1>3, <1>6, <1>7, Codes
  <2> QED BY <2>1 DEF NextBlock
<1>14. Rest' = Chains(raw)[i + 2]
  <2>1. ~Redundant' /\ Open' = i + 2
    BY <1>2, <1>3 DEF Redundant, Open
  <2> QED BY <1>2, <2>1 DEF Rest
<1>15. WrittenOK'
  <2>1. code' <= i' + 1 /\ \A k \in 1 .. code' - 1 : FALSE
    BY <1>2, <1>3
  <2> QED BY <1>2, <1>12, <1>13, <1>14, <2>1 DEF WrittenOK
<1> QED BY <1>2, <1>15 DEF EncInv, Canonical

\* One more byte behind a prefix.
LEMMA PrefixAppend ==
    ASSUME NEW g, NEW n \in Nat, \A k \in 0 .. n - 1 : g[k] \in Byte, g[n] \in Byte
    PROVE  Prefix(g, n + 1) = Append(Prefix(g, n), g[n])
<1> DEFINE b == <<g[n]>>
<1>1. b \in Seq(Byte) /\ Len(b) = 1 /\ b[1] = g[n]
  OBVIOUS
<1>2. \A k \in 1 .. Len(b) : g[n + k - 1] = b[k]
  <2>1. n + 1 - 1 = n
    OBVIOUS
  <2> QED BY <1>1, <2>1
<1> HIDE DEF b
<1>3. Prefix(g, n + Len(b)) = Prefix(g, n) \o b
  BY <1>1, <1>2, PrefixGrows
<1>4. Append(Prefix(g, n), g[n]) = Prefix(g, n) \o <<g[n]>>
  BY PrefixSeq, AppendIsConcat
<1> QED BY <1>1, <1>3, <1>4 DEF b

\* The loop ends with the encoding, its delimiter behind it.
LEMMA FinishWrites == ASSUME IInv, EncInv, Finish PROVE EncInv'
<1>1. pc = "loop" /\ i = N /\ WrittenOK
  BY DEF Finish, EncInv
<1>2. /\ pc' = "done" /\ w' = End + 1 /\ raw' = raw /\ N' = N
      /\ storage' = [(IF Redundant THEN storage ELSE [storage EXCEPT ![code_pos] = code])
                     EXCEPT ![End] = 0]
  BY DEF Finish, call, N
<1>3. /\ raw \in Seq(Byte) /\ N = Len(raw) /\ N \in Nat /\ i \in Nat
      /\ code \in Nat /\ code >= 1 /\ code <= FullData /\ Open \in 1 .. Len(raw) + 1
      /\ w \in Nat /\ code_pos \in Nat /\ code_pos = w - code
      /\ \A k \in 0 .. code_pos - 1 : storage[k] \in Byte
      /\ \A k \in Open .. i : raw[k] # 0
  BY <1>1, OpenBlock, Codes
<1>4. /\ End \in 0 .. size - 1 /\ size \in Nat /\ storage \in [0 .. size - 1 -> Byte]
      /\ End \in Nat /\ code \in Byte /\ 0 \in Byte
  <2>1. TypeOK /\ CallOK /\ End < size
    BY <1>1, BoundsHold DEF IInv, InBounds
  <2> QED BY <1>3, <2>1, Codes DEF TypeOK, CallOK, End, Byte
<1>5. End < max_wire_size(N) /\ max_wire_size(N) \in Nat
  <2>1. CallOK /\ TypeOK /\ LoopOK
    BY <1>1 DEF IInv
  <2>2. PICK full \in Nat : Pays(full)
    BY <2>1 DEF LoopOK
  <2> QED BY <1>1, <1>3, <2>1, <2>2, EndBelowWireSize, Headroom
<1>6. storage'[End] = 0 /\ \A k \in 0 .. End - 1 : storage'[k] \in Byte
  <2>1. ASSUME NEW s \in [0 .. size - 1 -> Byte], storage' = [s EXCEPT ![End] = 0]
        PROVE  storage'[End] = 0 /\ \A k \in 0 .. End - 1 : storage'[k] \in Byte
    BY <1>4, <2>1
  <2>2. CASE Redundant
    BY <1>2, <1>4, <2>1, <2>2
  <2>3. CASE ~Redundant
    <3>1. [storage EXCEPT ![code_pos] = code] \in [0 .. size - 1 -> Byte]
      BY <1>4
    <3> QED BY <1>2, <2>1, <2>3, <3>1
  <2> QED BY <2>2, <2>3
<1>7. Prefix(storage', End) = Encoded(raw)
  <2>1. CASE Redundant
    <3>1. End = code_pos /\ Rest = <<>>
      BY <1>1, <2>1 DEF End, Rest
    <3>2. \A k \in 0 .. code_pos - 1 : storage'[k] = storage[k]
      BY <1>2, <1>3, <1>4, <2>1, <3>1
    <3>3. Prefix(storage', code_pos) = Prefix(storage, code_pos)
      BY <1>3, <3>2, PrefixSame
    <3>4. Prefix(storage, code_pos) \o <<>> = Prefix(storage, code_pos)
      <4>1. Prefix(storage, code_pos) \in Seq(Byte)
        BY <1>3, PrefixSeq
      <4> QED BY <4>1, ConcatEmptySeq
    <3> QED BY <1>1, <3>1, <3>3, <3>4 DEF WrittenOK
  <2>2. CASE ~Redundant
    <3>1. End = w /\ Rest = Chains(raw)[Open] /\ w = code_pos + code
      BY <1>3, <2>2 DEF End, Rest
    <3>2. BlockEnd(raw, Open) = N + 1
      <4>1. N + 1 \in Open .. Len(raw) + 1 /\ N + 1 <= Open + FullData
        BY <1>1, <1>3, Codes DEF Open
      <4>2. \A k \in Open .. (N + 1) - 1 : raw[k] # 0
        BY <1>1, <1>3
      <4> QED BY <1>3, <4>1, <4>2, BlockEndIs
    <3>3. BlockEnd(raw, Open) - Open + 1 = code /\ BlockEnd(raw, Open) - Open = code - 1
      BY <1>1, <1>3, <3>2 DEF Open
    <3>4. /\ \A k \in 0 .. w - 1 : k # code_pos => storage'[k] = storage[k]
          /\ storage'[code_pos] = code
      <4>1. storage' = [storage EXCEPT ![code_pos] = code, ![w] = 0]
        BY <1>2, <2>2, <3>1
      <4>2. w \in DOMAIN storage /\ code_pos \in DOMAIN storage /\ code_pos # w
            /\ \A k \in 0 .. w - 1 : k \in DOMAIN storage /\ k # w
        BY <1>3, <1>4, <3>1
      <4> QED BY <4>1, <4>2
    <3>5. Block(raw, Open) = Chains(raw)[Open]
      BY <1>3, <3>2, ChainsUnfold
    <3>6. Prefix(storage', code_pos + code) = Prefix(storage, code_pos) \o Block(raw, Open)
      <4> DEFINE g == storage'
                 p == Open
                 at == code_pos
                 to == code_pos + code
      <4>1. ASSUME NEW k \in 1 .. code - 1
            PROVE  g[code_pos + k] = raw[p + k - 1]
        <5>1. code_pos + k \in 0 .. w - 1 /\ code_pos + k # code_pos
          BY <1>3, <3>1
        <5> QED BY <1>1, <3>4, <5>1 DEF WrittenOK
      <4>2. /\ p \in 1 .. Len(raw) + 1 /\ at \in Nat /\ raw \in Seq(Byte)
            /\ to = at + (BlockEnd(raw, p) - p + 1)
            /\ g[at] = BlockEnd(raw, p) - p + 1
            /\ \A k \in 0 .. at - 1 : storage[k] \in Byte
            /\ \A k \in 1 .. BlockEnd(raw, p) - p : g[at + k] = raw[p + k - 1]
        BY <1>3, <3>1, <3>3, <3>4, <4>1
      <4>a. \A k \in 0 .. at - 1 : g[k] = storage[k]
        <5>1. \A k \in 0 .. code_pos - 1 : k \in 0 .. w - 1 /\ k # code_pos
          BY <1>3, <3>1
        <5> QED BY <3>4, <5>1
      <4> HIDE DEF g, p, at, to
      <4> DEFINE x == Prefix(storage, at)
                 b == Block(raw, p)
      <4>3. Prefix(g, to) = x \o b
        BY <4>2, <4>a, BlockWritten
      <4> QED BY <4>3 DEF g, p, at, to
    <3> QED BY <1>1, <3>1, <3>5, <3>6 DEF WrittenOK
  <2> QED BY <2>1, <2>2
<1>8. Wire' = Append(Encoded(raw), 0)
  <2>1. Prefix(storage', End + 1) = Append(Prefix(storage', End), storage'[End])
    <3> DEFINE g == storage'
    <3>1. g[End] \in Byte /\ \A k \in 0 .. End - 1 : g[k] \in Byte
      BY <1>4, <1>6
    <3> HIDE DEF g
    <3>2. Prefix(g, End + 1) = Append(Prefix(g, End), g[End])
      BY <1>4, <3>1, PrefixAppend
    <3> QED BY <3>2 DEF g
  <2>2. Wire' = Prefix(storage', w')
    BY DEF Wire, Prefix
  <2> QED BY <1>2, <1>6, <1>7, <2>1, <2>2
<1>9. w' <= max_wire_size(N)
  BY <1>2, <1>4, <1>5
<1> QED BY <1>2, <1>8, <1>9 DEF EncInv, Canonical

LEMMA NextEncInv == IInv /\ EncInv /\ [Next]_vars => EncInv'
<1> SUFFICES ASSUME IInv, EncInv, [Next]_vars
             PROVE  EncInv'
  OBVIOUS
<1>1. CASE Refuse
  BY <1>1 DEF Refuse, EncInv, Canonical
<1>2. CASE Start
  BY <1>2, StartWrites
<1>3. CASE Copy
  BY <1>3, CopyWrites
<1>4. CASE CloseFull
  BY <1>4, CloseFullWrites
<1>5. CASE CloseZero
  BY <1>5, CloseZeroWrites
<1>6. CASE Finish
  BY <1>6, FinishWrites
<1>7. CASE UNCHANGED vars
  BY <1>7 DEF vars, call, EncInv, Canonical, WrittenOK, Rest, Redundant, Open, Wire, N
<1> QED BY <1>1, <1>2, <1>3, <1>4, <1>5, <1>6, <1>7 DEF Next

LEMMA EncInvHolds == Spec => []EncInv
<1>1. Init => EncInv
  BY InitEncInv
<1>2. IInv /\ EncInv /\ [Next]_vars => EncInv'
  BY NextEncInv
<1> QED BY <1>1, <1>2, Inductive, PTL DEF Spec

\* What the encoder returns is the canonical encoding and its delimiter, in no
\* more than the size the caller was promised: for every FullCode and payload.
THEOREM EncoderCanonical == Spec => []Canonical
<1>1. EncInv => Canonical
  BY DEF EncInv
<1> QED BY EncInvHolds, <1>1, PTL

\* What the encoder returns is one frame for a decoder, and decodes to the bytes
\* the caller placed there.
THEOREM EncoderRoundTrip == Spec => []RoundTrip
<1>1. IInv /\ Canonical => RoundTrip
  <2> SUFFICES ASSUME IInv, Canonical, pc = "done"
               PROVE  LET body == SubSeq(Wire, 1, w - 1)
                      IN  /\ Wire[w] = 0 /\ \A k \in 1 .. w - 1 : Wire[k] # 0
                          /\ WellFormed(body) /\ Decoded(body) = raw
    BY DEF RoundTrip
  <2> DEFINE e == Encoded(raw)
             body == SubSeq(Wire, 1, w - 1)
  <2>1. raw \in Seq(Byte) /\ w \in Nat
    BY DEF IInv, CallOK, TypeOK
  <2>2. e \in Seq(Byte) /\ Len(e) \in Nat
    BY <2>1, EncodedFacts
  <2>3. Wire = Append(e, 0) /\ Len(Wire) = w
    BY <2>1 DEF Canonical, Wire
  <2>4. WellFormed(e) /\ Decoded(e) = raw /\ \A k \in 1 .. Len(e) : e[k] # 0
    BY <2>1, EncodingRoundTrips
  <2> HIDE DEF e
  <2>5. /\ Append(e, 0) \in Seq(Byte) /\ Len(Append(e, 0)) = Len(e) + 1
        /\ \A k \in 1 .. Len(e) : Append(e, 0)[k] = e[k]
        /\ Append(e, 0)[Len(e) + 1] = 0
    BY <2>2, Codes, AppendProperties
  <2>6. w - 1 = Len(e)
    BY <2>1, <2>2, <2>3, <2>5
  <2>7. body = e
    <3> DEFINE s == Append(e, 0)
               l == w
               x == SubSeq(s, 1, l - 1)
    <3>1. l \in Nat /\ 1 <= l /\ l - 1 = Len(e) /\ \A k \in 1 .. l - 1 : s[k] \in Byte
      BY <2>1, <2>2, <2>5, <2>6
    <3>2. \A k \in 1 .. Len(e) : s[k] = e[k]
      BY <2>5
    <3> HIDE DEF s, l
    <3>3. x \in Seq(Byte) /\ Len(x) = Len(e) /\ \A k \in 1 .. Len(e) : x[k] = s[1 + k - 1]
      BY <3>1, Slice
    <3> HIDE DEF x
    <3>4. \A k \in 1 .. Len(e) : x[k] = e[k]
      <4> TAKE k \in 1 .. Len(e)
      <4>1. 1 + k - 1 = k
        BY <2>2
      <4> QED BY <3>2, <3>3, <4>1
    <3>5. x = e
      BY <2>2, <3>3, <3>4, SeqEqual
    <3> QED BY <2>3, <3>5 DEF x, s, l
  <2> QED BY <2>3, <2>4, <2>5, <2>6, <2>7
<1> QED BY Inductive, EncoderCanonical, <1>1, PTL
=============================================================================
