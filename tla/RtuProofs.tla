------------------------------ MODULE RtuProofs ------------------------------
(***************************************************************************)
(* The RTU endpoint, both halves, for every format, framing policy and     *)
(* checksum.                                                               *)
(*                                                                         *)
(* Sending (RtuSender): what goes out is exact, what is written stays      *)
(* inside the block, and every block is accounted for.  The inductive      *)
(* invariant says of the message what finalize relies on: its data begins  *)
(* with the bytes the library reserved, ends with what the application     *)
(* appended and leaves room for the trailer; a finalized one has its       *)
(* layout checked and its checksum on.                                     *)
(*                                                                         *)
(* Receiving (RtuLine): the adapter's deadline against the line, the       *)
(* driver's fifo and the wake.  The inductive invariant dates everything   *)
(* by quiet, the silence of the line: a short chunk ends in silence, so a  *)
(* deadline granted idle_stale_ms at it is as far off as silence is short  *)
(* of that, up to what the pass took itself; a full chunk says nothing of  *)
(* the line, so its deadline is one the next chunk must beat.              *)
(*                                                                         *)
(* Reading (RtuStream under RtuLine): what the receiver made of a frame    *)
(* in several calls is what the reference reads in its bytes at once. The  *)
(* recursion of the reference is unfolded first, the verdict on a frame    *)
(* is given for each place in it, and the loop of on_rx is followed byte   *)
(* by byte: FlightInv says what the receiver holds of the bytes of the     *)
(* frame in flight, and who owns its blocks.                               *)
(*                                                                         *)
(* Giving up (RtuLine): DeadInv dates the deadline, the chunks that wait   *)
(* and the silence against each other, so that a frame no byte follows is  *)
(* gone in time.                                                           *)
(***************************************************************************)
EXTENDS RtuSender, RtuLineProps, FiniteSetTheorems, WellFoundedInduction,
        SequenceTheorems, TLAPS

ChecksumFits == \A w \in Seq(Byte) : Checksum(w) \in Seq(Byte) /\ Len(Checksum(w)) = Format.crc_size

MessageRecord ==
    [state : {"Empty", "Building", "Finalized"}, granted : Nat, address : Byte,
     function : Byte, data : Seq(Byte), wire : Seq(Byte)]

\* The data of a message: the reserved bytes, then what was appended.
Carries(m, appended) ==
    LET own == reserved(tx_layout(m.function))
    IN  own <= Len(m.data) /\ SubSeq(m.data, own + 1, Len(m.data)) = appended

Fits(m) ==
    /\ Len(m.data) <= Format.max_data_size
    /\ adu_size_for_data(Format, Len(m.data)) <= m.granted

Covered(m) == <<m.address, m.function>> \o m.data

Sealed(m) ==
    /\ m.wire = Covered(m) \o Checksum(Covered(m))
    /\ supported(tx_layout(m.function)) => matches(tx_layout(m.function), m.data)

MessageOK(m, appended) ==
    /\ m \in MessageRecord
    /\ m.state = "Empty" <=> m.granted = 0
    /\ m.granted # 0 => Carries(m, appended) /\ Fits(m)
    /\ m.state = "Finalized" => Sealed(m)

SenderInv ==
    /\ MessageOK(message, text) /\ text \in Seq(Byte)
    /\ m_active_tx \in Nat /\ blocks \in Int /\ reading \in BOOLEAN
    /\ BlocksAccounted
    /\ FrameIsExact

-----------------------------------------------------------------------------
(***************************************************************************)
(* Sequences.                                                              *)
(***************************************************************************)
\* The two halves of a concatenation, taken back out of it.
LEMMA Halves ==
    ASSUME NEW q \in Seq(Byte), NEW t \in Seq(Byte)
    PROVE  /\ SubSeq(q \o t, 1, Len(q)) = q
           /\ SubSeq(q \o t, Len(q) + 1, Len(q) + Len(t)) = t
           /\ Len(q \o t) = Len(q) + Len(t) /\ q \o t \in Seq(Byte)
<1>1. /\ q \o t \in Seq(Byte) /\ Len(q \o t) = Len(q) + Len(t)
      /\ \A i \in 1 .. Len(q) + Len(t) :
           (q \o t)[i] = IF i <= Len(q) THEN q[i] ELSE t[i - Len(q)]
  BY ConcatProperties
<1>2. Len(q) \in Nat /\ Len(t) \in Nat
  BY LenProperties
<1>3. \A i \in 1 .. Len(q) + Len(t) : (q \o t)[i] \in Byte
  BY <1>1, <1>2, ElementOfSeq
<1>4. SubSeq(q \o t, 1, Len(q)) = q
  <2> DEFINE u == SubSeq(q \o t, 1, Len(q))
  <2>1. u \in Seq(Byte) /\ Len(u) = Len(q) /\ \A i \in 1 .. Len(q) : u[i] = (q \o t)[i]
    BY <1>2, <1>3, SubSeqProperties
  <2> QED BY <2>1, <1>1, <1>2, SeqEqual
<1>5. SubSeq(q \o t, Len(q) + 1, Len(q) + Len(t)) = t
  <2> DEFINE u == SubSeq(q \o t, Len(q) + 1, Len(q) + Len(t))
  <2>1. u \in Seq(Byte) /\ Len(u) = Len(t) /\ \A i \in 1 .. Len(t) : u[i] = (q \o t)[i + Len(q)]
    BY <1>2, <1>3, SubSeqProperties
  <2>2. \A i \in 1 .. Len(t) : u[i] = t[i]
    BY <2>1, <1>1, <1>2
  <2> QED BY <2>1, <2>2, SeqEqual
<1> QED BY <1>1, <1>4, <1>5

\* Appending extends what stands behind a prefix.
LEMMA SuffixGrows ==
    ASSUME NEW S, NEW q \in Seq(S), NEW t \in Seq(S), NEW k \in 0 .. Len(q)
    PROVE  SubSeq(q \o t, k + 1, Len(q \o t)) = SubSeq(q, k + 1, Len(q)) \o t
<1> DEFINE u == SubSeq(q \o t, k + 1, Len(q \o t))
           v == SubSeq(q, k + 1, Len(q))
<1>1. /\ q \o t \in Seq(S) /\ Len(q \o t) = Len(q) + Len(t)
      /\ \A i \in 1 .. Len(q) + Len(t) :
           (q \o t)[i] = IF i <= Len(q) THEN q[i] ELSE t[i - Len(q)]
  BY ConcatProperties
<1>2. Len(q) \in Nat /\ Len(t) \in Nat
  BY LenProperties
<1>3. \A i \in k + 1 .. Len(q) + Len(t) : (q \o t)[i] \in S
  BY <1>1, <1>2, ElementOfSeq
<1>4. /\ u \in Seq(S) /\ Len(u) = Len(q) + Len(t) - k
      /\ \A i \in 1 .. Len(q) + Len(t) - k : u[i] = (q \o t)[i + k]
  BY <1>1, <1>2, <1>3, SubSeqProperties
<1>5. \A i \in k + 1 .. Len(q) : q[i] \in S
  BY <1>2, ElementOfSeq
<1>6. v \in Seq(S) /\ Len(v) = Len(q) - k /\ \A i \in 1 .. Len(q) - k : v[i] = q[i + k]
  BY <1>2, <1>5, SubSeqProperties
<1>7. /\ v \o t \in Seq(S) /\ Len(v \o t) = Len(u)
      /\ \A i \in 1 .. Len(u) : (v \o t)[i] = IF i <= Len(v) THEN v[i] ELSE t[i - Len(v)]
  BY <1>2, <1>4, <1>6, ConcatProperties
<1> HIDE DEF u, v
<1>8. ASSUME NEW i \in 1 .. Len(u) PROVE u[i] = (v \o t)[i]
  <2>1. i \in 1 .. Len(q) + Len(t) - k /\ i + k \in 1 .. Len(q) + Len(t)
    BY <1>2, <1>4
  <2>2. u[i] = IF i + k <= Len(q) THEN q[i + k] ELSE t[(i + k) - Len(q)]
    BY <2>1, <1>1, <1>4
  <2>3. CASE i + k <= Len(q)
    <3>1. i \in 1 .. Len(q) - k /\ i <= Len(v)
      BY <2>1, <2>3, <1>2, <1>6
    <3> QED BY <3>1, <2>2, <2>3, <1>6, <1>7
  <2>4. CASE ~(i + k <= Len(q))
    <3>1. ~(i <= Len(v)) /\ (i + k) - Len(q) = i - Len(v)
      BY <2>1, <2>4, <1>2, <1>6
    <3> QED BY <3>1, <2>2, <2>4, <1>7
  <2> QED BY <2>3, <2>4
<1>9. u = v \o t
  BY <1>4, <1>7, <1>8, SeqEqual
<1> QED BY <1>9 DEF u, v

\* Sequences that agree beyond a prefix have the same rest.
LEMMA SameRest ==
    ASSUME NEW S, NEW q \in Seq(S), NEW t \in Seq(S), Len(q) = Len(t), NEW k \in Nat,
           \A j \in k + 1 .. Len(q) : q[j] = t[j]
    PROVE  SubSeq(q, k + 1, Len(q)) = SubSeq(t, k + 1, Len(t))
<1> DEFINE u == SubSeq(q, k + 1, Len(q))
           v == SubSeq(t, k + 1, Len(t))
           n == IF k + 1 <= Len(q) THEN Len(q) - k ELSE 0
<1>1. Len(q) \in Nat
  BY LenProperties
<1>2. (\A j \in k + 1 .. Len(q) : q[j] \in S) /\ (\A j \in k + 1 .. Len(t) : t[j] \in S)
  BY <1>1, ElementOfSeq
<1>3. u \in Seq(S) /\ Len(u) = n /\ \A j \in 1 .. Len(q) - k : u[j] = q[k + j]
  BY <1>1, <1>2, SubSeqProperties
<1>4. v \in Seq(S) /\ Len(v) = n /\ \A j \in 1 .. Len(q) - k : v[j] = t[k + j]
  BY <1>1, <1>2, SubSeqProperties
<1>5. ASSUME NEW j \in 1 .. Len(u) PROVE u[j] = v[j]
  <2> HIDE DEF u, v
  <2>1. j \in 1 .. Len(q) - k /\ k + j \in k + 1 .. Len(q)
    BY <1>1, <1>3
  <2>2. u[j] = q[k + j] /\ v[j] = t[k + j]
    BY <2>1, <1>3, <1>4
  <2> QED BY <2>1, <2>2
<1> HIDE DEF u, v, n
<1>6. u = v
  BY <1>3, <1>4, <1>5, SeqEqual
<1> QED BY <1>6 DEF u, v

-----------------------------------------------------------------------------
(***************************************************************************)
(* The message operators.                                                  *)
(***************************************************************************)
\* The layout of a function this endpoint sends.
LEMMA SentLayout ==
    ASSUME NEW function \in Byte
    PROVE  LET layout == tx_layout(function)
           IN  /\ layout \in FramingLayout
               /\ layout.owned => layout.kind = "Counted" /\ layout.offset = 0
               /\ layout.kind = "Counted" => layout.width \in {1, 2}
               /\ reserved(layout) \in Nat /\ header_size(layout) \in Nat
               /\ layout.owned => reserved(layout) = header_size(layout)
<1>1. LET layout == tx_layout(function)
      IN  /\ layout \in FramingLayout
          /\ layout.owned => layout.kind = "Counted" /\ layout.offset = 0
          /\ layout.kind = "Counted" => layout.width \in {1, 2}
  <2>1. opposite(Rx) \in {"Request", "Response"}
    BY PolicyAssumption DEF opposite
  <2> QED BY <2>1, PolicyAssumption DEF tx_layout
<1> QED BY <1>1 DEF FramingLayout, reserved, header_size, max_header_size

\* What make_message asks for is a size.
LEMMA HintIsSize ==
    ASSUME NEW function \in Byte, NEW hint \in Nat
    PROVE  make_hint(tx_layout(function), hint) \in Nat
<1> DEFINE layout == tx_layout(function)
<1>1. layout.size \in Nat /\ reserved(layout) \in Nat
  <2>1. layout \in FramingLayout /\ reserved(layout) \in Nat
    BY SentLayout
  <2> HIDE DEF layout
  <2>2. layout.size \in 0 .. max_fixed_size
    BY <2>1 DEF FramingLayout
  <2> QED BY <2>1, <2>2
<1>2. make_hint(layout, hint) \in {hint, layout.size, reserved(layout)}
  <2> HIDE DEF layout
  <2> QED BY DEF make_hint
<1> QED BY <1>1, <1>2

\* A block that is large enough for n bytes of data has the capacity for them,
\* and the capacity it has never goes beyond it.
LEMMA CapacityInside ==
    ASSUME NEW m \in MessageRecord
    PROVE  /\ capacity(m) \in 0 .. Format.max_data_size
           /\ \A n \in 0 .. Format.max_data_size :
                n <= capacity(m) /\ n > 0 => adu_size_for_data(Format, n) <= m.granted
           /\ \A n \in 0 .. Format.max_data_size :
                adu_size_for_data(Format, n) <= m.granted => n <= capacity(m)
<1>1. m.granted \in Nat /\ Format.crc_size \in Nat /\ Format.max_data_size \in Nat
  BY PolicyAssumption DEF MessageRecord
<1> DEFINE g == m.granted
           c == Format.crc_size
           M == Format.max_data_size
<1>2. capacity(m) = IF g >= M + (2 + c) THEN M ELSE IF g >= 2 + c THEN g - (2 + c) ELSE 0
  BY <1>1 DEF capacity, data_capacity_for_adu, max_adu_size, adu_overhead, adu_prefix_size
<1>3. \A n : adu_size_for_data(Format, n) = (2 + c) + n
  BY DEF adu_size_for_data, adu_overhead, adu_prefix_size
<1> HIDE DEF g, c, M
<1> QED BY <1>1, <1>2, <1>3 DEF g, c, M

\* Growth by half: at least what is required, at least half as much again while
\* the limit allows it, and never beyond the limit.
THEOREM GrowTargetBounds ==
    ASSUME NEW room \in 0 .. Format.max_data_size, NEW required \in 0 .. Format.max_data_size
    PROVE  /\ grow_target(room, required) \in required .. Format.max_data_size
           /\ \/ grow_target(room, required) = Format.max_data_size
              \/ grow_target(room, required) >= room + (room \div 2)
BY PolicyAssumption DEF grow_target

\* A message made anew carries nothing and has room for what it reserved.
LEMMA MadeIsOK ==
    ASSUME NEW address \in Byte, NEW function \in Byte, NEW hint \in Nat, NEW granted \in Nat
    PROVE  MessageOK(Made(address, function, hint, granted), <<>>)
<1> DEFINE layout == tx_layout(function)
           own == reserved(layout)
           n == make_hint(layout, hint)
           zeros == [k \in 1 .. own |-> 0]
           blank == [Disowned EXCEPT !.address = address, !.function = function]
           full == [blank EXCEPT !.state = "Building", !.granted = granted, !.data = zeros]
<1>1. own \in Nat /\ Format.max_data_size \in Nat /\ Format.crc_size \in Nat
  BY SentLayout, PolicyAssumption
<1>2. Disowned \in MessageRecord /\ blank \in MessageRecord
  <2>1. <<>> \in Seq(Byte) /\ 0 \in Byte /\ 0 \in Nat
    BY EmptySeq DEF Byte
  <2> QED BY <2>1 DEF Disowned, MessageRecord
<1>3. MessageOK(Disowned, <<>>) /\ MessageOK(blank, <<>>)
  BY <1>2 DEF MessageOK, Disowned
<1>4. Made(address, function, hint, granted) \in {Disowned, blank, full}
  BY DEF Made, Message
<1>5. ASSUME Made(address, function, hint, granted) = full, full # Disowned, full # blank
      PROVE  MessageOK(full, <<>>)
  <2>1. /\ n <= Format.max_data_size /\ own <= n
        /\ granted # 0 /\ granted >= adu_size_for_data(Format, n)
    <3>1. hint <= Format.max_data_size
      BY <1>1, <1>5 DEF Made
    <3>2. ~(n > Format.max_data_size \/ own > n \/ ~honours(granted, adu_size_for_data(Format, n)))
      BY <3>1, <1>5 DEF Made, Message
    <3>3. n \in Nat
      BY HintIsSize
    <3> HIDE DEF n, own
    <3> QED BY <3>2, <3>3, <1>1 DEF honours
  <2>2. zeros \in Seq(Byte) /\ Len(zeros) = own
    BY <1>1 DEF Byte
  <2>3. full \in MessageRecord /\ full.data = zeros /\ full.granted = granted
        /\ full.state = "Building" /\ full.function = function
    BY <1>2, <2>2 DEF MessageRecord
  <2>4. SubSeq(zeros, own + 1, Len(zeros)) = <<>>
    BY <1>1, <2>2, SubSeqEmpty
  <2>5. Carries(full, <<>>)
    BY <2>2, <2>3, <2>4, <1>1 DEF Carries
  <2>6. Fits(full)
    <3>1. n \in Nat
      BY HintIsSize
    <3> HIDE DEF n, own, full, zeros
    <3> QED BY <3>1, <1>1, <2>1, <2>2, <2>3
            DEF Fits, adu_size_for_data, adu_overhead, adu_prefix_size
  <2> HIDE DEF full, n, own, zeros
  <2> QED BY <2>1, <2>3, <2>5, <2>6 DEF MessageOK
<1> QED BY <1>3, <1>4, <1>5

\* A larger block changes nothing but the room.
LEMMA ReserveIsOK ==
    ASSUME NEW m, NEW t, MessageOK(m, t), NEW required \in Nat, NEW granted \in Nat
    PROVE  /\ MessageOK(reserve(m, required, granted), t)
           /\ reserve(m, required, granted).data = m.data
           /\ reserve(m, required, granted).function = m.function
           /\ reserve(m, required, granted).state = m.state
           /\ Has(reserve(m, required, granted).granted) = Has(m.granted)
<1> DEFINE target == grow_target(capacity(m), required)
           larger == [m EXCEPT !.granted = granted]
<1>1. m \in MessageRecord
  BY DEF MessageOK
<1>2. CASE reserve(m, required, granted) = m
  BY <1>2
<1>3. CASE reserve(m, required, granted) # m
  <2>1. /\ reserve(m, required, granted) = larger /\ m.state = "Building"
        /\ required > capacity(m) /\ required <= Format.max_data_size
        /\ granted # 0 /\ granted >= adu_size_for_data(Format, target)
    BY <1>3 DEF reserve, honours
  <2>2. /\ larger \in MessageRecord /\ larger.data = m.data /\ larger.state = "Building"
        /\ larger.granted = granted /\ larger.function = m.function
    BY <1>1, <2>1 DEF MessageRecord
  <2>3. m.granted # 0 /\ Carries(m, t) /\ Fits(m)
    BY <2>1 DEF MessageOK
  <2>4. Fits(larger)
    <3>1. Len(m.data) \in Nat /\ Format.crc_size \in Nat /\ Format.max_data_size \in Nat
      BY <1>1, PolicyAssumption DEF MessageRecord
    <3>2. Len(m.data) <= capacity(m)
      BY <2>3, <3>1, <1>1, CapacityInside DEF Fits
    <3>3. capacity(m) \in 0 .. Format.max_data_size
      BY <1>1, CapacityInside
    <3>4. target \in required .. Format.max_data_size
      BY <2>1, <3>1, <3>3, GrowTargetBounds
    <3>5. adu_size_for_data(Format, Len(m.data)) <= granted
      <4> HIDE DEF target
      <4> QED BY <2>1, <3>1, <3>2, <3>3, <3>4
              DEF adu_size_for_data, adu_overhead, adu_prefix_size
    <3> QED BY <2>2, <2>3, <3>5 DEF Fits
  <2>5. Carries(larger, t)
    BY <2>2, <2>3 DEF Carries
  <2> HIDE DEF larger
  <2> QED BY <2>1, <2>2, <2>3, <2>4, <2>5 DEF MessageOK, Has
<1> QED BY <1>2, <1>3

\* All of the bytes or none.
LEMMA AppendIsOK ==
    ASSUME NEW m, NEW t \in Seq(Byte), MessageOK(m, t),
           NEW bytes \in Seq(Byte), NEW granted \in Nat
    PROVE  LET n == append(m, bytes, granted)
           IN  /\ MessageOK(n, IF n.data = m.data THEN t ELSE t \o bytes)
               /\ Has(n.granted) = Has(m.granted)
<1> DEFINE size == Len(m.data) + Len(bytes)
           roomy == reserve(m, size, granted)
           n == append(m, bytes, granted)
           longer == [roomy EXCEPT !.data = m.data \o bytes]
<1>1. m \in MessageRecord /\ size \in Nat /\ m.data \in Seq(Byte)
  BY DEF MessageOK, MessageRecord
<1>2. /\ MessageOK(roomy, t) /\ roomy.data = m.data /\ roomy.function = m.function
      /\ roomy.state = m.state /\ Has(roomy.granted) = Has(m.granted)
  <2> HIDE DEF size
  <2> QED BY <1>1, ReserveIsOK
<1>3. CASE n = m
  BY <1>3
<1>4. CASE n # m
  <2>1. n = longer /\ m.state = "Building" /\ size <= Format.max_data_size
        /\ size <= capacity(roomy)
    BY <1>2, <1>4 DEF append
  <2> HIDE DEF roomy
  <2>2. roomy \in MessageRecord /\ roomy.state = "Building"
        /\ roomy.granted # 0 /\ Carries(roomy, t) /\ Fits(roomy)
    BY <1>2, <2>1 DEF MessageOK
  <2>3. m.data \o bytes \in Seq(Byte) /\ Len(m.data \o bytes) = size
    BY <1>1, ConcatProperties
  <2>4. /\ longer \in MessageRecord /\ longer.data = m.data \o bytes
        /\ longer.state = "Building" /\ longer.granted = roomy.granted
        /\ longer.function = m.function
    BY <1>2, <2>2, <2>3 DEF MessageRecord
  <2>5. Carries(longer, t \o bytes)
    <3> DEFINE own == reserved(tx_layout(m.function))
    <3>1. own \in Nat
      BY <1>1, SentLayout DEF MessageRecord
    <3>2. own <= Len(m.data) /\ SubSeq(m.data, own + 1, Len(m.data)) = t
      BY <1>2, <2>2 DEF Carries
    <3>3. own \in 0 .. Len(m.data)
      BY <3>1, <3>2, <1>1
    <3> HIDE DEF own
    <3>4. SubSeq(m.data \o bytes, own + 1, Len(m.data \o bytes)) = t \o bytes
      BY <3>2, <3>3, <1>1, SuffixGrows
    <3>5. own <= Len(m.data \o bytes)
      BY <3>3, <2>3, <1>1
    <3> QED BY <3>4, <3>5, <2>4 DEF Carries, own
  <2>6. Fits(longer)
    <3>1. Format.crc_size \in Nat /\ Format.max_data_size \in Nat
      BY PolicyAssumption
    <3>2. size = 0 => adu_size_for_data(Format, size) <= roomy.granted
      <4>1. Len(m.data) \in Nat /\ Len(bytes) \in Nat
        BY <1>1
      <4>2. size = 0 => Len(m.data) = 0
        BY <4>1
      <4> QED BY <4>2, <1>2, <2>2 DEF Fits
    <3>3. size > 0 => adu_size_for_data(Format, size) <= roomy.granted
      <4> HIDE DEF size
      <4> QED BY <2>1, <2>2, <3>1, <1>1, CapacityInside
    <3> HIDE DEF size
    <3> QED BY <3>2, <3>3, <2>1, <2>3, <2>4, <1>1 DEF Fits
  <2>7. MessageOK(longer, t \o bytes)
    <3> HIDE DEF longer
    <3> QED BY <2>2, <2>4, <2>5, <2>6 DEF MessageOK
  <2>8. longer.data = m.data => t \o bytes = t
    <3>1. longer.data = m.data => bytes = <<>>
      BY <1>1, <2>4, ConcatEqualIffEmpty
    <3> QED BY <3>1, ConcatEmptySeq
  <2>9. Has(longer.granted) = Has(m.granted)
    BY <1>2, <2>4
  <2> HIDE DEF longer
  <2> QED BY <2>1, <2>7, <2>8, <2>9
<1> QED BY <1>3, <1>4

-----------------------------------------------------------------------------
(***************************************************************************)
(* Framing and sealing.                                                    *)
(***************************************************************************)
\* A count splits into the two bytes it is stored in.
LEMMA TwoBytes ==
    ASSUME NEW count \in 0 .. UINT16_MAX
    PROVE  /\ count \div 256 \in Byte /\ count % 256 \in Byte
           /\ 256 * (count \div 256) + (count % 256) = count
<1>1. UINT16_MAX = 65535 /\ UINT16_MAX \in Nat
  BY SMTT(30) DEF UINT16_MAX
<1>2. count \in Nat /\ count <= UINT16_MAX
  BY <1>1, SMTT(30)
<1>3. count <= 65535
  BY <1>1, <1>2, SMTT(30)
<1> QED BY <1>2, <1>3, Z3 DEF Byte

\* What a field of one or of two bytes can count.
LEMMA CountRange ==
    ASSUME NEW c \in Nat, NEW w, w = 1 => c <= 255, w # 1 => c <= UINT16_MAX
    PROVE  c \in 0 .. UINT16_MAX /\ (w = 1 => c \in Byte)
<1>1. UINT16_MAX \in Nat /\ 255 <= UINT16_MAX
  BY DEF UINT16_MAX
<1>2. CASE w = 1
  <2>1. c <= 255
    BY <1>2
  <2> QED BY <1>1, <2>1 DEF Byte
<1>3. CASE w # 1
  <2>1. c <= UINT16_MAX
    BY <1>3
  <2> QED BY <1>1, <1>3, <2>1
<1> QED BY <1>2, <1>3

\* store_count writes the count that data_size reads back, and nothing else.
THEOREM StoreCountIsReadBack ==
    ASSUME NEW layout \in FramingLayout, layout.owned, layout.kind = "Counted",
           layout.offset = 0, layout.width \in {1, 2},
           NEW data \in Seq(Byte), CountFits(layout, Len(data))
    PROVE  LET stored == store_count(layout, data)
           IN  /\ stored \in Seq(Byte) /\ Len(stored) = Len(data)
               /\ matches(layout, stored)
               /\ SubSeq(stored, reserved(layout) + 1, Len(stored))
                    = SubSeq(data, reserved(layout) + 1, Len(data))
<1> DEFINE w == layout.width
           n == Len(data)
           count == n - w
           high == count \div 256
           low == count % 256
           stored == store_count(layout, data)
<1>1. header_size(layout) = w /\ reserved(layout) = w /\ w \in {1, 2} /\ n \in Nat
  <2>1. n \in Nat
    BY LenProperties
  <2>2. header_size(layout) = layout.offset + w /\ reserved(layout) = w
    BY DEF header_size, reserved
  <2> HIDE DEF n, w
  <2> QED BY <2>1, <2>2 DEF w
<1>2. n >= w /\ count \in 0 .. UINT16_MAX /\ (w = 1 => count \in Byte)
  <2>1. n >= w /\ (w = 1 => n - w <= 255) /\ (w # 1 => n - w <= UINT16_MAX)
    BY <1>1 DEF CountFits, UINT8_MAX
  <2>2. n - w \in Nat
    <3>1. \A m, v \in Int : m >= v => m - v \in Nat
      BY Z3
    <3>2. n \in Int /\ w \in Int
      BY <1>1
    <3> HIDE DEF n, w
    <3> QED BY <2>1, <3>1, <3>2
  <2>3. count \in 0 .. UINT16_MAX /\ (w = 1 => count \in Byte)
    <3> HIDE DEF n, w
    <3> QED BY <2>1, <2>2, CountRange
  <2> QED BY <2>1, <2>3
<1>3. high \in Byte /\ low \in Byte /\ 256 * high + low = count
  <2> HIDE DEF count
  <2> QED BY <1>2, TwoBytes
<1>4. SUFFICES /\ stored \in Seq(Byte) /\ Len(stored) = n
               /\ load(layout, stored) = count
               /\ \A j \in w + 1 .. n : stored[j] = data[j]
  <2>1. SubSeq(stored, w + 1, Len(stored)) = SubSeq(data, w + 1, Len(data))
    <3>1. w \in Nat
      BY <1>1
    <3>2. Len(stored) = Len(data) /\ \A j \in w + 1 .. Len(stored) : stored[j] = data[j]
      BY <1>4
    <3> HIDE DEF stored, w, n
    <3> QED BY <3>1, <3>2, <1>4, SameRest
  <2>2. data_size(layout, stored) = w + count
    BY <1>1, <1>4 DEF data_size
  <2>3. w + count = n
    <3>1. \A m, v \in Int : v + (m - v) = m
      BY Z3
    <3>2. n \in Int /\ w \in Int
      BY <1>1
    <3> HIDE DEF n, w
    <3> QED BY <3>1, <3>2
  <2>4. matches(layout, stored)
    <3> HIDE DEF stored, count, n, w
    <3> QED BY <1>1, <1>2, <1>4, <2>2, <2>3 DEF matches
  <2> HIDE DEF stored, w
  <2> QED BY <1>1, <1>4, <2>1, <2>4 DEF stored
<1>5. CASE w = 1
  <2>1. stored = [data EXCEPT ![1] = count]
    BY <1>1, <1>5 DEF store_count
  <2>2. /\ stored \in Seq(Byte) /\ Len(stored) = n
        /\ \A j \in 1 .. n : stored[j] = IF j = 1 THEN count ELSE data[j]
    BY <2>1, <1>1, <1>2, <1>5, ExceptSeq
  <2> HIDE DEF stored, count, n
  <2>3. stored[1] = count
    BY <2>2, <1>1, <1>2, <1>5
  <2>4. load(layout, stored) = count
    BY <2>3, <1>5 DEF load
  <2> QED BY <2>2, <2>4, <1>1, <1>5
<1>6. CASE w = 2
  <2> DEFINE first == IF layout.order = "big" THEN high ELSE low
             second == IF layout.order = "big" THEN low ELSE high
             half == [data EXCEPT ![1] = first]
  <2>1. first \in Byte /\ second \in Byte
    BY <1>3
  <2>2. stored = [half EXCEPT ![2] = second]
    <3>1. CountFits(layout, n) /\ layout.width # 1 /\ count = n - header_size(layout)
      BY <1>1, <1>6
    <3>2. CASE layout.order = "big"
      <4>1. stored = [data EXCEPT ![1] = high, ![2] = low]
        BY <1>1, <3>1, <3>2 DEF store_count
      <4> QED BY <4>1, <3>2
    <3>3. CASE layout.order # "big"
      <4>1. stored = [data EXCEPT ![1] = low, ![2] = high]
        BY <1>1, <3>1, <3>3 DEF store_count
      <4> QED BY <4>1, <3>3
    <3> QED BY <3>2, <3>3
  <2> HIDE DEF first, second
  <2>3. /\ half \in Seq(Byte) /\ Len(half) = n
        /\ \A j \in 1 .. n : half[j] = IF j = 1 THEN first ELSE data[j]
    BY <2>1, <1>1, <1>2, <1>6, ExceptSeq
  <2> HIDE DEF half
  <2>4. /\ stored \in Seq(Byte) /\ Len(stored) = n
        /\ \A j \in 1 .. n : stored[j] = IF j = 2 THEN second ELSE half[j]
    BY <2>1, <2>2, <2>3, <1>1, <1>2, <1>6, ExceptSeq
  <2> HIDE DEF stored, count, n, high, low
  <2>5. stored[1] = first /\ stored[2] = second
    BY <2>3, <2>4, <1>1, <1>2, <1>6
  <2>6. load(layout, stored) = IF layout.order = "big" THEN 256 * first + second
                               ELSE 256 * second + first
    BY <2>5, <1>6 DEF load
  <2>7. load(layout, stored) = count
    BY <2>6, <1>3 DEF first, second
  <2>8. \A j \in w + 1 .. n : stored[j] = data[j]
    BY <2>3, <2>4, <1>1, <1>6
  <2> QED BY <2>4, <2>7, <2>8
<1> QED BY <1>1, <1>5, <1>6

\* A message whose framing is accepted stays sound, and its data then match.
LEMMA FramingIsOK ==
    ASSUME NEW m, NEW t, MessageOK(m, t), Framable(tx_layout(m.function), m)
    PROVE  LET f == apply_framing(tx_layout(m.function), m)
           IN  /\ MessageOK(f, t) /\ f.granted = m.granted /\ f.state = m.state
               /\ f.function = m.function /\ m.granted # 0
               /\ f.state = "Building" /\ supported(tx_layout(m.function))
                     => matches(tx_layout(m.function), f.data)
<1> DEFINE layout == tx_layout(m.function)
           f == apply_framing(layout, m)
           counted == [m EXCEPT !.data = store_count(layout, m.data)]
<1>1. m \in MessageRecord /\ m.function \in Byte /\ m.data \in Seq(Byte) /\ m.granted # 0
  BY DEF MessageOK, MessageRecord, Framable
<1>2. /\ layout \in FramingLayout
      /\ layout.owned => /\ layout.kind = "Counted" /\ layout.offset = 0
                         /\ layout.width \in {1, 2}
  BY <1>1, SentLayout
<1>3. CASE m.state # "Finalized" /\ layout.owned
  <2>1. f = counted
    BY <1>3 DEF apply_framing
  <2>2. CountFits(layout, Len(m.data))
    BY <1>2, <1>3 DEF Framable
  <2> HIDE DEF layout
  <2>3. LET stored == store_count(layout, m.data)
        IN  /\ stored \in Seq(Byte) /\ Len(stored) = Len(m.data)
            /\ matches(layout, stored)
            /\ SubSeq(stored, reserved(layout) + 1, Len(stored))
                 = SubSeq(m.data, reserved(layout) + 1, Len(m.data))
    BY <2>2, <1>1, <1>2, <1>3, StoreCountIsReadBack
  <2>4. /\ counted \in MessageRecord /\ counted.granted = m.granted
        /\ counted.state = m.state /\ counted.function = m.function
        /\ counted.data = store_count(layout, m.data)
    BY <2>3, <1>1 DEF MessageRecord
  <2>5. Carries(m, t) /\ Fits(m)
    BY <1>1 DEF MessageOK
  <2>6. Carries(counted, t)
    BY <2>3, <2>4, <2>5 DEF Carries, layout
  <2>7. Fits(counted)
    BY <2>3, <2>4, <2>5 DEF Fits
  <2>8. MessageOK(counted, t)
    <3> HIDE DEF counted
    <3> QED BY <2>4, <2>6, <2>7, <1>1, <1>3 DEF MessageOK
  <2> HIDE DEF counted
  <2> QED BY <2>1, <2>3, <2>4, <2>8, <1>1 DEF layout
<1>4. CASE ~(m.state # "Finalized" /\ layout.owned)
  <2>1. f = m
    BY <1>4 DEF apply_framing
  <2>2. m.state = "Building" /\ supported(layout) => matches(layout, m.data)
    BY <1>2, <1>4 DEF Framable, supported, matches
  <2> QED BY <2>1, <2>2, <1>1
<1> QED BY <1>3, <1>4

\* The trailer goes on once.
LEMMA FinalizeIsOK ==
    ASSUME NEW m, NEW t, MessageOK(m, t), m.granted # 0, ChecksumFits,
           m.state = "Building" /\ supported(tx_layout(m.function))
             => matches(tx_layout(m.function), m.data)
    PROVE  /\ MessageOK(finalize(m), t) /\ finalize(m).state = "Finalized"
           /\ finalize(m).granted = m.granted /\ finalize(m).function = m.function
<1> DEFINE wire == Covered(m) \o Checksum(Covered(m))
           z == [m EXCEPT !.wire = wire, !.state = "Finalized"]
<1>1. m \in MessageRecord /\ m.state \in {"Building", "Finalized"}
      /\ Carries(m, t) /\ Fits(m)
  BY DEF MessageOK, MessageRecord
<1>2. CASE m.state = "Finalized"
  BY <1>2 DEF finalize
<1>3. CASE m.state = "Building"
  <2>1. finalize(m) = z
    BY <1>3 DEF finalize, Covered
  <2>2. Covered(m) \in Seq(Byte)
    <3>1. <<m.address, m.function>> \in Seq(Byte) /\ m.data \in Seq(Byte)
      BY <1>1 DEF MessageRecord
    <3> QED BY <3>1, ConcatProperties DEF Covered
  <2>3. wire \in Seq(Byte)
    BY <2>2, ConcatProperties DEF ChecksumFits
  <2> HIDE DEF wire
  <2>4. /\ z \in MessageRecord /\ z.state = "Finalized" /\ z.granted = m.granted
        /\ z.function = m.function /\ z.address = m.address /\ z.data = m.data
        /\ z.wire = wire
    BY <2>3, <1>1 DEF MessageRecord
  <2> HIDE DEF z
  <2>5. Carries(z, t) /\ Fits(z)
    BY <2>4, <1>1 DEF Carries, Fits
  <2>6. Sealed(z)
    BY <2>4, <1>3 DEF Sealed, Covered, wire
  <2> QED BY <2>1, <2>4, <2>5, <2>6 DEF MessageOK
<1> QED BY <1>1, <1>2, <1>3

\* What the bytes of a sealed message are.
LEMMA SealedBytes ==
    ASSUME NEW m, NEW t, MessageOK(m, t), m.state = "Finalized", ChecksumFits
    PROVE  /\ verify(m.wire)
           /\ Len(m.wire) = adu_size_for_data(Format, Len(m.data))
           /\ SubSeq(m.wire, adu_prefix_size + 1, Len(m.wire) - Format.crc_size) = m.data
<1> DEFINE crc == Checksum(Covered(m))
           head == <<m.address, m.function>>
           c == Format.crc_size
<1>1. m \in MessageRecord /\ m.wire = Covered(m) \o crc
  BY DEF MessageOK, Sealed
<1>2. m.data \in Seq(Byte) /\ head \in Seq(Byte) /\ Len(head) = 2 /\ Len(m.data) \in Nat
  BY <1>1 DEF MessageRecord
<1>3. /\ Covered(m) \in Seq(Byte) /\ Len(Covered(m)) = 2 + Len(m.data)
      /\ SubSeq(Covered(m), 3, 2 + Len(m.data)) = m.data
  <2> HIDE DEF head
  <2>1. Covered(m) = head \o m.data
    BY DEF Covered, head
  <2>2. /\ SubSeq(head \o m.data, Len(head) + 1, Len(head) + Len(m.data)) = m.data
        /\ Len(head \o m.data) = Len(head) + Len(m.data) /\ head \o m.data \in Seq(Byte)
    BY <1>2, Halves
  <2> QED BY <2>1, <2>2, <1>2
<1>4. crc \in Seq(Byte) /\ Len(crc) = c /\ c \in Nat
  BY <1>3, PolicyAssumption DEF ChecksumFits
<1> HIDE DEF crc
<1>5. /\ SubSeq(m.wire, 1, Len(Covered(m))) = Covered(m)
      /\ SubSeq(m.wire, Len(Covered(m)) + 1, Len(Covered(m)) + Len(crc)) = crc
      /\ Len(m.wire) = Len(Covered(m)) + Len(crc)
  <2>1. Covered(m) \in Seq(Byte) /\ crc \in Seq(Byte)
    BY <1>3, <1>4
  <2>2. /\ SubSeq(Covered(m) \o crc, 1, Len(Covered(m))) = Covered(m)
        /\ SubSeq(Covered(m) \o crc, Len(Covered(m)) + 1, Len(Covered(m)) + Len(crc)) = crc
        /\ Len(Covered(m) \o crc) = Len(Covered(m)) + Len(crc)
    BY <2>1, Halves
  <2> QED BY <2>2, <1>1
<1>6. verify(m.wire)
  <2>1. Len(m.wire) - c = Len(Covered(m)) /\ Len(Covered(m)) \in Nat
    BY <1>2, <1>3, <1>4, <1>5
  <2>2. SubSeq(m.wire, Len(Covered(m)) + 1, Len(m.wire)) = Checksum(Covered(m))
    BY <1>5 DEF crc
  <2>3. SubSeq(m.wire, 1, Len(m.wire) - c) = Covered(m)
    BY <2>1, <1>5
  <2> HIDE DEF c
  <2>4. Len(m.wire) - c >= 0
    BY <2>1
  <2> QED BY <2>1, <2>2, <2>3, <2>4 DEF verify, c
<1>7. Len(m.wire) - c = 2 + Len(m.data) /\ Len(m.wire) = (2 + c) + Len(m.data)
  BY <1>2, <1>3, <1>4, <1>5
<1>8. SubSeq(m.wire, 3, 2 + Len(m.data)) = m.data
  <2>1. CASE Len(m.data) = 0
    BY <2>1, <1>2, <1>3, SubSeqEmpty
  <2>2. CASE Len(m.data) > 0
    <3>1. 3 \in 1 .. Len(Covered(m)) /\ 2 + Len(m.data) \in 1 .. Len(Covered(m))
      BY <2>2, <1>2, <1>3
    <3>2. SubSeq(Covered(m) \o crc, 3, 2 + Len(m.data)) = SubSeq(Covered(m), 3, 2 + Len(m.data))
      BY <3>1, <1>3, <1>4, SubSeqOfConcat1
    <3> QED BY <3>2, <1>1, <1>3
  <2> QED BY <2>1, <2>2, <1>2
<1> QED BY <1>6, <1>7, <1>8 DEF adu_size_for_data, adu_overhead, adu_prefix_size

\* A sealed message is an exact frame.
LEMMA SealedIsExact ==
    ASSUME NEW m, NEW t, MessageOK(m, t), m.state = "Finalized", ChecksumFits,
           onWire' = [function |-> m.function, adu |-> m.wire, text |-> t]
    PROVE  FrameIsExact'
<1>1. /\ verify(m.wire) /\ Len(m.wire) = adu_size_for_data(Format, Len(m.data))
      /\ SubSeq(m.wire, adu_prefix_size + 1, Len(m.wire) - Format.crc_size) = m.data
  BY SealedBytes
<1>2. m \in MessageRecord /\ Carries(m, t) /\ Fits(m) /\ Sealed(m)
  BY DEF MessageOK
<1>3. Len(m.wire) <= max_adu_size(Format)
  <2>1. Len(m.data) \in Nat /\ Len(m.data) <= Format.max_data_size
        /\ Format.max_data_size \in Nat /\ Format.crc_size \in Nat
    BY <1>2, PolicyAssumption DEF MessageRecord, Fits
  <2> QED BY <2>1, <1>1 DEF max_adu_size, adu_size_for_data, adu_overhead, adu_prefix_size
<1>4. /\ supported(tx_layout(m.function)) => matches(tx_layout(m.function), m.data)
      /\ SubSeq(m.data, reserved(tx_layout(m.function)) + 1, Len(m.data)) = t
  BY <1>2 DEF Sealed, Carries
<1>5. onWire'.function = m.function /\ onWire'.adu = m.wire /\ onWire'.text = t
  OBVIOUS
<1> QED BY <1>1, <1>3, <1>4, <1>5 DEF FrameIsExact

-----------------------------------------------------------------------------
(***************************************************************************)
(* The steps.                                                              *)
(***************************************************************************)
LEMMA Counting == \A size \in Nat : Has(size) \in {0, 1} /\ Has(0) = 0
BY DEF Has

LEMMA NothingHeld == MessageOK(Disowned, <<>>) /\ Disowned.granted = 0
<1>1. <<>> \in Seq(Byte) /\ 0 \in Byte /\ 0 \in Nat
  BY EmptySeq DEF Byte
<1> QED BY <1>1 DEF Disowned, MessageOK, MessageRecord

\* A step that puts nothing on the wire keeps what was said of the last frame.
LEMMA WireStays == ASSUME FrameIsExact, UNCHANGED onWire PROVE FrameIsExact'
BY DEF FrameIsExact, verify, tx_layout

LEMMA makeStep ==
    ASSUME SenderInv, SenderDomains, NEW address \in Addresses, NEW function \in Functions,
           NEW hint \in Hints, NEW granted \in Grants,
           make_message(address, function, hint, granted)
    PROVE  SenderInv'
<1>1. address \in Byte /\ function \in Byte /\ hint \in Nat /\ granted \in Nat
  BY DEF SenderDomains
<1>2. MessageOK(message', <<>>)
  BY <1>1, MadeIsOK DEF make_message
<1>3. message.granted \in Nat /\ message'.granted \in Nat
  BY <1>2 DEF SenderInv, MessageOK, MessageRecord
<1>4. BlocksAccounted'
  <2>1. Has(message.granted) \in Int /\ Has(message'.granted) \in Int
        /\ Has(m_active_tx) \in Int
    BY <1>3, Counting DEF SenderInv
  <2> QED BY <2>1 DEF SenderInv, make_message, BlocksAccounted
<1>5. blocks' \in Int /\ <<>> \in Seq(Byte)
  <2>1. Has(message.granted) \in Int /\ Has(message'.granted) \in Int
    BY <1>3, Counting
  <2> QED BY <2>1 DEF SenderInv, make_message
<1> QED BY <1>2, <1>4, <1>5, WireStays DEF SenderInv, make_message

LEMMA appendStep ==
    ASSUME SenderInv, SenderDomains, NEW bytes \in Texts, NEW granted \in Grants,
           append_bytes(bytes, granted)
    PROVE  SenderInv'
<1>1. bytes \in Seq(Byte) /\ granted \in Nat
  BY DEF SenderDomains
<1>2. MessageOK(message, text) /\ text \in Seq(Byte)
  BY DEF SenderInv
<1>3. /\ MessageOK(message', IF message'.data = message.data THEN text ELSE text \o bytes)
      /\ Has(message'.granted) = Has(message.granted)
  <2>1. message' = append(message, bytes, granted)
    BY DEF append_bytes
  <2> QED BY <1>1, <1>2, <2>1, AppendIsOK
<1>4. MessageOK(message', text')
  BY <1>3 DEF append_bytes
<1>5. text' \in Seq(Byte)
  BY <1>1, <1>2, ConcatProperties DEF append_bytes
<1>6. BlocksAccounted'
  BY <1>3 DEF SenderInv, append_bytes, BlocksAccounted
<1> QED BY <1>4, <1>5, <1>6, WireStays DEF SenderInv, append_bytes

LEMMA reserveStep ==
    ASSUME SenderInv, SenderDomains, NEW required \in Hints, NEW granted \in Grants,
           reserve_room(required, granted)
    PROVE  SenderInv'
<1>1. required \in Nat /\ granted \in Nat /\ MessageOK(message, text)
  BY DEF SenderDomains, SenderInv
<1>2. MessageOK(message', text) /\ Has(message'.granted) = Has(message.granted)
  BY <1>1, ReserveIsOK DEF reserve_room
<1>3. BlocksAccounted'
  BY <1>2 DEF SenderInv, reserve_room, BlocksAccounted
<1> QED BY <1>2, <1>3, WireStays DEF SenderInv, reserve_room

LEMMA releaseStep == ASSUME SenderInv, release PROVE SenderInv'
<1>1. message.granted \in Nat
  BY DEF SenderInv, MessageOK, MessageRecord
<1>2. MessageOK(message', text') /\ text' \in Seq(Byte) /\ message'.granted = 0
  BY NothingHeld, EmptySeq DEF release
<1>3. BlocksAccounted' /\ blocks' \in Int
  <2>1. Has(message.granted) \in Int /\ Has(m_active_tx) \in Int /\ Has(message'.granted) = 0
    BY <1>1, <1>2, Counting DEF SenderInv
  <2> QED BY <2>1 DEF SenderInv, release, BlocksAccounted
<1> QED BY <1>2, <1>3, WireStays DEF SenderInv, release

\* A framed message, finalized or not, is as sound as it was.
LEMMA ReadyToSend ==
    ASSUME SenderInv, ChecksumFits, Framable(tx_layout(message.function), message)
    PROVE  LET framed == apply_framing(tx_layout(message.function), message)
           IN  /\ MessageOK(framed, text) /\ framed.granted = message.granted
               /\ MessageOK(finalize(framed), text) /\ finalize(framed).state = "Finalized"
               /\ finalize(framed).granted = message.granted /\ message.granted # 0
<1> DEFINE framed == apply_framing(tx_layout(message.function), message)
<1>1. MessageOK(message, text)
  BY DEF SenderInv
<1>2. /\ MessageOK(framed, text) /\ framed.granted = message.granted
      /\ framed.function = message.function /\ message.granted # 0
      /\ framed.state = "Building" /\ supported(tx_layout(message.function))
            => matches(tx_layout(message.function), framed.data)
  BY <1>1, FramingIsOK
<1> HIDE DEF framed
<1>3. /\ MessageOK(finalize(framed), text) /\ finalize(framed).state = "Finalized"
      /\ finalize(framed).granted = framed.granted
  BY <1>2, FinalizeIsOK
<1> QED BY <1>2, <1>3 DEF framed

LEMMA refusedStep ==
    ASSUME SenderInv, ChecksumFits, NEW engaged \in BOOLEAN, Refused(engaged) PROVE SenderInv'
<1>1. MessageOK(message', text) /\ message'.granted = message.granted
  BY ReadyToSend DEF Refused
<1>2. BlocksAccounted'
  BY <1>1 DEF SenderInv, Refused, BlocksAccounted
<1> QED BY <1>1, <1>2, WireStays DEF SenderInv, Refused

LEMMA sentStep == ASSUME SenderInv, ChecksumFits, Sent PROVE SenderInv'
<1> DEFINE sealed == finalize(apply_framing(tx_layout(message.function), message))
<1>1. /\ MessageOK(sealed, text) /\ sealed.state = "Finalized"
      /\ sealed.granted = message.granted /\ message.granted # 0
  BY ReadyToSend DEF Sent
<1>2. /\ onWire' = [function |-> sealed.function, adu |-> sealed.wire, text |-> text]
      /\ m_active_tx' = sealed.granted /\ message' = Disowned /\ text' = <<>>
      /\ m_active_tx = 0 /\ reading' = TRUE /\ blocks' = blocks
  BY DEF Sent
<1> HIDE DEF sealed
<1>3. FrameIsExact'
  BY <1>1, <1>2, SealedIsExact
<1>4. MessageOK(message', text') /\ text' \in Seq(Byte) /\ message'.granted = 0
  BY <1>2, NothingHeld, EmptySeq
<1>5. message.granted \in Nat
  BY DEF SenderInv, MessageOK, MessageRecord
<1>6. BlocksAccounted'
  BY <1>1, <1>2, <1>4, <1>5 DEF SenderInv, BlocksAccounted, Has
<1> QED BY <1>1, <1>2, <1>3, <1>4, <1>5, <1>6 DEF SenderInv

LEMMA transportStep ==
    ASSUME SenderInv, poll \/ TransportDone \/ \E b \in BOOLEAN : Bind(b) PROVE SenderInv'
<1>1. /\ UNCHANGED <<message, text, onWire>> /\ m_active_tx' \in Nat
      /\ reading' \in BOOLEAN /\ blocks' \in Int
  <2>1. CASE poll
    BY <2>1 DEF SenderInv, poll
  <2>2. CASE TransportDone
    BY <2>2 DEF SenderInv, TransportDone
  <2>3. CASE \E b \in BOOLEAN : Bind(b)
    BY <2>3 DEF SenderInv, Bind
  <2> QED BY <2>1, <2>2, <2>3
<1>2. BlocksAccounted'
  <2>1. Has(message.granted) \in Int
    <3>1. message.granted \in Nat
      BY DEF SenderInv, MessageOK, MessageRecord
    <3> QED BY <3>1, Counting
  <2>2. CASE poll
    BY <2>1, <2>2 DEF SenderInv, poll, BlocksAccounted, Has
  <2>3. CASE ~poll
    BY <2>3 DEF SenderInv, TransportDone, Bind, BlocksAccounted
  <2> QED BY <2>2, <2>3
<1> QED BY <1>1, <1>2, WireStays DEF SenderInv

LEMMA SenderStutters == ASSUME SenderInv, UNCHANGED senderVars PROVE SenderInv'
BY WireStays DEF SenderInv, senderVars, BlocksAccounted

-----------------------------------------------------------------------------
(***************************************************************************)
(* The theorems.                                                           *)
(***************************************************************************)
LEMMA SenderInvariant ==
    ASSUME ChecksumFits, SenderDomains
    PROVE  SenderSpec => []SenderInv
<1>1. SenderInit => SenderInv
  <2> SUFFICES ASSUME SenderInit PROVE SenderInv
    OBVIOUS
  <2>1. message = Disowned /\ text = <<>> /\ m_active_tx = 0 /\ blocks = 0
        /\ reading = FALSE /\ onWire.adu = <<>>
    BY DEF SenderInit, NothingSent
  <2>2. MessageOK(message, text) /\ text \in Seq(Byte) /\ message.granted = 0
    BY <2>1, NothingHeld, EmptySeq
  <2>3. BlocksAccounted
    BY <2>1, <2>2 DEF BlocksAccounted, Has
  <2>4. FrameIsExact
    BY <2>1 DEF FrameIsExact
  <2>5. reading \in BOOLEAN
    BY <2>1, Zenon
  <2>6. m_active_tx \in Nat /\ blocks \in Int
    BY <2>1
  <2> QED BY <2>2, <2>3, <2>4, <2>5, <2>6 DEF SenderInv
<1>2. SenderInv /\ [SenderNext]_senderVars => SenderInv'
  <2> SUFFICES ASSUME SenderInv, [SenderNext]_senderVars PROVE SenderInv'
    OBVIOUS
  <2>1. ASSUME NEW address \in Addresses, NEW function \in Functions, NEW hint \in Hints,
               NEW granted \in Grants, make_message(address, function, hint, granted)
        PROVE  SenderInv'
    BY <2>1, makeStep
  <2>2. ASSUME NEW bytes \in Texts, NEW granted \in Grants, append_bytes(bytes, granted)
        PROVE  SenderInv'
    BY <2>2, appendStep
  <2>3. ASSUME NEW required \in Hints, NEW granted \in Grants, reserve_room(required, granted)
        PROVE  SenderInv'
    BY <2>3, reserveStep
  <2>4. ASSUME NEW engaged \in BOOLEAN, Refused(engaged) PROVE SenderInv'
    BY <2>4, refusedStep
  <2> QED
    BY <2>1, <2>2, <2>3, <2>4, releaseStep, sentStep, transportStep, SenderStutters DEF SenderNext
<1> QED BY <1>1, <1>2, PTL DEF SenderSpec

\* FrameIsExact for every format, framing policy and checksum of its width,
\* whatever the application appends and storage grants, and however often the
\* transport refuses (Endpoint::send, Message::apply_framing, finalize).
THEOREM SenderFramesAreExact ==
    ASSUME ChecksumFits, SenderDomains
    PROVE  SenderSpec => []FrameIsExact
<1>1. SenderInv => FrameIsExact
  BY DEF SenderInv
<1> QED BY <1>1, SenderInvariant, PTL

\* TrailerFits: a finalized message never ends beyond the block it was granted.
THEOREM SenderTrailerFits ==
    ASSUME ChecksumFits, SenderDomains
    PROVE  SenderSpec => []TrailerFits
<1>1. SenderInv => TrailerFits
  BY DEF SenderInv, MessageOK, Fits, TrailerFits
<1> QED BY <1>1, SenderInvariant, PTL

\* BlocksAccounted: no block of the transmit side is lost, returned twice or
\* read by the transport after its return.
THEOREM SenderBlocksAccounted ==
    ASSUME ChecksumFits, SenderDomains
    PROVE  SenderSpec => []BlocksAccounted
<1>1. SenderInv => BlocksAccounted
  BY DEF SenderInv
<1> QED BY <1>1, SenderInvariant, PTL

-----------------------------------------------------------------------------
(***************************************************************************)
(* The receiver of the line is a record of its fields, whatever it reads:  *)
(* EXCEPT says of any other value nothing at all.                          *)
(***************************************************************************)
StreamFields ==
    {"stage", "prefix", "filled", "remaining", "need", "building", "ready", "granted",
     "log", "rest"}

IsStream(r) == r = [f \in StreamFields |-> r[f]]

\* Every operator on the receiver makes a receiver of one.
LEMMA LoggedStream ==
    ASSUME NEW r, IsStream(r), NEW what
    PROVE  IsStream(Logged(r, what)) /\ (assembling(Logged(r, what)) <=> assembling(r))
BY DEF IsStream, StreamFields, Logged, assembling

LEMMA ResetStream ==
    ASSUME NEW r, IsStream(r)
    PROVE  IsStream(reset(r)) /\ ~assembling(reset(r))
BY DEF IsStream, StreamFields, reset, assembling

LEMMA BegunStream ==
    ASSUME NEW r, IsStream(r)
    PROVE  IsStream(Begun(r)) /\ (assembling(Begun(r)) <=> assembling(r))
BY DEF IsStream, StreamFields, Begun, assembling

LEMMA AcquireStream ==
    ASSUME NEW r, IsStream(r)
    PROVE  IsStream(acquire_block(r)) /\ (assembling(acquire_block(r)) <=> assembling(r))
BY DEF IsStream, StreamFields, acquire_block, assembling

LEMMA EnqueueStream ==
    ASSUME NEW r, IsStream(r), NEW adu
    PROVE  IsStream(enqueue(r, adu)) /\ (assembling(enqueue(r, adu)) <=> assembling(r))
BY DEF IsStream, StreamFields, enqueue, assembling

LEMMA DequeueStream ==
    ASSUME NEW r, IsStream(r)
    PROVE  IsStream(dequeue(r)) /\ (assembling(dequeue(r)) <=> assembling(r))
BY DEF IsStream, StreamFields, dequeue, assembling

LEMMA ReleaseStream ==
    ASSUME NEW r, IsStream(r)
    PROVE  IsStream(release_rx(r)) /\ (assembling(release_rx(r)) <=> assembling(r))
BY DEF IsStream, StreamFields, release_rx, assembling

LEMMA ReleaseBuildingStream == ASSUME NEW r, IsStream(r) PROVE IsStream(release_building(r))
BY ReleaseStream DEF IsStream, StreamFields, release_building

LEMMA DropStream == ASSUME NEW r, IsStream(r) PROVE IsStream(drop_rest(r))
BY DEF IsStream, StreamFields, drop_rest

\* Of what one frame goes through.
LEMMA RefuseStream == ASSUME NEW r, IsStream(r), NEW cause PROVE IsStream(refuse(r, cause))
<1>1. IsStream(Logged(r, cause))
  BY LoggedStream
<1>2. IsStream(reset(Logged(r, cause)))
  BY <1>1, ResetStream
<1> QED BY <1>2, DropStream DEF refuse

LEMMA CompleteStream == ASSUME NEW r, IsStream(r) PROVE IsStream(complete(r))
<1>1. CASE ~verify(r.building.bytes)
  <2>1. IsStream(Logged(r, "crc_errors"))
    BY LoggedStream
  <2>2. IsStream(release_building(Logged(r, "crc_errors")))
    BY <2>1, ReleaseBuildingStream
  <2>3. IsStream(reset(release_building(Logged(r, "crc_errors"))))
    BY <2>2, ResetStream
  <2> QED BY <1>1, <2>3, DropStream DEF complete
<1>2. CASE verify(r.building.bytes)
  <2>1. IsStream(Logged(r, "frames_received"))
    BY LoggedStream
  <2>2. PICK t : t = enqueue(Logged(r, "frames_received"), r.building.bytes)
    OBVIOUS
  <2>3. IsStream(t)
    BY <2>1, <2>2, EnqueueStream
  <2>4. IsStream([t EXCEPT !.building = NoFrame])
    BY <2>3 DEF IsStream, StreamFields
  <2>5. IsStream(reset([t EXCEPT !.building = NoFrame]))
    BY <2>4, ResetStream
  <2> QED BY <1>2, <2>2, <2>5 DEF complete
<1> QED BY <1>1, <1>2

LEMMA SkipFrameStream == ASSUME NEW r, IsStream(r), NEW adu PROVE IsStream(skip_frame(r, adu))
<1>1. PICK t : t = Logged(Logged(r, "allocation_failure"), "skipped_frames")
  OBVIOUS
<1>2. IsStream(t)
  BY <1>1, LoggedStream
<1>3. IsStream(reset(t))
  BY <1>2, ResetStream
<1>4. PICK n : n = adu - r.filled
  OBVIOUS
<1>5. IsStream([t EXCEPT !.stage = "Skip", !.remaining = n, !.prefix = <<>>])
  BY <1>2 DEF IsStream, StreamFields
<1> QED BY <1>1, <1>3, <1>4, <1>5 DEF skip_frame

LEMMA BeginStream == ASSUME NEW r, IsStream(r) PROVE IsStream(begin_frame(r))
<1>1. PICK adu : adu = adu_size_for_data(Format,
                 data_size(Framer(Rx, r.prefix[address_size + 1]),
                           SubSeq(r.prefix, adu_prefix_size + 1, r.filled)))
  OBVIOUS
<1>2. PICK t : t = acquire_block(r)
  OBVIOUS
<1>3. IsStream(t)
  BY <1>2, AcquireStream
<1>4. PICK frame, left : frame = [size |-> adu, bytes |-> r.prefix] /\ left = adu - r.filled
  OBVIOUS
<1>5. PICK body : body = [t EXCEPT !.building = frame, !.remaining = left, !.stage = "Body",
                                   !.prefix = <<>>]
  OBVIOUS
<1>6. IsStream(body)
  BY <1>3, <1>5 DEF IsStream, StreamFields
<1>7. IsStream(complete(body)) /\ IsStream(skip_frame(r, adu)) /\ IsStream(refuse(r, "oversize"))
  BY <1>6, CompleteStream, SkipFrameStream, RefuseStream
<1> QED BY <1>1, <1>2, <1>4, <1>5, <1>6, <1>7 DEF begin_frame

LEMMA OpenedStream == ASSUME NEW r, IsStream(r) PROVE IsStream(Opened(r))
<1>1. PICK t : t = Logged(r, "candidates")
  OBVIOUS
<1>2. IsStream(t)
  BY <1>1, LoggedStream
<1>3. PICK need : need = adu_prefix_size + header_size(Framer(Rx, r.prefix[address_size + 1]))
  OBVIOUS
<1>4. PICK u : u = [t EXCEPT !.stage = "Header", !.need = need]
  OBVIOUS
<1>5. IsStream(u)
  BY <1>2, <1>4 DEF IsStream, StreamFields
<1>6. IsStream(begin_frame(u)) /\ IsStream(refuse(t, "unsupported_function"))
  BY <1>2, <1>5, BeginStream, RefuseStream
<1> QED BY <1>1, <1>3, <1>4, <1>5, <1>6 DEF Opened

LEMMA ReadStream == ASSUME NEW r, IsStream(r), NEW b PROVE IsStream(ReadByte(r, b))
<1>1. IsStream(gather(r, b))
  <2>1. PICK prefix, filled : prefix = Append(r.prefix, b) /\ filled = r.filled + 1
    OBVIOUS
  <2>2. PICK t : t = [r EXCEPT !.prefix = prefix, !.filled = filled]
    OBVIOUS
  <2>3. IsStream(t)
    BY <2>2 DEF IsStream, StreamFields
  <2>4. IsStream(Opened(t)) /\ IsStream(begin_frame(t))
    BY <2>3, OpenedStream, BeginStream
  <2> QED BY <2>1, <2>2, <2>3, <2>4 DEF gather
<1>2. IsStream(Body(r, b))
  <2>1. PICK building, filled, remaining :
           building = [r.building EXCEPT !.bytes = Append(@, b)]
           /\ filled = r.filled + 1 /\ remaining = r.remaining - 1
    OBVIOUS
  <2>2. PICK t : t = [r EXCEPT !.building = building, !.filled = filled, !.remaining = remaining]
    OBVIOUS
  <2>3. IsStream(t)
    BY <2>2 DEF IsStream, StreamFields
  <2>4. t = [r EXCEPT !.building.bytes = Append(@, b), !.filled = @ + 1, !.remaining = @ - 1]
    BY <2>1, <2>2 DEF IsStream, StreamFields
  <2>5. IsStream(complete(t))
    BY <2>3, CompleteStream
  <2> QED BY <2>3, <2>4, <2>5 DEF Body
<1>3. IsStream(Skip(r, b))
  <2>1. IsStream([r EXCEPT !.remaining = @ - 1])
    BY DEF IsStream, StreamFields
  <2> QED BY <2>1, ResetStream DEF Skip
<1> QED BY <1>1, <1>2, <1>3 DEF ReadByte

\* ... and so does the loop over the bytes of a call, whatever its state.
LEMMA TakeStream == ASSUME NEW r, IsStream(r), NEW b PROVE IsStream(TakeByte(r, b))
<1>1. PICK t : t = Logged(r, "resyncs")
  OBVIOUS
<1>2. IsStream(t)
  BY <1>1, LoggedStream
<1>3. IsStream([t EXCEPT !.rest = "dropped"])
  BY <1>2 DEF IsStream, StreamFields
<1> QED BY <1>1, <1>3, ReadStream DEF TakeByte
-----------------------------------------------------------------------------

\* Every non-empty set of naturals has a least element.
LEMMA LeastElement ==
    ASSUME NEW T \in SUBSET Nat, T # {}
    PROVE  \E i \in T : \A y \in T : i <= y
<1> DEFINE R == StrictSubsetOrdering(Nat)
           U == {0 .. j : j \in T}
<1>1. IsWellFoundedOn(R, FiniteSubsetsOf(Nat))
  BY FS_StrictSubsetOrderingWellFounded
<1>2. U \subseteq FiniteSubsetsOf(Nat)
  <2>1. \A j \in Nat : IsFiniteSet(0 .. j)
    BY FS_Interval
  <2> QED BY <2>1 DEF FiniteSubsetsOf
<1>3. PICK u \in U : \A v \in U : ~(<<v, u>> \in R)
  <2> HIDE DEF R
  <2>1. U # {}
    OBVIOUS
  <2> HIDE DEF U
  <2> QED BY <1>1, <1>2, <2>1, WFMin
<1>4. PICK i \in T : u = 0 .. i
  BY <1>3
<1> HIDE DEF U
<1>5. ASSUME NEW y \in T, y < i
      PROVE  FALSE
  <2>1. 0 .. y \subseteq 0 .. i /\ 0 .. y # 0 .. i
    BY <1>5
  <2>2. <<0 .. y, 0 .. i>> \in R
    BY <2>1 DEF StrictSubsetOrdering
  <2>3. 0 .. y \in U
    BY DEF U
  <2> QED BY <2>2, <2>3, <1>3, <1>4
<1> QED BY <1>5

\* The receiver after byte m, given those after the bytes before.
Step(r, bytes, f, m) == IF m = 0 THEN Begun(r) ELSE TakeByte(f[m - 1], bytes[m])

\* The recursion over the bytes of a call, as its definition chooses it.
LEMMA AfterDefined ==
    ASSUME NEW r, NEW bytes
    PROVE  After(r, bytes) = CHOOSE f : f = [m \in 0 .. Len(bytes) |-> Step(r, bytes, f, m)]
BY DEF After, Step

\* The recursion has a solution.
LEMMA AfterExists ==
    ASSUME NEW r, NEW bytes, Len(bytes) \in Nat
    PROVE  \E f : f = [m \in 0 .. Len(bytes) |-> Step(r, bytes, f, m)]
<1> DEFINE Good(f, k) == f = [m \in 0 .. k |-> Step(r, bytes, f, m)]
           T == {k \in 0 .. Len(bytes) : ~(\E f : Good(f, k))}
<1>1. ASSUME NEW k \in T, \A j \in T : k <= j PROVE FALSE
  <2>1. CASE k = 0
    <3> DEFINE f == [m \in 0 .. 0 |-> Begun(r)]
    <3>1. Good(f, 0)
      BY DEF Step
    <3> QED BY <2>1, <3>1
  <2>2. CASE k # 0
    <3>1. k - 1 \in 0 .. Len(bytes) /\ k - 1 \notin T
      BY <1>1, <2>2
    <3>2. PICK h : Good(h, k - 1)
      BY <3>1
    <3>3. \A m \in 0 .. k - 1 : h[m] = Step(r, bytes, h, m)
      <4> HIDE DEF Step
      <4> QED BY <3>2
    <3> DEFINE f == [m \in 0 .. k |-> IF m = k THEN Step(r, bytes, h, k) ELSE h[m]]
    <3>4. \A m \in 0 .. k - 1 : f[m] = h[m]
      <4> HIDE DEF Step
      <4> QED BY <2>2
    <3>5. f[k] = Step(r, bytes, h, k)
      <4> HIDE DEF Step
      <4> QED BY <2>2
    <3>6. f = [m \in 0 .. k |-> f[m]]
      OBVIOUS
    <3> HIDE DEF f
    <3>7. \A m \in 0 .. k : Step(r, bytes, f, m) = Step(r, bytes, h, m)
      <4> TAKE m \in 0 .. k
      <4>1. CASE m = 0
        BY <4>1 DEF Step
      <4>2. CASE m # 0
        <5>1. m - 1 \in 0 .. k - 1
          BY <4>2
        <5>2. f[m - 1] = h[m - 1]
          BY <5>1, <3>4
        <5> QED BY <4>2, <5>2 DEF Step
      <4> QED BY <4>1, <4>2
    <3>8. \A m \in 0 .. k : f[m] = Step(r, bytes, f, m)
      <4> TAKE m \in 0 .. k
      <4> HIDE DEF Step
      <4>1. CASE m = k
        BY <4>1, <3>5, <3>7
      <4>2. CASE m # k
        <5>1. m \in 0 .. k - 1
          BY <4>2
        <5> QED BY <5>1, <3>3, <3>4, <3>7
      <4> QED BY <4>1, <4>2
    <3>9. Good(f, k)
      <4> HIDE DEF Step
      <4> QED BY <3>6, <3>8
    <3> QED BY <3>9
  <2> QED BY <2>1, <2>2
<1>2. T = {}
  <2>1. T \in SUBSET Nat
    OBVIOUS
  <2> HIDE DEF T
  <2> QED BY <1>1, <2>1, LeastElement
<1>3. Len(bytes) \notin T
  BY <1>2
<1>4. \E f : Good(f, Len(bytes))
  BY <1>3
<1> QED BY <1>4

\* The receiver after m bytes is that after m - 1, given the m-th.
LEMMA AfterUnfolds ==
    ASSUME NEW r, NEW bytes, Len(bytes) \in Nat, NEW m \in 0 .. Len(bytes)
    PROVE  After(r, bytes)[m] = Step(r, bytes, After(r, bytes), m)
<1>1. After(r, bytes) = [k \in 0 .. Len(bytes) |-> Step(r, bytes, After(r, bytes), k)]
  BY AfterExists, AfterDefined
<1> HIDE DEF Step
<1> QED BY <1>1

\* Bytes make a receiver of a receiver.
LEMMA ConsumeStream ==
    ASSUME NEW r, IsStream(r), NEW bytes, Len(bytes) \in Nat
    PROVE  IsStream(consume(r, bytes))
<1> DEFINE T == {m \in 0 .. Len(bytes) : ~IsStream(After(r, bytes)[m])}
<1>1. ASSUME NEW k \in T, \A j \in T : k <= j PROVE FALSE
  <2>1. After(r, bytes)[k] = Step(r, bytes, After(r, bytes), k)
    BY AfterUnfolds
  <2>2. CASE k = 0
    BY <2>1, <2>2, BegunStream DEF Step
  <2>3. CASE k # 0
    <3>1. k - 1 \in 0 .. Len(bytes) /\ k - 1 \notin T
      BY <1>1, <2>3
    <3>2. IsStream(After(r, bytes)[k - 1])
      BY <3>1
    <3>3. IsStream(TakeByte(After(r, bytes)[k - 1], bytes[k]))
      BY <3>2, TakeStream
    <3> QED BY <2>1, <2>3, <3>3 DEF Step
  <2> QED BY <2>2, <2>3
<1>2. T = {}
  <2>1. T \in SUBSET Nat
    OBVIOUS
  <2> HIDE DEF T
  <2> QED BY <1>1, <2>1, LeastElement
<1>3. Len(bytes) \notin T
  BY <1>2
<1>4. PICK t : t = After(r, bytes)[Len(bytes)]
  OBVIOUS
<1>5. IsStream(t)
  BY <1>3, <1>4
<1>6. IsStream([t EXCEPT !.rest = "read"])
  BY <1>5 DEF IsStream, StreamFields
<1> QED BY <1>4, <1>6 DEF consume

LEMMA GapStream ==
    ASSUME NEW r, IsStream(r)
    PROVE  IsStream(notify_gap(r))
<1>1. IsStream(reset(release_building(Begun(r))))
  BY BegunStream, ReleaseBuildingStream, ResetStream
<1> QED BY <1>1, LoggedStream DEF notify_gap

LEMMA DiscardStream ==
    ASSUME NEW r, IsStream(r)
    PROVE  IsStream(discard_incomplete(r)) /\ IsStream(expire_incomplete(r))
<1>1. IsStream(Begun(r))
  BY BegunStream
<1>2. IsStream(reset(release_building(Begun(r))))
  BY <1>1, ReleaseBuildingStream, ResetStream
<1>3. IsStream(discard_incomplete(r))
  BY <1>1, <1>2 DEF discard_incomplete
<1>4. IsStream(Logged(discard_incomplete(r), "stale_frames"))
  BY <1>3, LoggedStream
<1> QED BY <1>1, <1>3, <1>4 DEF expire_incomplete

\* A complete candidate, a gap and an expiry make a receiver of a receiver too.
LEMMA CandidateStream ==
    ASSUME NEW r, IsStream(r), NEW adu
    PROVE  IsStream(receive_adu(r, adu))
<1>1. PICK t : t = Logged(Begun(r), "candidates")
  OBVIOUS
<1>2. IsStream(t)
  BY <1>1, BegunStream, LoggedStream
<1>3. \A what : IsStream(Logged(t, what))
  BY <1>2, LoggedStream
<1>4. IsStream(Logged(enqueue(acquire_block(t), adu), "frames_received"))
  BY <1>2, AcquireStream, EnqueueStream, LoggedStream
<1> QED BY <1>1, <1>3, <1>4 DEF receive_adu

-----------------------------------------------------------------------------
(***************************************************************************)
(* The line, its adapter and its wake.                                     *)
(***************************************************************************)
USE DEF driver, peer, task

AdapterRecord ==
    [m_baud : Rates \union {0}, m_full_chunk_ms : Nat, lag : Nat, late : 0 .. Wrap - 1,
     active : BOOLEAN, last_progress : Nat, line_resumed : BOOLEAN, bound : BOOLEAN]

LineTypes ==
    /\ a \in AdapterRecord /\ IsStream(s)
    /\ rest \in Seq(Byte) /\ filling \in Seq(Byte) /\ fifo \in Seq(Seq(Byte))
    /\ baud \in Rates \union {0}
    /\ quiet \in 0 .. MaxQuiet /\ busy \in 0 .. MaxBusy /\ timeout \in Nat /\ heardQuiet \in Nat
    /\ deaf \in BOOLEAN /\ gapPending \in BOOLEAN /\ notified \in BOOLEAN
    /\ pc \in {"app", "take", "asleep", "run", "drain", "finish"}

\* Milliseconds to a deadline that is that late.
DeadlineIn(late) == IF due(late) THEN 0 ELSE Wrap - late

\* By the tick the pass was given.
Overdue == due((a.late - a.lag) % Wrap)

\* The adapter is bound to a driver that runs, and a deadline is a frame's.
Binding ==
    /\ a.bound => a.m_baud # 0
    /\ ~a.bound => a.last_progress = 0
    /\ a.active => a.bound /\ assembling(s)
    /\ baud = 0 => deaf /\ fifo = <<>> /\ ~a.bound
    /\ a.m_full_chunk_ms = chunk_time_ms(ChunkSize, a.m_baud)

\* A pass is as long as the task has been busy since it took its notification.
Passing ==
    /\ a.lag <= busy
    /\ pc \notin {"drain", "finish"} => a.lag = 0 /\ ~a.line_resumed

\* A short chunk ends in silence; while no chunk waits the adapter has not seen
\* more of the one that fills than there is; the reception is down with a marker
\* behind what it received.
Chunks ==
    /\ deaf => filling = <<>>
    /\ fifo # <<>> /\ filling = <<>> /\ ~deaf =>
         Len(Last(fifo)) = 0 \/ Len(Last(fifo)) >= ChunkSize \/ quiet >= 1
    /\ fifo = <<>> /\ ~deaf => a.last_progress <= Len(filling)
    /\ deaf /\ ~gapPending /\ baud # 0 =>
         \/ fifo # <<>> /\ Last(fifo) = <<>>
         \/ pc = "drain" /\ fifo = <<>> /\ ~a.active /\ a.last_progress = 0

\* What a deadline grants, and what the verdict relies on.
Silence ==
    /\ a.active /\ ~(a.line_resumed /\ Overdue) /\ fifo = <<>> /\ ~deaf
         /\ rx_progress <= a.last_progress
       => quiet + DeadlineIn(a.late) + Spread >= idle_stale_ms
    /\ a.active /\ Overdue /\ ~a.line_resumed =>
         /\ pc = "drain" => heardQuiet + Spread >= idle_stale_ms \/ fifo # <<>> \/ gapPending
         /\ pc = "finish" => heardQuiet + Spread >= idle_stale_ms

HasChunk(q) == \E k \in DOMAIN q : q[k] # <<>>

Sleep ==
    /\ pc \notin {"run", "drain"} /\ HasChunk(fifo) => notified
    /\ pc = "take" /\ a.active => timeout <= DeadlineIn(a.late) + busy
    /\ pc = "asleep" /\ a.active /\ ~notified => timeout <= DeadlineIn(a.late) + MaxBusy

LineInv == LineTypes /\ Binding /\ Passing /\ Chunks /\ Silence /\ Sleep

-----------------------------------------------------------------------------
(* Arithmetic. *)
\* A tick brings a deadline at most one tick nearer, round the wrap of the counter.
LEMMA DeadlineDrops ==
    ASSUME NEW late \in 0 .. Wrap - 1
    PROVE  /\ (late + 1) % Wrap \in 0 .. Wrap - 1
           /\ DeadlineIn((late + 1) % Wrap) + 1 >= DeadlineIn(late)
           /\ DeadlineIn(late) \in Nat
<1>1. Wrap \in Nat \ {0} /\ Wrap \div 2 \in Nat /\ Wrap \div 2 <= Wrap
  <2>1. Wrap \in Nat \ {0}
    BY LineAssumption
  <2> QED BY <2>1, Z3
<1>2. CASE late + 1 < Wrap
  <2>1. (late + 1) % Wrap = late + 1
    <3>1. PICK z \in Int : z = late + 1
      OBVIOUS
    <3>2. z % Wrap = z
      BY <1>1, <1>2, <3>1, Z3
    <3> QED BY <3>1, <3>2
  <2> QED BY <1>1, <1>2, <2>1 DEF DeadlineIn, due
<1>3. CASE late + 1 = Wrap
  <2>1. (late + 1) % Wrap = 0
    BY <1>1, <1>3, Z3
  <2> QED BY <1>1, <1>3, <2>1 DEF DeadlineIn, due
<1> QED BY <1>1, <1>2, <1>3

\* The lateness of a deadline for the tick the pass was given does not move with the clock.
LEMMA SamePass ==
    ASSUME NEW late \in 0 .. Wrap - 1, NEW lag \in Nat, lag + 1 <= MaxBusy
    PROVE  (((late + 1) % Wrap) - (lag + 1)) % Wrap = (late - lag) % Wrap
<1>1. Wrap \in Nat \ {0} /\ MaxBusy \in Nat /\ MaxBusy <= Wrap
  <2>1. Wrap \in Nat \ {0} /\ MaxBusy \in 0 .. Wrap \div 2
    BY LineAssumption
  <2>2. Wrap \div 2 \in Nat /\ Wrap \div 2 <= Wrap
    BY <2>1, Z3
  <2> QED BY <2>1, <2>2
<1>2. CASE late + 1 < Wrap
  <2>1. (late + 1) % Wrap = late + 1
    <3>1. PICK z \in Int : z = late + 1
      OBVIOUS
    <3>2. z % Wrap = z
      BY <1>1, <1>2, <3>1, Z3
    <3> QED BY <3>1, <3>2
  <2>2. (late + 1) - (lag + 1) = late - lag
    OBVIOUS
  <2> QED BY <2>1, <2>2
<1>3. CASE late + 1 = Wrap
  <2>1. (late + 1) % Wrap = 0
    BY <1>1, <1>3, Z3
  <2>2. (0 - (lag + 1)) % Wrap = (0 - (lag + 1)) + Wrap
    <3>1. PICK z \in Int : z = 0 - (lag + 1)
      OBVIOUS
    <3>2. z % Wrap = z + Wrap
      BY <1>1, <3>1, Z3
    <3> QED BY <3>1, <3>2
  <2>3. (late - lag) % Wrap = late - lag
    <3>1. PICK z \in Int : z = late - lag
      OBVIOUS
    <3>2. z % Wrap = z
      BY <1>1, <1>3, <3>1, Z3
    <3> QED BY <3>1, <3>2
  <2>4. (0 - (lag + 1)) + Wrap = late - lag
    BY <1>1, <1>3
  <2> QED BY <2>1, <2>2, <2>3, <2>4
<1> QED BY <1>1, <1>2, <1>3

\* A deadline d ticks after the tick the pass was given is d - lag away, and not due then.
LEMMA ArmedLateness ==
    ASSUME NEW d \in 1 .. Wrap \div 2, NEW lag \in 0 .. MaxBusy
    PROVE  /\ (lag - d) % Wrap \in 0 .. Wrap - 1
           /\ DeadlineIn((lag - d) % Wrap) >= d - lag
           /\ ~due((((lag - d) % Wrap) - lag) % Wrap)
<1>1. Wrap \in Nat \ {0} /\ MaxBusy \in Nat /\ MaxBusy <= Wrap \div 2 /\ Wrap \div 2 \in Nat
      /\ (Wrap \div 2) + (Wrap \div 2) <= Wrap
  <2>1. Wrap \in Nat \ {0} /\ MaxBusy \in 0 .. Wrap \div 2
    BY LineAssumption
  <2>2. Wrap \div 2 \in Nat /\ (Wrap \div 2) + (Wrap \div 2) <= Wrap
    BY <2>1, Z3
  <2> QED BY <2>1, <2>2
<1>2. CASE lag < d
  <2>1. (lag - d) % Wrap = (lag - d) + Wrap
    <3>1. PICK z \in Int : z = lag - d
      OBVIOUS
    <3>2. z % Wrap = z + Wrap
      BY <1>1, <1>2, <3>1, Z3
    <3> QED BY <3>1, <3>2
  <2>2. (((lag - d) + Wrap) - lag) % Wrap = Wrap - d
    <3>1. ((lag - d) + Wrap) - lag = Wrap - d
      BY <1>1
    <3>2. (Wrap - d) % Wrap = Wrap - d
      <4>1. PICK z \in Int : z = Wrap - d
        BY <1>1
      <4>2. z % Wrap = z
        BY <1>1, <4>1, Z3
      <4> QED BY <4>1, <4>2
    <3> QED BY <3>1, <3>2
  <2> QED BY <1>1, <1>2, <2>1, <2>2 DEF DeadlineIn, due
<1>3. CASE ~(lag < d)
  <2>1. (lag - d) % Wrap = lag - d
    <3>1. PICK z \in Int : z = lag - d
      OBVIOUS
    <3>2. z % Wrap = z
      BY <1>1, <1>3, <3>1, Z3
    <3> QED BY <3>1, <3>2
  <2>2. ((lag - d) - lag) % Wrap = Wrap - d
    <3>1. (lag - d) - lag = 0 - d
      BY <1>1
    <3>2. (0 - d) % Wrap = (0 - d) + Wrap
      <4>1. PICK z \in Int : z = 0 - d
        BY <1>1
      <4>2. z % Wrap = z + Wrap
        BY <1>1, <4>1, Z3
      <4> QED BY <4>1, <4>2
    <3> QED BY <1>1, <3>1, <3>2
  <2> QED BY <1>1, <1>3, <2>1, <2>2 DEF DeadlineIn, due
<1> QED BY <1>2, <1>3

\* The time of a chunk is a number.
LEMMA ChunkTime ==
    ASSUME NEW rate \in Rates \union {0}
    PROVE  chunk_time_ms(ChunkSize, rate) \in Nat
<1>1. CASE rate = 0
  BY <1>1 DEF chunk_time_ms
<1>2. CASE rate # 0
  <2>1. rate \in Nat \ {0} /\ ChunkSize \in Nat
    BY <1>2, LineAssumption
  <2>2. PICK n \in Nat : n = (ChunkSize * bits_per_character) * 1000
    <3>1. (ChunkSize * 12) * 1000 \in Nat
      BY <2>1, Z3
    <3> QED BY <3>1 DEF bits_per_character
  <2>3. n \div rate \in Nat
    BY <2>1, Z3
  <2> QED BY <1>2, <2>2, <2>3 DEF chunk_time_ms, CeilDiv
<1> QED BY <1>1, <1>2

\* A full chunk takes longer than the silence that ends a frame.
LEMMA FullChunk ==
    ASSUME LineTypes, Binding, a.bound
    PROVE  /\ full_chunk \in 1 .. Wrap \div 2 /\ idle_stale_ms \in 1 .. Wrap \div 2
           /\ full_chunk >= idle_stale_ms + 1
<1>1. a.m_baud \in Rates /\ idle_stale_ms \in Nat \ {0} /\ Wrap \in Nat
  BY LineAssumption DEF LineTypes, AdapterRecord, Binding
<1>2. full_chunk \in idle_stale_ms + 1 .. Wrap \div 2
  BY <1>1, LineAssumption DEF full_chunk, Binding
<1>3. Wrap \div 2 \in Int
  BY <1>1, Z3
<1> QED BY <1>1, <1>2, <1>3

-----------------------------------------------------------------------------
(* Sequences and records. *)
\* The fifo of the driver grows behind ...
LEMMA QueueGrows ==
    ASSUME NEW q \in Seq(Seq(Byte)), NEW c \in Seq(Byte)
    PROVE  /\ Append(q, c) \in Seq(Seq(Byte)) /\ Append(q, c) # <<>>
           /\ Last(Append(q, c)) = c
           /\ c = <<>> /\ HasChunk(Append(q, c)) => HasChunk(q)
<1>1. /\ Append(q, c) \in Seq(Seq(Byte)) /\ Append(q, c) # <<>>
      /\ Len(q) \in Nat /\ Len(Append(q, c)) = Len(q) + 1
      /\ DOMAIN Append(q, c) = 1 .. Len(q) + 1 /\ DOMAIN q = 1 .. Len(q)
      /\ \A k \in 1 .. Len(q) : Append(q, c)[k] = q[k]
      /\ Append(q, c)[Len(q) + 1] = c
  BY AppendProperties, LenProperties
<1>2. Last(Append(q, c)) = c
  BY <1>1 DEF Last
<1>3. ASSUME c = <<>>, HasChunk(Append(q, c)) PROVE HasChunk(q)
  <2>1. PICK k \in 1 .. Len(q) + 1 : Append(q, c)[k] # <<>>
    BY <1>1, <1>3 DEF HasChunk
  <2>2. k \in 1 .. Len(q)
    <3>1. k # Len(q) + 1
      BY <1>1, <1>3, <2>1
    <3> QED BY <1>1, <2>1, <3>1
  <2> QED BY <1>1, <2>1, <2>2 DEF HasChunk
<1> QED BY <1>1, <1>2, <1>3

\* ... and is taken from in front.
LEMMA QueueShrinks ==
    ASSUME NEW q \in Seq(Seq(Byte)), q # <<>>
    PROVE  /\ Tail(q) \in Seq(Seq(Byte)) /\ Head(q) \in Seq(Byte)
           /\ Tail(q) # <<>> => Last(Tail(q)) = Last(q)
           /\ Tail(q) = <<>> => Last(q) = Head(q)
<1>1. /\ Tail(q) \in Seq(Seq(Byte)) /\ Len(Tail(q)) = Len(q) - 1 /\ Head(q) = q[1]
      /\ \A k \in 1 .. Len(Tail(q)) : Tail(q)[k] = q[k + 1]
      /\ Head(q) \in Seq(Byte)
  BY HeadTailProperties
<1>2. Len(q) \in Nat /\ Len(q) # 0 /\ (Tail(q) = <<>> <=> Len(Tail(q)) = 0)
  BY <1>1, EmptySeq, LenProperties
<1>3. ASSUME Tail(q) # <<>> PROVE Last(Tail(q)) = Last(q)
  <2>1. Len(Tail(q)) \in 1 .. Len(Tail(q)) /\ Len(Tail(q)) + 1 = Len(q)
    BY <1>1, <1>2, <1>3
  <2>2. Tail(q)[Len(Tail(q))] = q[Len(q)]
    BY <1>1, <2>1
  <2> QED BY <2>2 DEF Last
<1>4. ASSUME Tail(q) = <<>> PROVE Last(q) = Head(q)
  <2>1. Len(q) = 1
    BY <1>1, <1>2, <1>4
  <2> QED BY <1>1, <2>1 DEF Last
<1> QED BY <1>1, <1>3, <1>4

\* A byte behind a chunk.
LEMMA BytesGrow ==
    ASSUME NEW q \in Seq(Byte), NEW b \in Byte
    PROVE  /\ Append(q, b) \in Seq(Byte) /\ Append(q, b) # <<>>
           /\ Len(q) \in Nat /\ Len(Append(q, b)) = Len(q) + 1
BY AppendProperties, LenProperties

\* The minimum of two.
LEMMA SmallerOf ==
    ASSUME NEW x \in Int, NEW y \in Int
    PROVE  Min({x, y}) = IF x <= y THEN x ELSE y
<1>1. PICK m \in {x, y} : m = (IF x <= y THEN x ELSE y) /\ \A z \in {x, y} : m <= z
  OBVIOUS
<1>2. \E k \in {x, y} : \A z \in {x, y} : k <= z
  BY <1>1
<1>3. Min({x, y}) \in {x, y} /\ \A z \in {x, y} : Min({x, y}) <= z
  BY <1>2 DEF Min
<1> QED BY <1>1, <1>3

\* What refresh_timing, the arming and the disarming of the deadline leave of an adapter.
LEMMA RefreshedAdapter ==
    ASSUME LineTypes, NEW x \in AdapterRecord,
           x.m_full_chunk_ms = chunk_time_ms(ChunkSize, x.m_baud)
    PROVE  LET r == Refreshed(x)
           IN  /\ r \in AdapterRecord /\ r.m_full_chunk_ms = chunk_time_ms(ChunkSize, r.m_baud)
               /\ r.m_baud = (IF baud = 0 THEN x.m_baud ELSE baud)
               /\ r.lag = x.lag /\ r.late = x.late /\ r.active = x.active
               /\ r.last_progress = x.last_progress /\ r.line_resumed = x.line_resumed
               /\ r.bound = x.bound
<1>1. chunk_time_ms(ChunkSize, baud) \in Nat /\ baud \in Rates \union {0}
  BY ChunkTime DEF LineTypes
<1> QED BY <1>1 DEF Refreshed, AdapterRecord

\* Armed from within a pass.
LEMMA ArmedAdapter ==
    ASSUME NEW x \in AdapterRecord, x.lag <= MaxBusy, NEW d \in 1 .. Wrap \div 2
    PROVE  LET r == Armed(x, d)
           IN  /\ r \in AdapterRecord /\ r.active
               /\ DeadlineIn(r.late) >= d - x.lag /\ ~due((r.late - r.lag) % Wrap)
               /\ r.lag = x.lag /\ r.m_full_chunk_ms = x.m_full_chunk_ms /\ r.m_baud = x.m_baud
               /\ r.last_progress = x.last_progress /\ r.line_resumed = x.line_resumed
               /\ r.bound = x.bound
<1>1. PICK late : late = (x.lag - d) % Wrap
  OBVIOUS
<1>2. x.lag \in 0 .. MaxBusy
  <2>1. MaxBusy \in Int
    <3>1. Wrap \in Nat \ {0} /\ MaxBusy \in 0 .. Wrap \div 2
      BY LineAssumption
    <3>2. Wrap \div 2 \in Int
      BY <3>1, Z3
    <3> QED BY <3>1, <3>2
  <2> QED BY <2>1 DEF AdapterRecord
<1>3. /\ late \in 0 .. Wrap - 1 /\ DeadlineIn(late) >= d - x.lag
      /\ ~due((late - x.lag) % Wrap)
  BY <1>1, <1>2, ArmedLateness
<1>4. Armed(x, d) = [x EXCEPT !.active = TRUE, !.late = late]
  BY <1>1 DEF Armed
<1> QED BY <1>3, <1>4 DEF AdapterRecord

\* Disarmed.
LEMMA DisarmedAdapter ==
    ASSUME NEW x \in AdapterRecord
    PROVE  LET r == Disarmed(x)
           IN  /\ r \in AdapterRecord /\ ~r.active /\ r.late = 0
               /\ r.lag = x.lag /\ r.m_full_chunk_ms = x.m_full_chunk_ms /\ r.m_baud = x.m_baud
               /\ r.last_progress = x.last_progress /\ r.line_resumed = x.line_resumed
               /\ r.bound = x.bound
<1>1. 0 \in 0 .. Wrap - 1
  BY LineAssumption
<1> QED BY <1>1 DEF Disarmed, AdapterRecord

-----------------------------------------------------------------------------
(* Time and the line. *)
LineStands == UNCHANGED <<filling, fifo, deaf, gapPending, notified>>

\* What a tick does to the driver.
LEMMA LineMoves ==
    ASSUME LineTypes, Chunks, SilentTick \/ Send
    PROVE  /\ quiet' \in 0 .. MaxQuiet /\ rest' \in Seq(Byte)
           /\ \/ /\ LineStands
                 /\ deaf \/ Empty \/ quiet' = (IF quiet < MaxQuiet THEN quiet + 1 ELSE MaxQuiet)
              \/ \E chunk \in Seq(Byte) \ {<<>>} :
                    ~deaf /\ Published(chunk) /\ (Len(chunk) = ChunkSize \/ quiet' >= 1)
              \/ \E b \in Byte :
                    ~deaf /\ filling' = Append(filling, b)
                    /\ UNCHANGED <<fifo, deaf, gapPending, notified>>
<1>1. quiet \in 0 .. MaxQuiet /\ MaxQuiet \in Nat /\ MaxQuiet >= 1
  BY LineAssumption DEF LineTypes
<1>2. CASE SilentTick
  <2>1. Min({quiet + 1, MaxQuiet}) = (IF quiet < MaxQuiet THEN quiet + 1 ELSE MaxQuiet)
    <3>1. quiet + 1 \in Int /\ MaxQuiet \in Int
      BY <1>1
    <3>2. Min({quiet + 1, MaxQuiet}) = IF quiet + 1 <= MaxQuiet THEN quiet + 1 ELSE MaxQuiet
      BY <3>1, SmallerOf
    <3> QED BY <1>1, <3>2
  <2>2. quiet' = IF Empty THEN 0 ELSE IF quiet < MaxQuiet THEN quiet + 1 ELSE MaxQuiet
    BY <1>2, <2>1 DEF SilentTick
  <2>3. quiet' \in 0 .. MaxQuiet /\ rest' \in Seq(Byte)
    BY <1>1, <1>2, <2>2 DEF SilentTick, LineTypes
  <2>4. CASE quiet = 0 /\ filling # <<>> /\ Published(filling)
    <3>1. filling \in Seq(Byte) \ {<<>>} /\ ~deaf
      BY <2>4 DEF LineTypes, Chunks
    <3>2. quiet' >= 1
      BY <1>1, <2>2, <2>4 DEF Empty
    <3> QED BY <2>3, <2>4, <3>1, <3>2
  <2>5. CASE LineStands
    BY <2>2, <2>3, <2>5
  <2> QED BY <1>2, <2>4, <2>5 DEF SilentTick, LineStands
<1>3. CASE Send
  <2>1. PICK b \in Byte : ByteArrives(b) /\ rest' \in Seq(Byte)
    <3>1. CASE rest # <<>> /\ ByteArrives(Head(rest)) /\ rest' = Tail(rest)
      <4>1. Head(rest) \in Byte /\ Tail(rest) \in Seq(Byte)
        BY <3>1, HeadTailProperties DEF LineTypes
      <4> QED BY <3>1, <4>1
    <3>2. ASSUME NEW f \in Frames, ByteArrives(Head(f)), rest' = Tail(f)
          PROVE  \E b \in Byte : ByteArrives(b) /\ rest' \in Seq(Byte)
      <4>1. f \in Seq(Byte) /\ f # <<>>
        BY LineAssumption
      <4>2. Head(f) \in Byte /\ Tail(f) \in Seq(Byte)
        BY <4>1, HeadTailProperties
      <4> QED BY <3>2, <4>2
    <3> QED BY <1>3, <3>1, <3>2 DEF Send
  <2>2. quiet' \in 0 .. MaxQuiet
    BY <1>1, <2>1 DEF ByteArrives
  <2>3. CASE deaf
    BY <2>1, <2>2, <2>3 DEF ByteArrives, LineStands
  <2>4. CASE ~deaf /\ Len(filling) + 1 = ChunkSize
    <3>1. PICK chunk : chunk = Append(filling, b)
      OBVIOUS
    <3>2. chunk \in Seq(Byte) \ {<<>>} /\ Len(chunk) = ChunkSize
      BY <2>4, <3>1, BytesGrow DEF LineTypes
    <3>3. Published(chunk)
      BY <2>1, <2>4, <3>1 DEF ByteArrives
    <3> QED BY <2>1, <2>2, <2>4, <3>2, <3>3
  <2>5. CASE ~deaf /\ Len(filling) + 1 # ChunkSize
    BY <2>1, <2>2, <2>5 DEF ByteArrives
  <2> QED BY <2>3, <2>4, <2>5
<1> QED BY <1>2, <1>3

\* The clock of a tick.
LEMMA TimeMoves ==
    ASSUME LineTypes, Binding, Passing, TickPasses
    PROVE  /\ a' \in AdapterRecord /\ busy' \in 0 .. MaxBusy /\ timeout' \in Nat
           /\ a'.m_baud = a.m_baud /\ a'.m_full_chunk_ms = a.m_full_chunk_ms
           /\ a'.active = a.active /\ a'.bound = a.bound
           /\ a'.last_progress = a.last_progress /\ a'.line_resumed = a.line_resumed
           /\ a'.lag <= busy' /\ (pc \notin {"drain", "finish"} => a'.lag = 0)
           /\ a.active => DeadlineIn(a'.late) + 1 >= DeadlineIn(a.late)
           /\ pc \in {"drain", "finish"} /\ a.active => Overdue' = Overdue
           /\ pc \notin {"drain", "finish"} => a'.lag = 0
           /\ ~Sleeping => busy' = busy + 1 /\ timeout' = timeout /\ busy < MaxBusy
           /\ Sleeping => timeout' = timeout - 1 /\ timeout > 0 /\ busy' = busy
           /\ UNCHANGED <<baud, s, pc, heardQuiet>>
<1>1. PICK late, lag : /\ late = (IF a.active THEN (a.late + 1) % Wrap ELSE 0)
                       /\ lag = (IF pc \in {"drain", "finish"} THEN a.lag + 1 ELSE 0)
  OBVIOUS
<1>2. a' = [a EXCEPT !.late = late, !.lag = lag]
  BY <1>1 DEF TickPasses, LineTypes, AdapterRecord
<1>3. a \in AdapterRecord /\ a.late \in 0 .. Wrap - 1 /\ Wrap \in Nat \ {0} /\ a.lag \in Nat
      /\ busy \in 0 .. MaxBusy /\ MaxBusy \in Int
  <2>1. Wrap \in Nat \ {0} /\ MaxBusy \in 0 .. Wrap \div 2
    BY LineAssumption
  <2>2. Wrap \div 2 \in Int
    BY <2>1, Z3
  <2> QED BY <2>1, <2>2 DEF LineTypes, AdapterRecord
<1>4. /\ late \in 0 .. Wrap - 1 /\ lag \in Nat
      /\ a.active => DeadlineIn(late) + 1 >= DeadlineIn(a.late)
  BY <1>1, <1>3, DeadlineDrops
<1>5. /\ busy' \in 0 .. MaxBusy /\ timeout' \in Nat
      /\ ~Sleeping => busy' = busy + 1 /\ timeout' = timeout /\ busy < MaxBusy
      /\ Sleeping => timeout' = timeout - 1 /\ timeout > 0 /\ busy' = busy
      /\ UNCHANGED <<baud, s, pc, heardQuiet>>
  BY <1>3, SMTT(30) DEF TickPasses, LineTypes, Sleeping
<1>6. /\ a' \in AdapterRecord /\ a'.late = late /\ a'.lag = lag
      /\ a'.m_baud = a.m_baud /\ a'.m_full_chunk_ms = a.m_full_chunk_ms
      /\ a'.active = a.active /\ a'.bound = a.bound
      /\ a'.last_progress = a.last_progress /\ a'.line_resumed = a.line_resumed
  BY <1>2, <1>3, <1>4 DEF AdapterRecord
<1>7. lag <= busy' /\ (pc \notin {"drain", "finish"} => lag = 0)
  <2>1. pc \in {"drain", "finish"} => ~Sleeping
    BY DEF Sleeping
  <2> QED BY <1>1, <1>3, <1>5, <2>1 DEF Passing
<1>8. ASSUME pc \in {"drain", "finish"}, a.active PROVE Overdue' = Overdue
  <2>1. a.lag + 1 <= MaxBusy
    BY <1>3, <1>5, <1>8 DEF Passing, Sleeping
  <2>2. (((a.late + 1) % Wrap) - (a.lag + 1)) % Wrap = (a.late - a.lag) % Wrap
    BY <1>3, <2>1, SamePass
  <2>3. (late - lag) % Wrap = (a.late - a.lag) % Wrap
    BY <1>1, <1>8, <2>2
  <2> QED BY <1>6, <2>3 DEF Overdue
<1> QED BY <1>4, <1>5, <1>6, <1>7, <1>8

-----------------------------------------------------------------------------
(* One lemma per action. *)
LEMMA TickKeeps ==
    ASSUME LineInv, Tick
    PROVE  LineInv'
<1> USE DEF LineInv
<1>1. TickPasses /\ (SilentTick \/ Send)
  BY DEF Tick
<1>2. /\ a' \in AdapterRecord /\ busy' \in 0 .. MaxBusy /\ timeout' \in Nat
      /\ a'.m_baud = a.m_baud /\ a'.m_full_chunk_ms = a.m_full_chunk_ms
      /\ a'.active = a.active /\ a'.bound = a.bound
      /\ a'.last_progress = a.last_progress /\ a'.line_resumed = a.line_resumed
      /\ a'.lag <= busy' /\ (pc \notin {"drain", "finish"} => a'.lag = 0)
      /\ a.active => DeadlineIn(a'.late) + 1 >= DeadlineIn(a.late)
      /\ pc \in {"drain", "finish"} /\ a.active => Overdue' = Overdue
      /\ pc \notin {"drain", "finish"} => a'.lag = 0
      /\ ~Sleeping => busy' = busy + 1 /\ timeout' = timeout /\ busy < MaxBusy
      /\ Sleeping => timeout' = timeout - 1 /\ timeout > 0 /\ busy' = busy
      /\ UNCHANGED <<baud, s, pc, heardQuiet>>
  BY <1>1, TimeMoves
<1>3. /\ quiet' \in 0 .. MaxQuiet /\ rest' \in Seq(Byte)
      /\ \/ /\ LineStands
            /\ deaf \/ Empty \/ quiet' = (IF quiet < MaxQuiet THEN quiet + 1 ELSE MaxQuiet)
         \/ \E chunk \in Seq(Byte) \ {<<>>} :
               ~deaf /\ Published(chunk) /\ (Len(chunk) = ChunkSize \/ quiet' >= 1)
         \/ \E b \in Byte :
               ~deaf /\ filling' = Append(filling, b)
               /\ UNCHANGED <<fifo, deaf, gapPending, notified>>
  BY <1>1, LineMoves
<1>4. /\ a.late \in 0 .. Wrap - 1 /\ a'.late \in 0 .. Wrap - 1
      /\ DeadlineIn(a.late) \in Nat /\ DeadlineIn(a'.late) \in Nat
      /\ busy \in 0 .. MaxBusy /\ MaxBusy \in Nat /\ quiet \in 0 .. MaxQuiet
      /\ idle_stale_ms \in Nat /\ MaxQuiet \in Nat /\ idle_stale_ms <= MaxQuiet
  <2>1. Wrap \in Nat \ {0} /\ MaxBusy \in 0 .. Wrap \div 2
    BY LineAssumption
  <2>2. Wrap \div 2 \in Int
    BY <2>1, Z3
  <2>3. a.late \in 0 .. Wrap - 1 /\ a'.late \in 0 .. Wrap - 1
    BY <1>2 DEF LineTypes, AdapterRecord
  <2>4. DeadlineIn(a.late) \in Nat
    BY <2>3, DeadlineDrops
  <2>5. DeadlineIn(a'.late) \in Nat
    BY <2>3, DeadlineDrops
  <2> QED BY <2>1, <2>2, <2>3, <2>4, <2>5, LineAssumption DEF LineTypes
<1>5. Passing'
  BY <1>2 DEF Passing
<1>6. Spread \in Nat
  BY <1>4 DEF Spread
<1>7. CASE /\ LineStands
           /\ deaf \/ Empty \/ quiet' = (IF quiet < MaxQuiet THEN quiet + 1 ELSE MaxQuiet)
  <2>1. LineTypes' /\ Binding'
    BY <1>2, <1>3, <1>7 DEF LineTypes, Binding, LineStands
  <2>2. Chunks'
    BY <1>2, <1>3, <1>4, <1>7 DEF Chunks, LineStands, Empty
  <2>3. Silence'
    <3>1. ASSUME (/\ a.active /\ ~(a.line_resumed /\ Overdue) /\ fifo = <<>> /\ ~deaf
                  /\ rx_progress <= a.last_progress)'
          PROVE  quiet' + DeadlineIn(a'.late) + Spread >= idle_stale_ms
      <4>1. /\ a.active /\ ~(a.line_resumed /\ Overdue) /\ fifo = <<>> /\ ~deaf
            /\ rx_progress <= a.last_progress
        BY <1>2, <1>7, <3>1 DEF LineStands, rx_progress, Passing
      <4>2. quiet + DeadlineIn(a.late) + Spread >= idle_stale_ms
        BY <4>1 DEF Silence
      <4>3. quiet' = (IF quiet < MaxQuiet THEN quiet + 1 ELSE MaxQuiet)
        BY <1>7, <4>1 DEF Empty, Binding
      <4> QED BY <1>2, <1>4, <1>6, <4>1, <4>2, <4>3
    <3>2. (a.active /\ Overdue /\ ~a.line_resumed =>
             /\ pc = "drain" => heardQuiet + Spread >= idle_stale_ms \/ fifo # <<>> \/ gapPending
             /\ pc = "finish" => heardQuiet + Spread >= idle_stale_ms)'
      BY <1>2, <1>7 DEF LineStands, Silence
    <3> QED BY <3>1, <3>2 DEF Silence
  <2>4. Sleep'
    <3>1. HasChunk(fifo)' <=> HasChunk(fifo)
      BY <1>7 DEF HasChunk, LineStands
    <3>2. notified' = notified /\ timeout \in Nat
      BY <1>7 DEF LineTypes, LineStands
    <3> QED BY <1>2, <1>4, <3>1, <3>2 DEF Sleep, Sleeping
  <2> QED BY <1>5, <2>1, <2>2, <2>3, <2>4
<1>8. ASSUME NEW chunk \in Seq(Byte) \ {<<>>}, ~deaf, Published(chunk),
             Len(chunk) = ChunkSize \/ quiet' >= 1
      PROVE  LineInv'
  <2>1. /\ fifo' \in Seq(Seq(Byte)) /\ fifo' # <<>> /\ Last(fifo') = chunk
        /\ filling' = <<>> /\ gapPending' = deaf' /\ deaf' \in BOOLEAN /\ notified'
        /\ notified' \in BOOLEAN
    BY <1>8, QueueGrows DEF Published, LineTypes
  <2>2. LineTypes' /\ Binding'
    <3>1. filling' \in Seq(Byte)
      BY <2>1
    <3> QED BY <1>2, <1>3, <1>8, <2>1, <3>1 DEF LineTypes, Binding
  <2>3. Chunks'
    BY <1>3, <1>8, <2>1, LineAssumption DEF Chunks
  <2>4. Silence'
    BY <1>2, <2>1 DEF Silence
  <2>5. Sleep'
    <3>1. ~Sleeping \/ pc = "asleep"
      BY DEF Sleeping
    <3> QED BY <1>2, <1>4, <2>1, <3>1, SMTT(30) DEF Sleep
  <2> QED BY <1>5, <2>2, <2>3, <2>4, <2>5
<1>9. ASSUME NEW b \in Byte, ~deaf, filling' = Append(filling, b),
             UNCHANGED <<fifo, deaf, gapPending, notified>>
      PROVE  LineInv'
  <2>1. /\ filling' \in Seq(Byte) /\ filling' # <<>> /\ Len(filling) \in Nat
        /\ Len(filling') = Len(filling) + 1
    BY <1>9, BytesGrow DEF LineTypes
  <2>2. LineTypes' /\ Binding'
    BY <1>2, <1>3, <1>9, <2>1 DEF LineTypes, Binding
  <2>3. Chunks'
    <3>1. a.last_progress \in Nat
      BY DEF LineTypes, AdapterRecord
    <3> QED BY <1>2, <1>9, <2>1, <3>1 DEF Chunks
  <2>4. Silence'
    <3>1. ASSUME (fifo = <<>> /\ ~deaf /\ rx_progress <= a.last_progress)' PROVE FALSE
      <4>1. a.last_progress \in Nat /\ a.last_progress <= Len(filling)
        BY <1>9, <3>1 DEF LineTypes, AdapterRecord, Chunks
      <4>2. Len(filling') <= a.last_progress
        BY <1>2, <3>1 DEF rx_progress
      <4> QED BY <2>1, <4>1, <4>2
    <3>2. (a.active /\ Overdue /\ ~a.line_resumed =>
             /\ pc = "drain" => heardQuiet + Spread >= idle_stale_ms \/ fifo # <<>> \/ gapPending
             /\ pc = "finish" => heardQuiet + Spread >= idle_stale_ms)'
      BY <1>2, <1>9 DEF Silence
    <3> QED BY <3>1, <3>2 DEF Silence
  <2>5. Sleep'
    <3>1. HasChunk(fifo)' <=> HasChunk(fifo)
      BY <1>9 DEF HasChunk
    <3>2. notified' = notified /\ timeout \in Nat
      BY <1>9 DEF LineTypes
    <3> QED BY <1>2, <1>4, <3>1, <3>2 DEF Sleep, Sleeping
  <2> QED BY <1>5, <2>2, <2>3, <2>4, <2>5
<1> QED BY <1>3, <1>7, <1>8, <1>9

\* A reception error: its marker keeps the deadline from speaking.
LEMMA LineFaultKeeps ==
    ASSUME LineInv, LineFault
    PROVE  LineInv'
<1> USE DEF LineInv
<1>1. /\ fifo' = Append(fifo, <<>>) /\ filling' = <<>> /\ deaf' = TRUE /\ notified' = TRUE
      /\ UNCHANGED <<rest, quiet, baud, gapPending, a, s, pc, timeout, busy, heardQuiet>>
      /\ ~deaf
  BY DEF LineFault
<1>2. fifo' \in Seq(Seq(Byte)) /\ fifo' # <<>> /\ Last(fifo') = <<>> /\ filling' \in Seq(Byte)
  <2>1. <<>> \in Seq(Byte)
    OBVIOUS
  <2> QED BY <1>1, <2>1, QueueGrows DEF LineTypes
<1>3. LineTypes' /\ Binding' /\ Passing'
  BY <1>1, <1>2 DEF LineTypes, Binding, Passing
<1>4. Chunks' /\ Silence' /\ Sleep'
  BY <1>1, <1>2 DEF Chunks, Silence, Sleep, Overdue
<1> QED BY <1>3, <1>4

\* An action that leaves the driver, the adapter and the pass alone.
LEMMA QuietKeeps ==
    ASSUME LineInv,
           UNCHANGED <<rest, quiet, baud, filling, fifo, deaf, gapPending, notified, a,
                       pc, timeout, busy, heardQuiet>>,
           IsStream(s'), assembling(s') <=> assembling(s)
    PROVE  LineInv'
<1>1. LineTypes' /\ Binding' /\ Passing'
  BY DEF LineInv, LineTypes, Binding, Passing
<1>2. Chunks' /\ Silence' /\ Sleep'
  BY DEF LineInv, Chunks, Silence, Sleep, Overdue, rx_progress, HasChunk
<1> QED BY <1>1, <1>2 DEF LineInv

\* FreeRtosWake::wait: the ticks of the sleep do not exceed those to the deadline.
LEMMA waitKeeps ==
    ASSUME LineInv, wait
    PROVE  LineInv'
<1> USE DEF LineInv
<1>1. /\ pc = "app" /\ pc' = "take" /\ s' = Begun(s)
      /\ UNCHANGED <<rest, quiet, baud, filling, fifo, deaf, gapPending, notified, a, busy,
                     heardQuiet>>
  BY DEF wait
<1>2. IsStream(s') /\ (assembling(s') <=> assembling(s))
  BY <1>1, BegunStream DEF LineTypes
<1>3. a.late \in 0 .. Wrap - 1 /\ busy \in Nat /\ MaxBusy \in Int
  <2>1. Wrap \in Nat \ {0} /\ MaxBusy \in 0 .. Wrap \div 2
    BY LineAssumption
  <2>2. Wrap \div 2 \in Int
    BY <2>1, Z3
  <2> QED BY <2>1, <2>2 DEF LineTypes, AdapterRecord
<1>4. PICK left \in Nat : left = DeadlineIn(a.late) /\ left = deadline_in_ms
  BY <1>3, DeadlineDrops DEF DeadlineIn, deadline_in_ms
<1>5. \A n \in Nat : ticks_for(n) \in Nat /\ ticks_for(n) <= n
  <2> TAKE n \in Nat
  <2>1. (n * TickRate) \div 1000 = n
    <3>1. (n * 1000) \div 1000 = n
      BY Z3
    <3> QED BY <3>1, LineAssumption
  <2> QED BY <2>1, LineAssumption DEF ticks_for, wake_ticks_for
<1>6. timeout' \in Nat /\ (a.active => timeout' <= left)
  <2>1. fallback_ms \in Nat
    BY LineAssumption
  <2>2. Min({left, fallback_ms}) = IF left <= fallback_ms THEN left ELSE fallback_ms
    BY <1>4, <2>1, SmallerOf
  <2>3. PICK n \in Nat : n = (IF a.active THEN Min({left, fallback_ms}) ELSE fallback_ms)
    BY <1>4, <2>1, <2>2
  <2>4. timeout' = ticks_for(n)
    BY <1>4, <2>3 DEF wait
  <2>5. a.active => n <= left
    BY <2>1, <2>2, <2>3
  <2> QED BY <1>5, <2>4, <2>5
<1>7. LineTypes' /\ Binding' /\ Passing' /\ Chunks' /\ Silence'
  BY <1>1, <1>2, <1>6 DEF LineTypes, Binding, Passing, Chunks, Silence, Overdue, rx_progress
<1>8. Sleep'
  <2>1. HasChunk(fifo)' <=> HasChunk(fifo)
    BY <1>1 DEF HasChunk
  <2> QED BY <1>1, <1>3, <1>4, <1>6, <2>1 DEF Sleep
<1> QED BY <1>7, <1>8

\* The notification is taken; what it was for is drained in this pass.
LEMMA TakeKeeps ==
    ASSUME LineInv, Take
    PROVE  LineInv'
<1> USE DEF LineInv
<1>1. /\ pc = "take" /\ pc' = (IF notified \/ timeout = 0 THEN "run" ELSE "asleep")
      /\ notified' = FALSE /\ busy' = 0 /\ timeout' = (IF pc' = "run" THEN 0 ELSE timeout)
      /\ UNCHANGED <<rest, quiet, baud, filling, fifo, deaf, gapPending, a, s, heardQuiet>>
  BY DEF Take
<1>2. busy \in 0 .. MaxBusy /\ MaxBusy \in Nat /\ 0 \in 0 .. MaxBusy
  <2>1. Wrap \in Nat \ {0} /\ MaxBusy \in 0 .. Wrap \div 2
    BY LineAssumption
  <2>2. Wrap \div 2 \in Int
    BY <2>1, Z3
  <2> QED BY <2>1, <2>2 DEF LineTypes
<1>3. LineTypes' /\ Binding' /\ Chunks' /\ Silence'
  BY <1>1, <1>2 DEF LineTypes, Binding, Passing, Chunks, Silence, Overdue, rx_progress
<1>4. Passing'
  BY <1>1, <1>2 DEF Passing
<1>5. Sleep'
  <2>1. HasChunk(fifo)' <=> HasChunk(fifo)
    BY <1>1 DEF HasChunk
  <2>2. DeadlineIn(a.late) \in Nat /\ timeout \in Nat
    BY DeadlineDrops DEF LineTypes, AdapterRecord
  <2> QED BY <1>1, <1>2, <2>1, <2>2 DEF Sleep
<1> QED BY <1>3, <1>4, <1>5

\* The sleep ends.
LEMMA WakeKeeps ==
    ASSUME LineInv, Wake
    PROVE  LineInv'
<1> USE DEF LineInv
<1>1. /\ pc = "asleep" /\ pc' = "run" /\ notified' = FALSE /\ timeout' = 0
      /\ UNCHANGED <<rest, quiet, baud, filling, fifo, deaf, gapPending, a, s, busy, heardQuiet>>
  BY DEF Wake
<1>2. LineTypes' /\ Binding' /\ Passing' /\ Chunks' /\ Silence' /\ Sleep'
  BY <1>1 DEF LineTypes, Binding, Passing, Chunks, Silence, Sleep, Overdue, rx_progress
<1> QED BY <1>2

\* The numbers of the instance.
LEMMA Bounds ==
    /\ Wrap \in Nat \ {0} /\ MaxBusy \in 0 .. Wrap \div 2 /\ Wrap \div 2 \in Nat
    /\ MaxBusy \in Nat /\ Spread \in Nat /\ idle_stale_ms \in Nat
    /\ 1 + Spread >= MaxBusy
<1>1. Wrap \in Nat \ {0} /\ MaxBusy \in 0 .. Wrap \div 2
  BY LineAssumption
<1>2. Wrap \div 2 \in Nat
  BY <1>1, Z3
<1> QED BY <1>1, <1>2, LineAssumption DEF Spread

\* prepare: the line is looked at with the deadline that may be due.
LEMMA prepareKeeps ==
    ASSUME LineInv, prepare
    PROVE  LineInv'
<1> USE DEF LineInv
<1>1. /\ pc = "run" /\ pc' = "drain" /\ heardQuiet' = quiet
      /\ UNCHANGED <<rest, quiet, baud, filling, fifo, deaf, gapPending, notified, s, timeout, busy>>
  BY DEF prepare
<1>2. PICK x0 : x0 = [a EXCEPT !.lag = 0]
  OBVIOUS
<1>3. /\ x0 \in AdapterRecord /\ x0.lag = 0 /\ x0.late = a.late /\ x0.active = a.active
      /\ x0.m_baud = a.m_baud /\ x0.m_full_chunk_ms = a.m_full_chunk_ms /\ x0.bound = a.bound
      /\ x0.last_progress = a.last_progress
  BY <1>2 DEF LineTypes, AdapterRecord
<1>4. PICK r : r = Refreshed(x0)
  OBVIOUS
<1>5. /\ r \in AdapterRecord /\ r.m_full_chunk_ms = chunk_time_ms(ChunkSize, r.m_baud)
      /\ r.m_baud = (IF baud = 0 THEN a.m_baud ELSE baud)
      /\ r.lag = 0 /\ r.late = a.late /\ r.active = a.active /\ r.bound = a.bound
      /\ r.last_progress = a.last_progress
  <2>1. x0.m_full_chunk_ms = chunk_time_ms(ChunkSize, x0.m_baud)
    BY <1>3 DEF Binding
  <2> QED BY <1>3, <1>4, <2>1, RefreshedAdapter
<1>6. PICK seen, before : seen = rx_progress /\ before = a.last_progress
  OBVIOUS
<1>7. seen \in Nat /\ before \in Nat
  BY <1>6, LenProperties DEF rx_progress, LineTypes, AdapterRecord
<1>8. a' = IF a.active /\ due(a.late)
           THEN [r EXCEPT !.line_resumed = (seen > before), !.last_progress = seen]
           ELSE [r EXCEPT !.line_resumed = FALSE]
  <2>1. a' = IF a.active /\ due(a.late)
             THEN [[r EXCEPT !.line_resumed = FALSE]
                     EXCEPT !.line_resumed = (seen > before), !.last_progress = seen]
             ELSE [r EXCEPT !.line_resumed = FALSE]
    BY <1>2, <1>4, <1>6 DEF prepare
  <2> QED BY <1>5, <2>1 DEF AdapterRecord
<1>9. /\ a' \in AdapterRecord /\ a'.m_full_chunk_ms = chunk_time_ms(ChunkSize, a'.m_baud)
      /\ a'.m_baud = (IF baud = 0 THEN a.m_baud ELSE baud)
      /\ a'.lag = 0 /\ a'.late = a.late /\ a'.active = a.active /\ a'.bound = a.bound
      /\ a.active /\ due(a.late) => a'.last_progress = seen /\ (a'.line_resumed <=> seen > before)
      /\ ~(a.active /\ due(a.late)) => a'.last_progress = before /\ ~a'.line_resumed
  <2>0. (seen > before) \in BOOLEAN
    OBVIOUS
  <2>1. PICK flag \in BOOLEAN : flag = (seen > before)
    BY <2>0, Zenon
  <2>2. CASE a.active /\ due(a.late)
    <3>1. a' = [r EXCEPT !.line_resumed = flag, !.last_progress = seen]
      BY <1>8, <2>1, <2>2
    <3> QED BY <1>5, <1>7, <2>1, <2>2, <3>1 DEF AdapterRecord
  <2>3. CASE ~(a.active /\ due(a.late))
    BY <1>5, <1>6, <1>8, <2>3 DEF AdapterRecord
  <2> QED BY <2>2, <2>3
<1>10. (Overdue' <=> due(a.late)) /\ (Overdue <=> due(a.late))
  <2>1. (a.late - 0) % Wrap = a.late
    <3>1. a.late \in 0 .. Wrap - 1
      BY DEF LineTypes, AdapterRecord
    <3> QED BY <3>1, Bounds, Z3
  <2>2. a.lag = 0
    BY <1>1 DEF Passing
  <2> QED BY <1>9, <2>1, <2>2 DEF Overdue
<1>11. LineTypes'
  <2>1. heardQuiet' \in Nat
    BY <1>1, LineAssumption DEF LineTypes
  <2> QED BY <1>1, <1>9, <2>1 DEF LineTypes
<1>12. Binding'
  <2>1. a'.bound => a'.m_baud # 0
    BY <1>9 DEF Binding
  <2> QED BY <1>1, <1>6, <1>9, <2>1 DEF Binding
<1>13. Passing'
  BY <1>1, <1>9 DEF Passing, LineTypes
<1>14. Chunks'
  <2>1. fifo = <<>> /\ ~deaf => a'.last_progress <= Len(filling)
    <3>1. Len(filling) \in Nat
      BY LenProperties DEF LineTypes
    <3> QED BY <1>6, <1>9, <3>1 DEF Chunks, rx_progress
  <2> QED BY <1>1, <2>1 DEF Chunks
<1>15. Silence'
  <2>1. ASSUME (/\ a.active /\ ~(a.line_resumed /\ Overdue) /\ fifo = <<>> /\ ~deaf
                /\ rx_progress <= a.last_progress)'
        PROVE  (quiet + DeadlineIn(a.late) + Spread >= idle_stale_ms)'
    <3>1. a.active /\ fifo = <<>> /\ ~deaf /\ ~a.line_resumed
      BY <1>1, <1>9, <2>1 DEF Passing
    <3>2. rx_progress <= a.last_progress
      <4>1. rx_progress' = seen
        BY <1>1, <1>6 DEF rx_progress
      <4> QED BY <1>6, <1>7, <1>9, <1>10, <2>1, <4>1
    <3> QED BY <1>1, <1>9, <3>1, <3>2 DEF Silence
  <2>2. ASSUME (a.active /\ Overdue /\ ~a.line_resumed)'
        PROVE  (heardQuiet + Spread >= idle_stale_ms \/ fifo # <<>> \/ gapPending)'
    <3>1. a.active /\ due(a.late) /\ ~(seen > before)
      BY <1>9, <1>10, <2>2
    <3>2. CASE fifo = <<>> /\ ~gapPending
      <4>1. ~deaf
        BY <1>1, <3>1, <3>2 DEF Chunks, Binding
      <4>2. ~a.line_resumed /\ rx_progress <= a.last_progress
        BY <1>1, <1>6, <1>7, <3>1 DEF Passing
      <4>3. quiet + DeadlineIn(a.late) + Spread >= idle_stale_ms
        BY <3>1, <3>2, <4>1, <4>2 DEF Silence
      <4>4. DeadlineIn(a.late) = 0 /\ quiet \in Int
        BY <3>1 DEF DeadlineIn, LineTypes
      <4> QED BY <1>1, <4>3, <4>4, Bounds
    <3> QED BY <1>1, <3>2
  <2> QED BY <1>1, <2>1, <2>2 DEF Silence
<1>16. Sleep'
  BY <1>1 DEF Sleep
<1> QED BY <1>11, <1>12, <1>13, <1>14, <1>15, <1>16

\* finish: the verdict, or a deadline anew when the line had gone on.
LEMMA finishKeeps ==
    ASSUME LineInv, finish
    PROVE  LineInv'
<1> USE DEF LineInv
<1>1. /\ pc = "finish" /\ pc' = "app" /\ heardQuiet' = 0
      /\ UNCHANGED <<rest, quiet, baud, filling, fifo, deaf, gapPending, notified, timeout, busy>>
  BY DEF finish
<1>2. PICK x : x = [a EXCEPT !.line_resumed = FALSE]
  OBVIOUS
<1>3. /\ x \in AdapterRecord /\ ~x.line_resumed /\ x.lag = a.lag /\ x.late = a.late
      /\ x.active = a.active /\ x.m_baud = a.m_baud /\ x.m_full_chunk_ms = a.m_full_chunk_ms
      /\ x.bound = a.bound /\ x.last_progress = a.last_progress
  BY <1>2 DEF LineTypes, AdapterRecord
<1>4. a.lag \in Nat /\ a.lag <= MaxBusy /\ a.last_progress \in Nat
  BY Bounds DEF LineTypes, AdapterRecord, Passing
<1>5. PICK verdict \in BOOLEAN : verdict <=> (a.active /\ Overdue /\ ~a.line_resumed)
  OBVIOUS
<1>6. PICK r : r = IF verdict THEN Disarmed(x)
                   ELSE IF a.active /\ Overdue THEN Armed(x, full_chunk) ELSE x
  OBVIOUS
<1>7. /\ a' = [r EXCEPT !.lag = 0]
      /\ s' = IF verdict THEN expire_incomplete(s) ELSE Begun(s)
  BY <1>2, <1>5, <1>6 DEF finish, Overdue
<1>8. /\ r \in AdapterRecord /\ ~r.line_resumed /\ r.m_baud = a.m_baud
      /\ r.m_full_chunk_ms = a.m_full_chunk_ms /\ r.bound = a.bound
      /\ r.last_progress = a.last_progress
      /\ verdict => ~r.active
      /\ ~verdict => r.active = a.active
      /\ ~verdict /\ a.active /\ Overdue => DeadlineIn(r.late) >= full_chunk - a.lag
                                            /\ full_chunk \in Nat /\ full_chunk >= idle_stale_ms + 1
      /\ ~verdict /\ ~(a.active /\ Overdue) => r.late = a.late
  <2>1. CASE verdict
    BY <1>3, <1>6, <2>1, DisarmedAdapter
  <2>2. CASE ~verdict /\ a.active /\ Overdue
    <3>1. full_chunk \in 1 .. Wrap \div 2 /\ full_chunk >= idle_stale_ms + 1 /\ full_chunk \in Nat
      <4>1. a.bound
        BY <2>2 DEF Binding
      <4> QED BY <4>1, FullChunk, Bounds
    <3>2. r = Armed(x, full_chunk)
      BY <1>6, <2>2
    <3>3. x.lag <= MaxBusy
      BY <1>3, <1>4
    <3>4. /\ r \in AdapterRecord /\ r.active
          /\ DeadlineIn(r.late) >= full_chunk - x.lag
          /\ r.m_full_chunk_ms = x.m_full_chunk_ms /\ r.m_baud = x.m_baud
          /\ r.last_progress = x.last_progress /\ r.line_resumed = x.line_resumed
          /\ r.bound = x.bound
      BY <1>3, <3>1, <3>2, <3>3, ArmedAdapter
    <3> QED BY <1>3, <2>2, <3>1, <3>4
  <2>3. CASE ~verdict /\ ~(a.active /\ Overdue)
    BY <1>3, <1>6, <2>3
  <2> QED BY <2>1, <2>2, <2>3
<1>9. /\ a' \in AdapterRecord /\ a'.lag = 0 /\ ~a'.line_resumed /\ a'.m_baud = a.m_baud
      /\ a'.m_full_chunk_ms = a.m_full_chunk_ms /\ a'.bound = a.bound
      /\ a'.last_progress = a.last_progress /\ a'.active = r.active /\ a'.late = r.late
  BY <1>7, <1>8 DEF AdapterRecord
<1>10. IsStream(s') /\ (~verdict => (assembling(s') <=> assembling(s)))
  BY <1>7, BegunStream, DiscardStream DEF LineTypes
<1>11. LineTypes'
  BY <1>1, <1>9, <1>10 DEF LineTypes
<1>12. Binding' /\ Passing'
  BY <1>1, <1>8, <1>9, <1>10 DEF Binding, Passing, LineTypes
<1>13. Chunks'
  BY <1>1, <1>8, <1>9 DEF Chunks
<1>14. Silence'
  <2>1. ASSUME (/\ a.active /\ ~(a.line_resumed /\ Overdue) /\ fifo = <<>> /\ ~deaf
                /\ rx_progress <= a.last_progress)'
        PROVE  (quiet + DeadlineIn(a.late) + Spread >= idle_stale_ms)'
    <3>1. ~verdict /\ a.active /\ fifo = <<>> /\ ~deaf /\ rx_progress <= a.last_progress
      BY <1>1, <1>8, <1>9, <2>1 DEF rx_progress
    <3>2. CASE Overdue
      <4>1. DeadlineIn(a'.late) >= full_chunk - a.lag /\ full_chunk \in Nat
            /\ full_chunk >= idle_stale_ms + 1
        BY <1>8, <1>9, <3>1, <3>2
      <4>2. DeadlineIn(a'.late) \in Nat /\ quiet \in Nat
        <5>1. a'.late \in 0 .. Wrap - 1
          BY <1>9 DEF AdapterRecord
        <5>2. quiet \in Nat
          BY DEF LineTypes
        <5> QED BY <5>1, <5>2, DeadlineDrops
      <4> QED BY <1>1, <1>4, <4>1, <4>2, Bounds
    <3>3. CASE ~Overdue
      BY <1>1, <1>8, <1>9, <3>1, <3>3 DEF Silence
    <3> QED BY <3>2, <3>3
  <2> QED BY <1>1, <2>1 DEF Silence
<1>15. Sleep'
  <2>1. HasChunk(fifo)' <=> HasChunk(fifo)
    BY <1>1 DEF HasChunk
  <2> QED BY <1>1, <2>1 DEF Sleep
<1> QED BY <1>11, <1>12, <1>13, <1>14, <1>15

\* A chunk or a marker is handed over, and grants a deadline that the tick of the pass dates.
LEMMA DrainKeeps ==
    ASSUME LineInv, Drain
    PROVE  LineInv'
<1> USE DEF LineInv
<1>1. /\ pc = "drain" /\ fifo # <<>> /\ fifo' = Tail(fifo) /\ Delivered(Head(fifo))
      /\ UNCHANGED <<rest, quiet, baud, filling, deaf, gapPending, notified, pc, timeout, busy,
                     heardQuiet>>
  BY DEF Drain
<1>2. PICK chunk : chunk = Head(fifo)
  OBVIOUS
<1>3. /\ fifo' \in Seq(Seq(Byte)) /\ chunk \in Seq(Byte)
      /\ fifo' # <<>> => Last(fifo') = Last(fifo)
      /\ fifo' = <<>> => Last(fifo) = chunk
  BY <1>1, <1>2, QueueShrinks DEF LineTypes
<1>4. /\ a.lag \in Nat /\ a.lag <= MaxBusy /\ a.last_progress \in Nat /\ quiet \in Nat
      /\ quiet \in 0 .. MaxQuiet /\ Len(filling) \in Nat /\ Len(chunk) \in Nat
  BY <1>3, Bounds, LenProperties DEF LineTypes, AdapterRecord, Passing
<1>5. PICK x : x = [a EXCEPT !.last_progress = 0]
  OBVIOUS
<1>6. /\ x \in AdapterRecord /\ x.last_progress = 0 /\ x.lag = a.lag /\ x.m_baud = a.m_baud
      /\ x.m_full_chunk_ms = a.m_full_chunk_ms /\ x.bound = a.bound
  BY <1>5 DEF LineTypes, AdapterRecord
\* The three outcomes in one: the deadline is off, or granted anew.
<1>7. /\ a' \in AdapterRecord /\ IsStream(s')
      /\ a'.lag = a.lag /\ a'.m_baud = a.m_baud
      /\ a'.m_full_chunk_ms = a.m_full_chunk_ms /\ a'.bound = a.bound /\ a'.last_progress = 0
      /\ a'.active => /\ a.bound /\ assembling(s') /\ ~Overdue'
                      /\ chunk # <<>>
                      /\ Len(chunk) < ChunkSize => DeadlineIn(a'.late) >= idle_stale_ms - a.lag
                      /\ Len(chunk) >= ChunkSize => DeadlineIn(a'.late) >= (idle_stale_ms + 1) - a.lag
  <2>1. CASE ~a.bound
    <3>1. UNCHANGED <<a, s>>
      BY <1>1, <2>1 DEF Delivered
    <3> QED BY <2>1, <3>1 DEF Binding, LineTypes
  <2>2. CASE a.bound /\ chunk = <<>>
    <3>1. s' = notify_gap(s) /\ a' = Disarmed(x)
      BY <1>1, <1>2, <1>5, <2>2 DEF Delivered, on_gap
    <3>2. /\ a' \in AdapterRecord /\ ~a'.active
          /\ a'.lag = x.lag /\ a'.m_full_chunk_ms = x.m_full_chunk_ms /\ a'.m_baud = x.m_baud
          /\ a'.last_progress = x.last_progress /\ a'.bound = x.bound
      BY <1>6, <3>1, DisarmedAdapter
    <3>3. IsStream(s')
      BY <3>1, GapStream DEF LineTypes
    <3> QED BY <1>6, <3>2, <3>3
  <2>3. CASE a.bound /\ chunk # <<>>
    <3>1. PICK t : t = consume(s, chunk)
      OBVIOUS
    <3>2. PICK d : d = IF Len(chunk) < ChunkSize THEN idle_stale_ms ELSE full_chunk
      OBVIOUS
    <3>3. s' = t /\ a' = IF ~assembling(t) THEN Disarmed(x) ELSE Armed(x, d)
      BY <1>1, <1>2, <1>5, <2>3, <3>1, <3>2 DEF Delivered, on_rx
    <3>4. IsStream(s')
      BY <1>4, <3>1, <3>3, ConsumeStream DEF LineTypes
    <3>5. CASE ~assembling(t)
      <4>1. /\ a' \in AdapterRecord /\ ~a'.active
            /\ a'.lag = x.lag /\ a'.m_full_chunk_ms = x.m_full_chunk_ms /\ a'.m_baud = x.m_baud
            /\ a'.last_progress = x.last_progress /\ a'.bound = x.bound
        BY <1>6, <3>3, <3>5, DisarmedAdapter
      <4> QED BY <1>6, <3>4, <4>1
    <3>6. CASE assembling(t)
      <4>1. /\ full_chunk \in 1 .. Wrap \div 2 /\ idle_stale_ms \in 1 .. Wrap \div 2
            /\ full_chunk >= idle_stale_ms + 1
        BY <2>3, FullChunk
      <4>2. d \in 1 .. Wrap \div 2 /\ x.lag <= MaxBusy
        BY <1>4, <1>6, <3>2, <4>1
      <4>3. a' = Armed(x, d)
        BY <3>3, <3>6
      <4>4. /\ a' \in AdapterRecord /\ a'.active
            /\ DeadlineIn(a'.late) >= d - x.lag /\ ~due((a'.late - a'.lag) % Wrap)
            /\ a'.lag = x.lag /\ a'.m_full_chunk_ms = x.m_full_chunk_ms /\ a'.m_baud = x.m_baud
            /\ a'.last_progress = x.last_progress /\ a'.bound = x.bound
        BY <1>6, <4>2, <4>3, ArmedAdapter
      <4>5. ~Overdue'
        BY <4>4 DEF Overdue
      <4>6. DeadlineIn(a'.late) \in Nat
        <5>1. a'.late \in 0 .. Wrap - 1
          BY <4>4 DEF AdapterRecord
        <5> QED BY <5>1, DeadlineDrops
      <4>7. /\ Len(chunk) < ChunkSize => DeadlineIn(a'.late) >= idle_stale_ms - a.lag
            /\ Len(chunk) >= ChunkSize => DeadlineIn(a'.late) >= (idle_stale_ms + 1) - a.lag
        BY <1>4, <1>6, <3>2, <4>1, <4>4, <4>6, Bounds, LineAssumption
      <4> QED BY <1>6, <2>3, <3>3, <3>4, <3>6, <4>4, <4>5, <4>7
    <3> QED BY <3>5, <3>6
  <2> QED BY <2>1, <2>2, <2>3
<1>8. LineTypes'
  BY <1>1, <1>3, <1>7 DEF LineTypes
<1>9. Binding' /\ Passing'
  <2>1. baud # 0
    BY <1>1 DEF Binding
  <2> QED BY <1>1, <1>7, <2>1 DEF Binding, Passing
<1>10. Chunks'
  <2>1. ASSUME deaf, ~gapPending, baud # 0, fifo' = <<>> PROVE ~a'.active
    <3>1. Last(fifo) = <<>>
      BY <1>1, <2>1 DEF Chunks
    <3>2. chunk = <<>>
      BY <1>3, <2>1, <3>1
    <3> QED BY <1>7, <3>2
  <2>2. ASSUME fifo' # <<>>, filling' = <<>>, ~deaf'
        PROVE  Len(Last(fifo')) = 0 \/ Len(Last(fifo')) >= ChunkSize \/ quiet' >= 1
    BY <1>1, <1>3, <2>2 DEF Chunks
  <2>3. fifo' = <<>> /\ ~deaf' => a'.last_progress <= Len(filling')
    BY <1>1, <1>4, <1>7
  <2>4. deaf' => filling' = <<>>
    BY <1>1 DEF Chunks
  <2>5. ASSUME deaf', ~gapPending', baud' # 0
        PROVE  \/ fifo' # <<>> /\ Last(fifo') = <<>>
               \/ pc' = "drain" /\ fifo' = <<>> /\ ~a'.active /\ a'.last_progress = 0
    <3>1. Last(fifo) = <<>>
      BY <1>1, <2>5 DEF Chunks
    <3> QED BY <1>1, <1>3, <1>7, <2>1, <2>5, <3>1
  <2> QED BY <2>2, <2>3, <2>4, <2>5 DEF Chunks
<1>11. Silence'
  <2>1. ASSUME (/\ a.active /\ ~(a.line_resumed /\ Overdue) /\ fifo = <<>> /\ ~deaf
                /\ rx_progress <= a.last_progress)'
        PROVE  (quiet + DeadlineIn(a.late) + Spread >= idle_stale_ms)'
    <3>1. filling = <<>>
      <4>1. rx_progress' = Len(filling)
        BY <1>1, <2>1 DEF rx_progress
      <4>2. Len(filling) = 0
        BY <1>4, <1>7, <2>1, <4>1
      <4> QED BY <4>2, EmptySeq DEF LineTypes
    <3>2. Last(fifo) = chunk /\ chunk # <<>> /\ Len(chunk) # 0
      <4>1. Last(fifo) = chunk /\ chunk # <<>>
        BY <1>3, <1>7, <2>1
      <4> QED BY <1>3, <4>1, EmptySeq
    <3>3. Len(chunk) >= ChunkSize \/ quiet >= 1
      BY <1>1, <2>1, <3>1, <3>2 DEF Chunks
    <3>4. DeadlineIn(a'.late) \in Nat
      <4>1. a'.late \in 0 .. Wrap - 1
        BY <1>7 DEF AdapterRecord
      <4> QED BY <4>1, DeadlineDrops
    <3>5. ChunkSize \in Nat
      BY LineAssumption
    <3>6. CASE Len(chunk) >= ChunkSize
      BY <1>1, <1>4, <1>7, <2>1, <3>4, <3>5, <3>6, Bounds
    <3>7. CASE Len(chunk) < ChunkSize
      BY <1>1, <1>4, <1>7, <2>1, <3>3, <3>4, <3>5, <3>7, Bounds
    <3> QED BY <1>4, <3>5, <3>6, <3>7
  <2>2. a'.active => ~Overdue'
    BY <1>7
  <2> QED BY <2>1, <2>2 DEF Silence
<1>12. Sleep'
  BY <1>1 DEF Sleep
<1> QED BY <1>8, <1>9, <1>10, <1>11, <1>12

\* The end of proceed: an overflow is announced and a chunk is claimed.
LEMMA DrainedKeeps ==
    ASSUME LineInv, Drained
    PROVE  LineInv'
<1> USE DEF LineInv
<1>1. /\ pc = "drain" /\ fifo = <<>> /\ pc' = "finish"
      /\ gapPending' = FALSE /\ deaf' = (baud = 0)
      /\ IF gapPending /\ a.bound THEN on_gap ELSE s' = Begun(s) /\ a' = a
      /\ UNCHANGED <<rest, quiet, baud, filling, fifo, notified, timeout, busy, heardQuiet>>
  BY DEF Drained
<1>2. PICK x : x = [a EXCEPT !.last_progress = 0]
  OBVIOUS
<1>3. /\ x \in AdapterRecord /\ x.last_progress = 0 /\ x.lag = a.lag /\ x.m_baud = a.m_baud
      /\ x.m_full_chunk_ms = a.m_full_chunk_ms /\ x.bound = a.bound
  BY <1>2 DEF LineTypes, AdapterRecord
<1>4. /\ a' \in AdapterRecord /\ IsStream(s') /\ a'.lag = a.lag /\ a'.m_baud = a.m_baud
      /\ a'.m_full_chunk_ms = a.m_full_chunk_ms /\ a'.bound = a.bound
      /\ \/ ~a'.active /\ a'.last_progress = 0
         \/ ~(gapPending /\ a.bound) /\ a' = a /\ (assembling(s') <=> assembling(s))
  <2>1. CASE gapPending /\ a.bound
    <3>1. s' = notify_gap(s) /\ a' = Disarmed(x)
      BY <1>1, <1>2, <2>1 DEF on_gap
    <3>2. /\ a' \in AdapterRecord /\ ~a'.active
          /\ a'.lag = x.lag /\ a'.m_full_chunk_ms = x.m_full_chunk_ms /\ a'.m_baud = x.m_baud
          /\ a'.last_progress = x.last_progress /\ a'.bound = x.bound
      BY <1>3, <3>1, DisarmedAdapter
    <3>3. IsStream(s')
      BY <3>1, GapStream DEF LineTypes
    <3> QED BY <1>3, <3>2, <3>3
  <2>2. CASE ~(gapPending /\ a.bound)
    <3>1. a' = a /\ s' = Begun(s)
      BY <1>1, <2>2
    <3>2. IsStream(s') /\ (assembling(s') <=> assembling(s))
      BY <3>1, BegunStream DEF LineTypes
    <3> QED BY <2>2, <3>1, <3>2 DEF LineTypes
  <2> QED BY <2>1, <2>2
<1>5. LineTypes'
  BY <1>1, <1>4 DEF LineTypes
<1>6. Binding' /\ Passing'
  BY <1>1, <1>4 DEF Binding, Passing
<1>7. a.last_progress \in Nat /\ Len(filling) \in Nat
  BY LenProperties DEF LineTypes, AdapterRecord
<1>8. ASSUME ~deaf' PROVE a'.last_progress <= Len(filling) /\ (deaf => ~a'.active)
  <2>1. baud # 0
    BY <1>1, <1>8
  <2>2. CASE a' = a /\ ~(gapPending /\ a.bound)
    <3>1. CASE deaf
      <4>1. a.last_progress = 0 /\ ~a.active
        BY <1>1, <2>1, <2>2, <3>1 DEF Chunks, Binding
      <4> QED BY <1>7, <2>2, <4>1
    <3>2. CASE ~deaf
      BY <1>1, <2>2, <3>2 DEF Chunks
    <3> QED BY <3>1, <3>2
  <2> QED BY <1>4, <1>7, <2>2
<1>9. Chunks'
  <2>1. deaf' => filling = <<>>
    BY <1>1 DEF Chunks, Binding
  <2> QED BY <1>1, <1>8, <2>1 DEF Chunks
<1>10. Silence'
  <2>1. ASSUME (/\ a.active /\ ~(a.line_resumed /\ Overdue) /\ fifo = <<>> /\ ~deaf
                /\ rx_progress <= a.last_progress)'
        PROVE  (quiet + DeadlineIn(a.late) + Spread >= idle_stale_ms)'
    <3>1. a' = a /\ ~deaf
      BY <1>4, <1>8, <2>1
    <3> QED BY <1>1, <2>1, <3>1 DEF Silence, rx_progress, Overdue
  <2>2. ASSUME (a.active /\ Overdue /\ ~a.line_resumed)'
        PROVE  (heardQuiet + Spread >= idle_stale_ms)'
    <3>1. a' = a /\ ~(gapPending /\ a.bound)
      BY <1>4, <2>2
    <3>2. ~gapPending
      BY <2>2, <3>1 DEF Binding
    <3> QED BY <1>1, <2>2, <3>1, <3>2 DEF Silence, Overdue
  <2> QED BY <1>1, <2>1, <2>2 DEF Silence
<1>11. Sleep'
  <2>1. ~HasChunk(fifo)'
    BY <1>1 DEF HasChunk
  <2> QED BY <1>1, <2>1 DEF Sleep
<1> QED BY <1>5, <1>6, <1>9, <1>10, <1>11

\* bind finds no frame to date.
LEMMA bindKeeps ==
    ASSUME LineInv, bind
    PROVE  LineInv'
<1> USE DEF LineInv
<1>1. /\ pc = "app" /\ ~a.bound /\ baud # 0 /\ a' = [Refreshed(a) EXCEPT !.bound = TRUE]
      /\ UNCHANGED <<rest, quiet, baud, filling, fifo, deaf, gapPending, notified, s, pc, timeout,
                     busy, heardQuiet>>
  BY DEF bind
<1>2. PICK r : r = Refreshed(a)
  OBVIOUS
<1>3. /\ r \in AdapterRecord /\ r.m_full_chunk_ms = chunk_time_ms(ChunkSize, r.m_baud)
      /\ r.m_baud = (IF baud = 0 THEN a.m_baud ELSE baud)
      /\ r.lag = a.lag /\ r.late = a.late /\ r.active = a.active
      /\ r.last_progress = a.last_progress /\ r.line_resumed = a.line_resumed
  <2>1. a \in AdapterRecord /\ a.m_full_chunk_ms = chunk_time_ms(ChunkSize, a.m_baud)
    BY DEF LineTypes, Binding
  <2> QED BY <1>2, <2>1, RefreshedAdapter
<1>4. /\ a' \in AdapterRecord /\ a'.m_full_chunk_ms = chunk_time_ms(ChunkSize, a'.m_baud)
      /\ a'.m_baud = baud /\ a'.bound
      /\ a'.lag = a.lag /\ a'.late = a.late /\ a'.active = a.active
      /\ a'.last_progress = a.last_progress /\ a'.line_resumed = a.line_resumed
  BY <1>1, <1>2, <1>3 DEF AdapterRecord
<1>5. ~a.active
  BY <1>1 DEF Binding
<1>6. LineTypes' /\ Binding' /\ Passing'
  BY <1>1, <1>4, <1>5 DEF LineTypes, Binding, Passing
<1>7. Chunks' /\ Silence'
  BY <1>1, <1>4, <1>5 DEF Chunks, Silence
<1>8. Sleep'
  <2>1. HasChunk(fifo)' <=> HasChunk(fifo)
    BY <1>1 DEF HasChunk
  <2> QED BY <1>1, <2>1 DEF Sleep
<1> QED BY <1>6, <1>7, <1>8

\* unbind leaves none.
LEMMA unbindKeeps ==
    ASSUME LineInv, unbind
    PROVE  LineInv'
<1> USE DEF LineInv
<1>1. /\ pc = "app" /\ s' = discard_incomplete(s)
      /\ a' = [Disarmed(a) EXCEPT !.line_resumed = FALSE, !.last_progress = 0, !.bound = FALSE]
      /\ UNCHANGED <<rest, quiet, baud, filling, fifo, deaf, gapPending, notified, pc, timeout,
                     busy, heardQuiet>>
  BY DEF unbind, detach
<1>2. PICK r : r = Disarmed(a)
  OBVIOUS
<1>3. /\ r \in AdapterRecord /\ ~r.active /\ r.lag = a.lag
      /\ r.m_full_chunk_ms = a.m_full_chunk_ms /\ r.m_baud = a.m_baud
  BY <1>2, DisarmedAdapter DEF LineTypes
<1>4. /\ a' \in AdapterRecord /\ ~a'.active /\ a'.lag = a.lag
      /\ a'.m_full_chunk_ms = a.m_full_chunk_ms /\ a'.m_baud = a.m_baud
      /\ ~a'.bound /\ a'.last_progress = 0 /\ ~a'.line_resumed
  BY <1>1, <1>2, <1>3 DEF AdapterRecord
<1>5. IsStream(s')
  BY <1>1, DiscardStream DEF LineTypes
<1>6. LineTypes' /\ Binding' /\ Passing'
  BY <1>1, <1>4, <1>5 DEF LineTypes, Binding, Passing
<1>7. Chunks' /\ Silence'
  <2>1. Len(filling) \in Nat
    BY LenProperties DEF LineTypes
  <2> QED BY <1>1, <1>4, <2>1 DEF Chunks, Silence
<1>8. Sleep'
  <2>1. HasChunk(fifo)' <=> HasChunk(fifo)
    BY <1>1 DEF HasChunk
  <2> QED BY <1>1, <2>1 DEF Sleep
<1> QED BY <1>6, <1>7, <1>8

\* Another rate: the marker stands behind what was received, or nothing was.
LEMMA SetRateKeeps ==
    ASSUME LineInv, NEW r \in Rates, SetRate(r)
    PROVE  LineInv'
<1> USE DEF LineInv
<1>1. /\ pc = "app" /\ baud' = r /\ filling' = <<>>
      /\ fifo' = (IF deaf THEN fifo ELSE Append(fifo, <<>>))
      /\ gapPending' = (gapPending \/ Len(fifo') = ChunkCount)
      /\ deaf' = gapPending'
      /\ UNCHANGED <<rest, quiet, notified, a, s, pc, timeout, busy, heardQuiet>>
  BY DEF SetRate
<1>2. r # 0 /\ <<>> \in Seq(Byte)
  BY LineAssumption
<1>3. /\ fifo' \in Seq(Seq(Byte))
      /\ ~deaf => fifo' # <<>> /\ Last(fifo') = <<>>
      /\ HasChunk(fifo)' => HasChunk(fifo)
  <2>1. CASE deaf
    BY <1>1, <2>1 DEF LineTypes, HasChunk
  <2>2. CASE ~deaf
    <3>1. PICK q : q = Append(fifo, <<>>)
      OBVIOUS
    <3>2. q \in Seq(Seq(Byte)) /\ q # <<>> /\ Last(q) = <<>> /\ (HasChunk(q) => HasChunk(fifo))
      BY <1>2, <3>1, QueueGrows DEF LineTypes
    <3>3. fifo' = q
      BY <1>1, <2>2, <3>1
    <3>4. HasChunk(fifo)' => HasChunk(q)
      BY <3>3 DEF HasChunk
    <3> QED BY <2>2, <3>2, <3>3, <3>4
  <2> QED BY <2>1, <2>2
<1>4. LineTypes'
  <2>1. deaf' \in BOOLEAN /\ gapPending' \in BOOLEAN
    BY <1>1 DEF LineTypes
  <2>2. filling' \in Seq(Byte)
    BY <1>1, <1>2
  <2> QED BY <1>1, <1>3, <2>1, <2>2 DEF LineTypes
<1>5. Binding' /\ Passing'
  BY <1>1, <1>2 DEF Binding, Passing
\* The reception is up again only behind a marker, or bytes were never received.
<1>6. ASSUME ~deaf'
      PROVE  \/ fifo' # <<>> /\ Last(fifo') = <<>>
             \/ fifo' = <<>> /\ a.last_progress = 0 /\ ~a.active
  <2>1. CASE ~deaf
    BY <1>3, <2>1
  <2>2. CASE deaf
    <3>1. ~gapPending /\ fifo' = fifo
      BY <1>1, <1>6, <2>2
    <3>2. CASE baud = 0
      BY <3>1, <3>2 DEF Binding
    <3>3. CASE baud # 0
      <4>1. fifo # <<>> /\ Last(fifo) = <<>>
        BY <1>1, <2>2, <3>1, <3>3 DEF Chunks
      <4> QED BY <3>1, <4>1
    <3> QED BY <3>2, <3>3
  <2> QED BY <2>1, <2>2
<1>7. Len(<<>>) = 0
  OBVIOUS
<1>8. Chunks' /\ Silence'
  BY <1>1, <1>6, <1>7 DEF Chunks, Silence
<1>9. Sleep'
  BY <1>1, <1>3 DEF Sleep
<1> QED BY <1>4, <1>5, <1>8, <1>9

\* The application takes and drops packets.
LEMMA ApplicationKeeps ==
    ASSUME LineInv, pop_packet \/ DropPacket
    PROVE  LineInv'
<1> USE DEF LineInv
<1>1. s' = dequeue(Begun(s)) \/ s' = release_rx(Begun(s))
  BY DEF pop_packet, DropPacket
<1>2. IsStream(s') /\ (assembling(s') <=> assembling(s))
  <2>1. IsStream(Begun(s)) /\ (assembling(Begun(s)) <=> assembling(s))
    BY BegunStream DEF LineTypes
  <2>2. PICK t : t = Begun(s)
    OBVIOUS
  <2> QED BY <1>1, <2>1, <2>2, DequeueStream, ReleaseStream
<1>3. UNCHANGED <<rest, quiet, baud, filling, fifo, deaf, gapPending, notified, a,
                  pc, timeout, busy, heardQuiet>>
  BY DEF pop_packet, DropPacket
<1> QED BY <1>2, <1>3, QuietKeeps

\* A candidate comes only while no adapter is bound.
LEMMA OfferKeeps ==
    ASSUME LineInv, NEW adu, Offer(adu)
    PROVE  LineInv'
<1> USE DEF LineInv
<1>1. /\ ~a.bound /\ s' = receive_adu(s, adu) /\ pc = "app"
      /\ UNCHANGED <<rest, quiet, baud, filling, fifo, deaf, gapPending, notified, a,
                     pc, timeout, busy, heardQuiet>>
  BY DEF Offer
<1>2. IsStream(s')
  BY <1>1, CandidateStream DEF LineTypes
<1>3. LineTypes' /\ Binding' /\ Passing'
  BY <1>1, <1>2 DEF LineTypes, Binding, Passing
<1>4. Chunks' /\ Silence'
  BY <1>1 DEF Chunks, Silence, Binding
<1>5. Sleep'
  <2>1. HasChunk(fifo)' <=> HasChunk(fifo)
    BY <1>1 DEF HasChunk
  <2> QED BY <1>1, <2>1 DEF Sleep
<1> QED BY <1>3, <1>4, <1>5

-----------------------------------------------------------------------------
\* The invariant holds at first ...
LEMMA LineInit ==
    ASSUME Init
    PROVE  LineInv
<1> USE DEF Init
<1>1. a \in AdapterRecord
  BY LineAssumption DEF Detached, AdapterRecord
<1>2. IsStream(s)
  BY DEF NewStream, IsStream, StreamFields
<1>3. 0 \in 0 .. MaxBusy /\ 0 \in 0 .. MaxQuiet
  BY Bounds, LineAssumption
<1>4. LineTypes
  <2>1. rest \in Seq(Byte) /\ filling \in Seq(Byte) /\ fifo \in Seq(Seq(Byte))
    OBVIOUS
  <2> QED BY <1>1, <1>2, <1>3, <2>1 DEF LineTypes
<1>5. Binding /\ Passing
  BY <1>3 DEF Binding, Passing, Detached, chunk_time_ms
<1>6. Chunks /\ Silence /\ Sleep
  BY DEF Chunks, Silence, Sleep, Detached, HasChunk
<1> QED BY <1>4, <1>5, <1>6 DEF LineInv

\* ... and every step keeps it.
LEMMA LineStep ==
    ASSUME LineInv, [Next]_vars
    PROVE  LineInv'
<1>1. CASE UNCHANGED vars
  <2>1. UNCHANGED <<rest, quiet, baud, filling, fifo, deaf, gapPending, notified, a, s,
                    pc, timeout, busy, heardQuiet>>
    BY <1>1 DEF vars
  <2>2. IsStream(s') /\ (assembling(s') <=> assembling(s))
    BY <2>1 DEF LineInv, LineTypes
  <2> QED BY <2>1, <2>2, QuietKeeps
<1>2. CASE Next
  BY <1>2, TickKeeps, LineFaultKeeps, waitKeeps, TakeKeeps, WakeKeeps, prepareKeeps, DrainKeeps,
     DrainedKeeps, finishKeeps, bindKeeps, unbindKeeps, SetRateKeeps, ApplicationKeeps, OfferKeeps
     DEF Next
<1> QED BY <1>1, <1>2

\* The adapter, the driver under it and the wake agree for every chunk size, depth, rate
\* and pass within the assumptions: the strengthening of the two properties below
\* (adapters/uart/ModbusRtuAdapter.h, FreeRtosWake.h).
THEOREM LineInvariant == Spec => []LineInv
BY LineInit, LineStep, PTL DEF Spec

\* NoOversleeping: received bytes have notified the task that sleeps, and it sleeps no
\* longer than to the deadline of its frame and its own pass (FreeRtosWake::wait,
\* Adapter::deadline_in_ms).
THEOREM ReceiverSleepsInTime == Spec => []NoOversleeping
<1>1. ASSUME LineInv PROVE NoOversleeping
  <2>1. deadline_in_ms = DeadlineIn(a.late)
    BY DEF deadline_in_ms, DeadlineIn
  <2> QED BY <1>1, <2>1 DEF LineInv, Sleep, NoOversleeping, HasChunk
<1> QED BY <1>1, LineInvariant, PTL

\* OnlySilenceKills: a verdict falls only on a line that was silent for idle_stale_ms, up to
\* what the pass itself takes, however late its chunks were drained
\* (Adapter::prepare, on_rx, finish).
THEOREM FramesDieOfSilence == Spec => OnlySilenceKills
<1>1. ASSUME LineInv, [Next]_vars
      PROVE  [pc = "finish" /\ assembling(s) /\ ~assembling(s')
                => heardQuiet + Spread >= idle_stale_ms]_vars
  <2>1. SUFFICES ASSUME Next, pc = "finish", assembling(s), ~assembling(s')
                 PROVE  heardQuiet + Spread >= idle_stale_ms
    BY <1>1
  <2>2. CASE finish
    <3>1. CASE a.active /\ Overdue /\ ~a.line_resumed
      BY <1>1, <2>1, <3>1 DEF LineInv, Silence
    <3>2. CASE ~(a.active /\ Overdue /\ ~a.line_resumed)
      <4>1. s' = Begun(s)
        BY <2>2, <3>2 DEF finish, Overdue
      <4>2. IsStream(s)
        BY <1>1 DEF LineInv, LineTypes
      <4> QED BY <2>1, <4>1, <4>2, BegunStream
    <3> QED BY <3>1, <3>2
  <2>3. CASE ~finish
    <3>1. Tick \/ LineFault
      BY <2>1, <2>3 DEF Next, wait, Take, Wake, prepare, Drain, Drained, bind, unbind, SetRate,
         pop_packet, DropPacket, Offer
    <3>2. s' = s
      BY <3>1 DEF Tick, TickPasses, LineFault
    <3> QED BY <2>1, <3>2
  <2> QED BY <2>2, <2>3
<1> QED BY <1>1, LineInvariant, PTL DEF Spec, OnlySilenceKills

-----------------------------------------------------------------------------
(* The reference, and sizes: a header says all of the size of its frame.   *)

Layout(w) == Framer(Rx, w[2])
Known(w) ==
    /\ Len(w) >= 2 /\ supported(Layout(w)) /\ Len(w) >= 2 + header_size(Layout(w))
SizeOf(w) == (2 + Format.crc_size) + data_size(Layout(w), SubSeq(w, 3, Len(w)))
Sound(w) == SubSeq(w, (Len(w) - Format.crc_size) + 1, Len(w))
              = Checksum(SubSeq(w, 1, Len(w) - Format.crc_size))

\* The reference speaks of the same format and policy.
LEMMA ReferenceTerms ==
    ASSUME NEW w
    PROVE  /\ Reference!HeaderKnown(w) <=> Known(w)
           /\ Reference!AduSize(w) = SizeOf(w)
           /\ Reference!Intact(w) <=> Sound(w)
           /\ Reference!max_adu_size(Format) = max_adu_size(Format)
           /\ Reference!supported(Layout(w)) <=> supported(Layout(w))
           /\ Reference!header_size(Layout(w)) = header_size(Layout(w))
           /\ Reference!adu_prefix_size = 2
<1>1. Reference!HeaderKnown(w) <=> Known(w)
  BY DEF Known, Layout, Reference!HeaderKnown, Reference!supported, supported,
         Reference!header_size, header_size, Reference!adu_prefix_size
<1>2. Reference!AduSize(w) = SizeOf(w)
  <2>1. Reference!data_size(Framer(Rx, w[2]), SubSeq(w, 3, Len(w)))
          = data_size(Framer(Rx, w[2]), SubSeq(w, 3, Len(w)))
    BY DEF Reference!data_size, data_size, Reference!load, load, Reference!header_size, header_size
  <2> QED BY <2>1 DEF SizeOf, Layout, Reference!AduSize, Reference!adu_size_for_data,
             Reference!adu_overhead, Reference!adu_prefix_size
<1>3. Reference!max_adu_size(Format) = max_adu_size(Format)
  BY DEF Reference!max_adu_size, max_adu_size, Reference!adu_overhead, adu_overhead,
         Reference!adu_prefix_size, adu_prefix_size
<1>4. /\ Reference!supported(Layout(w)) <=> supported(Layout(w))
      /\ Reference!header_size(Layout(w)) = header_size(Layout(w))
  BY DEF Reference!supported, supported, Reference!header_size, header_size
<1> QED BY <1>1, <1>2, <1>3, <1>4 DEF Reference!Intact, Sound, Reference!adu_prefix_size

\* What is known of the layout of a received function.
IsLayout(layout) ==
    /\ layout.kind \in {"Unsupported", "Fixed", "Counted"} /\ layout.size \in Nat
    /\ layout.offset \in Nat
    /\ layout.kind = "Counted" => layout.width \in {1, 2}

\* A layout of the policy ...
LEMMA PolicyLayout ==
    ASSUME NEW function \in Byte
    PROVE  IsLayout(Framer(Rx, function))
<1>1. PICK layout : layout = Framer(Rx, function)
  OBVIOUS
<1>2. layout \in FramingLayout /\ (layout.kind = "Counted" => layout.width \in {1, 2})
  BY <1>1, PolicyAssumption
<1>3. 0 .. max_header_size \subseteq Nat /\ 0 .. max_fixed_size \subseteq Nat
  <2>1. max_header_size \in Nat /\ max_fixed_size \in Nat
    BY DEF max_header_size, max_fixed_size, UINT16_MAX
  <2> QED BY <2>1
<1>4. /\ layout.kind \in {"Unsupported", "Fixed", "Counted"}
      /\ layout.offset \in 0 .. max_header_size /\ layout.size \in 0 .. max_fixed_size
  BY <1>2 DEF FramingLayout
<1> QED BY <1>1, <1>2, <1>3, <1>4 DEF IsLayout

\* ... its header ...
LEMMA HeaderSize ==
    ASSUME NEW layout, IsLayout(layout)
    PROVE  /\ header_size(layout) \in Nat
           /\ layout.kind = "Counted" => header_size(layout) = layout.offset + layout.width
BY DEF header_size, IsLayout

\* ... and the one of a received function.
LEMMA ReceivedLayout ==
    ASSUME NEW w \in Seq(Byte), Len(w) >= 2
    PROVE  IsLayout(Layout(w)) /\ header_size(Layout(w)) \in Nat
<1>1. w[2] \in Byte
  <2>1. Len(w) \in Nat
    BY LenProperties
  <2>2. 2 \in 1 .. Len(w)
    BY <2>1
  <2> QED BY <2>2, ElementOfSeq
<1> QED BY <1>1, PolicyLayout, HeaderSize DEF Layout

\* The bytes of the count.
Counted(w, layout) ==
    IF layout.width = 1 THEN w[layout.offset + 3]
    ELSE IF layout.order = "big" THEN 256 * w[layout.offset + 3] + w[layout.offset + 4]
    ELSE 256 * w[layout.offset + 4] + w[layout.offset + 3]

\* The count lies in the header.
LEMMA CountInHeader ==
    ASSUME NEW w \in Seq(Byte), NEW layout, IsLayout(layout), layout.kind = "Counted",
           Len(w) >= 2 + header_size(layout)
    PROVE  /\ load(layout, SubSeq(w, 3, Len(w))) = Counted(w, layout)
           /\ Counted(w, layout) \in Nat
           /\ w[layout.offset + 3] \in Byte
           /\ layout.width = 2 => w[layout.offset + 4] \in Byte
           /\ (layout.offset + layout.width) + 2 <= Len(w)
<1>1. PICK o \in Nat, d \in {1, 2} : o = layout.offset /\ d = layout.width
  BY DEF IsLayout
<1>2. Len(w) \in Nat /\ (o + d) + 2 <= Len(w)
  BY <1>1, HeaderSize, LenProperties
<1>3. \A i \in 3 .. Len(w) : w[i] \in Byte
  BY <1>2, ElementOfSeq
<1>4. PICK u : u = SubSeq(w, 3, Len(w))
  OBVIOUS
<1>5. \A i \in 1 .. Len(w) - 2 : u[i] = w[2 + i]
  BY <1>2, <1>3, <1>4, SubSeqProperties
<1>6. u[o + 1] = w[o + 3] /\ w[o + 3] \in Byte
  <2>1. o + 1 \in 1 .. Len(w) - 2 /\ 2 + (o + 1) = o + 3 /\ o + 3 \in 3 .. Len(w)
    BY <1>2
  <2> QED BY <1>3, <1>5, <2>1
<1>7. ASSUME d = 2 PROVE u[o + 2] = w[o + 4] /\ w[o + 4] \in Byte
  <2>1. o + 2 \in 1 .. Len(w) - 2 /\ 2 + (o + 2) = o + 4 /\ o + 4 \in 3 .. Len(w)
    BY <1>2, <1>7
  <2> QED BY <1>3, <1>5, <2>1
<1>8. load(layout, u) = IF d = 1 THEN u[o + 1]
                        ELSE IF layout.order = "big" THEN 256 * u[o + 1] + u[o + 2]
                        ELSE 256 * u[o + 2] + u[o + 1]
  BY <1>1 DEF load
<1>9. Counted(w, layout) = IF d = 1 THEN w[o + 3]
                           ELSE IF layout.order = "big" THEN 256 * w[o + 3] + w[o + 4]
                           ELSE 256 * w[o + 4] + w[o + 3]
  BY <1>1 DEF Counted
<1>10. load(layout, u) = Counted(w, layout)
  <2>1. CASE d = 1
    BY <1>6, <1>8, <1>9, <2>1
  <2>2. CASE d # 1
    BY <1>6, <1>7, <1>8, <1>9, <2>2
  <2> QED BY <2>1, <2>2
<1>11. Counted(w, layout) \in Nat
  <2>1. \A b \in Byte : b \in Nat
    BY DEF Byte
  <2>2. w[o + 3] \in Nat
    BY <1>6, <2>1
  <2>3. ASSUME d = 2 PROVE w[o + 4] \in Nat
    BY <1>7, <2>1, <2>3
  <2> QED BY <1>9, <2>2, <2>3, SMTT(30)
<1> QED BY <1>1, <1>2, <1>4, <1>6, <1>7, <1>10, <1>11

\* How much data a header names.
LEMMA DataSize ==
    ASSUME NEW w \in Seq(Byte), NEW layout, IsLayout(layout),
           Len(w) >= 2 + header_size(layout)
    PROVE  /\ data_size(layout, SubSeq(w, 3, Len(w)))
                = (IF layout.kind = "Fixed" THEN layout.size
                   ELSE IF layout.kind = "Counted" THEN header_size(layout) + Counted(w, layout)
                   ELSE 0)
           /\ data_size(layout, SubSeq(w, 3, Len(w))) \in Nat
           /\ supported(layout) => data_size(layout, SubSeq(w, 3, Len(w))) >= header_size(layout)
<1>1. PICK k \in {"Unsupported", "Fixed", "Counted"} : k = layout.kind
  BY DEF IsLayout
<1>2. PICK h \in Nat : h = header_size(layout) /\ (k # "Counted" => h = 0)
  BY <1>1, HeaderSize DEF header_size
<1>3. CASE k = "Fixed"
  <2>1. data_size(layout, SubSeq(w, 3, Len(w))) = layout.size
    BY <1>1, <1>3 DEF data_size
  <2> QED BY <1>1, <1>2, <1>3, <2>1 DEF IsLayout
<1>4. CASE k = "Counted"
  <2>1. PICK c \in Nat : c = Counted(w, layout) /\ load(layout, SubSeq(w, 3, Len(w))) = c
    BY <1>1, <1>4, CountInHeader
  <2>2. data_size(layout, SubSeq(w, 3, Len(w))) = h + c
    BY <1>1, <1>2, <1>4, <2>1 DEF data_size
  <2> QED BY <1>1, <1>2, <1>4, <2>1, <2>2
<1>5. CASE k = "Unsupported"
  <2>1. data_size(layout, SubSeq(w, 3, Len(w))) = 0
    BY <1>1, <1>5 DEF data_size
  <2> QED BY <1>1, <1>2, <1>5, <2>1 DEF supported
<1> QED BY <1>3, <1>4, <1>5

\* The size of a frame, from its header.
LEMMA SizeIsSize ==
    ASSUME NEW w \in Seq(Byte), Known(w)
    PROVE  /\ SizeOf(w) \in Nat /\ SizeOf(w) >= 2 + Format.crc_size
           /\ SizeOf(w) >= 2 + header_size(Layout(w)) /\ header_size(Layout(w)) \in Nat
           /\ Format.crc_size \in Nat
<1>1. IsLayout(Layout(w)) /\ header_size(Layout(w)) \in Nat /\ Format.crc_size \in Nat
  BY ReceivedLayout, PolicyAssumption DEF Known
<1>2. PICK n : n = data_size(Layout(w), SubSeq(w, 3, Len(w)))
  OBVIOUS
<1>3. n \in Nat /\ n >= header_size(Layout(w))
  BY <1>1, <1>2, DataSize DEF Known
<1> QED BY <1>1, <1>2, <1>3 DEF SizeOf

\* A frame's header says all of its size: more bytes do not change it.
LEMMA SizeOfMore ==
    ASSUME NEW v \in Seq(Byte), NEW w \in Seq(Byte), Known(v), Len(v) <= Len(w),
           \A i \in 1 .. Len(v) : v[i] = w[i]
    PROVE  Known(w) /\ SizeOf(w) = SizeOf(v) /\ Layout(w) = Layout(v)
<1>1. Len(v) \in Nat /\ Len(w) \in Nat /\ Len(v) >= 2
  BY LenProperties DEF Known
<1>2. Layout(w) = Layout(v)
  BY <1>1 DEF Layout
<1>3. PICK layout : layout = Layout(v)
  OBVIOUS
<1>4. IsLayout(layout) /\ header_size(layout) \in Nat
  BY <1>1, <1>3, ReceivedLayout
<1>5. Known(w) /\ Len(v) >= 2 + header_size(layout) /\ Len(w) >= 2 + header_size(layout)
  BY <1>1, <1>2, <1>3, <1>4 DEF Known
<1>6. ASSUME layout.kind = "Counted" PROVE Counted(w, layout) = Counted(v, layout)
  <2>1. PICK o \in Nat, d \in {1, 2} : o = layout.offset /\ d = layout.width
    BY <1>4, <1>6 DEF IsLayout
  <2>2. (o + d) + 2 <= Len(v)
    BY <1>4, <1>5, <1>6, <2>1, CountInHeader
  <2>3. v[o + 3] = w[o + 3] /\ (d = 2 => v[o + 4] = w[o + 4])
    <3>1. PICK n \in Nat : n = Len(v)
      BY <1>1
    <3>2. o + 3 \in 1 .. n /\ (d = 2 => o + 4 \in 1 .. n)
      BY <2>2, <3>1
    <3>3. \A i \in 1 .. n : v[i] = w[i]
      BY <3>1
    <3> QED BY <3>2, <3>3
  <2> QED BY <2>1, <2>3 DEF Counted
<1>7. data_size(layout, SubSeq(w, 3, Len(w))) = data_size(layout, SubSeq(v, 3, Len(v)))
  BY <1>4, <1>5, <1>6, DataSize
<1> QED BY <1>2, <1>3, <1>5, <1>7 DEF SizeOf

\* ReadFrom, with its cases named.
Passed(refused, granted, p, f) == IF p = 1 /\ (refused \/ granted) THEN refused ELSE f = 0
Skipped(refused, granted, p, f) ==
    IF Passed(refused, granted, p, f) /\ ~(p = 1 /\ refused) THEN <<"skipped_frames">> ELSE <<>>
Left(granted, p, f) == IF p = 1 /\ granted THEN f ELSE f - 1

Lost(cause, used, v) ==
    [delivered |-> <<>>, open |-> <<>>,
     lost |-> IF Len(v) > used THEN <<cause, "resyncs">> ELSE <<cause>>]
Opens(v, lost) == [delivered |-> <<>>, open |-> v, lost |-> lost]
Joined(delivered, lost, later) ==
    [delivered |-> delivered \o later.delivered, open |-> later.open, lost |-> lost \o later.lost]

FromTerms(refused, granted, from, p, f, v) ==
    IF Len(v) < 2 THEN Opens(v, <<>>)
    ELSE IF ~supported(Layout(v)) THEN Lost("unsupported_function", 2, v)
    ELSE IF ~Known(v) THEN Opens(v, <<>>)
    ELSE IF SizeOf(v) > max_adu_size(Format)
    THEN Lost("oversize", 2 + header_size(Layout(v)), v)
    ELSE IF Len(v) < SizeOf(v) THEN Opens(v, Skipped(refused, granted, p, f))
    ELSE IF Passed(refused, granted, p, f)
    THEN Joined(<<>>, Skipped(refused, granted, p, f), from[p + SizeOf(v)][f])
    ELSE IF ~Sound(SubSeq(v, 1, SizeOf(v))) THEN Lost("crc_errors", SizeOf(v), v)
    ELSE Joined(<<SubSeq(v, 1, SizeOf(v))>>, <<>>, from[p + SizeOf(v)][Left(granted, p, f)])

\* What stands from p on.
Rest(w, p) == SubSeq(w, p, Len(w))

\* The bytes from p on.
LEMMA RestOf ==
    ASSUME NEW w \in Seq(Byte), NEW p \in 1 .. Len(w) + 1
    PROVE  /\ Rest(w, p) \in Seq(Byte) /\ Len(Rest(w, p)) = (Len(w) - p) + 1
           /\ \A i \in 1 .. (Len(w) - p) + 1 : Rest(w, p)[i] = w[(p + i) - 1]
<1>1. Len(w) \in Nat
  BY LenProperties
<1>2. \A i \in p .. Len(w) : w[i] \in Byte
  BY <1>1, ElementOfSeq
<1>3. /\ SubSeq(w, p, Len(w)) \in Seq(Byte)
      /\ Len(SubSeq(w, p, Len(w))) = (IF p <= Len(w) THEN Len(w) - p + 1 ELSE 0)
      /\ \A i \in 1 .. Len(w) - p + 1 : SubSeq(w, p, Len(w))[i] = w[p + i - 1]
  BY <1>1, <1>2, SubSeqProperties
<1> QED BY <1>1, <1>3 DEF Rest

\* The reference reads a place by those cases.
LEMMA FromIs ==
    ASSUME NEW w, NEW refused, NEW granted, NEW from, NEW p, NEW f
    PROVE  Reference!ReadFrom(w, refused, granted, from, p, f)
             = FromTerms(refused, granted, from, p, f, Rest(w, p))
<1>1. PICK v : v = Rest(w, p)
  OBVIOUS
<1>2. /\ Reference!HeaderKnown(v) <=> Known(v)
      /\ Reference!AduSize(v) = SizeOf(v)
      /\ Reference!max_adu_size(Format) = max_adu_size(Format)
      /\ Reference!supported(Framer(Rx, v[2])) <=> supported(Framer(Rx, v[2]))
      /\ Reference!header_size(Framer(Rx, v[2])) = header_size(Framer(Rx, v[2]))
      /\ Reference!adu_prefix_size = 2
  BY ReferenceTerms DEF Layout
<1>3. Reference!Intact(SubSeq(v, 1, SizeOf(v))) <=> Sound(SubSeq(v, 1, SizeOf(v)))
  BY ReferenceTerms
<1>4. \A cause, used : Reference!Dropped(cause, used, v) = Lost(cause, used, v)
  BY DEF Reference!Dropped, Lost
<1>5. \A lost : Reference!Open(v, lost) = Opens(v, lost)
  BY DEF Reference!Open, Opens
<1>6. \A d, l, x : Reference!Then(d, l, x) = Joined(d, l, x)
  BY DEF Reference!Then, Joined
<1>7. PICK r : r = Reference!ReadFrom(w, refused, granted, from, p, f)
  OBVIOUS
<1>8. r = CASE Len(v) < 2 -> Opens(v, <<>>)
            [] Len(v) >= 2 /\ ~supported(Layout(v)) -> Lost("unsupported_function", 2, v)
            [] Len(v) >= 2 /\ supported(Layout(v)) /\ ~Known(v) -> Opens(v, <<>>)
            [] OTHER ->
                IF SizeOf(v) > max_adu_size(Format)
                THEN Lost("oversize", 2 + header_size(Layout(v)), v)
                ELSE IF Len(v) < SizeOf(v) THEN Opens(v, Skipped(refused, granted, p, f))
                ELSE IF Passed(refused, granted, p, f)
                THEN Joined(<<>>, Skipped(refused, granted, p, f), from[p + SizeOf(v)][f])
                ELSE IF ~Sound(SubSeq(v, 1, SizeOf(v))) THEN Lost("crc_errors", SizeOf(v), v)
                 ELSE Joined(<<SubSeq(v, 1, SizeOf(v))>>, <<>>,
                             from[p + SizeOf(v)][Left(granted, p, f)])
  BY <1>1, <1>2, <1>3, <1>4, <1>5, <1>6, <1>7, Zenon DEF Reference!ReadFrom, Passed, Skipped, Left,
        Rest, Layout
<1> QED BY <1>1, <1>7, <1>8 DEF FromTerms

\* What stands for the places from p on, one place given those behind it.
Row(w, refused, granted, free, from, p) ==
    [f \in 0 .. free |-> Reference!ReadFrom(w, refused, granted, from, p, f)]
From(w, refused, granted, free) == Reference!Readings(w, refused, granted, free)

\* The recursion over the places, as its definition chooses it.
LEMMA FromDefined ==
    ASSUME NEW w, NEW refused, NEW granted, NEW free
    PROVE  From(w, refused, granted, free)
              = CHOOSE from : from = [p \in 1 .. Len(w) + 1 |->
                                        Row(w, refused, granted, free, from, p)]
BY DEF From, Row, Reference!Readings

\* A place is read from what stands behind it.
LEMMA RowBehind ==
    ASSUME NEW w \in Seq(Byte), NEW refused, NEW granted \in BOOLEAN, NEW free \in Nat,
           NEW from, NEW other, NEW p \in 1 .. Len(w) + 1,
           \A q \in p + 1 .. Len(w) + 1 : from[q] = other[q]
    PROVE  Row(w, refused, granted, free, from, p) = Row(w, refused, granted, free, other, p)
<1>1. ASSUME NEW f \in 0 .. free
      PROVE  Reference!ReadFrom(w, refused, granted, from, p, f)
               = Reference!ReadFrom(w, refused, granted, other, p, f)
  <2>1. PICK v : v = Rest(w, p)
    OBVIOUS
  <2>2. v \in Seq(Byte) /\ Len(v) = (Len(w) - p) + 1 /\ Len(w) \in Nat
    BY <2>1, RestOf, LenProperties
  <2>3. ASSUME Known(v), ~(SizeOf(v) > max_adu_size(Format)), ~(Len(v) < SizeOf(v))
        PROVE  from[p + SizeOf(v)] = other[p + SizeOf(v)]
    <3>1. SizeOf(v) \in Nat /\ SizeOf(v) >= 2 + Format.crc_size /\ Format.crc_size \in Nat
      BY <2>2, <2>3, SizeIsSize
    <3>2. p + SizeOf(v) \in p + 1 .. Len(w) + 1
      BY <2>2, <2>3, <3>1, SMTT(30)
    <3> QED BY <3>2
  <2>4. FromTerms(refused, granted, from, p, f, v) = FromTerms(refused, granted, other, p, f, v)
    BY <2>3 DEF FromTerms
  <2> QED BY <2>1, <2>4, FromIs
<1> QED BY <1>1 DEF Row

\* The recursion has a solution: the last places first.
LEMMA ReadingsExist ==
    ASSUME NEW w \in Seq(Byte), NEW refused, NEW granted \in BOOLEAN, NEW free \in Nat
    PROVE  \E from : from = [p \in 1 .. Len(w) + 1 |-> Row(w, refused, granted, free, from, p)]
<1> DEFINE N == Len(w) + 1
           R(from, p) == Row(w, refused, granted, free, from, p)
           Good(from, k) == from = [p \in (N - k) .. N |-> R(from, p)]
           T == {k \in 0 .. Len(w) : ~(\E from : Good(from, k))}
<1>0. Len(w) \in Nat
  BY LenProperties
<1>1. ASSUME NEW k \in T, \A j \in T : k <= j PROVE FALSE
  <2>0. k \in Nat /\ k <= Len(w) /\ N - k \in 1 .. N
    BY <1>0
  <2>1. PICK h : \A p \in (N - k) + 1 .. N : h[p] = R(h, p)
    <3>1. CASE k = 0
      <4> HIDE DEF R
      <4> QED BY <1>0, <3>1
    <3>2. CASE k # 0
      <4>1. k - 1 \in 0 .. Len(w) /\ ~(k <= k - 1)
        BY <1>0, <2>0, <3>2
      <4>a. k - 1 \notin T
        <5> HIDE DEF T
        <5> QED BY <1>1, <4>1
      <4>2. PICK h : Good(h, k - 1)
        BY <4>1, <4>a
      <4>3. (N - k) + 1 = N - (k - 1)
        BY <1>0, <2>0
      <4> HIDE DEF R
      <4> QED BY <4>2, <4>3
    <3> QED BY <3>1, <3>2
  <2> DEFINE g == [p \in (N - k) .. N |-> R(h, p)]
  <2>2. \A p \in (N - k) .. N : g[p] = R(h, p)
    <3> HIDE DEF R
    <3> QED OBVIOUS
  <2>3. \A p \in (N - k) + 1 .. N : g[p] = h[p]
    <3>1. \A p \in (N - k) + 1 .. N : p \in (N - k) .. N
      BY <1>0, <2>0
    <3> HIDE DEF R, g
    <3> QED BY <2>1, <2>2, <3>1
  <2>4. g = [p \in (N - k) .. N |-> g[p]]
    <3> HIDE DEF R
    <3> QED OBVIOUS
  <2> HIDE DEF g
  <2>5. \A p \in (N - k) .. N : R(g, p) = R(h, p)
    <3> TAKE p \in (N - k) .. N
    <3>1. p \in 1 .. N /\ \A q \in p + 1 .. N : q \in (N - k) + 1 .. N
      BY <1>0, <2>0
    <3>2. \A q \in p + 1 .. N : g[q] = h[q]
      BY <2>3, <3>1
    <3> QED BY <3>1, <3>2, RowBehind
  <2>6. Good(g, k)
    <3> HIDE DEF R
    <3> QED BY <2>2, <2>4, <2>5
  <2> QED BY <2>6
<1>2. T = {}
  <2>1. T \in SUBSET Nat
    OBVIOUS
  <2> HIDE DEF T
  <2> QED BY <1>1, <2>1, LeastElement
<1>3. PICK from : Good(from, Len(w))
  BY <1>0, <1>2
<1>4. N - Len(w) = 1
  BY <1>0
<1> QED BY <1>3, <1>4

\* What a place stands for, from what stands behind it.
LEMMA ReadingsUnfold ==
    ASSUME NEW w \in Seq(Byte), NEW refused, NEW granted \in BOOLEAN, NEW free \in Nat,
           NEW p \in 1 .. Len(w) + 1, NEW f \in 0 .. free
    PROVE  From(w, refused, granted, free)[p][f]
             = FromTerms(refused, granted, From(w, refused, granted, free), p, f, Rest(w, p))
<1>1. From(w, refused, granted, free)
         = [q \in 1 .. Len(w) + 1 |->
              Row(w, refused, granted, free, From(w, refused, granted, free), q)]
  BY ReadingsExist, FromDefined, ZenonT(40)
<1>2. PICK from : from = From(w, refused, granted, free)
  OBVIOUS
<1>3. from[p] = Row(w, refused, granted, free, from, p)
  BY <1>1, <1>2
<1>4. from[p][f] = Reference!ReadFrom(w, refused, granted, from, p, f)
  BY <1>3 DEF Row
<1> QED BY <1>2, <1>4, FromIs

\* A verdict: what is delivered, what stays open, what is lost.
IsVerdict(r) ==
    /\ r = [delivered |-> r.delivered, open |-> r.open, lost |-> r.lost]
    /\ r.delivered \in Seq(Seq(Byte)) /\ r.open \in Seq(Byte) /\ r.lost \in Seq(Losses)

\* What each case makes is a verdict.
LEMMA JoinedVerdict ==
    ASSUME NEW d \in Seq(Seq(Byte)), NEW l \in Seq(Losses), NEW r, IsVerdict(r)
    PROVE  IsVerdict(Joined(d, l, r))
<1>1. d \o r.delivered \in Seq(Seq(Byte)) /\ l \o r.lost \in Seq(Losses)
  BY ConcatProperties DEF IsVerdict
<1> QED BY <1>1 DEF IsVerdict, Joined

\* One cause of loss.
LEMMA OneLoss ==
    ASSUME NEW x \in Losses
    PROVE  <<x>> \in Seq(Losses)
OBVIOUS

\* An error is a verdict ...
LEMMA LostVerdict ==
    ASSUME NEW cause \in Losses, NEW used, NEW v
    PROVE  IsVerdict(Lost(cause, used, v))
<1>1. <<>> \in Seq(Seq(Byte)) /\ <<>> \in Seq(Byte)
  OBVIOUS
<1>2. <<cause, "resyncs">> \in Seq(Losses) /\ <<cause>> \in Seq(Losses)
  <2>1. <<cause>> \in Seq(Losses) /\ "resyncs" \in Losses
    BY OneLoss DEF Losses
  <2>2. PICK x \in Losses : x = "resyncs"
    BY <2>1
  <2>3. <<cause, x>> \in Seq(Losses)
    OBVIOUS
  <2> QED BY <2>1, <2>2, <2>3
<1> QED BY <1>1, <1>2 DEF IsVerdict, Lost

\* ... an open frame too ...
LEMMA OpensVerdict ==
    ASSUME NEW v \in Seq(Byte), NEW l \in Seq(Losses)
    PROVE  IsVerdict(Opens(v, l))
<1>1. <<>> \in Seq(Seq(Byte))
  OBVIOUS
<1> QED BY <1>1 DEF IsVerdict, Opens

\* ... and what is skipped is a loss.
LEMMA SkippedLosses ==
    ASSUME NEW refused, NEW granted, NEW p, NEW f
    PROVE  Skipped(refused, granted, p, f) \in Seq(Losses)
<1>1. <<"skipped_frames">> \in Seq(Losses) /\ <<>> \in Seq(Losses)
  <2>1. "skipped_frames" \in Losses
    BY DEF Losses
  <2> QED BY <2>1, OneLoss
<1> QED BY <1>1 DEF Skipped

\* Every place has a verdict.
LEMMA ReadingVerdict ==
    ASSUME NEW w \in Seq(Byte), NEW refused \in BOOLEAN, NEW granted \in BOOLEAN, NEW free \in Nat,
           NEW p \in 1 .. Len(w) + 1, NEW f \in 0 .. free
    PROVE  IsVerdict(From(w, refused, granted, free)[p][f])
<1> DEFINE N == Len(w) + 1
           B(q, g) == IsVerdict(From(w, refused, granted, free)[q][g])
           T == {k \in 0 .. Len(w) : ~(\A g \in 0 .. free : B(N - k, g))}
<1>0. Len(w) \in Nat
  BY LenProperties
<1>1. ASSUME NEW k \in T, \A j \in T : k <= j PROVE FALSE
  <2>1. ASSUME NEW g \in 0 .. free PROVE B(N - k, g)
    <3>1. PICK q \in 1 .. N : q = N - k /\ q \in Nat
      BY <1>0
    <3>2. PICK v : v = Rest(w, q)
      OBVIOUS
    <3>3. v \in Seq(Byte) /\ Len(v) = (Len(w) - q) + 1
      BY <3>2, RestOf
    <3>4. PICK from : from = From(w, refused, granted, free)
      OBVIOUS
    <3>5. from[q][g] = FromTerms(refused, granted, from, q, g, v)
      BY <3>2, <3>4, ReadingsUnfold
    <3>6. ASSUME Known(v), ~(SizeOf(v) > max_adu_size(Format)), ~(Len(v) < SizeOf(v)),
                 NEW h \in 0 .. free
          PROVE  IsVerdict(from[q + SizeOf(v)][h])
      <4>1. SizeOf(v) \in Nat /\ SizeOf(v) >= 2 + Format.crc_size /\ Format.crc_size \in Nat
        BY <3>3, <3>6, SizeIsSize
      <4>2. PICK j \in 0 .. Len(w) : j = k - SizeOf(v) /\ q + SizeOf(v) = N - j /\ j < k
        <5>1. PICK z \in Nat, c \in Nat : z = SizeOf(v) /\ c = Format.crc_size /\ z >= 2 + c
          BY <4>1
        <5>2. PICK k1 \in Nat : k1 = k
          OBVIOUS
        <5>3. z <= (Len(w) - q) + 1 /\ q = (Len(w) + 1) - k1 /\ k1 <= Len(w)
          <6>1. k \in 0 .. Len(w)
            OBVIOUS
          <6> QED BY <1>0, <3>1, <3>3, <3>6, <5>1, <5>2, <6>1
        <5> HIDE DEF T
        <5> QED BY <1>0, <5>1, <5>2, <5>3, SMTT(30)
      <4>3. j \notin T
        BY <1>1, <4>2
      <4> QED BY <3>4, <3>6, <4>2, <4>3
    <3>7. ASSUME Known(v), ~(SizeOf(v) > max_adu_size(Format)), ~(Len(v) < SizeOf(v))
          PROVE  SubSeq(v, 1, SizeOf(v)) \in Seq(Byte)
      <4>1. SizeOf(v) \in Nat
        BY <3>3, <3>7, SizeIsSize
      <4>2. \A i \in 1 .. SizeOf(v) : v[i] \in Byte
        <5>1. Len(v) \in Nat
          BY <3>3, LenProperties
        <5> QED BY <3>3, <3>7, <4>1, <5>1, ElementOfSeq
      <4> QED BY <4>1, <4>2, SubSeqProperties
    <3>8. ASSUME ~Passed(refused, granted, q, g) PROVE Left(granted, q, g) \in 0 .. free
      BY <3>8 DEF Passed, Left
    <3>9. \A cause \in Losses : \A used : IsVerdict(Lost(cause, used, v))
      BY LostVerdict
    <3>10. IsVerdict(Opens(v, <<>>)) /\ IsVerdict(Opens(v, Skipped(refused, granted, q, g)))
      <4>1. <<>> \in Seq(Losses)
        OBVIOUS
      <4> QED BY <3>3, <4>1, OpensVerdict, SkippedLosses
    <3>11. ASSUME Known(v), ~(SizeOf(v) > max_adu_size(Format)), ~(Len(v) < SizeOf(v))
           PROVE  IsVerdict(Joined(<<>>, Skipped(refused, granted, q, g), from[q + SizeOf(v)][g]))
      <4>1. <<>> \in Seq(Seq(Byte))
        OBVIOUS
      <4> QED BY <3>6, <3>11, <4>1, JoinedVerdict, SkippedLosses
    <3>12. ASSUME Known(v), ~(SizeOf(v) > max_adu_size(Format)), ~(Len(v) < SizeOf(v)),
                  ~Passed(refused, granted, q, g)
           PROVE  IsVerdict(Joined(<<SubSeq(v, 1, SizeOf(v))>>, <<>>,
                                   from[q + SizeOf(v)][Left(granted, q, g)]))
      <4>1. <<SubSeq(v, 1, SizeOf(v))>> \in Seq(Seq(Byte)) /\ <<>> \in Seq(Losses)
        BY <3>7, <3>12
      <4>2. IsVerdict(from[q + SizeOf(v)][Left(granted, q, g)])
        BY <3>6, <3>8, <3>12
      <4> QED BY <4>1, <4>2, JoinedVerdict
    <3>13. IsVerdict(FromTerms(refused, granted, from, q, g, v))
      <4>1. /\ IsVerdict(Lost("unsupported_function", 2, v))
            /\ IsVerdict(Lost("oversize", 2 + header_size(Layout(v)), v))
            /\ IsVerdict(Lost("crc_errors", SizeOf(v), v))
        BY <3>9 DEF Losses
      <4> HIDE DEF T, B
      <4> QED BY <3>10, <3>11, <3>12, <4>1, Zenon DEF FromTerms
    <3> QED BY <3>1, <3>4, <3>5, <3>13
  <2> QED BY <1>1, <2>1
<1>2. T = {}
  <2>1. T \in SUBSET Nat
    OBVIOUS
  <2> HIDE DEF T
  <2> QED BY <1>1, <2>1, LeastElement
<1>3. PICK k \in 0 .. Len(w) : N - k = p
  <2>1. N - p \in 0 .. Len(w) /\ N - (N - p) = p
    BY <1>0
  <2> QED BY <2>1
<1> QED BY <1>2, <1>3

-----------------------------------------------------------------------------
(* What a call counted.                                                    *)

Events == Losses \union {"candidates", "frames_received", "allocation_failure"}

LossStep(log, f, n) ==
    IF n = 0 THEN <<>> ELSE IF log[n] \in Losses THEN Append(f[n - 1], log[n]) ELSE f[n - 1]

Counts(log) == CHOOSE f : f = [n \in 0 .. Len(log) |-> LossStep(log, f, n)]

\* The losses a log counts, as their definition chooses the function.
LEMMA LossesDefined ==
    ASSUME NEW log
    PROVE  LossesOf(log) = Counts(log)[Len(log)]
BY DEF LossesOf, Counts, LossStep

\* There is such a function ...
LEMMA CountsExist ==
    ASSUME NEW log, Len(log) \in Nat
    PROVE  \E f : f = [n \in 0 .. Len(log) |-> LossStep(log, f, n)]
<1> DEFINE Good(f, k) == f = [n \in 0 .. k |-> LossStep(log, f, n)]
           T == {k \in 0 .. Len(log) : ~(\E f : Good(f, k))}
<1>1. ASSUME NEW k \in T, \A j \in T : k <= j PROVE FALSE
  <2>0. k \in 0 .. Len(log)
    OBVIOUS
  <2>1. PICK h : \A n \in 0 .. k - 1 : h[n] = LossStep(log, h, n)
    <3>1. CASE k = 0
      <4> HIDE DEF T
      <4> QED BY <3>1
    <3>2. CASE k # 0
      <4>1. k - 1 \in 0 .. Len(log) /\ ~(k <= k - 1)
        BY <2>0, <3>2
      <4>2. k - 1 \notin T
        <5> HIDE DEF T
        <5> QED BY <1>1, <4>1
      <4>3. PICK h : Good(h, k - 1)
        BY <4>1, <4>2
      <4> HIDE DEF T
      <4> QED BY <4>3
    <3> QED BY <3>1, <3>2
  <2> HIDE DEF T
  <2> DEFINE g == [n \in 0 .. k |-> LossStep(log, h, n)]
  <2>2. \A n \in 0 .. k : g[n] = LossStep(log, h, n)
    OBVIOUS
  <2>3. g = [n \in 0 .. k |-> g[n]]
    OBVIOUS
  <2> HIDE DEF g
  <2>4. \A n \in 0 .. k - 1 : g[n] = h[n]
    <3> TAKE n \in 0 .. k - 1
    <3>1. n \in 0 .. k
      BY <2>0
    <3> QED BY <2>1, <2>2, <3>1
  <2>5. \A n \in 0 .. k : LossStep(log, g, n) = LossStep(log, h, n)
    <3> TAKE n \in 0 .. k
    <3>1. CASE n = 0
      BY <3>1 DEF LossStep
    <3>2. CASE n # 0
      <4>1. n - 1 \in 0 .. k - 1
        BY <2>0, <3>2
      <4>2. g[n - 1] = h[n - 1]
        BY <2>4, <4>1
      <4> QED BY <3>2, <4>2 DEF LossStep
    <3> QED BY <3>1, <3>2
  <2>6. Good(g, k)
    BY <2>2, <2>3, <2>5
  <2> QED BY <2>0, <2>6 DEF T
<1>2. T = {}
  <2>1. T \in SUBSET Nat
    OBVIOUS
  <2> HIDE DEF T
  <2> QED BY <1>1, <2>1, LeastElement
<1> QED BY <1>2

\* ... it counts entry by entry ...
LEMMA CountsUnfold ==
    ASSUME NEW log, Len(log) \in Nat, NEW n \in 0 .. Len(log)
    PROVE  Counts(log)[n] = LossStep(log, Counts(log), n)
<1>1. Counts(log) = [k \in 0 .. Len(log) |-> LossStep(log, Counts(log), k)]
  BY CountsExist DEF Counts
<1> QED BY <1>1

\* ... it counts losses ...
LEMMA CountsTyped ==
    ASSUME NEW log, Len(log) \in Nat, NEW n \in 0 .. Len(log)
    PROVE  Counts(log)[n] \in Seq(Losses)
<1> DEFINE T == {k \in 0 .. Len(log) : Counts(log)[k] \notin Seq(Losses)}
<1>1. ASSUME NEW k \in T, \A j \in T : k <= j PROVE FALSE
  <2>1. k \in 0 .. Len(log) /\ Counts(log)[k] = LossStep(log, Counts(log), k)
    BY CountsUnfold
  <2>2. CASE k = 0
    <3>1. <<>> \in Seq(Losses)
      OBVIOUS
    <3> QED BY <2>1, <2>2, <3>1 DEF LossStep
  <2>3. CASE k # 0
    <3>1. k - 1 \in 0 .. Len(log) /\ ~(k <= k - 1)
      BY <2>1, <2>3
    <3>2. k - 1 \notin T
      <4> HIDE DEF T
      <4> QED BY <1>1, <3>1
    <3>3. PICK c : c = Counts(log)[k - 1]
      OBVIOUS
    <3>4. c \in Seq(Losses)
      BY <3>1, <3>2, <3>3
    <3>5. LossStep(log, Counts(log), k) \in Seq(Losses)
      <4>1. \A x \in Losses : Append(c, x) \in Seq(Losses)
        BY <3>4, AppendProperties
      <4> HIDE DEF T
      <4> QED BY <2>3, <3>3, <3>4, <4>1 DEF LossStep
    <3> QED BY <2>1, <3>5
  <2> QED BY <2>2, <2>3
<1>2. T = {}
  <2>1. T \in SUBSET Nat
    OBVIOUS
  <2> HIDE DEF T
  <2> QED BY <1>1, <2>1, LeastElement
<1> QED BY <1>2

\* ... and what a log begins with it counts alike.
LEMMA SameCounts ==
    ASSUME NEW log, NEW more, Len(log) \in Nat, Len(more) \in Nat, Len(log) <= Len(more),
           \A i \in 1 .. Len(log) : more[i] = log[i], NEW n \in 0 .. Len(log)
    PROVE  Counts(more)[n] = Counts(log)[n]
<1> DEFINE T == {k \in 0 .. Len(log) : Counts(more)[k] # Counts(log)[k]}
<1>1. ASSUME NEW k \in T, \A j \in T : k <= j PROVE FALSE
  <2>1. k \in 0 .. Len(log) /\ k \in 0 .. Len(more)
    OBVIOUS
  <2>2. /\ Counts(log)[k] = LossStep(log, Counts(log), k)
        /\ Counts(more)[k] = LossStep(more, Counts(more), k)
    BY <2>1, CountsUnfold
  <2>3. CASE k = 0
    BY <2>2, <2>3 DEF LossStep
  <2>4. CASE k # 0
    <3>1. k - 1 \in 0 .. Len(log) /\ k \in 1 .. Len(log) /\ ~(k <= k - 1)
      BY <2>1, <2>4
    <3>2. k - 1 \notin T
      <4> HIDE DEF T
      <4> QED BY <1>1, <3>1
    <3>3. Counts(more)[k - 1] = Counts(log)[k - 1]
      BY <3>1, <3>2
    <3>4. more[k] = log[k]
      BY <3>1
    <3>5. LossStep(log, Counts(log), k) = LossStep(more, Counts(more), k)
      <4> HIDE DEF T
      <4> QED BY <2>4, <3>3, <3>4 DEF LossStep
    <3> QED BY <2>2, <3>5
  <2> QED BY <2>3, <2>4
<1>2. T = {}
  <2>1. T \in SUBSET Nat
    OBVIOUS
  <2> HIDE DEF T
  <2> QED BY <1>1, <2>1, LeastElement
<1> QED BY <1>2

\* Of a call that counted nothing, and of one more count.
LEMMA NoLosses == LossesOf(<<>>) = <<>>
<1>1. Len(<<>>) = 0
  OBVIOUS
<1>2. Counts(<<>>)[0] = LossStep(<<>>, Counts(<<>>), 0)
  BY <1>1, CountsUnfold
<1> QED BY <1>1, <1>2, LossesDefined DEF LossStep

\* One more entry.
LEMMA OneMore ==
    ASSUME NEW log \in Seq(Events), NEW what \in Events
    PROVE  /\ Append(log, what) \in Seq(Events)
           /\ LossesOf(log) \in Seq(Losses)
           /\ LossesOf(Append(log, what))
                = (IF what \in Losses THEN Append(LossesOf(log), what) ELSE LossesOf(log))
<1>1. PICK more : more = Append(log, what)
  OBVIOUS
<1>2. PICK n \in Nat : n = Len(log)
  BY LenProperties
<1>3. /\ more \in Seq(Events) /\ Len(more) = n + 1 /\ more[n + 1] = what
      /\ \A i \in 1 .. n : more[i] = log[i]
  BY <1>1, <1>2, AppendProperties
<1>4. Counts(more)[n] = LossesOf(log) /\ LossesOf(log) \in Seq(Losses)
  <2>1. Counts(more)[n] = Counts(log)[n]
    BY <1>2, <1>3, SameCounts
  <2> QED BY <1>2, <2>1, CountsTyped, LossesDefined
<1>5. Counts(more)[n + 1] = LossStep(more, Counts(more), n + 1)
  BY <1>2, <1>3, CountsUnfold
<1>6. LossesOf(more) = LossStep(more, Counts(more), n + 1)
  BY <1>3, <1>5, LossesDefined
<1>7. (n + 1) - 1 = n /\ n + 1 # 0
  BY <1>2
<1>8. LossStep(more, Counts(more), n + 1)
        = IF what \in Losses THEN Append(LossesOf(log), what) ELSE LossesOf(log)
  BY <1>3, <1>4, <1>7 DEF LossStep
<1> QED BY <1>1, <1>3, <1>4, <1>6, <1>8

-----------------------------------------------------------------------------
(* One byte, through every stage of the receiver.                          *)

\* A receiver between two frames.
Idle(r) ==
    /\ IsStream(r) /\ r.stage = "Prefix" /\ r.prefix = <<>> /\ r.filled = 0 /\ r.need = 2
    /\ r.building = NoFrame

Opening == {"Prefix", "Header"}

\* A receiver of which w is the frame under way.
Gathers(r, w) ==
    /\ r.stage \in Opening /\ r.prefix = w /\ r.filled = Len(w) /\ r.building = NoFrame
    /\ r.stage = "Prefix" => Len(w) < 2 /\ r.need = 2
    /\ r.stage = "Header" => /\ Len(w) >= 2 /\ supported(Layout(w))
                             /\ r.need = 2 + header_size(Layout(w)) /\ Len(w) < r.need
Expects(r, w) ==
    /\ Known(w) /\ Len(w) < SizeOf(w) /\ SizeOf(w) <= max_adu_size(Format)
    /\ r.remaining = SizeOf(w) - Len(w)
Stores(r, w) ==
    /\ r.stage = "Body" /\ Expects(r, w) /\ r.filled = Len(w)
    /\ r.building = [size |-> SizeOf(w), bytes |-> w]
Skips(r, w) == r.stage = "Skip" /\ Expects(r, w) /\ r.building = NoFrame

InFlight(r, w) ==
    IsStream(r) /\ w \in Seq(Byte) /\ (Gathers(r, w) \/ Stores(r, w) \/ Skips(r, w))

\* A whole frame.
Whole(x) == Known(x) /\ SizeOf(x) = Len(x) /\ SizeOf(x) <= max_adu_size(Format)

\* What a byte makes of a receiver, the last of x: from the stage it was in, what it
\* had ready, the blocks it had out and the losses it had counted.
Waits(stage, ready, granted, losses, u, x) ==
    /\ InFlight(u, x) /\ u.rest = "read" /\ u.ready = ready
    /\ \/ /\ stage \in Opening /\ u.stage \in Opening
          /\ u.granted = granted /\ LossesOf(u.log) = losses
       \/ /\ stage \in {"Body", "Skip"} /\ u.stage = stage
          /\ u.granted = granted /\ LossesOf(u.log) = losses
       \/ /\ stage \in Opening /\ granted < RxBlocks /\ u.stage = "Body"
          /\ u.granted = granted + 1 /\ LossesOf(u.log) = losses
       \/ /\ stage \in Opening /\ ~(granted < RxBlocks) /\ u.stage = "Skip"
          /\ u.granted = granted /\ LossesOf(u.log) = Append(losses, "skipped_frames")

Passes(stage, ready, granted, losses, u, x) ==
    /\ Idle(u) /\ u.rest = "read" /\ Whole(x) /\ u.ready = ready /\ u.granted = granted
    /\ \/ stage = "Skip" /\ LossesOf(u.log) = losses
       \/ /\ stage \in Opening /\ ~(granted < RxBlocks)
          /\ LossesOf(u.log) = Append(losses, "skipped_frames")

Delivers(stage, ready, granted, losses, u, x) ==
    /\ Idle(u) /\ u.rest = "read" /\ Whole(x) /\ Sound(x)
    /\ u.ready = Append(ready, x) /\ LossesOf(u.log) = losses
    /\ \/ stage = "Body" /\ u.granted = granted
       \/ stage \in Opening /\ granted < RxBlocks /\ u.granted = granted + 1

FailsFor(cause, stage, granted, u, x) ==
    \/ /\ cause = "unsupported_function" /\ stage \in Opening /\ u.granted = granted
       /\ Len(x) = 2 /\ ~supported(Layout(x))
    \/ /\ cause = "oversize" /\ stage \in Opening /\ u.granted = granted
       /\ Known(x) /\ SizeOf(x) > max_adu_size(Format) /\ Len(x) = 2 + header_size(Layout(x))
    \/ /\ cause = "crc_errors" /\ Whole(x) /\ ~Sound(x)
       /\ \/ stage = "Body" /\ u.granted = granted - 1
          \/ stage \in Opening /\ granted < RxBlocks /\ u.granted = granted

Fails(stage, ready, granted, losses, u, x) ==
    /\ Idle(u) /\ u.rest = "drop" /\ u.ready = ready
    /\ \E cause \in Losses :
         LossesOf(u.log) = Append(losses, cause) /\ FailsFor(cause, stage, granted, u, x)

Outcome(stage, ready, granted, losses, u, x) ==
    /\ u.log \in Seq(Events)
    /\ \/ Waits(stage, ready, granted, losses, u, x) \/ Passes(stage, ready, granted, losses, u, x)
       \/ Delivers(stage, ready, granted, losses, u, x) \/ Fails(stage, ready, granted, losses, u, x)

\* What the operators of RtuStream leave of a receiver: an entry in the log,
LEMMA LoggedIs ==
    ASSUME NEW r, IsStream(r), r.log \in Seq(Events), NEW what \in Events
    PROVE  /\ IsStream(Logged(r, what)) /\ Logged(r, what).log \in Seq(Events)
           /\ LossesOf(Logged(r, what).log)
                = (IF what \in Losses THEN Append(LossesOf(r.log), what) ELSE LossesOf(r.log))
           /\ \A f \in StreamFields \ {"log"} : Logged(r, what)[f] = r[f]
<1>1. Logged(r, what).log = Append(r.log, what)
  BY DEF IsStream, StreamFields, Logged
<1>2. \A f \in StreamFields \ {"log"} : Logged(r, what)[f] = r[f]
  BY DEF IsStream, StreamFields, Logged
<1> QED BY <1>1, <1>2, LoggedStream, OneMore

\* reset,
LEMMA ResetIs ==
    ASSUME NEW r, IsStream(r)
    PROVE  /\ IsStream(reset(r))
           /\ reset(r).stage = "Prefix" /\ reset(r).prefix = <<>> /\ reset(r).filled = 0
           /\ reset(r).need = 2
           /\ \A f \in {"building", "ready", "granted", "log", "rest"} : reset(r)[f] = r[f]
BY DEF IsStream, StreamFields, reset, adu_prefix_size

\* drop_rest,
LEMMA DropIs ==
    ASSUME NEW r, IsStream(r)
    PROVE  /\ IsStream(drop_rest(r)) /\ drop_rest(r).rest = "drop"
           /\ \A f \in StreamFields \ {"rest"} : drop_rest(r)[f] = r[f]
BY DEF IsStream, StreamFields, drop_rest

\* release_building,
LEMMA ReleaseBuildingIs ==
    ASSUME NEW r, IsStream(r)
    PROVE  /\ IsStream(release_building(r)) /\ release_building(r).building = NoFrame
           /\ release_building(r).granted
                = (IF r.building = NoFrame THEN r.granted ELSE r.granted - 1)
           /\ \A f \in StreamFields \ {"building", "granted"} : release_building(r)[f] = r[f]
BY DEF IsStream, StreamFields, release_building, release_rx

\* refuse,
LEMMA RefuseIs ==
    ASSUME NEW r, IsStream(r), r.log \in Seq(Events), r.building = NoFrame, NEW cause \in Losses
    PROVE  /\ Idle(refuse(r, cause)) /\ refuse(r, cause).rest = "drop"
           /\ refuse(r, cause).ready = r.ready /\ refuse(r, cause).granted = r.granted
           /\ refuse(r, cause).log \in Seq(Events)
           /\ LossesOf(refuse(r, cause).log) = Append(LossesOf(r.log), cause)
<1>1. PICK x : x = Logged(r, cause)
  OBVIOUS
<1>2. /\ IsStream(x) /\ x.log \in Seq(Events) /\ LossesOf(x.log) = Append(LossesOf(r.log), cause)
      /\ x.building = NoFrame /\ x.ready = r.ready /\ x.granted = r.granted
  BY <1>1, LoggedIs DEF Events, StreamFields
<1>3. PICK y : y = reset(x)
  OBVIOUS
<1>4. /\ IsStream(y) /\ y.stage = "Prefix" /\ y.prefix = <<>> /\ y.filled = 0 /\ y.need = 2
      /\ y.building = NoFrame /\ y.ready = r.ready /\ y.granted = r.granted /\ y.log = x.log
  BY <1>2, <1>3, ResetIs
<1>5. PICK z : z = drop_rest(y)
  OBVIOUS
<1>6. /\ IsStream(z) /\ z.stage = "Prefix" /\ z.prefix = <<>> /\ z.filled = 0 /\ z.need = 2
      /\ z.building = NoFrame /\ z.ready = r.ready /\ z.granted = r.granted /\ z.log = x.log
      /\ z.rest = "drop"
  BY <1>4, <1>5, DropIs DEF StreamFields
<1>7. z = refuse(r, cause)
  BY <1>1, <1>3, <1>5 DEF refuse
<1> QED BY <1>2, <1>6, <1>7 DEF Idle

\* complete.
LEMMA CompleteIs ==
    ASSUME NEW r, IsStream(r), r.log \in Seq(Events), r.building # NoFrame
    PROVE  /\ Idle(complete(r)) /\ complete(r).log \in Seq(Events)
           /\ verify(r.building.bytes) =>
                /\ complete(r).rest = r.rest /\ complete(r).granted = r.granted
                /\ complete(r).ready = Append(r.ready, r.building.bytes)
                /\ LossesOf(complete(r).log) = LossesOf(r.log)
           /\ ~verify(r.building.bytes) =>
                /\ complete(r).rest = "drop" /\ complete(r).granted = r.granted - 1
                /\ complete(r).ready = r.ready
                /\ LossesOf(complete(r).log) = Append(LossesOf(r.log), "crc_errors")
<1>1. CASE ~verify(r.building.bytes)
  <2>1. PICK x : x = Logged(r, "crc_errors")
    OBVIOUS
  <2>2. /\ IsStream(x) /\ x.log \in Seq(Events)
        /\ LossesOf(x.log) = Append(LossesOf(r.log), "crc_errors")
        /\ x.building = r.building /\ x.ready = r.ready /\ x.granted = r.granted
    BY <2>1, LoggedIs DEF Events, Losses, StreamFields
  <2>3. PICK y : y = release_building(x)
    OBVIOUS
  <2>4. /\ IsStream(y) /\ y.log = x.log /\ y.building = NoFrame /\ y.ready = r.ready
        /\ y.granted = r.granted - 1
    BY <2>2, <2>3, ReleaseBuildingIs DEF StreamFields
  <2>5. PICK z : z = reset(y)
    OBVIOUS
  <2>6. /\ IsStream(z) /\ z.stage = "Prefix" /\ z.prefix = <<>> /\ z.filled = 0 /\ z.need = 2
        /\ z.building = NoFrame /\ z.ready = r.ready /\ z.granted = r.granted - 1 /\ z.log = x.log
    BY <2>4, <2>5, ResetIs
  <2>7. PICK d : d = drop_rest(z)
    OBVIOUS
  <2>8. /\ IsStream(d) /\ d.stage = "Prefix" /\ d.prefix = <<>> /\ d.filled = 0 /\ d.need = 2
        /\ d.building = NoFrame /\ d.ready = r.ready /\ d.granted = r.granted - 1 /\ d.log = x.log
        /\ d.rest = "drop"
    BY <2>6, <2>7, DropIs DEF StreamFields
  <2>9. d = complete(r)
    BY <1>1, <2>1, <2>3, <2>5, <2>7 DEF complete
  <2> QED BY <1>1, <2>2, <2>8, <2>9 DEF Idle
<1>2. CASE verify(r.building.bytes)
  <2>1. PICK x : x = Logged(r, "frames_received")
    OBVIOUS
  <2>2. /\ IsStream(x) /\ x.log \in Seq(Events) /\ LossesOf(x.log) = LossesOf(r.log)
        /\ x.ready = r.ready /\ x.granted = r.granted /\ x.rest = r.rest
    BY <2>1, LoggedIs DEF Events, Losses, StreamFields
  <2>3. PICK e : e = enqueue(x, r.building.bytes)
    OBVIOUS
  <2>4. /\ IsStream(e) /\ e.log = x.log /\ e.ready = Append(r.ready, r.building.bytes)
        /\ e.granted = r.granted /\ e.rest = r.rest
    BY <2>2, <2>3 DEF IsStream, StreamFields, enqueue
  <2>5. PICK y : y = [e EXCEPT !.building = NoFrame]
    OBVIOUS
  <2>6. /\ IsStream(y) /\ y.log = x.log /\ y.ready = Append(r.ready, r.building.bytes)
        /\ y.granted = r.granted /\ y.rest = r.rest /\ y.building = NoFrame
    BY <2>4, <2>5 DEF IsStream, StreamFields
  <2>7. PICK z : z = reset(y)
    OBVIOUS
  <2>8. /\ IsStream(z) /\ z.stage = "Prefix" /\ z.prefix = <<>> /\ z.filled = 0 /\ z.need = 2
        /\ z.building = NoFrame /\ z.ready = Append(r.ready, r.building.bytes)
        /\ z.granted = r.granted /\ z.rest = r.rest /\ z.log = x.log
    BY <2>6, <2>7, ResetIs
  <2>9. z = complete(r)
    BY <1>2, <2>1, <2>3, <2>5, <2>7 DEF complete
  <2> QED BY <1>2, <2>2, <2>8, <2>9 DEF Idle
<1> QED BY <1>1, <1>2

\* crc::verify is the reference's test.
LEMMA VerifyIs ==
    ASSUME NEW x \in Seq(Byte), Whole(x)
    PROVE  verify(x) <=> Sound(x)
<1>1. Len(x) >= Format.crc_size /\ Format.crc_size \in Nat /\ Len(x) \in Nat
  BY SizeIsSize, LenProperties DEF Whole
<1>2. Len(x) - Format.crc_size >= 0
  BY <1>1
<1> QED BY <1>2 DEF verify, Sound

\* A frame that stands where its header ends.
Stands(r, x) ==
    /\ IsStream(r) /\ r.log \in Seq(Events) /\ r.rest = "read" /\ r.stage = "Header"
    /\ r.prefix = x /\ r.filled = Len(x) /\ r.building = NoFrame
    /\ x \in Seq(Byte) /\ Known(x) /\ Len(x) = 2 + header_size(Layout(x))

\* skip_frame: exactly the rest of the frame is to be passed over.
LEMMA SkipFrameIs ==
    ASSUME NEW r, NEW x, Stands(r, x), NEW stage \in Opening, ~(r.granted < RxBlocks),
           SizeOf(x) <= max_adu_size(Format)
    PROVE  Outcome(stage, r.ready, r.granted, LossesOf(r.log), skip_frame(r, SizeOf(x)), x)
<1>1. PICK y : y = Logged(r, "allocation_failure")
  OBVIOUS
<1>2. /\ IsStream(y) /\ y.log \in Seq(Events) /\ LossesOf(y.log) = LossesOf(r.log)
      /\ \A f \in StreamFields \ {"log"} : y[f] = r[f]
  BY <1>1, LoggedIs DEF Events, Losses, Stands
<1>3. PICK t : t = Logged(y, "skipped_frames")
  OBVIOUS
<1>4. /\ IsStream(t) /\ t.log \in Seq(Events)
      /\ LossesOf(t.log) = Append(LossesOf(r.log), "skipped_frames")
      /\ \A f \in StreamFields \ {"log"} : t[f] = y[f]
  BY <1>2, <1>3, LoggedIs DEF Events, Losses
<1>5. t.ready = r.ready /\ t.granted = r.granted /\ t.building = NoFrame /\ t.rest = "read"
  BY <1>2, <1>4 DEF StreamFields, Stands
<1>6. PICK n \in Int : n = SizeOf(x) - Len(x)
  BY SizeIsSize, LenProperties DEF Stands
<1>7. n >= 0 /\ (n = 0 <=> SizeOf(x) = Len(x)) /\ (n # 0 => Len(x) < SizeOf(x))
  BY <1>6, SizeIsSize, LenProperties DEF Stands
<1>8. CASE n = 0
  <2>1. skip_frame(r, SizeOf(x)) = reset(t)
    BY <1>1, <1>3, <1>6, <1>8 DEF skip_frame, Stands
  <2>2. PICK u : u = reset(t)
    OBVIOUS
  <2>3. Idle(u) /\ u.ready = r.ready /\ u.granted = r.granted /\ u.log = t.log /\ u.rest = "read"
    BY <1>4, <1>5, <2>2, ResetIs DEF Idle
  <2>4. Whole(x)
    BY <1>7, <1>8 DEF Whole, Stands
  <2>5. Passes(stage, r.ready, r.granted, LossesOf(r.log), u, x)
    BY <1>4, <2>3, <2>4 DEF Passes
  <2> QED BY <1>4, <2>1, <2>2, <2>3, <2>5 DEF Outcome
<1>9. CASE n # 0
  <2>1. PICK u : u = [t EXCEPT !.stage = "Skip", !.remaining = n, !.prefix = <<>>]
    OBVIOUS
  <2>2. skip_frame(r, SizeOf(x)) = u
    BY <1>1, <1>3, <1>6, <1>9, <2>1 DEF skip_frame, Stands
  <2>3. /\ IsStream(u) /\ u.stage = "Skip" /\ u.remaining = n /\ u.building = NoFrame
        /\ u.ready = r.ready /\ u.granted = r.granted /\ u.log = t.log /\ u.rest = "read"
    BY <1>4, <1>5, <2>1 DEF IsStream, StreamFields
  <2>4. InFlight(u, x)
    BY <1>6, <1>7, <1>9, <2>3 DEF InFlight, Skips, Expects, Stands
  <2>5. Waits(stage, r.ready, r.granted, LossesOf(r.log), u, x)
    BY <1>4, <2>3, <2>4 DEF Waits
  <2> QED BY <1>4, <2>2, <2>3, <2>5 DEF Outcome
<1> QED BY <1>8, <1>9

\* begin_frame: the header is in, and names the size.
LEMMA BeginIs ==
    ASSUME NEW r, NEW x, Stands(r, x), NEW stage \in Opening, r.granted \in Int
    PROVE  Outcome(stage, r.ready, r.granted, LossesOf(r.log), begin_frame(r), x)
<1> DEFINE layout == Framer(Rx, x[2])
<1>1. PICK adu : adu = SizeOf(x)
  OBVIOUS
<1>2. adu = adu_size_for_data(Format,
                 data_size(Framer(Rx, r.prefix[address_size + 1]),
                           SubSeq(r.prefix, adu_prefix_size + 1, r.filled)))
  BY <1>1 DEF SizeOf, Layout, Stands, adu_size_for_data, adu_overhead, adu_prefix_size, address_size
<1>3. /\ adu \in Nat /\ Len(x) \in Nat /\ Len(x) <= adu /\ max_adu_size(Format) \in Nat
      /\ RxBlocks \in Nat
  <2>1. max_adu_size(Format) \in Nat
    BY PolicyAssumption DEF max_adu_size, adu_overhead, adu_prefix_size
  <2> QED BY <1>1, <2>1, SizeIsSize, LenProperties, StreamAssumption DEF Stands
<1>4. PICK y : y = acquire_block(r)
  OBVIOUS
<1>5. PICK frame : frame = [size |-> adu, bytes |-> x]
  OBVIOUS
<1>6. PICK left \in Int : left = adu - Len(x) /\ left >= 0 /\ (left = 0 <=> adu = Len(x))
                       /\ (left # 0 => Len(x) < adu)
  <2>1. PICK n \in Nat, m \in Nat : n = Len(x) /\ m = adu /\ n <= m
    BY <1>3
  <2>2. m - n \in Int /\ m - n >= 0 /\ (m - n = 0 <=> m = n) /\ (m - n # 0 => n < m)
    BY <2>1
  <2> QED BY <2>1, <2>2
<1>7. PICK body : body = [y EXCEPT !.building = frame, !.remaining = left, !.stage = "Body",
                                   !.prefix = <<>>]
  OBVIOUS
<1>8. /\ IsStream(body) /\ body.building = frame /\ body.remaining = left /\ body.stage = "Body"
      /\ body.ready = r.ready /\ body.granted = r.granted + 1 /\ body.log = r.log
      /\ body.rest = "read" /\ body.filled = Len(x)
  BY <1>4, <1>7 DEF Stands, IsStream, StreamFields, acquire_block
<1>9. begin_frame(r) = IF adu > max_adu_size(Format) THEN refuse(r, "oversize")
                       ELSE IF ~CanAcquire(r) THEN skip_frame(r, adu)
                       ELSE IF body.remaining = 0 THEN complete(body) ELSE body
  BY <1>2, <1>4, <1>5, <1>6, <1>7 DEF begin_frame, Stands
<1>10. frame # NoFrame
  <2>1. frame \in [size : Nat, bytes : Seq(Byte)]
    BY <1>3, <1>5 DEF Stands
  <2> QED BY <2>1, StreamAssumption
<1>11. CASE adu > max_adu_size(Format)
  <2>1. PICK u : u = refuse(r, "oversize")
    OBVIOUS
  <2>2. /\ Idle(u) /\ u.rest = "drop" /\ u.ready = r.ready /\ u.granted = r.granted
        /\ u.log \in Seq(Events) /\ LossesOf(u.log) = Append(LossesOf(r.log), "oversize")
    BY <2>1, RefuseIs DEF Losses, Stands
  <2>3. FailsFor("oversize", stage, r.granted, u, x)
    BY <1>1, <1>11, <2>2 DEF FailsFor, Stands
  <2>4. Fails(stage, r.ready, r.granted, LossesOf(r.log), u, x)
    BY <2>2, <2>3 DEF Fails, Losses
  <2> QED BY <1>9, <1>11, <2>1, <2>2, <2>4 DEF Outcome
<1>12. CASE adu <= max_adu_size(Format) /\ ~(r.granted < RxBlocks)
  <2>1. begin_frame(r) = skip_frame(r, adu)
    BY <1>3, <1>9, <1>12 DEF CanAcquire
  <2> QED BY <1>1, <1>12, <2>1, SkipFrameIs
<1>13. CASE adu <= max_adu_size(Format) /\ r.granted < RxBlocks /\ left # 0
  <2>1. begin_frame(r) = body
    BY <1>3, <1>8, <1>9, <1>13 DEF CanAcquire
  <2>2. InFlight(body, x)
    <3>1. Stores(body, x)
      BY <1>1, <1>5, <1>6, <1>8, <1>13 DEF Stores, Expects, Stands
    <3> QED BY <1>8, <3>1 DEF InFlight, Stands
  <2>3. Waits(stage, r.ready, r.granted, LossesOf(r.log), body, x)
    BY <1>8, <1>13, <2>2 DEF Waits
  <2> QED BY <1>8, <2>1, <2>3 DEF Outcome, Stands
<1>14. CASE adu <= max_adu_size(Format) /\ r.granted < RxBlocks /\ left = 0
  <2>1. begin_frame(r) = complete(body)
    BY <1>3, <1>8, <1>9, <1>14 DEF CanAcquire
  <2>2. Whole(x)
    BY <1>1, <1>6, <1>14 DEF Whole, Stands
  <2>3. PICK u : u = complete(body)
    OBVIOUS
  <2>4. /\ Idle(u) /\ u.log \in Seq(Events)
        /\ Sound(x) => /\ u.rest = "read" /\ u.granted = r.granted + 1
                       /\ u.ready = Append(r.ready, x) /\ LossesOf(u.log) = LossesOf(r.log)
        /\ ~Sound(x) => /\ u.rest = "drop" /\ u.granted = (r.granted + 1) - 1
                        /\ u.ready = r.ready
                        /\ LossesOf(u.log) = Append(LossesOf(r.log), "crc_errors")
    <3>1. body.log \in Seq(Events) /\ body.building # NoFrame /\ body.building.bytes = x
      BY <1>5, <1>8, <1>10 DEF Stands
    <3>2. verify(x) <=> Sound(x)
      BY <2>2, VerifyIs DEF Stands
    <3> QED BY <1>8, <2>3, <3>1, <3>2, CompleteIs
  <2>5. CASE Sound(x)
    <3>1. Delivers(stage, r.ready, r.granted, LossesOf(r.log), u, x)
      BY <1>14, <2>2, <2>4, <2>5 DEF Delivers
    <3> QED BY <2>1, <2>3, <2>4, <3>1 DEF Outcome
  <2>6. CASE ~Sound(x)
    <3>1. u.granted = r.granted
      BY <2>4, <2>6
    <3>2. FailsFor("crc_errors", stage, r.granted, u, x)
      BY <1>14, <2>2, <2>6, <3>1 DEF FailsFor
    <3>3. Fails(stage, r.ready, r.granted, LossesOf(r.log), u, x)
      BY <2>4, <2>6, <3>2 DEF Fails, Losses
    <3> QED BY <2>1, <2>3, <2>4, <3>3 DEF Outcome
  <2> QED BY <2>5, <2>6
<1> QED BY <1>3, <1>11, <1>12, <1>13, <1>14

\* Address and function are in.
LEMMA OpenedIs ==
    ASSUME NEW r, NEW x \in Seq(Byte), IsStream(r), r.log \in Seq(Events), r.rest = "read",
           r.prefix = x, r.filled = Len(x), r.building = NoFrame, Len(x) = 2,
           NEW stage \in Opening, r.granted \in Int
    PROVE  Outcome(stage, r.ready, r.granted, LossesOf(r.log), Opened(r), x)
<1>1. PICK t : t = Logged(r, "candidates")
  OBVIOUS
<1>2. /\ IsStream(t) /\ t.log \in Seq(Events) /\ LossesOf(t.log) = LossesOf(r.log)
      /\ \A f \in StreamFields \ {"log"} : t[f] = r[f]
  BY <1>1, LoggedIs DEF Events, Losses
<1>3. /\ t.rest = "read" /\ t.prefix = x /\ t.filled = Len(x) /\ t.building = NoFrame
      /\ t.ready = r.ready /\ t.granted = r.granted
  BY <1>2 DEF StreamFields
<1>4. PICK need : need = 2 + header_size(Layout(x))
  OBVIOUS
<1>5. PICK u : u = [t EXCEPT !.stage = "Header", !.need = need]
  OBVIOUS
<1>6. /\ IsStream(u) /\ u.stage = "Header" /\ u.need = need /\ u.log = t.log /\ u.rest = "read"
      /\ u.prefix = x /\ u.filled = Len(x) /\ u.building = NoFrame /\ u.ready = r.ready
      /\ u.granted = r.granted
  BY <1>2, <1>3, <1>5 DEF IsStream, StreamFields
<1>7. Opened(r) = IF ~supported(Layout(x)) THEN refuse(t, "unsupported_function")
                  ELSE IF Len(x) < need THEN u ELSE begin_frame(u)
  <2>1. r.prefix[address_size + 1] = x[2]
    BY DEF address_size
  <2> QED BY <1>1, <1>4, <1>5, <1>6, <2>1 DEF Opened, Layout, adu_prefix_size
<1>8. header_size(Layout(x)) \in Nat
  <2>1. Len(x) >= 2
    OBVIOUS
  <2> QED BY <2>1, ReceivedLayout
<1>9. CASE ~supported(Layout(x))
  <2>1. PICK v : v = refuse(t, "unsupported_function")
    OBVIOUS
  <2>2. /\ Idle(v) /\ v.rest = "drop" /\ v.ready = r.ready /\ v.granted = r.granted
        /\ v.log \in Seq(Events) /\ LossesOf(v.log) = Append(LossesOf(r.log), "unsupported_function")
    BY <1>2, <1>3, <2>1, RefuseIs DEF Losses
  <2>3. FailsFor("unsupported_function", stage, r.granted, v, x)
    BY <1>9, <2>2 DEF FailsFor
  <2>4. Fails(stage, r.ready, r.granted, LossesOf(r.log), v, x)
    BY <2>2, <2>3 DEF Fails, Losses
  <2> QED BY <1>7, <1>9, <2>1, <2>2, <2>4 DEF Outcome
<1>10. CASE supported(Layout(x)) /\ Len(x) < need
  <2>1. InFlight(u, x)
    <3>1. Gathers(u, x)
      BY <1>4, <1>6, <1>10 DEF Gathers, Opening
    <3> QED BY <1>6, <3>1 DEF InFlight
  <2>2. Waits(stage, r.ready, r.granted, LossesOf(r.log), u, x)
    BY <1>2, <1>6, <2>1 DEF Waits, Opening
  <2> QED BY <1>2, <1>6, <1>7, <1>10, <2>2 DEF Outcome
<1>11. CASE supported(Layout(x)) /\ ~(Len(x) < need)
  <2>1. Known(x) /\ Len(x) = 2 + header_size(Layout(x))
    BY <1>4, <1>8, <1>11 DEF Known
  <2>2. Stands(u, x)
    BY <1>2, <1>6, <2>1 DEF Stands
  <2>3. Outcome(stage, u.ready, u.granted, LossesOf(u.log), begin_frame(u), x)
    BY <1>6, <2>2, BeginIs
  <2> QED BY <1>2, <1>6, <1>7, <1>11, <2>3
<1> QED BY <1>9, <1>10, <1>11

\* A byte behind what was read of a frame.
LEMMA OneByteMore ==
    ASSUME NEW w \in Seq(Byte), NEW b \in Byte
    PROVE  /\ Append(w, b) \in Seq(Byte) /\ Len(Append(w, b)) = Len(w) + 1 /\ Len(w) \in Nat
           /\ \A i \in 1 .. Len(w) : Append(w, b)[i] = w[i]
           /\ Len(w) >= 2 => Layout(Append(w, b)) = Layout(w)
           /\ Known(w) => Known(Append(w, b)) /\ SizeOf(Append(w, b)) = SizeOf(w)
<1>1. PICK x : x = Append(w, b)
  OBVIOUS
<1>2. x \in Seq(Byte) /\ Len(x) = Len(w) + 1 /\ Len(w) \in Nat /\ \A i \in 1 .. Len(w) : x[i] = w[i]
  BY <1>1, AppendProperties, LenProperties
<1>3. ASSUME Len(w) >= 2 PROVE Layout(x) = Layout(w)
  BY <1>2, <1>3 DEF Layout
<1>4. ASSUME Known(w) PROVE Known(x) /\ SizeOf(x) = SizeOf(w)
  <2>1. Len(w) <= Len(x) /\ \A i \in 1 .. Len(w) : w[i] = x[i]
    BY <1>2
  <2> QED BY <1>2, <1>4, <2>1, SizeOfMore
<1> QED BY <1>1, <1>2, <1>3, <1>4

\* gather, of a byte of the prefix or of the header.
LEMMA GatherIs ==
    ASSUME NEW r, NEW w \in Seq(Byte), IsStream(r), Gathers(r, w), NEW b \in Byte,
           r.log \in Seq(Events), r.rest = "read", r.granted \in Int
    PROVE  Outcome(r.stage, r.ready, r.granted, LossesOf(r.log), gather(r, b), Append(w, b))
<1>1. PICK x : x = Append(w, b)
  OBVIOUS
<1>2. /\ x \in Seq(Byte) /\ Len(x) = Len(w) + 1 /\ Len(w) \in Nat
      /\ Len(w) >= 2 => Layout(x) = Layout(w)
  BY <1>1, OneByteMore
<1>3. PICK n : n = Len(x)
  OBVIOUS
<1>4. PICK t : t = [r EXCEPT !.prefix = x, !.filled = n]
  OBVIOUS
<1>5. /\ IsStream(t) /\ t.stage = r.stage /\ t.need = r.need /\ t.prefix = x /\ t.filled = Len(x)
      /\ t.building = NoFrame /\ t.log = r.log /\ t.ready = r.ready /\ t.granted = r.granted
      /\ t.rest = "read"
  BY <1>3, <1>4 DEF IsStream, StreamFields, Gathers
<1>6. gather(r, b) = IF t.filled < t.need THEN t
                     ELSE IF t.stage = "Prefix" THEN Opened(t) ELSE begin_frame(t)
  BY <1>1, <1>2, <1>3, <1>4 DEF gather, Gathers
<1>7. r.stage \in Opening
  BY DEF Gathers
<1>8. CASE r.stage = "Prefix" /\ Len(x) < 2
  <2>1. gather(r, b) = t
    BY <1>5, <1>6, <1>8 DEF Gathers
  <2>2. InFlight(t, x)
    <3>1. Gathers(t, x)
      BY <1>5, <1>8 DEF Gathers, Opening
    <3> QED BY <1>2, <1>5, <3>1 DEF InFlight
  <2>3. Waits(r.stage, r.ready, r.granted, LossesOf(r.log), t, x)
    BY <1>5, <1>7, <2>2 DEF Waits
  <2> QED BY <1>1, <1>5, <2>1, <2>3 DEF Outcome
<1>9. CASE r.stage = "Prefix" /\ ~(Len(x) < 2)
  <2>1. Len(x) = 2
    BY <1>2, <1>9 DEF Gathers
  <2>2. gather(r, b) = Opened(t)
    BY <1>5, <1>6, <1>9 DEF Gathers
  <2>3. Outcome(r.stage, t.ready, t.granted, LossesOf(t.log), Opened(t), x)
    BY <1>2, <1>5, <1>7, <2>1, OpenedIs
  <2> QED BY <1>1, <1>5, <2>2, <2>3
<1>10. CASE r.stage = "Header"
  <2>1. /\ Len(w) >= 2 /\ supported(Layout(x)) /\ t.need = 2 + header_size(Layout(x))
        /\ Len(w) < t.need
    BY <1>2, <1>5, <1>10 DEF Gathers
  <2>2. Len(x) >= 2 /\ header_size(Layout(x)) \in Nat
    <3>1. Len(x) >= 2
      BY <1>2, <2>1
    <3> QED BY <1>2, <3>1, ReceivedLayout
  <2>3. CASE Len(x) < t.need
    <3>1. gather(r, b) = t
      BY <1>5, <1>6, <2>3
    <3>2. InFlight(t, x)
      <4>1. Gathers(t, x)
        BY <1>5, <1>10, <2>1, <2>2, <2>3 DEF Gathers, Opening
      <4> QED BY <1>2, <1>5, <4>1 DEF InFlight
    <3>3. Waits(r.stage, r.ready, r.granted, LossesOf(r.log), t, x)
      BY <1>5, <1>7, <3>2 DEF Waits
    <3> QED BY <1>1, <1>5, <3>1, <3>3 DEF Outcome
  <2>4. CASE ~(Len(x) < t.need)
    <3>1. gather(r, b) = begin_frame(t)
      BY <1>5, <1>6, <1>10, <2>4
    <3>2. Len(x) = 2 + header_size(Layout(x))
      BY <1>2, <2>1, <2>2, <2>4
    <3>3. Stands(t, x)
      BY <1>2, <1>5, <1>10, <2>1, <2>2, <3>2 DEF Stands, Known
    <3>4. Outcome(r.stage, t.ready, t.granted, LossesOf(t.log), begin_frame(t), x)
      BY <1>5, <1>7, <3>3, BeginIs
    <3> QED BY <1>1, <1>5, <3>1, <3>4
  <2> QED BY <2>3, <2>4
<1> QED BY <1>7, <1>8, <1>9, <1>10 DEF Opening

\* A byte of the frame that was expected.
LEMMA ExpectedMore ==
    ASSUME NEW r, NEW w \in Seq(Byte), Expects(r, w), NEW b \in Byte
    PROVE  /\ r.remaining \in Nat /\ r.remaining >= 1
           /\ r.remaining = 1 => Whole(Append(w, b))
           /\ r.remaining # 1 =>
                /\ Known(Append(w, b)) /\ Len(Append(w, b)) < SizeOf(Append(w, b))
                /\ SizeOf(Append(w, b)) <= max_adu_size(Format)
                /\ r.remaining - 1 = SizeOf(Append(w, b)) - Len(Append(w, b))
<1>1. PICK x : x = Append(w, b)
  OBVIOUS
<1>2. Known(w) /\ Len(w) < SizeOf(w) /\ SizeOf(w) <= max_adu_size(Format)
      /\ r.remaining = SizeOf(w) - Len(w)
  BY DEF Expects
<1>3. Len(x) = Len(w) + 1 /\ Len(w) \in Nat /\ Known(x) /\ SizeOf(x) = SizeOf(w)
  BY <1>1, <1>2, OneByteMore
<1>4. SizeOf(w) \in Nat
  BY <1>2, SizeIsSize
<1>5. r.remaining \in Nat /\ r.remaining >= 1 /\ (r.remaining = 1 <=> SizeOf(w) = Len(w) + 1)
      /\ (r.remaining # 1 => Len(w) + 1 < SizeOf(w) /\ r.remaining - 1 = SizeOf(w) - (Len(w) + 1))
  <2>1. PICK n \in Nat, m \in Nat : n = Len(w) /\ m = SizeOf(w) /\ r.remaining = m - n /\ n < m
    BY <1>2, <1>3, <1>4
  <2> QED BY <2>1
<1> QED BY <1>1, <1>2, <1>3, <1>5 DEF Whole

\* A byte of a frame that has a block.
LEMMA BodyIs ==
    ASSUME NEW r, NEW w \in Seq(Byte), IsStream(r), Stores(r, w), NEW b \in Byte,
           r.log \in Seq(Events), r.rest = "read", r.granted \in Int
    PROVE  Outcome(r.stage, r.ready, r.granted, LossesOf(r.log), Body(r, b), Append(w, b))
<1>1. PICK x : x = Append(w, b)
  OBVIOUS
<1>2. x \in Seq(Byte) /\ Len(x) = Len(w) + 1 /\ SizeOf(x) = SizeOf(w)
  BY <1>1, OneByteMore DEF Stores, Expects
<1>3. PICK building, filled, remaining :
         building = [size |-> SizeOf(x), bytes |-> x] /\ filled = Len(x) /\ remaining = r.remaining - 1
  OBVIOUS
<1>4. PICK t : t = [r EXCEPT !.building = building, !.filled = filled, !.remaining = remaining]
  OBVIOUS
<1>5. /\ IsStream(t) /\ t.stage = "Body" /\ t.building = building /\ t.filled = Len(x)
      /\ t.remaining = r.remaining - 1 /\ t.log = r.log /\ t.ready = r.ready
      /\ t.granted = r.granted /\ t.rest = "read"
  BY <1>3, <1>4 DEF IsStream, StreamFields, Stores
<1>6. t = [r EXCEPT !.building.bytes = Append(@, b), !.filled = @ + 1, !.remaining = @ - 1]
  <2>1. [r.building EXCEPT !.bytes = Append(@, b)] = building
    <3>1. PICK old : old = r.building
      OBVIOUS
    <3>2. old = [size |-> SizeOf(x), bytes |-> w]
      BY <1>2, <3>1 DEF Stores
    <3>3. Append(old.bytes, b) = x
      BY <1>1, <3>2
    <3>4. [old EXCEPT !.bytes = x] = building
      BY <1>3, <3>2
    <3> QED BY <3>1, <3>3, <3>4
  <2>2. r.filled + 1 = filled
    BY <1>2, <1>3 DEF Stores
  <2> QED BY <1>3, <1>4, <2>1, <2>2 DEF IsStream, StreamFields
<1>7. Body(r, b) = IF t.remaining = 0 THEN complete(t) ELSE t
  BY <1>6 DEF Body
<1>8. /\ r.remaining \in Nat /\ r.remaining >= 1 /\ (r.remaining = 1 => Whole(x))
      /\ r.remaining # 1 =>
           /\ Known(x) /\ Len(x) < SizeOf(x) /\ SizeOf(x) <= max_adu_size(Format)
           /\ r.remaining - 1 = SizeOf(x) - Len(x)
  BY <1>1, ExpectedMore DEF Stores
<1>9. CASE r.remaining # 1
  <2>1. Body(r, b) = t
    BY <1>5, <1>7, <1>8, <1>9
  <2>2. InFlight(t, x)
    <3>1. Stores(t, x)
      BY <1>3, <1>5, <1>8, <1>9 DEF Stores, Expects
    <3> QED BY <1>2, <1>5, <3>1 DEF InFlight
  <2>3. Waits(r.stage, r.ready, r.granted, LossesOf(r.log), t, x)
    BY <1>5, <2>2 DEF Waits, Stores
  <2> QED BY <1>1, <1>5, <2>1, <2>3 DEF Outcome
<1>10. CASE r.remaining = 1
  <2>1. Body(r, b) = complete(t)
    BY <1>5, <1>7, <1>8, <1>10
  <2>2. Whole(x)
    BY <1>8, <1>10
  <2>3. PICK u : u = complete(t)
    OBVIOUS
  <2>4. building # NoFrame
    <3>1. SizeOf(x) \in Nat
      BY <1>2, <2>2, SizeIsSize DEF Whole
    <3>2. building \in [size : Nat, bytes : Seq(Byte)]
      BY <1>2, <1>3, <3>1
    <3> QED BY <3>2, StreamAssumption
  <2>5. /\ Idle(u) /\ u.log \in Seq(Events)
        /\ Sound(x) => /\ u.rest = "read" /\ u.granted = r.granted
                       /\ u.ready = Append(r.ready, x) /\ LossesOf(u.log) = LossesOf(r.log)
        /\ ~Sound(x) => /\ u.rest = "drop" /\ u.granted = r.granted - 1
                        /\ u.ready = r.ready
                        /\ LossesOf(u.log) = Append(LossesOf(r.log), "crc_errors")
    <3>1. t.log \in Seq(Events) /\ t.building # NoFrame /\ t.building.bytes = x
      BY <1>3, <1>5, <2>4
    <3>2. verify(x) <=> Sound(x)
      BY <1>2, <2>2, VerifyIs
    <3> QED BY <1>5, <2>3, <3>1, <3>2, CompleteIs
  <2>6. r.stage = "Body"
    BY DEF Stores
  <2>7. CASE Sound(x)
    <3>1. Delivers(r.stage, r.ready, r.granted, LossesOf(r.log), u, x)
      BY <2>2, <2>5, <2>6, <2>7 DEF Delivers
    <3> QED BY <1>1, <2>1, <2>3, <2>5, <3>1 DEF Outcome
  <2>8. CASE ~Sound(x)
    <3>1. FailsFor("crc_errors", r.stage, r.granted, u, x)
      BY <2>2, <2>5, <2>6, <2>8 DEF FailsFor
    <3>2. Fails(r.stage, r.ready, r.granted, LossesOf(r.log), u, x)
      BY <2>5, <2>8, <3>1 DEF Fails, Losses
    <3> QED BY <1>1, <2>1, <2>3, <2>5, <3>2 DEF Outcome
  <2> QED BY <2>7, <2>8
<1> QED BY <1>9, <1>10

\* A byte of one that has none.
LEMMA SkipIs ==
    ASSUME NEW r, NEW w \in Seq(Byte), IsStream(r), Skips(r, w), NEW b \in Byte,
           r.log \in Seq(Events), r.rest = "read", r.granted \in Int
    PROVE  Outcome(r.stage, r.ready, r.granted, LossesOf(r.log), Skip(r, b), Append(w, b))
<1>1. PICK x : x = Append(w, b)
  OBVIOUS
<1>2. x \in Seq(Byte)
  BY <1>1, OneByteMore
<1>3. /\ r.remaining \in Nat /\ r.remaining >= 1 /\ (r.remaining = 1 => Whole(x))
      /\ r.remaining # 1 =>
           /\ Known(x) /\ Len(x) < SizeOf(x) /\ SizeOf(x) <= max_adu_size(Format)
           /\ r.remaining - 1 = SizeOf(x) - Len(x)
  BY <1>1, ExpectedMore DEF Skips
<1>4. r.stage = "Skip" /\ r.building = NoFrame
  BY DEF Skips
<1>5. CASE r.remaining = 1
  <2>1. PICK u : u = reset(r)
    OBVIOUS
  <2>2. Idle(u) /\ u.ready = r.ready /\ u.granted = r.granted /\ u.log = r.log /\ u.rest = "read"
    BY <1>4, <2>1, ResetIs DEF Idle
  <2>3. Passes(r.stage, r.ready, r.granted, LossesOf(r.log), u, x)
    BY <1>3, <1>4, <1>5, <2>2 DEF Passes
  <2> QED BY <1>1, <1>5, <2>1, <2>2, <2>3 DEF Outcome, Skip
<1>6. CASE r.remaining # 1
  <2>1. PICK left : left = r.remaining - 1
    OBVIOUS
  <2>2. PICK u : u = [r EXCEPT !.remaining = left]
    OBVIOUS
  <2>3. /\ IsStream(u) /\ u.stage = "Skip" /\ u.remaining = left /\ u.building = NoFrame
        /\ u.ready = r.ready /\ u.granted = r.granted /\ u.log = r.log /\ u.rest = "read"
    BY <1>4, <2>2 DEF IsStream, StreamFields
  <2>4. InFlight(u, x)
    BY <1>2, <1>3, <1>6, <2>1, <2>3 DEF InFlight, Skips, Expects
  <2>5. Waits(r.stage, r.ready, r.granted, LossesOf(r.log), u, x)
    BY <1>4, <2>3, <2>4 DEF Waits
  <2>6. Skip(r, b) = u
    BY <1>6, <2>1, <2>2 DEF Skip
  <2> QED BY <1>1, <2>3, <2>5, <2>6 DEF Outcome
<1> QED BY <1>5, <1>6

\* What one byte makes of a receiver, in every stage.
LEMMA ByteRead ==
    ASSUME NEW r, NEW w, InFlight(r, w), NEW b \in Byte,
           r.log \in Seq(Events), r.rest = "read", r.granted \in Int
    PROVE  Outcome(r.stage, r.ready, r.granted, LossesOf(r.log), TakeByte(r, b), Append(w, b))
<1>1. IsStream(r) /\ w \in Seq(Byte)
  BY DEF InFlight
<1>2. TakeByte(r, b) = ReadByte(r, b)
  BY DEF TakeByte
<1>3. CASE Gathers(r, w)
  <2>1. ReadByte(r, b) = gather(r, b)
    BY <1>3 DEF ReadByte, Gathers, Opening
  <2> QED BY <1>1, <1>2, <1>3, <2>1, GatherIs
<1>4. CASE Stores(r, w)
  <2>1. ReadByte(r, b) = Body(r, b)
    BY <1>4 DEF ReadByte, Stores
  <2> QED BY <1>1, <1>2, <1>4, <2>1, BodyIs
<1>5. CASE Skips(r, w)
  <2>1. ReadByte(r, b) = Skip(r, b)
    BY <1>5 DEF ReadByte, Skips
  <2> QED BY <1>1, <1>2, <1>5, <2>1, SkipIs
<1> QED BY <1>3, <1>4, <1>5 DEF InFlight

-----------------------------------------------------------------------------
(* The bytes of a call: the receiver follows the verdict of the reference. *)

\* Of a receiver at the start of a call: the frame under way was refused a block, or has
\* one; the blocks left; what the bytes w stand for.
Denied(r) == r.stage = "Skip"
Granted(r) == r.building # NoFrame
Free(r) == RxBlocks - r.granted
Verdicts(r, w) == From(w, Denied(r), Granted(r), Free(r))
Verdict(r, w) == Verdicts(r, w)[1][Free(r)]

Stored(r) == IF r.stage = "Body" THEN 1 ELSE 0

\* The receiver t has read n bytes of w, delivered and lost so much, and reads the frame
\* that stands at p with f blocks free.
Reads(r, t, w, n, delivered, lost, p, f) ==
    /\ t.rest = "read" /\ InFlight(t, SubSeq(w, p, n))
    /\ Verdict(r, w) = Joined(delivered, lost, Verdicts(r, w)[p][f])
    /\ t.stage = "Skip" => Passed(Denied(r), Granted(r), p, f)
    /\ t.stage = "Body" => ~Passed(Denied(r), Granted(r), p, f)
    /\ p = 1 => (Denied(r) => t.stage = "Skip") /\ (Granted(r) => t.stage = "Body")
    /\ LossesOf(t.log) = (IF t.stage = "Skip"
                          THEN lost \o Skipped(Denied(r), Granted(r), p, f) ELSE lost)
    /\ RxBlocks - t.granted = (IF t.stage = "Body" THEN Left(Granted(r), p, f) ELSE f)

\* ... or drops the rest of the call: the losses still to come are later.
Drops(r, t, w, delivered, lost, later) ==
    /\ Idle(t) /\ LossesOf(t.log) = lost
    /\ Verdict(r, w) = Joined(delivered, lost, [delivered |-> <<>>, open |-> <<>>, lost |-> later])

Follows(r, t, w, n) ==
    /\ IsStream(t) /\ t.log \in Seq(Events) /\ t.granted \in Nat /\ t.granted <= RxBlocks
    /\ \E delivered \in Seq(Seq(Byte)), lost \in Seq(Losses) :
         /\ t.ready = r.ready \o delivered
         /\ \A k \in 1 .. Len(delivered) : Whole(delivered[k]) /\ Sound(delivered[k])
         /\ t.granted = ((r.granted + Len(delivered)) + Stored(t)) - Stored(r)
         /\ \/ \E p \in 1 .. n + 1, f \in 0 .. Free(r) : Reads(r, t, w, n, delivered, lost, p, f)
            \/ t.rest = "drop" /\ Drops(r, t, w, delivered, lost,
                                        IF n < Len(w) THEN <<"resyncs">> ELSE <<>>)
            \/ t.rest = "dropped" /\ Drops(r, t, w, delivered, lost, <<>>)

\* Of sequences: one element more,
LEMMA AppendJoins ==
    ASSUME NEW S, NEW q \in Seq(S), NEW x \in S
    PROVE  Append(q, x) = q \o <<x>> /\ <<x>> \in Seq(S) /\ Append(q, x) \in Seq(S)
           /\ Len(Append(q, x)) = Len(q) + 1
<1>1. PICK y : y = <<x>>
  OBVIOUS
<1>2. y \in Seq(S) /\ Len(y) = 1 /\ y[1] = x
  BY <1>1
<1>3. PICK u, v : u = Append(q, x) /\ v = q \o y
  OBVIOUS
<1>4. Len(q) \in Nat /\ u \in Seq(S) /\ Len(u) = Len(q) + 1 /\ u[Len(q) + 1] = x
      /\ \A i \in 1 .. Len(q) : u[i] = q[i]
  BY <1>3, AppendProperties, LenProperties
<1>5. v \in Seq(S) /\ Len(v) = Len(q) + 1
      /\ \A i \in 1 .. Len(q) + 1 : v[i] = IF i <= Len(q) THEN q[i] ELSE y[i - Len(q)]
  <2>1. /\ v \in Seq(S) /\ Len(v) = Len(q) + Len(y)
        /\ \A i \in 1 .. Len(q) + Len(y) : v[i] = IF i <= Len(q) THEN q[i] ELSE y[i - Len(q)]
    BY <1>2, <1>3, ConcatProperties, Zenon
  <2> QED BY <1>2, <2>1
<1>6. \A i \in 1 .. Len(u) : u[i] = v[i]
  <2>1. (Len(q) + 1) - Len(q) = 1
    BY <1>4
  <2> QED BY <1>2, <1>4, <1>5, <2>1
<1>7. u = v
  BY <1>4, <1>5, <1>6, SeqEqual
<1> QED BY <1>1, <1>2, <1>3, <1>4, <1>7

\* three in a row.
LEMMA Reassociate ==
    ASSUME NEW S, NEW x \in Seq(S), NEW y \in Seq(S), NEW z \in Seq(S)
    PROVE  (x \o y) \o z = x \o (y \o z)
BY ConcatAssociative

\* Of verdicts: what was before what was before,
LEMMA JoinedTwice ==
    ASSUME NEW d \in Seq(Seq(Byte)), NEW l \in Seq(Losses),
           NEW e \in Seq(Seq(Byte)), NEW m \in Seq(Losses), NEW r, IsVerdict(r)
    PROVE  Joined(d, l, Joined(e, m, r)) = Joined(d \o e, l \o m, r)
<1>1. (d \o e) \o r.delivered = d \o (e \o r.delivered) /\ (l \o m) \o r.lost = l \o (m \o r.lost)
  <2>1. PICK S, x, y : S = Seq(Byte) /\ x = r.delivered /\ y = r.lost
    OBVIOUS
  <2>2. (d \o e) \o x = d \o (e \o x)
    <3>1. d \in Seq(S) /\ e \in Seq(S) /\ x \in Seq(S)
      BY <2>1 DEF IsVerdict
    <3> QED BY ONLY <3>1, Reassociate, SMTT(30)
  <2>3. (l \o m) \o y = l \o (m \o y)
    <3>1. y \in Seq(Losses)
      BY <2>1 DEF IsVerdict
    <3> QED BY <3>1, Reassociate, SMTT(30)
  <2> QED BY <2>1, <2>2, <2>3
<1> QED BY <1>1 DEF Joined

\* nothing before.
LEMMA JoinedNothing ==
    ASSUME NEW r, IsVerdict(r)
    PROVE  Joined(<<>>, <<>>, r) = r
<1>1. <<>> \o r.delivered = r.delivered /\ <<>> \o r.lost = r.lost
  BY ConcatEmptySeq DEF IsVerdict
<1> QED BY <1>1 DEF Joined, IsVerdict

\* The next byte of what is read, and what it begins.
LEMMA NextByte ==
    ASSUME NEW w \in Seq(Byte), NEW n \in Nat, n < Len(w), NEW p \in 1 .. n + 1
    PROVE  /\ w[n + 1] \in Byte
           /\ Append(SubSeq(w, p, n), w[n + 1]) = SubSeq(w, p, n + 1)
           /\ SubSeq(w, p, n + 1) \in Seq(Byte) /\ Len(SubSeq(w, p, n + 1)) = (n + 2) - p
           /\ Rest(w, p) \in Seq(Byte) /\ Len(Rest(w, p)) = (Len(w) + 1) - p /\ Len(w) \in Nat
           /\ \A i \in 1 .. (n + 2) - p : SubSeq(w, p, n + 1)[i] = Rest(w, p)[i]
<1>1. Len(w) \in Nat
  BY LenProperties
<1>2. \A i \in 1 .. Len(w) : w[i] \in Byte
  BY ElementOfSeq
<1>3. w[n + 1] \in Byte
  BY <1>1, <1>2
<1>4. PICK x, y, v : x = SubSeq(w, p, n + 1) /\ y = SubSeq(w, p, n) /\ v = Rest(w, p)
  OBVIOUS
<1>5. x \in Seq(Byte) /\ Len(x) = (n + 2) - p /\ \A i \in 1 .. (n + 2) - p : x[i] = w[(p + i) - 1]
  <2>1. \A i \in p .. n + 1 : w[i] \in Byte
    BY <1>1, <1>2
  <2>2. /\ x \in Seq(Byte) /\ Len(x) = (IF p <= n + 1 THEN (n + 1) - p + 1 ELSE 0)
        /\ \A i \in 1 .. (n + 1) - p + 1 : x[i] = w[p + i - 1]
    BY <1>4, <2>1, SubSeqProperties
  <2> QED BY <2>2
<1>6. y \in Seq(Byte) /\ Len(y) = (n + 1) - p /\ \A i \in 1 .. (n + 1) - p : y[i] = w[(p + i) - 1]
  <2>1. \A i \in p .. n : w[i] \in Byte
    BY <1>1, <1>2
  <2>2. /\ y \in Seq(Byte) /\ Len(y) = (IF p <= n THEN n - p + 1 ELSE 0)
        /\ \A i \in 1 .. n - p + 1 : y[i] = w[p + i - 1]
    BY <1>4, <2>1, SubSeqProperties
  <2> QED BY <2>2
<1>7. v \in Seq(Byte) /\ Len(v) = (Len(w) + 1) - p
      /\ \A i \in 1 .. (Len(w) + 1) - p : v[i] = w[(p + i) - 1]
  <2>1. p \in 1 .. Len(w) + 1
    BY <1>1
  <2>2. /\ v \in Seq(Byte) /\ Len(v) = (Len(w) - p) + 1
        /\ \A i \in 1 .. (Len(w) - p) + 1 : v[i] = w[(p + i) - 1]
    BY <1>4, <2>1, RestOf
  <2> QED BY <1>1, <2>2
<1>8. \A i \in 1 .. (n + 2) - p : x[i] = v[i]
  BY <1>1, <1>5, <1>7
<1>9. Append(y, w[n + 1]) = x
  <2>1. PICK z : z = Append(y, w[n + 1])
    OBVIOUS
  <2>2. /\ z \in Seq(Byte) /\ Len(z) = Len(y) + 1 /\ z[Len(y) + 1] = w[n + 1]
        /\ \A i \in 1 .. Len(y) : z[i] = y[i]
    BY <1>3, <1>6, <2>1, AppendProperties
  <2>3. PICK k \in Nat : k = Len(y) /\ k = (n + 1) - p
    BY <1>6
  <2>4. Len(z) = Len(x) /\ \A i \in 1 .. Len(z) : z[i] = x[i]
    <3>1. Len(z) = k + 1 /\ Len(x) = k + 1
      BY <1>5, <2>2, <2>3
    <3>2. z[k + 1] = x[k + 1]
      BY <1>5, <2>2, <2>3
    <3>3. \A i \in 1 .. k : z[i] = x[i]
      BY <1>5, <1>6, <2>2, <2>3
    <3> QED BY <3>1, <3>2, <3>3
  <2> QED BY <1>5, <2>1, <2>2, <2>4, SeqEqual
<1> QED BY <1>1, <1>3, <1>4, <1>5, <1>7, <1>8, <1>9

\* A receiver with a frame under way, at the start of a call.
Starts(r, w) ==
    /\ w \in Seq(Byte) /\ IsStream(r) /\ r.granted \in Nat /\ r.granted <= RxBlocks
    /\ r.ready \in Seq(Seq(Byte)) /\ Stored(r) <= r.granted
    /\ ~(Denied(r) /\ Granted(r))

\* The terms of a start.
LEMMA StartFree ==
    ASSUME NEW r, NEW w, Starts(r, w)
    PROVE  Free(r) \in Nat /\ Denied(r) \in BOOLEAN /\ Granted(r) \in BOOLEAN /\ RxBlocks \in Nat
BY StreamAssumption DEF Starts, Free, Denied, Granted

Alone(x) == <<x>>
Begins(x, v) == Len(x) <= Len(v) /\ \A i \in 1 .. Len(x) : x[i] = v[i]

\* A whole frame decides what stands where it stands.
LEMMA WholeDecides ==
    ASSUME NEW r, NEW w, Starts(r, w), NEW p \in 1 .. Len(w) + 1, NEW f \in 0 .. Free(r),
           NEW x \in Seq(Byte), Whole(x), Begins(x, Rest(w, p))
    PROVE  /\ Passed(Denied(r), Granted(r), p, f) =>
                Verdicts(r, w)[p][f] = Joined(<<>>, Skipped(Denied(r), Granted(r), p, f),
                                              Verdicts(r, w)[p + Len(x)][f])
           /\ ~Passed(Denied(r), Granted(r), p, f) /\ Sound(x) =>
                Verdicts(r, w)[p][f] = Joined(Alone(x), <<>>,
                                              Verdicts(r, w)[p + Len(x)][Left(Granted(r), p, f)])
           /\ ~Passed(Denied(r), Granted(r), p, f) /\ ~Sound(x) =>
                Verdicts(r, w)[p][f] = Lost("crc_errors", Len(x), Rest(w, p))
<1>1. PICK v : v = Rest(w, p)
  OBVIOUS
<1>2. w \in Seq(Byte) /\ v \in Seq(Byte)
  BY <1>1, RestOf DEF Starts
<1>0. Len(x) <= Len(v) /\ \A i \in 1 .. Len(x) : x[i] = v[i]
  BY <1>1 DEF Begins
<1>3. PICK V : V = Verdicts(r, w)
  OBVIOUS
<1>4. V[p][f] = FromTerms(Denied(r), Granted(r), V, p, f, v)
  BY <1>1, <1>2, <1>3, StartFree, ReadingsUnfold DEF Verdicts
<1>5. Known(v) /\ SizeOf(v) = Len(x)
  BY <1>0, <1>2, SizeOfMore DEF Whole
<1>6. Len(x) \in Nat /\ Len(v) \in Nat /\ Len(x) <= max_adu_size(Format) /\ max_adu_size(Format) \in Nat
  <2>1. max_adu_size(Format) \in Nat
    BY PolicyAssumption DEF max_adu_size, adu_overhead, adu_prefix_size
  <2> QED BY <1>2, <2>1, LenProperties DEF Whole
<1>7. SubSeq(v, 1, Len(x)) = x
  <2>1. PICK y : y = SubSeq(v, 1, Len(x))
    OBVIOUS
  <2>2. \A i \in 1 .. Len(x) : v[i] \in Byte
    BY <1>0, <1>2, <1>6, ElementOfSeq
  <2>3. /\ y \in Seq(Byte) /\ Len(y) = (IF 1 <= Len(x) THEN Len(x) - 1 + 1 ELSE 0)
        /\ \A i \in 1 .. Len(x) - 1 + 1 : y[i] = v[1 + i - 1]
    BY <1>6, <2>1, <2>2, SubSeqProperties
  <2>4. Len(y) = Len(x) /\ \A i \in 1 .. Len(y) : y[i] = x[i]
    BY <1>0, <1>6, <2>3
  <2> QED BY <2>1, <2>3, <2>4, SeqEqual
<1>8. /\ Len(v) >= 2 /\ supported(Layout(v)) /\ ~(Len(v) < 2)
      /\ ~(SizeOf(v) > max_adu_size(Format)) /\ ~(Len(v) < SizeOf(v))
  BY <1>0, <1>5, <1>6 DEF Known
<1>9. FromTerms(Denied(r), Granted(r), V, p, f, v)
        = IF Passed(Denied(r), Granted(r), p, f)
          THEN Joined(<<>>, Skipped(Denied(r), Granted(r), p, f), V[p + Len(x)][f])
          ELSE IF ~Sound(x) THEN Lost("crc_errors", Len(x), v)
          ELSE Joined(Alone(x), <<>>, V[p + Len(x)][Left(Granted(r), p, f)])
  BY <1>5, <1>7, <1>8, Zenon DEF FromTerms, Alone
<1> QED BY <1>1, <1>3, <1>4, <1>9

\* ... and so do the two headers that name none.
LEMMA HeaderDecides ==
    ASSUME NEW r, NEW w, Starts(r, w), NEW p \in 1 .. Len(w) + 1, NEW f \in 0 .. Free(r),
           NEW x \in Seq(Byte), Begins(x, Rest(w, p))
    PROVE  /\ Len(x) = 2 /\ ~supported(Layout(x)) =>
                Verdicts(r, w)[p][f] = Lost("unsupported_function", 2, Rest(w, p))
           /\ Known(x) /\ SizeOf(x) > max_adu_size(Format) /\ Len(x) = 2 + header_size(Layout(x)) =>
                Verdicts(r, w)[p][f] = Lost("oversize", Len(x), Rest(w, p))
<1>1. PICK v : v = Rest(w, p)
  OBVIOUS
<1>2. w \in Seq(Byte) /\ v \in Seq(Byte)
  BY <1>1, RestOf DEF Starts
<1>0. Len(x) <= Len(v) /\ \A i \in 1 .. Len(x) : x[i] = v[i]
  BY <1>1 DEF Begins
<1>3. PICK V : V = Verdicts(r, w)
  OBVIOUS
<1>4. V[p][f] = FromTerms(Denied(r), Granted(r), V, p, f, v)
  BY <1>1, <1>2, <1>3, StartFree, ReadingsUnfold DEF Verdicts
<1>5. Len(x) \in Nat /\ Len(v) \in Nat
  BY <1>2, LenProperties
<1>6. ASSUME Len(x) = 2, ~supported(Layout(x)) PROVE V[p][f] = Lost("unsupported_function", 2, v)
  <2>1. Layout(v) = Layout(x) /\ ~(Len(v) < 2)
    BY <1>0, <1>5, <1>6 DEF Layout
  <2> QED BY <1>4, <1>6, <2>1 DEF FromTerms
<1>7. ASSUME Known(x), SizeOf(x) > max_adu_size(Format), Len(x) = 2 + header_size(Layout(x))
      PROVE  V[p][f] = Lost("oversize", Len(x), v)
  <2>1. Known(v) /\ SizeOf(v) = SizeOf(x) /\ Layout(v) = Layout(x)
    BY <1>0, <1>2, <1>7, SizeOfMore
  <2>2. ~(Len(v) < 2) /\ supported(Layout(v))
    BY <1>5, <2>1 DEF Known
  <2> QED BY <1>4, <1>7, <2>1, <2>2 DEF FromTerms
<1> QED BY <1>1, <1>3, <1>6, <1>7

\* Every place of its bytes has a verdict.
LEMMA PlaceVerdict ==
    ASSUME NEW r, NEW w, Starts(r, w), NEW p \in 1 .. Len(w) + 1, NEW f \in 0 .. Free(r)
    PROVE  IsVerdict(Verdicts(r, w)[p][f])
BY StartFree, ReadingVerdict DEF Starts, Verdicts

Later(later) == [delivered |-> <<>>, open |-> <<>>, lost |-> later]

\* So has a call that loses and nothing else.
LEMMA LaterVerdict ==
    ASSUME NEW later \in Seq(Losses)
    PROVE  IsVerdict(Later(later))
<1>1. <<>> \in Seq(Seq(Byte)) /\ <<>> \in Seq(Byte)
  OBVIOUS
<1> QED BY <1>1 DEF IsVerdict, Later

\* An error is its cause, and then the resync of what is left.
LEMMA LostJoined ==
    ASSUME NEW cause \in Losses, NEW used \in Nat, NEW v \in Seq(Byte)
    PROVE  Lost(cause, used, v)
             = Joined(<<>>, <<cause>>, Later(IF Len(v) > used THEN <<"resyncs">> ELSE <<>>))
<1>1. PICK more \in Losses : more = "resyncs"
  BY DEF Losses
<1>2. <<cause>> \o <<more>> = <<cause, more>>
  <2>1. <<cause, more>> \in Seq(Losses) /\ Len(<<cause, more>>) = 2
        /\ <<cause, more>>[1] = cause /\ <<cause, more>>[2] = more
    OBVIOUS
  <2>2. PICK x, y : x = <<cause>> /\ y = <<more>>
    OBVIOUS
  <2>3. x \in Seq(Losses) /\ y \in Seq(Losses) /\ Len(x) = 1 /\ Len(y) = 1 /\ x[1] = cause /\ y[1] = more
    BY <2>2
  <2>4. PICK z : z = x \o y
    OBVIOUS
  <2>5. /\ z \in Seq(Losses) /\ Len(z) = Len(x) + Len(y)
        /\ \A i \in 1 .. Len(x) + Len(y) : z[i] = IF i <= Len(x) THEN x[i] ELSE y[i - Len(x)]
    BY <2>3, <2>4, ConcatProperties, Zenon
  <2>6. Len(z) = 2 /\ z[1] = cause /\ z[2] = more
    BY <2>3, <2>5
  <2>7. PICK u : u = <<cause, more>>
    OBVIOUS
  <2>8. Len(z) = Len(u) /\ \A i \in 1 .. Len(z) : z[i] = u[i]
    BY <2>1, <2>6, <2>7
  <2>9. z = u
    BY <2>1, <2>5, <2>7, <2>8, SeqEqual
  <2> QED BY <2>2, <2>4, <2>7, <2>9
<1>3. <<cause>> \o <<>> = <<cause>> /\ <<>> \o <<>> = <<>>
  <2>1. <<cause>> \in Seq(Losses) /\ <<>> \in Seq(Losses)
    OBVIOUS
  <2> QED BY <2>1, ConcatEmptySeq
<1> QED BY <1>1, <1>2, <1>3 DEF Lost, Joined, Later

\* A byte that leaves the frame under way ...
LEMMA FollowWaits ==
    ASSUME NEW r, NEW w, Starts(r, w), NEW n \in Nat, n < Len(w), NEW t, NEW u,
           NEW delivered, NEW lost \in Seq(Losses), NEW p \in 1 .. n + 1, NEW f \in 0 .. Free(r),
           Reads(r, t, w, n, delivered, lost, p, f), t.granted \in Nat, t.granted <= RxBlocks,
           Waits(t.stage, t.ready, t.granted, LossesOf(t.log), u, SubSeq(w, p, n + 1))
    PROVE  /\ Reads(r, u, w, n + 1, delivered, lost, p, f)
           /\ u.granted = (t.granted + Stored(u)) - Stored(t) /\ u.granted <= RxBlocks
<1>1. PICK x, losses : x = SubSeq(w, p, n + 1) /\ losses = LossesOf(t.log)
  OBVIOUS
<1>2. InFlight(u, x) /\ u.rest = "read"
  BY <1>1 DEF Waits
<1>3. RxBlocks \in Nat /\ Free(r) \in Nat
  BY StartFree
<1>4. CASE t.stage \in Opening /\ u.stage \in Opening /\ u.granted = t.granted
           /\ LossesOf(u.log) = losses
  BY <1>1, <1>2, <1>4 DEF Reads, Opening, Stored
<1>5. CASE u.stage = t.stage /\ u.granted = t.granted /\ LossesOf(u.log) = losses
  BY <1>1, <1>2, <1>3, <1>5 DEF Reads, Stored
<1>6. CASE /\ t.stage \in Opening /\ t.granted < RxBlocks /\ u.stage = "Body"
           /\ u.granted = t.granted + 1 /\ LossesOf(u.log) = losses
  <2>1. t.stage # "Body" /\ t.stage # "Skip"
    BY <1>6 DEF Opening
  <2>2. f # 0 /\ RxBlocks - t.granted = f
    BY <1>3, <1>6, <2>1 DEF Reads
  <2>3. ~(p = 1 /\ (Denied(r) \/ Granted(r)))
    BY <2>1 DEF Reads
  <2>4. ~Passed(Denied(r), Granted(r), p, f) /\ Left(Granted(r), p, f) = f - 1
    BY <2>2, <2>3 DEF Passed, Left
  <2>5. RxBlocks - u.granted = f - 1 /\ u.granted <= RxBlocks
    BY <1>3, <1>6, <2>2
  <2>6. LossesOf(u.log) = lost
    BY <1>1, <1>6, <2>1 DEF Reads
  <2>7. Reads(r, u, w, n + 1, delivered, lost, p, f)
    <3>1. p = 1 => ~Denied(r) /\ ~Granted(r)
      BY <2>3
    <3>2. Verdict(r, w) = Joined(delivered, lost, Verdicts(r, w)[p][f])
      BY DEF Reads
    <3> QED BY <1>1, <1>2, <1>6, <2>4, <2>5, <2>6, <3>1, <3>2 DEF Reads
  <2> QED BY <1>6, <2>1, <2>5, <2>7 DEF Stored
<1>7. CASE /\ t.stage \in Opening /\ ~(t.granted < RxBlocks) /\ u.stage = "Skip"
           /\ u.granted = t.granted /\ LossesOf(u.log) = Append(losses, "skipped_frames")
  <2>1. t.stage # "Body" /\ t.stage # "Skip"
    BY <1>7 DEF Opening
  <2>2. f = 0 /\ RxBlocks - t.granted = f
    BY <1>3, <1>7, <2>1 DEF Reads
  <2>3. ~(p = 1 /\ (Denied(r) \/ Granted(r)))
    BY <2>1 DEF Reads
  <2>4. Passed(Denied(r), Granted(r), p, f)
        /\ Skipped(Denied(r), Granted(r), p, f) = <<"skipped_frames">>
    BY <2>2, <2>3 DEF Passed, Skipped
  <2>5. losses = lost
    BY <1>1, <2>1 DEF Reads
  <2>6. LossesOf(u.log) = lost \o Skipped(Denied(r), Granted(r), p, f)
    <3>1. "skipped_frames" \in Losses
      BY DEF Losses
    <3> QED BY <1>7, <2>4, <2>5, <3>1, AppendJoins
  <2>7. Reads(r, u, w, n + 1, delivered, lost, p, f)
    <3>1. p = 1 => ~Denied(r) /\ ~Granted(r)
      BY <2>3
    <3>2. Verdict(r, w) = Joined(delivered, lost, Verdicts(r, w)[p][f])
      BY DEF Reads
    <3> QED BY <1>1, <1>2, <1>7, <2>2, <2>4, <2>6, <3>1, <3>2 DEF Reads
  <2> QED BY <1>7, <2>1, <2>7 DEF Stored
<1> QED BY <1>1, <1>4, <1>5, <1>6, <1>7 DEF Waits

\* What an idle receiver reads next.
LEMMA IdleReads ==
    ASSUME NEW w \in Seq(Byte), NEW n \in Nat, n < Len(w), NEW u, Idle(u)
    PROVE  InFlight(u, SubSeq(w, n + 2, n + 1))
<1>1. PICK x : x = SubSeq(w, n + 2, n + 1)
  OBVIOUS
<1>2. x = <<>>
  BY <1>1, SubSeqEmpty
<1>3. x \in Seq(Byte) /\ Len(x) = 0
  BY <1>2
<1>4. Gathers(u, x)
  BY <1>2, <1>3 DEF Gathers, Idle, Opening
<1> QED BY <1>1, <1>3, <1>4 DEF InFlight, Idle

\* ... one that ends a frame without a block ...
LEMMA FollowPasses ==
    ASSUME NEW r, NEW w, Starts(r, w), NEW n \in Nat, n < Len(w), NEW t, NEW u,
           NEW delivered \in Seq(Seq(Byte)), NEW lost \in Seq(Losses),
           NEW p \in 1 .. n + 1, NEW f \in 0 .. Free(r),
           Reads(r, t, w, n, delivered, lost, p, f), t.granted \in Nat, t.granted <= RxBlocks,
           Passes(t.stage, t.ready, t.granted, LossesOf(t.log), u, SubSeq(w, p, n + 1))
    PROVE  \E more \in Seq(Losses) :
             /\ Reads(r, u, w, n + 1, delivered, more, n + 2, f)
             /\ u.granted = t.granted /\ Stored(u) = 0 /\ Stored(t) = 0
<1>1. PICK x, losses : x = SubSeq(w, p, n + 1) /\ losses = LossesOf(t.log)
  OBVIOUS
<1>2. Idle(u) /\ u.rest = "read" /\ Whole(x) /\ u.granted = t.granted
  BY <1>1 DEF Passes
<1>3. RxBlocks \in Nat /\ Free(r) \in Nat /\ w \in Seq(Byte)
  BY StartFree DEF Starts
<1>4. /\ x \in Seq(Byte) /\ Len(x) = (n + 2) - p /\ Len(w) \in Nat
      /\ Begins(x, Rest(w, p))
  <2>1. /\ x \in Seq(Byte) /\ Len(x) = (n + 2) - p /\ Len(w) \in Nat
        /\ Len(Rest(w, p)) = (Len(w) + 1) - p
        /\ \A i \in 1 .. (n + 2) - p : x[i] = Rest(w, p)[i]
    BY <1>1, <1>3, NextByte
  <2> QED BY <2>1 DEF Begins
<1>5. p + Len(x) = n + 2 /\ p \in 1 .. Len(w) + 1 /\ n + 2 \in 1 .. Len(w) + 1
  <2>1. Len(x) = (n + 2) - p /\ Len(w) \in Nat
    BY <1>4
  <2> QED BY <2>1
<1>6. PICK skipped : skipped = Skipped(Denied(r), Granted(r), p, f)
  OBVIOUS
<1>7. skipped \in Seq(Losses)
  BY <1>6, SkippedLosses
<1>8. Passed(Denied(r), Granted(r), p, f) /\ LossesOf(u.log) = lost \o skipped
      /\ t.stage # "Body" /\ RxBlocks - t.granted = f
  <2>1. CASE t.stage = "Skip" /\ LossesOf(u.log) = losses
    BY <1>1, <1>6, <2>1 DEF Reads
  <2>2. CASE /\ t.stage \in Opening /\ ~(t.granted < RxBlocks)
             /\ LossesOf(u.log) = Append(losses, "skipped_frames")
    <3>1. t.stage # "Body" /\ t.stage # "Skip"
      BY <2>2 DEF Opening
    <3>2. f = 0 /\ RxBlocks - t.granted = f
      BY <1>3, <2>2, <3>1 DEF Reads
    <3>3. ~(p = 1 /\ (Denied(r) \/ Granted(r)))
      BY <3>1 DEF Reads
    <3>4. Passed(Denied(r), Granted(r), p, f) /\ skipped = <<"skipped_frames">>
      BY <1>6, <3>2, <3>3 DEF Passed, Skipped
    <3>5. losses = lost
      BY <1>1, <3>1 DEF Reads
    <3>6. "skipped_frames" \in Losses
      BY DEF Losses
    <3>7. LossesOf(u.log) = lost \o skipped
      BY <2>2, <3>4, <3>5, <3>6, AppendJoins
    <3> QED BY <3>1, <3>2, <3>4, <3>7
  <2> QED BY <1>1, <2>1, <2>2 DEF Passes
<1>9. PICK V : V = Verdicts(r, w)
  OBVIOUS
<1>10. V[p][f] = Joined(<<>>, skipped, V[n + 2][f])
  <2>1. Verdicts(r, w)[p][f] = Joined(<<>>, Skipped(Denied(r), Granted(r), p, f),
                                      Verdicts(r, w)[p + Len(x)][f])
    BY <1>2, <1>4, <1>5, <1>8, WholeDecides
  <2> QED BY <1>5, <1>6, <1>9, <2>1
<1>11. Verdict(r, w) = Joined(delivered, lost \o skipped, V[n + 2][f])
  <2>1. Verdict(r, w) = Joined(delivered, lost, V[p][f])
    BY <1>9 DEF Reads
  <2>a. PICK y : y = V[n + 2][f]
    OBVIOUS
  <2>2. IsVerdict(y)
    BY <1>5, <1>9, <2>a, PlaceVerdict
  <2>3. PICK d : d = <<>>
    OBVIOUS
  <2>4. d \in Seq(Seq(Byte))
    BY <2>3
  <2>b. delivered \o d = delivered
    BY <2>3, ConcatEmptySeq
  <2>5. Joined(delivered, lost, Joined(d, skipped, y)) = Joined(delivered \o d, lost \o skipped, y)
    BY <1>7, <2>2, <2>4, JoinedTwice
  <2> QED BY <1>10, <2>a, <2>b, <2>1, <2>3, <2>5
<1>12. lost \o skipped \in Seq(Losses)
  BY <1>7, ConcatProperties, Zenon
<1>13. InFlight(u, SubSeq(w, n + 2, n + 1)) /\ u.stage = "Prefix"
  BY <1>2, <1>3, IdleReads DEF Idle
<1>14. Reads(r, u, w, n + 1, delivered, lost \o skipped, n + 2, f)
  BY <1>2, <1>8, <1>9, <1>11, <1>13 DEF Reads
<1> QED BY <1>2, <1>8, <1>12, <1>13, <1>14 DEF Stored

\* ... one that completes a frame ...
LEMMA FollowDelivers ==
    ASSUME NEW r, NEW w, Starts(r, w), NEW n \in Nat, n < Len(w), NEW t, NEW u,
           NEW delivered \in Seq(Seq(Byte)), NEW lost \in Seq(Losses),
           NEW p \in 1 .. n + 1, NEW f \in 0 .. Free(r),
           Reads(r, t, w, n, delivered, lost, p, f), t.granted \in Nat, t.granted <= RxBlocks,
           Delivers(t.stage, t.ready, t.granted, LossesOf(t.log), u, SubSeq(w, p, n + 1))
    PROVE  \E g \in 0 .. Free(r) :
             /\ Reads(r, u, w, n + 1, Append(delivered, SubSeq(w, p, n + 1)), lost, n + 2, g)
             /\ u.granted = (t.granted + 1) - Stored(t) /\ Stored(u) = 0 /\ u.granted <= RxBlocks
<1>1. PICK x, losses : x = SubSeq(w, p, n + 1) /\ losses = LossesOf(t.log)
  OBVIOUS
<1>2. Idle(u) /\ u.rest = "read" /\ Whole(x) /\ Sound(x) /\ LossesOf(u.log) = losses
  BY <1>1 DEF Delivers
<1>3. RxBlocks \in Nat /\ Free(r) \in Nat /\ w \in Seq(Byte)
  BY StartFree DEF Starts
<1>4. /\ x \in Seq(Byte) /\ Len(x) = (n + 2) - p /\ Len(w) \in Nat
      /\ Begins(x, Rest(w, p))
  <2>1. /\ x \in Seq(Byte) /\ Len(x) = (n + 2) - p /\ Len(w) \in Nat
        /\ Len(Rest(w, p)) = (Len(w) + 1) - p
        /\ \A i \in 1 .. (n + 2) - p : x[i] = Rest(w, p)[i]
    BY <1>1, <1>3, NextByte
  <2> QED BY <2>1 DEF Begins
<1>5. p + Len(x) = n + 2 /\ p \in 1 .. Len(w) + 1 /\ n + 2 \in 1 .. Len(w) + 1
  <2>1. Len(x) = (n + 2) - p /\ Len(w) \in Nat
    BY <1>4
  <2> QED BY <2>1
<1>6. PICK g : g = Left(Granted(r), p, f)
  OBVIOUS
<1>7. /\ ~Passed(Denied(r), Granted(r), p, f) /\ RxBlocks - u.granted = g /\ losses = lost
      /\ u.granted = (t.granted + 1) - Stored(t) /\ u.granted <= RxBlocks
  <2>1. CASE t.stage = "Body" /\ u.granted = t.granted
    BY <1>1, <1>6, <2>1 DEF Reads, Stored
  <2>2. CASE t.stage \in Opening /\ t.granted < RxBlocks /\ u.granted = t.granted + 1
    <3>1. t.stage # "Body" /\ t.stage # "Skip"
      BY <2>2 DEF Opening
    <3>2. f # 0 /\ RxBlocks - t.granted = f
      BY <1>3, <2>2, <3>1 DEF Reads
    <3>3. ~(p = 1 /\ (Denied(r) \/ Granted(r)))
      BY <3>1 DEF Reads
    <3>4. ~Passed(Denied(r), Granted(r), p, f) /\ g = f - 1
      BY <1>6, <3>2, <3>3 DEF Passed, Left
    <3>5. losses = lost
      BY <1>1, <3>1 DEF Reads
    <3>6. Stored(t) = 0
      BY <3>1 DEF Stored
    <3>7. RxBlocks - u.granted = g /\ u.granted <= RxBlocks /\ u.granted = (t.granted + 1) - 0
      <4>1. PICK h \in Nat, k \in Nat : h = t.granted /\ k = RxBlocks /\ h < k /\ k - h = f
        BY <1>3, <2>2, <3>2
      <4>2. k - (h + 1) = (k - h) - 1 /\ h + 1 <= k /\ h + 1 = (h + 1) - 0
        BY <4>1, SMTT(30)
      <4> QED BY <2>2, <3>4, <4>1, <4>2
    <3> QED BY <3>4, <3>5, <3>6, <3>7
  <2> QED BY <1>1, <2>1, <2>2 DEF Delivers
<1>8. g \in 0 .. Free(r)
  BY <1>3, <1>6, <1>7 DEF Passed, Left
<1>9. PICK V : V = Verdicts(r, w)
  OBVIOUS
<1>10. V[p][f] = Joined(<<x>>, <<>>, V[n + 2][g])
  <2>1. Verdicts(r, w)[p][f] = Joined(Alone(x), <<>>,
                                      Verdicts(r, w)[p + Len(x)][Left(Granted(r), p, f)])
    BY <1>2, <1>4, <1>5, <1>7, WholeDecides
  <2> QED BY <1>5, <1>6, <1>9, <2>1 DEF Alone
<1>11. Verdict(r, w) = Joined(Append(delivered, x), lost, V[n + 2][g])
  <2>1. Verdict(r, w) = Joined(delivered, lost, V[p][f])
    BY <1>9 DEF Reads
  <2>a. PICK y : y = V[n + 2][g]
    OBVIOUS
  <2>2. IsVerdict(y)
    BY <1>5, <1>8, <1>9, <2>a, PlaceVerdict
  <2>3. PICK d, l : d = <<x>> /\ l = <<>>
    OBVIOUS
  <2>4. l \in Seq(Losses)
    BY <2>3
  <2>b. lost \o l = lost
    BY <2>3, ConcatEmptySeq
  <2>c. d \in Seq(Seq(Byte))
    BY <1>4, <2>3
  <2>5. delivered \o d = Append(delivered, x)
    <3>1. PICK S : S = Seq(Byte)
      OBVIOUS
    <3>2. delivered \in Seq(S) /\ x \in S
      BY <1>4, <3>1
    <3> QED BY <2>3, <3>1, <3>2, AppendJoins
  <2>6. Joined(delivered, lost, Joined(d, l, y)) = Joined(delivered \o d, lost \o l, y)
    BY <2>2, <2>4, <2>c, JoinedTwice
  <2> QED BY <1>10, <2>a, <2>b, <2>1, <2>3, <2>5, <2>6
<1>12. InFlight(u, SubSeq(w, n + 2, n + 1)) /\ u.stage = "Prefix"
  BY <1>2, <1>3, IdleReads DEF Idle
<1>13. n + 2 # 1
  OBVIOUS
<1>14. Reads(r, u, w, n + 1, Append(delivered, x), lost, n + 2, g)
  BY <1>2, <1>7, <1>9, <1>11, <1>12, <1>13 DEF Reads
<1> QED BY <1>1, <1>7, <1>8, <1>12, <1>14 DEF Stored

\* ... and one that shows an error: what was delivered and lost is followed.
LEMMA FollowFails ==
    ASSUME NEW r, NEW w, Starts(r, w), NEW n \in Nat, n < Len(w), NEW t, NEW u,
           NEW delivered \in Seq(Seq(Byte)), NEW lost \in Seq(Losses),
           NEW p \in 1 .. n + 1, NEW f \in 0 .. Free(r),
           Reads(r, t, w, n, delivered, lost, p, f), t.granted \in Nat, t.granted <= RxBlocks,
           Fails(t.stage, t.ready, t.granted, LossesOf(t.log), u, SubSeq(w, p, n + 1))
    PROVE  \E more \in Seq(Losses) :
             /\ Drops(r, u, w, delivered, more, IF n + 1 < Len(w) THEN <<"resyncs">> ELSE <<>>)
             /\ u.granted = t.granted - Stored(t) /\ Stored(u) = 0 /\ u.granted <= RxBlocks
<1>1. PICK x, losses : x = SubSeq(w, p, n + 1) /\ losses = LossesOf(t.log)
  OBVIOUS
<1>2. PICK cause \in Losses : /\ Idle(u) /\ u.rest = "drop" /\ LossesOf(u.log) = Append(losses, cause)
                              /\ FailsFor(cause, t.stage, t.granted, u, x)
  BY <1>1 DEF Fails
<1>3. RxBlocks \in Nat /\ Free(r) \in Nat /\ w \in Seq(Byte)
  BY StartFree DEF Starts
<1>4. PICK v : v = Rest(w, p)
  OBVIOUS
<1>5. /\ x \in Seq(Byte) /\ Len(x) = (n + 2) - p /\ Len(w) \in Nat /\ v \in Seq(Byte)
      /\ Len(v) = (Len(w) + 1) - p /\ \A i \in 1 .. (n + 2) - p : x[i] = v[i]
  BY <1>1, <1>3, <1>4, NextByte
<1>6. Len(x) <= Len(v) /\ (Len(v) > Len(x) <=> n + 1 < Len(w)) /\ p \in 1 .. Len(w) + 1
      /\ Len(x) \in Nat
  BY <1>5, SMTT(30)
<1>a. Begins(x, Rest(w, p))
  BY <1>4, <1>5, <1>6 DEF Begins
<1>b. x \in Seq(Byte) /\ p \in 1 .. Len(w) + 1
  BY <1>5, <1>6
<1>7. PICK V : V = Verdicts(r, w)
  OBVIOUS
<1>8. /\ V[p][f] = Lost(cause, Len(x), v)
      /\ t.stage # "Skip" /\ u.granted = t.granted - Stored(t)
  <2>1. CASE /\ cause = "unsupported_function" /\ t.stage \in Opening /\ u.granted = t.granted
             /\ Len(x) = 2 /\ ~supported(Layout(x))
    <3>1. V[p][f] = Lost("unsupported_function", Len(x), v)
      <4>1. Verdicts(r, w)[p][f] = Lost("unsupported_function", 2, Rest(w, p))
        BY <1>b, <1>a, <2>1, HeaderDecides
      <4> QED BY <1>4, <1>7, <2>1, <4>1
    <3> QED BY <2>1, <3>1 DEF Opening, Stored
  <2>2. CASE /\ cause = "oversize" /\ t.stage \in Opening /\ u.granted = t.granted
             /\ Known(x) /\ SizeOf(x) > max_adu_size(Format) /\ Len(x) = 2 + header_size(Layout(x))
    <3>1. V[p][f] = Lost("oversize", Len(x), v)
      <4>1. Verdicts(r, w)[p][f] = Lost("oversize", Len(x), Rest(w, p))
        BY <1>b, <1>a, <2>2, HeaderDecides
      <4> QED BY <1>4, <1>7, <4>1
    <3> QED BY <2>2, <3>1 DEF Opening, Stored
  <2>3. CASE /\ cause = "crc_errors" /\ Whole(x) /\ ~Sound(x)
             /\ \/ t.stage = "Body" /\ u.granted = t.granted - 1
                \/ t.stage \in Opening /\ t.granted < RxBlocks /\ u.granted = t.granted
    <3>1. ~Passed(Denied(r), Granted(r), p, f)
      <4>1. CASE t.stage = "Body"
        BY <4>1 DEF Reads
      <4>2. CASE t.stage \in Opening /\ t.granted < RxBlocks
        <5>1. t.stage # "Body" /\ t.stage # "Skip"
          BY <4>2 DEF Opening
        <5>2. f # 0
          BY <1>3, <4>2, <5>1 DEF Reads
        <5>3. ~(p = 1 /\ (Denied(r) \/ Granted(r)))
          BY <5>1 DEF Reads
        <5> QED BY <5>2, <5>3 DEF Passed
      <4> QED BY <2>3, <4>1, <4>2
    <3>3. V[p][f] = Lost("crc_errors", Len(x), v)
      <4>1. Verdicts(r, w)[p][f] = Lost("crc_errors", Len(x), Rest(w, p))
        BY <1>b, <1>a, <2>3, <3>1, WholeDecides
      <4> QED BY <1>4, <1>7, <4>1
    <3> QED BY <2>3, <3>3 DEF Opening, Stored
  <2> QED BY <1>2, <2>1, <2>2, <2>3 DEF FailsFor
<1>9. losses = lost
  BY <1>1, <1>8 DEF Reads
<1>10. PICK later : later = IF n + 1 < Len(w) THEN <<"resyncs">> ELSE <<>>
  OBVIOUS
<1>11. later \in Seq(Losses)
  <2>1. "resyncs" \in Losses
    BY DEF Losses
  <2>2. <<"resyncs">> \in Seq(Losses) /\ <<>> \in Seq(Losses)
    BY <2>1, OneLoss, EmptySeq
  <2> QED BY <1>10, <2>2
<1>12. Lost(cause, Len(x), v) = Joined(<<>>, <<cause>>, Later(later))
  BY <1>5, <1>6, <1>10, LostJoined
<1>13. PICK more : more = Append(lost, cause)
  OBVIOUS
<1>14. <<cause>> \in Seq(Losses) /\ more = lost \o <<cause>> /\ more \in Seq(Losses)
  BY <1>13, AppendJoins
<1>15. Verdict(r, w) = Joined(delivered, more, Later(later))
  <2>1. Verdict(r, w) = Joined(delivered, lost, V[p][f])
    BY <1>7 DEF Reads
  <2>a. PICK y : y = Later(later)
    OBVIOUS
  <2>2. IsVerdict(y)
    BY <1>11, <2>a, LaterVerdict
  <2>3. PICK d, l : d = <<>> /\ l = <<cause>>
    OBVIOUS
  <2>4. d \in Seq(Seq(Byte))
    BY <2>3
  <2>b. delivered \o d = delivered
    BY <2>3, ConcatEmptySeq
  <2>6. l \in Seq(Losses)
    BY <1>14, <2>3
  <2>5. Joined(delivered, lost, Joined(d, l, y)) = Joined(delivered \o d, lost \o l, y)
    BY <2>2, <2>4, <2>6, JoinedTwice
  <2> QED BY <1>8, <2>a, <2>b, <1>12, <1>14, <2>1, <2>3, <2>5
<1>16. Drops(r, u, w, delivered, more, later)
  BY <1>2, <1>9, <1>13, <1>15 DEF Drops, Later
<1>17. u.granted <= RxBlocks /\ Stored(u) = 0
  BY <1>2, <1>3, <1>8 DEF Stored, Idle
<1> QED BY <1>8, <1>10, <1>14, <1>16, <1>17

GrowsBehind(q, delivered, x) == Append(q \o delivered, x) = q \o Append(delivered, x)

\* A frame behind those delivered.
LEMMA ReadyGrows ==
    ASSUME NEW S, NEW q \in Seq(S), NEW delivered \in Seq(S), NEW x \in S
    PROVE  GrowsBehind(q, delivered, x)
<1>1. PICK both, one : both = q \o delivered /\ one = <<x>>
  OBVIOUS
<1>2. both \in Seq(S) /\ one \in Seq(S)
  <2>1. both \in Seq(S)
    BY <1>1, ConcatProperties, Zenon
  <2> QED BY <1>1, <2>1, AppendJoins
<1>3. Append(both, x) = both \o one
  BY <1>1, <1>2, AppendJoins
<1>4. Append(delivered, x) = delivered \o one
  BY <1>1, AppendJoins
<1>5. (q \o delivered) \o one = q \o (delivered \o one)
  BY <1>2, Reassociate
<1> QED BY <1>1, <1>3, <1>4, <1>5 DEF GrowsBehind

\* One byte of the call: the receiver that followed the verdict follows it on.
LEMMA FollowByte ==
    ASSUME NEW r, NEW w, Starts(r, w), NEW n \in Nat, n < Len(w), NEW t, Follows(r, t, w, n)
    PROVE  Follows(r, TakeByte(t, w[n + 1]), w, n + 1)
<1>1. PICK b, u : b = w[n + 1] /\ u = TakeByte(t, b)
  OBVIOUS
<1>2. w \in Seq(Byte) /\ Len(w) \in Nat /\ RxBlocks \in Nat /\ r.granted \in Nat
      /\ r.ready \in Seq(Seq(Byte)) /\ Stored(r) <= r.granted /\ Stored(r) \in {0, 1}
  BY LenProperties, StreamAssumption DEF Starts, Stored
<1>3. b \in Byte
  BY <1>1, <1>2, ElementOfSeq
<1>4. IsStream(t) /\ t.log \in Seq(Events) /\ t.granted \in Nat /\ t.granted <= RxBlocks
  BY DEF Follows
<1>5. PICK delivered \in Seq(Seq(Byte)), lost \in Seq(Losses) :
         /\ t.ready = r.ready \o delivered
         /\ \A k \in 1 .. Len(delivered) : Whole(delivered[k]) /\ Sound(delivered[k])
         /\ t.granted = ((r.granted + Len(delivered)) + Stored(t)) - Stored(r)
         /\ \/ \E p \in 1 .. n + 1, f \in 0 .. Free(r) : Reads(r, t, w, n, delivered, lost, p, f)
            \/ t.rest = "drop" /\ Drops(r, t, w, delivered, lost,
                                        IF n < Len(w) THEN <<"resyncs">> ELSE <<>>)
            \/ t.rest = "dropped" /\ Drops(r, t, w, delivered, lost, <<>>)
  BY DEF Follows
<1>6. Len(delivered) \in Nat
  BY LenProperties
<1>5a. t.granted = ((r.granted + Len(delivered)) + Stored(t)) - Stored(r)
  BY <1>5
<1>7. IsStream(u)
  BY <1>1, <1>4, TakeStream
<1>8. CASE \E p \in 1 .. n + 1, f \in 0 .. Free(r) : Reads(r, t, w, n, delivered, lost, p, f)
  <2>1. PICK p \in 1 .. n + 1, f \in 0 .. Free(r) : Reads(r, t, w, n, delivered, lost, p, f)
    BY <1>8
  <2>2. PICK x, y : x = SubSeq(w, p, n + 1) /\ y = SubSeq(w, p, n)
    OBVIOUS
  <2>3. Append(y, b) = x /\ x \in Seq(Byte)
    BY <1>1, <1>2, <2>2, NextByte
  <2>4. Outcome(t.stage, t.ready, t.granted, LossesOf(t.log), u, x)
    <3>1. InFlight(t, y) /\ t.rest = "read" /\ t.granted \in Int
      BY <1>4, <2>1, <2>2 DEF Reads
    <3> QED BY <1>1, <1>3, <1>4, <2>3, <3>1, ByteRead
  <2>5. u.log \in Seq(Events)
    BY <2>4 DEF Outcome
  <2>6. CASE Waits(t.stage, t.ready, t.granted, LossesOf(t.log), u, x)
    <3>1. /\ Reads(r, u, w, n + 1, delivered, lost, p, f)
          /\ u.granted = (t.granted + Stored(u)) - Stored(t) /\ u.granted <= RxBlocks
      BY <1>4, <2>1, <2>2, <2>6, FollowWaits
    <3>2. u.ready = r.ready \o delivered
      BY <1>5, <2>6 DEF Waits
    <3>3. u.granted = ((r.granted + Len(delivered)) + Stored(u)) - Stored(r) /\ u.granted \in Nat
      <4>1. Stored(t) \in {0, 1} /\ Stored(u) \in {0, 1}
        BY DEF Stored
      <4>2. PICK z \in Nat : z = Len(delivered)
        BY <1>6
      <4>3. PICK o \in Nat, b0 \in Nat, b1 \in Nat, b2 \in Nat :
               o = r.granted /\ b0 = Stored(r) /\ b1 = Stored(t) /\ b2 = Stored(u) /\ b0 <= o
        BY <1>2, <4>1
      <4>4. u.granted = (t.granted + b2) - b1 /\ t.granted = ((o + z) + b1) - b0
        BY <1>5a, <3>1, <4>2, <4>3
      <4>5. /\ ((((o + z) + b1) - b0) + b2) - b1 = ((o + z) + b2) - b0
            /\ ((o + z) + b2) - b0 \in Nat
        <5>1. b0 <= o
          BY <4>3
        <5> QED BY <5>1
      <4> QED BY <4>2, <4>3, <4>4, <4>5
    <3>4. p \in 1 .. (n + 1) + 1
      OBVIOUS
    <3> QED BY <1>1, <1>5, <1>7, <2>5, <3>1, <3>2, <3>3, <3>4 DEF Follows
  <2>7. CASE Passes(t.stage, t.ready, t.granted, LossesOf(t.log), u, x)
    <3>1. PICK more \in Seq(Losses) :
             /\ Reads(r, u, w, n + 1, delivered, more, n + 2, f)
             /\ u.granted = t.granted /\ Stored(u) = 0 /\ Stored(t) = 0
      BY <1>4, <2>1, <2>2, <2>7, FollowPasses
    <3>2. u.ready = r.ready \o delivered
      BY <1>5, <2>7 DEF Passes
    <3>3. /\ u.granted = ((r.granted + Len(delivered)) + Stored(u)) - Stored(r)
          /\ u.granted \in Nat /\ u.granted <= RxBlocks
      BY <1>4, <1>5, <3>1
    <3>4. n + 2 \in 1 .. (n + 1) + 1
      OBVIOUS
    <3> QED BY <1>1, <1>5, <1>7, <2>5, <3>1, <3>2, <3>3, <3>4 DEF Follows
  <2>8. CASE Delivers(t.stage, t.ready, t.granted, LossesOf(t.log), u, x)
    <3>1. PICK more : more = Append(delivered, x)
      OBVIOUS
    <3>2. PICK g \in 0 .. Free(r) :
             /\ Reads(r, u, w, n + 1, more, lost, n + 2, g)
             /\ u.granted = (t.granted + 1) - Stored(t) /\ Stored(u) = 0 /\ u.granted <= RxBlocks
      <4>1. \E g \in 0 .. Free(r) :
               /\ Reads(r, u, w, n + 1, Append(delivered, x), lost, n + 2, g)
               /\ u.granted = (t.granted + 1) - Stored(t) /\ Stored(u) = 0 /\ u.granted <= RxBlocks
        <5>1. Reads(r, t, w, n, delivered, lost, p, f) /\ t.granted \in Nat /\ t.granted <= RxBlocks
          BY <1>4, <2>1
        <5>2. Delivers(t.stage, t.ready, t.granted, LossesOf(t.log), u, SubSeq(w, p, n + 1))
          BY <2>2, <2>8
        <5>3. \E g \in 0 .. Free(r) :
               /\ Reads(r, u, w, n + 1, Append(delivered, SubSeq(w, p, n + 1)), lost, n + 2, g)
               /\ u.granted = (t.granted + 1) - Stored(t) /\ Stored(u) = 0 /\ u.granted <= RxBlocks
          BY <5>1, <5>2, FollowDelivers
        <5> QED BY <2>2, <5>3, Zenon
      <4> QED BY <3>1, <4>1
    <3>3. /\ Append(r.ready \o delivered, x) = r.ready \o more
          /\ more \in Seq(Seq(Byte)) /\ Len(more) = Len(delivered) + 1
          /\ \A k \in 1 .. Len(delivered) : more[k] = delivered[k]
          /\ more[Len(delivered) + 1] = x
      <4>1. PICK q : q = r.ready
        OBVIOUS
      <4>2. q \in Seq(Seq(Byte))
        BY <1>2, <4>1
      <4>3. Append(q \o delivered, x) = q \o Append(delivered, x)
        <5>1. PICK S : S = Seq(Byte)
          OBVIOUS
        <5>2. q \in Seq(S) /\ delivered \in Seq(S) /\ x \in S
          BY <2>3, <4>2, <5>1
        <5>3. GrowsBehind(q, delivered, x)
          BY ONLY <5>2, ReadyGrows
        <5> QED BY <5>3 DEF GrowsBehind
      <4>4. /\ more \in Seq(Seq(Byte)) /\ Len(more) = Len(delivered) + 1
            /\ \A k \in 1 .. Len(delivered) : more[k] = delivered[k]
            /\ more[Len(delivered) + 1] = x
        BY <2>3, <3>1, AppendProperties
      <4> QED BY <3>1, <4>1, <4>3, <4>4
    <3>4. u.ready = r.ready \o more
      BY <1>5, <2>8, <3>3 DEF Delivers
    <3>5. \A k \in 1 .. Len(more) : Whole(more[k]) /\ Sound(more[k])
      <4>1. Whole(x) /\ Sound(x)
        BY <2>8 DEF Delivers
      <4>2. TAKE k \in 1 .. Len(more)
      <4>3. CASE k = Len(delivered) + 1
        BY <3>3, <4>1, <4>3
      <4>4. CASE k # Len(delivered) + 1
        <5>1. k \in 1 .. Len(delivered)
          BY <1>6, <3>3, <4>4
        <5> QED BY <1>5, <3>3, <5>1
      <4> QED BY <4>3, <4>4
    <3>6. u.granted = ((r.granted + Len(more)) + Stored(u)) - Stored(r) /\ u.granted \in Nat
      <4>1. Stored(t) \in {0, 1}
        BY DEF Stored
      <4>2. PICK z \in Nat : z = Len(delivered) /\ Len(more) = z + 1
        BY <1>6, <3>3
      <4>3. PICK o \in Nat, b0 \in Nat, b1 \in Nat :
               o = r.granted /\ b0 = Stored(r) /\ b1 = Stored(t) /\ b0 <= o
        BY <1>2, <4>1
      <4>4. u.granted = (t.granted + 1) - b1 /\ t.granted = ((o + z) + b1) - b0 /\ Stored(u) = 0
        BY <1>5a, <3>2, <4>2, <4>3
      <4>5. /\ ((((o + z) + b1) - b0) + 1) - b1 = ((o + (z + 1)) + 0) - b0
            /\ ((o + (z + 1)) + 0) - b0 \in Nat
        <5>1. b0 <= o
          BY <4>3
        <5> QED BY <5>1
      <4> QED BY <4>2, <4>3, <4>4, <4>5
    <3>7. n + 2 \in 1 .. (n + 1) + 1
      OBVIOUS
    <3> QED BY <1>1, <1>7, <2>5, <3>2, <3>3, <3>4, <3>5, <3>6, <3>7 DEF Follows
  <2>9. CASE Fails(t.stage, t.ready, t.granted, LossesOf(t.log), u, x)
    <3>1. PICK more \in Seq(Losses) :
             /\ Drops(r, u, w, delivered, more, IF n + 1 < Len(w) THEN <<"resyncs">> ELSE <<>>)
             /\ u.granted = t.granted - Stored(t) /\ Stored(u) = 0 /\ u.granted <= RxBlocks
      BY <1>4, <2>1, <2>2, <2>9, FollowFails
    <3>2. u.granted = t.granted - Stored(t) /\ Stored(u) = 0
      BY <3>1
    <3>3. u.ready = r.ready \o delivered /\ u.rest = "drop"
      BY <1>5, <2>9 DEF Fails
    <3>4. u.granted = ((r.granted + Len(delivered)) + Stored(u)) - Stored(r) /\ u.granted \in Nat
      <4>1. Stored(t) \in {0, 1}
        BY DEF Stored
      <4>2. PICK z \in Nat : z = Len(delivered)
        BY <1>6
      <4>3. PICK o \in Nat, b0 \in Nat, b1 \in Nat :
               o = r.granted /\ b0 = Stored(r) /\ b1 = Stored(t) /\ b0 <= o
        BY <1>2, <4>1
      <4>4. u.granted = t.granted - b1 /\ t.granted = ((o + z) + b1) - b0 /\ Stored(u) = 0
        BY <1>5a, <3>2, <4>2, <4>3
      <4>5. /\ (((o + z) + b1) - b0) - b1 = ((o + z) + 0) - b0
            /\ ((o + z) + 0) - b0 \in Nat
        <5>1. b0 <= o
          BY <4>3
        <5> QED BY <5>1
      <4> QED BY <4>2, <4>3, <4>4, <4>5
    <3> QED BY <1>1, <1>5, <1>7, <2>5, <3>1, <3>2, <3>3, <3>4 DEF Follows
  <2> QED BY <2>4, <2>6, <2>7, <2>8, <2>9 DEF Outcome
<1>9. CASE t.rest = "drop" /\ Drops(r, t, w, delivered, lost,
                                    IF n < Len(w) THEN <<"resyncs">> ELSE <<>>)
  <2>1. Idle(t) /\ LossesOf(t.log) = lost
        /\ Verdict(r, w) = Joined(delivered, lost, Later(<<"resyncs">>))
    BY <1>9 DEF Drops, Later
  <2>2. PICK y : y = Logged(t, "resyncs")
    OBVIOUS
  <2>3. /\ IsStream(y) /\ y.log \in Seq(Events) /\ LossesOf(y.log) = Append(lost, "resyncs")
        /\ \A f \in StreamFields \ {"log"} : y[f] = t[f]
    BY <1>4, <2>1, <2>2, LoggedIs DEF Events, Losses
  <2>4. u = [y EXCEPT !.rest = "dropped"]
    BY <1>1, <1>9, <2>2 DEF TakeByte
  <2>5. Idle(u) /\ u.log = y.log /\ u.ready = t.ready /\ u.granted = t.granted /\ u.rest = "dropped"
    BY <2>1, <2>3, <2>4 DEF Idle, IsStream, StreamFields
  <2>6. Stored(u) = 0 /\ Stored(t) = 0
    BY <2>1, <2>5 DEF Stored, Idle
  <2>7. PICK more, one : more = Append(lost, "resyncs") /\ one = <<"resyncs">>
    OBVIOUS
  <2>8. one \in Seq(Losses) /\ more = lost \o one /\ more \in Seq(Losses)
    <3>1. "resyncs" \in Losses
      BY DEF Losses
    <3> QED BY <2>7, <3>1, AppendJoins
  <2>9. Verdict(r, w) = Joined(delivered, more, Later(<<>>))
    <3>1. PICK d, l : d = <<>> /\ l = <<>>
      OBVIOUS
    <3>2. d \in Seq(Seq(Byte)) /\ l \in Seq(Losses)
      BY <3>1
    <3>3. Joined(d, one, Later(l)) = Later(one)
      <4>1. d \o d = d
        BY <3>2, <3>1, ConcatEmptySeq
      <4>2. one \o l = one
        BY <2>8, <3>1, ConcatEmptySeq
      <4> QED BY <3>1, <4>1, <4>2 DEF Joined, Later
    <3>4. delivered \o d = delivered
      BY <3>1, ConcatEmptySeq
    <3>5. PICK z : z = Later(l)
      OBVIOUS
    <3>6. IsVerdict(z)
      BY <3>2, <3>5, LaterVerdict
    <3>7. Joined(delivered, lost, Joined(d, one, z)) = Joined(delivered \o d, lost \o one, z)
      BY <2>8, <3>2, <3>6, JoinedTwice
    <3> QED BY <2>1, <2>7, <2>8, <3>1, <3>3, <3>4, <3>5, <3>7
  <2>10. Drops(r, u, w, delivered, more, <<>>)
    BY <2>3, <2>5, <2>7, <2>9 DEF Drops, Later
  <2> QED BY <1>1, <1>4, <1>5, <1>7, <2>3, <2>5, <2>6, <2>8, <2>10 DEF Follows
<1>10. CASE t.rest = "dropped" /\ Drops(r, t, w, delivered, lost, <<>>)
  <2>1. u = t
    BY <1>1, <1>10 DEF TakeByte
  <2> QED BY <1>1, <1>4, <1>5, <1>10, <2>1 DEF Follows
<1> QED BY <1>5, <1>8, <1>9, <1>10

\* A call counts from nothing.
LEMMA BegunIs ==
    ASSUME NEW r, IsStream(r)
    PROVE  /\ IsStream(Begun(r)) /\ Begun(r).log = <<>>
           /\ \A f \in StreamFields \ {"log"} : Begun(r)[f] = r[f]
BY DEF IsStream, StreamFields, Begun

\* What a frame under way says of its receiver.
LEMMA FlightStage ==
    ASSUME NEW r, NEW w, InFlight(r, w)
    PROVE  /\ r.stage \in {"Prefix", "Header", "Body", "Skip"}
           /\ r.stage = "Body" <=> Granted(r)
           /\ Stored(r) = (IF r.building = NoFrame THEN 0 ELSE 1)
           /\ assembling(r) <=> w # <<>>
<1>1. w \in Seq(Byte) /\ Len(w) \in Nat
  BY LenProperties DEF InFlight
<1>2. w = <<>> <=> Len(w) = 0
  <2>1. Len(w) = 0 => w = <<>>
    BY <1>1, EmptySeq
  <2> QED BY <2>1
<1>3. CASE Gathers(r, w)
  BY <1>1, <1>2, <1>3 DEF Gathers, Opening, Granted, Stored, assembling
<1>4. CASE Stores(r, w)
  <2>1. SizeOf(w) \in Nat /\ Len(w) >= 2
    BY <1>1, <1>4, SizeIsSize DEF Stores, Expects, Known
  <2>2. r.building \in [size : Nat, bytes : Seq(Byte)]
    BY <1>1, <1>4, <2>1 DEF Stores
  <2>3. r.building # NoFrame
    BY <2>2, StreamAssumption
  <2> QED BY <1>1, <1>2, <1>4, <2>1, <2>3 DEF Stores, Granted, Stored, assembling
<1>5. CASE Skips(r, w)
  <2>1. Len(w) >= 2
    BY <1>5 DEF Skips, Expects, Known
  <2> QED BY <1>1, <1>2, <1>5, <2>1 DEF Skips, Granted, Stored, assembling
<1> QED BY <1>3, <1>4, <1>5 DEF InFlight

\* Only the log of a receiver that keeps a frame differs.
LEMMA SameFlight ==
    ASSUME NEW r, NEW t, NEW w, InFlight(r, w), IsStream(t),
           \A f \in {"stage", "prefix", "filled", "remaining", "need", "building"} : t[f] = r[f]
    PROVE  InFlight(t, w)
<1>1. /\ t.stage = r.stage /\ t.prefix = r.prefix /\ t.filled = r.filled
      /\ t.remaining = r.remaining /\ t.need = r.need /\ t.building = r.building
  OBVIOUS
<1> QED BY <1>1 DEF InFlight, Gathers, Stores, Skips, Expects

\* The frame under way and the bytes of a call.
LEMMA Together ==
    ASSUME NEW x \in Seq(Byte), NEW bytes \in Seq(Byte)
    PROVE  /\ x \o bytes \in Seq(Byte) /\ Len(x \o bytes) = Len(x) + Len(bytes)
           /\ Len(x) \in Nat /\ Len(bytes) \in Nat
           /\ SubSeq(x \o bytes, 1, Len(x)) = x
           /\ \A m \in 1 .. Len(bytes) : (x \o bytes)[Len(x) + m] = bytes[m]
<1>1. PICK w : w = x \o bytes
  OBVIOUS
<1>2. PICK n \in Nat, k \in Nat : n = Len(x) /\ k = Len(bytes)
  BY LenProperties
<1>3. /\ w \in Seq(Byte) /\ Len(w) = n + k
      /\ \A i \in 1 .. n + k : w[i] = IF i <= n THEN x[i] ELSE bytes[i - n]
  <2>1. /\ w \in Seq(Byte) /\ Len(w) = Len(x) + Len(bytes)
        /\ \A i \in 1 .. Len(x) + Len(bytes) : w[i] = IF i <= Len(x) THEN x[i] ELSE bytes[i - Len(x)]
    BY <1>1, ConcatProperties, Zenon
  <2> QED BY <1>2, <2>1
<1>4. SubSeq(w, 1, n) = x
  <2>1. PICK y : y = SubSeq(w, 1, n)
    OBVIOUS
  <2>2. \A i \in 1 .. n : w[i] \in Byte
    BY <1>3, ElementOfSeq
  <2>3. /\ y \in Seq(Byte) /\ Len(y) = (IF 1 <= n THEN n - 1 + 1 ELSE 0)
        /\ \A i \in 1 .. n - 1 + 1 : y[i] = w[1 + i - 1]
    BY <1>2, <2>1, <2>2, SubSeqProperties
  <2>4. Len(y) = Len(x) /\ \A i \in 1 .. Len(y) : y[i] = x[i]
    BY <1>2, <1>3, <2>3
  <2> QED BY <2>1, <2>3, <2>4, SeqEqual
<1>5. ASSUME NEW m \in 1 .. k PROVE w[n + m] = bytes[m]
  <2>1. n + m \in 1 .. n + k /\ ~(n + m <= n) /\ (n + m) - n = m
    BY <1>2
  <2> QED BY <1>3, <2>1
<1> QED BY <1>1, <1>2, <1>3, <1>4, <1>5

\* Before the first byte.
LEMMA FollowStart ==
    ASSUME NEW r, NEW w, Starts(r, w), NEW x, InFlight(r, x), r.rest = "read",
           Len(x) \in Nat, SubSeq(w, 1, Len(x)) = x, Len(x) <= Len(w)
    PROVE  Follows(r, Begun(r), w, Len(x))
<1>1. PICK t, n : t = Begun(r) /\ n = Len(x)
  OBVIOUS
<1>2. n \in Nat /\ IsStream(r) /\ Free(r) \in Nat /\ RxBlocks \in Nat /\ Len(w) \in Nat
      /\ r.granted \in Nat /\ r.granted <= RxBlocks /\ r.ready \in Seq(Seq(Byte))
  BY <1>1, StartFree, LenProperties DEF Starts
<1>3. /\ IsStream(t) /\ t.log = <<>> /\ t.granted = r.granted /\ t.ready = r.ready
      /\ t.stage = r.stage /\ t.building = r.building /\ t.rest = "read"
      /\ \A f \in {"stage", "prefix", "filled", "remaining", "need", "building"} : t[f] = r[f]
  BY <1>1, <1>2, BegunIs DEF StreamFields
<1>4. InFlight(t, x)
  BY <1>3, SameFlight
<1>5. LossesOf(t.log) = <<>> /\ t.log \in Seq(Events)
  <2>1. LossesOf(t.log) = <<>>
    BY <1>3, NoLosses
  <2> QED BY <1>3, <2>1
<1>6. PICK d, l, f : d = <<>> /\ l = <<>> /\ f = Free(r)
  OBVIOUS
<1>7. d \in Seq(Seq(Byte)) /\ l \in Seq(Losses) /\ Len(d) = 0
  BY <1>6
<1>8. Verdict(r, w) = Joined(d, l, Verdicts(r, w)[1][f])
  <2>1. PICK v : v = Verdicts(r, w)[1][f]
    OBVIOUS
  <2>2. IsVerdict(v)
    <3>1. 1 \in 1 .. Len(w) + 1 /\ f \in 0 .. Free(r)
      BY <1>2, <1>6
    <3> QED BY <2>1, <3>1, PlaceVerdict
  <2>3. Joined(<<>>, <<>>, v) = v
    BY <2>2, JoinedNothing
  <2> QED BY <1>6, <2>1, <2>3 DEF Verdict
<1>9. ~(Denied(r) /\ Granted(r)) /\ (r.stage = "Body" <=> Granted(r))
  BY FlightStage DEF Starts
<1>10. Reads(r, t, w, n, d, l, 1, f)
  <2>1. InFlight(t, SubSeq(w, 1, n))
    BY <1>1, <1>4
  <2>2. t.stage = "Skip" => Passed(Denied(r), Granted(r), 1, f)
    BY <1>3 DEF Passed, Denied
  <2>3. t.stage = "Body" => ~Passed(Denied(r), Granted(r), 1, f)
    BY <1>3, <1>9 DEF Passed
  <2>4. (Denied(r) => t.stage = "Skip") /\ (Granted(r) => t.stage = "Body")
    BY <1>3, <1>9 DEF Denied
  <2>5. LossesOf(t.log) = IF t.stage = "Skip" THEN l \o Skipped(Denied(r), Granted(r), 1, f) ELSE l
    <3>1. t.stage = "Skip" => Skipped(Denied(r), Granted(r), 1, f) = l
      BY <1>3, <1>6 DEF Skipped, Denied
    <3>2. l \o l = l
      BY <1>6, <1>7, ConcatEmptySeq
    <3> QED BY <1>5, <1>6, <3>1, <3>2
  <2>6. RxBlocks - t.granted = IF t.stage = "Body" THEN Left(Granted(r), 1, f) ELSE f
    BY <1>3, <1>6, <1>9 DEF Left, Free
  <2> QED BY <1>3, <1>8, <2>1, <2>2, <2>3, <2>4, <2>5, <2>6 DEF Reads
<1>11. t.ready = r.ready \o d
  <2>1. r.ready \o <<>> = r.ready
    BY <1>2, ConcatEmptySeq
  <2> QED BY <1>3, <1>6, <2>1
<1>12. t.granted = ((r.granted + Len(d)) + Stored(t)) - Stored(r)
  <2>1. Stored(t) = Stored(r) /\ Stored(r) \in {0, 1}
    BY <1>3 DEF Stored
  <2> QED BY <1>2, <1>3, <1>7, <2>1
<1>13. \A k \in 1 .. Len(d) : Whole(d[k]) /\ Sound(d[k])
  BY <1>7
<1>14. 1 \in 1 .. n + 1 /\ f \in 0 .. Free(r)
  BY <1>2, <1>6
<1>15. \E p \in 1 .. n + 1, g \in 0 .. Free(r) : Reads(r, t, w, n, d, l, p, g)
  BY <1>10, <1>14
<1> QED BY <1>1, <1>2, <1>3, <1>5, <1>7, <1>11, <1>12, <1>13, <1>15 DEF Follows

\* Byte by byte, the receiver follows the verdict to the end of the call.
LEMMA FollowAll ==
    ASSUME NEW r, NEW x, InFlight(r, x), r.rest = "read", NEW bytes \in Seq(Byte),
           Starts(r, x \o bytes)
    PROVE  Follows(r, After(r, bytes)[Len(bytes)], x \o bytes, Len(x) + Len(bytes))
<1>1. PICK w, n, k : w = x \o bytes /\ n = Len(x) /\ k = Len(bytes)
  OBVIOUS
<1>2. x \in Seq(Byte)
  BY DEF InFlight
<1>3. /\ w \in Seq(Byte) /\ Len(w) = n + k /\ n \in Nat /\ k \in Nat /\ SubSeq(w, 1, n) = x
      /\ \A m \in 1 .. k : w[n + m] = bytes[m]
  BY <1>1, <1>2, Together
<1>4. Starts(r, w)
  BY <1>1
<1> DEFINE T == {m \in 0 .. k : ~Follows(r, After(r, bytes)[m], w, n + m)}
<1>5. ASSUME NEW m \in T, \A j \in T : m <= j PROVE FALSE
  <2>1. m \in 0 .. k /\ ~Follows(r, After(r, bytes)[m], w, n + m)
    OBVIOUS
  <2>2. After(r, bytes)[m] = Step(r, bytes, After(r, bytes), m)
    BY <1>1, <1>3, <2>1, AfterUnfolds
  <2>3. CASE m = 0
    <3>1. After(r, bytes)[m] = Begun(r)
      BY <2>2, <2>3 DEF Step
    <3>2. Follows(r, Begun(r), w, n)
      <4>1. Len(x) \in Nat /\ SubSeq(w, 1, Len(x)) = x /\ Len(x) <= Len(w)
        BY <1>1, <1>3
      <4> QED BY <1>1, <1>4, <4>1, FollowStart
    <3>3. n + m = n
      BY <1>3, <2>3
    <3> QED BY <2>1, <3>1, <3>2, <3>3
  <2>4. CASE m # 0
    <3>1. m - 1 \in 0 .. k /\ ~(m <= m - 1) /\ m \in 1 .. k /\ m \in Nat
      BY <1>3, <2>1, <2>4
    <3>2. m - 1 \notin T
      <4> HIDE DEF T
      <4> QED BY <1>5, <3>1
    <3>3. PICK t, i : t = After(r, bytes)[m - 1] /\ i = n + (m - 1)
      OBVIOUS
    <3>4. Follows(r, t, w, i)
      BY <3>1, <3>2, <3>3
    <3>5. i \in Nat /\ i < Len(w) /\ i + 1 = n + m
      BY <1>3, <3>1, <3>3
    <3>6. Follows(r, TakeByte(t, w[i + 1]), w, i + 1)
      <4> HIDE DEF T
      <4> QED BY <1>4, <3>4, <3>5, FollowByte
    <3>7. After(r, bytes)[m] = TakeByte(t, bytes[m])
      <4> HIDE DEF T
      <4> QED BY <2>2, <2>4, <3>3 DEF Step
    <3>8. w[i + 1] = bytes[m]
      BY <1>3, <3>1, <3>5
    <3> QED BY <2>1, <3>5, <3>6, <3>7, <3>8
  <2> QED BY <2>3, <2>4
<1>6. T = {}
  <2>1. T \in SUBSET Nat
    BY <1>3
  <2> HIDE DEF T
  <2> QED BY <1>5, <2>1, LeastElement
<1>7. k \notin T /\ k \in 0 .. k
  BY <1>3, <1>6
<1>8. Follows(r, After(r, bytes)[k], w, n + k)
  BY <1>7
<1> QED BY <1>1, <1>8

\* What a call makes of a receiver whose frame under way and whose bytes stand for v.
Ends(r, u, v) ==
    /\ InFlight(u, v.open) /\ u.rest = "read" /\ LossesOf(u.log) = v.lost
    /\ u.ready = r.ready \o v.delivered /\ v.delivered \in Seq(Seq(Byte))
    /\ \A k \in 1 .. Len(v.delivered) : Whole(v.delivered[k]) /\ Sound(v.delivered[k])
    /\ u.granted = ((r.granted + Len(v.delivered)) + Stored(u)) - Stored(r)
    /\ u.granted \in Nat /\ u.granted <= RxBlocks

\* An open frame is read as open.
LEMMA OpenDecides ==
    ASSUME NEW r, NEW w, Starts(r, w), NEW p \in 1 .. Len(w) + 1, NEW f \in 0 .. Free(r),
           NEW t, InFlight(t, Rest(w, p)),
           t.stage = "Skip" => Passed(Denied(r), Granted(r), p, f),
           t.stage = "Body" => ~Passed(Denied(r), Granted(r), p, f)
    PROVE  Verdicts(r, w)[p][f]
             = Opens(Rest(w, p), IF t.stage = "Skip" THEN Skipped(Denied(r), Granted(r), p, f)
                                 ELSE <<>>)
<1>1. PICK v, V : v = Rest(w, p) /\ V = Verdicts(r, w)
  OBVIOUS
<1>2. w \in Seq(Byte) /\ v \in Seq(Byte) /\ Len(v) \in Nat
  BY <1>1, LenProperties DEF Starts, InFlight
<1>3. V[p][f] = FromTerms(Denied(r), Granted(r), V, p, f, v)
  BY <1>1, <1>2, StartFree, ReadingsUnfold DEF Verdicts
<1>4. CASE Gathers(t, v)
  <2>1. t.stage # "Skip"
    BY <1>4 DEF Gathers, Opening
  <2>2. V[p][f] = Opens(v, <<>>)
    <3>1. CASE t.stage = "Prefix"
      BY <1>3, <1>4, <3>1 DEF FromTerms, Gathers
    <3>2. CASE t.stage = "Header"
      <4>1. /\ Len(v) >= 2 /\ supported(Layout(v)) /\ Len(v) < 2 + header_size(Layout(v))
        BY <1>4, <3>2 DEF Gathers
      <4>2. header_size(Layout(v)) \in Nat
        BY <1>2, <4>1, ReceivedLayout
      <4>3. ~(Len(v) < 2) /\ ~(Len(v) >= 2 + header_size(Layout(v)))
        BY <1>2, <4>1, <4>2
      <4>4. ~Known(v)
        BY <4>3 DEF Known
      <4> QED BY <1>3, <4>1, <4>3, <4>4 DEF FromTerms
    <3> QED BY <1>4, <3>1, <3>2 DEF Gathers, Opening
  <2> QED BY <1>1, <2>1, <2>2
<1>5. CASE Stores(t, v) \/ Skips(t, v)
  <2>1. Known(v) /\ Len(v) < SizeOf(v) /\ SizeOf(v) <= max_adu_size(Format)
    BY <1>5 DEF Stores, Skips, Expects
  <2>2. SizeOf(v) \in Nat /\ max_adu_size(Format) \in Nat
    <3>1. max_adu_size(Format) \in Nat
      BY PolicyAssumption DEF max_adu_size, adu_overhead, adu_prefix_size
    <3> QED BY <1>2, <2>1, <3>1, SizeIsSize
  <2>3. ~(Len(v) < 2) /\ supported(Layout(v)) /\ ~(SizeOf(v) > max_adu_size(Format))
    BY <1>2, <2>1, <2>2 DEF Known
  <2>4. V[p][f] = Opens(v, Skipped(Denied(r), Granted(r), p, f))
    BY <1>3, <2>1, <2>3 DEF FromTerms
  <2>5. t.stage # "Skip" => Skipped(Denied(r), Granted(r), p, f) = <<>>
    BY <1>5 DEF Skipped, Stores, Skips
  <2> QED BY <1>1, <2>4, <2>5
<1> QED BY <1>1, <1>4, <1>5 DEF InFlight

\* After the last byte of a call.
LEMMA FollowEnds ==
    ASSUME NEW r, NEW w, Starts(r, w), NEW t, Follows(r, t, w, Len(w)),
           NEW u, u = [t EXCEPT !.rest = "read"]
    PROVE  Ends(r, u, Verdict(r, w))
<1>1. w \in Seq(Byte) /\ Len(w) \in Nat
  BY LenProperties DEF Starts
<1>2. IsStream(t) /\ t.log \in Seq(Events) /\ t.granted \in Nat /\ t.granted <= RxBlocks
  BY DEF Follows
<1>3. PICK delivered \in Seq(Seq(Byte)), lost \in Seq(Losses) :
         /\ t.ready = r.ready \o delivered
         /\ \A k \in 1 .. Len(delivered) : Whole(delivered[k]) /\ Sound(delivered[k])
         /\ t.granted = ((r.granted + Len(delivered)) + Stored(t)) - Stored(r)
         /\ \/ \E p \in 1 .. Len(w) + 1, f \in 0 .. Free(r) :
                 Reads(r, t, w, Len(w), delivered, lost, p, f)
            \/ t.rest = "drop" /\ Drops(r, t, w, delivered, lost,
                                        IF Len(w) < Len(w) THEN <<"resyncs">> ELSE <<>>)
            \/ t.rest = "dropped" /\ Drops(r, t, w, delivered, lost, <<>>)
  BY DEF Follows
<1>4. /\ IsStream(u) /\ u.rest = "read" /\ u.log = t.log /\ u.granted = t.granted
      /\ u.ready = t.ready /\ u.stage = t.stage /\ u.building = t.building
      /\ \A f \in {"stage", "prefix", "filled", "remaining", "need", "building"} : u[f] = t[f]
  BY <1>2 DEF IsStream, StreamFields
<1>5. Stored(u) = Stored(t)
  BY <1>4 DEF Stored
<1>6. PICK v : v = Verdict(r, w)
  OBVIOUS
<1>7. /\ v.delivered = delivered /\ v.lost = LossesOf(u.log) /\ InFlight(u, v.open)
  <2>0. PICK d, l : d = <<>> /\ l = <<>>
    OBVIOUS
  <2>1. delivered \o d = delivered /\ l \in Seq(Losses)
    BY <2>0, ConcatEmptySeq
  <2>2. CASE \E p \in 1 .. Len(w) + 1, f \in 0 .. Free(r) :
               Reads(r, t, w, Len(w), delivered, lost, p, f)
    <3>1. PICK p \in 1 .. Len(w) + 1, f \in 0 .. Free(r) :
                 Reads(r, t, w, Len(w), delivered, lost, p, f)
      BY <2>2
    <3>2. PICK y, s0, V : /\ y = Rest(w, p) /\ V = Verdicts(r, w)
                          /\ s0 = IF t.stage = "Skip" THEN Skipped(Denied(r), Granted(r), p, f) ELSE l
      OBVIOUS
    <3>3. InFlight(t, y)
      BY <3>1, <3>2 DEF Reads, Rest
    <3>4. V[p][f] = Opens(y, s0)
      <4>1. InFlight(t, Rest(w, p))
        BY <3>2, <3>3
      <4>2. t.stage = "Skip" => Passed(Denied(r), Granted(r), p, f)
        BY <3>1 DEF Reads
      <4>3. t.stage = "Body" => ~Passed(Denied(r), Granted(r), p, f)
        BY <3>1 DEF Reads
      <4>4. Verdicts(r, w)[p][f]
              = Opens(Rest(w, p), IF t.stage = "Skip" THEN Skipped(Denied(r), Granted(r), p, f)
                                  ELSE <<>>)
        BY <4>1, <4>2, <4>3, OpenDecides
      <4> QED BY <2>0, <3>2, <4>4
    <3>5. v = Joined(delivered, lost, Opens(y, s0))
      BY <1>6, <3>1, <3>2, <3>4 DEF Reads
    <3>6. v.delivered = delivered \o d /\ v.open = y /\ v.lost = lost \o s0
      BY <2>0, <3>5 DEF Joined, Opens
    <3>7. LossesOf(t.log) = lost \o s0
      <4>1. lost \o l = lost
        BY <2>0, ConcatEmptySeq
      <4>2. LossesOf(t.log) = (IF t.stage = "Skip"
                               THEN lost \o Skipped(Denied(r), Granted(r), p, f) ELSE lost)
        BY <3>1 DEF Reads
      <4> QED BY <3>2, <4>1, <4>2
    <3>8. InFlight(u, y)
      BY <1>4, <3>3, SameFlight
    <3> QED BY <1>4, <2>1, <3>6, <3>7, <3>8
  <2>3. CASE Drops(r, t, w, delivered, lost, l)
    <3>1. Idle(t) /\ LossesOf(t.log) = lost /\ v = Joined(delivered, lost, Later(l))
      BY <1>6, <2>3 DEF Drops, Later
    <3>2. v.delivered = delivered \o d /\ v.open = d /\ v.lost = lost \o l
      BY <2>0, <3>1 DEF Joined, Later
    <3>3. lost \o l = lost
      BY <2>0, ConcatEmptySeq
    <3>4. InFlight(t, d)
      <4>1. Len(d) = 0 /\ d \in Seq(Byte)
        BY <2>0
      <4>2. Gathers(t, d)
        BY <2>0, <3>1, <4>1 DEF Gathers, Idle, Opening
      <4> QED BY <1>2, <4>1, <4>2 DEF InFlight
    <3>5. InFlight(u, d)
      BY <1>4, <3>4, SameFlight
    <3> QED BY <1>4, <2>1, <3>1, <3>2, <3>3, <3>5
  <2> QED
    <3>1. ~(Len(w) < Len(w))
      BY <1>1
    <3> QED BY <1>3, <2>0, <2>2, <2>3, <3>1
<1>8. u.granted = ((r.granted + Len(v.delivered)) + Stored(u)) - Stored(r)
  BY <1>3, <1>4, <1>5, <1>7
<1> QED BY <1>2, <1>3, <1>4, <1>6, <1>7, <1>8 DEF Ends

\* A call delivers and loses what its bytes stand for.
LEMMA CallEnds ==
    ASSUME NEW r, NEW x, InFlight(r, x), r.rest = "read", NEW bytes \in Seq(Byte),
           Starts(r, x \o bytes)
    PROVE  Ends(r, consume(r, bytes), Verdict(r, x \o bytes))
<1>1. PICK w, t, u : w = x \o bytes /\ t = After(r, bytes)[Len(bytes)] /\ u = consume(r, bytes)
  OBVIOUS
<1>2. x \in Seq(Byte)
  BY DEF InFlight
<1>3. Len(w) = Len(x) + Len(bytes)
  BY <1>1, <1>2, Together
<1>4. Follows(r, t, w, Len(w))
  <2>1. Follows(r, After(r, bytes)[Len(bytes)], x \o bytes, Len(x) + Len(bytes))
    BY FollowAll
  <2> QED BY <1>1, <1>3, <2>1
<1>5. u = [t EXCEPT !.rest = "read"]
  BY <1>1 DEF consume
<1>6. Ends(r, u, Verdict(r, w))
  BY <1>1, <1>4, <1>5, FollowEnds
<1> QED BY <1>1, <1>6

-----------------------------------------------------------------------------
(* The receiver of the line.                                               *)

Frame(x) == Sound(x) /\ SizeOf(x) = Len(x)

\* The receiver t has read w of a frame, and the application has n of its blocks.
Keeps(t, w, n) ==
    /\ InFlight(t, w) /\ t.rest = "read"
    /\ t.ready \in Seq(Seq(Byte)) /\ \A k \in 1 .. Len(t.ready) : Frame(t.ready[k])
    /\ t.granted = (Len(t.ready) + Stored(t)) + n /\ t.granted <= RxBlocks

\* Of one that differs in its log alone.
LEMMA KeepsOn ==
    ASSUME NEW t, NEW w, NEW n, Keeps(t, w, n), NEW u, IsStream(u),
           \A f \in StreamFields \ {"log"} : u[f] = t[f]
    PROVE  Keeps(u, w, n)
<1>1. /\ u.rest = t.rest /\ u.ready = t.ready /\ u.granted = t.granted /\ u.stage = t.stage
      /\ \A f \in {"stage", "prefix", "filled", "remaining", "need", "building"} : u[f] = t[f]
  BY DEF StreamFields
<1>2. InFlight(u, w)
  BY <1>1, SameFlight DEF Keeps
<1>3. Stored(u) = Stored(t)
  BY <1>1 DEF Stored
<1> QED BY <1>1, <1>2, <1>3 DEF Keeps

\* A call begins,
LEMMA KeepsBegun ==
    ASSUME NEW t, NEW w, NEW n, Keeps(t, w, n)
    PROVE  Keeps(Begun(t), w, n)
<1>1. IsStream(t)
  BY DEF Keeps, InFlight
<1> QED BY <1>1, BegunIs, KeepsOn

\* something is counted.
LEMMA KeepsLogged ==
    ASSUME NEW t, NEW w, NEW n, Keeps(t, w, n), NEW what
    PROVE  Keeps(Logged(t, what), w, n)
<1>1. IsStream(t)
  BY DEF Keeps, InFlight
<1>2. \A f \in StreamFields \ {"log"} : Logged(t, what)[f] = t[f]
  BY <1>1 DEF IsStream, StreamFields, Logged
<1> QED BY <1>1, <1>2, LoggedStream, KeepsOn

\* A receiver between two frames.
LEMMA KeepsIdle ==
    ASSUME NEW u, Idle(u), u.rest = "read", NEW n \in {0, 1}, u.ready \in Seq(Seq(Byte)),
           \A k \in 1 .. Len(u.ready) : Frame(u.ready[k]),
           u.granted = Len(u.ready) + n, u.granted <= RxBlocks
    PROVE  Keeps(u, <<>>, n)
<1>1. PICK x : x = <<>>
  OBVIOUS
<1>2. x \in Seq(Byte) /\ Len(x) = 0
  BY <1>1
<1>3. Gathers(u, x)
  BY <1>1, <1>2 DEF Gathers, Idle, Opening
<1>4. InFlight(u, x)
  BY <1>2, <1>3 DEF InFlight, Idle
<1>5. Stored(u) = 0 /\ Len(u.ready) \in Nat
  BY LenProperties DEF Stored, Idle
<1>6. u.granted = (Len(u.ready) + Stored(u)) + n
  BY <1>5
<1> QED BY <1>1, <1>4, <1>6 DEF Keeps

\* The frame under way ends, and its block is free.
LEMMA KeepsReset ==
    ASSUME NEW t, NEW w, NEW n \in {0, 1}, Keeps(t, w, n)
    PROVE  Keeps(reset(release_building(Begun(t))), <<>>, n)
<1>1. PICK x : x = Begun(t)
  OBVIOUS
<1>2. Keeps(x, w, n) /\ IsStream(x)
  BY <1>1, KeepsBegun DEF Keeps, InFlight
<1>3. PICK y : y = release_building(x)
  OBVIOUS
<1>4. /\ IsStream(y) /\ y.building = NoFrame /\ y.ready = x.ready /\ y.rest = x.rest
      /\ y.granted = (IF x.building = NoFrame THEN x.granted ELSE x.granted - 1)
  BY <1>2, <1>3, ReleaseBuildingIs DEF StreamFields
<1>5. PICK z : z = reset(y)
  OBVIOUS
<1>6. /\ IsStream(z) /\ z.stage = "Prefix" /\ z.prefix = <<>> /\ z.filled = 0 /\ z.need = 2
      /\ z.building = NoFrame /\ z.ready = x.ready /\ z.granted = y.granted /\ z.rest = x.rest
  BY <1>4, <1>5, ResetIs
<1>7. Stored(x) = IF x.building = NoFrame THEN 0 ELSE 1
  BY <1>2, FlightStage DEF Keeps
<1>8. /\ x.ready \in Seq(Seq(Byte)) /\ x.granted = (Len(x.ready) + Stored(x)) + n
      /\ x.granted <= RxBlocks /\ x.rest = "read"
      /\ \A k \in 1 .. Len(x.ready) : Frame(x.ready[k])
  BY <1>2 DEF Keeps
<1>9. z.granted = Len(z.ready) + n /\ z.granted <= RxBlocks
  <2>1. PICK k \in Nat : k = Len(x.ready)
    BY <1>8, LenProperties
  <2>2. RxBlocks \in Nat
    BY StreamAssumption
  <2>3. z.ready = x.ready /\ z.granted = y.granted /\ x.granted = (k + Stored(x)) + n
    BY <1>6, <1>8, <2>1
  <2>4. CASE x.building = NoFrame
    <3>1. Stored(x) = 0 /\ y.granted = x.granted
      BY <1>4, <1>7, <2>4
    <3> QED BY <1>8, <2>1, <2>3, <3>1
  <2>5. CASE x.building # NoFrame
    <3>1. Stored(x) = 1 /\ y.granted = x.granted - 1
      BY <1>4, <1>7, <2>5
    <3>2. x.granted = (k + 1) + n /\ x.granted <= RxBlocks
      BY <1>8, <2>3, <3>1
    <3>3. ((k + 1) + n) - 1 = k + n /\ ((k + 1) + n <= RxBlocks => k + n <= RxBlocks)
      BY <2>2
    <3> QED BY <2>1, <2>3, <3>1, <3>2, <3>3
  <2> QED BY <2>4, <2>5
<1>10. Idle(z)
  BY <1>6 DEF Idle
<1> QED BY <1>1, <1>3, <1>5, <1>6, <1>8, <1>9, <1>10, KeepsIdle

\* A gap ends the frame under way ...
LEMMA KeepsGap ==
    ASSUME NEW t, NEW w, NEW n \in {0, 1}, Keeps(t, w, n)
    PROVE  Keeps(notify_gap(t), <<>>, n)
<1>1. PICK x, y : x = reset(release_building(Begun(t))) /\ y = <<>>
  OBVIOUS
<1>2. Keeps(x, y, n)
  BY <1>1, KeepsReset
<1> QED BY <1>1, <1>2, KeepsLogged DEF notify_gap

\* ... and so do discard_incomplete and expire_incomplete.
LEMMA KeepsDiscard ==
    ASSUME NEW t, NEW w, NEW n \in {0, 1}, Keeps(t, w, n)
    PROVE  Keeps(discard_incomplete(t), <<>>, n) /\ Keeps(expire_incomplete(t), <<>>, n)
<1>1. PICK y : y = <<>>
  OBVIOUS
<1>2. PICK x : x = discard_incomplete(t)
  OBVIOUS
<1>3. ~assembling(t) => w = y
  BY <1>1, FlightStage DEF Keeps
<1>4. Keeps(x, y, n) /\ (~assembling(t) => Keeps(Begun(t), y, n))
  BY <1>1, <1>2, <1>3, KeepsReset, KeepsBegun DEF discard_incomplete
<1>5. Keeps(Logged(x, "stale_frames"), y, n)
  BY <1>4, KeepsLogged
<1> QED BY <1>1, <1>2, <1>4, <1>5 DEF expire_incomplete

\* Such a receiver can begin a call.
LEMMA KeepsStarts ==
    ASSUME NEW t, NEW w, NEW n \in {0, 1}, Keeps(t, w, n), NEW bytes \in Seq(Byte)
    PROVE  Starts(t, w \o bytes)
<1>1. w \in Seq(Byte) /\ IsStream(t)
  BY DEF Keeps, InFlight
<1>2. w \o bytes \in Seq(Byte)
  BY <1>1, Together
<1>3. PICK k \in Nat : k = Len(t.ready)
  BY LenProperties DEF Keeps
<1>4. Stored(t) \in {0, 1}
  BY DEF Stored
<1>5. t.granted \in Nat /\ t.granted <= RxBlocks /\ Stored(t) <= t.granted
  BY <1>3, <1>4 DEF Keeps
<1>6. ~(Denied(t) /\ Granted(t))
  BY FlightStage DEF Keeps, Denied
<1> QED BY <1>1, <1>2, <1>5, <1>6 DEF Starts, Keeps

\* It delivers and loses what v says.
Settles(t, u, v) == u.ready = t.ready \o v.delivered /\ LossesOf(u.log) = v.lost

\* A call keeps of its last frame what is open.
LEMMA KeepsCall ==
    ASSUME NEW t, NEW w, NEW n \in {0, 1}, Keeps(t, w, n), NEW bytes \in Seq(Byte)
    PROVE  /\ Keeps(consume(t, bytes), Verdict(t, w \o bytes).open, n)
           /\ Settles(t, consume(t, bytes), Verdict(t, w \o bytes))
<1>1. PICK u, v : u = consume(t, bytes) /\ v = Verdict(t, w \o bytes)
  OBVIOUS
<1>2. Ends(t, u, v)
  <2>1. Starts(t, w \o bytes)
    BY KeepsStarts
  <2>2. InFlight(t, w) /\ t.rest = "read"
    BY DEF Keeps
  <2>3. Ends(t, consume(t, bytes), Verdict(t, w \o bytes))
    BY <2>1, <2>2, CallEnds
  <2> QED BY <1>1, <2>3
<1>3. PICK q, d, r : q = t.ready /\ d = v.delivered /\ r = q \o d
  OBVIOUS
<1>4. q \in Seq(Seq(Byte)) /\ d \in Seq(Seq(Byte)) /\ u.ready = r
  BY <1>2, <1>3 DEF Ends, Keeps
<1>5. PICK S : S = Seq(Byte)
  OBVIOUS
<1>6. /\ r \in Seq(S) /\ Len(r) = Len(q) + Len(d)
      /\ \A k \in 1 .. Len(q) + Len(d) : r[k] = IF k <= Len(q) THEN q[k] ELSE d[k - Len(q)]
  <2>1. q \in Seq(S) /\ d \in Seq(S)
    BY <1>4, <1>5
  <2> QED BY <1>3, <2>1, ConcatProperties, Zenon
<1>7. PICK i \in Nat, j \in Nat : i = Len(q) /\ j = Len(d)
  BY <1>4, LenProperties
<1>8. ASSUME NEW k \in 1 .. Len(r) PROVE Frame(r[k])
  <2>1. CASE k <= i
    <3>1. k \in 1 .. i /\ r[k] = q[k]
      BY <1>6, <1>7, <2>1
    <3> QED BY <1>3, <1>7, <3>1 DEF Keeps
  <2>2. CASE ~(k <= i)
    <3>1. k - i \in 1 .. j /\ r[k] = d[k - i]
      BY <1>6, <1>7, <2>2
    <3>2. Whole(d[k - i]) /\ Sound(d[k - i])
      BY <1>2, <1>3, <1>7, <3>1 DEF Ends
    <3> QED BY <3>1, <3>2 DEF Frame, Whole
  <2> QED BY <2>1, <2>2
<1>9. u.granted = (Len(r) + Stored(u)) + n
  <2>1. u.granted = ((t.granted + j) + Stored(u)) - Stored(t) /\ t.granted = (i + Stored(t)) + n
        /\ Len(r) = i + j
    BY <1>2, <1>3, <1>6, <1>7 DEF Ends, Keeps
  <2>2. PICK b \in Nat, c \in Nat : b = Stored(t) /\ c = Stored(u)
    BY DEF Stored
  <2>3. (((((i + b) + n) + j) + c) - b) = ((i + j) + c) + n
    OBVIOUS
  <2> QED BY <2>1, <2>2, <2>3
<1>10. Keeps(u, v.open, n)
  BY <1>2, <1>4, <1>5, <1>6, <1>8, <1>9 DEF Keeps, Ends
<1> QED BY <1>1, <1>2, <1>10 DEF Ends, Settles

\* A new receiver.
LEMMA KeepsNew == Keeps(NewStream, <<>>, 0)
<1>1. PICK u : u = NewStream
  OBVIOUS
<1>2. /\ IsStream(u) /\ u.stage = "Prefix" /\ u.prefix = <<>> /\ u.filled = 0 /\ u.need = 2
      /\ u.building = NoFrame /\ u.rest = "read" /\ u.ready = <<>> /\ u.granted = 0
  BY <1>1 DEF NewStream, IsStream, StreamFields, adu_prefix_size
<1>3. Idle(u)
  BY <1>2 DEF Idle
<1>4. u.ready \in Seq(Seq(Byte)) /\ Len(u.ready) = 0 /\ RxBlocks \in Nat
  BY <1>2, StreamAssumption
<1>5. u.granted = Len(u.ready) + 0 /\ u.granted <= RxBlocks
  BY <1>2, <1>4
<1>6. \A k \in 1 .. Len(u.ready) : Frame(u.ready[k])
  BY <1>4
<1>7. Keeps(u, <<>>, 0)
  BY <1>2, <1>3, <1>4, <1>5, <1>6, KeepsIdle
<1> QED BY <1>1, <1>7

\* The first of what waits goes to the application ...
LEMMA KeepsPop ==
    ASSUME NEW t, NEW w, Keeps(t, w, 0), t.ready # <<>>
    PROVE  Keeps(dequeue(Begun(t)), w, 1)
<1>1. PICK x, u : x = Begun(t) /\ u = dequeue(x)
  OBVIOUS
<1>2. IsStream(t)
  BY DEF Keeps, InFlight
<1>3. IsStream(x) /\ \A f \in StreamFields \ {"log"} : x[f] = t[f]
  BY <1>1, <1>2, BegunIs
<1>4. /\ IsStream(u) /\ u.ready = Tail(t.ready) /\ u.granted = t.granted /\ u.stage = t.stage
      /\ u.rest = t.rest
      /\ \A f \in {"stage", "prefix", "filled", "remaining", "need", "building"} : u[f] = t[f]
  BY <1>1, <1>3 DEF IsStream, StreamFields, dequeue
<1>5. PICK q, r, S : q = t.ready /\ r = Tail(q) /\ S = Seq(Byte)
  OBVIOUS
<1>6. q \in Seq(S) /\ q # <<>>
  BY <1>5 DEF Keeps
<1>7. r \in Seq(S) /\ Len(r) = Len(q) - 1 /\ \A k \in 1 .. Len(q) - 1 : r[k] = q[k + 1]
  BY <1>5, <1>6, HeadTailProperties
<1>8. PICK i \in Nat : i = Len(q)
  BY <1>6, LenProperties
<1>9. i # 0
  BY <1>6, <1>8, EmptySeq
<1>10. ASSUME NEW k \in 1 .. Len(r) PROVE Frame(r[k])
  <2>1. k + 1 \in 1 .. i /\ k \in 1 .. i - 1
    BY <1>7, <1>8
  <2> QED BY <1>5, <1>7, <1>8, <2>1 DEF Keeps
<1>11. InFlight(u, w)
  BY <1>4, SameFlight DEF Keeps
<1>12. u.granted = (Len(r) + Stored(u)) + 1 /\ u.granted <= RxBlocks
  <2>1. Stored(u) = Stored(t) /\ Stored(t) \in {0, 1}
    BY <1>4 DEF Stored
  <2>2. u.granted = (i + Stored(t)) + 0 /\ u.granted <= RxBlocks /\ Len(r) = i - 1
    BY <1>4, <1>5, <1>7, <1>8 DEF Keeps
  <2>3. (i + Stored(t)) + 0 = ((i - 1) + Stored(t)) + 1
    BY <2>1
  <2> QED BY <2>1, <2>2, <2>3
<1> QED BY <1>1, <1>4, <1>5, <1>7, <1>10, <1>11, <1>12 DEF Keeps

\* ... and gives its block back.
LEMMA KeepsDrop ==
    ASSUME NEW t, NEW w, Keeps(t, w, 1)
    PROVE  Keeps(release_rx(Begun(t)), w, 0)
<1>1. PICK x, u : x = Begun(t) /\ u = release_rx(x)
  OBVIOUS
<1>2. IsStream(t)
  BY DEF Keeps, InFlight
<1>3. IsStream(x) /\ \A f \in StreamFields \ {"log"} : x[f] = t[f]
  BY <1>1, <1>2, BegunIs
<1>4. /\ IsStream(u) /\ u.ready = t.ready /\ u.granted = t.granted - 1 /\ u.stage = t.stage
      /\ u.rest = t.rest
      /\ \A f \in {"stage", "prefix", "filled", "remaining", "need", "building"} : u[f] = t[f]
  BY <1>1, <1>3 DEF IsStream, StreamFields, release_rx
<1>5. InFlight(u, w)
  BY <1>4, SameFlight DEF Keeps
<1>6. u.granted = (Len(u.ready) + Stored(u)) + 0 /\ u.granted <= RxBlocks
  <2>1. Stored(u) = Stored(t) /\ Stored(t) \in Nat
    BY <1>4 DEF Stored
  <2>2. PICK i \in Nat, b \in Nat : i = Len(t.ready) /\ b = Stored(t)
    BY <2>1, LenProperties DEF Keeps
  <2>3. t.granted = (i + b) + 1 /\ (i + b) + 1 <= RxBlocks
    BY <2>2 DEF Keeps
  <2>4. ((i + b) + 1) - 1 = (i + b) + 0 /\ (i + b) + 0 <= RxBlocks
    BY <2>3, StreamAssumption
  <2> QED BY <1>4, <2>1, <2>2, <2>3, <2>4
<1> QED BY <1>1, <1>4, <1>5, <1>6 DEF Keeps

\* A candidate whose length its layout explains is a whole frame.
LEMMA MatchedSize ==
    ASSUME NEW x \in Seq(Byte), ~(Len(x) < adu_overhead(Format)), NEW layout, layout = Layout(x),
           supported(layout), matches(layout, SubSeq(x, adu_prefix_size + 1, Len(x) - Format.crc_size))
    PROVE  SizeOf(x) = Len(x)
<1>1. PICK n \in Nat, c \in Nat : n = Len(x) /\ c = Format.crc_size
  BY PolicyAssumption, LenProperties
<1>2. PICK m \in Nat : m = n - c /\ m >= 2 /\ m <= n
  BY <1>1 DEF adu_overhead, adu_prefix_size
<1>3. PICK y : y = SubSeq(x, 1, m)
  OBVIOUS
<1>4. y \in Seq(Byte) /\ Len(y) = m /\ \A i \in 1 .. m : y[i] = x[i]
  <2>1. \A i \in 1 .. m : x[i] \in Byte
    BY <1>1, <1>2, ElementOfSeq
  <2>2. /\ y \in Seq(Byte) /\ Len(y) = (IF 1 <= m THEN m - 1 + 1 ELSE 0)
        /\ \A i \in 1 .. m - 1 + 1 : y[i] = x[1 + i - 1]
    BY <1>2, <1>3, <2>1, SubSeqProperties
  <2> QED BY <1>2, <2>2
<1>5. PICK data, d : data = SubSeq(x, 3, m) /\ d = SubSeq(y, 3, Len(y))
  OBVIOUS
<1>6. data = d /\ Len(d) = m - 2
  <2>1. \A i \in 3 .. m : x[i] \in Byte /\ y[i] \in Byte
    BY <1>1, <1>2, <1>4, ElementOfSeq
  <2>2. /\ data \in Seq(Byte) /\ Len(data) = (IF 3 <= m THEN m - 3 + 1 ELSE 0)
        /\ \A i \in 1 .. m - 3 + 1 : data[i] = x[3 + i - 1]
    BY <1>2, <1>5, <2>1, SubSeqProperties
  <2>3. /\ d \in Seq(Byte) /\ Len(d) = (IF 3 <= m THEN m - 3 + 1 ELSE 0)
        /\ \A i \in 1 .. m - 3 + 1 : d[i] = y[3 + i - 1]
    BY <1>2, <1>4, <1>5, <2>1, SubSeqProperties
  <2>4. Len(data) = Len(d) /\ Len(d) = m - 2 /\ \A i \in 1 .. Len(data) : data[i] = d[i]
    BY <1>2, <1>4, <2>2, <2>3
  <2> QED BY <2>2, <2>3, <2>4, SeqEqual
<1>7. matches(layout, d)
  <2>1. SubSeq(x, adu_prefix_size + 1, Len(x) - Format.crc_size) = data
    BY <1>1, <1>2, <1>5 DEF adu_prefix_size
  <2> QED BY <1>6, <2>1
<1>8. Layout(y) = layout
  BY <1>2, <1>4 DEF Layout
<1>9. IsLayout(layout) /\ header_size(layout) \in Nat
  BY <1>2, <1>4, <1>8, ReceivedLayout
<1>10. data_size(layout, d) = m - 2 /\ header_size(layout) <= m - 2
  <2>1. CASE layout.kind = "Fixed"
    <3>1. Len(d) = layout.size
      BY <1>7, <2>1 DEF matches
    <3>2. data_size(layout, d) = layout.size /\ header_size(layout) = 0
      BY <2>1 DEF data_size, header_size
    <3> QED BY <1>2, <1>6, <3>1, <3>2
  <2>2. CASE layout.kind = "Counted"
    BY <1>6, <1>7, <2>2 DEF matches
  <2> QED BY <1>7, <2>1, <2>2 DEF matches
<1>11. Known(y)
  <2>1. Len(y) >= 2 + header_size(layout)
    BY <1>2, <1>4, <1>9, <1>10
  <2> QED BY <1>2, <1>4, <1>8, <2>1 DEF Known
<1>12. SizeOf(y) = n
  <2>1. SizeOf(y) = (2 + c) + (m - 2)
    BY <1>1, <1>5, <1>8, <1>10 DEF SizeOf
  <2> QED BY <1>2, <2>1
<1>13. SizeOf(x) = SizeOf(y)
  BY <1>1, <1>2, <1>4, <1>11, SizeOfMore
<1> QED BY <1>1, <1>12, <1>13

\* A candidate is refused, or waits behind what was ready.
LEMMA CandidateIs ==
    ASSUME NEW r, NEW adu \in Seq(Byte), NEW t, t = Logged(Begun(r), "candidates")
    PROVE  \/ \E what : receive_adu(r, adu) = Logged(t, what)
           \/ /\ receive_adu(r, adu) = Logged(enqueue(acquire_block(t), adu), "frames_received")
              /\ ~(Len(adu) < adu_overhead(Format)) /\ supported(Layout(adu))
              /\ matches(Layout(adu), SubSeq(adu, adu_prefix_size + 1, Len(adu) - Format.crc_size))
              /\ verify(adu) /\ CanAcquire(t)
<1>1. PICK u : u = receive_adu(r, adu)
  OBVIOUS
<1>2. Layout(adu) = Framer(Rx, adu[address_size + 1])
  BY DEF Layout, address_size
<1>3. CASE Len(adu) < adu_overhead(Format)
  <2>0. ~(Len(adu) > max_adu_size(Format))
    <3>1. PICK n \in Nat, c \in Nat, m \in Nat :
             n = Len(adu) /\ c = Format.crc_size /\ m = Format.max_data_size
      BY PolicyAssumption, LenProperties
    <3> QED BY <1>3, <3>1 DEF max_adu_size, adu_overhead, adu_prefix_size
  <2>1. u = Logged(t, "too_short")
    BY <1>1, <1>3, <2>0, Zenon DEF receive_adu
  <2> QED BY <1>1, <2>1
<1>4. CASE ~(Len(adu) < adu_overhead(Format)) /\ Len(adu) > max_adu_size(Format)
  <2>1. u = Logged(t, "oversize")
    BY <1>1, <1>4, Zenon DEF receive_adu
  <2> QED BY <1>1, <2>1
<1>5. CASE ~(Len(adu) < adu_overhead(Format)) /\ ~(Len(adu) > max_adu_size(Format))
  <2> DEFINE data == SubSeq(adu, adu_prefix_size + 1, Len(adu) - Format.crc_size)
  <2>1. u = IF ~supported(Layout(adu)) THEN Logged(t, "unsupported_function")
            ELSE IF ~matches(Layout(adu), data) THEN Logged(t, "length_mismatch")
            ELSE IF ~verify(adu) THEN Logged(t, "crc_errors")
            ELSE IF ~CanAcquire(t) THEN Logged(t, "allocation_failure")
            ELSE Logged(enqueue(acquire_block(t), adu), "frames_received")
    BY <1>1, <1>2, <1>5, Zenon DEF receive_adu
  <2> QED BY <1>1, <1>5, <2>1
<1> QED BY <1>3, <1>4, <1>5

\* A complete candidate goes by the frame under way.
LEMMA KeepsOffer ==
    ASSUME NEW t, NEW w, NEW n \in {0, 1}, Keeps(t, w, n), NEW adu \in Seq(Byte)
    PROVE  Keeps(receive_adu(t, adu), w, n)
<1>1. PICK x : x = Logged(Begun(t), "candidates")
  OBVIOUS
<1>2. Keeps(x, w, n) /\ IsStream(x)
  <2>1. PICK y : y = Begun(t)
    OBVIOUS
  <2>2. Keeps(y, w, n)
    BY <2>1, KeepsBegun
  <2>3. Keeps(x, w, n)
    BY <1>1, <2>1, <2>2, KeepsLogged
  <2> QED BY <2>3 DEF Keeps, InFlight
<1>3. CASE \E what : receive_adu(t, adu) = Logged(x, what)
  <2>1. PICK what : receive_adu(t, adu) = Logged(x, what)
    BY <1>3
  <2> QED BY <1>2, <2>1, KeepsLogged
<1>4. CASE /\ receive_adu(t, adu) = Logged(enqueue(acquire_block(x), adu), "frames_received")
           /\ ~(Len(adu) < adu_overhead(Format)) /\ supported(Layout(adu))
           /\ matches(Layout(adu), SubSeq(adu, adu_prefix_size + 1, Len(adu) - Format.crc_size))
           /\ verify(adu) /\ CanAcquire(x)
  <2>1. SizeOf(adu) = Len(adu)
    BY <1>4, MatchedSize
  <2>2. Sound(adu)
    BY <1>4 DEF verify, Sound
  <2>3. PICK u : u = enqueue(acquire_block(x), adu)
    OBVIOUS
  <2>4. /\ IsStream(u) /\ u.ready = Append(x.ready, adu) /\ u.granted = x.granted + 1
        /\ u.stage = x.stage /\ u.rest = x.rest
        /\ \A f \in {"stage", "prefix", "filled", "remaining", "need", "building"} : u[f] = x[f]
    <3>1. PICK y : y = acquire_block(x)
      OBVIOUS
    <3>2. /\ IsStream(y) /\ y.granted = x.granted + 1
          /\ \A f \in StreamFields \ {"granted"} : y[f] = x[f]
      BY <1>2, <3>1 DEF IsStream, StreamFields, acquire_block
    <3>3. u = enqueue(y, adu)
      BY <2>3, <3>1
    <3>4. /\ IsStream(u) /\ u.ready = Append(y.ready, adu)
          /\ \A f \in StreamFields \ {"ready"} : u[f] = y[f]
      BY <3>2, <3>3 DEF IsStream, StreamFields, enqueue
    <3> QED BY <3>2, <3>4 DEF StreamFields
  <2>5. PICK q, r, S : q = x.ready /\ r = u.ready /\ S = Seq(Byte)
    OBVIOUS
  <2>6. q \in Seq(S) /\ adu \in S /\ r = Append(q, adu)
    BY <1>2, <2>4, <2>5 DEF Keeps
  <2>7. PICK i \in Nat : i = Len(q)
    BY <2>6, LenProperties
  <2>8. /\ r \in Seq(S) /\ Len(r) = i + 1 /\ r[i + 1] = adu /\ \A k \in 1 .. i : r[k] = q[k]
    BY <2>6, <2>7, AppendProperties
  <2>9. ASSUME NEW k \in 1 .. Len(r) PROVE Frame(r[k])
    <3>1. CASE k = i + 1
      BY <2>1, <2>2, <2>8, <3>1 DEF Frame
    <3>2. CASE k # i + 1
      <4>1. k \in 1 .. i /\ r[k] = q[k]
        BY <2>7, <2>8, <3>2
      <4> QED BY <1>2, <2>5, <2>7, <4>1 DEF Keeps
    <3> QED BY <3>1, <3>2
  <2>10. InFlight(u, w)
    BY <1>2, <2>4, SameFlight DEF Keeps
  <2>11. u.granted = (Len(r) + Stored(u)) + n /\ u.granted <= RxBlocks
    <3>1. Stored(u) = Stored(x) /\ Stored(x) \in Nat
      BY <2>4 DEF Stored
    <3>2. PICK b \in Nat : b = Stored(x)
      BY <3>1
    <3>3. x.granted = (i + b) + n /\ x.granted < RxBlocks
      BY <1>2, <1>4, <2>5, <2>7, <3>2 DEF Keeps, CanAcquire
    <3>4. ((i + b) + n) + 1 = ((i + 1) + b) + n /\ ((i + b) + n) + 1 <= RxBlocks
      BY <3>3, StreamAssumption
    <3> QED BY <2>4, <2>8, <3>1, <3>2, <3>3, <3>4
  <2>12. Keeps(u, w, n)
    <3>1. u.rest = "read"
      BY <1>2, <2>4 DEF Keeps
    <3> QED BY <2>5, <2>8, <2>9, <2>10, <2>11, <3>1 DEF Keeps
  <2> QED BY <1>4, <2>3, <2>12, KeepsLogged
<1> QED BY <1>1, <1>3, <1>4, CandidateIs

Held == IF held THEN 1 ELSE 0

\* The receiver has read what the history remembers, and nothing while unbound.
FlightInv == Keeps(s, trail, Held) /\ (~a.bound => trail = <<>>)

\* The packets of the application.
LEMMA HeldNumber == Held \in {0, 1}
BY DEF Held

\* The reference's reading of a call is the verdict on it.
LEMMA ReadingIs ==
    ASSUME NEW chunk
    PROVE  ReadingOf(chunk) = Verdict(s, trail \o chunk)
BY DEF ReadingOf, Verdict, Verdicts, From, Denied, Granted, Free, Reference!Reading

\* Steps that touch neither receiver nor packet.
LEMMA FlightStays ==
    ASSUME FlightInv, UNCHANGED <<s, trail, held>>, a'.bound = a.bound
    PROVE  FlightInv'
BY DEF FlightInv, Held, Keeps

\* The invariant holds at first ...
LEMMA FlightInit ==
    ASSUME Init
    PROVE  FlightInv
<1>1. s = NewStream /\ trail = <<>> /\ Held = 0
  BY DEF Init, Held
<1> QED BY <1>1, KeepsNew DEF FlightInv

\* ... a chunk or a gap keeps it ...
LEMMA FlightDrain ==
    ASSUME LineInv, FlightInv, Drain
    PROVE  FlightInv'
<1>1. PICK chunk : chunk = Head(fifo)
  OBVIOUS
<1>2. chunk \in Seq(Byte) /\ a \in AdapterRecord /\ held' = held
  <2>1. fifo \in Seq(Seq(Byte)) /\ fifo # <<>>
    BY DEF Drain, LineInv, LineTypes
  <2>2. PICK S : S = Seq(Byte)
    OBVIOUS
  <2>3. chunk \in S
    BY <1>1, <2>1, <2>2, HeadTailProperties
  <2> QED BY <2>2, <2>3 DEF Drain, LineInv, LineTypes
<1>3. Keeps(s, trail, Held) /\ Held' = Held /\ Held \in {0, 1}
  BY <1>2, HeldNumber DEF FlightInv, Held
<1>4. CASE ~a.bound
  <2>1. s' = s /\ a' = a /\ trail' = <<>> /\ trail = <<>>
    BY <1>1, <1>4 DEF Drain, Delivered, Remembered, FlightInv
  <2> QED BY <1>3, <2>1 DEF FlightInv
<1>5. CASE a.bound /\ chunk = <<>>
  <2>1. s' = notify_gap(s) /\ trail' = <<>>
    BY <1>1, <1>5 DEF Drain, Delivered, Remembered, on_gap
  <2>2. PICK y : y = <<>>
    OBVIOUS
  <2>3. Keeps(notify_gap(s), <<>>, Held)
    BY <1>3, KeepsGap
  <2> QED BY <1>3, <2>1, <2>3 DEF FlightInv
<1>6. CASE a.bound /\ chunk # <<>>
  <2>1. s' = consume(s, chunk) /\ trail' = ReadingOf(chunk).open
    BY <1>1, <1>6 DEF Drain, Delivered, Remembered, on_rx
  <2>2. Keeps(consume(s, chunk), Verdict(s, trail \o chunk).open, Held)
    BY <1>2, <1>3, KeepsCall
  <2>3. Keeps(s', trail', Held)
    <3>1. ReadingOf(chunk) = Verdict(s, trail \o chunk)
      BY ReadingIs
    <3> QED BY <2>1, <2>2, <3>1
  <2>4. a'.bound
    <3>1. PICK x : x = [a EXCEPT !.last_progress = 0]
      OBVIOUS
    <3>2. x \in AdapterRecord /\ x.bound = a.bound
      BY <1>2, <3>1 DEF AdapterRecord
    <3>3. PICK d : a' = Disarmed(x) \/ a' = Armed(x, d)
      BY <1>1, <1>6, <3>1, Zenon DEF Drain, Delivered, on_rx
    <3>4. Disarmed(x).bound = x.bound /\ Armed(x, d).bound = x.bound
      BY <3>2 DEF Disarmed, Armed, AdapterRecord
    <3> QED BY <1>6, <3>2, <3>3, <3>4
  <2> QED BY <1>3, <2>3, <2>4 DEF FlightInv
<1> QED BY <1>4, <1>5, <1>6

\* ... the end of proceed ...
LEMMA FlightDrained ==
    ASSUME FlightInv, Drained
    PROVE  FlightInv'
<1>1. Keeps(s, trail, Held) /\ Held' = Held /\ Held \in {0, 1}
  BY HeldNumber DEF FlightInv, Held, Drained
<1>2. CASE gapPending /\ a.bound
  <2>1. s' = notify_gap(s) /\ trail' = <<>>
    BY <1>2 DEF Drained, on_gap
  <2>2. Keeps(notify_gap(s), <<>>, Held)
    BY <1>1, KeepsGap
  <2> QED BY <1>1, <2>1, <2>2 DEF FlightInv
<1>3. CASE ~(gapPending /\ a.bound)
  <2>1. s' = Begun(s) /\ trail' = trail /\ a' = a
    BY <1>3 DEF Drained
  <2>2. Keeps(Begun(s), trail, Held)
    BY <1>1, KeepsBegun
  <2> QED BY <1>1, <2>1, <2>2 DEF FlightInv
<1> QED BY <1>2, <1>3

\* ... the verdict on an overdue frame ...
LEMMA FlightFinish ==
    ASSUME LineInv, FlightInv, finish
    PROVE  FlightInv'
<1>1. Keeps(s, trail, Held) /\ Held' = Held /\ Held \in {0, 1}
  BY HeldNumber DEF FlightInv, Held, finish
<1>2. CASE s' = expire_incomplete(s) /\ trail' = <<>>
  <2>1. Keeps(expire_incomplete(s), <<>>, Held)
    BY <1>1, KeepsDiscard
  <2> QED BY <1>1, <1>2, <2>1 DEF FlightInv
<1>3. CASE s' = Begun(s) /\ trail' = trail /\ a'.bound = a.bound
  <2>2. Keeps(Begun(s), trail, Held)
    BY <1>1, KeepsBegun
  <2> QED BY <1>1, <1>3, <2>2 DEF FlightInv
<1>4. ASSUME s' = Begun(s), trail' = trail, NEW x, x = [a EXCEPT !.line_resumed = FALSE],
             \/ a' = [x EXCEPT !.lag = 0]
             \/ \E d : a' = [Armed(x, d) EXCEPT !.lag = 0]
      PROVE  a'.bound = a.bound
  <2>1. x \in AdapterRecord /\ x.bound = a.bound
    BY <1>4 DEF LineInv, LineTypes, AdapterRecord
  <2>2. \A d : [Armed(x, d) EXCEPT !.lag = 0].bound = x.bound
    <3> TAKE d
    <3>1. PICK late : late = (x.lag - d) % Wrap
      OBVIOUS
    <3>2. Armed(x, d) = [x EXCEPT !.active = TRUE, !.late = late]
      BY <3>1 DEF Armed
    <3> QED BY <2>1, <3>2 DEF AdapterRecord
  <2>3. [x EXCEPT !.lag = 0].bound = x.bound
    BY <2>1 DEF AdapterRecord
  <2> QED BY <1>4, <2>1, <2>2, <2>3
<1> QED BY <1>2, <1>3, <1>4 DEF finish

\* Time, the line, and what the task does without its receiver.
LEMMA FlightLine ==
    ASSUME LineInv, FlightInv,
           Tick \/ LineFault \/ Take \/ Wake \/ prepare \/ \E r \in Rates : SetRate(r)
    PROVE  FlightInv'
<1>1. CASE Tick
  <2>1. a'.bound = a.bound /\ UNCHANGED s
    BY <1>1, TimeMoves DEF Tick, LineInv
  <2>2. UNCHANGED <<trail, held>>
    BY <1>1 DEF Tick, TickPasses
  <2> QED BY <2>1, <2>2, FlightStays
<1>2. CASE LineFault \/ Take \/ Wake \/ \E r \in Rates : SetRate(r)
  <2>1. UNCHANGED <<s, trail, held, a>>
    BY <1>2 DEF LineFault, Take, Wake, SetRate
  <2> QED BY <2>1, FlightStays
<1>3. CASE prepare
  <2>1. UNCHANGED <<s, trail, held>>
    BY <1>3 DEF prepare
  <2>2. a'.bound = a.bound
    <3>1. PICK x0, r : x0 = [a EXCEPT !.lag = 0] /\ r = Refreshed(x0)
      OBVIOUS
    <3>2. x0 \in AdapterRecord /\ x0.m_full_chunk_ms = chunk_time_ms(ChunkSize, x0.m_baud)
          /\ x0.bound = a.bound
      BY <3>1 DEF LineInv, LineTypes, Binding, AdapterRecord
    <3>3. r \in AdapterRecord /\ r.bound = a.bound
      BY <3>1, <3>2, RefreshedAdapter DEF LineInv
    <3>4. PICK x : x = [r EXCEPT !.line_resumed = FALSE]
      OBVIOUS
    <3>5. x.bound = r.bound /\ \A y, z : [x EXCEPT !.line_resumed = y, !.last_progress = z].bound = x.bound
      BY <3>3, <3>4 DEF AdapterRecord
    <3>6. \/ a' = x
          \/ \E y, z : a' = [x EXCEPT !.line_resumed = y, !.last_progress = z]
      BY <1>3, <3>1, <3>4, Zenon DEF prepare
    <3> QED BY <3>3, <3>5, <3>6
  <2> QED BY <2>1, <2>2, FlightStays
<1> QED BY <1>1, <1>2, <1>3

\* The task's wait begins a pass with nothing counted.
LEMMA FlightWait ==
    ASSUME FlightInv, wait
    PROVE  FlightInv'
<1>1. s' = Begun(s) /\ UNCHANGED <<a, held, trail>>
  BY DEF wait
<1>2. Keeps(Begun(s), trail, Held)
  BY KeepsBegun DEF FlightInv
<1> QED BY <1>1, <1>2 DEF FlightInv, Held

\* bind finds nothing read, unbind leaves nothing.
LEMMA FlightBinding ==
    ASSUME LineInv, FlightInv, bind \/ unbind
    PROVE  FlightInv'
<1>1. Keeps(s, trail, Held) /\ Held' = Held /\ Held \in {0, 1}
  BY HeldNumber DEF FlightInv, Held, bind, unbind
<1>2. CASE bind
  <2>1. s' = s /\ trail' = trail /\ a' = [Refreshed(a) EXCEPT !.bound = TRUE]
    BY <1>2 DEF bind
  <2>2. Refreshed(a) \in AdapterRecord
    BY RefreshedAdapter DEF LineInv, LineTypes, Binding
  <2>3. a'.bound
    BY <2>1, <2>2 DEF AdapterRecord
  <2> QED BY <1>1, <2>1, <2>3 DEF FlightInv
<1>3. CASE unbind
  <2>1. s' = discard_incomplete(s) /\ trail' = <<>>
    BY <1>3 DEF unbind, detach
  <2>2. Keeps(discard_incomplete(s), <<>>, Held)
    BY <1>1, KeepsDiscard
  <2> QED BY <1>1, <2>1, <2>2 DEF FlightInv
<1> QED BY <1>2, <1>3

\* The application takes and drops packets, and offers candidates.
LEMMA FlightPackets ==
    ASSUME FlightInv, pop_packet \/ DropPacket \/ \E adu \in Frames \union {<<>>} : Offer(adu)
    PROVE  FlightInv'
<1>1. UNCHANGED <<a, trail>>
  BY DEF pop_packet, DropPacket, Offer
<1>2. CASE pop_packet
  <2>1. s' = dequeue(Begun(s)) /\ Held = 0 /\ Held' = 1 /\ s.ready # <<>>
    BY <1>2 DEF pop_packet, Held
  <2>2. Keeps(s, trail, 0)
    BY <2>1 DEF FlightInv
  <2>3. Keeps(dequeue(Begun(s)), trail, 1)
    BY <2>1, <2>2, KeepsPop
  <2> QED BY <1>1, <2>1, <2>3 DEF FlightInv
<1>3. CASE DropPacket
  <2>1. s' = release_rx(Begun(s)) /\ Held = 1 /\ Held' = 0
    BY <1>3 DEF DropPacket, Held
  <2>2. Keeps(s, trail, 1)
    BY <2>1 DEF FlightInv
  <2>3. Keeps(release_rx(Begun(s)), trail, 0)
    BY <2>2, KeepsDrop
  <2> QED BY <1>1, <2>1, <2>3 DEF FlightInv
<1>4. CASE \E adu \in Frames \union {<<>>} : Offer(adu)
  <2>1. PICK adu \in Frames \union {<<>>} : Offer(adu)
    BY <1>4
  <2>2. adu \in Seq(Byte)
    <3>1. Frames \subseteq Seq(Byte) /\ <<>> \in Seq(Byte)
      BY LineAssumption
    <3> QED BY <2>1, <3>1
  <2>3. s' = receive_adu(s, adu) /\ Held' = Held
    BY <2>1 DEF Offer, Held
  <2>4. Keeps(receive_adu(s, adu), trail, Held)
    BY <2>2, HeldNumber, KeepsOffer DEF FlightInv
  <2> QED BY <1>1, <2>3, <2>4 DEF FlightInv
<1> QED BY <1>2, <1>3, <1>4

\* Every step keeps it.
LEMMA FlightStep ==
    ASSUME LineInv, FlightInv, [Next]_vars
    PROVE  FlightInv'
<1>1. CASE UNCHANGED vars
  <2>1. UNCHANGED <<s, trail, held, a>>
    BY <1>1 DEF vars
  <2> QED BY <2>1, FlightStays
<1>2. CASE Next
  BY <1>2, FlightLine, FlightWait, FlightDrain, FlightDrained, FlightFinish, FlightBinding,
     FlightPackets DEF Next
<1> QED BY <1>1, <1>2

\* Every byte of the frame in flight is in its receiver, every block of the storage has
\* its owner, and an unbound receiver has read nothing: for every format, policy,
\* checksum and storage (StreamReceiver.h, Receiver.h).
THEOREM FlightInvariant == Spec => []FlightInv
BY LineInvariant, FlightInit, FlightStep, PTL DEF Spec

\* The frame in flight.
LEMMA FlightFrame ==
    ASSUME FlightInv
    PROVE  FrameInFlight
<1>1. PICK size, n : size = SizeOf(trail) /\ n = Len(trail)
  OBVIOUS
<1>2. InFlight(s, trail) /\ trail \in Seq(Byte) /\ n \in Nat
  BY <1>1, LenProperties DEF FlightInv, Keeps, InFlight
<1>3. Reference!AduSize(trail) = size
  BY <1>1, ReferenceTerms
<1>4. ASSUME NEW k \in DOMAIN s.ready
      PROVE  Reference!Intact(s.ready[k]) /\ Reference!AduSize(s.ready[k]) = Len(s.ready[k])
  <2>1. PICK x : x = s.ready[k]
    OBVIOUS
  <2>2. Frame(x)
    <3>1. DOMAIN s.ready = 1 .. Len(s.ready)
      BY LenProperties DEF FlightInv, Keeps
    <3> QED BY <2>1, <3>1 DEF FlightInv, Keeps
  <2>3. (Reference!Intact(x) <=> Sound(x)) /\ Reference!AduSize(x) = SizeOf(x)
    BY ReferenceTerms
  <2> QED BY <2>1, <2>2, <2>3 DEF Frame
<1>5. /\ assembling(s) <=> trail # <<>>
      /\ Stored(s) = (IF s.building = NoFrame THEN 0 ELSE 1)
  BY <1>2, FlightStage
<1>6. s.stage \in {"Prefix", "Header"} => s.prefix = trail /\ n < s.need
  BY <1>1, <1>2 DEF InFlight, Gathers, Stores, Skips
<1>7. s.stage \in {"Body", "Skip"} => /\ Known(trail) /\ n < size /\ s.remaining = size - n
  BY <1>1, <1>2 DEF InFlight, Gathers, Opening, Stores, Skips, Expects
<1>8. s.stage \in {"Body", "Skip"} => size \in Nat
  BY <1>1, <1>2, <1>7, SizeIsSize
<1>9. s.stage \in {"Body", "Skip"} => size - n > 0 /\ n + (size - n) = size
  BY <1>2, <1>7, <1>8
<1>10. s.stage = "Body" => s.building.bytes = trail /\ s.building.size = size
  BY <1>1, <1>2 DEF InFlight, Gathers, Opening, Stores, Skips
<1>11. s.granted = Len(s.ready) + (IF s.building = NoFrame THEN 0 ELSE 1)
                                + (IF held THEN 1 ELSE 0)
  BY <1>5 DEF FlightInv, Keeps, Held
<1> QED BY <1>1, <1>3, <1>4, <1>5, <1>6, <1>7, <1>9, <1>10, <1>11 DEF FrameInFlight

\* FrameInFlight: in whatever stage, the receiver has exactly what was read of the frame
\* and waits for what its header still promises; what waits for the application is whole
\* (StreamReceiver::consume, Receiver::receive_adu, discard_incomplete).
THEOREM FramesStayWhole == Spec => []FrameInFlight
BY FlightInvariant, FlightFrame, PTL

\* Only the pass that drains it takes from the queue.
LEMMA OnlyDrainTakes ==
    ASSUME LineInv, Next, ~Drain
    PROVE  ~(Len(fifo') < Len(fifo))
<1>1. fifo \in Seq(Seq(Byte)) /\ LineTypes /\ Chunks
  BY DEF LineInv, LineTypes
<1>2. PICK n \in Nat : n = Len(fifo)
  BY <1>1, LenProperties
<1>3. ASSUME NEW c \in Seq(Byte), fifo' = Append(fifo, c)
      PROVE  ~(Len(fifo') < Len(fifo))
  <2>1. PICK S : S = Seq(Byte)
    OBVIOUS
  <2>2. fifo \in Seq(S) /\ c \in S
    BY <1>1, <2>1
  <2>3. Len(fifo') = n + 1
    BY <1>2, <1>3, <2>2, AppendProperties
  <2> QED BY <1>2, <2>3
<1>4. CASE UNCHANGED fifo
  BY <1>2, <1>4
<1>5. CASE Tick
  <2>1. SilentTick \/ Send
    BY <1>5 DEF Tick
  <2>2. UNCHANGED fifo \/ \E c \in Seq(Byte) : fifo' = Append(fifo, c)
    BY <1>1, <2>1, LineMoves DEF LineStands, Published
  <2> QED BY <1>3, <1>4, <2>2
<1>6. CASE LineFault \/ \E r \in Rates : SetRate(r)
  <2>1. fifo' = fifo \/ fifo' = Append(fifo, <<>>)
    BY <1>6 DEF LineFault, SetRate
  <2>2. <<>> \in Seq(Byte)
    OBVIOUS
  <2>3. \A c \in Seq(Byte) : fifo' = Append(fifo, c) => ~(Len(fifo') < Len(fifo))
    BY <1>3
  <2> QED BY <1>4, <2>1, <2>2, <2>3
<1>7. CASE \/ wait \/ Take \/ Wake \/ prepare \/ Drained \/ finish \/ bind \/ unbind
           \/ pop_packet \/ DropPacket \/ \E adu \in Frames \union {<<>>} : Offer(adu)
  <2>1. UNCHANGED fifo
    BY <1>7 DEF wait, Take, Wake, prepare, Drained, finish, bind, unbind, pop_packet,
              DropPacket, Offer, driver
  <2> QED BY <1>4, <2>1
<1> QED BY <1>5, <1>6, <1>7 DEF Next

\* The verdict on a chunk.
LEMMA CallVerdict ==
    ASSUME LineInv, FlightInv, Next, Len(fifo') < Len(fifo), a.bound, Head(fifo) # <<>>
    PROVE  /\ s'.ready = s.ready \o ReadingOf(Head(fifo)).delivered
           /\ LossesOf(s'.log) = ReadingOf(Head(fifo)).lost
<1>1. Drain
  BY OnlyDrainTakes
<1>2. PICK chunk : chunk = Head(fifo)
  OBVIOUS
<1>3. chunk \in Seq(Byte)
  <2>1. fifo \in Seq(Seq(Byte)) /\ fifo # <<>>
    BY <1>1 DEF Drain, LineInv, LineTypes
  <2>2. Head(fifo) \in Seq(Byte)
    BY <2>1, QueueShrinks
  <2> QED BY <1>2, <2>2
<1>4. s' = consume(s, chunk)
  BY <1>1, <1>2 DEF Drain, Delivered, on_rx
<1>5. /\ consume(s, chunk).ready = s.ready \o Verdict(s, trail \o chunk).delivered
      /\ LossesOf(consume(s, chunk).log) = Verdict(s, trail \o chunk).lost
  <2>1. PICK n \in {0, 1} : Keeps(s, trail, n)
    BY HeldNumber DEF FlightInv
  <2>2. Settles(s, consume(s, chunk), Verdict(s, trail \o chunk))
    BY <1>3, <2>1, KeepsCall
  <2> QED BY <2>2 DEF Settles
<1>6. ReadingOf(chunk) = Verdict(s, trail \o chunk)
  BY ReadingIs
<1>7. PICK t, v : t = consume(s, chunk) /\ v = Verdict(s, trail \o chunk)
  OBVIOUS
<1>8. s' = t /\ ReadingOf(Head(fifo)) = v
  BY <1>2, <1>4, <1>6, <1>7
<1>9. t.ready = s.ready \o v.delivered /\ LossesOf(t.log) = v.lost
  BY <1>5, <1>7
<1> QED BY <1>8, <1>9, Zenon

\* StreamVerdict: however the bytes were cut into chunks, a call delivers and loses exactly
\* what they stand for when read as a whole, for chunks and frames of every length
\* (StreamReceiver::consume).
THEOREM ChunksDoNotMatter == Spec => StreamVerdict
<1>1. ASSUME LineInv, FlightInv, [Next]_vars
      PROVE  [Len(fifo') < Len(fifo) /\ a.bound /\ Head(fifo) # <<>> =>
                LET stands == ReadingOf(Head(fifo))
                IN  /\ s'.ready = s.ready \o stands.delivered
                    /\ LossesOf(s'.log) = stands.lost]_vars
  <2>1. CASE UNCHANGED vars
    BY <2>1
  <2>2. CASE Next
    BY <1>1, <2>2, CallVerdict
  <2> QED BY <1>1, <2>1, <2>2
<1> QED BY <1>1, LineInvariant, FlightInvariant, PTL DEF Spec, StreamVerdict

-----------------------------------------------------------------------------
(* A dead frame goes: how far ahead its deadline is, and how recent is     *)
(* what is still to be drained.                                            *)

\* What the bound on a dead frame rests on: longest is the longest deadline any rate is
\* granted, a pass takes a tick and less than a quarter of the counter's range.
Prompt(longest) ==
    /\ longest \in Nat /\ idle_stale_ms <= longest
    /\ \A rate \in Rates : chunk_time_ms(ChunkSize, rate) + full_chunk_guard_ms <= longest
    /\ MaxBusy >= 1 /\ 2 * MaxBusy < Wrap \div 2

\* Ticks to a deadline that is that late, below zero once it has passed.
Ahead(late) == IF due(late) THEN 0 - late ELSE Wrap - late

\* Ticks since the last chunk was published, at most: the rest of the pass it missed,
\* and the pass it is drained in.
Since ==
    IF pc \in {"finish", "app", "take"} THEN busy
    ELSE IF pc = "asleep" THEN busy + 1 ELSE busy + MaxBusy

\* A deadline is missed by no more than the pass that overslept it and the one that looks.
Lateness ==
    a.active =>
        /\ pc = "app" => Ahead(a.late) + busy >= 0
        /\ pc = "take" => Ahead(a.late) + busy >= timeout
        /\ pc = "asleep" => (Ahead(a.late) + busy) + MaxBusy >= timeout
        /\ pc \in {"run", "drain", "finish"} => (Ahead(a.late) + busy) + MaxBusy >= 0

\* What waits to be drained is recent; what fills behind it came later.
Recency ==
    HasChunk(fifo) =>
        IF filling = <<>> THEN quiet <= Since /\ 1 <= Since ELSE quiet + 2 <= Since

\* Bytes that DMA has put down and the adapter has not seen ...
Unseen == rx_progress > a.last_progress
\* ... and a verdict put off because there were some.
Resuming == a.line_resumed /\ Overdue

\* Silence and the way to the deadline add up, and what is granted once more is granted
\* for bytes that were not seen before.
Nearing(longest) ==
    a.active =>
        /\ Ahead(a.late) <= longest
        /\ quiet + Ahead(a.late) <= (2 * longest + 4 * MaxBusy) - 2
        /\ Unseen \/ Resuming => quiet + Ahead(a.late) <= (longest + 2 * MaxBusy) - 2
        /\ Unseen /\ Resuming => quiet <= a.lag

DeadInv(longest) ==
    /\ Lateness /\ Recency /\ Nearing(longest)
    /\ assembling(s) => a.active

\* The numbers of an instance that is prompt.
LEMMA PromptNumbers ==
    ASSUME NEW longest, Prompt(longest)
    PROVE  /\ longest \in Nat /\ MaxBusy \in Nat /\ MaxBusy >= 1 /\ Wrap \in Nat \ {0}
           /\ Wrap \div 2 \in Nat /\ 2 * MaxBusy < Wrap \div 2 /\ (Wrap \div 2) + (Wrap \div 2) <= Wrap
           /\ idle_stale_ms \in Nat /\ idle_stale_ms <= longest
<1>1. Wrap \in Nat \ {0} /\ Wrap \div 2 \in Nat /\ MaxBusy \in Nat /\ idle_stale_ms \in Nat
  BY Bounds
<1>2. (Wrap \div 2) + (Wrap \div 2) <= Wrap
  BY <1>1, Z3
<1> QED BY <1>1, <1>2 DEF Prompt

\* A deadline that has passed is ahead by less than nothing.
LEMMA AheadOf ==
    ASSUME NEW late \in 0 .. Wrap - 1
    PROVE  /\ Ahead(late) \in Int /\ DeadlineIn(late) \in Nat
           /\ due(late) => Ahead(late) = 0 - late /\ DeadlineIn(late) = 0
           /\ ~due(late) => Ahead(late) = DeadlineIn(late)
BY Bounds DEF Ahead, DeadlineIn

\* A tick brings a deadline one tick nearer as long as it is not missed by half a wrap.
LEMMA AheadDrops ==
    ASSUME NEW longest, Prompt(longest), NEW late \in 0 .. Wrap - 1,
           Ahead(late) + 2 * MaxBusy >= 1
    PROVE  Ahead((late + 1) % Wrap) = Ahead(late) - 1
<1>1. PICK w \in Nat, h \in Nat, m \in Nat : w = Wrap /\ h = Wrap \div 2 /\ m = MaxBusy
  BY PromptNumbers
<1>2. h + h <= w /\ 2 * m < h /\ late \in 0 .. w - 1
  BY <1>1, PromptNumbers
<1>3. CASE late + 1 < Wrap
  <2>1. (late + 1) % Wrap = late + 1
    <3>1. PICK z \in Int : z = late + 1
      OBVIOUS
    <3>2. z % w = z
      BY <1>1, <1>2, <1>3, <3>1, Z3
    <3> QED BY <1>1, <3>1, <3>2
  <2>2. late < h => late + 1 < h
    BY <1>1, <1>2 DEF Ahead, due
  <2> QED BY <1>1, <1>2, <2>1, <2>2 DEF Ahead, due
<1>4. CASE late + 1 = Wrap
  <2>1. (late + 1) % Wrap = 0
    <3>1. w % w = 0
      BY <1>1, <1>2, <1>4, Z3
    <3> QED BY <1>1, <1>4, <3>1
  <2> QED BY <1>1, <1>2, <1>4, <2>1 DEF Ahead, due
<1> QED BY <1>1, <1>2, <1>3, <1>4

\* A deadline granted d ticks from the tick of the pass is d - lag away.
LEMMA AheadArmed ==
    ASSUME NEW longest, Prompt(longest), NEW d \in 1 .. Wrap \div 2, NEW lag \in 0 .. MaxBusy
    PROVE  Ahead((lag - d) % Wrap) = d - lag
<1>1. PICK w \in Nat, h \in Nat, m \in Nat : w = Wrap /\ h = Wrap \div 2 /\ m = MaxBusy
  BY PromptNumbers
<1>2. h + h <= w /\ 2 * m < h /\ d \in 1 .. h /\ lag \in 0 .. m
  BY <1>1, PromptNumbers
<1>3. CASE lag < d
  <2>1. (lag - d) % Wrap = (lag - d) + w
    <3>1. PICK z \in Int : z = lag - d
      OBVIOUS
    <3>2. z % w = z + w
      BY <1>1, <1>2, <1>3, <3>1, Z3
    <3> QED BY <1>1, <3>1, <3>2
  <2>2. ~((lag - d) + w < h)
    BY <1>1, <1>2, <1>3
  <2> QED BY <1>1, <1>2, <2>1, <2>2 DEF Ahead, due
<1>4. CASE ~(lag < d)
  <2>1. (lag - d) % Wrap = lag - d
    <3>1. PICK z \in Int : z = lag - d
      OBVIOUS
    <3>2. z % w = z
      BY <1>1, <1>2, <1>4, <3>1, Z3
    <3> QED BY <1>1, <3>1, <3>2
  <2>2. lag - d < h
    BY <1>1, <1>2, <1>4
  <2> QED BY <1>1, <1>2, <2>1, <2>2 DEF Ahead, due
<1> QED BY <1>1, <1>2, <1>3, <1>4

\* Not overdue by the tick of the pass: missed since then, if at all.
LEMMA MissedInPass ==
    ASSUME NEW late \in 0 .. Wrap - 1, NEW lag \in 0 .. MaxBusy, ~due((late - lag) % Wrap)
    PROVE  Ahead(late) + lag >= 0
<1>1. PICK w \in Nat, h \in Nat : w = Wrap /\ h = Wrap \div 2 /\ w # 0
  BY Bounds
<1>2. CASE late < h /\ late > lag
  <2>1. PICK z \in Int : z = late - lag
    BY Bounds
  <2>2. z \in 0 .. w - 1 /\ z < h
    BY <1>1, <1>2, <2>1, Bounds
  <2>3. z % w = z
    BY <1>1, <2>2, Z3
  <2> QED BY <1>1, <2>1, <2>2, <2>3 DEF due
<1>3. CASE late < h /\ ~(late > lag)
  BY <1>1, <1>3, Bounds DEF Ahead, due
<1>4. CASE ~(late < h)
  BY <1>1, <1>4, Bounds DEF Ahead, due
<1> QED BY <1>2, <1>3, <1>4

\* A tick of the line, and how recent its bytes are.
LEMMA LineRecent ==
    ASSUME LineTypes, Chunks, SilentTick \/ Send
    PROVE  /\ quiet \in Nat /\ quiet' \in Nat
           /\ \/ LineStands /\ quiet' <= quiet + 1
              \/ \E chunk \in Seq(Byte) \ {<<>>} : Published(chunk) /\ quiet' <= 1
              \/ \E b \in Byte :
                    ~deaf /\ filling' = Append(filling, b) /\ quiet' = 0
                    /\ UNCHANGED <<fifo, deaf, gapPending, notified>>
<1>1. quiet \in Nat /\ MaxQuiet \in Nat
  BY LineAssumption DEF LineTypes
<1>2. CASE SilentTick
  <2>1. Min({quiet + 1, MaxQuiet}) = IF quiet + 1 <= MaxQuiet THEN quiet + 1 ELSE MaxQuiet
    BY <1>1, SmallerOf
  <2>2. quiet' \in Nat /\ quiet' <= quiet + 1
    BY <1>1, <1>2, <2>1 DEF SilentTick
  <2>3. CASE quiet = 0 /\ filling # <<>> /\ Published(filling)
    <3>1. filling \in Seq(Byte) \ {<<>>}
      BY <2>3 DEF LineTypes
    <3> QED BY <1>1, <2>2, <2>3, <3>1
  <2>4. CASE LineStands
    BY <1>1, <2>2, <2>4
  <2> QED BY <1>2, <2>3, <2>4 DEF SilentTick, LineStands
<1>3. CASE Send
  <2>1. PICK b \in Byte : ByteArrives(b)
    <3>1. CASE rest # <<>> /\ ByteArrives(Head(rest))
      <4>1. Head(rest) \in Byte
        BY <3>1, HeadTailProperties DEF LineTypes
      <4> QED BY <3>1, <4>1
    <3>2. ASSUME NEW f \in Frames, ByteArrives(Head(f)) PROVE \E b \in Byte : ByteArrives(b)
      <4>1. f \in Seq(Byte) /\ f # <<>>
        BY LineAssumption
      <4>2. Head(f) \in Byte
        BY <4>1, HeadTailProperties
      <4> QED BY <3>2, <4>2
    <3> QED BY <1>3, <3>1, <3>2 DEF Send
  <2>2. quiet' = 0
    BY <2>1 DEF ByteArrives
  <2>3. CASE deaf
    BY <1>1, <2>1, <2>2, <2>3 DEF ByteArrives, LineStands
  <2>4. CASE ~deaf /\ Len(filling) + 1 = ChunkSize
    <3>1. PICK chunk : chunk = Append(filling, b)
      OBVIOUS
    <3>2. chunk \in Seq(Byte) \ {<<>>}
      BY <3>1, BytesGrow DEF LineTypes
    <3>3. Published(chunk)
      BY <2>1, <2>4, <3>1 DEF ByteArrives
    <3> QED BY <1>1, <2>2, <3>2, <3>3
  <2>5. CASE ~deaf /\ Len(filling) + 1 # ChunkSize
    BY <1>1, <2>1, <2>2, <2>5 DEF ByteArrives
  <2> QED BY <2>3, <2>4, <2>5
<1> QED BY <1>2, <1>3

\* A tick brings the deadline nearer.
LEMMA TickNears ==
    ASSUME LineInv, NEW longest, Prompt(longest), Lateness, TickPasses, a.active
    PROVE  /\ Ahead(a'.late) = Ahead(a.late) - 1
           /\ pc \in {"drain", "finish"} => a'.lag = a.lag + 1
<1>1. PICK late, lag : /\ late = (a.late + 1) % Wrap
                       /\ lag = (IF pc \in {"drain", "finish"} THEN a.lag + 1 ELSE 0)
  OBVIOUS
<1>2. a' = [a EXCEPT !.late = late, !.lag = lag]
  BY <1>1 DEF TickPasses, LineInv, LineTypes, AdapterRecord
<1>3. a'.late = late /\ a'.lag = lag
  BY <1>2 DEF LineInv, LineTypes, AdapterRecord
<1>4. a.late \in 0 .. Wrap - 1 /\ busy \in Nat /\ busy <= MaxBusy /\ timeout \in Nat
      /\ MaxBusy \in Nat
  BY PromptNumbers DEF LineInv, LineTypes, AdapterRecord
<1>5. PICK n \in Int : n = Ahead(a.late)
  BY <1>4, AheadOf
<1>6. PICK m \in Nat, j \in Nat, t \in Nat : m = MaxBusy /\ j = busy /\ t = timeout /\ j <= m
  BY <1>4
<1>7. m >= 1 /\ (Sleeping \/ j < m)
  BY <1>6, PromptNumbers DEF TickPasses
<1>8. /\ pc = "app" => n + j >= 0
      /\ pc = "take" => n + j >= t
      /\ pc = "asleep" => (n + j) + m >= t
      /\ pc \in {"run", "drain", "finish"} => (n + j) + m >= 0
      /\ pc \in {"app", "take", "asleep", "run", "drain", "finish"}
      /\ Sleeping => pc = "asleep" /\ t > 0
  BY <1>5, <1>6 DEF Lateness, LineInv, LineTypes, Sleeping
<1>9. n + 2 * m >= 1
  <2>1. CASE pc = "asleep"
    BY <1>6, <1>7, <1>8, <2>1
  <2>2. CASE pc # "asleep"
    BY <1>6, <1>7, <1>8, <2>2
  <2> QED BY <2>1, <2>2
<1>10. Ahead(late) = Ahead(a.late) - 1
  BY <1>1, <1>4, <1>5, <1>6, <1>9, AheadDrops
<1> QED BY <1>1, <1>3, <1>10

\* Silence grows as the deadline nears.
LEMMA SumStands ==
    ASSUME NEW q \in Nat, NEW r \in Nat, r <= q + 1, NEW n \in Int, NEW k \in Int, q + n <= k
    PROVE  r + (n - 1) <= k
OBVIOUS

\* A tick keeps the invariant.
LEMMA DeadTick ==
    ASSUME LineInv, NEW longest, Prompt(longest), DeadInv(longest), Tick
    PROVE  DeadInv(longest)'
<1>1. TickPasses /\ (SilentTick \/ Send)
  BY DEF Tick
<1>2. /\ a' \in AdapterRecord /\ busy' \in 0 .. MaxBusy /\ timeout' \in Nat
      /\ a'.active = a.active
      /\ a'.last_progress = a.last_progress /\ a'.line_resumed = a.line_resumed
      /\ pc \in {"drain", "finish"} /\ a.active => Overdue' = Overdue
      /\ ~Sleeping => busy' = busy + 1 /\ timeout' = timeout /\ busy < MaxBusy
      /\ Sleeping => timeout' = timeout - 1 /\ timeout > 0 /\ busy' = busy
      /\ UNCHANGED <<s, pc>>
  BY <1>1, TimeMoves DEF LineInv
<1>3. /\ quiet \in Nat /\ quiet' \in Nat
      /\ \/ LineStands /\ quiet' <= quiet + 1
         \/ \E chunk \in Seq(Byte) \ {<<>>} : Published(chunk) /\ quiet' <= 1
         \/ \E b \in Byte :
               ~deaf /\ filling' = Append(filling, b) /\ quiet' = 0
               /\ UNCHANGED <<fifo, deaf, gapPending, notified>>
  BY <1>1, LineRecent DEF LineInv
<1>4. /\ busy \in Nat /\ timeout \in Nat /\ MaxBusy \in Nat /\ MaxBusy >= 1 /\ longest \in Nat
      /\ a.last_progress \in Nat /\ a.lag \in Nat
      /\ pc \in {"app", "take", "asleep", "run", "drain", "finish"}
  BY PromptNumbers DEF LineInv, LineTypes, AdapterRecord
<1>5. a.active => /\ Ahead(a'.late) = Ahead(a.late) - 1 /\ Ahead(a.late) \in Int
                  /\ pc \in {"drain", "finish"} => a'.lag = a.lag + 1
  <2>1. a.late \in 0 .. Wrap - 1
    BY DEF LineInv, LineTypes, AdapterRecord
  <2> QED BY <1>1, <2>1, TickNears, AheadOf DEF DeadInv
<1>6. Lateness'
  <2>1. ASSUME a.active PROVE Lateness'
    <3>1. PICK n \in Int : n = Ahead(a.late) /\ Ahead(a'.late) = n - 1
      BY <1>5, <2>1
    <3>2. CASE Sleeping
      BY <1>2, <1>4, <2>1, <3>1, <3>2 DEF Lateness, DeadInv, Sleeping
    <3>3. CASE ~Sleeping
      BY <1>2, <1>4, <2>1, <3>1, <3>3 DEF Lateness, DeadInv
    <3> QED BY <3>2, <3>3
  <2> QED BY <1>2, <2>1 DEF Lateness
<1>7. Since \in Nat /\ (~Sleeping => Since' = Since + 1) /\ Since' \in Nat /\ Since' >= 1
  <2>1. (Sleeping => pc = "asleep") /\ pc' = pc
    BY <1>2 DEF Sleeping
  <2>2. PICK i \in Nat, j \in Nat, m \in Nat :
          i = busy /\ j = busy' /\ m = MaxBusy /\ m >= 1 /\ (Sleeping \/ j = i + 1)
    BY <1>2, <1>4
  <2>a. (j = i + 1 => j + 1 = (i + 1) + 1 /\ j + m = (i + m) + 1) /\ j + 1 >= 1 /\ j + m >= 1
        /\ i + 1 \in Nat /\ i + m \in Nat /\ j + 1 \in Nat /\ j + m \in Nat
    <3>1. m >= 1
      BY <2>2
    <3> QED BY ONLY <3>1, i \in Nat, j \in Nat, m \in Nat
  <2>3. CASE pc \in {"finish", "app", "take"}
    <3>1. Since = i /\ Since' = j /\ ~Sleeping
      BY <2>1, <2>2, <2>3 DEF Since
    <3> QED BY <2>2, <3>1
  <2>4. CASE pc = "asleep"
    <3>1. Since = i + 1 /\ Since' = j + 1
      BY <2>1, <2>2, <2>4 DEF Since
    <3> QED BY <2>2, <2>a, <3>1
  <2>5. CASE pc \in {"run", "drain"}
    <3>1. Since = i + m /\ Since' = j + m
      BY <2>1, <2>2, <2>5 DEF Since
    <3> QED BY <2>2, <2>a, <3>1
  <2> QED BY <1>4, <2>3, <2>4, <2>5
<1>8. ASSUME LineStands, quiet' <= quiet + 1 PROVE Recency' /\ Nearing(longest)'
  <2>1. Recency'
    <3>1. HasChunk(fifo)' <=> HasChunk(fifo)
      BY <1>8 DEF LineStands, HasChunk
    <3>2. HasChunk(fifo) => ~Sleeping
      BY DEF LineInv, Sleep, Sleeping
    <3>3. PICK q \in Nat, r \in Nat, n \in Nat :
            q = quiet /\ r = quiet' /\ n = Since /\ r <= q + 1
      BY <1>3, <1>7, <1>8
    <3>4. filling' = filling
      BY <1>8 DEF LineStands
    <3>5. HasChunk(fifo) => Since' = n + 1 /\ IF filling = <<>> THEN q <= n /\ 1 <= n ELSE q + 2 <= n
      BY <1>7, <3>2, <3>3 DEF Recency, DeadInv
    <3>6. Recency' <=> (HasChunk(fifo)' =>
              IF filling' = <<>> THEN quiet' <= Since' /\ 1 <= Since' ELSE quiet' + 2 <= Since')
      BY DEF Recency
    <3>7. /\ q <= n /\ 1 <= n => r <= n + 1 /\ 1 <= n + 1
          /\ q + 2 <= n => r + 2 <= n + 1
      <4>1. r <= q + 1
        BY <3>3
      <4> QED BY ONLY <4>1, q \in Nat, r \in Nat, n \in Nat
    <3> QED BY <3>1, <3>3, <3>4, <3>5, <3>6, <3>7
  <2>2. Nearing(longest)'
    <3>1. (Unseen' <=> Unseen) /\ (a.active => (Resuming' <=> Resuming))
      <4>1. a.line_resumed => pc \in {"drain", "finish"}
        BY <1>4 DEF LineInv, Passing
      <4> QED BY <1>2, <1>8, <4>1 DEF Unseen, Resuming, rx_progress, LineStands
    <3>2. Resuming => pc \in {"drain", "finish"}
      BY <1>4 DEF LineInv, Passing, Resuming
    <3>3. ASSUME a.active PROVE Nearing(longest)'
      <4>1. PICK n \in Int : n = Ahead(a.late) /\ Ahead(a'.late) = n - 1
        BY <1>5, <3>3
      <4>2. PICK q \in Nat, r \in Nat, l \in Nat, m \in Nat, g \in Nat :
              q = quiet /\ r = quiet' /\ r <= q + 1 /\ l = longest /\ m = MaxBusy /\ g = a.lag
        BY <1>3, <1>4, <1>8
      <4>3. PICK hi \in Int, lo \in Int : hi = (2 * l + 4 * m) - 2 /\ lo = (l + 2 * m) - 2
        BY <4>2
      <4>a. /\ n <= l /\ q + n <= hi
            /\ Unseen \/ Resuming => q + n <= lo
            /\ Unseen /\ Resuming => q <= g
        BY <3>3, <4>1, <4>2, <4>3 DEF Nearing, DeadInv
      <4>b. n - 1 <= l /\ r <= q + 1 /\ (q <= g => r <= g + 1)
        BY <4>2, <4>a
      <4>c. r + (n - 1) <= hi /\ (q + n <= lo => r + (n - 1) <= lo)
        BY <4>a, <4>b, SumStands
      <4>4. /\ n - 1 <= l /\ r + (n - 1) <= hi
            /\ Unseen \/ Resuming => r + (n - 1) <= lo
            /\ Unseen /\ Resuming => r <= g + 1
        BY <4>a, <4>b, <4>c
      <4>5. Resuming => a'.lag = g + 1
        BY <1>5, <3>2, <3>3, <4>2
      <4> QED BY <1>2, <3>1, <3>3, <4>1, <4>2, <4>3, <4>4, <4>5 DEF Nearing
    <3> QED BY <1>2, <3>3 DEF Nearing
  <2> QED BY <2>1, <2>2
<1>9. ASSUME NEW chunk \in Seq(Byte) \ {<<>>}, Published(chunk), quiet' <= 1
      PROVE  Recency' /\ Nearing(longest)'
  <2>1. filling' = <<>>
    BY <1>9 DEF Published
  <2>2. Recency'
    BY <1>3, <1>7, <1>9, <2>1 DEF Recency
  <2>3. ~Unseen'
    <3>1. rx_progress' = 0
      BY <2>1 DEF rx_progress
    <3> QED BY <1>2, <1>4, <3>1 DEF Unseen
  <2>4. Resuming => pc \in {"drain", "finish"}
    BY <1>4 DEF LineInv, Passing, Resuming
  <2>5. a.active => (Resuming' => Resuming)
    <3>1. a.line_resumed => pc \in {"drain", "finish"}
      BY <1>4 DEF LineInv, Passing
    <3> QED BY <1>2, <3>1 DEF Resuming
  <2>6. ASSUME a.active PROVE Nearing(longest)'
    <3>1. PICK n \in Int : n = Ahead(a.late) /\ Ahead(a'.late) = n - 1
      BY <1>5, <2>6
    <3>2. PICK q \in Nat, r \in Nat, l \in Nat, m \in Nat :
            q = quiet /\ r = quiet' /\ r <= q + 1 /\ l = longest /\ m = MaxBusy
      BY <1>3, <1>4, <1>9
    <3>3. PICK hi \in Int, lo \in Int : hi = (2 * l + 4 * m) - 2 /\ lo = (l + 2 * m) - 2
      BY <3>2
    <3>4. n <= l /\ q + n <= hi /\ (Resuming => q + n <= lo)
      BY <2>6, <3>1, <3>2, <3>3 DEF Nearing, DeadInv
    <3>5. n - 1 <= l /\ r <= q + 1
      BY <3>2, <3>4
    <3>6. r + (n - 1) <= hi /\ (Resuming => r + (n - 1) <= lo)
      BY <3>4, <3>5, SumStands
    <3> QED BY <1>2, <2>3, <2>5, <2>6, <3>1, <3>2, <3>3, <3>5, <3>6 DEF Nearing
  <2> QED BY <1>2, <2>2, <2>6 DEF Nearing
<1>10. ASSUME NEW b \in Byte, ~deaf, filling' = Append(filling, b), quiet' = 0,
              UNCHANGED <<fifo, deaf, gapPending, notified>>
       PROVE  Recency' /\ Nearing(longest)'
  <2>1. Recency'
    <3>1. HasChunk(fifo)' <=> HasChunk(fifo)
      BY <1>10 DEF HasChunk
    <3>2. HasChunk(fifo) => ~Sleeping /\ Since >= 1
      BY <1>3, <1>7 DEF LineInv, Sleep, Sleeping, Recency, DeadInv
    <3> QED BY <1>7, <1>10, <3>1, <3>2 DEF Recency
  <2>2. ASSUME a.active PROVE Nearing(longest)'
    <3>1. PICK n \in Int : n = Ahead(a.late) /\ Ahead(a'.late) = n - 1
      BY <1>5, <2>2
    <3>2. n <= longest /\ a'.lag \in Nat
      BY <1>2, <2>2, <3>1 DEF Nearing, DeadInv, AdapterRecord
    <3> QED BY <1>4, <1>10, <3>1, <3>2 DEF Nearing
  <2> QED BY <1>2, <2>1, <2>2 DEF Nearing
<1>11. Recency' /\ Nearing(longest)'
  BY <1>3, <1>8, <1>9, <1>10
<1>12. assembling(s') => a'.active
  BY <1>2 DEF DeadInv
<1> QED BY <1>6, <1>11, <1>12 DEF DeadInv

\* Nothing read, nothing under way.
LEMMA NothingAssembles ==
    ASSUME NEW t, NEW w, InFlight(t, w), w = <<>>
    PROVE  ~assembling(t)
<1>1. Len(w) = 0
  OBVIOUS
<1>2. ~Stores(t, w) /\ ~Skips(t, w) /\ t.stage # "Header"
  BY <1>1 DEF Stores, Skips, Expects, Known, InFlight, Gathers, Opening
<1> QED BY <1>1, <1>2 DEF InFlight, Gathers, Opening, assembling

\* Steps that move nothing the invariant speaks of.
LEMMA DeadStays ==
    ASSUME NEW longest, DeadInv(longest), assembling(s') => assembling(s),
           UNCHANGED <<quiet, filling, fifo, deaf, a, pc, timeout, busy>>
    PROVE  DeadInv(longest)'
<1>1. Lateness' /\ Nearing(longest)'
  BY DEF DeadInv, Lateness, Nearing, Unseen, Resuming, Overdue, rx_progress
<1>2. Recency'
  <2>1. HasChunk(fifo)' <=> HasChunk(fifo)
    BY DEF HasChunk
  <2> QED BY <2>1 DEF DeadInv, Recency, Since
<1> QED BY <1>1, <1>2 DEF DeadInv

\* Steps that void the chunk that fills, and put a marker behind it or nothing.
LEMMA DeadVoided ==
    ASSUME LineInv, NEW longest, Prompt(longest), DeadInv(longest), filling' = <<>>,
           HasChunk(fifo)' => HasChunk(fifo), UNCHANGED <<quiet, a, s, pc, timeout, busy>>
    PROVE  DeadInv(longest)'
<1>1. a.last_progress \in Nat /\ quiet \in Nat /\ Since \in Nat
  <2>1. busy \in Nat /\ MaxBusy \in Nat /\ a.last_progress \in Nat /\ quiet \in Nat
    BY PromptNumbers DEF LineInv, LineTypes, AdapterRecord
  <2>2. busy + 1 \in Nat /\ busy + MaxBusy \in Nat
    BY <2>1
  <2> QED BY <2>1, <2>2 DEF Since
<1>2. ~Unseen'
  <2>1. rx_progress' = 0
    BY DEF rx_progress
  <2> QED BY <1>1, <2>1 DEF Unseen
<1>3. Lateness' /\ Nearing(longest)'
  BY <1>2 DEF DeadInv, Lateness, Nearing, Resuming, Overdue
<1>4. Recency'
  <2>1. Since' = Since
    BY DEF Since
  <2>2. HasChunk(fifo) => quiet <= Since /\ 1 <= Since
    BY <1>1 DEF DeadInv, Recency
  <2> QED BY <2>1, <2>2 DEF Recency
<1> QED BY <1>3, <1>4 DEF DeadInv

\* A reception error, another rate.
LEMMA DeadLine ==
    ASSUME LineInv, NEW longest, Prompt(longest), DeadInv(longest),
           LineFault \/ \E r \in Rates : SetRate(r)
    PROVE  DeadInv(longest)'
<1>1. PICK q : q = Append(fifo, <<>>)
  OBVIOUS
<1>2. HasChunk(q) => HasChunk(fifo)
  <2>1. PICK c \in Seq(Byte) : c = <<>>
    <3>1. <<>> \in Seq(Byte)
      OBVIOUS
    <3> QED BY <3>1
  <2>2. q = Append(fifo, c) /\ fifo \in Seq(Seq(Byte))
    BY <1>1, <2>1 DEF LineInv, LineTypes
  <2> QED BY <2>1, <2>2, QueueGrows
<1>3. (fifo' = q \/ fifo' = fifo) /\ filling' = <<>> /\ UNCHANGED <<quiet, a, s, pc, timeout, busy>>
  BY <1>1 DEF LineFault, SetRate, task
<1>4. HasChunk(fifo)' => HasChunk(fifo)
  BY <1>2, <1>3 DEF HasChunk
<1> QED BY <1>3, <1>4, DeadVoided

\* What the wait grants itself is what is left to the deadline, nothing once it is due.
LEMMA waitTicks ==
    ASSUME LineInv, wait, a.active
    PROVE  timeout' \in Nat /\ timeout' <= DeadlineIn(a.late)
<1>1. a.late \in 0 .. Wrap - 1
  BY DEF LineInv, LineTypes, AdapterRecord
<1>2. PICK left \in Nat : left = DeadlineIn(a.late) /\ left = deadline_in_ms
  BY <1>1, DeadlineDrops DEF DeadlineIn, deadline_in_ms
<1>3. \A n \in Nat : ticks_for(n) \in Nat /\ ticks_for(n) <= n
  <2> TAKE n \in Nat
  <2>1. (n * TickRate) \div 1000 = n
    <3>1. (n * 1000) \div 1000 = n
      BY Z3
    <3> QED BY <3>1, LineAssumption
  <2> QED BY <2>1, LineAssumption DEF ticks_for, wake_ticks_for
<1>4. fallback_ms \in Nat
  BY LineAssumption
<1>5. Min({left, fallback_ms}) = IF left <= fallback_ms THEN left ELSE fallback_ms
  BY <1>2, <1>4, SmallerOf
<1>6. PICK n \in Nat : n = Min({left, fallback_ms}) /\ n <= left
  BY <1>2, <1>4, <1>5
<1>7. timeout' = ticks_for(n)
  BY <1>2, <1>6 DEF wait
<1> QED BY <1>2, <1>3, <1>6, <1>7

\* The wait looks at the deadline before it sleeps.
LEMMA DeadWait ==
    ASSUME LineInv, NEW longest, Prompt(longest), DeadInv(longest), wait
    PROVE  DeadInv(longest)'
<1>1. /\ pc = "app" /\ pc' = "take" /\ s' = Begun(s)
      /\ UNCHANGED <<quiet, filling, fifo, deaf, a, busy>>
  BY DEF wait, driver
<1>2. Lateness'
  <2>1. ASSUME a.active PROVE Ahead(a.late) + busy >= timeout'
    <3>1. a.late \in 0 .. Wrap - 1 /\ busy \in Nat
      BY PromptNumbers DEF LineInv, LineTypes, AdapterRecord
    <3>2. PICK n \in Int, k \in Nat, t \in Nat, j \in Nat :
            n = Ahead(a.late) /\ k = DeadlineIn(a.late) /\ t = timeout' /\ j = busy /\ t <= k
      BY <2>1, <3>1, AheadOf, waitTicks
    <3>3. n + j >= 0
      BY <1>1, <2>1, <3>2 DEF DeadInv, Lateness
    <3>4. k = 0 \/ k = n
      BY <3>1, <3>2, AheadOf
    <3>5. n + j >= t
      BY <3>2, <3>3, <3>4
    <3> QED BY <3>2, <3>5
  <2> QED BY <1>1, <2>1 DEF Lateness
<1>3. Recency'
  <2>1. HasChunk(fifo)' <=> HasChunk(fifo)
    BY <1>1 DEF HasChunk
  <2>2. Since' = Since
    BY <1>1 DEF Since
  <2> QED BY <1>1, <2>1, <2>2 DEF DeadInv, Recency
<1>4. Nearing(longest)'
  BY <1>1 DEF DeadInv, Nearing, Unseen, Resuming, Overdue, rx_progress
<1>5. assembling(s') <=> assembling(s)
  BY <1>1, BegunStream DEF LineInv, LineTypes
<1> QED BY <1>1, <1>2, <1>3, <1>4, <1>5 DEF DeadInv

\* The take clears the pass, and the sleep is no longer than the deadline is away.
LEMMA DeadTake ==
    ASSUME LineInv, NEW longest, Prompt(longest), DeadInv(longest), Take
    PROVE  DeadInv(longest)'
<1>1. /\ pc = "take" /\ pc' = (IF notified \/ timeout = 0 THEN "run" ELSE "asleep")
      /\ busy' = 0 /\ timeout' = (IF pc' = "run" THEN 0 ELSE timeout)
      /\ UNCHANGED <<quiet, filling, fifo, deaf, a, s>>
  BY DEF Take
<1>2. /\ busy \in Nat /\ busy <= MaxBusy /\ MaxBusy \in Nat /\ MaxBusy >= 1 /\ timeout \in Nat
      /\ quiet \in Nat /\ a.late \in 0 .. Wrap - 1
  BY PromptNumbers DEF LineInv, LineTypes, AdapterRecord
<1>3. PICK j \in Nat, m \in Nat, t \in Nat, q \in Nat :
        j = busy /\ m = MaxBusy /\ t = timeout /\ q = quiet /\ j <= m /\ m >= 1
  BY <1>2
<1>4. Lateness'
  <2>1. ASSUME a.active
        PROVE  (Ahead(a.late) + 0) + MaxBusy >= timeout /\ (Ahead(a.late) + 0) + MaxBusy >= 0
    <3>1. PICK n \in Int : n = Ahead(a.late)
      BY <1>2, AheadOf
    <3>2. n + j >= t
      BY <1>1, <1>3, <2>1, <3>1 DEF DeadInv, Lateness
    <3>3. (n + 0) + m >= t /\ (n + 0) + m >= 0
      BY <1>3, <3>2
    <3> QED BY <1>3, <3>1, <3>3
  <2> QED BY <1>1, <2>1 DEF Lateness
<1>5. Recency'
  <2>1. HasChunk(fifo)' <=> HasChunk(fifo)
    BY <1>1 DEF HasChunk
  <2>2. ASSUME HasChunk(fifo) PROVE Since' = m
    <3>1. pc' = "run"
      BY <1>1, <2>2 DEF LineInv, Sleep
    <3> QED BY <1>1, <1>3, <3>1 DEF Since
  <2>3. HasChunk(fifo) => IF filling = <<>> THEN q <= j /\ 1 <= j ELSE q + 2 <= j
    BY <1>1, <1>3 DEF DeadInv, Recency, Since
  <2>4. (q <= j => q <= m) /\ (q + 2 <= j => q + 2 <= m)
    <3>1. j <= m
      BY <1>3
    <3> QED BY ONLY <3>1, q \in Nat, j \in Nat, m \in Nat
  <2> QED BY <1>1, <1>3, <2>1, <2>2, <2>3, <2>4 DEF Recency
<1>6. Nearing(longest)'
  BY <1>1 DEF DeadInv, Nearing, Unseen, Resuming, Overdue, rx_progress
<1> QED BY <1>1, <1>4, <1>5, <1>6 DEF DeadInv

\* The wake begins a pass.
LEMMA DeadWake ==
    ASSUME LineInv, NEW longest, Prompt(longest), DeadInv(longest), Wake
    PROVE  DeadInv(longest)'
<1>1. /\ pc = "asleep" /\ pc' = "run" /\ UNCHANGED <<quiet, filling, fifo, deaf, a, s, busy>>
  BY DEF Wake
<1>2. /\ busy \in Nat /\ MaxBusy \in Nat /\ MaxBusy >= 1 /\ timeout \in Nat
      /\ quiet \in Nat /\ a.late \in 0 .. Wrap - 1
  BY PromptNumbers DEF LineInv, LineTypes, AdapterRecord
<1>3. PICK j \in Nat, m \in Nat, t \in Nat, q \in Nat :
        j = busy /\ m = MaxBusy /\ t = timeout /\ q = quiet /\ m >= 1
  BY <1>2
<1>4. Lateness'
  <2>1. ASSUME a.active PROVE (Ahead(a.late) + busy) + MaxBusy >= 0
    <3>1. PICK n \in Int : n = Ahead(a.late)
      BY <1>2, AheadOf
    <3>2. (n + j) + m >= t
      BY <1>1, <1>3, <2>1, <3>1 DEF DeadInv, Lateness
    <3>3. (n + j) + m >= 0
      BY <1>3, <3>2
    <3> QED BY <1>3, <3>1, <3>3
  <2> QED BY <1>1, <2>1 DEF Lateness
<1>5. Recency'
  <2>1. HasChunk(fifo)' <=> HasChunk(fifo)
    BY <1>1 DEF HasChunk
  <2>2. Since' = j + m
    BY <1>1, <1>3 DEF Since
  <2>3. HasChunk(fifo) => IF filling = <<>> THEN q <= j + 1 ELSE q + 2 <= j + 1
    BY <1>1, <1>3 DEF DeadInv, Recency, Since
  <2>4. 1 <= j + m /\ (q <= j + 1 => q <= j + m) /\ (q + 2 <= j + 1 => q + 2 <= j + m)
    <3>1. m >= 1
      BY <1>3
    <3> QED BY ONLY <3>1, q \in Nat, j \in Nat, m \in Nat
  <2> QED BY <1>1, <1>3, <2>1, <2>2, <2>3, <2>4 DEF Recency
<1>6. Nearing(longest)'
  BY <1>1 DEF DeadInv, Nearing, Unseen, Resuming, Overdue, rx_progress
<1> QED BY <1>1, <1>4, <1>5, <1>6 DEF DeadInv

\* What prepare leaves of the adapter.
LEMMA Prepared ==
    ASSUME LineInv, prepare
    PROVE  /\ a'.lag = 0 /\ a'.late = a.late /\ a'.active = a.active
           /\ a.active /\ due(a.late) => a'.last_progress = rx_progress /\ (a'.line_resumed => Unseen)
           /\ ~(a.active /\ due(a.late)) => a'.last_progress = a.last_progress /\ ~a'.line_resumed
<1>1. PICK x0 : x0 = [a EXCEPT !.lag = 0]
  OBVIOUS
<1>8. PICK r : r = Refreshed(x0)
  OBVIOUS
<1>2. /\ x0 \in AdapterRecord /\ x0.lag = 0 /\ x0.late = a.late /\ x0.active = a.active
      /\ x0.last_progress = a.last_progress /\ x0.m_full_chunk_ms = chunk_time_ms(ChunkSize, x0.m_baud)
  BY <1>1 DEF LineInv, LineTypes, Binding, AdapterRecord
<1>3. /\ r \in AdapterRecord /\ r.lag = 0 /\ r.late = a.late /\ r.active = a.active
      /\ r.last_progress = a.last_progress
  BY <1>8, <1>2, RefreshedAdapter DEF LineInv
<1>4. PICK seen, before : seen = rx_progress /\ before = a.last_progress
  OBVIOUS
<1>9. PICK resumed : resumed = (seen > before)
  OBVIOUS
<1>5. a' = IF a.active /\ due(a.late)
           THEN [r EXCEPT !.line_resumed = resumed, !.last_progress = seen]
           ELSE [r EXCEPT !.line_resumed = FALSE]
  <2>1. a' = IF a.active /\ due(a.late)
             THEN [[r EXCEPT !.line_resumed = FALSE]
                     EXCEPT !.line_resumed = (seen > before), !.last_progress = seen]
             ELSE [r EXCEPT !.line_resumed = FALSE]
    BY <1>1, <1>8, <1>4 DEF prepare
  <2>2. (seen > before) = resumed
    BY <1>9
  <2> QED BY <1>3, <2>1, <2>2 DEF AdapterRecord
<1>6. CASE a.active /\ due(a.late)
  <2>1. a' = [r EXCEPT !.line_resumed = resumed, !.last_progress = seen]
    BY <1>5, <1>6
  <2>2. /\ a'.lag = 0 /\ a'.late = a.late /\ a'.active = a.active
        /\ a'.last_progress = seen /\ a'.line_resumed = resumed
    BY <1>3, <2>1 DEF AdapterRecord
  <2> QED BY <1>4, <1>9, <1>6, <2>2 DEF Unseen
<1>7. CASE ~(a.active /\ due(a.late))
  BY <1>3, <1>5, <1>7 DEF AdapterRecord
<1> QED BY <1>6, <1>7

\* prepare: what was not seen is what puts the verdict off.
LEMMA DeadPrepare ==
    ASSUME LineInv, NEW longest, Prompt(longest), DeadInv(longest), prepare
    PROVE  DeadInv(longest)'
<1>1. /\ pc = "run" /\ pc' = "drain" /\ UNCHANGED <<quiet, filling, fifo, deaf, s, busy>>
  BY DEF prepare, driver
<1>2. /\ a'.lag = 0 /\ a'.late = a.late /\ a'.active = a.active
      /\ a.active /\ due(a.late) => a'.last_progress = rx_progress /\ (a'.line_resumed => Unseen)
      /\ ~(a.active /\ due(a.late)) => a'.last_progress = a.last_progress /\ ~a'.line_resumed
  BY Prepared
<1>3. Lateness'
  BY <1>1, <1>2 DEF DeadInv, Lateness
<1>4. Recency'
  <2>1. HasChunk(fifo)' <=> HasChunk(fifo)
    BY <1>1 DEF HasChunk
  <2>2. Since' = Since
    BY <1>1 DEF Since
  <2> QED BY <1>1, <2>1, <2>2 DEF DeadInv, Recency
<1>5. Nearing(longest)'
  <2>1. rx_progress' = rx_progress /\ rx_progress \in Nat
    BY <1>1, LenProperties DEF rx_progress, LineInv, LineTypes
  <2>2. ASSUME a.active PROVE (Unseen' \/ Resuming' => Unseen) /\ ~(Unseen' /\ Resuming')
    <3>1. CASE due(a.late)
      <4>1. ~Unseen'
        BY <1>2, <2>1, <2>2, <3>1 DEF Unseen
      <4> QED BY <1>2, <2>2, <3>1, <4>1 DEF Resuming
    <3>2. CASE ~due(a.late)
      BY <1>2, <2>1, <3>2 DEF Unseen, Resuming
    <3> QED BY <3>1, <3>2
  <2> QED BY <1>1, <1>2, <2>2 DEF DeadInv, Nearing
<1> QED BY <1>1, <1>2, <1>3, <1>4, <1>5 DEF DeadInv

\* The longest deadline.
LEMMA LongestGrant ==
    ASSUME LineInv, a.bound, NEW longest, Prompt(longest)
    PROVE  /\ full_chunk \in 1 .. Wrap \div 2 /\ idle_stale_ms \in 1 .. Wrap \div 2
           /\ full_chunk <= longest /\ idle_stale_ms <= longest
<1>1. a.m_baud \in Rates
  BY DEF LineInv, LineTypes, AdapterRecord, Binding
<1>2. full_chunk <= longest
  BY <1>1 DEF Prompt, full_chunk, LineInv, Binding
<1> QED BY <1>2, FullChunk DEF LineInv, Prompt

\* The end of the drain: an overflow ends the frame, and a chunk claimed is empty.
LEMMA DeadDrained ==
    ASSUME LineInv, FlightInv', NEW longest, Prompt(longest), DeadInv(longest), Drained
    PROVE  DeadInv(longest)'
<1>1. /\ pc = "drain" /\ pc' = "finish" /\ fifo = <<>> /\ deaf' = (baud = 0)
      /\ UNCHANGED <<quiet, filling, fifo, busy>>
  BY DEF Drained
<1>2. Recency'
  BY <1>1 DEF Recency, HasChunk
<1>3. CASE gapPending /\ a.bound
  <2>1. PICK x : x = [a EXCEPT !.last_progress = 0]
    OBVIOUS
  <2>2. x \in AdapterRecord /\ a' = Disarmed(x) /\ trail' = <<>>
    BY <1>3, <2>1 DEF Drained, on_gap, LineInv, LineTypes, AdapterRecord
  <2>3. ~a'.active
    BY <2>2, DisarmedAdapter
  <2>4. ~assembling(s')
    BY <2>2, NothingAssembles DEF FlightInv, Keeps
  <2> QED BY <1>2, <2>3, <2>4 DEF DeadInv, Lateness, Nearing
<1>4. CASE ~(gapPending /\ a.bound)
  <2>1. a' = a /\ s' = Begun(s)
    BY <1>4 DEF Drained
  <2>2. assembling(s') <=> assembling(s)
    BY <2>1, BegunStream DEF LineInv, LineTypes
  <2>3. rx_progress' = rx_progress
    <3>1. CASE deaf
      <4>1. filling = <<>> /\ Len(<<>>) = 0
        BY <3>1 DEF LineInv, Chunks
      <4> QED BY <1>1, <4>1 DEF rx_progress
    <3>2. CASE ~deaf
      BY <1>1, <3>2 DEF rx_progress, LineInv, Binding
    <3> QED BY <3>1, <3>2
  <2>4. Nearing(longest)'
    BY <1>1, <2>1, <2>3 DEF DeadInv, Nearing, Unseen, Resuming, Overdue
  <2>5. Lateness'
    BY <1>1, <2>1 DEF DeadInv, Lateness
  <2> QED BY <1>2, <2>1, <2>2, <2>4, <2>5 DEF DeadInv
<1> QED BY <1>3, <1>4

\* Binding, unbinding and candidates, with no frame under way.
LEMMA DeadBinding ==
    ASSUME LineInv, FlightInv', NEW longest, DeadInv(longest),
           bind \/ unbind \/ \E adu \in Frames \union {<<>>} : Offer(adu)
    PROVE  DeadInv(longest)'
<1>1. UNCHANGED <<quiet, filling, fifo, pc, busy>>
  BY DEF bind, unbind, Offer, driver, task
<1>2. Recency'
  <2>1. HasChunk(fifo)' <=> HasChunk(fifo)
    BY <1>1 DEF HasChunk
  <2> QED BY <1>1, <2>1 DEF DeadInv, Recency, Since
<1>3. a \in AdapterRecord /\ (~a.bound => ~a.active)
  BY DEF LineInv, LineTypes, Binding
<1>4. ~a'.active /\ ~assembling(s')
  <2>1. CASE bind
    <3>1. PICK r : r = Refreshed(a)
      OBVIOUS
    <3>2. r \in AdapterRecord /\ r.active = a.active
      BY <3>1, RefreshedAdapter DEF LineInv, LineTypes, Binding
    <3>3. a' = [r EXCEPT !.bound = TRUE] /\ s' = s /\ ~a.active
      BY <1>3, <2>1, <3>1 DEF bind
    <3> QED BY <3>2, <3>3 DEF AdapterRecord, DeadInv
  <2>2. CASE unbind
    <3>1. PICK r : r = Disarmed(a)
      OBVIOUS
    <3>2. r \in AdapterRecord /\ ~r.active
      BY <1>3, <3>1, DisarmedAdapter
    <3>3. a' = [r EXCEPT !.line_resumed = FALSE, !.last_progress = 0, !.bound = FALSE]
          /\ trail' = <<>>
      BY <2>2, <3>1 DEF unbind, detach
    <3>4. ~a'.active
      BY <3>2, <3>3 DEF AdapterRecord
    <3> QED BY <3>3, <3>4, NothingAssembles DEF FlightInv, Keeps
  <2>3. CASE \E adu \in Frames \union {<<>>} : Offer(adu)
    <3>1. a' = a /\ ~a.bound
      BY <2>3 DEF Offer
    <3>2. trail' = <<>>
      BY <3>1 DEF FlightInv
    <3> QED BY <1>3, <3>1, <3>2, NothingAssembles DEF FlightInv, Keeps
  <2> QED BY <2>1, <2>2, <2>3
<1> QED BY <1>2, <1>4 DEF DeadInv, Lateness, Nearing

\* What a delivery leaves: no frame, or one with a deadline dated by the tick of the pass.
LEMMA DrainGrants ==
    ASSUME LineInv, FlightInv', NEW longest, Prompt(longest), DeadInv(longest), Drain
    PROVE  \/ ~a'.active /\ ~assembling(s')
           \/ /\ a'.active /\ a'.last_progress = 0 /\ ~Overdue' /\ HasChunk(fifo)
              /\ \E d \in Nat : 1 <= d /\ d <= longest /\ Ahead(a'.late) = d - a.lag
<1>1. fifo \in Seq(Seq(Byte)) /\ fifo # <<>> /\ a \in AdapterRecord /\ Delivered(Head(fifo))
  BY DEF Drain, LineInv, LineTypes
<1>2. PICK chunk : chunk = Head(fifo)
  OBVIOUS
<1>3. PICK x : x = [a EXCEPT !.last_progress = 0]
  OBVIOUS
<1>4. x \in AdapterRecord /\ x.last_progress = 0 /\ x.lag = a.lag
  BY <1>1, <1>3 DEF AdapterRecord
<1>5. CASE ~a.bound
  <2>1. UNCHANGED <<a, s>> /\ ~a.active
    BY <1>1, <1>5 DEF Delivered, LineInv, Binding
  <2> QED BY <2>1 DEF DeadInv
<1>6. CASE a.bound /\ chunk = <<>>
  <2>1. a' = Disarmed(x) /\ trail' = <<>>
    BY <1>1, <1>2, <1>3, <1>6 DEF Drain, Delivered, Remembered, on_gap
  <2>2. ~a'.active
    BY <1>4, <2>1, DisarmedAdapter
  <2> QED BY <2>1, <2>2, NothingAssembles DEF FlightInv, Keeps
<1>7. CASE a.bound /\ chunk # <<>>
  <2>1. PICK t, d : /\ t = consume(s, chunk)
                    /\ d = IF Len(chunk) < ChunkSize THEN idle_stale_ms ELSE full_chunk
    OBVIOUS
  <2>2. s' = t /\ a' = IF ~assembling(t) THEN Disarmed(x) ELSE Armed(x, d)
    BY <1>1, <1>2, <1>3, <1>7, <2>1 DEF Delivered, on_rx
  <2>3. CASE ~assembling(t)
    <3>1. ~a'.active
      BY <1>4, <2>2, <2>3, DisarmedAdapter
    <3> QED BY <2>2, <2>3, <3>1
  <2>4. CASE assembling(t)
    <3>1. d \in 1 .. Wrap \div 2 /\ d <= longest
      BY <1>7, <2>1, LongestGrant
    <3>2. x.lag \in 0 .. MaxBusy
      <4>1. a.lag \in Nat /\ a.lag <= MaxBusy /\ MaxBusy \in Nat
        BY Bounds DEF LineInv, LineTypes, AdapterRecord, Passing
      <4> QED BY <1>4, <4>1
    <3>3. a' = Armed(x, d)
      BY <2>2, <2>4
    <3>4. /\ a'.active /\ a'.last_progress = 0 /\ ~due((a'.late - a'.lag) % Wrap)
      <4>1. x.lag <= MaxBusy
        BY <3>2
      <4> QED BY <1>4, <3>1, <3>3, <4>1, ArmedAdapter
    <3>5. ~Overdue'
      BY <3>4 DEF Overdue
    <3>6. Ahead(a'.late) = d - a.lag
      <4>1. PICK late : late = (x.lag - d) % Wrap
        OBVIOUS
      <4>2. a' = [x EXCEPT !.active = TRUE, !.late = late]
        BY <3>3, <4>1 DEF Armed
      <4>3. a'.late = late
        BY <1>4, <4>2 DEF AdapterRecord
      <4>4. Ahead(late) = d - x.lag
        BY <3>1, <3>2, <4>1, AheadArmed
      <4> QED BY <1>4, <4>3, <4>4
    <3>7. HasChunk(fifo)
      <4>1. 1 \in DOMAIN fifo /\ fifo[1] = Head(fifo)
        <5>1. Len(fifo) \in Nat /\ Len(fifo) # 0 /\ DOMAIN fifo = 1 .. Len(fifo)
          BY <1>1, EmptySeq, LenProperties
        <5> QED BY <1>1, <5>1, HeadTailProperties
      <4> QED BY <1>2, <1>7, <4>1 DEF HasChunk
    <3>8. d \in Nat /\ 1 <= d
      BY <3>1, Bounds
    <3> QED BY <3>1, <3>4, <3>5, <3>6, <3>7, <3>8
  <2> QED BY <2>3, <2>4
<1> QED BY <1>5, <1>6, <1>7

\* What is behind the head was in the fifo.
LEMMA ChunkBehind ==
    ASSUME NEW q \in Seq(Seq(Byte)), q # <<>>, HasChunk(Tail(q))
    PROVE  HasChunk(q)
<1>1. /\ Tail(q) \in Seq(Seq(Byte)) /\ Len(Tail(q)) = Len(q) - 1
      /\ \A k \in 1 .. Len(Tail(q)) : Tail(q)[k] = q[k + 1]
  BY HeadTailProperties
<1>2. Len(q) \in Nat /\ DOMAIN q = 1 .. Len(q) /\ DOMAIN Tail(q) = 1 .. Len(Tail(q))
  BY <1>1, LenProperties
<1>3. PICK k \in 1 .. Len(Tail(q)) : Tail(q)[k] # <<>>
  BY <1>2 DEF HasChunk
<1>4. k + 1 \in DOMAIN q /\ q[k + 1] # <<>>
  BY <1>1, <1>2, <1>3
<1> QED BY <1>4 DEF HasChunk

\* A deadline of d ticks granted in a pass that drains what is at most that old.
LEMMA GrantNears ==
    ASSUME NEW q \in Nat, NEW j \in Nat, NEW m \in Nat, NEW l \in Nat, NEW d \in Nat,
           NEW g \in Nat, j <= m, g <= m, 1 <= m, 1 <= d, d <= l, q <= j + m
    PROVE  /\ (d - g) + m >= 0 /\ ((d - g) + j) + m >= 0 /\ d - g <= l
           /\ q + (d - g) <= (2 * l + 4 * m) - 2
           /\ q + 2 <= j + m => q + (d - g) <= (l + 2 * m) - 2
OBVIOUS

\* A delivery.
LEMMA DeadDrain ==
    ASSUME LineInv, FlightInv', NEW longest, Prompt(longest), DeadInv(longest), Drain
    PROVE  DeadInv(longest)'
<1>1. /\ pc = "drain" /\ fifo # <<>> /\ fifo' = Tail(fifo)
      /\ UNCHANGED <<quiet, filling, deaf, pc, busy>>
  BY DEF Drain, task
<1>2. Recency'
  <2>1. HasChunk(fifo)' => HasChunk(fifo)
    <3>1. fifo \in Seq(Seq(Byte))
      BY DEF LineInv, LineTypes
    <3>2. HasChunk(fifo)' => HasChunk(Tail(fifo))
      BY <1>1 DEF HasChunk
    <3> QED BY <1>1, <3>1, <3>2, ChunkBehind
  <2>2. Since' = Since
    BY <1>1 DEF Since
  <2> QED BY <1>1, <2>1, <2>2 DEF DeadInv, Recency
<1>3. CASE ~a'.active /\ ~assembling(s')
  BY <1>2, <1>3 DEF DeadInv, Lateness, Nearing
<1>4. ASSUME a'.active, a'.last_progress = 0, ~Overdue', HasChunk(fifo), NEW d \in Nat, 1 <= d,
             d <= longest, Ahead(a'.late) = d - a.lag
      PROVE  DeadInv(longest)'
  <2>1. /\ a.lag \in Nat /\ a.lag <= MaxBusy /\ busy \in Nat /\ busy <= MaxBusy /\ MaxBusy \in Nat
        /\ quiet \in Nat /\ longest \in Nat /\ 1 <= MaxBusy
    BY PromptNumbers DEF LineInv, LineTypes, AdapterRecord, Passing
  <2>2. PICK q \in Nat, j \in Nat, m \in Nat, l \in Nat, g \in Nat :
          /\ q = quiet /\ j = busy /\ m = MaxBusy /\ l = longest /\ g = a.lag
          /\ j <= m /\ g <= m /\ 1 <= m
    BY <2>1
  <2>3. IF filling = <<>> THEN q <= j + m ELSE q + 2 <= j + m
    BY <1>1, <1>4, <2>2 DEF DeadInv, Recency, Since
  <2>4. q <= j + m
    BY <2>2, <2>3
  <2>5. /\ ((d - g) + j) + m >= 0 /\ d - g <= l
        /\ q + (d - g) <= (2 * l + 4 * m) - 2
        /\ q + 2 <= j + m => q + (d - g) <= (l + 2 * m) - 2
    BY <1>4, <2>2, <2>4, GrantNears
  <2>6. Ahead(a'.late) = d - g
    BY <1>4, <2>2
  <2>7. Lateness'
    BY <1>1, <2>2, <2>5, <2>6 DEF Lateness
  <2>8. Unseen' => q + 2 <= j + m
    <3>1. ASSUME filling = <<>> PROVE ~Unseen'
      <4>1. rx_progress' = 0
        BY <1>1, <3>1 DEF rx_progress
      <4> QED BY <1>4, <4>1 DEF Unseen
    <3> QED BY <1>1, <2>3, <3>1
  <2>9. ~Resuming'
    BY <1>4 DEF Resuming
  <2>10. Nearing(longest)'
    BY <1>1, <2>2, <2>5, <2>6, <2>8, <2>9 DEF Nearing
  <2> QED BY <1>2, <1>4, <2>7, <2>10 DEF DeadInv
<1> QED BY <1>3, <1>4, DrainGrants

\* What the end of the pass leaves: no frame, a deadline anew, or the one not yet missed.
LEMMA FinishGrants ==
    ASSUME LineInv, FlightInv', NEW longest, Prompt(longest), finish
    PROVE  \/ ~a'.active /\ ~assembling(s')
           \/ /\ a'.active = a.active /\ a'.last_progress = a.last_progress /\ ~a'.line_resumed
              /\ assembling(s') <=> assembling(s)
              /\ a.active => \/ Resuming /\ Ahead(a'.late) = full_chunk - a.lag
                                /\ full_chunk \in Nat /\ 1 <= full_chunk /\ full_chunk <= longest
                             \/ ~Overdue /\ a'.late = a.late
<1>1. PICK x : x = [a EXCEPT !.line_resumed = FALSE]
  OBVIOUS
<1>2. /\ x \in AdapterRecord /\ ~x.line_resumed /\ x.lag = a.lag /\ x.late = a.late
      /\ x.active = a.active /\ x.last_progress = a.last_progress
  BY <1>1 DEF LineInv, LineTypes, AdapterRecord
<1>3. PICK verdict \in BOOLEAN : verdict <=> (a.active /\ Overdue /\ ~a.line_resumed)
  OBVIOUS
<1>4. PICK r : r = IF verdict THEN Disarmed(x)
                   ELSE IF a.active /\ Overdue THEN Armed(x, full_chunk) ELSE x
  OBVIOUS
<1>5. /\ a' = [r EXCEPT !.lag = 0] /\ (verdict => trail' = <<>>)
      /\ ~verdict => s' = Begun(s)
  BY <1>1, <1>3, <1>4 DEF finish, Overdue
<1>6. CASE verdict
  <2>1. r \in AdapterRecord /\ ~r.active
    BY <1>2, <1>4, <1>6, DisarmedAdapter
  <2>2. ~a'.active
    BY <1>5, <2>1 DEF AdapterRecord
  <2> QED BY <1>5, <1>6, <2>2, NothingAssembles DEF FlightInv, Keeps
<1>7. CASE ~verdict /\ a.active /\ Overdue
  <2>1. Resuming /\ a.bound
    BY <1>3, <1>7 DEF Resuming, LineInv, Binding
  <2>2. full_chunk \in 1 .. Wrap \div 2 /\ full_chunk <= longest /\ full_chunk \in Nat /\ 1 <= full_chunk
    <3>1. full_chunk \in 1 .. Wrap \div 2 /\ full_chunk <= longest
      BY <2>1, LongestGrant
    <3> QED BY <3>1, Bounds
  <2>3. PICK d : d = full_chunk
    OBVIOUS
  <2>4. x.lag \in 0 .. MaxBusy
    <3>1. a.lag \in Nat /\ a.lag <= MaxBusy /\ MaxBusy \in Nat
      BY Bounds DEF LineInv, LineTypes, AdapterRecord, Passing
    <3> QED BY <1>2, <3>1
  <2>5. PICK late : late = (x.lag - d) % Wrap
    OBVIOUS
  <2>6. r = [x EXCEPT !.active = TRUE, !.late = late]
    BY <1>4, <1>7, <2>3, <2>5 DEF Armed
  <2>7. /\ a'.late = late /\ a'.active = TRUE /\ a'.last_progress = a.last_progress
        /\ ~a'.line_resumed
    <3>1. r = Armed(x, d) /\ x.lag <= MaxBusy /\ d \in 1 .. Wrap \div 2
      BY <2>2, <2>3, <2>4, <2>5, <2>6 DEF Armed
    <3>2. r \in AdapterRecord /\ r.last_progress = x.last_progress /\ r.line_resumed = x.line_resumed
      BY <1>2, <3>1, ArmedAdapter
    <3>3. r.late = late /\ r.active = TRUE
      BY <1>2, <2>6 DEF AdapterRecord
    <3> QED BY <1>2, <1>5, <3>2, <3>3 DEF AdapterRecord
  <2>8. Ahead(late) = d - x.lag
    BY <2>2, <2>3, <2>4, <2>5, AheadArmed
  <2>9. assembling(s') <=> assembling(s)
    BY <1>5, <1>7, BegunStream DEF LineInv, LineTypes
  <2>10. a.active = TRUE
    BY <1>7 DEF LineInv, LineTypes, AdapterRecord
  <2> QED BY <1>2, <2>1, <2>2, <2>3, <2>7, <2>8, <2>9, <2>10
<1>8. CASE ~verdict /\ ~(a.active /\ Overdue)
  <2>1. /\ a'.late = a.late /\ a'.active = a.active /\ a'.last_progress = a.last_progress
        /\ ~a'.line_resumed
    BY <1>2, <1>4, <1>5, <1>8 DEF AdapterRecord
  <2>2. assembling(s') <=> assembling(s)
    BY <1>5, <1>8, BegunStream DEF LineInv, LineTypes
  <2> QED BY <1>8, <2>1, <2>2
<1> QED BY <1>6, <1>7, <1>8

\* A deadline granted for bytes that came after it was missed.
LEMMA RegrantNears ==
    ASSUME NEW q \in Nat, NEW j \in Nat, NEW m \in Nat, NEW l \in Nat, NEW d \in Nat,
           NEW g \in Nat, NEW n \in Int, j <= m, g <= j, 1 <= m, 1 <= d, d <= l,
           (n + j) + m >= 0, q + n <= (l + 2 * m) - 2
    PROVE  /\ (d - g) + j >= 0 /\ d - g <= l
           /\ q + (d - g) <= (2 * l + 4 * m) - 2
           /\ q <= g => q + (d - g) <= (l + 2 * m) - 2
OBVIOUS

\* The verdict, or none.
LEMMA DeadFinish ==
    ASSUME LineInv, FlightInv', NEW longest, Prompt(longest), DeadInv(longest), finish
    PROVE  DeadInv(longest)'
<1>1. /\ pc = "finish" /\ pc' = "app" /\ UNCHANGED <<quiet, filling, fifo, deaf, busy>>
  BY DEF finish, driver
<1>2. Recency'
  <2>1. HasChunk(fifo)' <=> HasChunk(fifo)
    BY <1>1 DEF HasChunk
  <2>2. Since' = Since
    BY <1>1 DEF Since
  <2> QED BY <1>1, <2>1, <2>2 DEF DeadInv, Recency
<1>3. CASE ~a'.active /\ ~assembling(s')
  BY <1>2, <1>3 DEF DeadInv, Lateness, Nearing
<1>4. ASSUME a'.active = a.active, a'.last_progress = a.last_progress, ~a'.line_resumed,
             assembling(s') <=> assembling(s),
             a.active => \/ Resuming /\ Ahead(a'.late) = full_chunk - a.lag
                            /\ full_chunk \in Nat /\ 1 <= full_chunk /\ full_chunk <= longest
                         \/ ~Overdue /\ a'.late = a.late
      PROVE  DeadInv(longest)'
  <2>1. /\ a.lag \in Nat /\ a.lag <= busy /\ busy \in Nat /\ busy <= MaxBusy /\ MaxBusy \in Nat
        /\ quiet \in Nat /\ longest \in Nat /\ 1 <= MaxBusy
    BY <1>1, PromptNumbers DEF LineInv, LineTypes, AdapterRecord, Passing
  <2>2. PICK q \in Nat, j \in Nat, m \in Nat, l \in Nat, g \in Nat :
          /\ q = quiet /\ j = busy /\ m = MaxBusy /\ l = longest /\ g = a.lag
          /\ j <= m /\ g <= j /\ 1 <= m
    BY <2>1
  <2>3. (Unseen' <=> Unseen) /\ ~Resuming'
    BY <1>1, <1>4 DEF Unseen, Resuming, rx_progress
  <2>4. a.late \in 0 .. Wrap - 1 /\ Ahead(a.late) \in Int
    <3>1. a.late \in 0 .. Wrap - 1
      BY DEF LineInv, LineTypes, AdapterRecord
    <3> QED BY <3>1, AheadOf
  <2>5. PICK n \in Int : n = Ahead(a.late)
    BY <2>4
  <2>6. ASSUME a.active PROVE Lateness' /\ Nearing(longest)'
    <3>1. ASSUME Resuming, Ahead(a'.late) = full_chunk - a.lag, full_chunk \in Nat,
                 1 <= full_chunk, full_chunk <= longest
          PROVE  Lateness' /\ Nearing(longest)'
      <4>1. PICK d \in Nat : d = full_chunk /\ 1 <= d /\ d <= l
        BY <2>2, <3>1
      <4>2. (n + j) + m >= 0 /\ q + n <= (l + 2 * m) - 2 /\ (Unseen => q <= g)
        BY <1>1, <2>2, <2>5, <2>6, <3>1 DEF DeadInv, Lateness, Nearing
      <4>3. /\ (d - g) + j >= 0 /\ d - g <= l
            /\ q + (d - g) <= (2 * l + 4 * m) - 2
            /\ q <= g => q + (d - g) <= (l + 2 * m) - 2
        BY <2>2, <4>1, <4>2, RegrantNears
      <4>4. Ahead(a'.late) = d - g
        BY <2>2, <3>1, <4>1
      <4>5. Lateness'
        BY <1>1, <2>2, <4>3, <4>4 DEF Lateness
      <4>6. Nearing(longest)'
        BY <1>1, <2>2, <2>3, <4>2, <4>3, <4>4 DEF Nearing
      <4> QED BY <4>5, <4>6
    <3>2. ASSUME ~Overdue, a'.late = a.late PROVE Lateness' /\ Nearing(longest)'
      <4>1. n + g >= 0
        <5>1. a.lag \in 0 .. MaxBusy
          BY <2>2
        <5>2. ~due((a.late - a.lag) % Wrap)
          BY <3>2 DEF Overdue
        <5> QED BY <2>2, <2>4, <2>5, <5>1, <5>2, MissedInPass
      <4>2. n + j >= 0
        BY <2>2, <4>1
      <4>3. Lateness'
        BY <1>1, <2>2, <2>5, <3>2, <4>2 DEF Lateness
      <4>4. Nearing(longest)'
        BY <1>1, <1>4, <2>3, <3>2 DEF DeadInv, Nearing
      <4> QED BY <4>3, <4>4
    <3> QED BY <1>4, <2>6, <3>1, <3>2
  <2>7. ~a.active => Lateness' /\ Nearing(longest)'
    BY <1>4 DEF Lateness, Nearing
  <2> QED BY <1>2, <1>4, <2>6, <2>7 DEF DeadInv
<1> QED BY <1>3, <1>4, FinishGrants

\* The application's packets, and what does not move at all.
LEMMA DeadPackets ==
    ASSUME LineInv, NEW longest, DeadInv(longest), pop_packet \/ DropPacket \/ UNCHANGED vars
    PROVE  DeadInv(longest)'
<1>1. UNCHANGED <<quiet, filling, fifo, deaf, a, pc, timeout, busy>>
  BY DEF pop_packet, DropPacket, vars, driver, task
<1>2. assembling(s') => assembling(s)
  <2>1. IsStream(s) /\ IsStream(Begun(s)) /\ (assembling(Begun(s)) <=> assembling(s))
    BY BegunStream DEF LineInv, LineTypes
  <2>2. CASE pop_packet
    <3>1. s' = dequeue(Begun(s))
      BY <2>2 DEF pop_packet
    <3> QED BY <2>1, <3>1, DequeueStream
  <2>3. CASE DropPacket
    <3>1. s' = release_rx(Begun(s))
      BY <2>3 DEF DropPacket
    <3> QED BY <2>1, <3>1, ReleaseStream
  <2>4. CASE UNCHANGED vars
    BY <2>4 DEF vars
  <2> QED BY <2>2, <2>3, <2>4
<1> QED BY <1>1, <1>2, DeadStays

\* No frame at first.
LEMMA DeadInit ==
    ASSUME Init, NEW longest
    PROVE  DeadInv(longest)
<1>1. ~a.active
  BY DEF Init, Detached
<1>2. ~HasChunk(fifo)
  <2>1. fifo = <<>> /\ DOMAIN <<>> = {}
    BY DEF Init
  <2> QED BY <2>1 DEF HasChunk
<1>3. ~assembling(s)
  BY DEF Init, NewStream, assembling
<1> QED BY <1>1, <1>2, <1>3 DEF DeadInv, Lateness, Recency, Nearing

\* Every step keeps it.
LEMMA DeadStep ==
    ASSUME LineInv, FlightInv, NEW longest, Prompt(longest), DeadInv(longest), [Next]_vars
    PROVE  DeadInv(longest)'
<1>1. FlightInv'
  BY FlightStep
<1>2. CASE UNCHANGED vars
  BY <1>2, DeadPackets
<1>3. CASE Next
  BY <1>1, <1>3, DeadTick, DeadLine, DeadWait, DeadTake, DeadWake, DeadPrepare, DeadDrain,
     DeadDrained, DeadFinish, DeadBinding, DeadPackets DEF Next
<1> QED BY <1>2, <1>3

\* DeadFramesGo: whatever events of the line are lost, a frame that no byte follows is in
\* flight for less than two of the longest deadlines and six passes: the one it was granted
\* last, and the one granted for bytes the adapter had not seen.  The run's DeadBound is
\* that very number (Adapter::prepare, on_rx, finish, deadline_in_ms).
THEOREM DeadFramesLeave ==
    ASSUME NEW longest, Prompt(longest),
           DeadBound \in Nat, DeadBound >= (2 * longest + 6 * MaxBusy) - 1
    PROVE  Spec => []DeadFramesGo
<1>1. LineInv /\ FlightInv /\ DeadInv(longest) => DeadFramesGo
  <2>1. ASSUME LineInv, DeadInv(longest), assembling(s) PROVE quiet < DeadBound
    <3>1. a.active /\ a.late \in 0 .. Wrap - 1
      BY <2>1 DEF DeadInv, LineInv, LineTypes, AdapterRecord
    <3>2. /\ busy \in Nat /\ busy <= MaxBusy /\ MaxBusy \in Nat
          /\ quiet \in Nat /\ longest \in Nat /\ timeout \in Nat
          /\ pc \in {"app", "take", "asleep", "run", "drain", "finish"}
      BY <2>1, PromptNumbers DEF LineInv, LineTypes
    <3>3. PICK n \in Int, q \in Nat, j \in Nat, m \in Nat, l \in Nat, t \in Nat, k \in Nat :
            /\ n = Ahead(a.late) /\ q = quiet /\ j = busy /\ m = MaxBusy /\ l = longest
            /\ t = timeout /\ j <= m /\ k = DeadBound /\ k >= (2 * l + 6 * m) - 1
      BY <3>1, <3>2, AheadOf
    <3>4. (n + j) + m >= 0
      <4>1. \/ n + j >= 0 \/ n + j >= t \/ (n + j) + m >= t \/ (n + j) + m >= 0
        BY <2>1, <3>1, <3>2, <3>3 DEF DeadInv, Lateness
      <4> QED BY <3>3, <4>1
    <3>5. q + n <= (2 * l + 4 * m) - 2
      BY <2>1, <3>1, <3>3 DEF DeadInv, Nearing
    <3>6. q < k
      BY <3>3, <3>4, <3>5
    <3> QED BY <3>3, <3>6
  <2> QED BY <2>1 DEF DeadFramesGo
<1>2. Init => DeadInv(longest)
  BY DeadInit
<1>3. LineInv /\ FlightInv /\ DeadInv(longest) /\ [Next]_vars => DeadInv(longest)'
  BY DeadStep
<1> QED BY <1>1, <1>2, <1>3, LineInvariant, FlightInvariant, PTL DEF Spec
=============================================================================
