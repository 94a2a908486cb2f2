-------------------------- MODULE CobsEndpointProofs --------------------------
(***************************************************************************)
(* The sending half of cobs keeps its blocks, its payloads and its frames, *)
(* for any endpoints, messages, transports and memory, every format and    *)
(* every sequence of calls.                                                *)
(*                                                                         *)
(* The invariant says who owns each block, and what lies in it: `Lies` is  *)
(* the only thing said of bytes.  Every change of a message replaces its   *)
(* block by itself, by a free one or by none, so that one lemma, Exchanged, *)
(* serves them all.                                                        *)
(***************************************************************************)
EXTENDS CobsEndpointProps, CobsFormatProofs

\* What the CRC policy and the asserts of Layout promise.
PolicyFits ==
    /\ IsFormat(Format)
    /\ \A s \in Seq(Byte) : Checksum(s) \in Seq(Byte) /\ Len(Checksum(s)) = Format.crc_size

Cell == Byte \union {Junk}
Lease == [memory : TxBlocks, granted : GrantSizes]

MessageRecord ==
    [m_storage : Endpoints \union {None}, m_block : {NoGrant} \union Lease,
     m_capacity : 0 .. Max_payload_size, m_size : Nat, m_wire : Nat,
     m_state : {"Empty", "Building", "Encoded"}]

\* s lies in x from offset `at` on.
Lies(x, at, s) ==
    /\ at \in Nat /\ at + Len(s) <= Len(x)
    /\ \A k \in 1 .. Len(s) : x[at + k] = s[k]

\* The message s, to which t was appended, in a block of the bytes x.
Sound(s, t, x) ==
    IF s.m_block = NoGrant THEN s.m_state = "Empty" /\ s.m_size = 0
    ELSE /\ s.m_storage \in Endpoints /\ s.m_state \in {"Building", "Encoded"}
         /\ s.m_size = Len(t) /\ s.m_size <= s.m_capacity
         /\ tx_storage_size_for_capacity(Format, s.m_capacity) <= s.m_block.granted
         /\ Len(x) = s.m_block.granted
         /\ s.m_state = "Building" => Lies(x, payload_of(s.m_capacity), t)
         /\ s.m_state = "Encoded" => Lies(x, FrameBegin(s), Wire(t)) /\ s.m_wire = Len(Wire(t))

Types ==
    /\ alive \subseteq Endpoints
    /\ grant \in [TxBlocks -> [to : Endpoints \union {None}, granted : Nat]]
    /\ mem \in [TxBlocks -> Seq(Cell)]
    /\ msg \in [Messages -> MessageRecord]
    /\ text \in [Messages -> Seq(Byte)]
    /\ m_activeTx \in [Endpoints -> {NoGrant} \union Lease]
    /\ bound \in [Endpoints -> Transports \union {None}]
    /\ DOMAIN reading = Transports

\* The descriptor g is what storage granted to e.
Granted(g, e) == grant[g.memory].to = e /\ grant[g.memory].granted = g.granted

Owners ==
    /\ \A b \in TxBlocks : Len(mem[b]) = grant[b].granted
    /\ \A m \in Messages : msg[m].m_block # NoGrant => Granted(msg[m].m_block, msg[m].m_storage)
    /\ \A e \in Endpoints : m_activeTx[e] # NoGrant => Granted(m_activeTx[e], e)
    /\ \A b \in TxBlocks : grant[b].to = None => grant[b].granted = 0
    /\ \A b \in TxBlocks : grant[b].to # None =>
          \/ \E m \in Messages : msg[m].m_block.memory = b
          \/ \E e \in Endpoints : m_activeTx[e].memory = b

\* No block has two owners.
Apart ==
    /\ \A m, n \in Messages :
          m # n /\ msg[m].m_block # NoGrant => msg[m].m_block.memory # msg[n].m_block.memory
    /\ \A m \in Messages : \A e \in Endpoints :
          msg[m].m_block # NoGrant => msg[m].m_block.memory # m_activeTx[e].memory

Contents == \A m \in Messages : Sound(msg[m], text[m], mem[msg[m].m_block.memory])

\* What a transport reads.
Lent ==
    \A t \in Transports : Busy(t) =>
        LET r == reading[t]
        IN  /\ r.memory \in TxBlocks /\ r.text \in Seq(Byte)
            /\ r.wire = Len(Wire(r.text)) /\ Lies(mem[r.memory], r.begin, Wire(r.text))
            /\ \E e \in Endpoints : m_activeTx[e].memory = r.memory /\ bound[e] = t

EndpointInv == Types /\ Owners /\ Apart /\ Contents /\ Lent

-----------------------------------------------------------------------------
(* Bytes at a place.                                                       *)

\* What lies somewhere is what is read from there.
LEMMA LiesBytes ==
    ASSUME NEW S, NEW x, NEW at, NEW s \in Seq(S), Lies(x, at, s)
    PROVE  SubSeq(x, at + 1, at + Len(s)) = s
<1> DEFINE m == at + 1
           n == at + Len(s) + 1
           y == SubSeq(x, m, n - 1)
<1>1. /\ Len(s) \in Nat /\ at \in Nat
      /\ \A k \in 1 .. Len(s) : x[at + k] = s[k] /\ s[k] \in S
  BY ElementOfSeq DEF Lies
<1>2. /\ m \in Nat /\ n \in Nat /\ m <= n /\ n - m = Len(s) /\ n - 1 = at + Len(s)
      /\ m = at + 1
  BY <1>1
<1>3. \A k \in m .. n - 1 : x[k] \in S
  <2> SUFFICES ASSUME NEW k \in m .. n - 1 PROVE x[k] \in S
    OBVIOUS
  <2>1. k - at \in 1 .. Len(s) /\ at + (k - at) = k
    BY <1>1, <1>2
  <2> QED BY <1>1, <2>1
<1> HIDE DEF m, n
<1>4. y \in Seq(S) /\ Len(y) = Len(s) /\ \A k \in 1 .. Len(s) : y[k] = x[m + k - 1]
  BY <1>2, <1>3, Slice
<1>5. ASSUME NEW k \in 1 .. Len(s) PROVE y[k] = s[k]
  <2>1. m + k - 1 = at + k
    BY <1>1, <1>2
  <2> QED BY <1>1, <1>4, <2>1
<1> HIDE DEF y
<1>6. y = s
  BY <1>4, <1>5, SeqEqual
<1> QED BY <1>2, <1>6 DEF y

\* An overlay is as long as what it is laid over.
LEMMA OverlayType ==
    ASSUME NEW x \in Seq(Cell), NEW s \in Seq(Cell), NEW at \in Nat
    PROVE  /\ Overlay(x, at, s) \in Seq(Cell) /\ Len(Overlay(x, at, s)) = Len(x)
           /\ \A k \in 1 .. Len(x) :
                 Overlay(x, at, s)[k] = IF k - at \in 1 .. Len(s) THEN s[k - at] ELSE x[k]
<1> DEFINE y == Overlay(x, at, s)
<1>1. /\ Len(x) \in Nat /\ Len(s) \in Nat /\ DOMAIN x = 1 .. Len(x) /\ DOMAIN s = 1 .. Len(s)
      /\ (\A k \in 1 .. Len(x) : x[k] \in Cell) /\ \A k \in 1 .. Len(s) : s[k] \in Cell
  OBVIOUS
<1>2. y = [k \in 1 .. Len(x) |-> IF k - at \in 1 .. Len(s) THEN s[k - at] ELSE x[k]]
  BY <1>1 DEF Overlay
<1>3. \A k \in 1 .. Len(x) : (IF k - at \in 1 .. Len(s) THEN s[k - at] ELSE x[k]) \in Cell
  BY <1>1
<1> HIDE DEF y
<1>4. y \in [1 .. Len(x) -> Cell]
  BY <1>2, <1>3
<1>5. y \in Seq(Cell) /\ Len(y) = Len(x)
  BY <1>1, <1>4
<1> QED BY <1>2, <1>5 DEF y

\* What is laid over lies there, when it fits.
LEMMA OverlayLies ==
    ASSUME NEW x \in Seq(Cell), NEW s \in Seq(Cell), NEW at \in Nat, at + Len(s) <= Len(x)
    PROVE  Lies(Overlay(x, at, s), at, s)
<1> DEFINE y == Overlay(x, at, s)
<1>1. /\ Len(x) \in Nat /\ Len(s) \in Nat /\ Len(y) = Len(x)
      /\ \A k \in 1 .. Len(x) : y[k] = IF k - at \in 1 .. Len(s) THEN s[k - at] ELSE x[k]
  BY OverlayType
<1> HIDE DEF y
<1>2. ASSUME NEW k \in 1 .. Len(s) PROVE y[at + k] = s[k]
  <2>1. at + k \in 1 .. Len(x) /\ (at + k) - at = k
    BY <1>1
  <2> QED BY <1>1, <2>1
<1>3. Lies(y, at, s)
  BY <1>1, <1>2 DEF Lies
<1> QED BY <1>3 DEF y

\* What lies in front of an overlay stays.
LEMMA OverlayKeeps ==
    ASSUME NEW x \in Seq(Cell), NEW r \in Seq(Cell), NEW to \in Nat,
           NEW s, Len(s) \in Nat, NEW at, Lies(x, at, s), at + Len(s) <= to
    PROVE  Lies(Overlay(x, to, r), at, s)
<1> DEFINE y == Overlay(x, to, r)
<1>1. /\ Len(x) \in Nat /\ Len(r) \in Nat /\ Len(y) = Len(x)
      /\ \A k \in 1 .. Len(x) : y[k] = IF k - to \in 1 .. Len(r) THEN r[k - to] ELSE x[k]
  BY OverlayType
<1>2. at \in Nat /\ at + Len(s) <= Len(x) /\ \A k \in 1 .. Len(s) : x[at + k] = s[k]
  BY DEF Lies
<1> HIDE DEF y
<1>3. ASSUME NEW k \in 1 .. Len(s) PROVE y[at + k] = s[k]
  <2>1. at + k \in 1 .. Len(x) /\ ~((at + k) - to \in 1 .. Len(r))
    BY <1>1, <1>2
  <2> QED BY <1>1, <1>2, <2>1
<1>4. Lies(y, at, s)
  BY <1>1, <1>2, <1>3 DEF Lies
<1> QED BY <1>4 DEF y

\* Two neighbours are one.
LEMMA LiesTogether ==
    ASSUME NEW x, Len(x) \in Nat, NEW s \in Seq(Byte), NEW r \in Seq(Byte), NEW at,
           Lies(x, at, s), Lies(x, at + Len(s), r)
    PROVE  Lies(x, at, s \o r)
<1> DEFINE z == s \o r
           l == Len(s)
<1>1. /\ Len(z) = l + Len(r) /\ l \in Nat /\ Len(r) \in Nat
      /\ \A k \in 1 .. l + Len(r) : z[k] = IF k <= l THEN s[k] ELSE r[k - l]
  BY ConcatProperties
<1> HIDE DEF z
<1>2. /\ at \in Nat /\ at + l + Len(r) <= Len(x) /\ (\A k \in 1 .. l : x[at + k] = s[k])
      /\ \A k \in 1 .. Len(r) : x[at + l + k] = r[k]
  BY DEF Lies
<1> HIDE DEF l
<1>3. ASSUME NEW k \in 1 .. l + Len(r) PROVE x[at + k] = z[k]
  <2>1. CASE k <= l
    BY <1>1, <1>2, <2>1
  <2>2. CASE ~(k <= l)
    <3>1. k - l \in 1 .. Len(r) /\ at + l + (k - l) = at + k
      BY <1>1, <1>2, <2>2
    <3> QED BY <1>1, <1>2, <2>2, <3>1
  <2> QED BY <2>1, <2>2
<1>4. Lies(x, at, z)
  BY <1>1, <1>2, <1>3 DEF Lies
<1> QED BY <1>4 DEF z

\* Nothing lies anywhere.
LEMMA LiesNothing ==
    ASSUME NEW x, Len(x) \in Nat, NEW at \in Nat, at <= Len(x)
    PROVE  Lies(x, at, <<>>)
BY DEF Lies

LEMMA Cells ==
    /\ \A s \in Seq(Byte) : s \in Seq(Cell)
    /\ \A n \in Nat : Fresh(n) \in Seq(Cell) /\ Len(Fresh(n)) = n
<1>1. Byte \subseteq Cell /\ Junk \in Cell
  BY DEF Cell
<1>2. \A s \in Seq(Byte) : s \in Seq(Cell)
  BY <1>1, SeqMonotonic
<1>3. ASSUME NEW n \in Nat PROVE Fresh(n) \in Seq(Cell) /\ Len(Fresh(n)) = n
  <2>1. Fresh(n) \in [1 .. n -> Cell]
    BY <1>1 DEF Fresh
  <2> QED BY <2>1
<1> QED BY <1>2, <1>3

-----------------------------------------------------------------------------
(* The geometry of a message.                                              *)

\* The headroom never shrinks when the frame grows.
LEMMA OffsetMonotone ==
    ASSUME NEW m \in Nat \ {0}, NEW n \in Nat \ {0}, m <= n
    PROVE  raw_offset(m) <= raw_offset(n)
<1>1. m \in Nat /\ n \in Nat /\ m > 0 /\ n > 0 /\ FullData \in Nat \ {0}
  BY Codes
<1>2. CeilDiv(m, FullData) <= CeilDiv(n, FullData)
      /\ CeilDiv(m, FullData) \in Nat /\ CeilDiv(n, FullData) \in Nat
  BY <1>1, CeilDivMonotone, CeilDivBound
<1>3. raw_offset(m) = CeilDiv(m, FullData) + 1 /\ raw_offset(n) = CeilDiv(n, FullData) + 1
  BY <1>1, Headroom
<1> QED BY <1>2, <1>3

\* A grant that the capacity fits in holds the payload, the frame of it and
\* the work area of its encoder.
LEMMA Geometry ==
    ASSUME PolicyFits, NEW s, s.m_capacity \in Nat, s.m_size \in Nat, s.m_size <= s.m_capacity
    PROVE  LET f == Format
               decoded == decoded_size_for_payload(f, s.m_size)
               whole == tx_storage_size_for_capacity(f, s.m_capacity)
           IN  /\ whole \in Nat
               /\ payload_of(s.m_capacity) \in Nat /\ payload_of(s.m_capacity) + s.m_capacity <= whole
               /\ length_size(f) \in Nat /\ payload_of(s.m_capacity) - length_size(f) \in Nat
               /\ payload_of(s.m_capacity) - length_size(f) + decoded <= whole
               /\ FrameBegin(s) \in Nat /\ FrameBegin(s) + max_wire_size(decoded) <= whole
               /\ decoded \in Nat
<1> DEFINE f == Format
           c == s.m_capacity
           n == s.m_size
           ls == length_size(f)
           dc == decoded_size_for_payload(f, c)
           dn == decoded_size_for_payload(f, n)
           d0 == decoded_size_for_payload(f, 0)
<1>1. /\ ls \in {1, 2} /\ dc \in Nat \ {0} /\ dn \in Nat \ {0} /\ d0 \in Nat
      /\ dc = c + d0 /\ dn = n + d0 /\ ls <= d0 /\ c \in Nat /\ n \in Nat /\ n <= c
  <2>1. IsFormat(f) /\ f.crc_size \in Nat
    BY DEF PolicyFits, IsFormat
  <2>2. ls \in {1, 2}
    BY <2>1, FormatSizes
  <2>3. \A k \in Nat : decoded_size_for_payload(f, k) \in Nat \ {0}
                       /\ decoded_size_for_payload(f, k) = k + decoded_size_for_payload(f, 0)
    BY <2>1, FormatSizes
  <2>4. d0 = ls + 0 + f.crc_size
    BY DEF decoded_size_for_payload
  <2> HIDE DEF f, ls
  <2> QED BY <2>1, <2>2, <2>3, <2>4
<1>2. payload_of(c) = raw_offset(dc) + ls
  BY DEF payload_of, raw_offset_for_capacity
<1>3. tx_storage_size_for_capacity(f, c) = max_wire_size(dc)
  BY DEF tx_storage_size_for_capacity
<1>4. FrameBegin(s) = payload_of(c) - ls - raw_offset(dn)
  BY DEF FrameBegin
<1> HIDE DEF f, c, n, ls, dc, dn, d0
<1>5. /\ max_wire_size(dc) = raw_offset(dc) + dc /\ max_wire_size(dn) = raw_offset(dn) + dn
      /\ raw_offset(dc) \in Nat /\ raw_offset(dn) \in Nat
      /\ raw_offset(dc) >= 2 /\ raw_offset(dn) >= 2
  BY <1>1, Headroom
<1>6. raw_offset(dn) <= raw_offset(dc)
  <2>1. dn <= dc
    BY <1>1
  <2> QED BY <1>1, <2>1, OffsetMonotone
<1> DEFINE oc == raw_offset(dc)
           on == raw_offset(dn)
           whole == max_wire_size(dc)
<1>7. /\ oc \in Nat /\ on \in Nat /\ on <= oc /\ whole = oc + dc /\ max_wire_size(dn) = on + dn
      /\ payload_of(c) = oc + ls /\ FrameBegin(s) = payload_of(c) - ls - on
  BY <1>2, <1>4, <1>5, <1>6
<1> HIDE DEF oc, on, whole
<1>8. /\ whole \in Nat /\ payload_of(c) \in Nat /\ payload_of(c) + c <= whole
      /\ ls \in Nat /\ payload_of(c) - ls \in Nat /\ payload_of(c) - ls + dn <= whole
      /\ FrameBegin(s) \in Nat /\ FrameBegin(s) + max_wire_size(dn) <= whole /\ dn \in Nat
  BY <1>1, <1>7
<1> QED BY <1>3, <1>8 DEF f, c, n, ls, dn, whole

\* A grant that honours a request can hold what was asked for.
LEMMA GrantHolds ==
    ASSUME PolicyFits, NEW n \in Nat, n <= Max_payload_size,
           NEW g \in Grants(tx_storage_size_for_capacity(Format, n))
    PROVE  /\ g \in Lease /\ g.memory \in FreeBlocks /\ g.memory \in TxBlocks /\ g # NoGrant
           /\ g.granted \in Nat
           /\ CapacityOf(g) \in 0 .. Max_payload_size /\ n <= CapacityOf(g)
           /\ tx_storage_size_for_capacity(Format, CapacityOf(g)) <= g.granted
<1> DEFINE f == Format
           c == CapacityOf(g)
           size(k) == tx_storage_size_for_capacity(f, k)
<1>1. /\ g \in [memory : FreeBlocks, granted : GrantSizes] /\ g.granted >= size(n)
  BY DEF Grants, honours
<1>2. g.memory \in FreeBlocks /\ g.granted \in GrantSizes
  BY <1>1
<1>3. g \in Lease /\ g.memory \in TxBlocks /\ g.granted \in Nat
  BY <1>1, <1>2, EndpointAssumption DEF FreeBlocks, Lease
<1>4. g # NoGrant
  BY <1>3, EndpointAssumption DEF NoGrant
<1>5. \A k \in Nat : size(k) \in Nat /\ (0 < k => size(0) < size(k))
                     /\ \A j \in Nat : j < k => size(j) < size(k)
  <2>1. IsFormat(f)
    BY DEF PolicyFits
  <2>2. \A k \in Nat : decoded_size_for_payload(f, k) \in Nat
                       /\ decoded_size_for_payload(f, k) = k + decoded_size_for_payload(f, 0)
    BY <2>1, FormatSizes
  <2>3. \A k \in Nat : \A j \in Nat :
           j < k => decoded_size_for_payload(f, j) < decoded_size_for_payload(f, k)
    BY <2>2
  <2>4. \A k \in Nat : max_wire_size(decoded_size_for_payload(f, k)) \in Nat
    BY <2>2, Headroom
  <2>5. \A k \in Nat : \A j \in Nat :
           j < k => max_wire_size(decoded_size_for_payload(f, j))
                       < max_wire_size(decoded_size_for_payload(f, k))
    BY <2>2, <2>3, WireSizeMonotone
  <2>6. 0 \in Nat
    OBVIOUS
  <2> QED BY <2>4, <2>5, <2>6 DEF tx_storage_size_for_capacity
<1>6. size(0) <= g.granted
  <2>1. size(0) \in Nat /\ size(n) \in Nat /\ (0 < n => size(0) < size(n))
    BY <1>5
  <2> HIDE DEF size
  <2>2. CASE n = 0
    BY <1>1, <1>3, <2>1, <2>2
  <2>3. CASE 0 < n
    BY <1>1, <1>3, <2>1, <2>3
  <2> QED BY <2>2, <2>3
<1>7. /\ c \in 0 .. f.max_send_size /\ size(c) <= g.granted
      /\ c < f.max_send_size => g.granted < size(c + 1)
  <2>1. IsFormat(f)
    BY DEF PolicyFits
  <2> QED BY <1>3, <1>6, <2>1, CapacityIsExactInverse DEF CapacityOf
<1>8. f.max_send_size \in Nat
  BY DEF PolicyFits, IsFormat
<1>9. n <= c
  <2> SUFFICES ASSUME c < n PROVE FALSE
    BY <1>7, <1>8
  <2>1. c \in Nat /\ c < f.max_send_size /\ c + 1 \in Nat /\ c + 1 <= n
    BY <1>7, <1>8 DEF Max_payload_size
  <2>2. size(c + 1) \in Nat /\ size(n) \in Nat /\ (c + 1 < n => size(c + 1) < size(n))
        /\ (c + 1 = n => size(c + 1) = size(n))
    BY <1>5, <2>1
  <2>3. g.granted < size(c + 1)
    BY <1>7, <2>1
  <2> HIDE DEF size, c
  <2> QED BY <1>1, <1>3, <2>1, <2>2, <2>3
<1> QED BY <1>2, <1>3, <1>4, <1>7, <1>9 DEF Max_payload_size

\* What a message grows to holds what is required and stays within the limit.
LEMMA GrowTarget ==
    ASSUME PolicyFits, NEW c \in 0 .. Max_payload_size, NEW n \in 0 .. Max_payload_size
    PROVE  grow_target(c, n) \in Nat /\ n <= grow_target(c, n)
           /\ grow_target(c, n) <= Max_payload_size
<1> DEFINE max == Max_payload_size
           half == c \div 2
           delta == IF half = 0 THEN 1 ELSE half
           headroom == max - c
           grown == c + (IF delta > headroom THEN headroom ELSE delta)
           target == IF n > grown THEN n ELSE grown
<1>1. max \in Nat /\ c \in Nat /\ n \in Nat /\ n <= max /\ c <= max
  BY DEF PolicyFits, IsFormat, Max_payload_size
<1>2. half \in Nat
  BY <1>1
<1> HIDE DEF half
<1>3. delta \in Nat /\ headroom \in Nat
  BY <1>1, <1>2
<1> HIDE DEF delta, headroom
<1>4. grown \in Nat
  BY <1>1, <1>3
<1> HIDE DEF grown
<1>5. target \in Nat /\ n <= target
  BY <1>1, <1>4
<1>6. grow_target(c, n) = IF target > max THEN max ELSE target
  BY DEF grow_target, grown, half, delta, headroom
<1> HIDE DEF target, max
<1>7. grow_target(c, n) \in Nat /\ n <= grow_target(c, n) /\ grow_target(c, n) <= max
  BY <1>1, <1>5, <1>6
<1> QED BY <1>7 DEF max

-----------------------------------------------------------------------------
(* The frame of a payload.                                                 *)

\* What goes into the encoder.
Body(s) == store_length(Format, Len(s) + Format.crc_size) \o s \o Checksum(s)

LEMMA BodyFacts ==
    ASSUME PolicyFits, NEW s \in Seq(Byte)
    PROVE  /\ Body(s) \in Seq(Byte) /\ Len(Body(s)) = decoded_size_for_payload(Format, Len(s))
           /\ Wire(s) = Encoded(Body(s)) \o <<0>>
           /\ Wire(s) \in Seq(Byte)
           /\ Len(Wire(s)) <= max_wire_size(decoded_size_for_payload(Format, Len(s)))
<1> DEFINE f == Format
           n == Len(s) + f.crc_size
           head == store_length(f, n)
           crc == Checksum(s)
           b == Body(s)
           e == Encoded(b)
<1>1. /\ f.crc_size \in Nat /\ Len(s) \in Nat /\ n \in Nat /\ IsFormat(f)
      /\ crc \in Seq(Byte) /\ Len(crc) = f.crc_size
  BY DEF PolicyFits, IsFormat
<1>2. length_size(f) \in {1, 2}
  BY <1>1, FormatSizes
<1>3. head \in Seq(Byte) /\ Len(head) = length_size(f)
  <2> DEFINE q == n \div (FullCode + 1)
             l == length_size(f)
  <2>1. FullCode + 1 \in Nat \ {0} /\ q \in Int
    BY <1>1, FullCodeAssumption
  <2> HIDE DEF q
  <2>2. n % (FullCode + 1) \in Byte /\ q % (FullCode + 1) \in Byte
    <3> DEFINE d == FullCode + 1
    <3>1. d \in Nat \ {0} /\ FullCode = d - 1
      BY FullCodeAssumption
    <3> HIDE DEF d, n
    <3>2. n % d \in 0 .. d - 1 /\ q % d \in 0 .. d - 1
      BY <1>1, <2>1, <3>1
    <3> QED BY <3>1, <3>2 DEF Byte, d
  <2>3. head = [k \in 1 .. l |-> IF k = 1 THEN n % (FullCode + 1) ELSE q % (FullCode + 1)]
    BY DEF store_length, q
  <2> HIDE DEF head, l
  <2>4. head \in [1 .. l -> Byte] /\ l \in Nat
    BY <1>2, <2>2, <2>3 DEF l
  <2> QED BY <2>4 DEF l
<1> HIDE DEF head, crc, n
<1>4. head \o s \in Seq(Byte) /\ Len(head \o s) = Len(head) + Len(s)
  BY <1>3, ConcatProperties
<1>5. b = (head \o s) \o crc
  BY DEF Body, head, crc, n
<1>6. b \in Seq(Byte) /\ Len(b) = Len(head) + Len(s) + Len(crc)
  <2> DEFINE y == head \o s
  <2> HIDE DEF y
  <2>1. y \in Seq(Byte) /\ Len(y) = Len(head) + Len(s) /\ b = y \o crc
    BY <1>4, <1>5 DEF y
  <2> HIDE DEF b
  <2>2. y \o crc \in Seq(Byte) /\ Len(y \o crc) = Len(y) + Len(crc)
    BY <1>1, <2>1, ConcatProperties
  <2> QED BY <2>1, <2>2
<1>7. Len(b) = decoded_size_for_payload(f, Len(s))
  <2>1. decoded_size_for_payload(f, Len(s)) = length_size(f) + Len(s) + f.crc_size
    BY DEF decoded_size_for_payload
  <2> QED BY <1>1, <1>3, <1>6, <2>1
<1>8. Wire(s) = e \o <<0>>
  BY DEF Wire, Body
<1> HIDE DEF b
<1>9. e \in Seq(Byte) /\ Len(e) \in 1 .. max_encoded_size(Len(b))
  BY <1>6, EncodedFacts
<1>10. max_encoded_size(Len(b)) \in Nat /\ max_wire_size(Len(b)) = max_encoded_size(Len(b)) + 1
  <2>1. max_wire_size(Len(b)) \in Nat /\ Len(b) \in Nat
    BY <1>6, Headroom
  <2>2. CeilDiv(Len(b), FullData) \in Nat
    BY <2>1, Codes, CeilDivBound
  <2> QED BY <2>1, <2>2 DEF max_wire_size, max_encoded_size
<1> DEFINE z == <<0>>
<1>11. z \in Seq(Byte) /\ Len(z) = 1
  BY Codes
<1> HIDE DEF e, z
<1>12. e \o z \in Seq(Byte) /\ Len(e \o z) = Len(e) + 1
  <2>1. e \in Seq(Byte) /\ z \in Seq(Byte)
    BY <1>9, <1>11
  <2>2. e \o z \in Seq(Byte) /\ Len(e \o z) = Len(e) + Len(z)
    BY <2>1, ConcatProperties
  <2> QED BY <1>11, <2>2
<1>13. Wire(s) \in Seq(Byte) /\ Len(Wire(s)) <= max_wire_size(Len(b))
  BY <1>8, <1>9, <1>10, <1>12 DEF z
<1> QED BY <1>6, <1>7, <1>8, <1>13 DEF b, e

\* Encoding in the message's own block puts the frame of the payload where the
\* message says it begins; an encoded message has it there already.
LEMMA EncodePlaces ==
    ASSUME PolicyFits, NEW s \in MessageRecord, NEW t \in Seq(Byte), s.m_block # NoGrant,
           mem[s.m_block.memory] \in Seq(Cell), Sound(s, t, mem[s.m_block.memory])
    PROVE  /\ encode(s).bytes \in Seq(Cell)
           /\ Len(encode(s).bytes) = Len(mem[s.m_block.memory])
           /\ Lies(encode(s).bytes, FrameBegin(s), Wire(t))
           /\ encode(s).wire = Len(Wire(t))
<1> DEFINE x == mem[s.m_block.memory]
<1>1. CASE s.m_state = "Encoded"
  <2>1. encode(s) = [bytes |-> x, wire |-> s.m_wire]
    BY <1>1 DEF encode
  <2>2. Lies(x, FrameBegin(s), Wire(t)) /\ s.m_wire = Len(Wire(t))
    BY <1>1 DEF Sound
  <2>3. encode(s).bytes = x /\ encode(s).wire = s.m_wire
    BY <2>1
  <2> QED BY <2>2, <2>3
<1>2. CASE s.m_state # "Encoded"
  <2>1. /\ s.m_state = "Building" /\ s.m_size = Len(t) /\ s.m_size <= s.m_capacity
        /\ s.m_size \in Nat /\ s.m_capacity \in Nat /\ s.m_capacity <= Max_payload_size
        /\ Lies(x, payload_of(s.m_capacity), t)
        /\ tx_storage_size_for_capacity(Format, s.m_capacity) <= s.m_block.granted
        /\ Len(x) = s.m_block.granted /\ s.m_block.granted \in Nat
    <3>1. s.m_state \in {"Building", "Encoded"}
      BY DEF Sound
    <3>2. s.m_block \in Lease /\ s.m_capacity \in 0 .. Max_payload_size /\ s.m_size \in Nat
      BY DEF MessageRecord
    <3>3. s.m_block.granted \in Nat
      BY <3>2, EndpointAssumption DEF Lease
    <3>4. Max_payload_size \in Nat
      BY DEF PolicyFits, IsFormat, Max_payload_size
    <3> QED BY <1>2, <3>1, <3>2, <3>3, <3>4 DEF Sound
  <2>2. Payload(s) = t
    BY <2>1, LiesBytes DEF Payload, Bytes
  <2> DEFINE raw == Body(t)
             wire == Wire(t)
             at == payload_of(s.m_capacity) - length_size(Format)
             written == Overlay(x, at, raw)
             done == Overlay(written, FrameBegin(s), wire)
  <2>3. encode(s) = [bytes |-> done, wire |-> Len(wire)]
    <3>1. raw = store_length(Format, s.m_size + Format.crc_size) \o t \o Checksum(t)
      BY <2>1 DEF Body
    <3>2. wire = Encoded(raw) \o <<0>>
      BY BodyFacts
    <3> HIDE DEF raw, wire
    <3> QED BY <1>2, <2>2, <3>1, <3>2 DEF encode
  <2>4. /\ raw \in Seq(Cell) /\ wire \in Seq(Cell)
        /\ Len(wire) <= max_wire_size(decoded_size_for_payload(Format, Len(t)))
        /\ Len(wire) \in Nat
    <3>1. /\ raw \in Seq(Byte) /\ wire \in Seq(Byte)
          /\ Len(wire) <= max_wire_size(decoded_size_for_payload(Format, Len(t)))
      BY BodyFacts
    <3> HIDE DEF raw, wire
    <3>2. Len(wire) \in Nat
      BY <3>1
    <3> QED BY <3>1, <3>2, Cells
  <2>5. /\ at \in Nat /\ FrameBegin(s) \in Nat
        /\ FrameBegin(s) + max_wire_size(decoded_size_for_payload(Format, s.m_size))
              <= tx_storage_size_for_capacity(Format, s.m_capacity)
        /\ tx_storage_size_for_capacity(Format, s.m_capacity) \in Nat
        /\ max_wire_size(decoded_size_for_payload(Format, s.m_size)) \in Nat
    BY <2>1, Geometry, Headroom
  <2>6. encode(s).bytes = done /\ encode(s).wire = Len(wire)
    BY <2>3
  <2> HIDE DEF raw, wire, at
  <2>7. written \in Seq(Cell) /\ Len(written) = Len(x)
    BY <2>4, <2>5, OverlayType
  <2> HIDE DEF written
  <2>8. FrameBegin(s) + Len(wire) <= Len(written)
    BY <2>1, <2>4, <2>5, <2>7
  <2>9. done \in Seq(Cell) /\ Len(done) = Len(written) /\ Lies(done, FrameBegin(s), wire)
    BY <2>4, <2>5, <2>7, <2>8, OverlayType, OverlayLies
  <2> QED BY <2>6, <2>7, <2>9 DEF wire
<1> QED BY <1>1, <1>2

-----------------------------------------------------------------------------
(* Who holds what.                                                         *)

LEMMA LeaseFacts ==
    ASSUME NEW g \in {NoGrant} \union Lease
    PROVE  /\ g = NoGrant <=> g.memory = None
           /\ g # NoGrant => g \in Lease /\ g.memory \in TxBlocks /\ g.granted \in Nat
           /\ g.memory \in TxBlocks => g # NoGrant
           /\ NoGrant.memory = None /\ None \notin TxBlocks
<1>1. NoGrant.memory = None /\ None \notin TxBlocks /\ GrantSizes \subseteq Nat
  BY EndpointAssumption DEF NoGrant
<1>2. ASSUME g \in Lease
      PROVE  g.memory \in TxBlocks /\ g.granted \in Nat
  BY <1>1, <1>2 DEF Lease
<1> HIDE DEF NoGrant, Lease
<1>3. g = NoGrant \/ g \in Lease
  OBVIOUS
<1> QED BY <1>1, <1>2, <1>3

\* What storage notes of a block.
Entry(e, n) == [to |-> e, granted |-> n]

LEMMA EntryFacts ==
    ASSUME NEW e, NEW n
    PROVE  /\ Entry(e, n).to = e /\ Entry(e, n).granted = n
           /\ e \in Endpoints \union {None} /\ n \in Nat
                => Entry(e, n) \in [to : Endpoints \union {None}, granted : Nat]
BY DEF Entry

\* The blocks of messages and transfers are not free.
LEMMA Held ==
    ASSUME EndpointInv
    PROVE  /\ \A m \in Messages :
                 LET b == msg[m].m_block
                 IN  /\ b # NoGrant <=> b.memory # None
                     /\ b # NoGrant => /\ b.memory \in TxBlocks /\ b.memory \notin FreeBlocks
                                       /\ msg[m].m_storage \in Endpoints /\ b.granted \in Nat
           /\ \A e \in Endpoints :
                 LET b == m_activeTx[e]
                 IN  /\ b # NoGrant <=> b.memory # None
                     /\ b # NoGrant => b.memory \in TxBlocks /\ b.memory \notin FreeBlocks
           /\ None \notin TxBlocks /\ None \notin Endpoints
<1>1. None \notin TxBlocks /\ None \notin Endpoints
  BY EndpointAssumption
<1>2. ASSUME NEW m \in Messages
      PROVE  LET b == msg[m].m_block
             IN  /\ b # NoGrant <=> b.memory # None
                 /\ b # NoGrant => /\ b.memory \in TxBlocks /\ b.memory \notin FreeBlocks
                                   /\ msg[m].m_storage \in Endpoints /\ b.granted \in Nat
  <2> DEFINE b == msg[m].m_block
  <2>1. b \in {NoGrant} \union Lease
    BY DEF EndpointInv, Types, MessageRecord
  <2>2. /\ b # NoGrant <=> b.memory # None
        /\ b # NoGrant => b.memory \in TxBlocks /\ b.granted \in Nat
    BY <2>1, LeaseFacts
  <2>3. ASSUME b # NoGrant PROVE msg[m].m_storage \in Endpoints /\ b.memory \notin FreeBlocks
    <3>1. msg[m].m_storage \in Endpoints
      BY <2>3 DEF EndpointInv, Contents, Sound
    <3>2. grant[b.memory].to = msg[m].m_storage
      BY <2>3 DEF EndpointInv, Owners, Granted
    <3> QED BY <1>1, <3>1, <3>2 DEF FreeBlocks
  <2> QED BY <2>2, <2>3
<1>3. ASSUME NEW e \in Endpoints
      PROVE  LET b == m_activeTx[e]
             IN  /\ b # NoGrant <=> b.memory # None
                 /\ b # NoGrant => b.memory \in TxBlocks /\ b.memory \notin FreeBlocks
  <2> DEFINE b == m_activeTx[e]
  <2>1. b \in {NoGrant} \union Lease
    BY DEF EndpointInv, Types
  <2>2. /\ b # NoGrant <=> b.memory # None
        /\ b # NoGrant => b.memory \in TxBlocks
    BY <2>1, LeaseFacts
  <2>3. ASSUME b # NoGrant PROVE b.memory \notin FreeBlocks
    <3>1. grant[b.memory].to = e
      BY <2>3 DEF EndpointInv, Owners, Granted
    <3> QED BY <1>1, <3>1 DEF FreeBlocks
  <2> QED BY <2>2, <2>3
<1> QED BY <1>1, <1>2, <1>3

\* Storage after an exchange, block by block.
LEMMA Stock ==
    ASSUME NEW old, NEW e, NEW g, NEW x, Restocked(old, e, g, x), NEW b \in TxBlocks
    PROVE  /\ b = g.memory => /\ grant'[b] = Entry(e, g.granted) /\ mem'[b] = x
           /\ b # g.memory /\ b = old.memory
                => grant'[b] = Entry(None, 0) /\ mem'[b] = <<>>
           /\ b # g.memory /\ b # old.memory => grant'[b] = grant[b] /\ mem'[b] = mem[b]
BY DEF Restocked, Entry

LEMMA StockTypes ==
    ASSUME NEW old, NEW e, NEW g, NEW x \in Seq(Cell), Restocked(old, e, g, x), Types,
           g.memory \in TxBlocks => e \in Endpoints /\ g.granted \in Nat
    PROVE  /\ grant' \in [TxBlocks -> [to : Endpoints \union {None}, granted : Nat]]
           /\ mem' \in [TxBlocks -> Seq(Cell)]
<1> DEFINE Account == [to : Endpoints \union {None}, granted : Nat]
<1>1. DOMAIN grant' = TxBlocks /\ DOMAIN mem' = TxBlocks
  BY DEF Restocked
<1>2. ASSUME NEW b \in TxBlocks PROVE grant'[b] \in Account /\ mem'[b] \in Seq(Cell)
  <2>1. CASE b = g.memory
    <3>1. grant'[b] = Entry(e, g.granted) /\ mem'[b] = x
      BY <2>1, Stock
    <3> QED BY <2>1, <3>1, EntryFacts
  <2>2. CASE b # g.memory /\ b = old.memory
    <3>1. grant'[b] = Entry(None, 0) /\ mem'[b] = <<>>
      BY <2>2, Stock
    <3>2. <<>> \in Seq(Cell) /\ 0 \in Nat
      OBVIOUS
    <3> QED BY <3>1, <3>2, EntryFacts
  <2>3. CASE b # g.memory /\ b # old.memory
    <3>1. grant'[b] = grant[b] /\ mem'[b] = mem[b]
      BY <2>3, Stock
    <3> QED BY <3>1 DEF Types
  <2> QED BY <2>1, <2>2, <2>3
<1>3. grant' = [b \in TxBlocks |-> grant'[b]] /\ mem' = [b \in TxBlocks |-> mem'[b]]
  BY DEF Restocked
<1> QED BY <1>2, <1>3

-----------------------------------------------------------------------------
(* Every call on a message.                                                *)

\* The message m becomes s, to which t was appended: its block is the one it
\* had, a free one or none, and holds x.
Exchanges(m, s, t, x) ==
    /\ Restocked(msg[m].m_block, s.m_storage, s.m_block, x)
    /\ s.m_block # NoGrant =>
          \/ s.m_block.memory \in FreeBlocks
          \/ s.m_block = msg[m].m_block /\ s.m_storage = msg[m].m_storage
    /\ msg' = [msg EXCEPT ![m] = s]
    /\ text' = [text EXCEPT ![m] = t]
    /\ UNCHANGED <<alive, m_activeTx, bound, reading>>

\* What is to be shown of every transport after a step.
LEMMA LentStep ==
    ASSUME \A u \in Transports : reading'[u] # None =>
              LET r == reading'[u]
              IN  /\ r.memory \in TxBlocks /\ r.text \in Seq(Byte)
                  /\ r.wire = Len(Wire(r.text))
                  /\ Lies(mem'[r.memory], r.begin, Wire(r.text))
                  /\ \E e \in Endpoints : m_activeTx'[e].memory = r.memory /\ bound'[e] = u
    PROVE  Lent'
BY DEF Lent, Busy, Lies, Wire

LEMMA Exchanged ==
    ASSUME EndpointInv, NEW m \in Messages, NEW s \in MessageRecord, NEW t \in Seq(Byte),
           NEW x \in Seq(Cell), Sound(s, t, x), Exchanges(m, s, t, x)
    PROVE  EndpointInv'
<1> DEFINE old == msg[m].m_block
           new == s.m_block
<1>1. Types /\ Owners /\ Apart /\ Contents /\ Lent
  BY DEF EndpointInv
<1>2. /\ msg' = [msg EXCEPT ![m] = s] /\ text' = [text EXCEPT ![m] = t]
      /\ alive' = alive /\ m_activeTx' = m_activeTx /\ bound' = bound /\ reading' = reading
      /\ Restocked(old, s.m_storage, new, x)
  BY DEF Exchanges
<1>3. /\ msg \in [Messages -> MessageRecord] /\ text \in [Messages -> Seq(Byte)]
      /\ msg'[m] = s /\ text'[m] = t
      /\ \A n \in Messages : n # m => msg'[n] = msg[n] /\ text'[n] = text[n]
  BY <1>1, <1>2 DEF Types
<1>4. /\ new = NoGrant <=> new.memory = None
      /\ new # NoGrant => /\ new.memory \in TxBlocks /\ new.granted \in Nat
                          /\ s.m_storage \in Endpoints
      /\ None \notin TxBlocks /\ None \notin Endpoints
  <2>1. new \in {NoGrant} \union Lease
    BY DEF MessageRecord
  <2>2. new # NoGrant => s.m_storage \in Endpoints
    BY DEF Sound
  <2>3. None \notin Endpoints
    BY EndpointAssumption
  <2> HIDE DEF new
  <2> QED BY <2>1, <2>2, <2>3, LeaseFacts
<1>5. /\ \A n \in Messages : n # m /\ msg[n].m_block # NoGrant =>
            /\ msg[n].m_block.memory \in TxBlocks
            /\ msg[n].m_block.memory # old.memory /\ msg[n].m_block.memory # new.memory
      /\ \A e \in Endpoints : m_activeTx[e] # NoGrant =>
            /\ m_activeTx[e].memory \in TxBlocks
            /\ m_activeTx[e].memory # old.memory /\ m_activeTx[e].memory # new.memory
  <2>1. new # NoGrant => new.memory \in FreeBlocks \/ new.memory = old.memory
    BY DEF Exchanges
  <2>2. ASSUME NEW n \in Messages, n # m, msg[n].m_block # NoGrant
        PROVE  /\ msg[n].m_block.memory \in TxBlocks /\ msg[n].m_block.memory \notin FreeBlocks
               /\ msg[n].m_block.memory # old.memory /\ msg[n].m_block.memory # None
    BY <1>1, <2>2, Held DEF Apart
  <2>3. ASSUME NEW e \in Endpoints, m_activeTx[e] # NoGrant
        PROVE  /\ m_activeTx[e].memory \in TxBlocks /\ m_activeTx[e].memory \notin FreeBlocks
               /\ m_activeTx[e].memory # old.memory /\ m_activeTx[e].memory # None
    <3>1. /\ m_activeTx[e].memory \in TxBlocks /\ m_activeTx[e].memory \notin FreeBlocks
          /\ m_activeTx[e].memory # None
      BY <2>3, Held
    <3>2. old # NoGrant => old.memory # m_activeTx[e].memory
      BY <1>1 DEF Apart
    <3>3. old = NoGrant => old.memory = None
      BY Held
    <3> QED BY <3>1, <3>2, <3>3
  <2> QED BY <1>4, <2>1, <2>2, <2>3
<1>6. \A b \in TxBlocks : b # new.memory /\ b # old.memory => grant'[b] = grant[b] /\ mem'[b] = mem[b]
  BY <1>2, Stock
<1>7. new # NoGrant => /\ grant'[new.memory].to = s.m_storage
                       /\ grant'[new.memory].granted = new.granted /\ mem'[new.memory] = x
  <2> SUFFICES ASSUME new # NoGrant
               PROVE  /\ grant'[new.memory].to = s.m_storage
                      /\ grant'[new.memory].granted = new.granted /\ mem'[new.memory] = x
    OBVIOUS
  <2>1. grant'[new.memory] = Entry(s.m_storage, new.granted) /\ mem'[new.memory] = x
    BY <1>2, <1>4, Stock
  <2> QED BY <2>1, EntryFacts
<1>8. \A b \in TxBlocks : b = old.memory /\ b # new.memory =>
         grant'[b].to = None /\ grant'[b].granted = 0 /\ mem'[b] = <<>>
  <2> SUFFICES ASSUME NEW b \in TxBlocks, b = old.memory, b # new.memory
               PROVE  grant'[b].to = None /\ grant'[b].granted = 0 /\ mem'[b] = <<>>
    OBVIOUS
  <2>1. grant'[b] = Entry(None, 0) /\ mem'[b] = <<>>
    BY <1>2, Stock
  <2> QED BY <2>1, EntryFacts
<1>9. Types'
  <2>1. new.memory \in TxBlocks => s.m_storage \in Endpoints /\ new.granted \in Nat
    BY <1>4
  <2>2. /\ grant' \in [TxBlocks -> [to : Endpoints \union {None}, granted : Nat]]
        /\ mem' \in [TxBlocks -> Seq(Cell)]
    BY <1>1, <1>2, <2>1, StockTypes
  <2>3. msg' \in [Messages -> MessageRecord] /\ text' \in [Messages -> Seq(Byte)]
    BY <1>2, <1>3
  <2> QED BY <1>1, <1>2, <2>2, <2>3 DEF Types
<1>10. Owners'
  <2>1. ASSUME NEW b \in TxBlocks
        PROVE  /\ Len(mem'[b]) = grant'[b].granted
               /\ grant'[b].to = None => grant'[b].granted = 0
               /\ grant'[b].to # None =>
                    \/ \E n \in Messages : msg'[n].m_block.memory = b
                    \/ \E e \in Endpoints : m_activeTx'[e].memory = b
    <3>1. CASE b = new.memory
      <4>1. new # NoGrant
        BY <1>4, <3>1
      <4>2. Len(x) = new.granted
        BY <4>1 DEF Sound
      <4> QED BY <1>3, <1>4, <1>7, <3>1, <4>1, <4>2
    <3>2. CASE b # new.memory /\ b = old.memory
      BY <1>8, <3>2
    <3>3. CASE b # new.memory /\ b # old.memory
      <4>1. grant'[b] = grant[b] /\ mem'[b] = mem[b]
        BY <1>6, <3>3
      <4>2. /\ Len(mem[b]) = grant[b].granted
            /\ grant[b].to = None => grant[b].granted = 0
            /\ grant[b].to # None =>
                 \/ \E n \in Messages : msg[n].m_block.memory = b
                 \/ \E e \in Endpoints : m_activeTx[e].memory = b
        BY <1>1 DEF Owners
      <4>3. \A n \in Messages : msg[n].m_block.memory = b => msg'[n].m_block.memory = b
        BY <1>3, <3>3
      <4> QED BY <1>2, <4>1, <4>2, <4>3
    <3> QED BY <3>1, <3>2, <3>3
  <2>2. ASSUME NEW n \in Messages, msg'[n].m_block # NoGrant
        PROVE  /\ grant'[msg'[n].m_block.memory].to = msg'[n].m_storage
               /\ grant'[msg'[n].m_block.memory].granted = msg'[n].m_block.granted
    <3>1. CASE n = m
      BY <1>3, <1>7, <2>2, <3>1
    <3>2. CASE n # m
      <4>1. Granted(msg[n].m_block, msg[n].m_storage) /\ msg'[n] = msg[n]
        BY <1>1, <1>3, <2>2, <3>2 DEF Owners
      <4>2. grant'[msg[n].m_block.memory] = grant[msg[n].m_block.memory]
        BY <1>5, <1>6, <2>2, <3>2, <4>1
      <4> QED BY <4>1, <4>2 DEF Granted
    <3> QED BY <3>1, <3>2
  <2>3. ASSUME NEW e \in Endpoints, m_activeTx[e] # NoGrant
        PROVE  /\ grant'[m_activeTx[e].memory].to = e
               /\ grant'[m_activeTx[e].memory].granted = m_activeTx[e].granted
    <3>1. grant'[m_activeTx[e].memory] = grant[m_activeTx[e].memory]
      BY <1>5, <1>6, <2>3
    <3>2. Granted(m_activeTx[e], e)
      BY <1>1, <2>3 DEF Owners
    <3> QED BY <3>1, <3>2 DEF Granted
  <2> QED BY <1>2, <2>1, <2>2, <2>3 DEF Owners, Granted
<1>11. Apart'
  <2>1. ASSUME NEW n \in Messages, NEW o \in Messages, n # o, msg'[n].m_block # NoGrant
        PROVE  msg'[n].m_block.memory # msg'[o].m_block.memory
    <3>1. CASE n # m /\ o # m
      BY <1>1, <1>3, <2>1, <3>1 DEF Apart
    <3>2. CASE o = m
      BY <1>3, <1>5, <2>1, <3>2
    <3>3. CASE n = m
      <4>1. CASE msg[o].m_block = NoGrant
        <5>1. msg[o].m_block.memory = None
          BY <4>1, Held
        <5> QED BY <1>3, <1>4, <2>1, <3>3, <5>1
      <4>2. CASE msg[o].m_block # NoGrant
        BY <1>3, <1>5, <2>1, <3>3, <4>2
      <4> QED BY <4>1, <4>2
    <3> QED BY <3>1, <3>2, <3>3
  <2>2. ASSUME NEW n \in Messages, NEW e \in Endpoints, msg'[n].m_block # NoGrant
        PROVE  msg'[n].m_block.memory # m_activeTx[e].memory
    <3>1. CASE n # m
      BY <1>1, <1>3, <2>2, <3>1 DEF Apart
    <3>2. CASE n = m
      <4>1. CASE m_activeTx[e] = NoGrant
        <5>1. m_activeTx[e].memory = None
          BY <4>1, Held
        <5> QED BY <1>3, <1>4, <2>2, <3>2, <5>1
      <4>2. CASE m_activeTx[e] # NoGrant
        BY <1>3, <1>5, <2>2, <3>2, <4>2
      <4> QED BY <4>1, <4>2
    <3> QED BY <3>1, <3>2
  <2> QED BY <1>2, <2>1, <2>2 DEF Apart
<1>12. Contents'
  <2> SUFFICES ASSUME NEW n \in Messages
               PROVE  Sound(msg'[n], text'[n], mem'[msg'[n].m_block.memory])
    BY DEF Contents, Sound, Lies, FrameBegin, Wire, payload_of
  <2>1. CASE n = m
    <3>1. CASE new = NoGrant
      <4>1. Sound(s, t, mem'[new.memory])
        BY <3>1 DEF Sound
      <4> QED BY <1>3, <2>1, <4>1
    <3>2. CASE new # NoGrant
      BY <1>3, <1>7, <2>1, <3>2
    <3> QED BY <3>1, <3>2
  <2>2. CASE n # m
    <3>1. msg'[n] = msg[n] /\ text'[n] = text[n]
      BY <1>3, <2>2
    <3>2. Sound(msg[n], text[n], mem[msg[n].m_block.memory])
      BY <1>1 DEF Contents
    <3>3. CASE msg[n].m_block = NoGrant
      <4>1. Sound(msg[n], text[n], mem'[msg[n].m_block.memory])
        BY <3>2, <3>3 DEF Sound
      <4> QED BY <3>1, <4>1
    <3>4. CASE msg[n].m_block # NoGrant
      <4>1. mem'[msg[n].m_block.memory] = mem[msg[n].m_block.memory]
        BY <1>5, <1>6, <2>2, <3>4
      <4> QED BY <3>1, <3>2, <4>1
    <3> QED BY <3>3, <3>4
  <2> QED BY <2>1, <2>2
<1>13. Lent'
  <2> SUFFICES ASSUME NEW u \in Transports, Busy(u)
               PROVE  LET r == reading[u]
                      IN  /\ r.memory \in TxBlocks /\ r.text \in Seq(Byte)
                          /\ r.wire = Len(Wire(r.text))
                          /\ Lies(mem'[r.memory], r.begin, Wire(r.text))
                          /\ \E e \in Endpoints : m_activeTx[e].memory = r.memory /\ bound[e] = u
    BY <1>2 DEF Lent, Busy, Lies, Wire
  <2> DEFINE r == reading[u]
  <2>1. /\ r.memory \in TxBlocks /\ r.text \in Seq(Byte)
        /\ r.wire = Len(Wire(r.text)) /\ Lies(mem[r.memory], r.begin, Wire(r.text))
    BY <1>1 DEF Lent
  <2>2. PICK e \in Endpoints : m_activeTx[e].memory = r.memory /\ bound[e] = u
    BY <1>1 DEF Lent
  <2>3. m_activeTx[e] # NoGrant
    BY <1>4, <2>1, <2>2, Held
  <2>4. mem'[r.memory] = mem[r.memory]
    BY <1>5, <1>6, <2>1, <2>2, <2>3
  <2> QED BY <2>1, <2>2, <2>4
<1> QED BY <1>9, <1>10, <1>11, <1>12, <1>13 DEF EndpointInv

-----------------------------------------------------------------------------
(* The calls that build a message.                                         *)

Newborn(e, g, c) ==
    [Disowned EXCEPT !.m_storage = e, !.m_block = g, !.m_capacity = c, !.m_state = "Building"]

Hollow(e) == [Disowned EXCEPT !.m_storage = e]

LEMMA RecordFacts ==
    ASSUME PolicyFits, NEW e, NEW g, NEW c
    PROVE  /\ Newborn(e, g, c).m_storage = e /\ Newborn(e, g, c).m_block = g
           /\ Newborn(e, g, c).m_capacity = c /\ Newborn(e, g, c).m_size = 0
           /\ Newborn(e, g, c).m_state = "Building"
           /\ e \in Endpoints /\ g \in Lease /\ c \in 0 .. Max_payload_size
                => Newborn(e, g, c) \in MessageRecord
           /\ Hollow(e).m_storage = e /\ Hollow(e).m_block = NoGrant /\ Hollow(e).m_size = 0
           /\ Hollow(e).m_state = "Empty"
           /\ e \in Endpoints \union {None} => Hollow(e) \in MessageRecord
           /\ Disowned = Hollow(None)
<1>1. Max_payload_size \in Nat /\ 0 \in 0 .. Max_payload_size
  BY DEF PolicyFits, IsFormat, Max_payload_size
<1>2. Newborn(e, g, c) = [m_storage |-> e, m_block |-> g, m_capacity |-> c,
                          m_size |-> 0, m_wire |-> 0, m_state |-> "Building"]
  <2> DEFINE s1 == [Disowned EXCEPT !.m_storage = e]
             s2 == [s1 EXCEPT !.m_block = g]
             s3 == [s2 EXCEPT !.m_capacity = c]
  <2>1. s1 = [m_storage |-> e, m_block |-> NoGrant, m_capacity |-> 0,
              m_size |-> 0, m_wire |-> 0, m_state |-> "Empty"]
    BY DEF Disowned
  <2> HIDE DEF s1
  <2>2. s2 = [m_storage |-> e, m_block |-> g, m_capacity |-> 0,
              m_size |-> 0, m_wire |-> 0, m_state |-> "Empty"]
    BY <2>1
  <2> HIDE DEF s2
  <2>3. s3 = [m_storage |-> e, m_block |-> g, m_capacity |-> c,
              m_size |-> 0, m_wire |-> 0, m_state |-> "Empty"]
    BY <2>2
  <2>4. Newborn(e, g, c) = [s3 EXCEPT !.m_state = "Building"]
    BY DEF Newborn, s3, s2, s1
  <2> HIDE DEF s3
  <2> QED BY <2>3, <2>4
<1>3. Hollow(e) = [m_storage |-> e, m_block |-> NoGrant, m_capacity |-> 0,
                   m_size |-> 0, m_wire |-> 0, m_state |-> "Empty"]
  BY DEF Hollow, Disowned
<1>4. Disowned = Hollow(None)
  BY DEF Hollow, Disowned
<1> HIDE DEF Newborn, Hollow
<1>5. e \in Endpoints /\ g \in Lease /\ c \in 0 .. Max_payload_size
        => Newborn(e, g, c) \in MessageRecord
  BY <1>2 DEF MessageRecord
<1>6. e \in Endpoints \union {None} => Hollow(e) \in MessageRecord
  BY <1>1, <1>3 DEF MessageRecord
<1> QED BY <1>2, <1>3, <1>4, <1>5, <1>6

\* Nothing is granted: whom it was asked for does not matter.
LEMMA RestockedNone ==
    ASSUME NEW old, NEW e, NEW d, Restocked(old, e, NoGrant, <<>>)
    PROVE  Restocked(old, d, NoGrant, <<>>)
<1>1. \A b \in TxBlocks : b # NoGrant.memory
  BY EndpointAssumption DEF NoGrant
<1>2. /\ grant' = [b \in TxBlocks |-> IF b = old.memory THEN [to |-> None, granted |-> 0]
                                      ELSE grant[b]]
      /\ mem' = [b \in TxBlocks |-> IF b = old.memory THEN <<>> ELSE mem[b]]
  BY <1>1 DEF Restocked
<1> QED BY <1>1, <1>2 DEF Restocked

\* A message that holds nothing.
LEMMA HollowKeeps ==
    ASSUME PolicyFits, EndpointInv, NEW m \in Messages, NEW e \in Endpoints \union {None}, NEW d,
           Restocked(msg[m].m_block, d, NoGrant, <<>>),
           msg' = [msg EXCEPT ![m] = Hollow(e)], text' = [text EXCEPT ![m] = <<>>],
           UNCHANGED <<alive, m_activeTx, bound, reading>>
    PROVE  EndpointInv'
<1> DEFINE s == Hollow(e)
           z == <<>>
<1>1. /\ s.m_storage = e /\ s.m_block = NoGrant /\ s.m_size = 0 /\ s.m_state = "Empty"
      /\ s \in MessageRecord
  BY RecordFacts
<1>2. z \in Seq(Byte) /\ z \in Seq(Cell)
  OBVIOUS
<1>3. Restocked(msg[m].m_block, s.m_storage, s.m_block, z)
  BY <1>1, RestockedNone
<1> HIDE DEF s
<1>4. Sound(s, z, z)
  BY <1>1 DEF Sound
<1>5. Exchanges(m, s, z, z)
  BY <1>1, <1>3 DEF Exchanges, s
<1> HIDE DEF z
<1> QED BY <1>1, <1>2, <1>4, <1>5, Exchanged

LEMMA DropKeeps ==
    ASSUME PolicyFits, EndpointInv, NEW m \in Messages, Drop(m)
    PROVE  EndpointInv'
<1>1. Disowned = Hollow(None)
  BY RecordFacts
<1> QED BY <1>1, HollowKeeps DEF Drop

LEMMA MakeKeeps ==
    ASSUME PolicyFits, EndpointInv, NEW m \in Messages, NEW e \in Endpoints, NEW hint \in Hints,
           Make(m, e, hint)
    PROVE  EndpointInv'
<1> DEFINE requested == tx_storage_size_for_capacity(Format, hint)
           old == msg[m].m_block
           z == <<>>
<1>1. text' = [text EXCEPT ![m] = z] /\ UNCHANGED <<alive, m_activeTx, bound, reading>>
  BY DEF Make
<1>2. CASE /\ hint <= Max_payload_size
           /\ \E g \in Grants(requested) :
                /\ Restocked(old, e, g, Fresh(g.granted))
                /\ msg' = [msg EXCEPT ![m] = Newborn(e, g, CapacityOf(g))]
  <2>1. PICK g \in Grants(requested) :
           /\ Restocked(old, e, g, Fresh(g.granted))
           /\ msg' = [msg EXCEPT ![m] = Newborn(e, g, CapacityOf(g))]
    BY <1>2
  <2> DEFINE c == CapacityOf(g)
             s == Newborn(e, g, c)
             x == Fresh(g.granted)
  <2>2. /\ g \in Lease /\ g.memory \in FreeBlocks /\ g # NoGrant /\ g.granted \in Nat
        /\ c \in 0 .. Max_payload_size
        /\ tx_storage_size_for_capacity(Format, c) <= g.granted
    <3>1. hint \in Nat
      BY EndpointAssumption
    <3> QED BY <1>2, <3>1, GrantHolds
  <2>3. /\ s.m_storage = e /\ s.m_block = g /\ s.m_capacity = c /\ s.m_size = 0
        /\ s.m_state = "Building" /\ s \in MessageRecord
    BY <2>2, RecordFacts
  <2>4. Max_payload_size \in Nat /\ c \in Nat
    BY <2>2 DEF PolicyFits, IsFormat, Max_payload_size
  <2>5. /\ x \in Seq(Cell) /\ Len(x) = g.granted /\ z \in Seq(Byte) /\ Len(z) = 0
    BY <2>2, Cells
  <2> HIDE DEF s, c, x
  <2>6. Lies(x, payload_of(c), z)
    <3>1. /\ payload_of(c) \in Nat /\ payload_of(c) + c <= tx_storage_size_for_capacity(Format, c)
          /\ tx_storage_size_for_capacity(Format, c) \in Nat
      BY <2>3, <2>4, Geometry
    <3>2. payload_of(c) <= Len(x) /\ Len(x) \in Nat
      BY <2>2, <2>4, <2>5, <3>1
    <3> QED BY <3>1, <3>2, LiesNothing
  <2>7. Sound(s, z, x)
    BY <2>2, <2>3, <2>4, <2>5, <2>6 DEF Sound
  <2>8. Restocked(old, s.m_storage, s.m_block, x)
    BY <2>1, <2>3 DEF x
  <2>9. Exchanges(m, s, z, x)
    BY <1>1, <2>1, <2>2, <2>3, <2>8 DEF Exchanges, s, c
  <2> HIDE DEF z
  <2> QED BY <2>3, <2>5, <2>7, <2>9, Exchanged
<1>3. CASE /\ Restocked(old, e, NoGrant, z)
           /\ msg' = [msg EXCEPT ![m] = Hollow(IF hint <= Max_payload_size THEN e ELSE None)]
  BY <1>1, <1>3, HollowKeeps
<1> QED BY <1>2, <1>3 DEF Make, Newborn, Hollow
\* In the place p the message s, to which t was appended, keeps t and has room
\* for n bytes.
Fits(s, t, p, n) ==
    /\ p.block \in Lease /\ p.capacity \in 0 .. Max_payload_size
    /\ n <= p.capacity /\ s.m_size <= p.capacity
    /\ tx_storage_size_for_capacity(Format, p.capacity) <= p.block.granted
    /\ p.bytes \in Seq(Cell) /\ Len(p.bytes) = p.block.granted
    /\ Lies(p.bytes, payload_of(p.capacity), t)
    /\ p.block.memory \in FreeBlocks \/ p.block = s.m_block

\* What a message that is being built looks like.
LEMMA BuildingFacts ==
    ASSUME PolicyFits, EndpointInv, NEW m \in Messages, msg[m].m_state = "Building"
    PROVE  LET s == msg[m]
               x == mem[s.m_block.memory]
           IN  /\ s \in MessageRecord /\ s.m_block \in Lease /\ s.m_block # NoGrant
               /\ s.m_storage \in Endpoints
               /\ s.m_size \in Nat /\ s.m_capacity \in Nat /\ s.m_capacity \in 0 .. Max_payload_size
               /\ s.m_size = Len(text[m]) /\ s.m_size <= s.m_capacity
               /\ text[m] \in Seq(Byte) /\ x \in Seq(Cell) /\ Len(x) = s.m_block.granted
               /\ tx_storage_size_for_capacity(Format, s.m_capacity) <= s.m_block.granted
               /\ Lies(x, payload_of(s.m_capacity), text[m]) /\ Payload(s) = text[m]
               /\ Max_payload_size \in Nat
<1> DEFINE s == msg[m]
           x == mem[s.m_block.memory]
<1>1. s \in MessageRecord /\ text[m] \in Seq(Byte)
  BY DEF EndpointInv, Types
<1>2. Sound(s, text[m], x)
  BY DEF EndpointInv, Contents
<1>3. s.m_block # NoGrant
  BY <1>2 DEF Sound
<1>4. s.m_block \in Lease /\ s.m_capacity \in 0 .. Max_payload_size /\ s.m_size \in Nat
  BY <1>1, <1>3 DEF MessageRecord
<1>5. Max_payload_size \in Nat
  BY DEF PolicyFits, IsFormat, Max_payload_size
<1>6. s.m_block.memory \in TxBlocks
  BY <1>3, <1>4, LeaseFacts
<1>7. x \in Seq(Cell)
  BY <1>6 DEF EndpointInv, Types
<1>8. Lies(x, payload_of(s.m_capacity), text[m]) /\ s.m_size = Len(text[m])
      /\ s.m_storage \in Endpoints /\ s.m_size <= s.m_capacity /\ Len(x) = s.m_block.granted
      /\ tx_storage_size_for_capacity(Format, s.m_capacity) <= s.m_block.granted
  BY <1>2, <1>3 DEF Sound
<1>9. Payload(s) = text[m]
  BY <1>1, <1>8, LiesBytes DEF Payload, Bytes
<1> QED BY <1>1, <1>3, <1>4, <1>5, <1>7, <1>8, <1>9

LEMMA PlacesFit ==
    ASSUME PolicyFits, EndpointInv, NEW m \in Messages, msg[m].m_state = "Building",
           NEW n \in Nat, NEW p \in Places(msg[m], n)
    PROVE  Fits(msg[m], text[m], p, n)
<1> DEFINE s == msg[m]
           t == text[m]
           x == mem[s.m_block.memory]
<1>1. /\ s \in MessageRecord /\ s.m_block \in Lease
      /\ s.m_size \in Nat /\ s.m_capacity \in Nat /\ s.m_capacity \in 0 .. Max_payload_size
      /\ s.m_size = Len(t) /\ s.m_size <= s.m_capacity
      /\ t \in Seq(Byte) /\ x \in Seq(Cell) /\ Len(x) = s.m_block.granted
      /\ tx_storage_size_for_capacity(Format, s.m_capacity) <= s.m_block.granted
      /\ Lies(x, payload_of(s.m_capacity), t) /\ Payload(s) = t
      /\ Max_payload_size \in Nat
  BY BuildingFacts
<1> HIDE DEF s, t
<1>2. CASE n <= s.m_capacity
  <2>1. p = [block |-> s.m_block, capacity |-> s.m_capacity, bytes |-> x]
    <3> DEFINE q == [block |-> s.m_block, capacity |-> s.m_capacity, bytes |-> x]
               grown == {[block |-> g, capacity |-> CapacityOf(g), bytes |-> Moved(s, g)] :
                           g \in Grants(tx_storage_size_for_capacity(Format,
                                           grow_target(s.m_capacity, n)))}
               A == n <= s.m_capacity
               B == n > s.m_capacity /\ n <= Max_payload_size
    <3>a. Places(s, n) = CASE A -> {q} [] B -> grown [] OTHER -> {}
      BY DEF Places
    <3>b. A /\ ~B
      BY <1>1, <1>2
    <3> HIDE DEF q, grown, A, B
    <3>1. Places(s, n) = {q}
      BY <3>a, <3>b
    <3> QED BY <3>1 DEF s, q
  <2>2. p.block = s.m_block /\ p.capacity = s.m_capacity /\ p.bytes = x
    BY <2>1
  <2> HIDE DEF x
  <2> QED BY <1>1, <1>2, <2>2 DEF Fits, s, t
<1>3. CASE ~(n <= s.m_capacity)
  <2> DEFINE to == grow_target(s.m_capacity, n)
             asked == tx_storage_size_for_capacity(Format, to)
  <2>1. n > s.m_capacity /\ n <= Max_payload_size
    BY <1>1, <1>3 DEF Places, s
  <2>2. PICK g \in Grants(asked) :
           p = [block |-> g, capacity |-> CapacityOf(g), bytes |-> Moved(s, g)]
    BY <1>3, <2>1 DEF Places, s
  <2> DEFINE c == CapacityOf(g)
             at == payload_of(c)
             y == Fresh(g.granted)
  <2>3. to \in Nat /\ n <= to /\ to <= Max_payload_size
    <3>1. n \in 0 .. Max_payload_size
      BY <1>1, <2>1
    <3> QED BY <1>1, <3>1, GrowTarget
  <2> HIDE DEF to
  <2>4. /\ g \in Lease /\ g.memory \in FreeBlocks /\ g.granted \in Nat
        /\ c \in 0 .. Max_payload_size /\ to <= c
        /\ tx_storage_size_for_capacity(Format, c) <= g.granted
    BY <2>3, GrantHolds
  <2>5. p.block = g /\ p.capacity = c /\ p.bytes = Overlay(y, at, t)
    <3>1. p.block = g /\ p.capacity = c /\ p.bytes = Moved(s, g)
      BY <2>2
    <3> QED BY <1>1, <3>1 DEF Moved
  <2> HIDE DEF c
  <2>6. c \in Nat /\ n <= c /\ s.m_size <= c
    BY <1>1, <2>1, <2>3, <2>4
  <2> DEFINE w == [m_capacity |-> c, m_size |-> 0]
  <2>7. /\ at \in Nat /\ at + c <= tx_storage_size_for_capacity(Format, c)
        /\ tx_storage_size_for_capacity(Format, c) \in Nat
    <3>1. w.m_capacity = c /\ w.m_size = 0
      OBVIOUS
    <3> HIDE DEF w
    <3> QED BY <2>6, <3>1, Geometry
  <2>8. y \in Seq(Cell) /\ Len(y) = g.granted /\ t \in Seq(Cell)
    BY <1>1, <2>4, Cells
  <2> HIDE DEF y, at
  <2>9. at + Len(t) <= Len(y)
    BY <1>1, <2>4, <2>6, <2>7, <2>8
  <2>10. /\ Overlay(y, at, t) \in Seq(Cell) /\ Len(Overlay(y, at, t)) = Len(y)
         /\ Lies(Overlay(y, at, t), at, t)
    BY <2>7, <2>8, <2>9, OverlayType, OverlayLies
  <2> QED BY <2>4, <2>5, <2>6, <2>8, <2>10 DEF Fits, s, t, at
<1> QED BY <1>2, <1>3

LEMMA PlacedKeeps ==
    ASSUME PolicyFits, EndpointInv, NEW m \in Messages, msg[m].m_state = "Building",
           NEW r \in Seq(Byte), NEW p, Fits(msg[m], text[m], p, msg[m].m_size + Len(r)),
           Placed(m, p, r)
    PROVE  EndpointInv'
<1> DEFINE s == msg[m]
           t == text[m]
           c == p.capacity
           at == payload_of(c)
           u == [s EXCEPT !.m_block = p.block, !.m_capacity = c, !.m_size = @ + Len(r)]
           y == Overlay(p.bytes, at + s.m_size, r)
           z == t \o r
<1>1. /\ s \in MessageRecord /\ s.m_state = "Building" /\ s.m_storage \in Endpoints
      /\ s.m_size \in Nat /\ s.m_size = Len(t) /\ t \in Seq(Byte) /\ Max_payload_size \in Nat
      /\ Len(r) \in Nat
  BY BuildingFacts
<1>2. /\ p.block \in Lease /\ c \in 0 .. Max_payload_size /\ c \in Nat
      /\ s.m_size + Len(r) <= c /\ s.m_size <= c
      /\ tx_storage_size_for_capacity(Format, c) <= p.block.granted
      /\ p.bytes \in Seq(Cell) /\ Len(p.bytes) = p.block.granted
      /\ Lies(p.bytes, at, t)
      /\ p.block.memory \in FreeBlocks \/ p.block = s.m_block
      /\ p.block.granted \in Nat /\ p.block # NoGrant
  <2>1. p.block \in Lease
    BY DEF Fits
  <2>2. p.block.granted \in Nat /\ p.block.memory \in TxBlocks
    BY <2>1, EndpointAssumption DEF Lease
  <2>3. p.block # NoGrant
    BY <2>1, <2>2, LeaseFacts
  <2> QED BY <1>1, <2>2, <2>3 DEF Fits
<1>3. /\ u.m_storage = s.m_storage /\ u.m_block = p.block /\ u.m_capacity = c
      /\ u.m_size = s.m_size + Len(r) /\ u.m_wire = s.m_wire /\ u.m_state = "Building"
      /\ u \in MessageRecord
  <2> HIDE DEF c
  <2>1. s.m_size + Len(r) \in Nat
    BY <1>1
  <2> QED BY <1>1, <1>2, <2>1 DEF MessageRecord
<1>4. msg' = [msg EXCEPT ![m] = u] /\ text' = [text EXCEPT ![m] = z]
      /\ UNCHANGED <<alive, m_activeTx, bound, reading>>
      /\ Restocked(s.m_block, u.m_storage, u.m_block, y)
  <2>1. Restocked(s.m_block, u.m_storage, u.m_block, y)
    BY <1>3 DEF Placed
  <2>2. msg \in [Messages -> MessageRecord]
    BY DEF EndpointInv, Types
  <2>3. msg' = [msg EXCEPT ![m] = u]
    BY <1>1, <2>2 DEF Placed, MessageRecord
  <2> QED BY <2>1, <2>3 DEF Placed
<1>5. /\ at \in Nat /\ at + c <= tx_storage_size_for_capacity(Format, c)
      /\ tx_storage_size_for_capacity(Format, c) \in Nat
  <2> HIDE DEF u
  <2> QED BY <1>2, <1>3, <1>1, Geometry
<1> HIDE DEF u, c, at
<1>6. z \in Seq(Byte) /\ Len(z) = s.m_size + Len(r)
  BY <1>1, ConcatProperties
<1>7. y \in Seq(Cell) /\ Len(y) = Len(p.bytes)
      /\ Lies(y, at + Len(t), r) /\ Lies(y, at, t)
  <2>a. r \in Seq(Cell)
    BY Cells
  <2>b. at + s.m_size + Len(r) <= at + c
    BY <1>1, <1>2, <1>5
  <2>c. at + c <= Len(p.bytes)
    BY <1>2, <1>5
  <2>1. r \in Seq(Cell) /\ at + s.m_size \in Nat /\ at + s.m_size = at + Len(t)
        /\ at + s.m_size + Len(r) <= Len(p.bytes) /\ at + Len(t) <= at + s.m_size
    <3> HIDE DEF s, t
    <3>1. Len(p.bytes) \in Nat
      BY <1>2
    <3> QED BY <1>1, <1>2, <1>5, <2>a, <2>b, <2>c, <3>1
  <2>2. y \in Seq(Cell) /\ Len(y) = Len(p.bytes) /\ Lies(y, at + s.m_size, r)
    BY <1>2, <2>1, OverlayType, OverlayLies
  <2>3. Lies(y, at, t)
    BY <1>1, <1>2, <2>1, OverlayKeeps
  <2> QED BY <2>1, <2>2, <2>3
<1> HIDE DEF y
<1>8. Lies(y, at, z)
  <2>1. Len(y) \in Nat
    BY <1>7
  <2> QED BY <1>1, <1>7, <2>1, LiesTogether
<1> HIDE DEF z
<1>9. Sound(u, z, y)
  BY <1>1, <1>2, <1>3, <1>6, <1>7, <1>8 DEF Sound, at
<1>10. Exchanges(m, u, z, y)
  BY <1>2, <1>3, <1>4 DEF Exchanges
<1> QED BY <1>3, <1>6, <1>7, <1>9, <1>10, Exchanged

LEMMA ReserveKeeps ==
    ASSUME PolicyFits, EndpointInv, NEW m \in Messages, NEW n \in Hints, Reserve(m, n)
    PROVE  EndpointInv'
<1>1. msg[m].m_state = "Building" /\ n \in Nat
  BY EndpointAssumption DEF Reserve
<1>2. PICK p \in Places(msg[m], n) : Placed(m, p, <<>>)
  BY DEF Reserve
<1>3. Fits(msg[m], text[m], p, n)
  BY <1>1, PlacesFit
<1> DEFINE z == <<>>
<1>4. z \in Seq(Byte) /\ Len(z) = 0 /\ msg[m].m_size \in Nat
  BY <1>1, BuildingFacts
<1>5. Placed(m, p, z)
  BY <1>2
<1> HIDE DEF z
<1>6. Fits(msg[m], text[m], p, msg[m].m_size + Len(z))
  BY <1>3, <1>4 DEF Fits
<1> QED BY <1>1, <1>4, <1>5, <1>6, PlacedKeeps

LEMMA AppendKeeps ==
    ASSUME PolicyFits, EndpointInv, NEW m \in Messages, NEW s \in Texts, Append_bytes(m, s)
    PROVE  EndpointInv'
<1>1. msg[m].m_state = "Building" /\ s \in Seq(Byte)
  BY EndpointAssumption DEF Append_bytes
<1>2. msg[m].m_size + Len(s) \in Nat
  BY <1>1, BuildingFacts
<1>3. PICK p \in Places(msg[m], msg[m].m_size + Len(s)) : Placed(m, p, s)
  BY DEF Append_bytes
<1>4. Fits(msg[m], text[m], p, msg[m].m_size + Len(s))
  BY <1>1, <1>2, PlacesFit
<1> QED BY <1>1, <1>3, <1>4, PlacedKeeps
-----------------------------------------------------------------------------
(* A message moved over another.                                           *)

LEMMA MoveKeeps ==
    ASSUME PolicyFits, EndpointInv, NEW m \in Messages, NEW n \in Messages, Move(m, n)
    PROVE  EndpointInv'
<1> DEFINE old == msg[m].m_block
           From(k) == IF k = m THEN n ELSE k
<1>1. Types /\ Owners /\ Apart /\ Contents /\ Lent
  BY DEF EndpointInv
<1>2. /\ m # n /\ Restocked(old, None, NoGrant, <<>>)
      /\ msg' = [msg EXCEPT ![m] = msg[n], ![n] = Disowned]
      /\ text' = [text EXCEPT ![m] = text[n], ![n] = <<>>]
      /\ alive' = alive /\ m_activeTx' = m_activeTx /\ bound' = bound /\ reading' = reading
  BY DEF Move
<1>3. /\ Disowned \in MessageRecord /\ Disowned.m_block = NoGrant /\ Disowned.m_size = 0
      /\ Disowned.m_state = "Empty" /\ Disowned.m_block.memory = None
      /\ NoGrant.memory = None /\ None \notin TxBlocks
  <2>1. NoGrant.memory = None /\ None \notin TxBlocks
    BY EndpointAssumption DEF NoGrant
  <2>2. /\ Disowned \in MessageRecord /\ Disowned.m_block = NoGrant /\ Disowned.m_size = 0
        /\ Disowned.m_state = "Empty"
    <3>1. Disowned = Hollow(None)
      BY RecordFacts
    <3>2. /\ Hollow(None) \in MessageRecord /\ Hollow(None).m_block = NoGrant
          /\ Hollow(None).m_size = 0 /\ Hollow(None).m_state = "Empty"
      BY RecordFacts
    <3> QED BY <3>1, <3>2
  <2> QED BY <2>1, <2>2
<1>4. /\ msg'[n] = Disowned
      /\ \A k \in Messages : k # n => /\ From(k) \in Messages /\ From(k) # m
                                      /\ msg'[k] = msg[From(k)] /\ text'[k] = text[From(k)]
      /\ \A k, j \in Messages : k # n /\ j # n /\ k # j => From(k) # From(j)
      /\ \A k \in Messages : k # m => \E j \in Messages : j # n /\ From(j) = k
      /\ msg' \in [Messages -> MessageRecord] /\ text' \in [Messages -> Seq(Byte)]
  <2>1. msg \in [Messages -> MessageRecord] /\ text \in [Messages -> Seq(Byte)] /\ <<>> \in Seq(Byte)
    BY <1>1 DEF Types
  <2>2. /\ msg' \in [Messages -> MessageRecord] /\ text' \in [Messages -> Seq(Byte)]
        /\ msg'[n] = Disowned
        /\ msg'[m] = msg[n] /\ text'[m] = text[n]
        /\ \A k \in Messages : k # m /\ k # n => msg'[k] = msg[k] /\ text'[k] = text[k]
    BY <1>2, <1>3, <2>1
  <2> QED BY <1>2, <2>2
<1> HIDE DEF From
<1>5. /\ \A k \in Messages : k # m /\ msg[k].m_block # NoGrant =>
            msg[k].m_block.memory \in TxBlocks /\ msg[k].m_block.memory # old.memory
      /\ \A e \in Endpoints : m_activeTx[e] # NoGrant =>
            m_activeTx[e].memory \in TxBlocks /\ m_activeTx[e].memory # old.memory
  <2>1. ASSUME NEW k \in Messages, k # m, msg[k].m_block # NoGrant
        PROVE  msg[k].m_block.memory \in TxBlocks /\ msg[k].m_block.memory # old.memory
    BY <1>1, <2>1, Held DEF Apart
  <2>2. ASSUME NEW e \in Endpoints, m_activeTx[e] # NoGrant
        PROVE  m_activeTx[e].memory \in TxBlocks /\ m_activeTx[e].memory # old.memory
    <3>1. m_activeTx[e].memory \in TxBlocks /\ m_activeTx[e].memory # None
      BY <2>2, Held
    <3>2. old # NoGrant => old.memory # m_activeTx[e].memory
      BY <1>1 DEF Apart
    <3> QED BY <1>3, <3>1, <3>2
  <2> QED BY <2>1, <2>2
<1>6. /\ \A b \in TxBlocks : b # old.memory => grant'[b] = grant[b] /\ mem'[b] = mem[b]
      /\ \A b \in TxBlocks : b = old.memory =>
            grant'[b].to = None /\ grant'[b].granted = 0 /\ mem'[b] = <<>>
  <2>1. ASSUME NEW b \in TxBlocks, b = old.memory
        PROVE  grant'[b].to = None /\ grant'[b].granted = 0 /\ mem'[b] = <<>>
    <3>1. grant'[b] = Entry(None, 0) /\ mem'[b] = <<>>
      BY <1>2, <1>3, <2>1, Stock
    <3> QED BY <3>1, EntryFacts
  <2>2. ASSUME NEW b \in TxBlocks, b # old.memory
        PROVE  grant'[b] = grant[b] /\ mem'[b] = mem[b]
    BY <1>2, <1>3, <2>2, Stock
  <2> QED BY <2>1, <2>2
<1>7. Types'
  <2>1. <<>> \in Seq(Cell)
    OBVIOUS
  <2>2. /\ grant' \in [TxBlocks -> [to : Endpoints \union {None}, granted : Nat]]
        /\ mem' \in [TxBlocks -> Seq(Cell)]
    BY <1>1, <1>2, <1>3, <2>1, StockTypes
  <2> QED BY <1>1, <1>2, <1>4, <2>2 DEF Types
<1>8. Owners'
  <2>1. ASSUME NEW b \in TxBlocks
        PROVE  /\ Len(mem'[b]) = grant'[b].granted
               /\ grant'[b].to = None => grant'[b].granted = 0
               /\ grant'[b].to # None =>
                    \/ \E k \in Messages : msg'[k].m_block.memory = b
                    \/ \E e \in Endpoints : m_activeTx'[e].memory = b
    <3>1. CASE b = old.memory
      BY <1>6, <3>1
    <3>2. CASE b # old.memory
      <4>1. grant'[b] = grant[b] /\ mem'[b] = mem[b]
        BY <1>6, <3>2
      <4>2. /\ Len(mem[b]) = grant[b].granted
            /\ grant[b].to = None => grant[b].granted = 0
            /\ grant[b].to # None =>
                 \/ \E k \in Messages : msg[k].m_block.memory = b
                 \/ \E e \in Endpoints : m_activeTx[e].memory = b
        BY <1>1 DEF Owners
      <4>3. ASSUME NEW k \in Messages, msg[k].m_block.memory = b
            PROVE  \E j \in Messages : msg'[j].m_block.memory = b
        <5>1. k # m
          BY <3>2, <4>3
        <5>2. PICK j \in Messages : j # n /\ From(j) = k
          BY <1>4, <5>1
        <5>3. msg'[j] = msg[k]
          BY <1>4, <5>2
        <5> QED BY <4>3, <5>3
      <4> QED BY <1>2, <4>1, <4>2, <4>3
    <3> QED BY <3>1, <3>2
  <2>2. ASSUME NEW k \in Messages, msg'[k].m_block # NoGrant
        PROVE  /\ grant'[msg'[k].m_block.memory].to = msg'[k].m_storage
               /\ grant'[msg'[k].m_block.memory].granted = msg'[k].m_block.granted
    <3>1. k # n
      BY <1>3, <1>4, <2>2
    <3> DEFINE j == From(k)
    <3>2. j \in Messages /\ j # m /\ msg'[k] = msg[j]
      BY <1>4, <3>1
    <3> HIDE DEF j
    <3>3. Granted(msg[j].m_block, msg[j].m_storage)
      BY <1>1, <2>2, <3>2 DEF Owners
    <3>4. grant'[msg[j].m_block.memory] = grant[msg[j].m_block.memory]
      BY <1>5, <1>6, <2>2, <3>2
    <3> QED BY <3>2, <3>3, <3>4 DEF Granted
  <2>3. ASSUME NEW e \in Endpoints, m_activeTx[e] # NoGrant
        PROVE  /\ grant'[m_activeTx[e].memory].to = e
               /\ grant'[m_activeTx[e].memory].granted = m_activeTx[e].granted
    <3>1. grant'[m_activeTx[e].memory] = grant[m_activeTx[e].memory]
      BY <1>5, <1>6, <2>3
    <3>2. Granted(m_activeTx[e], e)
      BY <1>1, <2>3 DEF Owners
    <3> QED BY <3>1, <3>2 DEF Granted
  <2> QED BY <1>2, <2>1, <2>2, <2>3 DEF Owners, Granted
<1>9. Apart'
  <2>1. ASSUME NEW k \in Messages, NEW j \in Messages, k # j, msg'[k].m_block # NoGrant
        PROVE  msg'[k].m_block.memory # msg'[j].m_block.memory
    <3>1. k # n
      BY <1>3, <1>4, <2>1
    <3>2. From(k) \in Messages /\ From(k) # m /\ msg'[k] = msg[From(k)]
      BY <1>4, <3>1
    <3>3. CASE j = n
      BY <1>3, <1>4, <1>5, <2>1, <3>2, <3>3
    <3>4. CASE j # n
      <4>1. From(j) \in Messages /\ msg'[j] = msg[From(j)] /\ From(k) # From(j)
        BY <1>4, <2>1, <3>1, <3>4
      <4> QED BY <1>1, <2>1, <3>2, <4>1 DEF Apart
    <3> QED BY <3>3, <3>4
  <2>2. ASSUME NEW k \in Messages, NEW e \in Endpoints, msg'[k].m_block # NoGrant
        PROVE  msg'[k].m_block.memory # m_activeTx[e].memory
    <3>1. k # n
      BY <1>3, <1>4, <2>2
    <3>2. From(k) \in Messages /\ msg'[k] = msg[From(k)]
      BY <1>4, <3>1
    <3> QED BY <1>1, <2>2, <3>2 DEF Apart
  <2> QED BY <1>2, <2>1, <2>2 DEF Apart
<1>10. Contents'
  <2> SUFFICES ASSUME NEW k \in Messages
               PROVE  Sound(msg'[k], text'[k], mem'[msg'[k].m_block.memory])
    BY DEF Contents, Sound, Lies, FrameBegin, Wire, payload_of
  <2>1. CASE k = n
    BY <1>3, <1>4, <2>1 DEF Sound
  <2>2. CASE k # n
    <3> DEFINE j == From(k)
    <3>1. j \in Messages /\ j # m /\ msg'[k] = msg[j] /\ text'[k] = text[j]
      BY <1>4, <2>2
    <3> HIDE DEF j
    <3>2. Sound(msg[j], text[j], mem[msg[j].m_block.memory])
      BY <1>1, <3>1 DEF Contents
    <3>3. CASE msg[j].m_block = NoGrant
      <4>1. Sound(msg[j], text[j], mem'[msg[j].m_block.memory])
        BY <3>2, <3>3 DEF Sound
      <4> QED BY <3>1, <4>1
    <3>4. CASE msg[j].m_block # NoGrant
      <4>1. mem'[msg[j].m_block.memory] = mem[msg[j].m_block.memory]
        BY <1>5, <1>6, <3>1, <3>4
      <4> QED BY <3>1, <3>2, <4>1
    <3> QED BY <3>3, <3>4
  <2> QED BY <2>1, <2>2
<1>11. Lent'
  <2>a. m_activeTx' = m_activeTx /\ bound' = bound /\ reading' = reading
    BY <1>2
  <2> SUFFICES ASSUME NEW u \in Transports, reading[u] # None
               PROVE  LET r == reading[u]
                      IN  /\ r.memory \in TxBlocks /\ r.text \in Seq(Byte)
                          /\ r.wire = Len(Wire(r.text))
                          /\ Lies(mem'[r.memory], r.begin, Wire(r.text))
                          /\ \E e \in Endpoints : m_activeTx[e].memory = r.memory /\ bound[e] = u
    BY <2>a, LentStep
  <2> DEFINE r == reading[u]
  <2>1. /\ r.memory \in TxBlocks /\ r.text \in Seq(Byte)
        /\ r.wire = Len(Wire(r.text)) /\ Lies(mem[r.memory], r.begin, Wire(r.text))
    BY <1>1 DEF Lent, Busy
  <2>2. PICK e \in Endpoints : m_activeTx[e].memory = r.memory /\ bound[e] = u
    BY <1>1 DEF Lent, Busy
  <2>3. m_activeTx[e] # NoGrant
    BY <1>3, <2>1, <2>2
  <2>4. mem'[r.memory] = mem[r.memory]
    BY <1>5, <1>6, <2>1, <2>2, <2>3
  <2> QED BY <2>1, <2>2, <2>4
<1> QED BY <1>7, <1>8, <1>9, <1>10, <1>11 DEF EndpointInv
-----------------------------------------------------------------------------
(* Sending.                                                                *)

\* What send finds in a message it accepts, and what the encoder leaves there.
LEMMA AcceptedFacts ==
    ASSUME PolicyFits, EndpointInv, NEW e \in Endpoints, NEW m \in Messages, Accepts(e, m)
    PROVE  LET s == msg[m]
               block == s.m_block
               frame == encode(s)
           IN  /\ s \in MessageRecord /\ block \in Lease /\ block # NoGrant
               /\ block.memory \in TxBlocks
               /\ s.m_storage = e /\ m_activeTx[e] = NoGrant /\ reading[bound[e]] = None
               /\ bound[e] \in Transports
               /\ Sound(s, text[m], mem[block.memory]) /\ text[m] \in Seq(Byte)
               /\ frame.bytes \in Seq(Cell) /\ Len(frame.bytes) = Len(mem[block.memory])
               /\ Lies(frame.bytes, FrameBegin(s), Wire(text[m]))
               /\ frame.wire = Len(Wire(text[m])) /\ frame.wire \in Nat
               /\ \A n \in Messages : n # m /\ msg[n].m_block # NoGrant =>
                     msg[n].m_block.memory \in TxBlocks /\ msg[n].m_block.memory # block.memory
               /\ \A d \in Endpoints : m_activeTx[d].memory # block.memory
<1> DEFINE s == msg[m]
           block == s.m_block
           t == text[m]
           x == mem[block.memory]
<1>1. /\ block # NoGrant /\ s.m_storage = e /\ m_activeTx[e] = NoGrant
      /\ reading[bound[e]] = None /\ bound[e] # None
  BY DEF Accepts, Busy
<1>2. s \in MessageRecord /\ t \in Seq(Byte) /\ bound[e] \in Transports
  BY <1>1 DEF EndpointInv, Types
<1>3. block \in Lease /\ s.m_capacity \in 0 .. Max_payload_size /\ s.m_size \in Nat
  BY <1>1, <1>2 DEF MessageRecord
<1>4. block.memory \in TxBlocks
  BY <1>1, <1>3, LeaseFacts
<1>5. Sound(s, t, x)
  BY DEF EndpointInv, Contents
<1>6. x \in Seq(Cell)
  BY <1>4 DEF EndpointInv, Types
<1>7. /\ encode(s).bytes \in Seq(Cell) /\ Len(encode(s).bytes) = Len(x)
      /\ Lies(encode(s).bytes, FrameBegin(s), Wire(t)) /\ encode(s).wire = Len(Wire(t))
  BY <1>1, <1>2, <1>5, <1>6, EncodePlaces
<1>8. Len(Wire(t)) \in Nat
  <2>1. Wire(t) \in Seq(Byte)
    BY <1>2, BodyFacts
  <2> QED BY <2>1
<1>9. ASSUME NEW n \in Messages, n # m, msg[n].m_block # NoGrant
      PROVE  msg[n].m_block.memory \in TxBlocks /\ msg[n].m_block.memory # block.memory
  BY <1>9, Held DEF EndpointInv, Apart
<1>10. \A d \in Endpoints : m_activeTx[d].memory # block.memory
  BY <1>1 DEF EndpointInv, Apart
<1> QED BY <1>1, <1>2, <1>3, <1>4, <1>5, <1>7, <1>8, <1>9, <1>10

\* Only the bytes of one message's block change.
LEMMA OthersKeep ==
    ASSUME Contents, NEW m \in Messages, NEW n \in Messages, n # m,
           msg[n].m_block # NoGrant => mem'[msg[n].m_block.memory] = mem[msg[n].m_block.memory]
    PROVE  Sound(msg[n], text[n], mem'[msg[n].m_block.memory])
<1>1. Sound(msg[n], text[n], mem[msg[n].m_block.memory])
  BY DEF Contents
<1>2. CASE msg[n].m_block = NoGrant
  BY <1>1, <1>2 DEF Sound
<1>3. CASE msg[n].m_block # NoGrant
  BY <1>1, <1>3
<1> QED BY <1>2, <1>3

\* What is to be shown of every message after a step.
LEMMA ContentsStep ==
    ASSUME \A n \in Messages : Sound(msg'[n], text'[n], mem'[msg'[n].m_block.memory])
    PROVE  Contents'
BY DEF Contents, Sound, Lies, FrameBegin, Wire, payload_of

LEMMA SendFailedKeeps ==
    ASSUME PolicyFits, EndpointInv, NEW e \in Endpoints, NEW m \in Messages, SendFailed(e, m)
    PROVE  EndpointInv'
<1> DEFINE s == msg[m]
           block == s.m_block
           at == block.memory
           frame == encode(s)
           t == text[m]
           u == [s EXCEPT !.m_wire = frame.wire, !.m_state = "Encoded"]
<1>1. Types /\ Owners /\ Apart /\ Contents /\ Lent /\ Accepts(e, m)
  BY DEF EndpointInv, SendFailed
<1>2. /\ s \in MessageRecord /\ block # NoGrant /\ at \in TxBlocks
      /\ Sound(s, t, mem[at])
      /\ frame.bytes \in Seq(Cell) /\ Len(frame.bytes) = Len(mem[at])
      /\ Lies(frame.bytes, FrameBegin(s), Wire(t))
      /\ frame.wire = Len(Wire(t)) /\ frame.wire \in Nat
      /\ \A n \in Messages : n # m /\ msg[n].m_block # NoGrant =>
            msg[n].m_block.memory \in TxBlocks /\ msg[n].m_block.memory # at
      /\ \A d \in Endpoints : m_activeTx[d].memory # at
  BY <1>1, AcceptedFacts
<1>3. /\ mem' = [mem EXCEPT ![at] = frame.bytes]
      /\ msg' = [msg EXCEPT ![m].m_wire = frame.wire, ![m].m_state = "Encoded"]
      /\ alive' = alive /\ grant' = grant /\ m_activeTx' = m_activeTx /\ bound' = bound
      /\ reading' = reading /\ text' = text
  BY DEF SendFailed, storage
<1> HIDE DEF frame
<1>4. /\ u \in MessageRecord /\ u.m_storage = s.m_storage /\ u.m_block = block
      /\ u.m_capacity = s.m_capacity /\ u.m_size = s.m_size
      /\ u.m_wire = frame.wire /\ u.m_state = "Encoded"
  BY <1>2 DEF MessageRecord
<1>5. /\ msg' \in [Messages -> MessageRecord] /\ mem' \in [TxBlocks -> Seq(Cell)]
      /\ msg'[m] = u /\ mem'[at] = frame.bytes
      /\ \A n \in Messages : n # m => msg'[n] = msg[n]
      /\ \A b \in TxBlocks : b # at => mem'[b] = mem[b]
  <2>1. msg \in [Messages -> MessageRecord] /\ mem \in [TxBlocks -> Seq(Cell)]
    BY <1>1 DEF Types
  <2>2. msg' = [msg EXCEPT ![m] = u]
    BY <1>2, <1>3, <2>1 DEF MessageRecord
  <2> QED BY <1>2, <1>3, <1>4, <2>1, <2>2
<1>6. \A n \in Messages : msg'[n].m_block = msg[n].m_block /\ msg'[n].m_storage = msg[n].m_storage
  BY <1>4, <1>5
<1> HIDE DEF u
<1>7. Types'
  BY <1>1, <1>3, <1>5 DEF Types
<1>8. Owners'
  <2>1. \A b \in TxBlocks : Len(mem'[b]) = grant[b].granted
    BY <1>1, <1>2, <1>5 DEF Owners
  <2>2. ASSUME NEW b \in TxBlocks, grant[b].to # None
        PROVE  \/ \E n \in Messages : msg'[n].m_block.memory = b
               \/ \E d \in Endpoints : m_activeTx[d].memory = b
    BY <1>1, <1>6, <2>2 DEF Owners
  <2>3. ASSUME NEW n \in Messages, msg'[n].m_block # NoGrant
        PROVE  /\ grant[msg'[n].m_block.memory].to = msg'[n].m_storage
               /\ grant[msg'[n].m_block.memory].granted = msg'[n].m_block.granted
    <3>1. msg'[n].m_block = msg[n].m_block /\ msg'[n].m_storage = msg[n].m_storage
      BY <1>6
    <3> QED BY <1>1, <2>3, <3>1 DEF Owners, Granted
  <2>4. /\ \A d \in Endpoints : m_activeTx[d] # NoGrant =>
              grant[m_activeTx[d].memory].to = d
              /\ grant[m_activeTx[d].memory].granted = m_activeTx[d].granted
        /\ \A b \in TxBlocks : grant[b].to = None => grant[b].granted = 0
    BY <1>1 DEF Owners, Granted
  <2> QED BY <1>3, <2>1, <2>2, <2>3, <2>4 DEF Owners, Granted
<1>9. Apart'
  <2>1. ASSUME NEW n \in Messages, NEW k \in Messages, n # k, msg'[n].m_block # NoGrant
        PROVE  msg'[n].m_block.memory # msg'[k].m_block.memory
    <3>1. msg'[n].m_block = msg[n].m_block /\ msg'[k].m_block = msg[k].m_block
      BY <1>6
    <3> QED BY <1>1, <2>1, <3>1 DEF Apart
  <2>2. ASSUME NEW n \in Messages, NEW d \in Endpoints, msg'[n].m_block # NoGrant
        PROVE  msg'[n].m_block.memory # m_activeTx[d].memory
    <3>1. msg'[n].m_block = msg[n].m_block
      BY <1>6
    <3> QED BY <1>1, <2>2, <3>1 DEF Apart
  <2> QED BY <1>3, <2>1, <2>2 DEF Apart
<1>10. Contents'
  <2>1. ASSUME NEW n \in Messages
        PROVE  Sound(msg'[n], text[n], mem'[msg'[n].m_block.memory])
    <3>1. CASE n = m
      <4>1. FrameBegin(u) = FrameBegin(s)
        BY <1>4 DEF FrameBegin
      <4>2. Sound(u, t, frame.bytes)
        BY <1>2, <1>4, <4>1 DEF Sound
      <4>3. mem'[u.m_block.memory] = frame.bytes
        BY <1>4, <1>5
      <4> QED BY <1>5, <3>1, <4>2, <4>3
    <3>2. CASE n # m
      <4>1. msg[n].m_block # NoGrant => mem'[msg[n].m_block.memory] = mem[msg[n].m_block.memory]
        BY <1>2, <1>5, <3>2
      <4> QED BY <1>1, <1>5, <3>2, <4>1, OthersKeep
    <3> QED BY <3>1, <3>2
  <2> QED BY <1>3, <2>1, ContentsStep
<1>11. Lent'
  <2> SUFFICES ASSUME NEW v \in Transports, reading[v] # None
               PROVE  LET r == reading[v]
                      IN  /\ r.memory \in TxBlocks /\ r.text \in Seq(Byte)
                          /\ r.wire = Len(Wire(r.text))
                          /\ Lies(mem'[r.memory], r.begin, Wire(r.text))
                          /\ \E d \in Endpoints : m_activeTx[d].memory = r.memory /\ bound[d] = v
    BY <1>3, LentStep
  <2> DEFINE r == reading[v]
  <2>1. /\ r.memory \in TxBlocks /\ r.text \in Seq(Byte)
        /\ r.wire = Len(Wire(r.text)) /\ Lies(mem[r.memory], r.begin, Wire(r.text))
    BY <1>1 DEF Lent, Busy
  <2>2. PICK d \in Endpoints : m_activeTx[d].memory = r.memory /\ bound[d] = v
    BY <1>1 DEF Lent, Busy
  <2>3. mem'[r.memory] = mem[r.memory]
    BY <1>2, <1>5, <2>1, <2>2
  <2> QED BY <2>1, <2>2, <2>3
<1> QED BY <1>7, <1>8, <1>9, <1>10, <1>11 DEF EndpointInv

LEMMA SendStartedKeeps ==
    ASSUME PolicyFits, EndpointInv, NEW e \in Endpoints, NEW m \in Messages, SendStarted(e, m)
    PROVE  EndpointInv'
<1> DEFINE s == msg[m]
           block == s.m_block
           at == block.memory
           frame == encode(s)
           t == text[m]
           lent == [memory |-> at, begin |-> FrameBegin(s), wire |-> frame.wire, text |-> t]
           h == bound[e]
<1>1. Types /\ Owners /\ Apart /\ Contents /\ Lent /\ Accepts(e, m)
  BY DEF EndpointInv, SendStarted
<1>2. /\ s \in MessageRecord /\ block \in Lease /\ block # NoGrant /\ at \in TxBlocks
      /\ s.m_storage = e /\ m_activeTx[e] = NoGrant /\ reading[h] = None /\ h \in Transports
      /\ t \in Seq(Byte)
      /\ frame.bytes \in Seq(Cell) /\ Len(frame.bytes) = Len(mem[at])
      /\ Lies(frame.bytes, FrameBegin(s), Wire(t)) /\ frame.wire = Len(Wire(t))
      /\ \A n \in Messages : n # m /\ msg[n].m_block # NoGrant =>
            msg[n].m_block.memory \in TxBlocks /\ msg[n].m_block.memory # at
      /\ \A d \in Endpoints : m_activeTx[d].memory # at
  BY <1>1, AcceptedFacts
<1>3. /\ mem' = [mem EXCEPT ![at] = frame.bytes]
      /\ reading' = [reading EXCEPT ![h] = lent] \/ reading' = reading
      /\ m_activeTx' = [m_activeTx EXCEPT ![e] = block]
      /\ msg' = [msg EXCEPT ![m] = Disowned] /\ text' = [text EXCEPT ![m] = <<>>]
      /\ alive' = alive /\ grant' = grant /\ bound' = bound
  BY DEF SendStarted
<1> HIDE DEF frame
<1>4. /\ lent.memory = at /\ lent.begin = FrameBegin(s) /\ lent.wire = frame.wire
      /\ lent.text = t
  OBVIOUS
<1>5. /\ Disowned \in MessageRecord /\ Disowned.m_block = NoGrant /\ Disowned.m_size = 0
      /\ Disowned.m_state = "Empty" /\ NoGrant.memory = None /\ None \notin TxBlocks
  <2>1. Disowned = Hollow(None)
    BY RecordFacts
  <2>2. /\ Hollow(None) \in MessageRecord /\ Hollow(None).m_block = NoGrant
        /\ Hollow(None).m_size = 0 /\ Hollow(None).m_state = "Empty"
    BY RecordFacts
  <2>3. NoGrant.memory = None /\ None \notin TxBlocks
    BY EndpointAssumption DEF NoGrant
  <2> QED BY <2>1, <2>2, <2>3
<1> HIDE DEF lent
<1>6. /\ msg' \in [Messages -> MessageRecord] /\ text' \in [Messages -> Seq(Byte)]
      /\ mem' \in [TxBlocks -> Seq(Cell)] /\ m_activeTx' \in [Endpoints -> {NoGrant} \union Lease]
      /\ msg'[m] = Disowned /\ text'[m] = <<>> /\ mem'[at] = frame.bytes /\ m_activeTx'[e] = block
      /\ \A n \in Messages : n # m => msg'[n] = msg[n] /\ text'[n] = text[n]
      /\ \A b \in TxBlocks : b # at => mem'[b] = mem[b]
      /\ \A d \in Endpoints : d # e => m_activeTx'[d] = m_activeTx[d]
  <2>1. /\ msg \in [Messages -> MessageRecord] /\ text \in [Messages -> Seq(Byte)]
        /\ mem \in [TxBlocks -> Seq(Cell)] /\ m_activeTx \in [Endpoints -> {NoGrant} \union Lease]
        /\ <<>> \in Seq(Byte)
    BY <1>1 DEF Types
  <2>2. /\ msg' \in [Messages -> MessageRecord] /\ msg'[m] = Disowned
        /\ \A n \in Messages : n # m => msg'[n] = msg[n]
    BY <1>3, <1>5, <2>1
  <2>3. /\ text' \in [Messages -> Seq(Byte)] /\ text'[m] = <<>>
        /\ \A n \in Messages : n # m => text'[n] = text[n]
    BY <1>3, <2>1
  <2>4. /\ mem' \in [TxBlocks -> Seq(Cell)] /\ mem'[at] = frame.bytes
        /\ \A b \in TxBlocks : b # at => mem'[b] = mem[b]
    BY <1>2, <1>3, <2>1
  <2>5. /\ m_activeTx' \in [Endpoints -> {NoGrant} \union Lease] /\ m_activeTx'[e] = block
        /\ \A d \in Endpoints : d # e => m_activeTx'[d] = m_activeTx[d]
    BY <1>2, <1>3, <2>1
  <2> QED BY <2>2, <2>3, <2>4, <2>5
<1>7. Types'
  <2>1. DOMAIN reading' = Transports
    BY <1>1, <1>3 DEF Types
  <2> QED BY <1>1, <1>3, <1>6, <2>1 DEF Types
<1>8. Owners'
  <2>1. ASSUME NEW b \in TxBlocks
        PROVE  /\ Len(mem'[b]) = grant[b].granted
               /\ grant[b].to # None =>
                    \/ \E n \in Messages : msg'[n].m_block.memory = b
                    \/ \E d \in Endpoints : m_activeTx'[d].memory = b
    <3>1. Len(mem'[b]) = grant[b].granted
      <4>1. Len(mem[b]) = grant[b].granted
        BY <1>1 DEF Owners
      <4>2. CASE b = at
        BY <1>2, <1>6, <4>1, <4>2
      <4>3. CASE b # at
        BY <1>6, <4>1, <4>3
      <4> QED BY <4>2, <4>3
    <3>2. ASSUME NEW n \in Messages, msg[n].m_block.memory = b
          PROVE  \/ \E k \in Messages : msg'[k].m_block.memory = b
                 \/ \E d \in Endpoints : m_activeTx'[d].memory = b
      <4>1. CASE n = m
        BY <1>6, <3>2, <4>1
      <4>2. CASE n # m
        BY <1>6, <3>2, <4>2
      <4> QED BY <4>1, <4>2
    <3>3. ASSUME NEW d \in Endpoints, m_activeTx[d].memory = b
          PROVE  m_activeTx'[d].memory = b
      <4>1. d # e
        BY <1>2, <1>5, <3>3
      <4> QED BY <1>6, <3>3, <4>1
    <3>4. grant[b].to # None =>
             \/ \E n \in Messages : msg[n].m_block.memory = b
             \/ \E d \in Endpoints : m_activeTx[d].memory = b
      BY <1>1 DEF Owners
    <3> QED BY <3>1, <3>2, <3>3, <3>4
  <2>2. ASSUME NEW n \in Messages, msg'[n].m_block # NoGrant
        PROVE  /\ grant[msg'[n].m_block.memory].to = msg'[n].m_storage
               /\ grant[msg'[n].m_block.memory].granted = msg'[n].m_block.granted
    BY <1>1, <1>5, <1>6, <2>2 DEF Owners, Granted
  <2>3. ASSUME NEW d \in Endpoints, m_activeTx'[d] # NoGrant
        PROVE  /\ grant[m_activeTx'[d].memory].to = d
               /\ grant[m_activeTx'[d].memory].granted = m_activeTx'[d].granted
    <3>1. CASE d = e
      BY <1>1, <1>2, <1>6, <3>1 DEF Owners, Granted
    <3>2. CASE d # e
      BY <1>1, <1>6, <2>3, <3>2 DEF Owners, Granted
    <3> QED BY <3>1, <3>2
  <2>4. \A b \in TxBlocks : grant[b].to = None => grant[b].granted = 0
    BY <1>1 DEF Owners
  <2> QED BY <1>3, <2>1, <2>2, <2>3, <2>4 DEF Owners, Granted
<1>9. Apart'
  <2>1. ASSUME NEW n \in Messages, NEW k \in Messages, n # k, msg'[n].m_block # NoGrant
        PROVE  msg'[n].m_block.memory # msg'[k].m_block.memory
    <3>1. n # m /\ msg'[n] = msg[n]
      BY <1>5, <1>6, <2>1
    <3>2. CASE k = m
      BY <1>2, <1>5, <1>6, <2>1, <3>1, <3>2
    <3>3. CASE k # m
      <4>1. msg'[k] = msg[k]
        BY <1>6, <3>3
      <4>2. msg[n].m_block # NoGrant
        BY <2>1, <3>1
      <4> QED BY <1>1, <2>1, <3>1, <4>1, <4>2 DEF Apart
    <3> QED BY <3>2, <3>3
  <2>2. ASSUME NEW n \in Messages, NEW d \in Endpoints, msg'[n].m_block # NoGrant
        PROVE  msg'[n].m_block.memory # m_activeTx'[d].memory
    <3>1. n # m /\ msg'[n] = msg[n]
      BY <1>5, <1>6, <2>2
    <3>2. CASE d = e
      BY <1>2, <1>6, <2>2, <3>1, <3>2
    <3>3. CASE d # e
      BY <1>1, <1>6, <2>2, <3>1, <3>3 DEF Apart
    <3> QED BY <3>2, <3>3
  <2> QED BY <2>1, <2>2 DEF Apart
<1>10. Contents'
  <2>1. ASSUME NEW n \in Messages
        PROVE  Sound(msg'[n], text'[n], mem'[msg'[n].m_block.memory])
    <3>1. CASE n = m
      BY <1>5, <1>6, <3>1 DEF Sound
    <3>2. CASE n # m
      <4>1. msg[n].m_block # NoGrant => mem'[msg[n].m_block.memory] = mem[msg[n].m_block.memory]
        BY <1>2, <1>6, <3>2
      <4>2. Sound(msg[n], text[n], mem'[msg[n].m_block.memory])
        BY <1>1, <3>2, <4>1, OthersKeep
      <4>3. msg'[n] = msg[n] /\ text'[n] = text[n]
        BY <1>6, <3>2
      <4> QED BY <4>2, <4>3
    <3> QED BY <3>1, <3>2
  <2> QED BY <2>1, ContentsStep
<1>11. Lent'
  <2> SUFFICES ASSUME NEW v \in Transports, reading'[v] # None
               PROVE  LET r == reading'[v]
                      IN  /\ r.memory \in TxBlocks /\ r.text \in Seq(Byte)
                          /\ r.wire = Len(Wire(r.text))
                          /\ Lies(mem'[r.memory], r.begin, Wire(r.text))
                          /\ \E d \in Endpoints : m_activeTx'[d].memory = r.memory /\ bound[d] = v
    BY <1>3, LentStep
  <2> DEFINE r == reading[v]
  <2>1. CASE reading'[v] = lent /\ v = h
    <3>1. Lies(mem'[at], lent.begin, Wire(t))
      BY <1>2, <1>4, <1>6
    <3> QED BY <1>2, <1>4, <1>6, <2>1, <3>1
  <2>2. CASE reading'[v] = r
    <3>1. /\ r.memory \in TxBlocks /\ r.text \in Seq(Byte)
          /\ r.wire = Len(Wire(r.text)) /\ Lies(mem[r.memory], r.begin, Wire(r.text))
      BY <1>1, <2>2 DEF Lent, Busy
    <3>2. PICK d \in Endpoints : m_activeTx[d].memory = r.memory /\ bound[d] = v
      BY <1>1, <2>2 DEF Lent, Busy
    <3>3. mem'[r.memory] = mem[r.memory]
      BY <1>2, <1>6, <3>1, <3>2
    <3>4. m_activeTx'[d] = m_activeTx[d]
      BY <1>2, <1>5, <1>6, <3>1, <3>2
    <3> QED BY <2>2, <3>1, <3>2, <3>3, <3>4
  <2>3. (reading'[v] = lent /\ v = h) \/ reading'[v] = r
    <3>1. CASE reading' = [reading EXCEPT ![h] = lent]
      BY <1>1, <3>1 DEF Types
    <3>2. CASE reading' = reading
      BY <3>2
    <3> QED BY <1>3, <3>1, <3>2
  <2> QED BY <2>1, <2>2, <2>3
<1> QED BY <1>7, <1>8, <1>9, <1>10, <1>11 DEF EndpointInv
-----------------------------------------------------------------------------
(* Storage gets a block back from the transport, and the rest.             *)

\* An endpoint without a transfer on its transport gives back what it lent,
\* and may be bound anew.
LEMMA Returned ==
    ASSUME EndpointInv, NEW e \in Endpoints, m_activeTx[e] # NoGrant => ~Busy(bound[e]),
           Restocked(m_activeTx[e], None, NoGrant, <<>>),
           m_activeTx' = [m_activeTx EXCEPT ![e] = NoGrant],
           NEW t \in Transports \union {None}, bound' = [bound EXCEPT ![e] = t] \/ bound' = bound,
           alive' \subseteq Endpoints, UNCHANGED <<msg, reading, text>>
    PROVE  EndpointInv'
<1> DEFINE old == m_activeTx[e]
<1>1. Types /\ Owners /\ Apart /\ Contents /\ Lent
  BY DEF EndpointInv
<1>2. msg' = msg /\ reading' = reading /\ text' = text
  OBVIOUS
<1>3. NoGrant.memory = None /\ None \notin TxBlocks
  BY EndpointAssumption DEF NoGrant
<1>4. /\ m_activeTx' \in [Endpoints -> {NoGrant} \union Lease]
      /\ bound' \in [Endpoints -> Transports \union {None}]
      /\ m_activeTx'[e] = NoGrant
      /\ \A d \in Endpoints : d # e => m_activeTx'[d] = m_activeTx[d] /\ bound'[d] = bound[d]
  <2>1. /\ m_activeTx \in [Endpoints -> {NoGrant} \union Lease]
        /\ bound \in [Endpoints -> Transports \union {None}]
    BY <1>1 DEF Types
  <2> QED BY <2>1
<1>5. /\ \A m \in Messages : msg[m].m_block # NoGrant =>
            msg[m].m_block.memory \in TxBlocks /\ msg[m].m_block.memory # old.memory
      /\ \A d \in Endpoints : d # e /\ m_activeTx[d] # NoGrant =>
            m_activeTx[d].memory \in TxBlocks /\ m_activeTx[d].memory # old.memory
  <2>1. ASSUME NEW m \in Messages, msg[m].m_block # NoGrant
        PROVE  msg[m].m_block.memory \in TxBlocks /\ msg[m].m_block.memory # old.memory
    BY <1>1, <2>1, Held DEF Apart
  <2>2. ASSUME NEW d \in Endpoints, d # e, m_activeTx[d] # NoGrant
        PROVE  m_activeTx[d].memory \in TxBlocks /\ m_activeTx[d].memory # old.memory
    <3>1. m_activeTx[d].memory \in TxBlocks
      BY <2>2, Held
    <3>2. grant[m_activeTx[d].memory].to = d
      BY <1>1, <2>2 DEF Owners, Granted
    <3>3. CASE old = NoGrant
      BY <1>3, <3>1, <3>3
    <3>4. CASE old # NoGrant
      <4>1. grant[old.memory].to = e
        BY <1>1, <3>4 DEF Owners, Granted
      <4> QED BY <2>2, <3>1, <3>2, <4>1
    <3> QED BY <3>3, <3>4
  <2> QED BY <2>1, <2>2
<1>6. /\ \A b \in TxBlocks : b # old.memory => grant'[b] = grant[b] /\ mem'[b] = mem[b]
      /\ \A b \in TxBlocks : b = old.memory =>
            grant'[b].to = None /\ grant'[b].granted = 0 /\ mem'[b] = <<>>
  <2>1. ASSUME NEW b \in TxBlocks, b = old.memory
        PROVE  grant'[b].to = None /\ grant'[b].granted = 0 /\ mem'[b] = <<>>
    <3>1. grant'[b] = Entry(None, 0) /\ mem'[b] = <<>>
      BY <1>3, <2>1, Stock
    <3> QED BY <3>1, EntryFacts
  <2>2. ASSUME NEW b \in TxBlocks, b # old.memory
        PROVE  grant'[b] = grant[b] /\ mem'[b] = mem[b]
    BY <1>3, <2>2, Stock
  <2> QED BY <2>1, <2>2
<1>7. Types'
  <2>1. <<>> \in Seq(Cell)
    OBVIOUS
  <2>2. /\ grant' \in [TxBlocks -> [to : Endpoints \union {None}, granted : Nat]]
        /\ mem' \in [TxBlocks -> Seq(Cell)]
    BY <1>1, <1>3, <2>1, StockTypes
  <2> QED BY <1>1, <1>2, <1>4, <2>2 DEF Types
<1>8. Owners'
  <2>1. ASSUME NEW b \in TxBlocks
        PROVE  /\ Len(mem'[b]) = grant'[b].granted
               /\ grant'[b].to = None => grant'[b].granted = 0
               /\ grant'[b].to # None =>
                    \/ \E m \in Messages : msg[m].m_block.memory = b
                    \/ \E d \in Endpoints : m_activeTx'[d].memory = b
    <3>1. CASE b = old.memory
      BY <1>6, <3>1
    <3>2. CASE b # old.memory
      <4>1. grant'[b] = grant[b] /\ mem'[b] = mem[b]
        BY <1>6, <3>2
      <4>2. /\ Len(mem[b]) = grant[b].granted
            /\ grant[b].to = None => grant[b].granted = 0
            /\ grant[b].to # None =>
                 \/ \E m \in Messages : msg[m].m_block.memory = b
                 \/ \E d \in Endpoints : m_activeTx[d].memory = b
        BY <1>1 DEF Owners
      <4>3. \A d \in Endpoints : m_activeTx[d].memory = b => m_activeTx'[d].memory = b
        BY <1>4, <3>2
      <4> QED BY <4>1, <4>2, <4>3
    <3> QED BY <3>1, <3>2
  <2>2. ASSUME NEW m \in Messages, msg[m].m_block # NoGrant
        PROVE  /\ grant'[msg[m].m_block.memory].to = msg[m].m_storage
               /\ grant'[msg[m].m_block.memory].granted = msg[m].m_block.granted
    <3>1. grant'[msg[m].m_block.memory] = grant[msg[m].m_block.memory]
      BY <1>5, <1>6, <2>2
    <3>2. Granted(msg[m].m_block, msg[m].m_storage)
      BY <1>1, <2>2 DEF Owners
    <3> QED BY <3>1, <3>2 DEF Granted
  <2>3. ASSUME NEW d \in Endpoints, m_activeTx'[d] # NoGrant
        PROVE  /\ grant'[m_activeTx'[d].memory].to = d
               /\ grant'[m_activeTx'[d].memory].granted = m_activeTx'[d].granted
    <3>1. d # e /\ m_activeTx'[d] = m_activeTx[d]
      BY <1>4, <2>3
    <3>2. grant'[m_activeTx[d].memory] = grant[m_activeTx[d].memory]
      BY <1>5, <1>6, <2>3, <3>1
    <3>3. Granted(m_activeTx[d], d)
      BY <1>1, <2>3, <3>1 DEF Owners
    <3> QED BY <3>1, <3>2, <3>3 DEF Granted
  <2> QED BY <1>2, <2>1, <2>2, <2>3 DEF Owners, Granted
<1>9. Apart'
  <2>1. ASSUME NEW m \in Messages, NEW d \in Endpoints, msg[m].m_block # NoGrant
        PROVE  msg[m].m_block.memory # m_activeTx'[d].memory
    <3>1. CASE d = e
      BY <1>3, <1>4, <1>5, <2>1, <3>1
    <3>2. CASE d # e
      BY <1>1, <1>4, <2>1, <3>2 DEF Apart
    <3> QED BY <3>1, <3>2
  <2> QED BY <1>1, <1>2, <2>1 DEF Apart
<1>10. Contents'
  <2>1. ASSUME NEW m \in Messages
        PROVE  Sound(msg[m], text[m], mem'[msg[m].m_block.memory])
    <3>1. Sound(msg[m], text[m], mem[msg[m].m_block.memory])
      BY <1>1 DEF Contents
    <3>2. CASE msg[m].m_block = NoGrant
      BY <3>1, <3>2 DEF Sound
    <3>3. CASE msg[m].m_block # NoGrant
      BY <1>5, <1>6, <3>1, <3>3
    <3> QED BY <3>2, <3>3
  <2> QED BY <1>2, <2>1, ContentsStep
<1>11. Lent'
  <2> SUFFICES ASSUME NEW u \in Transports, reading[u] # None
               PROVE  LET r == reading[u]
                      IN  /\ r.memory \in TxBlocks /\ r.text \in Seq(Byte)
                          /\ r.wire = Len(Wire(r.text))
                          /\ Lies(mem'[r.memory], r.begin, Wire(r.text))
                          /\ \E d \in Endpoints :
                                m_activeTx'[d].memory = r.memory /\ bound'[d] = u
    BY <1>2, LentStep
  <2> DEFINE r == reading[u]
  <2>1. /\ r.memory \in TxBlocks /\ r.text \in Seq(Byte)
        /\ r.wire = Len(Wire(r.text)) /\ Lies(mem[r.memory], r.begin, Wire(r.text))
    BY <1>1 DEF Lent, Busy
  <2>2. PICK d \in Endpoints : m_activeTx[d].memory = r.memory /\ bound[d] = u
    BY <1>1 DEF Lent, Busy
  <2>3. m_activeTx[d] # NoGrant
    BY <1>3, <2>1, <2>2
  <2>4. d # e
    BY <2>2, <2>3 DEF Busy
  <2>5. mem'[r.memory] = mem[r.memory]
    BY <1>5, <1>6, <2>1, <2>2, <2>3, <2>4
  <2> QED BY <1>4, <2>1, <2>2, <2>4, <2>5
<1> QED BY <1>7, <1>8, <1>9, <1>10, <1>11 DEF EndpointInv

LEMMA PollKeeps ==
    ASSUME EndpointInv, NEW e \in Endpoints, poll(e)
    PROVE  EndpointInv'
<1>1. /\ m_activeTx[e] # NoGrant => ~Busy(bound[e])
      /\ Restocked(m_activeTx[e], None, NoGrant, <<>>)
      /\ m_activeTx' = [m_activeTx EXCEPT ![e] = NoGrant]
      /\ bound' = bound /\ alive' = alive /\ UNCHANGED <<msg, reading, text>>
  BY DEF poll
<1>2. alive' \subseteq Endpoints
  BY <1>1 DEF EndpointInv, Types
<1>3. None \in Transports \union {None}
  OBVIOUS
<1> QED BY <1>1, <1>2, <1>3, Returned

LEMMA DestroyKeeps ==
    ASSUME EndpointInv, NEW e \in Endpoints, Destroy(e)
    PROVE  EndpointInv'
<1>1. /\ m_activeTx[e] # NoGrant => ~Busy(bound[e])
      /\ Restocked(m_activeTx[e], None, NoGrant, <<>>)
      /\ m_activeTx' = [m_activeTx EXCEPT ![e] = NoGrant]
      /\ bound' = [bound EXCEPT ![e] = None] /\ alive' = alive \ {e}
      /\ UNCHANGED <<msg, reading, text>>
  BY DEF Destroy
<1>2. alive' \subseteq Endpoints
  BY <1>1 DEF EndpointInv, Types
<1>3. None \in Transports \union {None}
  OBVIOUS
<1> QED BY <1>1, <1>2, <1>3, Returned

LEMMA BindKeeps ==
    ASSUME EndpointInv, NEW e \in Endpoints, NEW t \in Transports \union {None}, bind(e, t)
    PROVE  EndpointInv'
<1>1. /\ m_activeTx[e] = NoGrant /\ bound' = [bound EXCEPT ![e] = t]
      /\ alive' = alive /\ grant' = grant /\ mem' = mem /\ msg' = msg /\ m_activeTx' = m_activeTx
      /\ reading' = reading /\ text' = text
  BY DEF bind, storage
<1>2. /\ m_activeTx \in [Endpoints -> {NoGrant} \union Lease]
      /\ grant \in [TxBlocks -> [to : Endpoints \union {None}, granted : Nat]]
      /\ mem \in [TxBlocks -> Seq(Cell)] /\ alive' \subseteq Endpoints
  BY <1>1 DEF EndpointInv, Types
<1>3. m_activeTx' = [m_activeTx EXCEPT ![e] = NoGrant]
  BY <1>1, <1>2
<1>4. Restocked(m_activeTx[e], None, NoGrant, <<>>)
  <2>1. \A b \in TxBlocks : b # NoGrant.memory
    BY EndpointAssumption DEF NoGrant
  <2>2. grant' = [b \in TxBlocks |-> grant[b]] /\ mem' = [b \in TxBlocks |-> mem[b]]
    BY <1>1, <1>2
  <2> QED BY <1>1, <2>1, <2>2 DEF Restocked
<1>5. /\ m_activeTx[e] # NoGrant => ~Busy(bound[e])
      /\ UNCHANGED <<msg, reading, text>>
  BY <1>1
<1> QED BY <1>1, <1>2, <1>3, <1>4, <1>5, Returned

\* Transports may stop reading; nothing else changes.
LEMMA QuietKeeps ==
    ASSUME EndpointInv, UNCHANGED <<alive, storage, msg, m_activeTx, bound, text>>,
           DOMAIN reading' = Transports,
           \A t \in Transports : reading'[t] # None => reading'[t] = reading[t]
    PROVE  EndpointInv'
<1>1. /\ alive' = alive /\ grant' = grant /\ mem' = mem /\ msg' = msg
      /\ m_activeTx' = m_activeTx /\ bound' = bound /\ text' = text
  BY DEF storage
<1>2. Types'
  BY <1>1 DEF EndpointInv, Types
<1>3. Owners'
  BY <1>1 DEF EndpointInv, Owners, Granted
<1>4. Apart'
  BY <1>1 DEF EndpointInv, Apart
<1>5. Contents'
  BY <1>1, ContentsStep DEF EndpointInv, Contents
<1>6. Lent'
  <2>1. \A t \in Transports : reading[t] # None =>
           LET r == reading[t]
           IN  /\ r.memory \in TxBlocks /\ r.text \in Seq(Byte)
               /\ r.wire = Len(Wire(r.text)) /\ Lies(mem[r.memory], r.begin, Wire(r.text))
               /\ \E e \in Endpoints : m_activeTx[e].memory = r.memory /\ bound[e] = t
    BY DEF EndpointInv, Lent, Busy
  <2>2. ASSUME NEW t \in Transports, reading'[t] # None
        PROVE  LET r == reading'[t]
               IN  /\ r.memory \in TxBlocks /\ r.text \in Seq(Byte)
                   /\ r.wire = Len(Wire(r.text)) /\ Lies(mem[r.memory], r.begin, Wire(r.text))
                   /\ \E e \in Endpoints : m_activeTx[e].memory = r.memory /\ bound[e] = t
    <3>1. reading'[t] = reading[t]
      BY <2>2
    <3> QED BY <2>1, <2>2, <3>1
  <2> QED BY <1>1, <2>2, LentStep
<1> QED BY <1>2, <1>3, <1>4, <1>5, <1>6 DEF EndpointInv

LEMMA DoneKeeps ==
    ASSUME EndpointInv, NEW t \in Transports, TransportDone(t)
    PROVE  EndpointInv'
<1>1. /\ reading' = [reading EXCEPT ![t] = None]
      /\ UNCHANGED <<alive, storage, msg, m_activeTx, bound, text>>
  BY DEF TransportDone
<1>2. DOMAIN reading = Transports
  BY DEF EndpointInv, Types
<1>3. DOMAIN reading' = Transports
      /\ \A u \in Transports : reading'[u] # None => reading'[u] = reading[u]
  BY <1>1, <1>2
<1> QED BY <1>1, <1>3, QuietKeeps

-----------------------------------------------------------------------------
(* The invariant.                                                          *)

LEMMA EndpointInitial ==
    ASSUME PolicyFits, EndpointInit
    PROVE  EndpointInv
<1>1. /\ Disowned \in MessageRecord /\ Disowned.m_block = NoGrant /\ Disowned.m_size = 0
      /\ Disowned.m_state = "Empty" /\ NoGrant.memory = None /\ None \notin TxBlocks
  <2>1. Disowned = Hollow(None)
    BY RecordFacts
  <2>2. /\ Hollow(None) \in MessageRecord /\ Hollow(None).m_block = NoGrant
        /\ Hollow(None).m_size = 0 /\ Hollow(None).m_state = "Empty"
    BY RecordFacts
  <2>3. NoGrant.memory = None /\ None \notin TxBlocks
    BY EndpointAssumption DEF NoGrant
  <2> QED BY <2>1, <2>2, <2>3
<1>2. grant = [b \in TxBlocks |-> Entry(None, 0)]
  BY DEF EndpointInit, Entry
<1>3. Entry(None, 0) \in [to : Endpoints \union {None}, granted : Nat]
      /\ Entry(None, 0).to = None /\ Entry(None, 0).granted = 0
  BY EntryFacts
<1>4. /\ \A b \in TxBlocks : grant[b].to = None /\ grant[b].granted = 0 /\ mem[b] = <<>>
      /\ \A m \in Messages : msg[m] = Disowned /\ text[m] = <<>>
      /\ \A e \in Endpoints : m_activeTx[e] = NoGrant /\ bound[e] = None
      /\ \A t \in Transports : reading[t] = None
  BY <1>2, <1>3 DEF EndpointInit
<1>5. Types
  <2>1. /\ grant \in [TxBlocks -> [to : Endpoints \union {None}, granted : Nat]]
    BY <1>2, <1>3
  <2>2. <<>> \in Seq(Cell) /\ <<>> \in Seq(Byte)
    OBVIOUS
  <2> QED BY <1>1, <2>1, <2>2 DEF EndpointInit, Types
<1>6. Owners
  BY <1>1, <1>4 DEF Owners
<1>7. Apart
  BY <1>1, <1>4 DEF Apart
<1>8. Contents
  BY <1>1, <1>4 DEF Contents, Sound
<1>9. Lent
  BY <1>4 DEF Lent, Busy
<1> QED BY <1>5, <1>6, <1>7, <1>8, <1>9 DEF EndpointInv

LEMMA EndpointStep ==
    ASSUME PolicyFits, EndpointInv, [EndpointNext]_vars
    PROVE  EndpointInv'
<1>1. ASSUME NEW m \in Messages, NEW e \in Endpoints, NEW hint \in Hints, Make(m, e, hint)
      PROVE  EndpointInv'
  BY <1>1, MakeKeeps
<1>2. ASSUME NEW m \in Messages, NEW n \in Messages, Move(m, n)
      PROVE  EndpointInv'
  BY <1>2, MoveKeeps
<1>3. ASSUME NEW m \in Messages, Drop(m) PROVE EndpointInv'
  BY <1>3, DropKeeps
<1>4. ASSUME NEW m \in Messages, NEW n \in Hints, Reserve(m, n) PROVE EndpointInv'
  BY <1>4, ReserveKeeps
<1>5. ASSUME NEW m \in Messages, NEW s \in Texts, Append_bytes(m, s) PROVE EndpointInv'
  BY <1>5, AppendKeeps
<1>6. ASSUME NEW m \in Messages, NEW e \in Endpoints, SendStarted(e, m) PROVE EndpointInv'
  BY <1>6, SendStartedKeeps
<1>7. ASSUME NEW m \in Messages, NEW e \in Endpoints, SendFailed(e, m) PROVE EndpointInv'
  BY <1>7, SendFailedKeeps
<1>8. ASSUME NEW e \in Endpoints, poll(e) PROVE EndpointInv'
  BY <1>8, PollKeeps
<1>9. ASSUME NEW e \in Endpoints, Destroy(e) PROVE EndpointInv'
  BY <1>9, DestroyKeeps
<1>10. ASSUME NEW e \in Endpoints, NEW t \in Transports \union {None}, bind(e, t)
       PROVE  EndpointInv'
  BY <1>10, BindKeeps
<1>11. ASSUME NEW t \in Transports, TransportDone(t) PROVE EndpointInv'
  BY <1>11, DoneKeeps
<1>12. CASE UNCHANGED vars
  <2>1. UNCHANGED <<alive, storage, msg, m_activeTx, bound, text>> /\ reading' = reading
    BY <1>12 DEF vars
  <2>2. DOMAIN reading' = Transports
    BY <2>1 DEF EndpointInv, Types
  <2> QED BY <2>1, <2>2, QuietKeeps
<1> QED BY <1>1, <1>2, <1>3, <1>4, <1>5, <1>6, <1>7, <1>8, <1>9, <1>10, <1>11, <1>12
        DEF EndpointNext

\* Storage, messages, transfers and bytes agree after every call.
THEOREM EndpointInvariant ==
    ASSUME PolicyFits
    PROVE  EndpointSpec => []EndpointInv
BY EndpointInitial, EndpointStep, PTL DEF EndpointSpec
-----------------------------------------------------------------------------
(* What follows.                                                           *)

LEMMA TypesHold ==
    ASSUME PolicyFits, EndpointInv
    PROVE  EndpointTypeOK
<1>1. Max_payload_size \in Nat
  BY DEF PolicyFits, IsFormat, Max_payload_size
<1>2. ASSUME NEW b \in TxBlocks
      PROVE  /\ grant[b].to \in Endpoints \union {None}
             /\ mem[b] \in Seq(Byte \union {Junk}) /\ Len(mem[b]) = grant[b].granted
  <2>1. mem[b] \in Seq(Cell)
    BY DEF EndpointInv, Types
  <2>2. grant[b].to \in Endpoints \union {None}
    BY DEF EndpointInv, Types
  <2>3. Len(mem[b]) = grant[b].granted
    BY DEF EndpointInv, Owners
  <2> QED BY <2>1, <2>2, <2>3 DEF Cell
<1>3. ASSUME NEW m \in Messages
      PROVE  /\ msg[m].m_storage \in Endpoints \union {None}
             /\ msg[m].m_block \in {NoGrant} \union Lease
             /\ msg[m].m_size \in 0 .. msg[m].m_capacity
             /\ msg[m].m_capacity \in 0 .. Max_payload_size
             /\ msg[m].m_wire \in Nat
             /\ msg[m].m_state \in {"Empty", "Building", "Encoded"}
             /\ msg[m].m_block = NoGrant <=> msg[m].m_state = "Empty"
  <2>1. msg[m] \in MessageRecord
    BY DEF EndpointInv, Types
  <2>2. Sound(msg[m], text[m], mem[msg[m].m_block.memory])
    BY DEF EndpointInv, Contents
  <2>3. /\ msg[m].m_storage \in Endpoints \union {None}
        /\ msg[m].m_block \in {NoGrant} \union Lease
        /\ msg[m].m_capacity \in 0 .. Max_payload_size
        /\ msg[m].m_size \in Nat /\ msg[m].m_wire \in Nat
        /\ msg[m].m_state \in {"Empty", "Building", "Encoded"}
    BY <2>1 DEF MessageRecord
  <2>4. /\ msg[m].m_block = NoGrant <=> msg[m].m_state = "Empty"
        /\ msg[m].m_size <= msg[m].m_capacity
    <3>1. CASE msg[m].m_block = NoGrant
      <4>1. msg[m].m_state = "Empty" /\ msg[m].m_size = 0
        BY <2>2, <3>1 DEF Sound
      <4> QED BY <1>1, <2>3, <3>1, <4>1
    <3>2. CASE msg[m].m_block # NoGrant
      <4>1. msg[m].m_state \in {"Building", "Encoded"} /\ msg[m].m_size <= msg[m].m_capacity
        BY <2>2, <3>2 DEF Sound
      <4> QED BY <3>2, <4>1
    <3> QED BY <3>1, <3>2
  <2> QED BY <1>1, <2>3, <2>4
<1>4. ASSUME NEW e \in Endpoints
      PROVE  m_activeTx[e] \in {NoGrant} \union Lease /\ bound[e] \in Transports \union {None}
  BY DEF EndpointInv, Types
<1>5. alive \subseteq Endpoints
  BY DEF EndpointInv, Types
<1> QED BY <1>2, <1>3, <1>4, <1>5 DEF EndpointTypeOK, Lease

LEMMA OwnersAreOne ==
    ASSUME PolicyFits, EndpointInv
    PROVE  OneOwner
<1> SUFFICES ASSUME NEW b \in TxBlocks
             PROVE  LET owners == {m \in Messages : msg[m].m_block.memory = b}
                                     \union {e \in Endpoints : m_activeTx[e].memory = b}
                    IN  /\ Cardinality(owners) = IF grant[b].to = None THEN 0 ELSE 1
                        /\ \A m \in owners \intersect Messages :
                              grant[b] = [to |-> msg[m].m_storage, granted |-> msg[m].m_block.granted]
                        /\ \A e \in owners \intersect Endpoints :
                              grant[b] = [to |-> e, granted |-> m_activeTx[e].granted]
  BY TypesHold DEF OneOwner
<1> DEFINE ms == {m \in Messages : msg[m].m_block.memory = b}
           es == {e \in Endpoints : m_activeTx[e].memory = b}
           owners == ms \union es
<1>1. /\ None \notin TxBlocks /\ None \notin Endpoints /\ Messages \intersect Endpoints = {}
      /\ grant[b] \in [to : Endpoints \union {None}, granted : Nat]
  BY EndpointAssumption DEF EndpointInv, Types
<1>2. ASSUME NEW m \in ms
      PROVE  /\ msg[m].m_block # NoGrant /\ msg[m].m_storage \in Endpoints
             /\ grant[b].to = msg[m].m_storage /\ grant[b].granted = msg[m].m_block.granted
  <2>1. msg[m].m_block # NoGrant /\ msg[m].m_storage \in Endpoints
    BY <1>1, Held
  <2> QED BY <2>1 DEF EndpointInv, Owners, Granted
<1>3. ASSUME NEW e \in es
      PROVE  /\ m_activeTx[e] # NoGrant
             /\ grant[b].to = e /\ grant[b].granted = m_activeTx[e].granted
  <2>1. m_activeTx[e] # NoGrant
    BY <1>1, Held
  <2> QED BY <2>1 DEF EndpointInv, Owners, Granted
<1>4. \A o, p \in owners : o = p
  <2>1. ASSUME NEW o \in ms, NEW p \in ms PROVE o = p
    BY <1>2 DEF EndpointInv, Apart
  <2>2. ASSUME NEW o \in es, NEW p \in es PROVE o = p
    BY <1>3
  <2>3. ASSUME NEW o \in ms, NEW p \in es PROVE FALSE
    BY <1>2 DEF EndpointInv, Apart
  <2> QED BY <2>1, <2>2, <2>3
<1>5. owners = {} <=> grant[b].to = None
  <2>1. owners # {} => grant[b].to # None
    BY <1>1, <1>2, <1>3
  <2>2. grant[b].to # None => owners # {}
    BY DEF EndpointInv, Owners
  <2> QED BY <2>1, <2>2
<1>6. Cardinality(owners) = IF grant[b].to = None THEN 0 ELSE 1
  <2>1. CASE owners = {}
    BY <1>5, <2>1, FS_EmptySet
  <2>2. CASE owners # {}
    <3>1. PICK o \in owners : TRUE
      BY <2>2
    <3>2. owners = {o}
      BY <1>4, <3>1
    <3> HIDE DEF owners
    <3>3. Cardinality(owners) = 1
      BY <3>2, FS_Singleton
    <3> QED BY <1>5, <2>2, <3>3
  <2> QED BY <2>1, <2>2
<1>7. ASSUME NEW m \in owners \intersect Messages
      PROVE  grant[b] = [to |-> msg[m].m_storage, granted |-> msg[m].m_block.granted]
  <2>1. m \in ms
    BY <1>1
  <2>2. grant[b].to = msg[m].m_storage /\ grant[b].granted = msg[m].m_block.granted
    BY <1>2, <2>1
  <2> QED BY <1>1, <2>2
<1>8. ASSUME NEW e \in owners \intersect Endpoints
      PROVE  grant[b] = [to |-> e, granted |-> m_activeTx[e].granted]
  <2>1. e \in es
    BY <1>1
  <2>2. grant[b].to = e /\ grant[b].granted = m_activeTx[e].granted
    BY <1>3, <2>1
  <2> QED BY <1>1, <2>2
<1> QED BY <1>6, <1>7, <1>8

LEMMA PayloadIsKept ==
    ASSUME PolicyFits, EndpointInv
    PROVE  PayloadKept
<1> SUFFICES ASSUME NEW m \in Messages, msg[m].m_state # "Empty"
             PROVE  LET s == msg[m]
                        decoded == decoded_size_for_payload(Format, s.m_size)
                    IN  /\ s.m_state = "Building" => Payload(s) = text[m]
                        /\ s.m_size = Len(text[m])
                        /\ FrameBegin(s) >= 0
                        /\ FrameBegin(s) + max_wire_size(decoded) <= s.m_block.granted
  BY DEF PayloadKept
<1> DEFINE s == msg[m]
           decoded == decoded_size_for_payload(Format, s.m_size)
           whole == tx_storage_size_for_capacity(Format, s.m_capacity)
<1>1. s.m_state = "Building" => Payload(s) = text[m]
  BY BuildingFacts
<1>2. s \in MessageRecord /\ Sound(s, text[m], mem[s.m_block.memory])
  BY DEF EndpointInv, Types, Contents
<1>3. /\ s.m_block # NoGrant
      /\ s.m_size = Len(text[m]) /\ s.m_size <= s.m_capacity /\ whole <= s.m_block.granted
  BY <1>2 DEF Sound
<1>4. s.m_block \in Lease /\ s.m_capacity \in 0 .. Max_payload_size /\ s.m_size \in Nat
  BY <1>2, <1>3 DEF MessageRecord
<1>5. s.m_block.granted \in Nat /\ s.m_capacity \in Nat
  <2>1. Max_payload_size \in Nat
    BY DEF PolicyFits, IsFormat, Max_payload_size
  <2> QED BY <1>3, <1>4, <2>1, LeaseFacts
<1>6. /\ FrameBegin(s) \in Nat /\ FrameBegin(s) + max_wire_size(decoded) <= whole
      /\ whole \in Nat /\ decoded \in Nat
  BY <1>3, <1>4, <1>5, Geometry
<1>7. max_wire_size(decoded) \in Nat
  BY <1>6, Headroom
<1> HIDE DEF whole, decoded, s
<1>8. FrameBegin(s) >= 0 /\ FrameBegin(s) + max_wire_size(decoded) <= s.m_block.granted
  BY <1>3, <1>5, <1>6, <1>7
<1> QED BY <1>1, <1>3, <1>8 DEF s, decoded

LEMMA BorrowHolds ==
    ASSUME EndpointInv
    PROVE  BorrowIsHeld
BY DEF EndpointInv, Lent, BorrowIsHeld

LEMMA FramesHold ==
    ASSUME PolicyFits, EndpointInv
    PROVE  FramesAreExact
<1>1. ASSUME NEW t \in Transports, Busy(t)
      PROVE  LET r == reading[t]
             IN  /\ r.begin >= 0 /\ r.begin + r.wire <= grant[r.memory].granted
                 /\ Bytes(r.memory, r.begin, r.wire) = Wire(r.text)
  <2> DEFINE r == reading[t]
             w == Wire(r.text)
             x == mem[r.memory]
  <2>1. r.memory \in TxBlocks /\ r.text \in Seq(Byte) /\ r.wire = Len(w) /\ Lies(x, r.begin, w)
    BY <1>1 DEF EndpointInv, Lent
  <2>2. Len(x) = grant[r.memory].granted
    BY <2>1 DEF EndpointInv, Owners
  <2>3. w \in Seq(Byte)
    BY <2>1, BodyFacts
  <2>4. SubSeq(x, r.begin + 1, r.begin + Len(w)) = w
    BY <2>1, <2>3, LiesBytes
  <2>5. r.begin \in Nat /\ r.begin + Len(w) <= Len(x)
    BY <2>1 DEF Lies
  <2> QED BY <2>1, <2>2, <2>4, <2>5 DEF Bytes
<1>2. ASSUME NEW m \in Messages, msg[m].m_state = "Encoded"
      PROVE  Bytes(msg[m].m_block.memory, FrameBegin(msg[m]), msg[m].m_wire) = Wire(text[m])
  <2> DEFINE s == msg[m]
             w == Wire(text[m])
             x == mem[s.m_block.memory]
  <2>1. Sound(s, text[m], x) /\ s \in MessageRecord /\ text[m] \in Seq(Byte)
    BY DEF EndpointInv, Types, Contents
  <2>2. /\ Lies(x, FrameBegin(s), w) /\ s.m_wire = Len(w)
    BY <1>2, <2>1 DEF Sound
  <2>3. w \in Seq(Byte)
    BY <2>1, BodyFacts
  <2>4. SubSeq(x, FrameBegin(s) + 1, FrameBegin(s) + Len(w)) = w
    BY <2>2, <2>3, LiesBytes
  <2> QED BY <2>2, <2>4 DEF Bytes
<1> QED BY <1>1, <1>2 DEF FramesAreExact

-----------------------------------------------------------------------------
(* The theorems.                                                           *)

\* Storage loses no block, takes none back twice and is given back what it
\* granted: a message, a transfer and storage never disagree about a block.
THEOREM EveryBlockHasOneOwner ==
    ASSUME PolicyFits
    PROVE  EndpointSpec => []OneOwner
BY EndpointInvariant, OwnersAreOne, PTL

\* The payload survives growth, moves and refusals, and its frame fits in the
\* block with the work area of the encoder.
THEOREM PayloadsAreKept ==
    ASSUME PolicyFits
    PROVE  EndpointSpec => []PayloadKept
BY EndpointInvariant, PayloadIsKept, PTL

\* What a transport reads, and what a refused message keeps, is the frame of
\* what was appended, byte for byte.
THEOREM EveryFrameIsExact ==
    ASSUME PolicyFits
    PROVE  EndpointSpec => []FramesAreExact
BY EndpointInvariant, FramesHold, PTL

\* A block under a transport is held by the endpoint that asks that transport.
THEOREM EveryBorrowIsHeld ==
    ASSUME PolicyFits
    PROVE  EndpointSpec => []BorrowIsHeld
BY EndpointInvariant, BorrowHolds, PTL
=============================================================================
