--------------------------- MODULE CobsReceiverProofs ---------------------------
(***************************************************************************)
(* No receive block is leaked, freed early or freed twice, for any number  *)
(* of blocks and handles; the receiver writes only into memory it owns;    *)
(* and packets are values, whatever the blocks behind them go through.     *)
(*                                                                         *)
(* The first half is about CobsPackets alone.  Its invariant counts        *)
(* owners: the handles on a block, and one more while it is built or       *)
(* queued.  A block is granted iff it has an owner, and its count is then  *)
(* the number of its owners.  Every move of a Packet is one rebinding of   *)
(* one handle with a reference in flight, and lemma Rebinding says once    *)
(* what that does to the count.                                            *)
(*                                                                         *)
(* The second half is about the receiver: what one byte does to the        *)
(* decoder, what the decoder is like in each stage of a frame (StageOK),   *)
(* and that every step of the receiver is one of the packets and changes   *)
(* no block but the one under way (Kept).                                  *)
(*                                                                         *)
(* The last part is the verdict on a frame.  FrameInv says that what the   *)
(* decoder has put down is what the bytes of the frame so far stand for    *)
(* (Tracks, of CobsFormatProofs), the length field first and the body      *)
(* behind it, or that the frame was given up for a cause that no further   *)
(* byte lifts (Doomed).                                                    *)
(***************************************************************************)
EXTENDS CobsReceiverProps, CobsFormatProofs

Count(p, b) == Cardinality(HoldersOf(p, b))
Base(b) == IF b = m_building \/ b \in Queued THEN 1 ELSE 0
Owners(b) == Count(pkt, b) + Base(b)

OwnersExact ==
    \A b \in Blocks :
        /\ b \in live <=> Owners(b) > 0
        /\ b \in live => refs[b] = Owners(b)

ClosedOK ==
    /\ phase # "open" => m_building = NoBlock /\ \A h \in Handles : pkt[h] = NoBlock
    /\ phase = "closed" => queue = <<>>

IInv == PacketsTypeOK /\ OneStage /\ OwnersExact /\ ListIsQueue /\ ClosedOK

-----------------------------------------------------------------------------
(* Counting handles.                                                       *)

LEMMA CountType ==
    ASSUME NEW p, NEW b
    PROVE  /\ IsFiniteSet(HoldersOf(p, b)) /\ Count(p, b) \in Nat
           /\ Count(p, b) > 0 <=> \E h \in Handles : p[h] = b
<1>1. HoldersOf(p, b) \subseteq Handles
  BY DEF HoldersOf
<1>2. IsFiniteSet(HoldersOf(p, b))
  BY <1>1, PacketsAssumption, FS_Subset
<1>3. Count(p, b) \in Nat
  BY <1>2, FS_CardinalityType DEF Count
<1>4. Count(p, b) = 0 <=> HoldersOf(p, b) = {}
  BY <1>2, FS_EmptySet DEF Count
<1>5. HoldersOf(p, b) = {} <=> ~ \E h \in Handles : p[h] = b
  BY DEF HoldersOf
<1> QED BY <1>2, <1>3, <1>4, <1>5

\* One handle lets go of a block and takes x: the one has a holder less, the
\* other a holder more.
LEMMA Rebinding ==
    ASSUME NEW p \in [Handles -> Pointers], NEW h \in Handles, NEW x \in Pointers,
           NEW b \in Blocks
    PROVE  /\ b = x /\ b # p[h] => Count([p EXCEPT ![h] = x], b) = Count(p, b) + 1
           /\ b # x /\ b = p[h] => Count([p EXCEPT ![h] = x], b) = Count(p, b) - 1
           /\ (b = x <=> b = p[h]) => Count([p EXCEPT ![h] = x], b) = Count(p, b)
<1> DEFINE q == [p EXCEPT ![h] = x]
<1>1. IsFiniteSet(HoldersOf(p, b)) /\ Count(p, b) \in Nat
  BY CountType
<1>2. ASSUME b = x, b # p[h]
      PROVE  Count(q, b) = Count(p, b) + 1
  <2>1. HoldersOf(q, b) = HoldersOf(p, b) \union {h} /\ h \notin HoldersOf(p, b)
    BY <1>2 DEF HoldersOf
  <2> QED BY <1>1, <2>1, FS_AddElement DEF Count
<1>3. ASSUME b # x, b = p[h]
      PROVE  Count(q, b) = Count(p, b) - 1
  <2>1. HoldersOf(q, b) = HoldersOf(p, b) \ {h} /\ h \in HoldersOf(p, b)
    BY <1>3 DEF HoldersOf
  <2> QED BY <1>1, <2>1, FS_RemoveElement DEF Count
<1>4. ASSUME b = x <=> b = p[h]
      PROVE  Count(q, b) = Count(p, b)
  <2>1. HoldersOf(q, b) = HoldersOf(p, b)
    BY <1>4 DEF HoldersOf
  <2> QED BY <2>1 DEF Count
<1> QED BY <1>2, <1>3, <1>4

-----------------------------------------------------------------------------
(* The queue as a set and as links.                                        *)

\* An index that is not the last one has a successor.
LEMMA NotLast ==
    ASSUME NEW n \in Nat, NEW k \in 1 .. n, k # n
    PROVE  k \in 1 .. n - 1 /\ k + 1 \in 1 .. n /\ n \in 1 .. n
OBVIOUS

QueueInjective == \A j, k \in DOMAIN queue : queue[j] = queue[k] => j = k

LEMMA AppendQueued ==
    ASSUME queue \in Seq(Blocks), NEW b \in Blocks, b \notin Queued, QueueInjective,
           queue' = Append(queue, b)
    PROVE  /\ Queued' = Queued \union {b}
           /\ QueueInjective'
           /\ queue' \in Seq(Blocks) /\ queue' # <<>> /\ Len(queue') = Len(queue) + 1
           /\ queue'[Len(queue')] = b
           /\ \A k \in DOMAIN queue : queue'[k] = queue[k]
<1>1. /\ queue' \in Seq(Blocks) /\ Len(queue') = Len(queue) + 1 /\ Len(queue) \in Nat
      /\ DOMAIN queue = 1 .. Len(queue) /\ DOMAIN queue' = 1 .. Len(queue) + 1
      /\ queue'[Len(queue) + 1] = b
      /\ \A k \in 1 .. Len(queue) : queue'[k] = queue[k]
  OBVIOUS
<1>2. Queued' = Queued \union {b}
  BY <1>1 DEF Queued
<1>3. QueueInjective'
  <2> SUFFICES ASSUME NEW j \in 1 .. Len(queue) + 1, NEW k \in 1 .. Len(queue) + 1,
                      queue'[j] = queue'[k]
               PROVE  j = k
    BY <1>1 DEF QueueInjective
  <2>1. CASE j \in 1 .. Len(queue) /\ k \in 1 .. Len(queue)
    BY <1>1, <2>1 DEF QueueInjective
  <2>2. CASE j = Len(queue) + 1 /\ k \in 1 .. Len(queue)
    BY <1>1, <2>2 DEF Queued
  <2>3. CASE k = Len(queue) + 1 /\ j \in 1 .. Len(queue)
    BY <1>1, <2>3 DEF Queued
  <2> QED BY <1>1, <2>1, <2>2, <2>3
<1>4. queue' # <<>>
  BY <1>1
<1> QED BY <1>1, <1>2, <1>3, <1>4

LEMMA TailQueued ==
    ASSUME queue \in Seq(Blocks), queue # <<>>, QueueInjective, queue' = Tail(queue)
    PROVE  /\ Queued' = Queued \ {queue[1]} /\ queue[1] \in Queued
           /\ QueueInjective'
           /\ queue' \in Seq(Blocks)
<1>1. /\ queue' \in Seq(Blocks) /\ Len(queue') = Len(queue) - 1
      /\ Len(queue) \in Nat \ {0}
      /\ DOMAIN queue = 1 .. Len(queue) /\ DOMAIN queue' = 1 .. Len(queue) - 1
      /\ \A k \in 1 .. Len(queue) - 1 : queue'[k] = queue[k + 1]
  OBVIOUS
<1>2. Queued' \subseteq Queued \ {queue[1]}
  <2> SUFFICES ASSUME NEW k \in 1 .. Len(queue) - 1
               PROVE  queue[k + 1] \in Queued /\ queue[k + 1] # queue[1]
    BY <1>1 DEF Queued
  <2>1. k + 1 \in 1 .. Len(queue) /\ k + 1 # 1 /\ 1 \in 1 .. Len(queue)
    BY <1>1
  <2> QED BY <1>1, <2>1 DEF Queued, QueueInjective
<1>3. Queued \ {queue[1]} \subseteq Queued'
  <2> SUFFICES ASSUME NEW k \in 1 .. Len(queue), queue[k] # queue[1]
               PROVE  queue[k] \in Queued'
    BY <1>1 DEF Queued
  <2>1. k - 1 \in 1 .. Len(queue) - 1 /\ (k - 1) + 1 = k
    BY <1>1
  <2>2. queue'[k - 1] = queue[k]
    BY <1>1, <2>1
  <2> QED BY <1>1, <2>1, <2>2 DEF Queued
<1>4. QueueInjective'
  <2> SUFFICES ASSUME NEW j \in 1 .. Len(queue) - 1, NEW k \in 1 .. Len(queue) - 1,
                      queue[j + 1] = queue[k + 1]
               PROVE  j = k
    BY <1>1 DEF QueueInjective
  <2>1. j + 1 \in 1 .. Len(queue) /\ k + 1 \in 1 .. Len(queue)
    BY <1>1
  <2>2. j + 1 = k + 1
    BY <1>1, <2>1 DEF QueueInjective
  <2> QED BY <2>2
<1>5. queue[1] \in Queued
  BY <1>1 DEF Queued
<1> QED BY <1>1, <1>2, <1>3, <1>4, <1>5

\* Enqueueing a block that is not in the list keeps the links right.
LEMMA EnqueueLinks ==
    ASSUME PacketsTypeOK, ListIsQueue, QueueInjective,
           NEW b \in Blocks, b \notin Queued, Enqueue(b, next_ready)
    PROVE  /\ ListIsQueue'
           /\ next_ready' \in [Blocks -> Pointers]
           /\ m_readyHead' \in Pointers /\ m_readyTail' \in Pointers
<1>1. queue \in Seq(Blocks) /\ queue' = Append(queue, b)
  BY DEF PacketsTypeOK, Enqueue
<1>2. /\ Len(queue) \in Nat /\ DOMAIN queue = 1 .. Len(queue)
      /\ \A k \in 1 .. Len(queue) : queue[k] \in Blocks
      /\ queue = <<>> <=> Len(queue) = 0
  BY <1>1
<1>3. /\ queue' # <<>> /\ Len(queue') = Len(queue) + 1 /\ queue'[Len(queue) + 1] = b
      /\ \A k \in 1 .. Len(queue) : queue'[k] = queue[k]
  BY <1>1, <1>2, AppendQueued
<1>4. /\ m_readyTail' = b
      /\ m_readyHead' = (IF m_readyTail = NoBlock THEN b ELSE m_readyHead)
      /\ next_ready' = [c \in Blocks |-> IF c = b THEN NoBlock
                                         ELSE IF c = m_readyTail THEN b ELSE next_ready[c]]
  BY DEF Enqueue
<1>5. next_ready'[b] = NoBlock
  BY <1>4
<1>6. m_readyHead' = queue'[1]
  <2>1. CASE queue = <<>>
    BY <1>2, <1>3, <1>4, <2>1 DEF ListIsQueue
  <2>2. CASE queue # <<>>
    <3>1. 1 \in 1 .. Len(queue) /\ Len(queue) \in 1 .. Len(queue)
      BY <1>2, <2>2
    <3>2. m_readyTail # NoBlock
      BY <1>2, <2>2, <3>1, PacketsAssumption DEF ListIsQueue
    <3> QED BY <1>3, <1>4, <2>2, <3>1, <3>2 DEF ListIsQueue
  <2> QED BY <2>1, <2>2
<1>7. ASSUME NEW k \in 1 .. Len(queue)
      PROVE  next_ready'[queue'[k]] = queue'[k + 1]
  <2>1. queue'[k] = queue[k] /\ queue[k] \in Blocks /\ queue[k] # b /\ queue # <<>>
    BY <1>2, <1>3, <1>7 DEF Queued
  <2>2. CASE k = Len(queue)
    BY <1>2, <1>3, <1>4, <2>1, <2>2 DEF ListIsQueue
  <2>3. CASE k # Len(queue)
    <3>1. k \in 1 .. Len(queue) - 1 /\ k + 1 \in 1 .. Len(queue)
          /\ Len(queue) \in 1 .. Len(queue)
      BY <1>2, <2>3, NotLast
    <3>2. queue[k] # m_readyTail
      BY <1>2, <2>1, <2>3, <3>1 DEF ListIsQueue, QueueInjective
    <3>3. next_ready[queue[k]] = queue[k + 1]
      BY <2>1, <3>1 DEF ListIsQueue
    <3> QED BY <1>3, <1>4, <2>1, <3>1, <3>2, <3>3
  <2> QED BY <2>2, <2>3
<1>8. ListIsQueue'
  BY <1>2, <1>3, <1>4, <1>5, <1>6, <1>7 DEF ListIsQueue
<1>9. next_ready' \in [Blocks -> Pointers] /\ m_readyHead' \in Pointers /\ m_readyTail' \in Pointers
  BY <1>4 DEF PacketsTypeOK, Pointers
<1> QED BY <1>8, <1>9

\* So does dequeueing, and the block taken is the oldest.
LEMMA DequeueLinks ==
    ASSUME PacketsTypeOK, ListIsQueue, QueueInjective, m_readyHead # NoBlock, Dequeue
    PROVE  /\ queue # <<>> /\ m_readyHead = queue[1] /\ m_readyHead \in Blocks
           /\ ListIsQueue'
           /\ next_ready' \in [Blocks -> Pointers]
           /\ m_readyHead' \in Pointers /\ m_readyTail' \in Pointers
<1>1. queue # <<>> /\ m_readyHead = queue[1]
  BY DEF ListIsQueue
<1>2. /\ Len(queue) \in Nat \ {0} /\ DOMAIN queue = 1 .. Len(queue)
      /\ \A k \in 1 .. Len(queue) : queue[k] \in Blocks
      /\ queue' = Tail(queue) /\ Len(queue') = Len(queue) - 1
      /\ \A k \in 1 .. Len(queue) - 1 : queue'[k] = queue[k + 1]
      /\ queue' = <<>> <=> Len(queue) = 1
  <2>1. queue \in Seq(Blocks) /\ queue' = Tail(queue)
    BY DEF PacketsTypeOK, Dequeue
  <2>2. Len(queue) \in Nat \ {0} /\ DOMAIN queue = 1 .. Len(queue)
    BY <1>1, <2>1
  <2>3. Len(queue') = Len(queue) - 1
    BY <1>1, <2>1, <2>2
  <2>4. \A k \in 1 .. Len(queue) - 1 : queue'[k] = queue[k + 1]
    BY <1>1, <2>1, <2>2
  <2>5. queue' \in Seq(Blocks)
    BY <1>1, <2>1
  <2>6. queue' = <<>> <=> Len(queue) = 1
    BY <2>2, <2>3, <2>5
  <2> QED BY <2>1, <2>2, <2>3, <2>4, <2>6
<1>3. m_readyHead \in Blocks
  BY <1>1, <1>2
<1>4. next_ready' = [next_ready EXCEPT ![m_readyHead] = NoBlock]
      /\ m_readyHead' = next_ready[m_readyHead]
      /\ m_readyTail' = IF next_ready[m_readyHead] = NoBlock THEN NoBlock ELSE m_readyTail
  BY DEF Dequeue
<1>5. next_ready' \in [Blocks -> Pointers] /\ m_readyHead' \in Pointers /\ m_readyTail' \in Pointers
  BY <1>3, <1>4 DEF PacketsTypeOK, Pointers
<1>6. CASE Len(queue) = 1
  <2>1. next_ready[m_readyHead] = NoBlock
    BY <1>1, <1>6 DEF ListIsQueue
  <2> QED BY <1>1, <1>2, <1>3, <1>4, <1>5, <1>6, <2>1 DEF ListIsQueue
<1>7. CASE Len(queue) # 1
  <2>1. 1 \in 1 .. Len(queue) - 1 /\ 2 \in 1 .. Len(queue) /\ Len(queue) \in 1 .. Len(queue)
    BY <1>2, <1>7
  <2>2. next_ready[m_readyHead] = queue[2] /\ queue[2] # NoBlock
    BY <1>1, <1>2, <2>1, PacketsAssumption DEF ListIsQueue
  <2>3. m_readyHead' = queue'[1] /\ m_readyTail' = queue'[Len(queue')]
    <3>1. queue'[1] = queue[2] /\ queue'[Len(queue) - 1] = queue[Len(queue)]
      BY <1>2, <1>7
    <3> QED BY <1>1, <1>2, <1>4, <2>2, <3>1 DEF ListIsQueue
  <2>4. ASSUME NEW k \in 2 .. Len(queue)
        PROVE  queue[k] # m_readyHead /\ queue[k] \in Blocks
               /\ next_ready'[queue[k]] = next_ready[queue[k]]
    <3>1. k \in 1 .. Len(queue) /\ 1 \in 1 .. Len(queue) /\ k # 1
      BY <1>2, <2>4
    <3>2. queue[k] # queue[1]
      BY <1>2, <3>1 DEF QueueInjective
    <3>3. queue[k] \in Blocks
      BY <1>2, <3>1
    <3> QED BY <1>1, <1>3, <1>4, <3>2, <3>3 DEF PacketsTypeOK
  <2>5. next_ready'[queue'[Len(queue')]] = NoBlock
    <3>1. Len(queue) \in 2 .. Len(queue) /\ queue'[Len(queue')] = queue[Len(queue)]
      BY <1>2, <1>7
    <3> QED BY <1>1, <2>4, <3>1 DEF ListIsQueue
  <2>6. ASSUME NEW k \in 1 .. Len(queue') - 1
        PROVE  next_ready'[queue'[k]] = queue'[k + 1]
    <3>1. /\ k + 1 \in 2 .. Len(queue) /\ k + 1 \in 1 .. Len(queue) - 1
          /\ k \in 1 .. Len(queue) - 1
      BY <1>2, <2>6
    <3>2. queue'[k] = queue[k + 1] /\ queue'[k + 1] = queue[(k + 1) + 1]
      BY <1>2, <3>1
    <3>3. next_ready[queue[k + 1]] = queue[(k + 1) + 1]
      BY <1>1, <3>1 DEF ListIsQueue
    <3> QED BY <2>4, <3>1, <3>2, <3>3
  <2>7. queue' # <<>>
    BY <1>2, <1>7
  <2> HIDE DEF ListIsQueue
  <2>8. ListIsQueue'
    BY <2>3, <2>5, <2>6, <2>7 DEF ListIsQueue
  <2> QED BY <1>1, <1>3, <1>5, <2>8
<1> QED BY <1>6, <1>7

-----------------------------------------------------------------------------
(* Owners.                                                                 *)

LEMMA BlockOrNot == \A b \in Blocks : b # NoBlock
BY PacketsAssumption

LEMMA OwnersType ==
    ASSUME NEW b
    PROVE  /\ Count(pkt, b) \in Nat /\ Base(b) \in {0, 1} /\ Owners(b) \in Nat
           /\ Count(pkt, b)' \in Nat /\ Base(b)' \in {0, 1} /\ Owners(b)' \in Nat
           /\ b \in Blocks => (Count(pkt, b) > 0 <=> b \in Held)
<1>1. Count(pkt, b) \in Nat /\ Count(pkt', b) \in Nat
      /\ (Count(pkt, b) > 0 <=> \E h \in Handles : pkt[h] = b)
  BY CountType
<1>2. Count(pkt, b)' = Count(pkt', b)
  BY DEF Count, HoldersOf
<1>3. Base(b) \in {0, 1} /\ Base(b)' \in {0, 1}
  BY DEF Base
<1> QED BY <1>1, <1>2, <1>3 DEF Owners, Held

\* The references to b when the handles are p, x is in flight to one of them
\* and the receiver holds what it holds after the step.
InFlight(p, x, b) == Count(p, b) + (IF b = x THEN 1 ELSE 0)

\* One handle lets its old reference go and takes the one in flight.
LEMMA Assigned ==
    ASSUME live \in SUBSET Blocks, NEW p \in [Handles -> Pointers],
           NEW r \in [Blocks -> Nat], NEW h \in Handles, NEW x \in Pointers,
           NEW y \in Pointers, y = p[h],
           \A b \in Blocks : b \in live <=> InFlight(p, x, b) + Base(b)' > 0,
           \A b \in live : r[b] = InFlight(p, x, b) + Base(b)',
           pkt' = [p EXCEPT ![h] = x],
           Release(r, y)
    PROVE  /\ live' \in SUBSET Blocks /\ refs' \in [Blocks -> Nat]
           /\ pkt' \in [Handles -> Pointers]
           /\ OwnersExact'
<1>1. ASSUME NEW b \in Blocks
      PROVE  /\ InFlight(p, x, b) = Count(pkt, b)' + (IF b = y THEN 1 ELSE 0)
             /\ Count(pkt, b)' \in Nat /\ Base(b)' \in {0, 1}
             /\ Owners(b)' = Count(pkt, b)' + Base(b)'
  <2> DEFINE q == [p EXCEPT ![h] = x]
  <2>1. /\ b = x /\ b # p[h] => Count(q, b) = Count(p, b) + 1
        /\ b # x /\ b = p[h] => Count(q, b) = Count(p, b) - 1
        /\ (b = x <=> b = p[h]) => Count(q, b) = Count(p, b)
    BY <1>1, Rebinding
  <2>2. Count(pkt, b)' = Count(q, b)
    BY DEF Count, HoldersOf
  <2>3. Count(p, b) \in Nat /\ Count(q, b) \in Nat
    BY CountType
  <2> HIDE DEF q
  <2> QED BY <2>1, <2>2, <2>3, OwnersType DEF Owners, InFlight
<1>2. ASSUME NEW b \in Blocks, b \notin live
      PROVE  b \notin live' /\ Owners(b)' = 0
  <2>1. b \notin live'
    BY <1>2 DEF Release, LiveReleased
  <2>2. Owners(b)' = 0
    BY <1>1, <1>2
  <2> QED BY <2>1, <2>2
<1>3. ASSUME NEW b \in Blocks, b \in live, b # y
      PROVE  b \in live' /\ refs'[b] = r[b] /\ Owners(b)' > 0 /\ refs'[b] = Owners(b)'
  <2>1. b \in live' /\ refs'[b] = r[b]
    BY <1>3 DEF Release, RefsReleased, LiveReleased, Pointers
  <2>2. r[b] = Owners(b)' /\ Owners(b)' > 0
    BY <1>1, <1>3
  <2> QED BY <2>1, <2>2
<1>4. ASSUME NEW b \in Blocks, b = y
      PROVE  /\ b \in live /\ r[b] > 0 /\ refs'[b] = r[b] - 1 /\ refs'[b] = Owners(b)'
             /\ b \in live' <=> Owners(b)' > 0
  <2>1. b \in live /\ r[b] = Owners(b)' + 1 /\ Owners(b)' \in Nat
    BY <1>1, <1>4
  <2>2. refs' = [r EXCEPT ![b] = @ - 1] /\ live' = IF r[b] = 1 THEN live \ {b} ELSE live
    BY <1>4, BlockOrNot DEF Release, RefsReleased, LiveReleased
  <2> QED BY <2>1, <2>2
<1>5. live' \in SUBSET Blocks
  BY DEF Release, LiveReleased
<1>6. refs' \in [Blocks -> Nat]
  <2>1. CASE y = NoBlock
    BY <2>1 DEF Release, RefsReleased
  <2>2. CASE y # NoBlock
    <3>1. y \in Blocks /\ r[y] > 0 /\ r[y] \in Nat
      BY <1>4, <2>2 DEF Pointers
    <3>2. refs' = [r EXCEPT ![y] = r[y] - 1]
      BY <2>2 DEF Release, RefsReleased
    <3> QED BY <3>1, <3>2
  <2> QED BY <2>1, <2>2
<1>7. OwnersExact'
  <2> SUFFICES ASSUME NEW b \in Blocks
               PROVE  /\ b \in live' <=> Owners(b)' > 0
                      /\ b \in live' => refs'[b] = Owners(b)'
    BY DEF OwnersExact
  <2>1. CASE b \notin live
    BY <2>1, <1>2
  <2>2. CASE b \in live /\ b # y
    BY <2>2, <1>3
  <2>3. CASE b = y
    BY <2>3, <1>4
  <2> QED BY <2>1, <2>2, <2>3
<1>8. pkt' \in [Handles -> Pointers]
  OBVIOUS
<1> QED BY <1>5, <1>6, <1>7, <1>8

-----------------------------------------------------------------------------
LEMMA InitIInv == PacketsInit => IInv
<1> SUFFICES ASSUME PacketsInit
             PROVE  IInv
  OBVIOUS
<1>1. Queued = {} /\ Held = {} /\ DOMAIN queue = {}
  BY PacketsAssumption DEF PacketsInit, Queued, Held
<1>2. PacketsTypeOK
  BY DEF PacketsInit, PacketsTypeOK, Pointers
<1>3. OwnersExact
  <2> SUFFICES ASSUME NEW b \in Blocks
               PROVE  Owners(b) = 0
    BY DEF OwnersExact, PacketsInit
  <2> QED BY <1>1, OwnersType, BlockOrNot DEF Owners, Base, PacketsInit
<1>4. OneStage /\ ListIsQueue /\ ClosedOK
  BY <1>1 DEF PacketsInit, OneStage, ListIsQueue, ClosedOK
<1> QED BY <1>2, <1>3, <1>4 DEF IInv

\* The invariant by its parts, and what every step starts from.
LEMMA Facts ==
    ASSUME IInv
    PROVE  /\ PacketsTypeOK /\ OneStage /\ OwnersExact /\ ListIsQueue /\ ClosedOK
           /\ QueueInjective
           /\ Queued \subseteq Blocks /\ Held \subseteq Blocks
           /\ \A b \in Blocks : b \in Held \/ b \in Queued \/ b = m_building <=> b \in live
<1>1. PacketsTypeOK /\ OneStage /\ OwnersExact /\ ListIsQueue /\ ClosedOK /\ QueueInjective
  BY DEF IInv, OneStage, QueueInjective
<1>2. Queued \subseteq Blocks
  <2>1. queue \in Seq(Blocks)
    BY <1>1 DEF PacketsTypeOK
  <2>2. \A k \in DOMAIN queue : queue[k] \in Blocks
    BY <2>1
  <2> QED BY <2>2 DEF Queued
<1>3. ASSUME NEW b \in Blocks
      PROVE  b \in Held \/ b \in Queued \/ b = m_building <=> b \in live
  <2>1. b \in live <=> Count(pkt, b) + Base(b) > 0
    BY <1>1, <1>3 DEF OwnersExact, Owners
  <2>2. Count(pkt, b) \in Nat /\ Base(b) \in {0, 1} /\ (Count(pkt, b) > 0 <=> b \in Held)
    BY <1>3, OwnersType
  <2>3. Base(b) = 1 <=> b \in Queued \/ b = m_building
    BY DEF Base
  <2> QED BY <2>1, <2>2, <2>3
<1> QED BY <1>1, <1>2, <1>3 DEF Held

\* Steps that change what the receiver holds and no handle: the owners of
\* each block follow the receiver's own reference.
LEMMA ReceiverStep ==
    ASSUME IInv, UNCHANGED pkt,
           live' \in SUBSET Blocks,
           \A b \in Blocks :
              \/ Base(b)' = Base(b) /\ (b \in live' <=> b \in live) /\ refs'[b] = refs[b]
              \/ Base(b)' = 1 /\ b \notin live /\ b \in live' /\ refs'[b] = 1
              \/ Base(b)' = 0 /\ b \notin Held /\ b \notin live'
    PROVE  OwnersExact'
<1> SUFFICES ASSUME NEW b \in Blocks
             PROVE  /\ b \in live' <=> Owners(b)' > 0
                    /\ b \in live' => refs'[b] = Owners(b)'
  BY DEF OwnersExact
<1>1. /\ Count(pkt, b)' = Count(pkt, b) /\ Count(pkt, b) \in Nat /\ Base(b) \in {0, 1}
      /\ Count(pkt, b) > 0 <=> b \in Held
  BY OwnersType DEF Count, HoldersOf
<1>2. Owners(b) = Count(pkt, b) + Base(b) /\ Owners(b)' = Count(pkt, b) + Base(b)'
  BY <1>1 DEF Owners
<1>3. (b \in live <=> Owners(b) > 0) /\ (b \in live => refs[b] = Owners(b))
  BY Facts DEF OwnersExact
<1>4. CASE Base(b)' = Base(b) /\ (b \in live' <=> b \in live) /\ refs'[b] = refs[b]
  BY <1>2, <1>3, <1>4
<1>5. CASE Base(b)' = 1 /\ b \notin live /\ b \in live' /\ refs'[b] = 1
  BY <1>1, <1>2, <1>3, <1>5
<1>6. CASE Base(b)' = 0 /\ b \notin Held /\ b \notin live'
  BY <1>1, <1>2, <1>6
<1> QED BY <1>4, <1>5, <1>6

-----------------------------------------------------------------------------
(* The application's steps.                                                *)

\* What a step of a handle must still show once its owners are counted.
LEMMA HandleStep ==
    ASSUME IInv, phase = "open", UNCHANGED <<next_ready, m_building, lists, phase>>,
           live' \in SUBSET Blocks, refs' \in [Blocks -> Nat],
           pkt' \in [Handles -> Pointers], OwnersExact', Held' \subseteq Held
    PROVE  IInv'
<1>1. Queued' = Queued
  BY DEF Queued, lists
<1>2. OneStage'
  BY <1>1, Facts DEF OneStage, lists
<1>3. PacketsTypeOK' /\ ListIsQueue' /\ ClosedOK'
  BY Facts DEF PacketsTypeOK, ListIsQueue, ClosedOK, lists
<1> QED BY <1>2, <1>3 DEF IInv

LEMMA SameBase ==
    ASSUME UNCHANGED <<m_building, lists>>, NEW b
    PROVE  Base(b)' = Base(b)
BY DEF Base, Queued, lists

\* The owners before a step, as Assigned counts them.
LEMMA OwnersNow ==
    ASSUME IInv, NEW b \in Blocks
    PROVE  /\ Count(pkt, b) \in Nat /\ Base(b) \in {0, 1}
           /\ b \in live <=> Count(pkt, b) + Base(b) > 0
           /\ b \in live => refs[b] = Count(pkt, b) + Base(b)
           /\ b \in Held <=> Count(pkt, b) > 0
BY Facts, OwnersType DEF OwnersExact, Owners

LEMMA ResetStep ==
    ASSUME IInv, phase = "open", NEW h \in Handles, Reset(h)
    PROVE  IInv'
<1>1. /\ live \in SUBSET Blocks /\ refs \in [Blocks -> Nat] /\ pkt \in [Handles -> Pointers]
      /\ pkt[h] \in Pointers /\ NoBlock \in Pointers
  BY Facts DEF PacketsTypeOK, Pointers
<1>2. /\ \A b \in Blocks : InFlight(pkt, NoBlock, b) + Base(b)' = Count(pkt, b) + Base(b)
      /\ UNCHANGED <<next_ready, m_building, lists, phase>>
      /\ Release(refs, pkt[h]) /\ pkt' = [pkt EXCEPT ![h] = NoBlock]
  BY SameBase, BlockOrNot, OwnersNow DEF InFlight, Reset
<1>3. PICK y \in Pointers : y = pkt[h]
  BY <1>1
<1>4. PICK p \in [Handles -> Pointers] : p = pkt
  BY <1>1
<1>5. PICK r \in [Blocks -> Nat] : r = refs
  BY <1>1
<1>6. PICK x \in Pointers : x = NoBlock
  BY <1>1
<1>7. \A b \in Blocks : b \in live <=> InFlight(p, x, b) + Base(b)' > 0
  BY <1>2, <1>4, <1>6, OwnersNow
<1>8. \A b \in live : r[b] = InFlight(p, x, b) + Base(b)'
  BY <1>1, <1>2, <1>4, <1>5, <1>6, OwnersNow
<1>9. y = p[h] /\ pkt' = [p EXCEPT ![h] = x] /\ Release(r, y)
  BY <1>2, <1>3, <1>4, <1>5, <1>6
<1>10. /\ live' \in SUBSET Blocks /\ refs' \in [Blocks -> Nat]
       /\ pkt' \in [Handles -> Pointers] /\ OwnersExact'
  BY <1>1, <1>7, <1>8, <1>9, Assigned
<1>11. Held' \subseteq Held
  BY <1>1, <1>2, BlockOrNot DEF Held
<1> QED BY <1>2, <1>10, <1>11, HandleStep

LEMMA CopyStep ==
    ASSUME IInv, phase = "open", NEW h \in Handles, NEW g \in Handles, CopyAssign(h, g)
    PROVE  IInv'
<1>1. /\ live \in SUBSET Blocks /\ refs \in [Blocks -> Nat] /\ pkt \in [Handles -> Pointers]
      /\ pkt[h] \in Pointers /\ pkt[g] \in Pointers
  BY Facts DEF PacketsTypeOK
<1>2. UNCHANGED <<next_ready, m_building, lists, phase>> /\ pkt' = [pkt EXCEPT ![h] = pkt[g]]
  BY DEF CopyAssign
<1>3. PICK y \in Pointers : y = pkt[h]
  BY <1>1
<1>4. PICK p \in [Handles -> Pointers] : p = pkt
  BY <1>1
<1>5. PICK x \in Pointers : x = pkt[g]
  BY <1>1
<1>6. PICK r \in [Blocks -> Nat] :
        r = IF x = NoBlock THEN refs ELSE [refs EXCEPT ![x] = @ + 1]
  <2>1. CASE x = NoBlock
    BY <1>1, <2>1
  <2>2. CASE x # NoBlock
    <3>1. x \in Blocks /\ refs[x] \in Nat
      BY <1>1, <2>2 DEF Pointers
    <3>2. [refs EXCEPT ![x] = refs[x] + 1] \in [Blocks -> Nat]
      BY <1>1, <3>1
    <3> QED BY <2>2, <3>2
  <2> QED BY <2>1, <2>2
<1>7. ASSUME NEW b \in Blocks
      PROVE  /\ b = x => InFlight(p, x, b) + Base(b)' = Count(pkt, b) + Base(b) + 1
                         /\ r[b] = refs[b] + 1 /\ b \in live
             /\ b # x => InFlight(p, x, b) + Base(b)' = Count(pkt, b) + Base(b)
                         /\ r[b] = refs[b]
  <2>1. Base(b)' = Base(b) /\ Count(p, b) = Count(pkt, b) /\ Count(pkt, b) \in Nat
        /\ Base(b) \in {0, 1}
    BY <1>2, <1>4, <1>7, SameBase, OwnersNow
  <2>2. ASSUME b = x
        PROVE  r[b] = refs[b] + 1 /\ b \in live
    <3>1. b \in Held /\ b # NoBlock
      BY <1>1, <1>5, <1>7, <2>2, BlockOrNot DEF Held
    <3>2. b \in live
      BY <1>7, <3>1, Facts
    <3> QED BY <1>1, <1>6, <1>7, <2>2, <3>1, <3>2
  <2>3. ASSUME b # x
        PROVE  r[b] = refs[b]
    BY <1>1, <1>6, <1>7, <2>3
  <2> QED BY <2>1, <2>2, <2>3 DEF InFlight
<1>8. \A b \in Blocks : b \in live <=> InFlight(p, x, b) + Base(b)' > 0
  BY <1>7, OwnersNow
<1>9. \A b \in live : r[b] = InFlight(p, x, b) + Base(b)'
  BY <1>1, <1>7, OwnersNow
<1>10. y = p[h] /\ pkt' = [p EXCEPT ![h] = x] /\ Release(r, y)
  BY <1>2, <1>3, <1>4, <1>5, <1>6 DEF CopyAssign
<1>11. /\ live' \in SUBSET Blocks /\ refs' \in [Blocks -> Nat]
       /\ pkt' \in [Handles -> Pointers] /\ OwnersExact'
  BY <1>1, <1>8, <1>9, <1>10, Assigned
<1>12. Held' \subseteq Held
  BY <1>1, <1>2 DEF Held
<1> QED BY <1>2, <1>11, <1>12, HandleStep

LEMMA MoveStep ==
    ASSUME IInv, phase = "open", NEW h \in Handles, NEW g \in Handles, MoveAssign(h, g)
    PROVE  IInv'
<1>1. /\ live \in SUBSET Blocks /\ refs \in [Blocks -> Nat] /\ pkt \in [Handles -> Pointers]
      /\ pkt[h] \in Pointers /\ pkt[g] \in Pointers /\ NoBlock \in Pointers
  BY Facts DEF PacketsTypeOK, Pointers
<1>2. /\ UNCHANGED <<next_ready, m_building, lists, phase>> /\ h # g
      /\ pkt' = [pkt EXCEPT ![h] = pkt[g], ![g] = NoBlock]
  BY DEF MoveAssign
<1>3. PICK y \in Pointers : y = pkt[h]
  BY <1>1
<1>4. PICK p \in [Handles -> Pointers] : p = [pkt EXCEPT ![g] = NoBlock]
  BY <1>1
<1>5. PICK x \in Pointers : x = pkt[g]
  BY <1>1
<1>6. PICK r \in [Blocks -> Nat] : r = refs
  BY <1>1
<1>7. ASSUME NEW b \in Blocks
      PROVE  InFlight(p, x, b) + Base(b)' = Count(pkt, b) + Base(b)
  <2>1. Base(b)' = Base(b) /\ Count(pkt, b) \in Nat /\ Base(b) \in {0, 1} /\ b # NoBlock
    BY <1>2, <1>7, SameBase, OwnersNow, BlockOrNot
  <2>2. /\ b # NoBlock /\ b = pkt[g] => Count(p, b) = Count(pkt, b) - 1
        /\ (b = NoBlock <=> b = pkt[g]) => Count(p, b) = Count(pkt, b)
    <3>1. PICK z \in Pointers : z = NoBlock
      BY <1>1
    <3>2. PICK q \in [Handles -> Pointers] : q = pkt
      BY <1>1
    <3>3. /\ b = z /\ b # q[g] => Count([q EXCEPT ![g] = z], b) = Count(q, b) + 1
          /\ b # z /\ b = q[g] => Count([q EXCEPT ![g] = z], b) = Count(q, b) - 1
          /\ (b = z <=> b = q[g]) => Count([q EXCEPT ![g] = z], b) = Count(q, b)
      BY <1>7, Rebinding
    <3> QED BY <1>4, <3>1, <3>2, <3>3
  <2>3. Count(p, b) \in Nat
    BY CountType
  <2> QED BY <1>5, <2>1, <2>2, <2>3 DEF InFlight
<1>8. \A b \in Blocks : b \in live <=> InFlight(p, x, b) + Base(b)' > 0
  BY <1>7, OwnersNow
<1>9. \A b \in live : r[b] = InFlight(p, x, b) + Base(b)'
  BY <1>1, <1>6, <1>7, OwnersNow
<1>10. y = p[h] /\ pkt' = [p EXCEPT ![h] = x] /\ Release(r, y)
  BY <1>1, <1>2, <1>3, <1>4, <1>5, <1>6 DEF MoveAssign
<1>11. /\ live' \in SUBSET Blocks /\ refs' \in [Blocks -> Nat]
       /\ pkt' \in [Handles -> Pointers] /\ OwnersExact'
  BY <1>1, <1>8, <1>9, <1>10, Assigned
<1>12. Held' \subseteq Held
  BY <1>1, <1>2, BlockOrNot DEF Held
<1> QED BY <1>2, <1>11, <1>12, HandleStep

LEMMA PopStep ==
    ASSUME IInv, NEW h \in Handles, PopInto(h)
    PROVE  IInv'
<1>1. /\ live \in SUBSET Blocks /\ refs \in [Blocks -> Nat] /\ pkt \in [Handles -> Pointers]
      /\ pkt[h] \in Pointers /\ m_readyHead \in Pointers
  BY Facts DEF PacketsTypeOK
<1>2. /\ phase = "open" /\ UNCHANGED <<m_building, phase>>
      /\ pkt' = [pkt EXCEPT ![h] = m_readyHead] /\ Release(refs, pkt[h])
  BY DEF PopInto
<1>3. CASE m_readyHead = NoBlock
  BY <1>2, <1>3, ResetStep DEF PopInto, Reset
<1>4. CASE m_readyHead # NoBlock
  <2>1. /\ queue # <<>> /\ m_readyHead = queue[1] /\ m_readyHead \in Blocks
        /\ ListIsQueue' /\ next_ready' \in [Blocks -> Pointers]
        /\ m_readyHead' \in Pointers /\ m_readyTail' \in Pointers
        /\ queue' = Tail(queue)
    BY <1>4, Facts, DequeueLinks DEF PopInto, Dequeue
  <2>2. /\ Queued' = Queued \ {m_readyHead} /\ m_readyHead \in Queued
        /\ QueueInjective' /\ queue' \in Seq(Blocks)
    BY <2>1, Facts, TailQueued DEF PacketsTypeOK
  <2>3. PICK y \in Pointers : y = pkt[h]
    BY <1>1
  <2>4. PICK p \in [Handles -> Pointers] : p = pkt
    BY <1>1
  <2>5. PICK x \in Pointers : x = m_readyHead
    BY <1>1
  <2>6. PICK r \in [Blocks -> Nat] : r = refs
    BY <1>1
  <2>7. x # m_building /\ x \notin Held
    BY <2>2, <2>5, Facts DEF OneStage
  <2>8. ASSUME NEW b \in Blocks
        PROVE  InFlight(p, x, b) + Base(b)' = Count(pkt, b) + Base(b)
    <3>1. CASE b = x
      <4>1. Base(b) = 1
        BY <2>2, <2>5, <3>1 DEF Base
      <4>2. Base(b)' = 0
        BY <1>2, <2>2, <2>5, <2>7, <3>1 DEF Base
      <4> QED BY <2>4, <2>8, <3>1, <4>1, <4>2, OwnersNow DEF InFlight
    <3>2. CASE b # x
      <4>1. Base(b)' = Base(b)
        BY <1>2, <2>2, <2>5, <3>2 DEF Base
      <4> QED BY <2>4, <2>8, <3>2, <4>1, OwnersNow DEF InFlight
    <3> QED BY <3>1, <3>2
  <2>9. \A b \in Blocks : b \in live <=> InFlight(p, x, b) + Base(b)' > 0
    BY <2>8, OwnersNow
  <2>10. \A b \in live : r[b] = InFlight(p, x, b) + Base(b)'
    BY <1>1, <2>6, <2>8, OwnersNow
  <2>11. y = p[h] /\ pkt' = [p EXCEPT ![h] = x] /\ Release(r, y)
    BY <1>2, <2>3, <2>4, <2>5, <2>6
  <2>12. /\ live' \in SUBSET Blocks /\ refs' \in [Blocks -> Nat]
         /\ pkt' \in [Handles -> Pointers] /\ OwnersExact'
    BY <1>1, <2>9, <2>10, <2>11, Assigned
  <2>13. Held' \subseteq Held \union {m_readyHead}
    BY <1>1, <1>2 DEF Held
  <2>14. OneStage'
    BY <1>2, <2>2, <2>5, <2>7, <2>13, Facts DEF OneStage, QueueInjective
  <2>15. PacketsTypeOK'
    BY <1>2, <2>1, <2>2, <2>12, Facts DEF PacketsTypeOK
  <2>16. ClosedOK'
    BY <1>2 DEF ClosedOK
  <2> QED BY <2>1, <2>12, <2>14, <2>15, <2>16 DEF IInv
<1> QED BY <1>3, <1>4

-----------------------------------------------------------------------------
(* The receiver's steps.                                                   *)

LEMMA AcquireStep ==
    ASSUME IInv, NEW b \in Blocks, Acquire(b)
    PROVE  IInv'
<1>1. /\ phase = "open" /\ m_building = NoBlock /\ b \notin live
      /\ live' = live \union {b} /\ refs' = [refs EXCEPT ![b] = 1]
      /\ next_ready' = [next_ready EXCEPT ![b] = NoBlock] /\ m_building' = b
      /\ UNCHANGED <<m_readyHead, m_readyTail, queue, pkt, phase>>
  BY DEF Acquire, lists
<1>2. b \notin Held /\ b \notin Queued
  BY <1>1, Facts
<1>3. Queued' = Queued /\ Held' = Held
  BY <1>1 DEF Queued, Held
<1>4. PacketsTypeOK'
  <2>1. refs' \in [Blocks -> Nat] /\ next_ready' \in [Blocks -> Pointers]
    BY <1>1, Facts DEF PacketsTypeOK, Pointers
  <2> QED BY <1>1, <2>1, Facts DEF PacketsTypeOK, Pointers
<1>5. OneStage'
  BY <1>1, <1>2, <1>3, Facts DEF OneStage
<1>6. OwnersExact'
  <2>1. ASSUME NEW c \in Blocks, c # b
        PROVE  Base(c)' = Base(c) /\ (c \in live' <=> c \in live) /\ refs'[c] = refs[c]
    <3>1. Base(c)' = Base(c)
      BY <1>1, <1>3, <2>1, BlockOrNot DEF Base
    <3> QED BY <1>1, <2>1, <3>1, Facts DEF PacketsTypeOK
  <2>2. Base(b)' = 1 /\ refs'[b] = 1
    BY <1>1, Facts DEF Base, PacketsTypeOK
  <2>3. live' \in SUBSET Blocks
    BY <1>4 DEF PacketsTypeOK
  <2> QED BY <1>1, <2>1, <2>2, <2>3, ReceiverStep
<1>7. ListIsQueue'
  <2>1. /\ Len(queue) \in Nat /\ DOMAIN queue = 1 .. Len(queue)
        /\ \A k \in 1 .. Len(queue) : queue[k] \in Blocks /\ queue[k] # b
        /\ queue # <<>> => Len(queue) \in 1 .. Len(queue)
    <3>1. queue \in Seq(Blocks)
      BY Facts DEF PacketsTypeOK
    <3>2. DOMAIN queue = 1 .. Len(queue) /\ Len(queue) \in Nat
      BY <3>1
    <3>3. \A k \in 1 .. Len(queue) : queue[k] \in Blocks /\ queue[k] # b
      BY <1>2, <3>1, <3>2 DEF Queued
    <3>4. queue # <<>> => Len(queue) \in 1 .. Len(queue)
      BY <3>1, <3>2
    <3> QED BY <3>2, <3>3, <3>4
  <2>2. \A k \in 1 .. Len(queue) : next_ready'[queue[k]] = next_ready[queue[k]]
    BY <1>1, <2>1, Facts DEF PacketsTypeOK
  <2>3. \A k \in 1 .. Len(queue) - 1 : k \in 1 .. Len(queue)
    BY <2>1
  <2> QED BY <1>1, <2>1, <2>2, <2>3, Facts DEF ListIsQueue
<1>8. ClosedOK'
  BY <1>1 DEF ClosedOK
<1> QED BY <1>4, <1>5, <1>6, <1>7, <1>8 DEF IInv

\* A block that nobody has queued or holds joins the ready queue.
LEMMA EnqueueStep ==
    ASSUME IInv, phase = "open", NEW b \in Blocks, Enqueue(b, next_ready),
           b \notin Queued, b \notin Held,
           m_building' = NoBlock, m_building \in {b, NoBlock},
           b = m_building \/ b \notin live,
           live' = live \union {b}, refs' = [refs EXCEPT ![b] = 1],
           UNCHANGED <<pkt, phase>>
    PROVE  IInv'
<1>1. queue \in Seq(Blocks) /\ queue' = Append(queue, b)
  BY Facts DEF PacketsTypeOK, Enqueue
<1>2. Queued' = Queued \union {b} /\ QueueInjective' /\ queue' \in Seq(Blocks)
  BY <1>1, Facts, AppendQueued
<1>3. /\ ListIsQueue' /\ next_ready' \in [Blocks -> Pointers]
      /\ m_readyHead' \in Pointers /\ m_readyTail' \in Pointers
  BY Facts, EnqueueLinks
<1>4. Held' = Held
  BY DEF Held
<1>5. PacketsTypeOK'
  <2>1. refs' \in [Blocks -> Nat] /\ live' \in SUBSET Blocks
    BY Facts DEF PacketsTypeOK
  <2> QED BY <1>2, <1>3, <2>1, Facts DEF PacketsTypeOK, Pointers
<1>6. OneStage'
  BY <1>2, <1>4, Facts, PacketsAssumption DEF OneStage, QueueInjective
<1>7. OwnersExact'
  <2>1. ASSUME NEW c \in Blocks, c # b
        PROVE  Base(c)' = Base(c) /\ (c \in live' <=> c \in live) /\ refs'[c] = refs[c]
    <3>1. Base(c)' = Base(c)
      BY <1>2, <2>1, BlockOrNot DEF Base
    <3> QED BY <2>1, <3>1, Facts DEF PacketsTypeOK
  <2>2. Base(b)' = 1 /\ refs'[b] = 1 /\ b \in live'
    BY <1>2, Facts DEF Base, PacketsTypeOK
  <2>3. b = m_building => Base(b) = 1 /\ b \in live /\ refs[b] = 1
    <3> SUFFICES ASSUME b = m_building
                 PROVE  Base(b) = 1 /\ b \in live /\ refs[b] = 1
      OBVIOUS
    <3>1. Base(b) = 1
      BY DEF Base
    <3>2. Count(pkt, b) = 0
      BY OwnersNow
    <3> QED BY <3>1, <3>2, OwnersNow
  <2>4. live' \in SUBSET Blocks
    BY <1>5 DEF PacketsTypeOK
  <2>5. \/ Base(b)' = Base(b) /\ (b \in live' <=> b \in live) /\ refs'[b] = refs[b]
        \/ Base(b)' = 1 /\ b \notin live /\ b \in live' /\ refs'[b] = 1
    BY <2>2, <2>3
  <2> QED BY <2>1, <2>4, <2>5, ReceiverStep
<1>8. ClosedOK'
  BY DEF ClosedOK
<1> QED BY <1>3, <1>5, <1>6, <1>7, <1>8 DEF IInv

LEMMA PublishEmptyStep ==
    ASSUME IInv, NEW b \in Blocks, PublishEmpty(b)
    PROVE  IInv'
BY Facts, EnqueueStep DEF PublishEmpty

LEMMA PublishStep ==
    ASSUME IInv, Publish
    PROVE  IInv'
<1>1. /\ phase = "open" /\ m_building # NoBlock /\ Enqueue(m_building, next_ready)
      /\ m_building' = NoBlock /\ UNCHANGED <<live, refs, pkt, phase>>
  BY DEF Publish
<1>2. m_building \in Blocks
  BY <1>1, Facts DEF PacketsTypeOK, Pointers
<1>3. m_building \notin Queued /\ m_building \notin Held
  BY Facts DEF OneStage
<1>4. m_building \in live /\ refs[m_building] = 1
  <2>1. Base(m_building) = 1
    BY DEF Base
  <2>2. Count(pkt, m_building) = 0
    BY <1>2, <1>3, OwnersNow
  <2> QED BY <1>2, <2>1, <2>2, OwnersNow
<1>5. live' = live \union {m_building} /\ refs' = [refs EXCEPT ![m_building] = 1]
  BY <1>1, <1>2, <1>4, Facts DEF PacketsTypeOK
<1>6. PICK b \in Blocks : b = m_building
  BY <1>2
<1> QED BY <1>1, <1>3, <1>5, <1>6, EnqueueStep

\* The block being built goes back, on a lost frame or in the destructor.
LEMMA ReleaseStep ==
    ASSUME IInv, phase = "open", ReleaseBuilding, phase' \in {"open", "closing"},
           phase' = "closing" => \A h \in Handles : pkt[h] = NoBlock
    PROVE  IInv'
<1>1. /\ live' = live \ {m_building} /\ m_building' = NoBlock
      /\ UNCHANGED <<refs, next_ready, m_readyHead, m_readyTail, queue, pkt>>
  BY DEF ReleaseBuilding, headers, lists
<1>2. Queued' = Queued /\ Held' = Held
  BY <1>1 DEF Queued, Held
<1>3. PacketsTypeOK'
  BY <1>1, Facts DEF PacketsTypeOK, Pointers
<1>4. OneStage'
  BY <1>1, <1>2, Facts, PacketsAssumption DEF OneStage
<1>5. OwnersExact'
  <2>1. ASSUME NEW c \in Blocks, c # m_building
        PROVE  Base(c)' = Base(c) /\ (c \in live' <=> c \in live) /\ refs'[c] = refs[c]
    <3>1. Base(c)' = Base(c)
      BY <1>1, <1>2, <2>1, BlockOrNot DEF Base
    <3> QED BY <1>1, <2>1, <3>1
  <2>2. ASSUME NEW c \in Blocks, c = m_building
        PROVE  Base(c)' = 0 /\ c \notin Held /\ c \notin live'
    <3>1. c \notin Held /\ c \notin Queued /\ c \notin live'
      BY <1>1, <2>2, Facts DEF OneStage
    <3> QED BY <1>1, <1>2, <2>2, <3>1, BlockOrNot DEF Base
  <2>3. live' \in SUBSET Blocks
    BY <1>3 DEF PacketsTypeOK
  <2> QED BY <1>1, <2>1, <2>2, <2>3, ReceiverStep
<1>6. ListIsQueue' /\ ClosedOK'
  BY <1>1, Facts DEF ListIsQueue, ClosedOK
<1> QED BY <1>3, <1>4, <1>5, <1>6 DEF IInv

LEMMA ClearStep ==
    ASSUME IInv, ClearOne
    PROVE  IInv'
<1>1. /\ phase = "closing" /\ m_readyHead # NoBlock /\ Dequeue
      /\ Release(refs, m_readyHead) /\ UNCHANGED <<m_building, pkt, phase>>
  BY DEF ClearOne
<1>2. /\ queue # <<>> /\ m_readyHead = queue[1] /\ m_readyHead \in Blocks
      /\ ListIsQueue' /\ next_ready' \in [Blocks -> Pointers]
      /\ m_readyHead' \in Pointers /\ m_readyTail' \in Pointers
      /\ queue' = Tail(queue)
  BY <1>1, Facts, DequeueLinks DEF Dequeue
<1>3. /\ Queued' = Queued \ {m_readyHead} /\ m_readyHead \in Queued
      /\ QueueInjective' /\ queue' \in Seq(Blocks)
  BY <1>2, Facts, TailQueued DEF PacketsTypeOK
<1>4. Held' = Held /\ m_readyHead \notin Held /\ m_readyHead # m_building
  BY <1>1, <1>3, Facts DEF Held, OneStage
<1>5. m_readyHead \in live /\ refs[m_readyHead] = 1
  <2>1. Base(m_readyHead) = 1
    BY <1>3 DEF Base
  <2>2. Count(pkt, m_readyHead) = 0
    BY <1>2, <1>4, OwnersNow
  <2> QED BY <1>2, <2>1, <2>2, OwnersNow
<1>6. live' = live \ {m_readyHead} /\ refs' = [refs EXCEPT ![m_readyHead] = 0]
  BY <1>1, <1>2, <1>5, BlockOrNot, Facts DEF Release, RefsReleased, LiveReleased, PacketsTypeOK
<1>7. PacketsTypeOK'
  <2>1. refs' \in [Blocks -> Nat] /\ live' \in SUBSET Blocks
    BY <1>6, Facts DEF PacketsTypeOK
  <2> QED BY <1>1, <1>2, <1>3, <2>1, Facts DEF PacketsTypeOK
<1>8. OneStage'
  BY <1>1, <1>3, <1>4, Facts DEF OneStage, QueueInjective
<1>9. OwnersExact'
  <2>1. ASSUME NEW c \in Blocks, c # m_readyHead
        PROVE  Base(c)' = Base(c) /\ (c \in live' <=> c \in live) /\ refs'[c] = refs[c]
    <3>1. Base(c)' = Base(c)
      BY <1>1, <1>3, <2>1 DEF Base
    <3> QED BY <1>6, <2>1, <3>1, Facts DEF PacketsTypeOK
  <2>2. ASSUME NEW c \in Blocks, c = m_readyHead
        PROVE  Base(c)' = 0 /\ c \notin Held /\ c \notin live'
    <3>1. Base(c)' = 0
      BY <1>1, <1>3, <1>4, <2>2 DEF Base
    <3> QED BY <1>4, <1>6, <2>2, <3>1
  <2>3. live' \in SUBSET Blocks
    BY <1>7 DEF PacketsTypeOK
  <2> QED BY <1>1, <2>1, <2>2, <2>3, ReceiverStep
<1>10. ClosedOK'
  BY <1>1, Facts DEF ClosedOK
<1> QED BY <1>2, <1>7, <1>8, <1>9, <1>10 DEF IInv

\* Steps that leave every block where it is: the end of the destructor, and
\* stuttering.
LEMMA QuietStep ==
    ASSUME IInv, UNCHANGED <<live, headers, m_building, lists, pkt>>,
           UNCHANGED phase \/ Closed
    PROVE  IInv'
<1>1. UNCHANGED <<live, refs, next_ready, m_building, m_readyHead, m_readyTail, queue, pkt>>
  BY DEF headers, lists
<1>2. PacketsTypeOK' /\ OneStage' /\ ListIsQueue'
  BY <1>1, Facts DEF PacketsTypeOK, OneStage, ListIsQueue, Closed, Queued, Held
<1>3. OwnersExact'
  <2>1. \A b \in Blocks : Base(b)' = Base(b) /\ (b \in live' <=> b \in live) /\ refs'[b] = refs[b]
    BY <1>1, SameBase DEF lists
  <2>2. live' \in SUBSET Blocks
    BY <1>2 DEF PacketsTypeOK
  <2> QED BY <1>1, <2>1, <2>2, ReceiverStep
<1>4. ClosedOK'
  <2>1. m_readyHead = NoBlock => queue = <<>>
    <3> SUFFICES ASSUME queue # <<>>
                 PROVE  m_readyHead # NoBlock
      OBVIOUS
    <3>1. queue \in Seq(Blocks) /\ m_readyHead = queue[1]
      BY Facts DEF PacketsTypeOK, ListIsQueue
    <3>2. queue[1] \in Blocks
      BY <3>1
    <3> QED BY <3>1, <3>2, BlockOrNot
  <2> QED BY <1>1, <2>1, Facts DEF ClosedOK, Closed
<1> QED BY <1>2, <1>3, <1>4 DEF IInv

-----------------------------------------------------------------------------
LEMMA NextIInv == IInv /\ [PacketsNext]_packets => IInv'
<1> SUFFICES ASSUME IInv, [PacketsNext]_packets
             PROVE  IInv'
  OBVIOUS
<1>1. ASSUME NEW b \in Blocks, Acquire(b)
      PROVE  IInv'
  BY <1>1, AcquireStep
<1>2. ASSUME NEW b \in Blocks, PublishEmpty(b)
      PROVE  IInv'
  BY <1>2, PublishEmptyStep
<1>3. CASE GiveUp
  BY <1>3, ReleaseStep DEF GiveUp
<1>4. CASE Publish
  BY <1>4, PublishStep
<1>5. CASE Application
  <2>1. ASSUME NEW h \in Handles, PopInto(h)
        PROVE  IInv'
    BY <2>1, PopStep
  <2>2. ASSUME NEW h \in Handles, Reset(h), phase = "open"
        PROVE  IInv'
    BY <2>2, ResetStep
  <2>3. ASSUME NEW h \in Handles, NEW g \in Handles, CopyAssign(h, g), phase = "open"
        PROVE  IInv'
    BY <2>3, CopyStep
  <2>4. ASSUME NEW h \in Handles, NEW g \in Handles, MoveAssign(h, g), phase = "open"
        PROVE  IInv'
    BY <2>4, MoveStep
  <2> QED BY <1>5, <2>1, <2>2, <2>3, <2>4 DEF Application
<1>6. CASE Destroy
  BY <1>6, ReleaseStep DEF Destroy
<1>7. CASE ClearOne
  BY <1>7, ClearStep
<1>8. CASE Closed
  BY <1>8, QuietStep DEF Closed
<1>9. CASE UNCHANGED packets
  BY <1>9, QuietStep DEF packets
<1> QED BY <1>1, <1>2, <1>3, <1>4, <1>5, <1>6, <1>7, <1>8, <1>9 DEF PacketsNext

LEMMA Inductive == PacketsSpec => []IInv
BY InitIInv, NextIInv, PTL DEF PacketsSpec

LEMMA Consequences ==
    IInv => LiveAreOwned /\ RefsAreOwners /\ NothingLeaks
<1> SUFFICES ASSUME IInv
             PROVE  LiveAreOwned /\ RefsAreOwners /\ NothingLeaks
  OBVIOUS
<1>1. LiveAreOwned
  <2>1. live \subseteq Blocks /\ m_building \in Pointers
    BY Facts DEF PacketsTypeOK
  <2> QED BY <2>1, Facts, BlockOrNot DEF LiveAreOwned, Pointers
<1>2. RefsAreOwners
  <2> SUFFICES ASSUME NEW b \in live
               PROVE  refs[b] = IF b \in Held THEN Count(pkt, b) ELSE 1
    BY DEF RefsAreOwners, Count
  <2>1. b \in Blocks
    BY Facts DEF PacketsTypeOK
  <2>2. b \in Held => Base(b) = 0
    BY Facts DEF Base, OneStage
  <2>3. b \notin Held => Base(b) = 1
    BY <2>1, Facts DEF Base
  <2>4. refs[b] = Count(pkt, b) + Base(b) /\ Count(pkt, b) \in Nat
        /\ (b \in Held <=> Count(pkt, b) > 0)
    BY <2>1, OwnersNow
  <2>5. CASE b \in Held
    BY <2>2, <2>4, <2>5
  <2>6. CASE b \notin Held
    BY <2>3, <2>4, <2>6
  <2> QED BY <2>5, <2>6
<1>3. NothingLeaks
  <2> SUFFICES ASSUME phase = "closed"
               PROVE  live = {}
    BY DEF NothingLeaks
  <2>1. m_building = NoBlock /\ (\A h \in Handles : pkt[h] = NoBlock) /\ queue = <<>>
    BY Facts DEF ClosedOK
  <2>2. Queued = {} /\ Held = {}
    BY <2>1, BlockOrNot DEF Queued, Held
  <2> QED BY <1>1, <2>1, <2>2 DEF LiveAreOwned
<1> QED BY <1>1, <1>2, <1>3

-----------------------------------------------------------------------------
\* Every pointer of the receiver and of a handle points to a block or is null.
THEOREM PacketsTypeCorrect == PacketsSpec => []PacketsTypeOK
BY Inductive, Facts, PTL

\* A block is built, queued once, or held by the application: never two of them.
THEOREM PacketsOneStage == PacketsSpec => []OneStage
BY Inductive, Facts, PTL

\* Storage's grants are exactly the blocks that have an owner.
THEOREM PacketsLiveAreOwned == PacketsSpec => []LiveAreOwned
BY Inductive, Consequences, PTL

\* The count of a granted block is the number of its owners.
THEOREM PacketsRefsAreOwners == PacketsSpec => []RefsAreOwners
BY Inductive, Consequences, PTL

\* The links through the blocks are the queue in order of publication.
THEOREM PacketsListIsQueue == PacketsSpec => []ListIsQueue
BY Inductive, Facts, PTL

\* Every block of the packets' storage is owned, counted and linked as it should be.
THEOREM PacketsAllAccounted == PacketsSpec => []PacketsAccounted
<1>1. IInv => PacketsAccounted
  BY Consequences DEF PacketsAccounted, IInv
<1> QED BY <1>1, Inductive, PTL

\* A receiver that was destroyed has given every block back.
THEOREM PacketsNothingLeaks == PacketsSpec => []NothingLeaks
BY Inductive, Consequences, PTL

-----------------------------------------------------------------------------
(* The decoder.                                                            *)

Segments == [at : Blocks \union {"length"}, size : Nat] \union {NoSegment}

Decoders ==
    [state : {"Synced", "Decoding", "DropUntilDelimiter"}, output : Segments,
     hasOutput : BOOLEAN, written : Nat, decodedBefore : Nat,
     blockRemaining : 0 .. FullData, pendingZero : BOOLEAN]

\* A decoder that never writes past its segment.
DecoderOK(d) == d \in Decoders /\ d.written <= d.output.size

\* What it writes to, where, and how much came before.
SameOutput(e, d) ==
    /\ e.output = d.output /\ e.hasOutput = d.hasOutput
    /\ e.decodedBefore = d.decodedBefore

\* A segment to write to from its start, with n bytes of the frame before it.
Repointed(d, segment, n) ==
    [d EXCEPT !.output = segment, !.hasOutput = TRUE, !.written = 0, !.decodedBefore = n]

LEMMA ByteFacts == FullCode \in Nat /\ 0 \in Byte /\ FullData \in Nat /\ FullData + 1 = FullCode
BY FullCodeAssumption DEF Byte, FullData

LEMMA NoSegmentOK == NoSegment \in Segments /\ NoSegment.size = 0
BY DEF Segments, NoSegment

LEMMA SegmentSize == \A s \in Segments : s.size \in Nat
BY DEF Segments, NoSegment

\* A frame that is dropped leaves a decoder that has nowhere to write.
LEMMA Dropped ==
    ASSUME NEW d, NEW state \in {"Synced", "DropUntilDelimiter"}
    PROVE  /\ DecoderOK(dropFrame(d, state))
           /\ dropFrame(d, state).state = state /\ ~dropFrame(d, state).hasOutput
           /\ dropFrame(d, state).written = 0 /\ dropFrame(d, state).decodedBefore = 0
<1> DEFINE n == NewDecoder
<1>1. /\ n \in Decoders /\ n.output.size = 0 /\ ~n.hasOutput /\ n.written = 0
      /\ n.decodedBefore = 0
  BY ByteFacts, NoSegmentOK DEF NewDecoder, Decoders
<1> HIDE DEF n
<1> DEFINE e == [n EXCEPT !.state = state]
<1>2. /\ e \in Decoders /\ e.output.size = 0 /\ ~e.hasOutput /\ e.written = 0
      /\ e.decodedBefore = 0 /\ e.state = state
  BY <1>1 DEF Decoders
<1>3. dropFrame(d, state) = e
  BY DEF dropFrame, n
<1> QED BY <1>2, <1>3 DEF DecoderOK

LEMMA NewSegment ==
    ASSUME NEW d, DecoderOK(d), NEW segment \in Segments, NEW n \in Nat
    PROVE  LET e == Repointed(d, segment, n)
           IN  /\ DecoderOK(e) /\ e.state = d.state /\ e.output = segment /\ e.hasOutput
               /\ e.written = 0 /\ e.decodedBefore = n
               /\ e.blockRemaining = d.blockRemaining /\ e.pendingZero = d.pendingZero
<1> DEFINE e1 == [d EXCEPT !.output = segment]
           e2 == [e1 EXCEPT !.hasOutput = TRUE]
           e3 == [e2 EXCEPT !.written = 0]
           e4 == [e3 EXCEPT !.decodedBefore = n]
           Rest(e) == /\ e \in Decoders /\ e.state = d.state /\ e.output = segment
                      /\ e.blockRemaining = d.blockRemaining
                      /\ e.pendingZero = d.pendingZero
<1>1. Repointed(d, segment, n) = e4
  BY DEF Repointed, DecoderOK, Decoders
<1>2. Rest(e1)
  BY DEF DecoderOK, Decoders
<1> HIDE DEF e1
<1>3. Rest(e2) /\ e2.hasOutput
  BY <1>2 DEF Decoders
<1> HIDE DEF e2
<1>4. Rest(e3) /\ e3.hasOutput /\ e3.written = 0
  BY <1>3 DEF Decoders
<1> HIDE DEF e3
<1>5. Rest(e4) /\ e4.hasOutput /\ e4.written = 0 /\ e4.decodedBefore = n
  BY <1>4 DEF Decoders
<1> HIDE DEF e4
<1>6. 0 <= e4.output.size
  BY <1>5, SegmentSize
<1> QED BY <1>1, <1>5, <1>6 DEF DecoderOK

\* A new block changes nothing of the output.
LEMMA BlockBegins ==
    ASSUME NEW d, DecoderOK(d), NEW c \in Byte, c # 0
    PROVE  /\ DecoderOK(beginBlock(d, c))
           /\ SameOutput(beginBlock(d, c), d)
           /\ beginBlock(d, c).written = d.written /\ beginBlock(d, c).state = d.state
<1>1. c - 1 \in 0 .. FullData /\ (c # FullCode) \in BOOLEAN
  BY ByteFacts DEF Byte
<1> QED BY <1>1 DEF beginBlock, DecoderOK, Decoders, SameOutput

LEMMA OneMore ==
    ASSUME NEW d, DecoderOK(d), ~SegmentFull(d)
    PROVE  /\ DecoderOK([d EXCEPT !.written = @ + 1])
           /\ d.written + 1 <= d.output.size /\ d.written + 1 \in Nat
<1>1. d.written \in Nat /\ d.output.size \in Nat
  BY SegmentSize DEF DecoderOK, Decoders
<1>2. d.written + 1 <= d.output.size
  BY <1>1 DEF SegmentFull, DecoderOK
<1> QED BY <1>1, <1>2 DEF DecoderOK, Decoders

\* A byte that needed nothing and ended nothing.
Absorbed(d, r) ==
    /\ r.event = "None" /\ SameOutput(r.d, d)
    /\ \/ r.d.state = d.state
       \/ d.state = "DropUntilDelimiter" /\ r.d.state = "Synced"
       \/ d.state = "Synced" /\ d.hasOutput /\ r.d.state = "Decoding"
    /\ \/ r.put = <<>> /\ r.d.written = d.written
       \/ /\ d.state = "Decoding" /\ r.d.state = "Decoding"
          /\ d.hasOutput /\ d.written < d.output.size
          /\ r.d.written = d.written + 1
          /\ \E x \in Byte : r.put = <<x>>

Asked(d, r) ==
    /\ r.event = "NeedOutput" /\ r.put = <<>> /\ r.d.state = "Decoding"
    /\ \/ d.state = "Synced" /\ ~d.hasOutput /\ SameOutput(r.d, d) /\ r.d.written = d.written
       \/ d.state = "Decoding" /\ ~d.hasOutput /\ r.d = d
       \/ /\ d.state = "Decoding" /\ r.d = d /\ SegmentFull(d)
          /\ d.blockRemaining > 0 \/ d.pendingZero

Ended(d, r) ==
    /\ r.d = dropFrame(d, "Synced")
    /\ \/ r.event = "Malformed"
       \/ /\ r.event = "FrameComplete" /\ d.state = "Decoding" /\ d.hasOutput
          /\ r.size = d.decodedBefore + d.written

Byteful(d, r, b) ==
    /\ DecoderOK(r.d)
    /\ \/ Absorbed(d, r)
       \/ Asked(d, r) /\ (d.state = "Decoding" /\ d.hasOutput => b # 0)
       \/ Ended(d, r)

LEMMA SkipByte ==
    ASSUME NEW d, DecoderOK(d), d.state = "DropUntilDelimiter", NEW b \in Byte
    PROVE  Byteful(d, Skip(d, b), b)
BY DEF Byteful, Skip, Quiet, Outcome, Absorbed, SameOutput, DecoderOK, Decoders

LEMMA OpenByte ==
    ASSUME NEW d, DecoderOK(d), d.state = "Synced", NEW b \in Byte, b # 0
    PROVE  Byteful(d, Open(d, b), b)
<1> DEFINE c == beginBlock(d, b)
           e == [c EXCEPT !.state = "Decoding"]
<1>1. DecoderOK(c) /\ SameOutput(c, d) /\ c.written = d.written
  BY BlockBegins
<1> HIDE DEF c
<1>2. /\ DecoderOK(e) /\ SameOutput(e, d) /\ e.written = d.written
      /\ e.state = "Decoding"
  BY <1>1 DEF DecoderOK, Decoders, SameOutput
<1>3. Open(d, b) = IF d.hasOutput THEN Quiet(e, <<>>) ELSE AskFirst(e, TRUE)
  BY DEF Open, c
<1> HIDE DEF e
<1> QED BY <1>2, <1>3 DEF Byteful, Quiet, AskFirst, Outcome, Absorbed, Asked

LEMMA DataByte ==
    ASSUME NEW d, DecoderOK(d), d.state = "Decoding", d.hasOutput, d.blockRemaining > 0,
           NEW b \in Byte
    PROVE  Byteful(d, Data(d, b), b)
<1>1. CASE b = 0
  <2>1. Data(d, b) = Outcome(dropFrame(d, "Synced"), "Malformed", TRUE, <<>>, 0)
    BY <1>1 DEF Data
  <2> QED BY <2>1, Dropped DEF Byteful, Outcome, Ended
<1>2. CASE b # 0 /\ SegmentFull(d)
  <2>1. Data(d, b) = AskFirst(d, FALSE)
    BY <1>2 DEF Data
  <2> QED BY <1>2, <2>1 DEF Byteful, AskFirst, Outcome, Asked
<1>3. CASE b # 0 /\ ~SegmentFull(d)
  <2> DEFINE m == [d EXCEPT !.written = @ + 1]
             e == [m EXCEPT !.blockRemaining = @ - 1]
  <2>1. Data(d, b) = Quiet(e, <<b>>)
    BY <1>3 DEF Data, DecoderOK, Decoders
  <2>2. DecoderOK(m) /\ d.written + 1 <= d.output.size /\ d.written \in Nat
        /\ d.output.size \in Nat
    BY <1>3, OneMore, SegmentSize DEF DecoderOK, Decoders
  <2>3. SameOutput(m, d) /\ m.written = d.written + 1 /\ m.state = "Decoding"
        /\ m.blockRemaining = d.blockRemaining
    BY DEF SameOutput, DecoderOK, Decoders
  <2> HIDE DEF m
  <2>4. m.blockRemaining - 1 \in 0 .. FullData
    BY <2>2, <2>3, ByteFacts DEF DecoderOK, Decoders
  <2>5. DecoderOK(e) /\ SameOutput(e, d) /\ e.written = d.written + 1 /\ e.state = "Decoding"
    BY <2>2, <2>3, <2>4 DEF DecoderOK, Decoders, SameOutput
  <2> HIDE DEF e
  <2>6. d.written < d.output.size
    BY <2>2
  <2> QED BY <2>1, <2>5, <2>6 DEF Byteful, Quiet, Outcome, Absorbed
<1> QED BY <1>1, <1>2, <1>3

LEMMA CodeByte ==
    ASSUME NEW d, DecoderOK(d), d.state = "Decoding", d.hasOutput, NEW b \in Byte
    PROVE  Byteful(d, Code(d, b), b)
<1>1. CASE b = 0
  <2>1. Code(d, b) = Outcome(dropFrame(d, "Synced"), "FrameComplete", TRUE, <<>>,
                             d.decodedBefore + d.written)
    BY <1>1 DEF Code
  <2> QED BY <2>1, Dropped DEF Byteful, Outcome, Ended
<1>2. CASE b # 0 /\ d.pendingZero /\ SegmentFull(d)
  <2>1. Code(d, b) = AskFirst(d, FALSE)
    BY <1>2 DEF Code
  <2> QED BY <1>2, <2>1 DEF Byteful, AskFirst, Outcome, Asked
<1>3. CASE b # 0 /\ d.pendingZero /\ ~SegmentFull(d)
  <2> DEFINE m == [d EXCEPT !.written = @ + 1]
             e == beginBlock(m, b)
  <2>1. Code(d, b) = Quiet(e, <<0>>)
    BY <1>3 DEF Code
  <2>2. DecoderOK(m) /\ d.written + 1 <= d.output.size /\ d.written \in Nat
        /\ d.output.size \in Nat
    BY <1>3, OneMore, SegmentSize DEF DecoderOK, Decoders
  <2>3. SameOutput(m, d) /\ m.written = d.written + 1 /\ m.state = "Decoding"
    BY DEF SameOutput, DecoderOK, Decoders
  <2> HIDE DEF m
  <2>5. DecoderOK(e) /\ SameOutput(e, m) /\ e.written = m.written /\ e.state = m.state
    BY <2>2, <1>3, BlockBegins
  <2> HIDE DEF e
  <2>6. d.written < d.output.size
    BY <2>2
  <2>7. SameOutput(e, d) /\ e.written = d.written + 1 /\ e.state = "Decoding"
    BY <2>3, <2>5 DEF SameOutput
  <2>8. \E x \in Byte : <<0>> = <<x>>
    BY ByteFacts
  <2> QED BY <2>1, <2>5, <2>6, <2>7, <2>8 DEF Byteful, Quiet, Outcome, Absorbed
<1>4. CASE b # 0 /\ ~d.pendingZero
  <2> DEFINE e == beginBlock(d, b)
  <2>1. Code(d, b) = Quiet(e, <<>>)
    BY <1>4 DEF Code
  <2>2. DecoderOK(e) /\ SameOutput(e, d) /\ e.written = d.written /\ e.state = d.state
    BY <1>4, BlockBegins
  <2> HIDE DEF e
  <2> QED BY <2>1, <2>2 DEF Byteful, Quiet, Outcome, Absorbed
<1> QED BY <1>1, <1>2, <1>3, <1>4

\* One byte of the decoder: it takes it, asks for room, or is done with the frame.
LEMMA ConsumeByte ==
    ASSUME NEW d, DecoderOK(d), NEW b \in Byte
    PROVE  Byteful(d, consume(d, b), b)
<1>1. CASE d.state = "DropUntilDelimiter"
  BY <1>1, SkipByte DEF consume
<1>2. CASE d.state = "Synced" /\ b = 0
  BY <1>2 DEF consume, Byteful, Quiet, Outcome, Absorbed, SameOutput
<1>3. CASE d.state = "Synced" /\ b # 0
  <2>1. consume(d, b) = Open(d, b)
    BY <1>3 DEF consume
  <2> QED BY <1>3, <2>1, OpenByte
<1>4. CASE d.state = "Decoding" /\ ~d.hasOutput
  <2>1. consume(d, b) = AskFirst(d, FALSE)
    BY <1>4 DEF consume
  <2> QED BY <1>4, <2>1 DEF Byteful, AskFirst, Outcome, Asked
<1>5. CASE d.state = "Decoding" /\ d.hasOutput /\ d.blockRemaining > 0
  <2>1. consume(d, b) = Data(d, b)
    BY <1>5 DEF consume
  <2> QED BY <1>5, <2>1, DataByte
<1>6. CASE d.state = "Decoding" /\ d.hasOutput /\ ~(d.blockRemaining > 0)
  <2>1. consume(d, b) = Code(d, b)
    BY <1>6 DEF consume
  <2> QED BY <1>6, <2>1, CodeByte
<1> QED BY <1>1, <1>2, <1>3, <1>4, <1>5, <1>6 DEF DecoderOK, Decoders

\* The byte that asked for room is written once there is some.
LEMMA ConsumeAgain ==
    ASSUME NEW d, DecoderOK(d), d.state = "Decoding", d.hasOutput, ~SegmentFull(d),
           d.blockRemaining > 0 \/ d.pendingZero, NEW b \in Byte, b # 0
    PROVE  /\ DecoderOK(consume(d, b).d) /\ SameOutput(consume(d, b).d, d)
           /\ consume(d, b).d.state = "Decoding"
           /\ consume(d, b).d.written = d.written + 1
           /\ \E x \in Byte : consume(d, b).put = <<x>>
<1> DEFINE r == consume(d, b)
<1>1. r.event = "None" /\ r.put # <<>>
  <2>1. CASE d.blockRemaining > 0
    <3>1. r = Data(d, b)
      BY <2>1 DEF consume
    <3>2. PICK e : Data(d, b) = Quiet(e, <<b>>)
      BY DEF Data
    <3> QED BY <3>1, <3>2 DEF Quiet, Outcome
  <2>2. CASE ~(d.blockRemaining > 0)
    <3>1. r = Code(d, b)
      BY <2>2 DEF consume
    <3>2. PICK e : Code(d, b) = Quiet(e, <<0>>)
      BY <2>2 DEF Code
    <3> QED BY <3>1, <3>2 DEF Quiet, Outcome
  <2> QED BY <2>1, <2>2
<1>2. Byteful(d, r, b)
  BY ConsumeByte
<1>3. DecoderOK(r.d) /\ Absorbed(d, r)
  BY <1>1, <1>2 DEF Byteful, Asked, Ended
<1> QED BY <1>1, <1>3 DEF Absorbed

-----------------------------------------------------------------------------
(* The receiver: its ranges, the blocks' contents, and the stage it is in. *)

Ranges ==
    /\ Format \in Formats
    /\ DecoderOK(m_decoder)
    /\ m_lengthBytes \in [1 .. length_size(Format) -> Byte]
    /\ m_stage \in {"NeedHeader", "Header", "Body"}
    /\ m_stats \in [Counters -> Nat]
    /\ size \in [Blocks -> 0 .. max_receive_body(Format)]
    /\ payload \in [Blocks -> Seq(Byte)]

\* A block nobody has is empty, and a published one holds its body.
Stored ==
    /\ \A b \in Blocks : b \notin live => payload[b] = <<>>
    /\ \A b \in live : b # m_building => Len(payload[b]) \in {0, size[b] + Format.crc_size}

\* Between a resynchronisation and the first byte of the next frame.
Waits(stage, d, building) ==
    /\ stage = "NeedHeader" /\ building = NoBlock
    /\ d.state # "Decoding" /\ ~d.hasOutput /\ d.written = 0 /\ d.decodedBefore = 0

ReadsLength(stage, d, building) ==
    /\ stage = "Header" /\ building = NoBlock
    /\ d.state # "DropUntilDelimiter" /\ d.hasOutput
    /\ d.output = LengthSegment /\ d.decodedBefore = 0

ReadsBody(stage, d, building, n, body) ==
    /\ stage = "Body" /\ building \in Blocks
    /\ d.state = "Decoding" /\ d.hasOutput
    /\ d.output = BlockSegment(building, n) /\ d.decodedBefore = length_size(Format)
    /\ d.written = Len(body)

StageOK ==
    phase = "open" =>
        \/ Waits(m_stage, m_decoder, m_building)
        \/ ReadsLength(m_stage, m_decoder, m_building)
        \/ ReadsBody(m_stage, m_decoder, m_building, size[m_building], payload[m_building])

Reception == Ranges /\ Stored /\ StageOK
RInv == IInv /\ Reception

-----------------------------------------------------------------------------
LEMMA FormatFacts ==
    ASSUME Format \in Formats
    PROVE  /\ Format.crc_size \in Nat /\ length_size(Format) \in {1, 2}
           /\ max_receive_body(Format) \in Nat
           /\ LengthSegment \in Segments /\ LengthSegment.size = length_size(Format)
           /\ LengthSegment.at = "length"
<1>1. Format \in [crc_size : Nat, max_receive_size : Nat, max_send_size : Nat]
  BY ReceiverAssumption
<1>2. length_size(Format) \in {1, 2}
  BY DEF length_size
<1> QED BY <1>1, <1>2 DEF max_receive_body, LengthSegment, Segments

LEMMA Declared ==
    ASSUME Ranges
    PROVE  declared \in Nat
<1>1. length_size(Format) \in {1, 2}
  BY FormatFacts DEF Ranges
<1>2. m_lengthBytes[1] \in Byte /\ (length_size(Format) = 2 => m_lengthBytes[2] \in Byte)
  BY <1>1 DEF Ranges
<1>3. \A x \in Byte : x \in Nat
  BY ByteFacts DEF Byte
<1>4. FullCode + 1 \in Nat
  BY ByteFacts
<1> DEFINE k == FullCode + 1
<1>5. \A x \in Nat : x * k \in Nat
  BY <1>4
<1> HIDE DEF k
<1> QED BY <1>1, <1>2, <1>3, <1>5 DEF declared, load_length, k

LEMMA CountsType ==
    ASSUME Ranges, NEW cs, Counted(cs)
    PROVE  m_stats' \in [Counters -> Nat]
<1>1. FrameCounts \in [Counters -> Nat]
  BY DEF Ranges, FrameCounts, NoCounts
<1> QED BY <1>1 DEF Counted, Bump

LEMMA ContentsStep ==
    ASSUME Format \in Formats, Format' = Format, live' \in SUBSET Blocks,
           NEW s \in [Blocks -> 0 .. max_receive_body(Format)],
           NEW p \in [Blocks -> Seq(Byte)], Contents(s, p),
           \A b \in live' : b # m_building' => Len(p[b]) \in {0, s[b] + Format.crc_size}
    PROVE  /\ size' \in [Blocks -> 0 .. max_receive_body(Format)]
           /\ payload' \in [Blocks -> Seq(Byte)]
           /\ Stored'
           /\ \A b \in live' : size'[b] = s[b] /\ payload'[b] = p[b]
<1>1. max_receive_body(Format) \in Nat
  BY FormatFacts
<1>2. /\ size' = [b \in Blocks |-> IF b \in live' THEN s[b] ELSE 0]
      /\ payload' = [b \in Blocks |-> IF b \in live' THEN p[b] ELSE <<>>]
  BY DEF Contents
<1>3. size' \in [Blocks -> 0 .. max_receive_body(Format)]
  BY <1>1, <1>2
<1>4. payload' \in [Blocks -> Seq(Byte)]
  <2>1. <<>> \in Seq(Byte)
    OBVIOUS
  <2> QED BY <1>2, <2>1
<1>5. \A b \in live' : size'[b] = s[b] /\ payload'[b] = p[b]
  BY <1>2
<1>6. Stored'
  BY <1>2, <1>5 DEF Stored
<1> QED BY <1>3, <1>4, <1>5, <1>6

\* Letting go of the block under way is a step of the packets, or none.
LEMMA Releases ==
    ASSUME IInv, phase = "open", ReleaseBuilding, UNCHANGED phase
    PROVE  /\ [PacketsNext]_packets
           /\ m_building' = NoBlock /\ live' \subseteq live /\ live' \in SUBSET Blocks
           /\ \A b \in live' : b # m_building
           /\ queue' = queue /\ pkt' = pkt
<1>1. live \in SUBSET Blocks /\ NoBlock \notin Blocks
  BY Facts, BlockOrNot DEF PacketsTypeOK
<1>2. CASE m_building = NoBlock
  BY <1>1, <1>2 DEF ReleaseBuilding, packets, lists
<1>3. CASE m_building # NoBlock
  BY <1>1, <1>3 DEF ReleaseBuilding, GiveUp, PacketsNext, lists
<1> QED BY <1>2, <1>3

\* The receiver afterwards, from its parts.
LEMMA Prepared ==
    ASSUME Format \in Formats, NEW e, DecoderOK(e), e.state = "Synced"
    PROVE  LET d == prepare_output(e, LengthSegment)
           IN  DecoderOK(d) /\ ReadsLength("Header", d, NoBlock)
<1> DEFINE d == Repointed(e, LengthSegment, 0)
<1>1. LengthSegment \in Segments
  BY FormatFacts
<1>2. prepare_output(e, LengthSegment) = d
  BY DEF prepare_output, Repointed
<1>3. /\ DecoderOK(d) /\ d.state = "Synced" /\ d.output = LengthSegment /\ d.hasOutput
      /\ d.decodedBefore = 0
  BY <1>1, NewSegment
<1> HIDE DEF d
<1>4. ReadsLength("Header", d, NoBlock)
  BY <1>3 DEF ReadsLength
<1> QED BY <1>2, <1>3, <1>4

LEMMA Discarded ==
    ASSUME NEW x, NEW b
    PROVE  LET d == consume(discard_until_delimiter(x), b).d
               g == discard_until_delimiter(x)
           IN  /\ DecoderOK(d) /\ Waits("NeedHeader", d, NoBlock)
               /\ DecoderOK(g) /\ Waits("NeedHeader", g, NoBlock)
<1> DEFINE g == discard_until_delimiter(x)
           d == [g EXCEPT !.state = IF b = 0 THEN "Synced" ELSE @]
<1>1. /\ DecoderOK(g) /\ g.state = "DropUntilDelimiter"
      /\ ~g.hasOutput /\ g.written = 0 /\ g.decodedBefore = 0
  BY Dropped DEF discard_until_delimiter
<1> HIDE DEF g
<1>2. consume(g, b).d = d
  BY <1>1 DEF consume, Skip, Quiet, Outcome
<1>3. DecoderOK(d) /\ Waits("NeedHeader", d, NoBlock)
  BY <1>1 DEF DecoderOK, Decoders, Waits
<1>4. DecoderOK(g) /\ Waits("NeedHeader", g, NoBlock)
  BY <1>1 DEF Waits
<1> QED BY <1>2, <1>3, <1>4 DEF g

\* What everybody but the frame under way has stays as it is.
Kept ==
    \A b \in live : b # m_building /\ b \in live' =>
        size'[b] = size[b] /\ payload'[b] = payload[b]

\* A frame given up: its block goes, and the decoder stands before another.
LEMMA GivenUp ==
    ASSUME RInv, phase = "open", UNCHANGED <<Format, phase, m_lengthBytes>>,
           ReleaseBuilding, Contents(size, payload), NEW cs, Counted(cs),
           DecoderOK(m_decoder'),
           \/ m_stage' = "Header" /\ ReadsLength("Header", m_decoder', NoBlock)
           \/ m_stage' = "NeedHeader" /\ Waits("NeedHeader", m_decoder', NoBlock)
    PROVE  [PacketsNext]_packets /\ Reception' /\ Kept
<1>1. /\ [PacketsNext]_packets /\ m_building' = NoBlock /\ live' \subseteq live
      /\ live' \in SUBSET Blocks /\ \A b \in live' : b # m_building
  BY Releases DEF RInv
<1>2. /\ Format \in Formats /\ size \in [Blocks -> 0 .. max_receive_body(Format)]
      /\ payload \in [Blocks -> Seq(Byte)] /\ Ranges /\ Stored
  BY DEF RInv, Reception, Ranges
<1>3. \A b \in live' : Len(payload[b]) \in {0, size[b] + Format.crc_size}
  BY <1>1, <1>2 DEF Stored
<1>4. /\ size' \in [Blocks -> 0 .. max_receive_body(Format)]
      /\ payload' \in [Blocks -> Seq(Byte)] /\ Stored' /\ Kept
  BY <1>1, <1>2, <1>3, ContentsStep DEF Kept
<1>5. m_stats' \in [Counters -> Nat]
  BY <1>2, CountsType
<1>6. Ranges'
  BY <1>2, <1>4, <1>5 DEF Ranges
<1>7. StageOK'
  BY <1>1 DEF StageOK, Waits, ReadsLength, LengthSegment
<1> QED BY <1>1, <1>4, <1>6, <1>7 DEF Reception

LEMMA EndFrameStep ==
    ASSUME RInv, phase = "open", UNCHANGED Format, NEW x, NEW cs,
           endFrame(dropFrame(x, "Synced"), cs)
    PROVE  [PacketsNext]_packets /\ Reception' /\ Kept
<1>1. DecoderOK(m_decoder') /\ ReadsLength("Header", m_decoder', NoBlock)
  BY Prepared, Dropped DEF endFrame, RInv, Reception, Ranges
<1> QED BY <1>1, GivenUp DEF endFrame

LEMMA AbandonStep ==
    ASSUME RInv, phase = "open", UNCHANGED Format, NEW x, NEW b, NEW cs,
           abandonFrame(x, b, cs)
    PROVE  [PacketsNext]_packets /\ Reception' /\ Kept
<1>1. DecoderOK(m_decoder') /\ Waits("NeedHeader", m_decoder', NoBlock)
  BY Discarded DEF abandonFrame
<1> QED BY <1>1, GivenUp DEF abandonFrame

LEMMA GapStep ==
    ASSUME RInv, gap, UNCHANGED Format
    PROVE  [PacketsNext]_packets /\ Reception' /\ Kept
<1>1. DecoderOK(m_decoder') /\ Waits("NeedHeader", m_decoder', NoBlock)
  BY Discarded DEF gap
<1> QED BY <1>1, GivenUp DEF gap

\* The byte is taken.
LEMMA AbsorbStep ==
    ASSUME RInv, phase = "open", UNCHANGED Format, NEW b \in Byte,
           Absorb(consume(m_decoder, b))
    PROVE  [PacketsNext]_packets /\ Reception' /\ Kept
<1> DEFINE r == consume(m_decoder, b)
           at == m_decoder.output.at
           p == [c \in Blocks |-> IF c = at THEN payload[c] \o r.put ELSE payload[c]]
<1>1. /\ Ranges /\ Stored /\ StageOK /\ Format \in Formats /\ DecoderOK(m_decoder)
      /\ size \in [Blocks -> 0 .. max_receive_body(Format)]
      /\ payload \in [Blocks -> Seq(Byte)] /\ live \in SUBSET Blocks
      /\ m_lengthBytes \in [1 .. length_size(Format) -> Byte]
      /\ \A c \in Blocks : c # "length" /\ c # NoBlock
  BY Facts, ReceiverAssumption, BlockOrNot DEF RInv, Reception, Ranges, PacketsTypeOK
<1>2. DecoderOK(r.d) /\ Absorbed(m_decoder, r)
  <2>1. Byteful(m_decoder, r, b) /\ r.event = "None"
    BY <1>1, ConsumeByte DEF Absorb
  <2> QED BY <2>1 DEF Byteful, Asked, Ended
<1>3. /\ UNCHANGED packets /\ m_decoder' = r.d /\ m_stage' = m_stage /\ Contents(size, p)
      /\ m_lengthBytes' = IF r.put # <<>> /\ at = "length"
                          THEN [m_lengthBytes EXCEPT ![m_decoder.written + 1] = r.put[1]]
                          ELSE m_lengthBytes
      /\ m_stats' \in [Counters -> Nat]
  BY <1>1, CountsType DEF Absorb, Written
<1>4. live' = live /\ m_building' = m_building /\ phase' = phase
  BY <1>3 DEF packets
<1>5. m_building \in Blocks => m_building \in live
  BY Facts DEF RInv
<1> HIDE DEF r, p
<1>6. CASE r.put = <<>> /\ r.d.written = m_decoder.written
  <2>1. p = payload
    <3>1. \A c \in Blocks : payload[c] \o <<>> = payload[c]
      BY <1>1
    <3> QED BY <1>1, <1>6, <3>1 DEF p
  <2>2. /\ size' \in [Blocks -> 0 .. max_receive_body(Format)]
        /\ payload' \in [Blocks -> Seq(Byte)] /\ Stored'
        /\ \A c \in live : size'[c] = size[c] /\ payload'[c] = payload[c]
    <3>1. Contents(size, payload)
      BY <1>3, <2>1
    <3>2. \A c \in live' : c # m_building' => Len(payload[c]) \in {0, size[c] + Format.crc_size}
      BY <1>1, <1>4 DEF Stored
    <3> QED BY <1>1, <1>4, <3>1, <3>2, ContentsStep
  <2>3. Ranges'
    BY <1>1, <1>2, <1>3, <1>6, <2>2 DEF Ranges
  <2>4. ASSUME Waits(m_stage, m_decoder, m_building)
        PROVE  StageOK'
    <3>1. Waits(m_stage, r.d, m_building)
      BY <1>2, <1>6, <2>4 DEF Waits, Absorbed, SameOutput
    <3> QED BY <1>3, <1>4, <3>1 DEF StageOK, Waits
  <2>5. ASSUME ReadsLength(m_stage, m_decoder, m_building)
        PROVE  StageOK'
    <3>1. ReadsLength(m_stage, r.d, m_building)
      BY <1>2, <1>6, <2>5 DEF ReadsLength, Absorbed, SameOutput
    <3> QED BY <1>3, <1>4, <3>1 DEF StageOK, ReadsLength, LengthSegment
  <2>6. ASSUME ReadsBody(m_stage, m_decoder, m_building, size[m_building], payload[m_building])
        PROVE  StageOK'
    <3>1. ReadsBody(m_stage, r.d, m_building, size'[m_building], payload'[m_building])
      BY <1>2, <1>5, <1>6, <2>2, <2>6 DEF ReadsBody, Absorbed, SameOutput
    <3> QED BY <1>3, <1>4, <3>1 DEF StageOK, ReadsBody, BlockSegment
  <2>7. StageOK'
    BY <1>1, <2>4, <2>5, <2>6 DEF StageOK
  <2> QED BY <1>3, <2>2, <2>3, <2>7 DEF Reception, Kept
<1>7. CASE /\ m_decoder.state = "Decoding" /\ r.d.state = "Decoding"
           /\ m_decoder.hasOutput /\ m_decoder.written < m_decoder.output.size
           /\ r.d.written = m_decoder.written + 1 /\ \E x \in Byte : r.put = <<x>>
  <2>1. PICK x \in Byte : r.put = <<x>>
    BY <1>7
  <2>2. r.put # <<>> /\ r.put[1] = x
    BY <2>1
  <2>3. CASE ReadsLength(m_stage, m_decoder, m_building)
    <3>1. m_decoder.output = LengthSegment /\ at = "length" /\ m_building = NoBlock
      BY <2>3, FormatFacts, <1>1 DEF ReadsLength
    <3>2. p = payload
      BY <1>1, <3>1 DEF p
    <3>3. /\ size' \in [Blocks -> 0 .. max_receive_body(Format)]
          /\ payload' \in [Blocks -> Seq(Byte)] /\ Stored'
          /\ \A c \in live : size'[c] = size[c] /\ payload'[c] = payload[c]
      <4>1. Contents(size, payload)
        BY <1>3, <3>2
      <4>2. \A c \in live' : c # m_building' => Len(payload[c]) \in {0, size[c] + Format.crc_size}
        BY <1>1, <1>4 DEF Stored
      <4> QED BY <1>1, <1>4, <4>1, <4>2, ContentsStep
    <3>4. m_lengthBytes' \in [1 .. length_size(Format) -> Byte]
      BY <1>1, <1>3, <1>7, <2>2, <3>1, FormatFacts
    <3>5. Ranges'
      BY <1>1, <1>2, <1>3, <3>3, <3>4 DEF Ranges
    <3>6. ReadsLength(m_stage, r.d, m_building)
      BY <1>2, <1>7, <2>3 DEF ReadsLength, Absorbed, SameOutput
    <3>7. StageOK'
      BY <1>3, <1>4, <3>6 DEF StageOK, ReadsLength, LengthSegment
    <3> QED BY <1>3, <3>3, <3>5, <3>7 DEF Reception, Kept
  <2>4. CASE ReadsBody(m_stage, m_decoder, m_building, size[m_building], payload[m_building])
    <3>1. at = m_building /\ m_building \in Blocks /\ m_building \in live
      BY <1>5, <2>4 DEF ReadsBody, BlockSegment
    <3>2. \A q \in Seq(Byte) : q \o <<x>> \in Seq(Byte) /\ Len(q \o <<x>>) = Len(q) + 1
      OBVIOUS
    <3>3. /\ p \in [Blocks -> Seq(Byte)]
          /\ Len(p[m_building]) = Len(payload[m_building]) + 1
          /\ \A c \in Blocks : c # m_building => p[c] = payload[c]
      BY <1>1, <2>1, <3>1, <3>2 DEF p
    <3>4. /\ size' \in [Blocks -> 0 .. max_receive_body(Format)]
          /\ payload' \in [Blocks -> Seq(Byte)] /\ Stored'
          /\ \A c \in live : size'[c] = size[c] /\ payload'[c] = p[c]
      <4>1. \A c \in live' : c # m_building' => Len(p[c]) \in {0, size[c] + Format.crc_size}
        BY <1>1, <1>4, <3>3 DEF Stored
      <4> QED BY <1>1, <1>3, <1>4, <3>3, <4>1, ContentsStep
    <3>5. m_lengthBytes' = m_lengthBytes
      BY <1>1, <1>3, <3>1
    <3>6. Ranges'
      BY <1>1, <1>2, <1>3, <3>4, <3>5 DEF Ranges
    <3>7. ReadsBody(m_stage, r.d, m_building, size'[m_building], payload'[m_building])
      BY <1>2, <1>7, <2>4, <3>1, <3>3, <3>4 DEF ReadsBody, Absorbed, SameOutput
    <3>8. StageOK'
      BY <1>3, <1>4, <3>7 DEF StageOK, ReadsBody, BlockSegment
    <3>9. Kept
      BY <1>1, <3>3, <3>4 DEF Kept
    <3> QED BY <1>3, <3>4, <3>6, <3>8, <3>9 DEF Reception
  <2> QED BY <1>1, <1>7, <2>3, <2>4 DEF StageOK, Waits
<1> QED BY <1>2, <1>6, <1>7 DEF Absorbed

\* The segment for the length field, at the first byte of a frame.
LEMMA AttachStep ==
    ASSUME RInv, phase = "open", UNCHANGED Format, NEW b \in Byte,
           AttachHeader(consume(m_decoder, b))
    PROVE  [PacketsNext]_packets /\ Reception' /\ Kept
<1> DEFINE r == consume(m_decoder, b)
           d == r.d
           e == Repointed(d, LengthSegment, 0)
<1>1. /\ Ranges /\ Stored /\ StageOK /\ DecoderOK(m_decoder)
      /\ UNCHANGED <<packets, contents, m_lengthBytes>>
      /\ m_stage = "NeedHeader" /\ m_stage' = "Header" /\ m_stats' \in [Counters -> Nat]
      /\ m_decoder' = attach_output(d, LengthSegment) /\ r.event = "NeedOutput"
  BY CountsType DEF RInv, Reception, Ranges, AttachHeader
<1>2. DecoderOK(d) /\ Asked(m_decoder, r)
  <2>1. Byteful(m_decoder, r, b)
    BY <1>1, ConsumeByte
  <2> QED BY <1>1, <2>1 DEF Byteful, Absorbed, Ended
<1> HIDE DEF r
<1>3. Waits(m_stage, m_decoder, m_building)
  BY <1>1 DEF StageOK, ReadsLength, ReadsBody
<1>4. d.state = "Decoding" /\ ~d.hasOutput /\ d.written = 0 /\ d.decodedBefore = 0
  BY <1>2, <1>3 DEF Asked, Waits, SameOutput
<1> HIDE DEF d
<1>5. m_decoder' = e
  BY <1>1, <1>2, <1>4 DEF attach_output, Repointed, DecoderOK, Decoders
<1>6. /\ DecoderOK(e) /\ e.state = "Decoding" /\ e.output = LengthSegment /\ e.hasOutput
      /\ e.decodedBefore = 0
  <2>1. LengthSegment \in Segments
    BY <1>1, FormatFacts DEF Ranges
  <2> QED BY <1>2, <1>4, <2>1, NewSegment
<1> HIDE DEF e
<1>7. DecoderOK(e) /\ ReadsLength("Header", e, NoBlock)
  BY <1>6 DEF ReadsLength
<1>8. Ranges'
  BY <1>1, <1>5, <1>7 DEF Ranges, contents
<1>9. m_building' = NoBlock /\ Stored' /\ Kept
  BY <1>1, <1>3 DEF packets, contents, Stored, Waits, Kept
<1>10. StageOK'
  BY <1>1, <1>5, <1>7, <1>9 DEF StageOK, ReadsLength, LengthSegment
<1> QED BY <1>1, <1>8, <1>9, <1>10 DEF Reception

\* The body begins: the byte that asked for room is its first.
LEMMA BeginStep ==
    ASSUME RInv, phase = "open", UNCHANGED Format, NEW b \in Byte, NEW c \in Blocks,
           beginBody(consume(m_decoder, b), b, c)
    PROVE  [PacketsNext]_packets /\ Reception' /\ Kept
<1> DEFINE r == consume(m_decoder, b)
           n == declared
           e == Repointed(m_decoder, BlockSegment(c, n), length_size(Format))
           s == consume(e, b)
           sz == [size EXCEPT ![c] = n]
           pl == [payload EXCEPT ![c] = s.put]
<1>1. /\ Ranges /\ Stored /\ StageOK /\ DecoderOK(m_decoder) /\ Format \in Formats
      /\ size \in [Blocks -> 0 .. max_receive_body(Format)]
      /\ payload \in [Blocks -> Seq(Byte)] /\ live \in SUBSET Blocks
      /\ max_receive_body(Format) \in Nat
  BY Facts, FormatFacts DEF RInv, Reception, Ranges, PacketsTypeOK
<1>2. /\ r.event = "NeedOutput" /\ m_stage = "Header"
      /\ n <= max_receive_body(Format) /\ n # 0
      /\ Granted(c, n) /\ m_stage' = "Body" /\ UNCHANGED m_lengthBytes
      /\ m_stats' \in [Counters -> Nat]
  BY <1>1, CountsType DEF beginBody, BodyBegins, Contradicted
<1>3. n \in Nat /\ n \in 0 .. max_receive_body(Format)
  <2>1. n \in Nat
    BY <1>1, Declared
  <2> HIDE DEF n
  <2> QED BY <1>1, <1>2, <2>1
<1>4. ReadsLength(m_stage, m_decoder, m_building)
  BY <1>1, <1>2 DEF StageOK, Waits, ReadsBody
<1>5. /\ b # 0 /\ m_decoder.state = "Decoding" /\ r.d = m_decoder /\ SegmentFull(m_decoder)
      /\ m_decoder.blockRemaining > 0 \/ m_decoder.pendingZero
  <2>1. Byteful(m_decoder, r, b)
    BY <1>1, ConsumeByte
  <2>2. Asked(m_decoder, r) /\ (m_decoder.state = "Decoding" /\ m_decoder.hasOutput => b # 0)
    BY <1>2, <2>1 DEF Byteful, Absorbed, Ended
  <2> QED BY <1>4, <2>2 DEF Asked, ReadsLength
<1>6. attach_output(r.d, BlockSegment(c, n)) = e
  <2>1. m_decoder.decodedBefore + m_decoder.written = length_size(Format)
    <3>1. m_decoder.written = length_size(Format) /\ m_decoder.decodedBefore = 0
      BY <1>4, <1>5, <1>1, FormatFacts DEF SegmentFull, ReadsLength
    <3> QED BY <3>1, <1>1, FormatFacts
  <2> HIDE DEF n, r
  <2> QED BY <1>5, <2>1 DEF attach_output, Repointed, DecoderOK, Decoders
<1>7. /\ Contents(sz, pl) /\ m_decoder' = s.d
  BY <1>6 DEF beginBody
<1> HIDE DEF r
<1>8. /\ DecoderOK(e) /\ e.state = "Decoding" /\ e.output = BlockSegment(c, n) /\ e.hasOutput
      /\ e.written = 0 /\ e.decodedBefore = length_size(Format)
      /\ e.blockRemaining > 0 \/ e.pendingZero
  <2>1. BlockSegment(c, n) \in Segments /\ length_size(Format) \in Nat
    BY <1>1, <1>3, FormatFacts DEF BlockSegment, Segments
  <2> DEFINE g == BlockSegment(c, n)
             k == length_size(Format)
  <2>2. g \in Segments /\ k \in Nat /\ e = Repointed(m_decoder, g, k)
    BY <2>1
  <2> HIDE DEF g, k, e
  <2> DEFINE f == Repointed(m_decoder, g, k)
  <2>4. /\ DecoderOK(f) /\ f.state = m_decoder.state /\ f.output = g /\ f.hasOutput
        /\ f.written = 0 /\ f.decodedBefore = k
        /\ f.blockRemaining = m_decoder.blockRemaining
        /\ f.pendingZero = m_decoder.pendingZero
    BY <1>1, <2>2, NewSegment
  <2> HIDE DEF f
  <2>3. /\ DecoderOK(e) /\ e.state = m_decoder.state /\ e.output = g /\ e.hasOutput
        /\ e.written = 0 /\ e.decodedBefore = k
        /\ e.blockRemaining = m_decoder.blockRemaining
        /\ e.pendingZero = m_decoder.pendingZero
    BY <2>2, <2>4 DEF f
  <2> QED BY <1>5, <2>3 DEF g, k
<1>9. ~SegmentFull(e)
  BY <1>2, <1>8 DEF SegmentFull, BlockSegment
<1> HIDE DEF e, n
<1>10. /\ DecoderOK(s.d) /\ SameOutput(s.d, e) /\ s.d.state = "Decoding" /\ s.d.written = 1
       /\ \E x \in Byte : s.put = <<x>>
  BY <1>5, <1>8, <1>9, ConsumeAgain
<1> HIDE DEF s
<1>11. s.put \in Seq(Byte) /\ Len(s.put) = 1
  BY <1>10
<1>12. /\ phase' = phase /\ live' = live \union {c} /\ m_building' = c /\ c \notin live
       /\ Acquire(c) /\ live' \in SUBSET Blocks
  BY <1>1, <1>2, <1>4 DEF Granted, Acquire, ReadsLength
<1>13. [PacketsNext]_packets
  BY <1>12 DEF PacketsNext
<1>14. /\ sz \in [Blocks -> 0 .. max_receive_body(Format)] /\ pl \in [Blocks -> Seq(Byte)]
       /\ sz[c] = n /\ pl[c] = s.put
       /\ \A a \in Blocks : a # c => sz[a] = size[a] /\ pl[a] = payload[a]
  BY <1>1, <1>3, <1>11
<1> HIDE DEF sz, pl
<1>15. \A a \in live' : a # m_building' => Len(pl[a]) \in {0, sz[a] + Format.crc_size}
  <2> SUFFICES ASSUME NEW a \in live, a # c
               PROVE  Len(pl[a]) \in {0, sz[a] + Format.crc_size}
    BY <1>12
  <2>1. a \in Blocks /\ a # m_building
    BY <1>1, <1>4, BlockOrNot DEF ReadsLength
  <2> QED BY <1>1, <1>14, <2>1 DEF Stored
<1>16. /\ size' \in [Blocks -> 0 .. max_receive_body(Format)]
       /\ payload' \in [Blocks -> Seq(Byte)] /\ Stored'
       /\ \A a \in live' : size'[a] = sz[a] /\ payload'[a] = pl[a]
  BY <1>1, <1>7, <1>12, <1>14, <1>15, ContentsStep
<1>17. Ranges'
  BY <1>1, <1>2, <1>7, <1>10, <1>16 DEF Ranges
<1>18. ReadsBody("Body", s.d, c, size'[c], payload'[c])
  BY <1>8, <1>10, <1>11, <1>12, <1>14, <1>16 DEF ReadsBody, SameOutput
<1>19. StageOK'
  BY <1>2, <1>7, <1>12, <1>18 DEF StageOK, ReadsBody, BlockSegment
<1>20. Kept
  BY <1>1, <1>12, <1>14, <1>16 DEF Kept
<1> QED BY <1>13, <1>16, <1>17, <1>19, <1>20 DEF Reception

\* A delimiter: the decoder is dropped, and prepared for the next frame.
LEMMA PublishedStep ==
    ASSUME RInv, phase = "open", UNCHANGED <<Format, phase>>, [PacketsNext]_packets,
           NEW b \in Byte, consume(m_decoder, b).event = "FrameComplete",
           NEW c \in Blocks, NEW n \in 0 .. max_receive_body(Format),
           Published(consume(m_decoder, b), c, n),
           Len(payload[c]) \in {0, n + Format.crc_size},
           m_building' = NoBlock, m_building \in {NoBlock, c},
           live' = live \union {c}, c = m_building \/ c \notin live
    PROVE  Reception' /\ Kept
<1> DEFINE r == consume(m_decoder, b)
           sz == [size EXCEPT ![c] = n]
<1>1. /\ Ranges /\ Stored /\ StageOK /\ DecoderOK(m_decoder) /\ Format \in Formats
      /\ size \in [Blocks -> 0 .. max_receive_body(Format)]
      /\ payload \in [Blocks -> Seq(Byte)] /\ live \in SUBSET Blocks
  BY Facts DEF RInv, Reception, Ranges, PacketsTypeOK
<1>2. r.d = dropFrame(m_decoder, "Synced")
  <2>1. Byteful(m_decoder, r, b)
    BY <1>1, ConsumeByte
  <2> QED BY <2>1 DEF Byteful, Absorbed, Asked, Ended
<1>3. DecoderOK(m_decoder') /\ ReadsLength("Header", m_decoder', NoBlock)
  BY <1>1, <1>2, Prepared, Dropped DEF Published
<1>4. /\ Contents(sz, payload) /\ m_stage' = "Header" /\ UNCHANGED m_lengthBytes
      /\ m_stats' \in [Counters -> Nat]
  BY <1>1, CountsType DEF Published
<1>5. /\ sz \in [Blocks -> 0 .. max_receive_body(Format)] /\ sz[c] = n
      /\ \A a \in Blocks : a # c => sz[a] = size[a]
  BY <1>1
<1> HIDE DEF sz, r
<1>6. \A a \in live' : Len(payload[a]) \in {0, sz[a] + Format.crc_size}
  <2> SUFFICES ASSUME NEW a \in live, a # c
               PROVE  Len(payload[a]) \in {0, sz[a] + Format.crc_size}
    BY <1>5
  <2>1. a \in Blocks /\ a # m_building
    BY <1>1, BlockOrNot
  <2> QED BY <1>1, <1>5, <2>1 DEF Stored
<1>7. live' \in SUBSET Blocks
  BY <1>1
<1>8. /\ size' \in [Blocks -> 0 .. max_receive_body(Format)]
      /\ payload' \in [Blocks -> Seq(Byte)] /\ Stored'
      /\ \A a \in live' : size'[a] = sz[a] /\ payload'[a] = payload[a]
  BY <1>1, <1>4, <1>5, <1>6, <1>7, ContentsStep
<1>9. Ranges'
  BY <1>1, <1>3, <1>4, <1>8 DEF Ranges
<1>10. StageOK'
  BY <1>3, <1>4 DEF StageOK, ReadsLength, LengthSegment
<1>11. Kept
  BY <1>1, <1>5, <1>8 DEF Kept
<1> QED BY <1>8, <1>9, <1>10, <1>11 DEF Reception

LEMMA PublishBodyStep ==
    ASSUME RInv, phase = "open", UNCHANGED Format, NEW b \in Byte,
           PublishBody(consume(m_decoder, b))
    PROVE  [PacketsNext]_packets /\ Reception' /\ Kept
<1> DEFINE r == consume(m_decoder, b)
           n == r.size - length_size(Format) - Format.crc_size
           c == m_building
<1>1. /\ Ranges /\ Stored /\ StageOK /\ DecoderOK(m_decoder) /\ Format \in Formats
      /\ size \in [Blocks -> 0 .. max_receive_body(Format)]
      /\ payload \in [Blocks -> Seq(Byte)] /\ live \in SUBSET Blocks
      /\ max_receive_body(Format) \in Nat /\ Format.crc_size \in Nat
      /\ length_size(Format) \in Nat
  BY Facts, FormatFacts DEF RInv, Reception, Ranges, PacketsTypeOK
<1>2. /\ r.event = "FrameComplete" /\ m_stage = "Body" /\ WholeBody(r.size) = "fine"
      /\ Publish /\ Published(r, c, n)
  BY DEF PublishBody
<1>3. ReadsBody(m_stage, m_decoder, c, size[c], payload[c])
  BY <1>1, <1>2 DEF StageOK, Waits, ReadsLength
<1>4. r.size = length_size(Format) + Len(payload[c]) /\ c \in Blocks
  <2>1. Byteful(m_decoder, r, b)
    BY <1>1, ConsumeByte
  <2>2. r.size = m_decoder.decodedBefore + m_decoder.written
    BY <1>2, <2>1 DEF Byteful, Absorbed, Asked, Ended
  <2> QED BY <1>3, <2>2 DEF ReadsBody
<1>5. r.size - length_size(Format) = size[c] /\ verify(payload[c])
  BY <1>2 DEF WholeBody
<1>6. Len(payload[c]) - Format.crc_size >= 0
  BY <1>5 DEF verify
<1>7. Len(payload[c]) \in Nat /\ size[c] \in 0 .. max_receive_body(Format)
  BY <1>1, <1>4
<1> HIDE DEF r
<1>8. n \in 0 .. max_receive_body(Format) /\ Len(payload[c]) = n + Format.crc_size
  BY <1>1, <1>4, <1>5, <1>6, <1>7
<1> HIDE DEF n
<1>9. c \in live
  BY <1>4, Facts DEF RInv
<1>10. /\ [PacketsNext]_packets /\ m_building' = NoBlock /\ UNCHANGED phase
       /\ live' = live \union {c}
  BY <1>2, <1>9 DEF Publish, PacketsNext
<1> HIDE DEF c
<1>11. Reception' /\ Kept
  BY <1>2, <1>4, <1>8, <1>10, PublishedStep DEF r, c
<1> QED BY <1>10, <1>11

LEMMA PublishNothingStep ==
    ASSUME RInv, phase = "open", UNCHANGED Format, NEW b \in Byte, NEW c \in Blocks,
           PublishNothing(consume(m_decoder, b), c)
    PROVE  [PacketsNext]_packets /\ Reception' /\ Kept
<1> DEFINE r == consume(m_decoder, b)
<1>1. /\ r.event = "FrameComplete" /\ PublishEmpty(c) /\ Published(r, c, 0)
  BY DEF PublishNothing
<1>2. 0 \in 0 .. max_receive_body(Format) /\ payload[c] = <<>>
  BY <1>1, FormatFacts DEF RInv, Reception, Ranges, Stored, PublishEmpty
<1>3. /\ [PacketsNext]_packets /\ m_building' = NoBlock /\ m_building = NoBlock
      /\ UNCHANGED phase /\ live' = live \union {c} /\ c \notin live
  BY <1>1 DEF PublishEmpty, PacketsNext
<1>4. Len(payload[c]) \in {0, 0 + Format.crc_size}
  BY <1>2
<1> HIDE DEF r
<1>5. Reception' /\ Kept
  BY <1>1, <1>2, <1>3, <1>4, PublishedStep DEF r
<1> QED BY <1>3, <1>5

\* What ends a frame or gives it up.
LEMMA EndingSteps ==
    ASSUME RInv, phase = "open", UNCHANGED Format, NEW b \in Byte
    PROVE  LET r == consume(m_decoder, b)
           IN  \/ Malformed(r) \/ LoseComplete(r) \/ RefuseNothing(r)
               \/ RefuseBody(r, b) \/ Overrun(r, b)
               => [PacketsNext]_packets /\ Reception' /\ Kept
<1> DEFINE r == consume(m_decoder, b)
<1>1. Byteful(m_decoder, r, b)
  BY ConsumeByte DEF RInv, Reception, Ranges
<1>2. r.event \in {"Malformed", "FrameComplete"} => r.d = dropFrame(m_decoder, "Synced")
  BY <1>1 DEF Byteful, Absorbed, Asked, Ended
<1>3. ASSUME NEW cs, endFrame(r.d, cs), r.event \in {"Malformed", "FrameComplete"}
      PROVE  [PacketsNext]_packets /\ Reception' /\ Kept
  BY <1>2, <1>3, EndFrameStep
<1>4. ASSUME NEW cs, abandonFrame(r.d, b, cs)
      PROVE  [PacketsNext]_packets /\ Reception' /\ Kept
  BY <1>4, AbandonStep
<1> HIDE DEF r
<1>5. CASE Malformed(r)
  BY <1>3, <1>5 DEF Malformed
<1>6. CASE LoseComplete(r)
  BY <1>3, <1>6 DEF LoseComplete
<1>7. CASE RefuseNothing(r)
  BY <1>3, <1>7 DEF RefuseNothing
<1>8. CASE RefuseBody(r, b)
  BY <1>4, <1>8 DEF RefuseBody
<1>9. CASE Overrun(r, b)
  BY <1>4, <1>9 DEF Overrun
<1> QED BY <1>5, <1>6, <1>7, <1>8, <1>9 DEF r

LEMMA ConsumeStep ==
    ASSUME RInv, UNCHANGED Format, NEW b \in Byte, Consume(b)
    PROVE  [PacketsNext]_packets /\ Reception' /\ Kept
<1>1. phase = "open" /\ Handled(consume(m_decoder, b), b)
  BY DEF Consume
<1>2. ASSUME NEW c \in Blocks, beginBody(consume(m_decoder, b), b, c)
      PROVE  [PacketsNext]_packets /\ Reception' /\ Kept
  BY <1>1, <1>2, BeginStep
<1>3. ASSUME NEW c \in Blocks, PublishNothing(consume(m_decoder, b), c)
      PROVE  [PacketsNext]_packets /\ Reception' /\ Kept
  BY <1>1, <1>3, PublishNothingStep
<1> QED BY Zenon, <1>1, <1>2, <1>3, AbsorbStep, AttachStep, PublishBodyStep, EndingSteps
           DEF Handled

\* The application's packets and the destructor: no block joins those storage
\* has granted, and none is taken from the frame under way but by the destructor.
LEMMA ElsewhereShrinks ==
    ASSUME IInv, Elsewhere
    PROVE  /\ PacketsNext /\ live' \subseteq live
           /\ \A b \in live' : b = m_building => m_building' = m_building
           /\ phase' = "open" => phase = "open" /\ m_building' = m_building
<1>0. live \in SUBSET Blocks /\ NoBlock \notin Blocks /\ phase \in {"open", "closing", "closed"}
  BY Facts, BlockOrNot DEF PacketsTypeOK
<1>1. ASSUME NEW r, NEW b, Release(r, b)
      PROVE  live' \subseteq live
  BY <1>1 DEF Release, LiveReleased
<1>2. CASE Application
  <2>1. live' \subseteq live /\ m_building' = m_building /\ phase' = phase
    BY Zenon, <1>1, <1>2 DEF Application, PopInto, Reset, CopyAssign, MoveAssign
  <2> QED BY <1>2, <2>1 DEF PacketsNext, Application
<1>3. CASE Destroy
  BY <1>0, <1>3 DEF Destroy, ReleaseBuilding, PacketsNext
<1>4. CASE ClearOne
  <2>1. live' \subseteq live /\ m_building' = m_building /\ phase' = phase /\ phase = "closing"
    BY <1>1, <1>4 DEF ClearOne
  <2> QED BY <1>4, <2>1 DEF PacketsNext
<1>5. CASE Closed
  BY <1>5 DEF Closed, PacketsNext
<1> QED BY <1>2, <1>3, <1>4, <1>5 DEF Elsewhere

LEMMA ElsewhereStep ==
    ASSUME RInv, UNCHANGED Format, Elsewhere
    PROVE  [PacketsNext]_packets /\ Reception' /\ Kept
<1>1. /\ Ranges /\ Stored /\ StageOK /\ Format \in Formats /\ IInv
      /\ size \in [Blocks -> 0 .. max_receive_body(Format)]
      /\ payload \in [Blocks -> Seq(Byte)] /\ live \in SUBSET Blocks
  BY Facts DEF RInv, Reception, Ranges, PacketsTypeOK
<1>2. /\ PacketsNext /\ live' \subseteq live
      /\ \A b \in live' : b = m_building => m_building' = m_building
      /\ phase' = "open" => phase = "open" /\ m_building' = m_building
  BY <1>1, ElsewhereShrinks
<1>3. IInv'
  BY <1>1, <1>2, NextIInv
<1>4. m_building' \in Blocks => m_building' \in live'
  BY <1>3, OwnersType DEF IInv, OwnersExact, Owners, Base
<1>5. /\ Contents(size, payload)
      /\ UNCHANGED <<m_decoder, m_lengthBytes, m_stage, m_stats>>
  BY DEF Elsewhere
<1>6. \A b \in live' : b # m_building' => Len(payload[b]) \in {0, size[b] + Format.crc_size}
  BY <1>1, <1>2 DEF Stored
<1>7. /\ size' \in [Blocks -> 0 .. max_receive_body(Format)]
      /\ payload' \in [Blocks -> Seq(Byte)] /\ Stored'
      /\ \A b \in live' : size'[b] = size[b] /\ payload'[b] = payload[b]
  BY <1>1, <1>2, <1>5, <1>6, ContentsStep
<1>8. Ranges'
  BY <1>1, <1>5, <1>7 DEF Ranges
<1>9. StageOK'
  <2> SUFFICES ASSUME phase' = "open"
               PROVE  \/ Waits(m_stage, m_decoder, m_building)'
                      \/ ReadsLength(m_stage, m_decoder, m_building)'
                      \/ ReadsBody(m_stage, m_decoder, m_building, size[m_building],
                                   payload[m_building])'
    BY DEF StageOK
  <2>1. m_building' = m_building /\ phase = "open"
    BY <1>2
  <2>2. CASE Waits(m_stage, m_decoder, m_building)
    BY <1>5, <2>1, <2>2 DEF Waits
  <2>3. CASE ReadsLength(m_stage, m_decoder, m_building)
    BY <1>5, <2>1, <2>3 DEF ReadsLength, LengthSegment
  <2>4. CASE ReadsBody(m_stage, m_decoder, m_building, size[m_building], payload[m_building])
    <3>1. m_building \in live'
      BY <1>4, <2>1, <2>4 DEF ReadsBody
    <3>2. size'[m_building] = size[m_building] /\ payload'[m_building] = payload[m_building]
      BY <1>7, <3>1
    <3> QED BY <1>5, <2>1, <2>4, <3>2 DEF ReadsBody, BlockSegment
  <2> QED BY <1>1, <2>1, <2>2, <2>3, <2>4 DEF StageOK
<1>10. Kept
  BY <1>7 DEF Kept
<1> QED BY <1>2, <1>7, <1>8, <1>9, <1>10 DEF Reception

LEMMA StutterStep ==
    ASSUME RInv, UNCHANGED vars
    PROVE  RInv' /\ [PacketsNext]_packets /\ Kept
<1>1. /\ UNCHANGED packets /\ Format' = Format /\ m_decoder' = m_decoder
      /\ m_lengthBytes' = m_lengthBytes /\ m_stage' = m_stage /\ m_stats' = m_stats
      /\ size' = size /\ payload' = payload
      /\ live' = live /\ m_building' = m_building /\ phase' = phase
  BY DEF vars, contents, packets
<1>2. IInv'
  BY <1>1, NextIInv DEF RInv
<1>3. Ranges'
  BY <1>1 DEF RInv, Reception, Ranges
<1>4. Stored' /\ StageOK' /\ Kept
  BY <1>1 DEF RInv, Reception, Stored, StageOK, Waits, ReadsLength, ReadsBody, BlockSegment,
              LengthSegment, Kept
<1> QED BY <1>1, <1>2, <1>3, <1>4 DEF RInv, Reception

LEMMA RInvStep ==
    ASSUME RInv, [ReceiverNext]_vars
    PROVE  RInv' /\ [PacketsNext]_packets /\ Kept
<1>1. CASE UNCHANGED vars
  BY <1>1, StutterStep
<1>2. CASE ReceiverNext
  <2>1. UNCHANGED Format
    BY <1>2 DEF ReceiverNext
  <2>2. [PacketsNext]_packets /\ Reception' /\ Kept
    <3>1. ASSUME NEW b \in Byte, Consume(b)
          PROVE  [PacketsNext]_packets /\ Reception' /\ Kept
      BY <2>1, <3>1, ConsumeStep
    <3>2. CASE gap
      BY <2>1, <3>2, GapStep DEF gap
    <3>3. CASE Elsewhere
      BY <2>1, <3>3, ElsewhereStep
    <3> QED BY <1>2, <3>1, <3>2, <3>3 DEF ReceiverNext
  <2>3. IInv'
    BY <2>2, NextIInv DEF RInv
  <2> QED BY <2>2, <2>3 DEF RInv
<1> QED BY <1>1, <1>2

LEMMA RInvInit == ReceiverInit => RInv
<1> SUFFICES ASSUME ReceiverInit
             PROVE  RInv
  OBVIOUS
<1>1. /\ PacketsInit /\ Format \in Formats
      /\ m_decoder = prepare_output(NewDecoder, LengthSegment)
      /\ m_lengthBytes = [k \in 1 .. length_size(Format) |-> 0]
      /\ m_stage = "Header"
      /\ size = [b \in Blocks |-> 0] /\ payload = [b \in Blocks |-> <<>>]
      /\ m_stats = NoCounts
  BY DEF ReceiverInit
<1>2. IInv /\ live = {} /\ m_building = NoBlock
  BY <1>1, InitIInv DEF PacketsInit
<1>3. DecoderOK(NewDecoder) /\ NewDecoder.state = "Synced"
  BY ByteFacts, NoSegmentOK DEF NewDecoder, DecoderOK, Decoders
<1>4. DecoderOK(m_decoder) /\ ReadsLength("Header", m_decoder, NoBlock)
  BY <1>1, <1>3, Prepared
<1>5. max_receive_body(Format) \in Nat /\ <<>> \in Seq(Byte)
  BY <1>1, FormatFacts
<1>6. Ranges
  BY <1>1, <1>4, <1>5, ByteFacts DEF Ranges, NoCounts
<1>7. Stored
  BY <1>1, <1>2 DEF Stored
<1> QED BY <1>1, <1>2, <1>4, <1>6, <1>7 DEF RInv, Reception, StageOK

LEMMA ReceiverInductive == ReceiverSpec => []RInv
BY RInvInit, RInvStep, PTL DEF ReceiverSpec

LEMMA OwnedNow == RInv => WritesAreOwned
<1> SUFFICES ASSUME RInv
             PROVE  WritesAreOwned
  OBVIOUS
<1>1. /\ Ranges /\ Stored /\ StageOK /\ IInv /\ Format \in Formats /\ DecoderOK(m_decoder)
      /\ PacketsTypeOK /\ OneStage /\ ClosedOK
  BY Facts DEF RInv, Reception, Ranges
<1>2. DecoderType(m_decoder, [at : Blocks \union {"length"}, size : Nat])
  <2>1. m_decoder.output.size \in Nat /\ m_decoder.written \in Nat
    BY <1>1, SegmentSize DEF DecoderOK, Decoders
  <2>2. m_decoder.written \in 0 .. m_decoder.output.size
    BY <1>1, <2>1 DEF DecoderOK
  <2> QED BY <1>1, <2>2 DEF DecoderOK, Decoders, DecoderType, Segments
<1>3. ReceiverTypeOK
  BY <1>1, <1>2 DEF Ranges, ReceiverTypeOK
<1>4. OutputIsOwned
  BY <1>1, BlockOrNot DEF StageOK, OutputIsOwned, Waits, ReadsLength, ReadsBody
<1>5. WithinGrant
  <2>1. ASSUME m_building # NoBlock
        PROVE  Len(payload[m_building]) <= size[m_building]
    <3>1. phase = "open"
      BY <1>1, <2>1 DEF ClosedOK
    <3>2. ReadsBody(m_stage, m_decoder, m_building, size[m_building], payload[m_building])
      BY <1>1, <2>1, <3>1 DEF StageOK, Waits, ReadsLength
    <3> QED BY <1>1, <3>2 DEF ReadsBody, BlockSegment, DecoderOK
  <2>2. ASSUME NEW b \in Queued \union (Held \ {NoBlock})
        PROVE  Len(payload[b]) \in {0, size[b] + Format.crc_size}
    <3>1. b \in Blocks /\ b \in live
      BY <1>1, Facts
    <3>2. b # m_building
      BY <1>1 DEF OneStage
    <3> QED BY <1>1, <3>1, <3>2 DEF Stored
  <2> QED BY <2>1, <2>2 DEF WithinGrant
<1> QED BY <1>3, <1>4, <1>5 DEF WritesAreOwned

\* Memory safety of the reception (Receiver.h): whatever the line carries, the
\* decoder writes within the length field or the block under way and nowhere else,
\* a block is under way exactly while a body is read, and what is published holds
\* its body.
THEOREM ReceiverWritesAreOwned == ReceiverSpec => []WritesAreOwned
BY ReceiverInductive, OwnedNow, PTL

\* The receiver treats blocks as CobsPackets lets it.
THEOREM ReceiverBlocksAreOwned == ReceiverSpec => BlocksAreOwned
<1>1. ReceiverInit => PacketsInit
  BY DEF ReceiverInit
<1>2. RInv /\ [ReceiverNext]_vars => [PacketsNext]_packets
  BY RInvStep
<1> QED BY <1>1, <1>2, ReceiverInductive, PTL DEF ReceiverSpec, BlocksAreOwned, PacketsSpec

-----------------------------------------------------------------------------
(* Packets as values.                                                      *)

Mapped(q, f) == [k \in DOMAIN q |-> f[q[k]]]
Bodies == [b \in Blocks |-> Content(b)]

LEMMA MappedSeq ==
    ASSUME NEW q \in Seq(Blocks), NEW f
    PROVE  /\ Mapped(q, f) \in Seq({f[b] : b \in Blocks})
           /\ Len(Mapped(q, f)) = Len(q)
           /\ \A k \in 1 .. Len(q) : q[k] \in Blocks /\ Mapped(q, f)[k] = f[q[k]]
<1> DEFINE S == {f[b] : b \in Blocks}
<1>1. DOMAIN q = 1 .. Len(q) /\ Len(q) \in Nat /\ \A k \in 1 .. Len(q) : q[k] \in Blocks
  OBVIOUS
<1>2. Mapped(q, f) \in [1 .. Len(q) -> S]
  BY <1>1 DEF Mapped
<1> HIDE DEF S
<1>3. Mapped(q, f) \in Seq(S) /\ Len(Mapped(q, f)) = Len(q)
  <2>1. Mapped(q, f) \in Seq(S)
    BY <1>1, <1>2, SeqDef
  <2> QED BY <1>1, <1>2, <2>1
<1>4. \A k \in 1 .. Len(q) : Mapped(q, f)[k] = f[q[k]]
  BY <1>1 DEF Mapped
<1> QED BY <1>1, <1>3, <1>4 DEF S

LEMMA MappedTail ==
    ASSUME NEW q \in Seq(Blocks), q # <<>>, NEW f, NEW g,
           \A k \in 1 .. Len(q) : k # 1 => g[q[k]] = f[q[k]]
    PROVE  /\ Mapped(q, f) # <<>> /\ Head(Mapped(q, f)) = f[q[1]]
           /\ Mapped(Tail(q), g) = Tail(Mapped(q, f))
<1> DEFINE m == Mapped(q, f)
           t == Tail(q)
           S == {f[b] : b \in Blocks}
<1>1. Len(q) \in Nat /\ Len(q) > 0 /\ t \in Seq(Blocks) /\ Len(t) = Len(q) - 1
      /\ \A k \in 1 .. Len(t) : t[k] = q[k + 1]
  OBVIOUS
<1>2. m \in Seq(S) /\ Len(m) = Len(q) /\ \A k \in 1 .. Len(q) : m[k] = f[q[k]]
  BY MappedSeq
<1> HIDE DEF S, m, t
<1>3. m # <<>> /\ Head(m) = f[q[1]]
  BY <1>1, <1>2
<1>4. /\ Tail(m) = [k \in 1 .. Len(t) |-> m[k + 1]]
  <2>1. Len(m) - 1 = Len(t) /\ m # <<>>
    BY <1>1, <1>2, <1>3
  <2>2. /\ Tail(m) \in Seq(S) /\ Len(Tail(m)) = Len(t)
        /\ \A k \in 1 .. Len(t) : Tail(m)[k] = m[k + 1]
    BY <1>2, <2>1, HeadTailProperties
  <2>3. \A u \in Seq(S) : u = [k \in 1 .. Len(u) |-> u[k]]
    OBVIOUS
  <2> QED BY <2>2, <2>3
<1>5. DOMAIN t = 1 .. Len(t)
  BY <1>1
<1>6. \A k \in 1 .. Len(t) : g[t[k]] = m[k + 1]
  <2> SUFFICES ASSUME NEW k \in 1 .. Len(t)
               PROVE  g[t[k]] = m[k + 1]
    OBVIOUS
  <2>1. k + 1 \in 1 .. Len(q) /\ k + 1 # 1
    BY <1>1
  <2> QED BY <1>1, <1>2, <2>1
<1>7. Mapped(t, g) = Tail(m)
  BY <1>4, <1>5, <1>6 DEF Mapped
<1> QED BY <1>3, <1>7 DEF m, t

LEMMA MappedAppend ==
    ASSUME NEW q \in Seq(Blocks), NEW c \in Blocks, NEW f, NEW g,
           \A k \in 1 .. Len(q) : g[q[k]] = f[q[k]]
    PROVE  LET m == Mapped(Append(q, c), g)
           IN  m # <<>> /\ Mapped(q, f) = SubSeq(m, 1, Len(m) - 1)
<1> DEFINE a == Append(q, c)
           m == Mapped(a, g)
           S == {g[b] : b \in Blocks}
<1>1. /\ a \in Seq(Blocks) /\ Len(a) = Len(q) + 1 /\ Len(q) \in Nat /\ DOMAIN q = 1 .. Len(q)
      /\ \A k \in 1 .. Len(q) : a[k] = q[k]
  OBVIOUS
<1> HIDE DEF a
<1>2. m \in Seq(S) /\ Len(m) = Len(a) /\ \A k \in 1 .. Len(a) : m[k] = g[a[k]]
  <2>1. a \in Seq(Blocks)
    BY <1>1
  <2> QED BY ONLY <2>1, MappedSeq DEF m, S
<1> HIDE DEF S, m
<1>3. Len(m) - 1 = Len(q) /\ m # <<>>
  BY <1>1, <1>2
<1>4. SubSeq(m, 1, Len(q)) = [k \in 1 .. Len(q) |-> m[k]]
  BY <1>1, <1>2
<1>5. \A k \in 1 .. Len(q) : m[k] = f[q[k]]
  BY <1>1, <1>2
<1>6. Mapped(q, f) = SubSeq(m, 1, Len(q))
  BY <1>1, <1>4, <1>5 DEF Mapped
<1> QED BY <1>3, <1>6 DEF m, a

\* What is seen is owned, by somebody else than the frame under way.
LEMMA SeenIsOwned == IInv => Queued \subseteq live /\ Held \subseteq live
BY Facts

LEMMA SeenKept ==
    ASSUME RInv, RInv', Kept
    PROVE  \A b \in Queued \union Held : b \in Queued' \union Held' => Bodies'[b] = Bodies[b]
<1>1. Queued' \subseteq live' /\ Held' \subseteq live'
  <2>1. IInv'
    BY DEF RInv
  <2>2. (Queued \subseteq live /\ Held \subseteq live)'
    BY <2>1, SeenIsOwned, PTL
  <2> QED BY <2>2
<1> SUFFICES ASSUME NEW b \in Queued \union Held, b \in Queued' \union Held'
             PROVE  Content(b)' = Content(b)
  BY Facts DEF Bodies, RInv
<1>2. b \in live /\ b \in live' /\ b # m_building
  BY <1>1, Facts, SeenIsOwned DEF RInv, OneStage
<1>3. size'[b] = size[b] /\ payload'[b] = payload[b]
  BY <1>2 DEF Kept
<1> QED BY <1>3 DEF Content

\* What handles p read when the blocks hold f.
Read(p, f) == [h \in Handles |-> IF p[h] = NoBlock THEN NoPacket ELSE f[p[h]]]

LEMMA SeenNow == PacketsTypeOK => inbox = Mapped(queue, Bodies) /\ view = Read(pkt, Bodies)
<1> SUFFICES ASSUME PacketsTypeOK
             PROVE  inbox = Mapped(queue, Bodies) /\ view = Read(pkt, Bodies)
  OBVIOUS
<1>1. inbox = Mapped(queue, Bodies)
  <2>1. \A k \in DOMAIN queue : queue[k] \in Blocks
    BY DEF PacketsTypeOK
  <2> QED BY <2>1 DEF inbox, Mapped, Bodies
<1>2. view = Read(pkt, Bodies)
  BY DEF PacketsTypeOK, Pointers, view, Bodies, Read
<1> QED BY <1>1, <1>2

LEMMA SeenNext ==
    ASSUME RInv, RInv', Kept
    PROVE  /\ inbox = Mapped(queue, Bodies) /\ view = Read(pkt, Bodies)
           /\ inbox' = Mapped(queue', Bodies') /\ view' = Read(pkt', Bodies')
           /\ queue \in Seq(Blocks) /\ queue' \in Seq(Blocks)
           /\ pkt \in [Handles -> Pointers] /\ pkt' \in [Handles -> Pointers]
           /\ \A k \in 1 .. Len(queue) : queue[k] \in Queued
           /\ \A h \in Handles : pkt[h] # NoBlock => pkt[h] \in Held
           /\ \A h \in Handles : pkt'[h] # NoBlock => pkt'[h] \in Held'
<1>1. PacketsTypeOK /\ PacketsTypeOK'
  BY DEF RInv, IInv
<1>2. inbox = Mapped(queue, Bodies) /\ view = Read(pkt, Bodies)
  BY <1>1, SeenNow
<1>3. (inbox = Mapped(queue, Bodies) /\ view = Read(pkt, Bodies))'
  BY <1>1, SeenNow, PTL
<1> QED BY <1>1, <1>2, <1>3 DEF PacketsTypeOK, Queued, Held, Pointers

\* Handles that hold what was seen before read what they read before.
LEMMA ReadsKept ==
    ASSUME RInv, RInv', Kept,
           \A h \in Handles : pkt'[h] # NoBlock => pkt'[h] \in Queued \union Held
    PROVE  view' = Read(pkt', Bodies)
<1>1. view' = Read(pkt', Bodies') /\ \A h \in Handles : pkt'[h] # NoBlock => pkt'[h] \in Held'
  BY SeenNext
<1>2. \A h \in Handles : pkt'[h] # NoBlock => Bodies'[pkt'[h]] = Bodies[pkt'[h]]
  BY <1>1, SeenKept
<1> QED BY <1>1, <1>2 DEF Read

LEMMA InboxKept ==
    ASSUME RInv, RInv', Kept, queue' = queue
    PROVE  inbox' = inbox
<1>1. \A k \in 1 .. Len(queue) : queue[k] \in Queued /\ queue[k] \in Queued'
  BY SeenNext DEF Queued
<1>2. \A k \in 1 .. Len(queue) : Bodies'[queue[k]] = Bodies[queue[k]]
  BY <1>1, SeenKept
<1> QED BY <1>2, SeenNext DEF Mapped

LEMMA Quietly ==
    ASSUME RInv, RInv', Kept, queue' = queue, pkt' = pkt
    PROVE  UNCHANGED <<inbox, view>>
<1>1. inbox' = inbox
  BY InboxKept
<1>2. view' = Read(pkt, Bodies)
  BY SeenNext, ReadsKept
<1> QED BY <1>1, <1>2, SeenNext

LEMMA DeliverSeen ==
    ASSUME RInv, RInv', Kept, NEW c \in Blocks, queue' = Append(queue, c), pkt' = pkt
    PROVE  Inbox!Next
<1>1. view' = view
  BY SeenNext, ReadsKept
<1>2. \A k \in 1 .. Len(queue) : queue[k] \in Queued'
  <2>1. queue \in Seq(Blocks)
    BY SeenNext
  <2> SUFFICES ASSUME NEW k \in 1 .. Len(queue)
               PROVE  queue[k] \in Queued'
    OBVIOUS
  <2>2. k \in DOMAIN queue' /\ queue'[k] = queue[k]
    BY <2>1
  <2> QED BY <2>2 DEF Queued
<1>3. \A k \in 1 .. Len(queue) : Bodies'[queue[k]] = Bodies[queue[k]]
  BY <1>2, SeenNext, SeenKept
<1>4. inbox' # <<>> /\ inbox = SubSeq(inbox', 1, Len(inbox') - 1)
  BY <1>3, SeenNext, MappedAppend
<1> QED BY <1>1, <1>4 DEF Inbox!Next, Inbox!Deliver

\* The head of the queue leaves it.
LEMMA HeadTaken ==
    ASSUME RInv, RInv', Kept, m_readyHead # NoBlock, Dequeue
    PROVE  /\ m_readyHead \in Queued /\ m_readyHead \in Blocks
           /\ inbox # <<>> /\ inbox' = Tail(inbox) /\ Head(inbox) = Bodies[m_readyHead]
<1>1. /\ queue # <<>> /\ m_readyHead = queue[1] /\ m_readyHead \in Blocks
      /\ queue' = Tail(queue) /\ QueueInjective /\ queue \in Seq(Blocks)
  BY Facts, DequeueLinks DEF RInv, Dequeue, PacketsTypeOK
<1>2. Queued' = Queued \ {queue[1]} /\ queue[1] \in Queued
  BY <1>1, TailQueued
<1>3. \A k \in 1 .. Len(queue) : k # 1 => queue[k] \in Queued /\ queue[k] # queue[1]
  BY <1>1 DEF QueueInjective, Queued
<1>4. \A k \in 1 .. Len(queue) : k # 1 => Bodies'[queue[k]] = Bodies[queue[k]]
  BY <1>2, <1>3, SeenKept
<1> QED BY <1>1, <1>2, <1>4, SeenNext, MappedTail

LEMMA PopSeen ==
    ASSUME RInv, RInv', Kept, NEW h \in Handles, PopInto(h)
    PROVE  Inbox!Next
<1>1. pkt' = [pkt EXCEPT ![h] = m_readyHead] /\ pkt \in [Handles -> Pointers]
      /\ m_readyHead \in Pointers
  BY Facts DEF PopInto, RInv, PacketsTypeOK
<1>2. CASE m_readyHead = NoBlock
  <2>1. queue' = queue /\ queue = <<>>
    BY <1>2, Facts, BlockOrNot DEF PopInto, lists, RInv, ListIsQueue, PacketsTypeOK
  <2>2. inbox' = inbox /\ inbox = <<>>
    BY <2>1, InboxKept, SeenNext DEF Mapped
  <2>3. view' = Read(pkt', Bodies)
    BY <1>1, <1>2, SeenNext, ReadsKept
  <2>4. view' = [view EXCEPT ![h] = NoPacket]
    BY <1>1, <1>2, <2>3, SeenNext DEF Read
  <2> QED BY <2>2, <2>4 DEF Inbox!Next, Inbox!Pop
<1>3. CASE m_readyHead # NoBlock
  <2>1. /\ m_readyHead \in Queued /\ m_readyHead \in Blocks
        /\ inbox # <<>> /\ inbox' = Tail(inbox) /\ Head(inbox) = Bodies[m_readyHead]
    BY <1>3, HeadTaken DEF PopInto
  <2>2. view' = Read(pkt', Bodies)
    BY <1>1, <2>1, SeenNext, ReadsKept
  <2>3. view' = [view EXCEPT ![h] = Head(inbox)]
    BY <1>1, <1>3, <2>1, <2>2, SeenNext DEF Read
  <2> QED BY <2>1, <2>3 DEF Inbox!Next, Inbox!Pop
<1> QED BY <1>2, <1>3

LEMMA AssignSeen ==
    ASSUME RInv, RInv', Kept, queue' = queue, NEW h \in Handles, NEW g \in Handles
    PROVE  /\ pkt' = [pkt EXCEPT ![h] = NoBlock] => Inbox!Reset(h)
           /\ pkt' = [pkt EXCEPT ![h] = pkt[g]] => Inbox!Copy(h, g)
           /\ h # g /\ pkt' = [pkt EXCEPT ![h] = pkt[g], ![g] = NoBlock] => Inbox!Move(h, g)
<1>1. inbox' = inbox /\ pkt \in [Handles -> Pointers] /\ NoBlock \in Pointers
      /\ view = Read(pkt, Bodies)
      /\ \A k \in Handles : pkt[k] # NoBlock => pkt[k] \in Held
  BY InboxKept, SeenNext DEF Pointers
<1>2. ASSUME pkt' = [pkt EXCEPT ![h] = NoBlock]
      PROVE  Inbox!Reset(h)
  <2>1. view' = Read(pkt', Bodies)
    BY <1>1, <1>2, ReadsKept
  <2> QED BY <1>1, <1>2, <2>1 DEF Inbox!Reset, Read
<1>3. ASSUME NEW x \in Handles, pkt' = [pkt EXCEPT ![h] = pkt[x]]
      PROVE  view' = [view EXCEPT ![h] = view[x]]
  <2>1. view' = Read(pkt', Bodies)
    BY <1>1, <1>3, ReadsKept
  <2>2. view[x] = IF pkt[x] = NoBlock THEN NoPacket ELSE Bodies[pkt[x]]
    BY <1>1 DEF Read
  <2> QED BY <1>1, <1>3, <2>1, <2>2 DEF Read
<1>4. ASSUME h # g, pkt' = [pkt EXCEPT ![h] = pkt[g], ![g] = NoBlock]
      PROVE  view' = [view EXCEPT ![h] = view[g], ![g] = NoPacket]
  <2> DEFINE p == [pkt EXCEPT ![h] = pkt[g]]
  <2>1. view' = Read(pkt', Bodies)
    BY <1>1, <1>4, ReadsKept
  <2>2. view[g] = IF pkt[g] = NoBlock THEN NoPacket ELSE Bodies[pkt[g]]
    BY <1>1 DEF Read
  <2>3. pkt' = [p EXCEPT ![g] = NoBlock]
    BY <1>4
  <2>4. Read(p, Bodies) = [view EXCEPT ![h] = view[g]] /\ p \in [Handles -> Pointers]
    BY <1>1, <2>2 DEF Read
  <2> HIDE DEF p
  <2>5. Read(pkt', Bodies) = [Read(p, Bodies) EXCEPT ![g] = NoPacket]
    BY <1>1, <2>3, <2>4 DEF Read
  <2> QED BY <2>1, <2>4, <2>5
<1> QED BY <1>1, <1>2, <1>3, <1>4 DEF Inbox!Copy, Inbox!Move

LEMMA SeenStep ==
    ASSUME RInv, RInv', Kept, [PacketsNext]_packets
    PROVE  [Inbox!Next]_<<inbox, view>>
<1>1. ASSUME queue' = queue, pkt' = pkt
      PROVE  [Inbox!Next]_<<inbox, view>>
  BY <1>1, Quietly
<1>2. ASSUME NEW c \in Blocks, Acquire(c)
      PROVE  [Inbox!Next]_<<inbox, view>>
  BY <1>1, <1>2 DEF Acquire, lists
<1>3. ASSUME NEW c \in Blocks, PublishEmpty(c)
      PROVE  [Inbox!Next]_<<inbox, view>>
  BY <1>3, DeliverSeen DEF PublishEmpty, Enqueue
<1>4. CASE GiveUp \/ Destroy
  BY <1>1, <1>4 DEF GiveUp, Destroy, ReleaseBuilding, lists
<1>5. CASE Publish
  <2>1. m_building \in Blocks
    BY <1>5, Facts DEF Publish, RInv, PacketsTypeOK, Pointers
  <2> QED BY <1>5, <2>1, DeliverSeen DEF Publish, Enqueue
<1>6. CASE Application
  <2>1. ASSUME NEW h \in Handles, PopInto(h)
        PROVE  Inbox!Next
    BY <2>1, PopSeen
  <2>2. ASSUME NEW h \in Handles, Reset(h)
        PROVE  Inbox!Next
    BY <2>2, AssignSeen DEF Reset, lists, Inbox!Next
  <2>3. ASSUME NEW h \in Handles, NEW g \in Handles, CopyAssign(h, g)
        PROVE  Inbox!Next
    BY <2>3, AssignSeen DEF CopyAssign, lists, Inbox!Next
  <2>4. ASSUME NEW h \in Handles, NEW g \in Handles, MoveAssign(h, g)
        PROVE  Inbox!Next
    BY <2>4, AssignSeen DEF MoveAssign, lists, Inbox!Next
  <2> QED BY <1>6, <2>1, <2>2, <2>3, <2>4 DEF Application
<1>7. CASE ClearOne
  <2>1. \A h \in Handles : pkt[h] = NoBlock
    BY <1>7, Facts DEF ClearOne, RInv, ClosedOK
  <2>2. inbox # <<>> /\ inbox' = Tail(inbox)
    BY <1>7, HeadTaken DEF ClearOne
  <2>3. pkt' = pkt /\ view = Read(pkt, Bodies) /\ view' = Read(pkt', Bodies)
    BY <1>7, <2>1, SeenNext, ReadsKept DEF ClearOne
  <2>4. \A h \in Handles : view[h] = NoPacket
    BY <2>1, <2>3 DEF Read
  <2> QED BY <2>2, <2>3, <2>4 DEF Inbox!Next, Inbox!Forget
<1>8. CASE Closed
  BY <1>1, <1>8 DEF Closed, lists
<1>9. CASE UNCHANGED packets
  BY <1>1, <1>9 DEF packets, lists
<1> QED BY <1>2, <1>3, <1>4, <1>5, <1>6, <1>7, <1>8, <1>9 DEF PacketsNext

\* Packets are values (CobsInbox): no block is shared, linked, counted or granted
\* again in a way that anybody could see.
THEOREM ReceiverPacketsAreValues == ReceiverSpec => PacketsAreValues
<1>1. ReceiverInit => Inbox!Init
  <2> SUFFICES ASSUME ReceiverInit
               PROVE  Inbox!Init
    OBVIOUS
  <2>1. queue = <<>> /\ pkt = [h \in Handles |-> NoBlock]
    BY DEF ReceiverInit, PacketsInit
  <2> QED BY <2>1 DEF Inbox!Init, inbox, view
<1>2. RInv /\ RInv' /\ [ReceiverNext]_vars => [Inbox!Next]_<<inbox, view>>
  BY RInvStep, SeenStep
<1> QED BY <1>1, <1>2, ReceiverInductive, PTL DEF ReceiverSpec, PacketsAreValues, Inbox!Spec

-----------------------------------------------------------------------------
(* The verdict on a frame.                                                 *)

\* Whether a decoder stands for another byte when it is given b, and for which.
Wants(d) == d.blockRemaining > 0 \/ d.pendingZero
Wanted(d, b) == IF d.blockRemaining > 0 THEN b ELSE 0

\* What its last block owes then.
Left(d, b) == IF d.blockRemaining > 0 THEN d.blockRemaining - 1 ELSE b - 1
Owes(d, b) == IF d.blockRemaining > 0 THEN d.pendingZero ELSE b # FullCode

Longer(d, b, out) == IF Wants(d) THEN Append(out, Wanted(d, b)) ELSE out

LEMMA TakenByte ==
    ASSUME NEW d, DecoderOK(d), d.state = "Decoding", d.hasOutput, NEW b \in 1 .. FullCode
    PROVE  LET r == consume(d, b)
           IN  /\ Wants(d) /\ SegmentFull(d) => r.event = "NeedOutput" /\ r.d = d
               /\ ~(Wants(d) /\ SegmentFull(d)) =>
                     /\ r.event = "None" /\ r.d.state = "Decoding"
                     /\ r.d.blockRemaining = Left(d, b) /\ r.d.pendingZero = Owes(d, b)
                     /\ Wants(d) => r.put = <<Wanted(d, b)>> /\ r.d.written = d.written + 1
                     /\ ~Wants(d) => r.put = <<>> /\ r.d.written = d.written
<1>1. b # 0 /\ d.blockRemaining \in Nat /\ d.pendingZero \in BOOLEAN /\ d.written \in Nat
  BY ByteFacts DEF DecoderOK, Decoders
<1>2. CASE d.blockRemaining > 0
  <2> DEFINE m == [d EXCEPT !.written = @ + 1]
             e == [m EXCEPT !.blockRemaining = @ - 1]
  <2>1. consume(d, b) = IF SegmentFull(d) THEN AskFirst(d, FALSE) ELSE Quiet(e, <<b>>)
    BY <1>1, <1>2 DEF consume, Data, DecoderOK, Decoders
  <2>2. m.written = d.written + 1 /\ m.state = d.state /\ m.blockRemaining = d.blockRemaining
        /\ m.pendingZero = d.pendingZero /\ m \in Decoders
    BY <1>1 DEF DecoderOK, Decoders
  <2> HIDE DEF m
  <2>3. e.written = d.written + 1 /\ e.state = d.state /\ e.blockRemaining = d.blockRemaining - 1
        /\ e.pendingZero = d.pendingZero
    BY <2>2 DEF Decoders
  <2> HIDE DEF e
  <2> QED BY <1>2, <2>1, <2>3 DEF AskFirst, Quiet, Outcome, Wants, Wanted, Left, Owes
<1>3. CASE ~(d.blockRemaining > 0) /\ d.pendingZero
  <2> DEFINE m == [d EXCEPT !.written = @ + 1]
             e == beginBlock(m, b)
  <2>1. consume(d, b) = IF SegmentFull(d) THEN AskFirst(d, FALSE) ELSE Quiet(e, <<0>>)
    BY <1>1, <1>3 DEF consume, Code
  <2>2. m.written = d.written + 1 /\ m.state = d.state /\ m \in Decoders
    BY <1>1 DEF DecoderOK, Decoders
  <2> HIDE DEF m
  <2>3. e.written = d.written + 1 /\ e.state = d.state /\ e.blockRemaining = b - 1
        /\ e.pendingZero = (b # FullCode)
    BY <2>2 DEF Decoders, beginBlock
  <2> HIDE DEF e
  <2>4. Wants(d) /\ Wanted(d, b) = 0 /\ Left(d, b) = b - 1 /\ Owes(d, b) = (b # FullCode)
    BY <1>3, Zenon DEF Wants, Wanted, Left, Owes
  <2>5. e.pendingZero = Owes(d, b)
    BY <2>3, <2>4, Zenon
  <2> QED BY <2>1, <2>3, <2>4, <2>5 DEF AskFirst, Quiet, Outcome
<1>4. CASE ~(d.blockRemaining > 0) /\ ~d.pendingZero
  <2> DEFINE e == beginBlock(d, b)
  <2>1. consume(d, b) = Quiet(e, <<>>)
    BY <1>1, <1>4 DEF consume, Code
  <2>3. e.written = d.written /\ e.state = d.state /\ e.blockRemaining = b - 1
        /\ e.pendingZero = (b # FullCode)
    BY DEF DecoderOK, Decoders, beginBlock
  <2> HIDE DEF e
  <2> QED BY <1>4, <2>1, <2>3 DEF Quiet, Outcome, Wants, Wanted, Left, Owes
<1> QED BY <1>2, <1>3, <1>4

\* The first code of a frame.
LEMMA FirstByte ==
    ASSUME NEW d, DecoderOK(d), d.state = "Synced", NEW b \in 1 .. FullCode
    PROVE  LET r == consume(d, b)
           IN  /\ r.event = IF d.hasOutput THEN "None" ELSE "NeedOutput"
               /\ r.put = <<>> /\ r.d.state = "Decoding" /\ r.d.written = d.written
               /\ r.d.hasOutput = d.hasOutput
               /\ r.d.blockRemaining = b - 1 /\ r.d.pendingZero = (b # FullCode)
<1> DEFINE c == beginBlock(d, b)
           e == [c EXCEPT !.state = "Decoding"]
<1>1. b # 0
  BY ByteFacts
<1>2. c \in Decoders /\ c.written = d.written /\ c.blockRemaining = b - 1
      /\ c.pendingZero = (b # FullCode) /\ c.hasOutput = d.hasOutput
  <2>1. b \in Byte
    BY ByteFacts DEF Byte
  <2>2. DecoderOK(c) /\ SameOutput(c, d) /\ c.written = d.written
    BY <1>1, <2>1, BlockBegins
  <2> QED BY <2>2 DEF beginBlock, DecoderOK, Decoders, SameOutput
<1>3. consume(d, b) = IF d.hasOutput THEN Quiet(e, <<>>) ELSE AskFirst(e, TRUE)
  BY <1>1 DEF consume, Open
<1> HIDE DEF c
<1>4. e.state = "Decoding" /\ e.written = d.written /\ e.blockRemaining = b - 1
      /\ e.pendingZero = (b # FullCode) /\ e.hasOutput = d.hasOutput
  BY <1>2 DEF Decoders
<1> HIDE DEF e
<1> QED BY <1>3, <1>4 DEF AskFirst, Quiet, Outcome

\* The delimiter.
LEMMA ZeroByte ==
    ASSUME NEW d, DecoderOK(d), d.state = "Decoding" => d.hasOutput
    PROVE  LET r == consume(d, 0)
           IN  /\ d.state # "Decoding" =>
                     r.event = "None" /\ r.put = <<>> /\ r.d.state = "Synced" /\ r.d.written = d.written
               /\ d.state = "Decoding" /\ d.blockRemaining > 0 =>
                     r.event = "Malformed" /\ r.d = dropFrame(d, "Synced")
               /\ d.state = "Decoding" /\ ~(d.blockRemaining > 0) =>
                     /\ r.event = "FrameComplete" /\ r.d = dropFrame(d, "Synced")
                     /\ r.size = d.decodedBefore + d.written
<1>1. CASE d.state = "DropUntilDelimiter"
  BY <1>1 DEF consume, Skip, Quiet, Outcome, DecoderOK, Decoders
<1>2. CASE d.state = "Synced"
  BY <1>2 DEF consume, Quiet, Outcome
<1>3. CASE d.state = "Decoding" /\ d.blockRemaining > 0
  BY <1>3 DEF consume, Data, Outcome
<1>4. CASE d.state = "Decoding" /\ ~(d.blockRemaining > 0)
  BY <1>4 DEF consume, Code, Outcome
<1> QED BY <1>1, <1>2, <1>3, <1>4 DEF DecoderOK, Decoders

\* Any other byte of a frame given up.
LEMMA SkippedByte ==
    ASSUME NEW d, DecoderOK(d), d.state = "DropUntilDelimiter", NEW b \in 1 .. FullCode
    PROVE  LET r == consume(d, b)
           IN  r.event = "None" /\ r.put = <<>> /\ r.d.state = "DropUntilDelimiter"
<1>1. b # 0
  BY ByteFacts
<1> QED BY <1>1 DEF consume, Skip, Quiet, Outcome, DecoderOK, Decoders

-----------------------------------------------------------------------------
(* What a frame under way stands for.                                      *)

LEMMA TracksLonger ==
    ASSUME NEW w \in Seq(1 .. FullCode), NEW d, DecoderOK(d), NEW out,
           Tracks(w, d.blockRemaining, d.pendingZero, out), NEW b \in 1 .. FullCode
    PROVE  /\ Tracks(Append(w, b), Left(d, b), Owes(d, b), Longer(d, b, out))
           /\ Left(d, b) \in Nat /\ Wanted(d, b) \in Byte
<1>1. d.blockRemaining \in Nat /\ d.pendingZero \in BOOLEAN
  BY ByteFacts DEF DecoderOK, Decoders
<1>2. b - 1 \in Nat /\ b \in Byte
  BY ByteFacts DEF Byte
<1>3. CASE d.blockRemaining > 0
  BY <1>1, <1>2, <1>3, TracksData DEF Left, Owes, Longer, Wants, Wanted
<1>4. CASE ~(d.blockRemaining > 0)
  <2>1. d.blockRemaining = 0
    BY <1>1, <1>4
  <2>2. Tracks(Append(w, b), b - 1, b # FullCode, IF d.pendingZero THEN Append(out, 0) ELSE out)
    BY <2>1, TracksBlock
  <2> QED BY <1>2, <1>4, <2>1, <2>2, ByteFacts DEF Left, Owes, Longer, Wants, Wanted
<1> QED BY <1>3, <1>4

StandsFor(w, out) == \E r \in Nat : \E q : Tracks(w, r, q, out)

\* Whatever comes, what was stood for stays.
LEMMA TracksOn ==
    ASSUME NEW w \in Seq(1 .. FullCode), NEW out, StandsFor(w, out), NEW b \in 1 .. FullCode
    PROVE  \E o : StandsFor(Append(w, b), o) /\ (o = out \/ \E x \in Byte : o = Append(out, x))
<1>1. PICK r \in Nat : \E q : Tracks(w, r, q, out)
  BY DEF StandsFor
<1>2. PICK q : Tracks(w, r, q, out)
  BY <1>1
<1>3. b - 1 \in Nat /\ b \in Byte /\ 0 \in Byte
  BY ByteFacts DEF Byte
<1>4. CASE r > 0
  <2>1. r - 1 \in Nat /\ Tracks(Append(w, b), r - 1, q, Append(out, b))
    BY <1>4, <1>2, TracksData
  <2>2. StandsFor(Append(w, b), Append(out, b))
    BY <2>1 DEF StandsFor
  <2> QED BY <1>3, <2>2
<1>5. CASE r = 0
  <2> DEFINE o == IF q THEN Append(out, 0) ELSE out
             s == b - 1
             p == b # FullCode
  <2>1. Tracks(Append(w, b), s, p, o)
    BY <1>5, <1>2, TracksBlock
  <2>2. o = out \/ \E x \in Byte : o = Append(out, x)
    BY <1>3
  <2>3. s \in Nat
    BY <1>3
  <2> HIDE DEF o, s, p
  <2>4. StandsFor(Append(w, b), o)
    BY <2>1, <2>3 DEF StandsFor
  <2> QED BY <2>2, <2>4
<1> QED BY <1>4, <1>5

-----------------------------------------------------------------------------
(* What the verdict is, from what the frame has stood for.                 *)

\* Nothing that follows saves the frame.
Doomed(cause, out) ==
    /\ Len(out) > length_size(Format)
    /\ \/ cause = "oversize" /\ Says(out) > max_receive_body(Format)
       \/ cause = "length_mismatch" /\ Says(out) <= max_receive_body(Format) /\ ~CanHold(Says(out))
       \/ cause = "length_mismatch" /\ CanHold(Says(out)) /\ Len(out) - length_size(Format) > Says(out)
       \/ cause = "allocation_failure" /\ CanHold(Says(out))

LEMMA BodyLength ==
    ASSUME Format \in Formats, NEW out \in Seq(Byte), Len(out) >= length_size(Format)
    PROVE  /\ BodyIn(out) \in Seq(Byte) /\ Len(BodyIn(out)) = Len(out) - length_size(Format)
           /\ \A k \in 1 .. Len(out) - length_size(Format) : BodyIn(out)[k] = out[length_size(Format) + k]
<1> DEFINE h == length_size(Format)
           l == h + 1
           n == Len(out) + 1
<1>1. h \in Nat /\ Len(out) \in Nat /\ Len(out) >= h /\ l \in Nat /\ n \in Nat /\ l <= n
      /\ n - 1 = Len(out) /\ n - l = Len(out) - h /\ \A k \in l .. n - 1 : out[k] \in Byte
  BY FormatFacts
<1>2. \A k \in 1 .. Len(out) - h : l + k - 1 = h + k
  BY <1>1
<1> HIDE DEF h, l, n
<1>3. /\ SubSeq(out, l, n - 1) \in Seq(Byte) /\ Len(SubSeq(out, l, n - 1)) = n - l
      /\ \A k \in 1 .. n - l : SubSeq(out, l, n - 1)[k] = out[l + k - 1]
  BY <1>1, Slice
<1>4. BodyIn(out) = SubSeq(out, l, n - 1)
  BY <1>1 DEF BodyIn, l, h
<1> QED BY <1>1, <1>2, <1>3, <1>4 DEF h

LEMMA SaysNat ==
    ASSUME Format \in Formats, NEW out \in Seq(Byte), Len(out) >= length_size(Format)
    PROVE  Says(out) \in Nat
<1>1. length_size(Format) \in {1, 2} /\ Len(out) \in Nat
  BY FormatFacts
<1>2. out[1] \in Byte /\ (length_size(Format) = 2 => out[2] \in Byte)
  BY <1>1
<1>3. \A x \in Byte : x \in Nat
  BY ByteFacts DEF Byte
<1>4. FullCode + 1 \in Nat
  BY ByteFacts
<1> DEFINE k == FullCode + 1
<1>5. \A x \in Nat : x * k \in Nat
  BY <1>4
<1> HIDE DEF k
<1>6. CASE length_size(Format) = 1
  BY <1>2, <1>3, <1>6 DEF Says, load_length
<1>7. CASE length_size(Format) = 2
  <2>1. out[1] \in Nat /\ out[2] * k \in Nat
    BY <1>2, <1>3, <1>5, <1>7
  <2>2. Says(out) = out[1] + out[2] * k
    BY <1>7 DEF Says, load_length, k
  <2> QED BY <2>1, <2>2
<1> QED BY <1>1, <1>6, <1>7

LEMMA Verdicts ==
    ASSUME Format \in Formats, NEW w, Decoded(w) \in Seq(Byte), NEW refused \in BOOLEAN
    PROVE  LET out == Decoded(w)
               h == length_size(Format)
               says == Says(out)
           IN  /\ \A cause : Doomed(cause, out) /\ (refused <=> cause = "allocation_failure") =>
                     Verdict(w, refused) = Lost(cause, TRUE)
               /\ Len(out) > h /\ CanHold(says) /\ ~refused /\ Len(out) - h <= says =>
                     Verdict(w, refused) =
                        IF ~WellFormed(w) THEN Lost("malformed", FALSE)
                        ELSE IF Len(out) - h < says THEN Lost("length_mismatch", FALSE)
                        ELSE IF ~verify(BodyIn(out)) THEN Lost("crc_errors", FALSE)
                        ELSE {"frames_received"}
               /\ Len(out) <= h =>
                     Verdict(w, refused) =
                        IF ~WellFormed(w) THEN Lost("malformed", FALSE)
                        ELSE IF Len(out) < h THEN Lost("length_mismatch", FALSE)
                        ELSE IF says > max_receive_body(Format) THEN Lost("oversize", FALSE)
                        ELSE IF says > 0 \/ Format.crc_size > 0 THEN Lost("length_mismatch", FALSE)
                        ELSE IF refused THEN Lost("allocation_failure", FALSE)
                        ELSE {"frames_received"}
<1> DEFINE out == Decoded(w)
           h == length_size(Format)
           says == Says(out)
           body == BodyIn(out)
           top == max_receive_body(Format)
           holds == CanHold(says)
           wf == WellFormed(w)
           v == verify(body)
           owing == says > 0 \/ Format.crc_size > 0
           result == Verdict(w, refused)
<1>1. /\ h \in Nat /\ Len(out) \in Nat /\ top \in Nat
      /\ Len(out) > h => ~(Len(out) <= h) /\ says \in Nat /\ Len(body) = Len(out) - h
  <2>1. h \in Nat /\ top \in Nat /\ Len(out) \in Nat
    BY FormatFacts
  <2>2. ASSUME Len(out) > h
        PROVE  ~(Len(out) <= h) /\ says \in Nat /\ Len(body) = Len(out) - h
    <3>1. Len(out) >= h /\ ~(Len(out) <= h)
      BY <2>1, <2>2
    <3> QED BY <3>1, BodyLength, SaysNat
  <2> QED BY <2>1, <2>2
<1>2. Len(out) > h /\ holds => ~(says > top)
  BY <1>1 DEF CanHold
<1>3. result =
        CASE Len(out) > h /\ says > top -> Lost("oversize", TRUE)
          [] Len(out) > h /\ ~(says > top) /\ ~holds -> Lost("length_mismatch", TRUE)
          [] Len(out) > h /\ holds /\ refused -> Lost("allocation_failure", TRUE)
          [] Len(out) > h /\ holds /\ ~refused /\ Len(body) > says ->
                Lost("length_mismatch", TRUE)
          [] Len(out) > h /\ holds /\ ~refused /\ Len(body) <= says ->
                IF ~wf THEN Lost("malformed", FALSE)
                ELSE IF Len(body) < says THEN Lost("length_mismatch", FALSE)
                ELSE IF ~v THEN Lost("crc_errors", FALSE)
                ELSE {"frames_received"}
          [] Len(out) <= h ->
                IF ~wf THEN Lost("malformed", FALSE)
                ELSE IF Len(out) < h THEN Lost("length_mismatch", FALSE)
                ELSE IF says > top THEN Lost("oversize", FALSE)
                ELSE IF owing THEN Lost("length_mismatch", FALSE)
                ELSE IF refused THEN Lost("allocation_failure", FALSE)
                ELSE {"frames_received"}
  BY DEF Verdict
<1>4. ASSUME NEW cause, Doomed(cause, out), refused <=> cause = "allocation_failure"
      PROVE  result = Lost(cause, TRUE)
  <2>1. /\ Len(out) > h
        /\ \/ cause = "oversize" /\ says > top
           \/ cause = "length_mismatch" /\ ~(says > top) /\ ~holds
           \/ cause = "length_mismatch" /\ holds /\ Len(body) > says
           \/ cause = "allocation_failure" /\ holds
    BY <1>1, <1>4 DEF Doomed
  <2> HIDE DEF out, h, says, body, top, holds, wf, v, owing, result
  <2>2. CASE cause = "oversize" /\ says > top
    BY <1>1, <1>2, <1>3, <2>1, <2>2
  <2>3. CASE cause = "length_mismatch" /\ ~(says > top) /\ ~holds
    BY <1>1, <1>3, <2>1, <2>3
  <2>4. CASE cause = "length_mismatch" /\ holds /\ Len(body) > says
    <3>1. ~refused /\ ~(Len(body) <= says)
      BY <1>1, <1>4, <2>1, <2>4
    <3> QED BY <1>1, <1>2, <1>3, <2>1, <2>4, <3>1
  <2>5. CASE cause = "allocation_failure" /\ holds
    BY <1>1, <1>2, <1>3, <1>4, <2>1, <2>5
  <2> QED BY <2>1, <2>2, <2>3, <2>4, <2>5
<1>5. ASSUME Len(out) > h, holds, ~refused, Len(out) - h <= says
      PROVE  result = IF ~wf THEN Lost("malformed", FALSE)
                      ELSE IF Len(out) - h < says THEN Lost("length_mismatch", FALSE)
                      ELSE IF ~v THEN Lost("crc_errors", FALSE)
                      ELSE {"frames_received"}
  <2>1. Len(body) = Len(out) - h /\ Len(body) <= says /\ ~(Len(body) > says) /\ ~(Len(out) <= h)
    BY <1>1, <1>5
  <2> HIDE DEF out, h, says, body, top, holds, wf, v, owing, result
  <2> QED BY <1>2, <1>3, <1>5, <2>1
<1>6. ASSUME Len(out) <= h
      PROVE  result = IF ~wf THEN Lost("malformed", FALSE)
                      ELSE IF Len(out) < h THEN Lost("length_mismatch", FALSE)
                      ELSE IF says > top THEN Lost("oversize", FALSE)
                      ELSE IF owing THEN Lost("length_mismatch", FALSE)
                      ELSE IF refused THEN Lost("allocation_failure", FALSE)
                      ELSE {"frames_received"}
  <2>1. ~(Len(out) > h)
    BY <1>1, <1>6
  <2> HIDE DEF out, h, says, body, top, holds, wf, v, owing, result
  <2> QED BY <1>3, <1>6, <2>1
<1> QED BY <1>4, <1>5, <1>6

-----------------------------------------------------------------------------
(* The frame under way: what has arrived of it, and what was counted.      *)

\* The header of out lies in m_lengthBytes, as far as it has arrived.
Heard(out) == \A k \in 1 .. length_size(Format) : k <= Len(out) => m_lengthBytes[k] = out[k]

\* The frame has stood for out, and all of it went where it belongs.
Hears(out) ==
    /\ Tracks(chunk, m_decoder.blockRemaining, m_decoder.pendingZero, out)
    /\ Heard(out)
    /\ \/ m_stage = "Header" /\ m_decoder.written = Len(out)
       \/ /\ m_stage = "Body" /\ Len(out) > length_size(Format)
          /\ CanHold(declared) /\ size[m_building] = declared
          /\ payload[m_building] = BodyIn(out)

\* The frame has been given up for a cause that its bytes will not lift.
Hopeless ==
    \E cause, out :
        /\ m_stats = Bump(NoCounts, Lost(cause, TRUE))
        /\ StandsFor(chunk, out) /\ Doomed(cause, out)

FrameOK ==
    /\ chunk \in Seq(1 .. FullCode) /\ gaps \in Nat
    /\ m_decoder.state = "Synced" => chunk = <<>> /\ gaps = 0 /\ m_decoder.written = 0
    /\ m_decoder.state = "Decoding" =>
          chunk # <<>> /\ gaps = 0 /\ m_stats = NoCounts /\ \E out : Hears(out)
    /\ m_decoder.state = "DropUntilDelimiter" =>
          \/ gaps > 0 /\ m_stats["frames_received"] = 0 /\ m_stats["frames_lost"] >= gaps
          \/ gaps = 0 /\ chunk # <<>> /\ Hopeless

FrameInv == phase = "open" => FrameOK

LEMMA HeardSays ==
    ASSUME Format \in Formats, NEW out, Heard(out), Len(out) \in Nat, Len(out) >= length_size(Format)
    PROVE  declared = Says(out)
<1>1. length_size(Format) \in {1, 2}
  BY FormatFacts
<1>2. m_lengthBytes[1] = out[1] /\ (length_size(Format) = 2 => m_lengthBytes[2] = out[2])
  BY <1>1 DEF Heard
<1> QED BY <1>1, <1>2 DEF declared, Says, load_length

LEMMA SaysOn ==
    ASSUME Format \in Formats, NEW out \in Seq(Byte), NEW x \in Byte,
           Len(out) >= length_size(Format)
    PROVE  Says(Append(out, x)) = Says(out)
<1>1. length_size(Format) \in {1, 2}
  BY FormatFacts
<1> DEFINE a == Append(out, x)
<1>2. a[1] = out[1] /\ (length_size(Format) = 2 => a[2] = out[2])
  BY <1>1
<1> HIDE DEF a
<1>3. Says(a) = Says(out)
  BY <1>1, <1>2 DEF Says, load_length
<1> QED BY <1>3 DEF a

LEMMA DoomedOn ==
    ASSUME Format \in Formats, NEW out \in Seq(Byte), NEW x \in Byte, NEW cause, Doomed(cause, out)
    PROVE  Doomed(cause, Append(out, x))
<1> DEFINE a == Append(out, x)
<1>1. /\ length_size(Format) \in Nat /\ Len(out) \in Nat /\ Len(a) = Len(out) + 1
      /\ Len(out) > length_size(Format) /\ Len(out) >= length_size(Format)
  <2>1. length_size(Format) \in Nat /\ Len(out) > length_size(Format)
    BY FormatFacts DEF Doomed
  <2> QED BY <2>1
<1>2. Says(a) = Says(out) /\ Says(out) \in Nat
  BY <1>1, SaysOn, SaysNat
<1> HIDE DEF a
<1>3. Doomed(cause, a)
  BY <1>1, <1>2 DEF Doomed
<1> QED BY <1>3 DEF a

LEMMA BodyOn ==
    ASSUME Format \in Formats, NEW out \in Seq(Byte), NEW x \in Byte,
           Len(out) >= length_size(Format)
    PROVE  BodyIn(Append(out, x)) = Append(BodyIn(out), x)
<1> DEFINE a == Append(out, x)
           h == length_size(Format)
           n == Len(out) - h
           p == BodyIn(a)
           y == BodyIn(out)
           q == Append(y, x)
<1>1. /\ h \in Nat /\ Len(out) \in Nat /\ a \in Seq(Byte) /\ Len(a) = Len(out) + 1
      /\ a[Len(out) + 1] = x /\ \A k \in 1 .. Len(out) : a[k] = out[k]
      /\ n \in Nat /\ Len(a) - h = n + 1 /\ h + (n + 1) = Len(out) + 1 /\ Len(a) >= h
      /\ \A k \in 1 .. n : h + k \in 1 .. Len(out)
  BY FormatFacts
<1>2. y \in Seq(Byte) /\ Len(y) = n /\ \A k \in 1 .. n : y[k] = out[h + k]
  BY BodyLength
<1> HIDE DEF a
<1>3. p \in Seq(Byte) /\ Len(p) = Len(a) - h /\ \A k \in 1 .. Len(a) - h : p[k] = a[h + k]
  BY <1>1, BodyLength
<1> HIDE DEF h, n, p, y
<1>4. q \in Seq(Byte) /\ Len(q) = n + 1 /\ q[n + 1] = x /\ \A k \in 1 .. n : q[k] = y[k]
  BY <1>2
<1> HIDE DEF q
<1>5. \A k \in 1 .. n + 1 : p[k] = q[k]
  <2> SUFFICES ASSUME NEW k \in 1 .. n + 1 PROVE p[k] = q[k]
    OBVIOUS
  <2>1. p[k] = a[h + k]
    BY <1>1, <1>3
  <2>2. CASE k = n + 1
    BY <1>1, <1>4, <2>1, <2>2
  <2>3. CASE k # n + 1
    <3>1. k \in 1 .. n
      BY <1>1, <2>3
    <3> QED BY <1>1, <1>2, <1>4, <2>1, <3>1
  <2> QED BY <2>2, <2>3
<1>6. p = q
  BY <1>1, <1>3, <1>4, <1>5, SeqEqual
<1> QED BY <1>6 DEF p, q, y, a

LEMMA HopelessOn ==
    ASSUME Format \in Formats, Format' = Format, chunk \in Seq(1 .. FullCode), Hopeless,
           NEW b \in 1 .. FullCode, chunk' = Append(chunk, b), m_stats' = m_stats
    PROVE  Hopeless'
<1>1. PICK cause, out :
        /\ m_stats = Bump(NoCounts, Lost(cause, TRUE))
        /\ StandsFor(chunk, out) /\ Doomed(cause, out)
  BY DEF Hopeless
<1>2. out \in Seq(Byte)
  BY <1>1, TracksMeaning DEF StandsFor
<1>3. PICK o : StandsFor(chunk', o) /\ (o = out \/ \E x \in Byte : o = Append(out, x))
  BY <1>1, TracksOn
<1>4. Doomed(cause, o)
  BY <1>1, <1>2, <1>3, DoomedOn
<1>5. m_stats' = Bump(NoCounts, Lost(cause, TRUE))
  BY <1>1
<1>6. Doomed(cause, o)'
  BY <1>4 DEF Doomed, Says, CanHold
<1>7. StandsFor(chunk, o)'
  BY <1>3 DEF StandsFor, Tracks
<1> QED BY <1>5, <1>6, <1>7 DEF Hopeless

\* Counting nothing, and counting from nothing.
LEMMA Counting ==
    /\ \A s \in [Counters -> Nat] : Bump(s, {}) = s
    /\ \A cs : \A c \in Counters : Bump(NoCounts, cs)[c] = IF c \in cs THEN 1 ELSE 0
    /\ "allocation_failure" \in Counters /\ "frames_received" \in Counters
    /\ "frames_lost" \in Counters
BY DEF Bump, NoCounts, Counters

LEMMA CausesApart ==
    ASSUME NEW cause, NEW hunts \in BOOLEAN
    PROVE  "allocation_failure" \in Lost(cause, hunts) <=> cause = "allocation_failure"
BY DEF Lost

LEMMA OpenFacts ==
    ASSUME RInv, phase = "open"
    PROVE  /\ DecoderOK(m_decoder) /\ Format \in Formats /\ m_stats \in [Counters -> Nat]
           /\ m_decoder.state \in {"Synced", "Decoding", "DropUntilDelimiter"}
           /\ m_decoder.written \in Nat /\ m_decoder.blockRemaining \in Nat
           /\ size \in [Blocks -> 0 .. max_receive_body(Format)]
           /\ payload \in [Blocks -> Seq(Byte)] /\ live \in SUBSET Blocks
           /\ m_lengthBytes \in [1 .. length_size(Format) -> Byte]
           /\ m_building \in Blocks => m_building \in live /\ m_building # "length"
           /\ length_size(Format) \in Nat /\ max_receive_body(Format) \in Nat
           /\ Format.crc_size \in Nat
<1>1. /\ DecoderOK(m_decoder) /\ Format \in Formats /\ m_stats \in [Counters -> Nat]
      /\ size \in [Blocks -> 0 .. max_receive_body(Format)]
      /\ payload \in [Blocks -> Seq(Byte)]
      /\ m_lengthBytes \in [1 .. length_size(Format) -> Byte]
  BY DEF RInv, Reception, Ranges
<1>2. live \in SUBSET Blocks /\ (m_building \in Blocks => m_building \in live)
  BY Facts DEF RInv, PacketsTypeOK
<1>3. m_building \in Blocks => m_building # "length"
  BY ReceiverAssumption
<1>4. /\ m_decoder.state \in {"Synced", "Decoding", "DropUntilDelimiter"}
      /\ m_decoder.written \in Nat /\ m_decoder.blockRemaining \in Nat
  BY <1>1, ByteFacts DEF DecoderOK, Decoders
<1>5. /\ length_size(Format) \in Nat /\ max_receive_body(Format) \in Nat
      /\ Format.crc_size \in Nat
  BY <1>1, FormatFacts
<1> QED BY <1>1, <1>2, <1>3, <1>4, <1>5

\* The stage, from what the decoder does.
LEMMA StageFacts ==
    ASSUME RInv, phase = "open"
    PROVE  /\ m_stage = "NeedHeader" => Waits(m_stage, m_decoder, m_building)
           /\ m_stage = "Header" => ReadsLength(m_stage, m_decoder, m_building)
           /\ m_stage = "Body" =>
                 ReadsBody(m_stage, m_decoder, m_building, size[m_building], payload[m_building])
           /\ m_stage \in {"NeedHeader", "Header", "Body"}
           /\ m_decoder.state = "Decoding" => m_decoder.hasOutput /\ m_stage # "NeedHeader"
           /\ m_decoder.state = "DropUntilDelimiter" =>
                 m_stage = "NeedHeader" /\ ~m_decoder.hasOutput /\ m_decoder.written = 0
           /\ m_decoder.state = "Synced" => m_stage # "Body"
<1>1. StageOK
  BY DEF RInv, Reception
<1>2. CASE Waits(m_stage, m_decoder, m_building)
  BY <1>2 DEF Waits
<1>3. CASE ReadsLength(m_stage, m_decoder, m_building)
  BY <1>3 DEF ReadsLength
<1>4. CASE ReadsBody(m_stage, m_decoder, m_building, size[m_building], payload[m_building])
  BY <1>4 DEF ReadsBody
<1> QED BY <1>1, <1>2, <1>3, <1>4 DEF StageOK

\* A byte that was not written anywhere, or into the length field.
LEMMA WrittenToLength ==
    ASSUME RInv, phase = "open", UNCHANGED <<live, Format>>, NEW put,
           m_stage = "Header" \/ put = <<>>, Written(m_decoder, put)
    PROVE  /\ m_lengthBytes' = IF put # <<>> THEN [m_lengthBytes EXCEPT ![m_decoder.written + 1] = put[1]]
                               ELSE m_lengthBytes
           /\ \A b \in live : size'[b] = size[b] /\ payload'[b] = payload[b]
<1>1. /\ payload \in [Blocks -> Seq(Byte)] /\ live \in SUBSET Blocks
      /\ "length" \notin Blocks
  BY OpenFacts, ReceiverAssumption
<1> DEFINE p == [b \in Blocks |-> IF b = m_decoder.output.at THEN payload[b] \o put ELSE payload[b]]
<1>2. Contents(size, p)
  BY DEF Written
<1>3. \A b \in Blocks : p[b] = payload[b]
  <2>1. CASE put = <<>>
    <3>1. \A x \in Seq(Byte) : x \o <<>> = x
      OBVIOUS
    <3>2. \A b \in Blocks : payload[b] \o put = payload[b]
      BY <1>1, <2>1, <3>1
    <3> QED BY <3>2
  <2>2. CASE m_stage = "Header"
    <3>1. m_decoder.output.at = "length"
      BY <2>2, StageFacts DEF ReadsLength, LengthSegment
    <3> QED BY <1>1, <3>1
  <2> QED BY <2>1, <2>2
<1>4. m_stage = "Header" => m_decoder.output.at = "length"
  BY StageFacts DEF ReadsLength, LengthSegment
<1> HIDE DEF p
<1>5. \A b \in live : size'[b] = size[b] /\ payload'[b] = payload[b]
  BY <1>1, <1>2, <1>3 DEF Contents
<1> QED BY <1>4, <1>5 DEF Written

LEMMA WrittenToBody ==
    ASSUME RInv, phase = "open", UNCHANGED <<live, Format>>, NEW put,
           m_stage = "Body", Written(m_decoder, put)
    PROVE  /\ m_lengthBytes' = m_lengthBytes
           /\ size'[m_building] = size[m_building]
           /\ payload'[m_building] = payload[m_building] \o put
<1>1. /\ m_building \in Blocks /\ m_decoder.output.at = m_building
  BY StageFacts DEF ReadsBody, BlockSegment
<1>2. m_building \in live /\ m_building # "length"
  BY <1>1, OpenFacts
<1> QED BY <1>1, <1>2 DEF Written, Contents

\* A byte of a frame under way that is taken.
LEMMA TakenStep ==
    ASSUME RInv, FrameOK, phase = "open", UNCHANGED Format, NEW b \in 1 .. FullCode,
           m_decoder.state = "Decoding", Absorb(consume(m_decoder, b)),
           chunk' = Append(chunk, b), gaps' = gaps
    PROVE  FrameOK'
<1> DEFINE d == m_decoder
           r == consume(d, b)
           x == Wanted(d, b)
           h == length_size(Format)
<1>1. /\ chunk \in Seq(1 .. FullCode) /\ chunk # <<>> /\ gaps = 0 /\ m_stats = NoCounts
      /\ \E out : Hears(out)
  BY DEF FrameOK
<1>2. PICK out : Hears(out)
  BY <1>1
<1>3. /\ DecoderOK(d) /\ d.hasOutput /\ d.written \in Nat /\ d.blockRemaining \in Nat
      /\ h \in Nat /\ Format \in Formats
      /\ m_lengthBytes \in [1 .. h -> Byte]
  BY OpenFacts, StageFacts
<1>4. /\ r.event = "None" /\ m_decoder' = r.d /\ UNCHANGED <<packets, m_stage>>
      /\ Written(d, r.put) /\ m_stats' = Bump(FrameCounts, {})
  BY DEF Absorb, Counted
<1>5. /\ ~(Wants(d) /\ SegmentFull(d)) /\ r.d.state = "Decoding"
      /\ r.d.blockRemaining = Left(d, b) /\ r.d.pendingZero = Owes(d, b)
      /\ Wants(d) => r.put = <<x>> /\ r.d.written = d.written + 1
      /\ ~Wants(d) => r.put = <<>> /\ r.d.written = d.written
  BY <1>3, <1>4, TakenByte
<1>6. PICK o : o = Longer(d, b, out)
  OBVIOUS
<1>7. Tracks(chunk, d.blockRemaining, d.pendingZero, out) /\ out \in Seq(Byte)
  BY <1>1, <1>2, <1>3, TracksMeaning DEF Hears
<1>8. Tracks(chunk', Left(d, b), Owes(d, b), o) /\ x \in Byte
  BY <1>1, <1>3, <1>7, <1>6, TracksLonger
<1>9. m_stats' = NoCounts /\ live' = live /\ m_building' = m_building
  BY <1>1, <1>4, Counting, OpenFacts DEF FrameCounts, packets
<1>10. o = IF Wants(d) THEN Append(out, x) ELSE out
  BY <1>6 DEF Longer
<1>11. Heard(out) /\ Len(out) \in Nat
  BY <1>2, <1>7 DEF Hears
<1>12. /\ o \in Seq(Byte) /\ Len(o) = IF Wants(d) THEN Len(out) + 1 ELSE Len(out)
       /\ \A k \in 1 .. Len(out) : o[k] = out[k]
       /\ Wants(d) => o[Len(out) + 1] = x
  BY <1>7, <1>8, <1>10
<1> HIDE DEF r, x
<1>13. CASE m_stage = "Header" /\ d.written = Len(out)
  <2>1. /\ m_lengthBytes' = IF r.put # <<>> THEN [m_lengthBytes EXCEPT ![Len(out) + 1] = r.put[1]]
                            ELSE m_lengthBytes
    BY <1>4, <1>9, <1>13, WrittenToLength
  <2>2. Wants(d) => Len(out) + 1 \in 1 .. h /\ r.put # <<>> /\ r.put[1] = x
    <3>1. ReadsLength(m_stage, d, m_building)
      BY <1>13, StageFacts
    <3>2. d.output.size = h /\ Len(out) <= h
      BY <1>3, <1>13, <3>1, FormatFacts DEF ReadsLength, DecoderOK
    <3>3. Wants(d) => Len(out) # h
      BY <1>5, <1>13, <3>2 DEF SegmentFull
    <3>4. Wants(d) => Len(out) + 1 \in 1 .. h
      BY <1>3, <1>11, <3>2, <3>3
    <3>5. Wants(d) => r.put # <<>> /\ r.put[1] = x
      <4>1. Wants(d) => r.put = <<x>>
        BY <1>5
      <4>2. <<x>> # <<>> /\ <<x>>[1] = x
        OBVIOUS
      <4> QED BY <4>1, <4>2
    <3> QED BY <3>4, <3>5
  <2>3. \A k \in 1 .. h : k <= Len(o) => m_lengthBytes'[k] = o[k]
    <3> SUFFICES ASSUME NEW k \in 1 .. h, k <= Len(o) PROVE m_lengthBytes'[k] = o[k]
      OBVIOUS
    <3>1. CASE Wants(d)
      <4>1. m_lengthBytes' = [m_lengthBytes EXCEPT ![Len(out) + 1] = x]
        BY <2>1, <2>2, <3>1
      <4>2. CASE k = Len(out) + 1
        BY <1>3, <1>12, <3>1, <4>1, <4>2
      <4>3. CASE k # Len(out) + 1
        <5>1. k \in 1 .. Len(out)
          BY <1>3, <1>11, <1>12, <3>1, <4>3
        <5> QED BY <1>3, <1>11, <1>12, <4>1, <4>3, <5>1 DEF Heard
      <4> QED BY <4>2, <4>3
    <3>2. CASE ~Wants(d)
      BY <1>3, <1>5, <1>11, <1>12, <2>1, <3>2 DEF Heard
    <3> QED BY <3>1, <3>2
  <2>4. Heard(o)'
    BY <2>3 DEF Heard
  <2>5. m_stage' = "Header" /\ m_decoder'.written = Len(o)
    BY <1>4, <1>5, <1>12, <1>13
  <2>6. Hears(o)'
    BY <1>4, <1>5, <1>8, <2>4, <2>5 DEF Hears
  <2> QED BY <1>1, <1>4, <1>5, <1>9, <2>6 DEF FrameOK
<1>14. CASE /\ m_stage = "Body" /\ Len(out) > h
            /\ CanHold(declared) /\ size[m_building] = declared
            /\ payload[m_building] = BodyIn(out)
  <2>1. /\ m_lengthBytes' = m_lengthBytes /\ size'[m_building] = size[m_building]
        /\ payload'[m_building] = payload[m_building] \o r.put
    BY <1>4, <1>9, <1>14, WrittenToBody
  <2>2. BodyIn(out) \in Seq(Byte) /\ Len(out) >= h
    BY <1>3, <1>7, <1>11, <1>14, BodyLength
  <2>3. payload'[m_building] = BodyIn(o)
    <3>1. CASE Wants(d)
      <4>1. BodyIn(o) = Append(BodyIn(out), x)
        BY <1>3, <1>7, <1>8, <1>10, <2>2, <3>1, BodyOn
      <4>2. BodyIn(out) \o <<x>> = Append(BodyIn(out), x)
        BY <1>8, <2>2
      <4> QED BY <1>5, <1>14, <2>1, <3>1, <4>1, <4>2
    <3>2. CASE ~Wants(d)
      <4>1. BodyIn(out) \o <<>> = BodyIn(out)
        BY <2>2
      <4> QED BY <1>5, <1>10, <1>14, <2>1, <3>2, <4>1
    <3> QED BY <3>1, <3>2
  <2>4. Heard(o)'
    BY <1>3, <1>11, <1>12, <1>14, <2>1 DEF Heard
  <2>5. declared' = declared /\ CanHold(declared)' /\ BodyIn(o)' = BodyIn(o)
    BY <1>14, <2>1 DEF declared, CanHold, BodyIn
  <2>6. Len(o) > h
    BY <1>3, <1>11, <1>12, <1>14
  <2>7. /\ m_stage' = "Body" /\ size'[m_building'] = declared'
        /\ payload'[m_building'] = BodyIn(o)
    BY <1>4, <1>9, <1>14, <2>1, <2>3, <2>5
  <2>8. Hears(o)'
    BY <1>4, <1>5, <1>8, <2>4, <2>5, <2>6, <2>7 DEF Hears
  <2> QED BY <1>1, <1>4, <1>5, <1>9, <2>8 DEF FrameOK
<1> QED BY <1>2, <1>13, <1>14 DEF Hears

\* A byte of a frame under way that finds no room.
Waiting(out, x, b) ==
    /\ Hears(out) /\ out \in Seq(Byte) /\ x \in Byte
    /\ m_decoder.hasOutput /\ Wants(m_decoder) /\ x = Wanted(m_decoder, b)
    /\ consume(m_decoder, b).d = m_decoder
    /\ Tracks(Append(chunk, b), Left(m_decoder, b), Owes(m_decoder, b), Append(out, x))
    /\ Left(m_decoder, b) \in Nat
    /\ Len(out) = length_size(Format) + (IF m_stage = "Body" THEN declared ELSE 0)
    /\ m_stage \in {"Header", "Body"}
    /\ declared \in Nat /\ declared = Says(Append(out, x))

LEMMA WaitsForRoom ==
    ASSUME RInv, FrameOK, phase = "open", m_decoder.state = "Decoding", NEW b \in 1 .. FullCode,
           consume(m_decoder, b).event = "NeedOutput"
    PROVE  /\ \E out, x : Waiting(out, x, b)
           /\ chunk \in Seq(1 .. FullCode) /\ chunk # <<>> /\ gaps = 0 /\ FrameCounts = NoCounts
<1> DEFINE d == m_decoder
           r == consume(d, b)
           x == Wanted(d, b)
           h == length_size(Format)
<1>1. /\ chunk \in Seq(1 .. FullCode) /\ chunk # <<>> /\ gaps = 0 /\ m_stats = NoCounts
      /\ \E out : Hears(out)
  BY DEF FrameOK
<1>2. PICK out : Hears(out)
  BY <1>1
<1>3. /\ DecoderOK(d) /\ d.hasOutput /\ d.written \in Nat /\ d.blockRemaining \in Nat
      /\ h \in Nat /\ Format \in Formats /\ Ranges
  BY OpenFacts, StageFacts DEF RInv, Reception
<1>4. Wants(d) /\ SegmentFull(d) /\ r.d = d
  BY <1>3, TakenByte
<1>5. Tracks(chunk, d.blockRemaining, d.pendingZero, out) /\ out \in Seq(Byte) /\ Heard(out)
  BY <1>1, <1>2, <1>3, TracksMeaning DEF Hears
<1>6. /\ Tracks(Append(chunk, b), Left(d, b), Owes(d, b), Append(out, x)) /\ x \in Byte
      /\ Left(d, b) \in Nat
  <2>1. Longer(d, b, out) = Append(out, x)
    BY <1>4 DEF Longer
  <2> QED BY <1>1, <1>3, <1>5, <2>1, TracksLonger
<1>7. declared \in Nat
  BY <1>3, Declared
<1>8. Len(out) = h + (IF m_stage = "Body" THEN declared ELSE 0) /\ m_stage \in {"Header", "Body"}
  <2>1. CASE m_stage = "Header" /\ d.written = Len(out)
    <3>1. d.written = h
      BY <1>3, <1>4, <2>1, StageFacts, FormatFacts DEF SegmentFull, ReadsLength
    <3> QED BY <1>3, <2>1, <3>1
  <2>2. CASE /\ m_stage = "Body" /\ Len(out) > h /\ size[m_building] = declared
             /\ payload[m_building] = BodyIn(out)
    <3>1. d.written = Len(payload[m_building]) /\ d.output.size = size[m_building]
      BY <2>2, StageFacts DEF ReadsBody, BlockSegment
    <3>2. Len(BodyIn(out)) = declared
      BY <1>4, <2>2, <3>1 DEF SegmentFull
    <3>3. Len(out) \in Nat /\ Len(out) >= h
      BY <1>3, <1>5, <2>2
    <3>4. Len(BodyIn(out)) = Len(out) - h
      BY <1>3, <1>5, <3>3, BodyLength
    <3> QED BY <1>3, <1>7, <2>2, <3>2, <3>3, <3>4
  <2> QED BY <1>2, <2>1, <2>2 DEF Hears
<1>9. declared = Says(Append(out, x))
  <2>1. Len(out) \in Nat /\ Len(out) >= h
    BY <1>3, <1>5, <1>7, <1>8
  <2>2. declared = Says(out)
    BY <1>3, <1>5, <2>1, HeardSays
  <2>3. Says(Append(out, x)) = Says(out)
    BY <1>3, <1>5, <1>6, <2>1, SaysOn
  <2> QED BY <2>2, <2>3
<1>10. Waiting(out, x, b)
  BY <1>2, <1>3, <1>4, <1>5, <1>6, <1>7, <1>8, <1>9 DEF Waiting
<1>11. FrameCounts = NoCounts
  BY <1>1 DEF FrameCounts
<1> QED BY <1>1, <1>10, <1>11

\* A frame given up is hopeless.
LEMMA AbandonedStep ==
    ASSUME RInv, phase = "open", UNCHANGED Format, NEW b \in 1 .. FullCode, NEW e, NEW cause,
           abandonFrame(e, b, {cause}), FrameCounts = NoCounts,
           chunk \in Seq(1 .. FullCode), chunk' = Append(chunk, b), gaps = 0, gaps' = gaps,
           NEW out, StandsFor(chunk', out), Doomed(cause, out)
    PROVE  FrameOK'
<1>1. m_decoder'.state = "DropUntilDelimiter"
  <2> DEFINE g == discard_until_delimiter(e)
  <2>1. DecoderOK(g) /\ g.state = "DropUntilDelimiter"
    BY Dropped DEF discard_until_delimiter
  <2> HIDE DEF g
  <2>2. consume(g, b).d.state = "DropUntilDelimiter"
    BY <2>1, SkippedByte
  <2> QED BY <2>2 DEF abandonFrame, g
<1>2. m_stats' = Bump(NoCounts, Lost(cause, TRUE))
  <2>1. {cause} \union {"frames_lost", "resyncs"} = Lost(cause, TRUE)
    BY DEF Lost
  <2> QED BY <2>1 DEF abandonFrame, Counted
<1>3. Doomed(cause, out)'
  BY DEF Doomed, Says, CanHold
<1>4. StandsFor(chunk, out)'
  BY DEF StandsFor, Tracks
<1>5. Hopeless'
  BY <1>2, <1>3, <1>4 DEF Hopeless
<1>6. chunk' \in Seq(1 .. FullCode) /\ chunk' # <<>>
  OBVIOUS
<1> QED BY <1>1, <1>5, <1>6 DEF FrameOK

LEMMA RefusedStep ==
    ASSUME RInv, FrameOK, phase = "open", UNCHANGED Format, NEW b \in 1 .. FullCode,
           m_decoder.state = "Decoding",
           RefuseBody(consume(m_decoder, b), b) \/ Overrun(consume(m_decoder, b), b),
           chunk' = Append(chunk, b), gaps' = gaps
    PROVE  FrameOK'
<1> DEFINE r == consume(m_decoder, b)
           h == length_size(Format)
<1>1. r.event = "NeedOutput"
  BY DEF RefuseBody, BodyBegins, Overrun
<1>2. /\ \E out, x : Waiting(out, x, b)
      /\ chunk \in Seq(1 .. FullCode) /\ gaps = 0 /\ FrameCounts = NoCounts
  BY <1>1, WaitsForRoom
<1>3. PICK out, x : Waiting(out, x, b)
  BY <1>2
<1> DEFINE n == declared
           top == max_receive_body(Format)
<1>4. PICK o : o = Append(out, x)
  OBVIOUS
<1>5. /\ Tracks(chunk', Left(m_decoder, b), Owes(m_decoder, b), o)
      /\ Left(m_decoder, b) \in Nat /\ n \in Nat /\ n = Says(o)
      /\ h \in Nat /\ top \in Nat /\ Format.crc_size \in Nat
      /\ Len(o) = h + 1 + (IF m_stage = "Body" THEN n ELSE 0)
  <2>1. out \in Seq(Byte) /\ Len(out) = h + (IF m_stage = "Body" THEN n ELSE 0) /\ n \in Nat
    BY <1>3 DEF Waiting
  <2>2. h \in Nat /\ top \in Nat /\ Format.crc_size \in Nat
    BY OpenFacts
  <2>3. Len(o) = Len(out) + 1
    BY <1>4, <2>1
  <2>4. Len(o) = h + 1 + (IF m_stage = "Body" THEN n ELSE 0)
    <3> HIDE DEF n, h
    <3> QED BY <2>1, <2>2, <2>3
  <2> QED BY <1>3, <1>4, <2>1, <2>2, <2>4 DEF Waiting
<1>6. ASSUME NEW cause, abandonFrame(r.d, b, {cause}), Doomed(cause, o)
      PROVE  FrameOK'
  <2>1. StandsFor(chunk', o)
    BY <1>5 DEF StandsFor
  <2> QED BY <1>2, <1>6, <2>1, AbandonedStep
<1>7. CASE RefuseBody(r, b)
  <2>1. m_stage = "Header" /\ Len(o) > h
    BY <1>5, <1>7 DEF RefuseBody, BodyBegins
  <2>2. CASE n > top /\ abandonFrame(r.d, b, {"oversize"})
    <3>1. Doomed("oversize", o)
      BY <1>5, <2>1, <2>2 DEF Doomed
    <3> QED BY <1>6, <2>2, <3>1
  <2>3. CASE n <= top /\ Contradicted /\ abandonFrame(r.d, b, {"length_mismatch"})
    <3>1. Doomed("length_mismatch", o)
      BY <1>5, <2>1, <2>3 DEF Doomed, CanHold, Contradicted
    <3> QED BY <1>6, <2>3, <3>1
  <2>4. CASE n <= top /\ ~Contradicted /\ abandonFrame(r.d, b, {"allocation_failure"})
    <3>1. Doomed("allocation_failure", o)
      BY <1>5, <2>1, <2>4 DEF Doomed, CanHold, Contradicted
    <3> QED BY <1>6, <2>4, <3>1
  <2> QED BY <1>7, <2>2, <2>3, <2>4 DEF RefuseBody
<1>8. CASE Overrun(r, b)
  <2>1. m_stage = "Body" /\ abandonFrame(r.d, b, {"length_mismatch"})
    BY <1>8 DEF Overrun
  <2>2. CanHold(n)
    BY <1>3, <2>1 DEF Waiting, Hears
  <2>3. Doomed("length_mismatch", o)
    <3>1. Len(o) = h + 1 + n
      BY <1>5, <2>1
    <3> HIDE DEF n, h
    <3>2. Len(o) > h /\ Len(o) - h > n
      BY <1>5, <3>1
    <3> QED BY <1>5, <2>2, <3>2 DEF Doomed, h
  <2> QED BY <1>6, <2>1, <2>3
<1> QED BY <1>7, <1>8

\* A segment for a decoder that has none, or has filled the one it had.
LEMMA Attaching ==
    ASSUME NEW d, DecoderOK(d), d.state = "Decoding", ~d.hasOutput \/ SegmentFull(d),
           NEW segment \in Segments
    PROVE  LET e == attach_output(d, segment)
           IN  /\ DecoderOK(e) /\ e.state = "Decoding" /\ e.output = segment /\ e.hasOutput
               /\ e.written = 0
               /\ e.blockRemaining = d.blockRemaining /\ e.pendingZero = d.pendingZero
<1> DEFINE n == d.decodedBefore + d.written
<1>1. n \in Nat
  BY DEF DecoderOK, Decoders
<1>2. attach_output(d, segment) = Repointed(d, segment, n)
  BY DEF attach_output, Repointed, DecoderOK, Decoders
<1> HIDE DEF n
<1> QED BY <1>1, <1>2, NewSegment

\* The body of a frame under way begins.
LEMMA BeginFrameStep ==
    ASSUME RInv, FrameOK, phase = "open", UNCHANGED Format, NEW b \in 1 .. FullCode,
           NEW c \in Blocks, m_decoder.state = "Decoding",
           beginBody(consume(m_decoder, b), b, c),
           chunk' = Append(chunk, b), gaps' = gaps
    PROVE  FrameOK'
<1> DEFINE d == m_decoder
           h == length_size(Format)
           n == declared
           segment == BlockSegment(c, n)
<1>1. /\ consume(d, b).event = "NeedOutput" /\ m_stage = "Header"
      /\ n <= max_receive_body(Format) /\ ~Contradicted /\ Granted(c, n)
      /\ m_stage' = "Body" /\ m_stats' = Bump(FrameCounts, {}) /\ UNCHANGED m_lengthBytes
  BY DEF beginBody, BodyBegins, Counted
<1>2. /\ \E out, x : Waiting(out, x, b)
      /\ chunk \in Seq(1 .. FullCode) /\ gaps = 0 /\ FrameCounts = NoCounts
  BY <1>1, WaitsForRoom
<1>3. PICK out, x : Waiting(out, x, b)
  BY <1>2
<1>4. /\ h \in Nat /\ Format \in Formats /\ DecoderOK(d) /\ c # "length"
      /\ n \in Nat /\ consume(d, b).d = d /\ Wants(d) /\ d.hasOutput
      /\ out \in Seq(Byte) /\ x \in Byte /\ x = Wanted(d, b) /\ Len(out) = h
      /\ size \in [Blocks -> 0 .. max_receive_body(Format)]
      /\ payload \in [Blocks -> Seq(Byte)] /\ n = Says(Append(out, x))
  BY <1>1, <1>3, OpenFacts, ReceiverAssumption DEF Waiting
<1>5. PICK e : e = attach_output(d, segment)
  OBVIOUS
<1>6. /\ DecoderOK(e) /\ e.state = "Decoding" /\ e.output = segment /\ e.hasOutput
      /\ e.written = 0
      /\ e.blockRemaining = d.blockRemaining /\ e.pendingZero = d.pendingZero
  <2>1. SegmentFull(d)
    BY <1>1, <1>4, TakenByte
  <2>2. segment \in Segments
    BY <1>4 DEF Segments, BlockSegment
  <2> HIDE DEF segment
  <2> QED BY <1>4, <1>5, <2>1, <2>2, Attaching
<1>7. Wants(e) /\ Wanted(e, b) = x /\ Left(e, b) = Left(d, b) /\ Owes(e, b) = Owes(d, b)
  BY <1>4, <1>6 DEF Wants, Wanted, Left, Owes
<1>8. ~SegmentFull(e)
  BY <1>1, <1>6 DEF SegmentFull, BlockSegment, Contradicted
<1>9. PICK s : s = consume(e, b)
  OBVIOUS
<1>10. /\ s.d.state = "Decoding" /\ s.put = <<x>>
       /\ s.d.blockRemaining = Left(d, b) /\ s.d.pendingZero = Owes(d, b)
  BY <1>6, <1>7, <1>8, <1>9, TakenByte
<1>11. /\ m_decoder' = s.d
       /\ Contents([size EXCEPT ![c] = n], [payload EXCEPT ![c] = s.put])
  BY <1>4, <1>5, <1>9 DEF beginBody
<1>12. m_building' = c /\ size'[c] = n /\ payload'[c] = <<x>>
  <2>1. c \in live' /\ m_building' = c
    BY <1>1 DEF Granted
  <2> QED BY <1>4, <1>10, <1>11, <2>1 DEF Contents
<1>13. m_stats' = NoCounts
  BY <1>1, <1>2, Counting DEF NoCounts
<1>14. PICK o : o = Append(out, x)
  OBVIOUS
<1>15. /\ Tracks(chunk', Left(d, b), Owes(d, b), o) /\ Len(o) = h + 1 /\ Len(o) > h
       /\ \A k \in 1 .. h : o[k] = out[k]
  BY <1>3, <1>4, <1>14 DEF Waiting
<1>16. BodyIn(o) = <<x>>
  <2>1. Len(out) >= h /\ Len(out) - h = 0
    BY <1>4
  <2>2. BodyIn(out) \in Seq(Byte) /\ Len(BodyIn(out)) = 0
    BY <1>4, <2>1, BodyLength
  <2>3. BodyIn(o) = Append(BodyIn(out), x)
    BY <1>4, <1>14, <2>1, BodyOn
  <2> QED BY <2>2, <2>3
<1>17. Heard(o)'
  <2>1. Heard(out) /\ \A k \in 1 .. h : k <= Len(out)
    BY <1>3, <1>4 DEF Waiting, Hears
  <2> QED BY <1>1, <1>15, <2>1 DEF Heard
<1>18. CanHold(n)
  BY <1>1, <1>4, OpenFacts DEF CanHold, Contradicted
<1>19. declared' = n /\ CanHold(declared)' /\ BodyIn(o)' = BodyIn(o)
  BY <1>1, <1>18 DEF declared, CanHold, BodyIn
<1>20. Hears(o)'
  BY <1>1, <1>10, <1>11, <1>12, <1>15, <1>16, <1>17, <1>19 DEF Hears
<1>21. chunk' # <<>> /\ chunk' \in Seq(1 .. FullCode)
  BY <1>2
<1> QED BY <1>2, <1>10, <1>11, <1>13, <1>20, <1>21 DEF FrameOK

\* The first byte of a frame.
LEMMA FirstByteStep ==
    ASSUME RInv, FrameOK, phase = "open", UNCHANGED Format, NEW b \in 1 .. FullCode,
           m_decoder.state = "Synced",
           Absorb(consume(m_decoder, b)) \/ AttachHeader(consume(m_decoder, b)),
           chunk' = Append(chunk, b), gaps' = gaps
    PROVE  FrameOK'
<1> DEFINE d == m_decoder
           r == consume(d, b)
<1>1. /\ chunk = <<>> /\ gaps = 0 /\ d.written = 0 /\ FrameCounts = NoCounts
      /\ DecoderOK(d) /\ Format \in Formats
  BY OpenFacts DEF FrameOK, FrameCounts
<1>2. /\ r.event = IF d.hasOutput THEN "None" ELSE "NeedOutput"
      /\ r.put = <<>> /\ r.d.state = "Decoding" /\ r.d.written = 0
      /\ r.d.hasOutput = d.hasOutput
      /\ r.d.blockRemaining = b - 1 /\ r.d.pendingZero = (b # FullCode)
  BY <1>1, FirstByte
<1>3. DecoderOK(r.d)
  <2>1. b \in Byte
    BY ByteFacts DEF Byte
  <2> QED BY <1>1, <2>1, ConsumeByte DEF Byteful
<1>4. chunk' = <<b>> /\ chunk' \in Seq(1 .. FullCode) /\ chunk' # <<>>
  BY <1>1
<1> HIDE DEF r
<1>5. /\ m_decoder'.state = "Decoding" /\ m_decoder'.written = 0 /\ m_stage' = "Header"
      /\ m_decoder'.blockRemaining = b - 1 /\ m_decoder'.pendingZero = (b # FullCode)
      /\ m_stats' = Bump(NoCounts, {})
  <2>1. CASE Absorb(r)
    <3>1. d.hasOutput
      BY <1>2, <2>1 DEF Absorb
    <3>2. m_stage = "Header"
      BY <3>1, StageFacts DEF Waits
    <3> QED BY <1>1, <1>2, <2>1, <3>2 DEF Absorb, Counted
  <2>2. CASE AttachHeader(r)
    <3>1. ~r.d.hasOutput
      BY <1>2, <2>2 DEF AttachHeader
    <3>2. LengthSegment \in Segments
      BY <1>1, FormatFacts
    <3>3. PICK e : e = attach_output(r.d, LengthSegment)
      OBVIOUS
    <3>4. e.state = "Decoding" /\ e.written = 0 /\ e.blockRemaining = r.d.blockRemaining
          /\ e.pendingZero = r.d.pendingZero
      BY <1>2, <1>3, <3>1, <3>2, <3>3, Attaching
    <3> QED BY <1>1, <1>2, <2>2, <3>3, <3>4 DEF AttachHeader, Counted
  <2> QED BY <2>1, <2>2 DEF r
<1>6. m_stats' = NoCounts
  BY <1>5, Counting DEF NoCounts
<1>7. Tracks(chunk', m_decoder'.blockRemaining, m_decoder'.pendingZero, <<>>)
  <2>1. Tracks(<<b>>, b - 1, b # FullCode, <<>>)
    BY TracksFirst
  <2> QED BY <1>4, <1>5, <2>1
<1>8. Heard(<<>>)'
  BY DEF Heard
<1>9. Hears(<<>>)'
  BY <1>5, <1>7, <1>8 DEF Hears
<1> QED BY <1>1, <1>4, <1>5, <1>6, <1>9 DEF FrameOK

\* A byte of a frame given up.
LEMMA SkippedStep ==
    ASSUME RInv, FrameOK, phase = "open", UNCHANGED Format, NEW b \in 1 .. FullCode,
           m_decoder.state = "DropUntilDelimiter", Absorb(consume(m_decoder, b)),
           chunk' = Append(chunk, b), gaps' = gaps
    PROVE  FrameOK'
<1>1. m_decoder'.state = "DropUntilDelimiter"
  BY OpenFacts, SkippedByte DEF Absorb
<1>2. m_stats' = m_stats
  BY OpenFacts, Counting DEF Absorb, Counted, FrameCounts
<1>3. chunk \in Seq(1 .. FullCode) /\ chunk' \in Seq(1 .. FullCode) /\ chunk' # <<>>
  BY DEF FrameOK
<1>4. gaps = 0 /\ Hopeless => Hopeless'
  BY <1>2, <1>3, OpenFacts, HopelessOn
<1> QED BY <1>1, <1>2, <1>3, <1>4 DEF FrameOK

\* A byte that is not the delimiter ends no frame.
LEMMA DataByteEvent ==
    ASSUME NEW d, DecoderOK(d), d.state = "Decoding" => d.hasOutput, NEW b \in 1 .. FullCode
    PROVE  consume(d, b).event \in {"None", "NeedOutput"}
<1>1. CASE d.state = "Decoding"
  BY <1>1, TakenByte
<1>2. CASE d.state = "Synced"
  BY <1>2, FirstByte
<1>3. CASE d.state = "DropUntilDelimiter"
  BY <1>3, SkippedByte
<1> QED BY <1>1, <1>2, <1>3 DEF DecoderOK, Decoders

LEMMA ByteFrameStep ==
    ASSUME RInv, FrameInv, UNCHANGED Format, NEW b \in 1 .. FullCode, Consume(b)
    PROVE  FrameOK' /\ chunk' # <<>> /\ queue' = queue
<1> DEFINE r == consume(m_decoder, b)
<1>1. /\ phase = "open" /\ FrameOK /\ Handled(r, b) /\ chunk' = Append(chunk, b) /\ gaps' = gaps
      /\ chunk \in Seq(1 .. FullCode)
  BY ByteFacts DEF Consume, FrameInv, FrameOK
<1>2. r.event \in {"None", "NeedOutput"}
  BY <1>1, OpenFacts, StageFacts, DataByteEvent
<1>3. \/ Absorb(r) \/ AttachHeader(r) \/ RefuseBody(r, b) \/ Overrun(r, b)
      \/ \E c \in Blocks : beginBody(r, b, c)
  BY <1>1, <1>2, Zenon DEF Handled, Malformed, LoseComplete, PublishBody, RefuseNothing, PublishNothing
<1>4. chunk' # <<>>
  BY <1>1
<1>5. ASSUME m_decoder.state = "Decoding"
      PROVE  FrameOK'
  <2>1. ~AttachHeader(r)
    BY <1>1, <1>5, StageFacts DEF AttachHeader
  <2>2. Absorb(r) => FrameOK'
    BY <1>1, <1>5, TakenStep
  <2>3. RefuseBody(r, b) \/ Overrun(r, b) => FrameOK'
    BY <1>1, <1>5, RefusedStep
  <2>4. ASSUME NEW c \in Blocks, beginBody(r, b, c)
        PROVE  FrameOK'
    BY <1>1, <1>5, <2>4, BeginFrameStep
  <2> HIDE DEF r
  <2> QED BY <1>3, <2>1, <2>2, <2>3, <2>4, Zenon
<1>6. ASSUME m_decoder.state = "Synced"
      PROVE  FrameOK'
  <2>1. r.event = "NeedOutput" => ~m_decoder.hasOutput
    BY <1>1, <1>6, OpenFacts, FirstByte
  <2>2. ~m_decoder.hasOutput => m_stage = "NeedHeader"
    BY <1>1, <1>6, StageFacts DEF ReadsLength
  <2>3. Absorb(r) \/ AttachHeader(r)
    BY <1>3, <2>1, <2>2, Zenon DEF RefuseBody, Overrun, beginBody, BodyBegins
  <2> QED BY <1>1, <1>6, <2>3, FirstByteStep
<1>7. ASSUME m_decoder.state = "DropUntilDelimiter"
      PROVE  FrameOK'
  <2>1. r.event = "None"
    BY <1>1, <1>7, OpenFacts, SkippedByte
  <2>2. Absorb(r)
    BY <1>3, <2>1, Zenon DEF AttachHeader, RefuseBody, Overrun, beginBody, BodyBegins
  <2> QED BY <1>1, <1>7, <2>2, SkippedStep
<1>8. queue' = queue
  BY <1>3, Zenon DEF Absorb, AttachHeader, RefuseBody, Overrun, beginBody, abandonFrame, ReleaseBuilding,
                     Granted, packets, lists
<1> QED BY <1>1, <1>4, <1>5, <1>6, <1>7, <1>8, OpenFacts

LEMMA NothingReceived ==
    ASSUME RInv, FrameOK, phase = "open"
    PROVE  /\ FrameCounts \in [Counters -> Nat]
           /\ FrameCounts["frames_received"] = 0 /\ FrameCounts["frames_lost"] >= gaps
<1>1. m_stats \in [Counters -> Nat]
  BY OpenFacts
<1>2. NoCounts \in [Counters -> Nat] /\ \A c \in Counters : NoCounts[c] = 0
  BY DEF NoCounts
<1>3. CASE m_decoder.state \in {"Synced", "Decoding"}
  <2>1. FrameCounts = NoCounts /\ gaps = 0
    BY <1>3 DEF FrameOK, FrameCounts
  <2> QED BY <1>2, <2>1, Counting
<1>4. CASE m_decoder.state = "DropUntilDelimiter"
  <2>1. FrameCounts = m_stats
    BY <1>4 DEF FrameCounts
  <2>2. CASE gaps > 0 /\ m_stats["frames_received"] = 0 /\ m_stats["frames_lost"] >= gaps
    BY <1>1, <2>1, <2>2
  <2>3. CASE gaps = 0 /\ Hopeless
    <3>1. PICK cause, out : m_stats = Bump(NoCounts, Lost(cause, TRUE)) /\ Doomed(cause, out)
      BY <2>3 DEF Hopeless
    <3>2. "frames_received" \notin Lost(cause, TRUE) /\ "frames_lost" \in Lost(cause, TRUE)
      BY <3>1 DEF Lost, Doomed
    <3>3. m_stats["frames_received"] = 0 /\ m_stats["frames_lost"] = 1
      BY <3>1, <3>2, Counting
    <3> QED BY <1>1, <2>1, <2>3, <3>3
  <2> QED BY <1>4, <2>2, <2>3 DEF FrameOK
<1> QED BY <1>3, <1>4, OpenFacts

LEMMA GapFrameStep ==
    ASSUME RInv, FrameInv, UNCHANGED Format, gap
    PROVE  FrameOK' /\ chunk' = chunk /\ queue' = queue
<1>1. /\ phase = "open" /\ FrameOK /\ gaps \in Nat /\ gaps' = gaps + 1 /\ chunk' = chunk
      /\ chunk \in Seq(1 .. FullCode) /\ m_decoder' = discard_until_delimiter(m_decoder)
      /\ m_stats' = Bump(FrameCounts, {"frames_lost", "resyncs"}) /\ queue' = queue
  BY DEF gap, FrameInv, FrameOK, Counted, ReleaseBuilding, lists
<1>2. m_decoder'.state = "DropUntilDelimiter"
  BY <1>1, Dropped DEF discard_until_delimiter
<1>3. /\ FrameCounts \in [Counters -> Nat]
      /\ FrameCounts["frames_received"] = 0 /\ FrameCounts["frames_lost"] >= gaps
  BY <1>1, NothingReceived
<1>4. /\ m_stats'["frames_received"] = FrameCounts["frames_received"] + 0
      /\ m_stats'["frames_lost"] = FrameCounts["frames_lost"] + 1
  BY <1>1, Counting DEF Bump
<1>5. FrameCounts["frames_lost"] \in Nat
  BY <1>3, Counting
<1>6. gaps' > 0 /\ m_stats'["frames_received"] = 0 /\ m_stats'["frames_lost"] >= gaps' /\ gaps' \in Nat
  BY <1>1, <1>3, <1>4, <1>5
<1> QED BY <1>1, <1>2, <1>6 DEF FrameOK

\* What leaves the frame under way alone.
LEMMA UntouchedFrame ==
    ASSUME RInv, FrameOK, phase = "open",
           UNCHANGED <<Format, m_decoder, m_lengthBytes, m_stage, m_stats, chunk, gaps, m_building>>,
           m_building \in Blocks =>
               size'[m_building] = size[m_building] /\ payload'[m_building] = payload[m_building]
    PROVE  FrameOK'
<1>1. m_stage = "Body" => m_building \in Blocks
  BY StageFacts DEF ReadsBody
<1>2. Hopeless => Hopeless'
  BY DEF Hopeless, StandsFor, Tracks, Doomed, Says, CanHold
<1>3. ASSUME NEW out, Hears(out)
      PROVE  Hears(out)'
  BY <1>1, <1>3 DEF Hears, Tracks, Heard, declared, CanHold, BodyIn
<1>4. (\E out : Hears(out)) => \E out : Hears(out)'
  BY <1>3
<1> QED BY <1>2, <1>4 DEF FrameOK

LEMMA ElsewhereFrame ==
    ASSUME RInv, FrameInv, UNCHANGED Format, Elsewhere
    PROVE  FrameInv' /\ UNCHANGED history
<1>1. /\ IInv /\ live \in SUBSET Blocks /\ size \in [Blocks -> 0 .. max_receive_body(Format)]
      /\ payload \in [Blocks -> Seq(Byte)]
  BY Facts DEF RInv, Reception, Ranges, PacketsTypeOK
<1>2. /\ PacketsNext
      /\ phase' = "open" => phase = "open" /\ m_building' = m_building
  BY <1>1, ElsewhereShrinks
<1>3. IInv'
  BY <1>1, <1>2, NextIInv
<1>4. m_building' \in Blocks => m_building' \in live'
  BY <1>3, OwnersType DEF IInv, OwnersExact, Owners, Base
<1>5. /\ Contents(size, payload)
      /\ UNCHANGED <<m_decoder, m_lengthBytes, m_stage, m_stats, chunk, gaps>>
  BY DEF Elsewhere, history
<1>6. ASSUME phase' = "open"
      PROVE  FrameOK'
  <2>1. phase = "open" /\ m_building' = m_building /\ FrameOK
    BY <1>2, <1>6 DEF FrameInv
  <2>2. m_building \in Blocks =>
            size'[m_building] = size[m_building] /\ payload'[m_building] = payload[m_building]
    BY <1>1, <1>4, <1>5, <2>1 DEF Contents
  <2> QED BY <1>5, <2>1, <2>2, UntouchedFrame
<1> QED BY <1>5, <1>6 DEF FrameInv, history

\* Nothing joins the queue elsewhere.
LEMMA ElsewhereQueue ==
    ASSUME RInv, Elsewhere
    PROVE  ~(Len(queue') > Len(queue))
<1>1. queue \in Seq(Blocks) /\ (queue = <<>> => m_readyHead = NoBlock)
  BY DEF RInv, IInv, PacketsTypeOK, ListIsQueue
<1>2. Len(queue) \in Nat /\ (queue # <<>> => Len(Tail(queue)) = Len(queue) - 1)
  BY <1>1
<1>3. queue' = queue \/ (queue' = Tail(queue) /\ m_readyHead # NoBlock)
  BY Zenon DEF Elsewhere, Application, PopInto, Reset, CopyAssign, MoveAssign, Destroy, ReleaseBuilding,
               ClearOne, Closed, Dequeue, lists
<1> QED BY <1>1, <1>2, <1>3

\* A decoder that stands before a frame.
LEMMA PreparedEmpty ==
    ASSUME Format \in Formats, NEW e, DecoderOK(e), e.state = "Synced"
    PROVE  LET d == prepare_output(e, LengthSegment)
           IN  d.state = "Synced" /\ d.written = 0
<1>1. LengthSegment \in Segments
  BY FormatFacts
<1>2. prepare_output(e, LengthSegment) = Repointed(e, LengthSegment, 0)
  BY DEF prepare_output, Repointed
<1> QED BY <1>1, <1>2, NewSegment

LEMMA FrameInit == ReceiverInit => FrameInv
<1> SUFFICES ASSUME ReceiverInit
             PROVE  FrameOK
  BY DEF FrameInv
<1>1. DecoderOK(NewDecoder) /\ NewDecoder.state = "Synced"
  BY ByteFacts, NoSegmentOK DEF NewDecoder, DecoderOK, Decoders
<1>2. m_decoder.state = "Synced" /\ m_decoder.written = 0
  BY <1>1, PreparedEmpty DEF ReceiverInit
<1> QED BY <1>2 DEF ReceiverInit, FrameOK

-----------------------------------------------------------------------------
(* The delimiter.                                                          *)

LEMMA DelimiterFrame ==
    ASSUME RInv, FrameInv, UNCHANGED Format, Consume(0)
    PROVE  FrameOK' /\ chunk' = <<>>
<1> DEFINE r == consume(m_decoder, 0)
<1>1. /\ phase = "open" /\ FrameOK /\ Handled(r, 0) /\ chunk' = <<>> /\ gaps' = 0
      /\ DecoderOK(m_decoder) /\ Format \in Formats
  BY OpenFacts DEF Consume, FrameInv
<1>2. m_decoder.state = "Decoding" => m_decoder.hasOutput
  BY <1>1, StageFacts
<1>3. CASE m_decoder.state = "Decoding"
  <2>1. r.event \in {"Malformed", "FrameComplete"} /\ r.d = dropFrame(m_decoder, "Synced")
    BY <1>1, <1>2, <1>3, ZeroByte
  <2>2. m_decoder' = prepare_output(r.d, LengthSegment)
    BY <1>1, <2>1 DEF Handled, Absorb, Malformed, AttachHeader, RefuseBody, Overrun, beginBody,
                      BodyBegins, LoseComplete, PublishBody, RefuseNothing, PublishNothing,
                      endFrame, Published
  <2>3. DecoderOK(r.d) /\ r.d.state = "Synced"
    BY <2>1, Dropped
  <2> HIDE DEF r
  <2>4. m_decoder'.state = "Synced" /\ m_decoder'.written = 0
    BY <1>1, <2>2, <2>3, PreparedEmpty
  <2> QED BY <1>1, <2>4 DEF FrameOK
<1>4. CASE m_decoder.state # "Decoding"
  <2>1. r.event = "None" /\ r.d.state = "Synced" /\ r.d.written = m_decoder.written
    BY <1>1, <1>2, <1>4, ZeroByte
  <2>2. m_decoder.written = 0
    BY <1>1, <1>4, OpenFacts, StageFacts DEF FrameOK
  <2>3. m_decoder' = r.d
    BY <1>1, <2>1 DEF Handled, Absorb, Malformed, AttachHeader, RefuseBody, Overrun, beginBody,
                      BodyBegins, LoseComplete, PublishBody, RefuseNothing, PublishNothing
  <2> HIDE DEF r
  <2> QED BY <1>1, <2>1, <2>2, <2>3 DEF FrameOK
<1> QED BY <1>3, <1>4

\* What the delimiter finds.
LEMMA FrameHeard ==
    ASSUME RInv, FrameOK, phase = "open", m_decoder.state = "Decoding"
    PROVE  LET out == Decoded(chunk)
               h == length_size(Format)
           IN  /\ out \in Seq(Byte) /\ Len(out) \in Nat /\ Heard(out)
               /\ WellFormed(chunk) <=> ~(m_decoder.blockRemaining > 0)
               /\ m_decoder.decodedBefore + m_decoder.written = Len(out)
               /\ m_stage = "Body" =>
                     /\ Len(out) > h /\ Len(out) - h <= declared /\ CanHold(declared)
                     /\ size[m_building] = declared /\ payload[m_building] = BodyIn(out)
               /\ m_stage # "Body" => Len(out) <= h
<1> DEFINE d == m_decoder
           h == length_size(Format)
<1>1. /\ DecoderOK(d) /\ d.written \in Nat /\ d.blockRemaining \in Nat /\ h \in Nat
      /\ Format \in Formats /\ m_stage \in {"Header", "Body"} /\ Ranges
  BY OpenFacts, StageFacts DEF RInv, Reception
<1>2. chunk \in Seq(1 .. FullCode) /\ \E out : Hears(out)
  BY DEF FrameOK
<1>3. PICK out : Hears(out)
  BY <1>2
<1>4. Tracks(chunk, d.blockRemaining, d.pendingZero, out) /\ Heard(out)
  BY <1>3 DEF Hears
<1>5. out \in Seq(Byte) /\ Decoded(chunk) = out /\ (WellFormed(chunk) <=> d.blockRemaining = 0)
  BY <1>1, <1>2, <1>4, TracksMeaning
<1>6. Len(out) \in Nat /\ (d.blockRemaining = 0 <=> ~(d.blockRemaining > 0))
  BY <1>1, <1>5
<1>7. CASE m_stage = "Header"
  <2>1. d.written = Len(out) /\ d.decodedBefore = 0 /\ d.output = LengthSegment
    BY <1>3, <1>7, StageFacts DEF Hears, ReadsLength
  <2>2. Len(out) <= h
    BY <1>1, <2>1, FormatFacts DEF DecoderOK
  <2> QED BY <1>4, <1>5, <1>6, <1>7, <2>1, <2>2
<1>8. CASE m_stage = "Body"
  <2>1. /\ Len(out) > h /\ CanHold(declared) /\ size[m_building] = declared
        /\ payload[m_building] = BodyIn(out)
    BY <1>3, <1>8 DEF Hears
  <2>2. /\ d.written = Len(payload[m_building]) /\ d.decodedBefore = h
        /\ d.output.size = size[m_building]
    BY <1>8, StageFacts DEF ReadsBody, BlockSegment
  <2>3. Len(out) >= h
    BY <1>1, <1>6, <2>1
  <2>4. Len(BodyIn(out)) = Len(out) - h
    BY <1>1, <1>5, <2>3, BodyLength
  <2>5. Len(out) - h <= declared /\ h + (Len(out) - h) = Len(out)
    BY <1>1, <1>6, <2>1, <2>2, <2>4 DEF DecoderOK
  <2> QED BY <1>4, <1>5, <1>6, <1>8, <2>1, <2>2, <2>4, <2>5
<1> QED BY <1>1, <1>7, <1>8

\* A frame that never began a body, as its end finds it.
LEMMA JudgedHeader ==
    ASSUME RInv, FrameOK, phase = "open", m_decoder.state = "Decoding", m_stage # "Body"
    PROVE  LET n == m_decoder.decodedBefore + m_decoder.written
           IN  /\ m_decoder.blockRemaining > 0 => Verdict(chunk, FALSE) = Lost("malformed", FALSE)
               /\ ~(m_decoder.blockRemaining > 0) =>
                     /\ BareHeader(n) # "fine" =>
                           /\ BareHeader(n) # "allocation_failure" /\ BareHeader(n) # "frames_received"
                           /\ Verdict(chunk, FALSE) = Lost(BareHeader(n), FALSE)
                     /\ BareHeader(n) = "fine" =>
                           /\ Verdict(chunk, FALSE) = {"frames_received"}
                           /\ Verdict(chunk, TRUE) = Lost("allocation_failure", FALSE)
                           /\ BodyOf(chunk) = <<>>
<1> DEFINE out == Decoded(chunk)
           h == length_size(Format)
           says == Says(out)
           top == max_receive_body(Format)
           wf == WellFormed(chunk)
           crc == Format.crc_size
           n == m_decoder.decodedBefore + m_decoder.written
<1>1. /\ out \in Seq(Byte) /\ Len(out) \in Nat /\ Heard(out) /\ Len(out) <= h /\ n = Len(out)
      /\ wf <=> ~(m_decoder.blockRemaining > 0)
  BY FrameHeard
<1>2. h \in Nat /\ top \in Nat /\ crc \in Nat /\ Format \in Formats
  BY OpenFacts
<1>3. Len(out) >= h => declared = says /\ says \in Nat
  BY <1>1, <1>2, HeardSays, SaysNat
<1>4. \A refused \in BOOLEAN :
        Verdict(chunk, refused) =
            IF ~wf THEN Lost("malformed", FALSE)
            ELSE IF Len(out) < h THEN Lost("length_mismatch", FALSE)
            ELSE IF says > top THEN Lost("oversize", FALSE)
            ELSE IF says > 0 \/ crc > 0 THEN Lost("length_mismatch", FALSE)
            ELSE IF refused THEN Lost("allocation_failure", FALSE)
            ELSE {"frames_received"}
  BY <1>1, <1>2, Verdicts
<1>5. crc = 0 => verify(<<>>)
  <2>1. Len(<<>>) - 0 = 0 /\ 0 >= 0 /\ 0 + 1 = 1 /\ Len(<<>>) = 0 /\ SubSeq(<<>>, 1, 0) = <<>>
    BY SubSeqEmpty
  <2> QED BY <2>1, ReceiverAssumption DEF verify
<1>6. BareHeader(n) =
        IF Len(out) < h THEN "length_mismatch"
        ELSE IF says > top THEN "oversize"
        ELSE IF says > 0 \/ crc > 0 THEN "length_mismatch"
        ELSE "fine"
  <2> HIDE DEF out, says, top, crc, n, h
  <2>1. CASE Len(out) < h
    BY <1>1, <1>2, <2>1 DEF BareHeader, h
  <2>2. CASE ~(Len(out) < h) /\ says > top
    BY <1>1, <1>2, <1>3, <2>2 DEF BareHeader, h, top
  <2>3. CASE ~(Len(out) < h) /\ ~(says > top) /\ (says > 0 \/ crc > 0)
    BY <1>1, <1>2, <1>3, <2>3 DEF BareHeader, h, top, crc
  <2>4. CASE ~(Len(out) < h) /\ ~(says > top) /\ ~(says > 0 \/ crc > 0)
    BY <1>1, <1>2, <1>3, <1>5, <2>4 DEF BareHeader, h, top, crc
  <2> QED BY <2>1, <2>2, <2>3, <2>4
<1>7. BareHeader(n) = "fine" => BodyOf(chunk) = <<>>
  <2>1. BareHeader(n) = "fine" => Len(out) = h /\ crc = 0
    BY <1>1, <1>2, <1>6
  <2>2. Len(out) = h /\ crc = 0 => SubSeq(out, h + 1, Len(out) - crc) = <<>>
    <3>1. ASSUME NEW k \in Nat
          PROVE  SubSeq(out, k + 1, k) = <<>>
      BY <3>1, SubSeqEmpty
    <3>2. Len(out) = h /\ crc = 0 => Len(out) - crc = h
      BY <1>2
    <3> HIDE DEF out, h, crc
    <3> QED BY <1>2, <3>1, <3>2
  <2> QED BY <2>1, <2>2 DEF BodyOf
<1>8. TRUE \in BOOLEAN /\ FALSE \in BOOLEAN
  OBVIOUS
<1> HIDE DEF out, h, says, top, wf, crc, n
<1>9. ~wf => Verdict(chunk, FALSE) = Lost("malformed", FALSE)
  BY <1>4
<1>10. wf /\ BareHeader(n) # "fine" => Verdict(chunk, FALSE) = Lost(BareHeader(n), FALSE)
  BY <1>4, <1>6
<1>11. wf /\ BareHeader(n) = "fine" =>
         /\ Verdict(chunk, FALSE) = {"frames_received"}
         /\ Verdict(chunk, TRUE) = Lost("allocation_failure", FALSE)
  BY <1>4, <1>6
<1>12. BareHeader(n) # "allocation_failure" /\ BareHeader(n) # "frames_received"
  BY <1>6
<1> QED BY <1>1, <1>7, <1>9, <1>10, <1>11, <1>12 DEF n

\* A frame whose body was read, as its end finds it.
LEMMA JudgedBody ==
    ASSUME RInv, FrameOK, phase = "open", m_decoder.state = "Decoding", m_stage = "Body"
    PROVE  LET n == m_decoder.decodedBefore + m_decoder.written
           IN  /\ m_decoder.blockRemaining > 0 => Verdict(chunk, FALSE) = Lost("malformed", FALSE)
               /\ ~(m_decoder.blockRemaining > 0) =>
                     /\ WholeBody(n) # "fine" =>
                           /\ WholeBody(n) # "allocation_failure" /\ WholeBody(n) # "frames_received"
                           /\ Verdict(chunk, FALSE) = Lost(WholeBody(n), FALSE)
                     /\ WholeBody(n) = "fine" => Verdict(chunk, FALSE) = {"frames_received"}
<1> DEFINE out == Decoded(chunk)
           h == length_size(Format)
           says == Says(out)
           wf == WellFormed(chunk)
           body == BodyIn(out)
           n == m_decoder.decodedBefore + m_decoder.written
<1>1. /\ out \in Seq(Byte) /\ Len(out) \in Nat /\ Heard(out) /\ n = Len(out)
      /\ wf <=> ~(m_decoder.blockRemaining > 0)
      /\ Len(out) > h /\ Len(out) - h <= declared /\ CanHold(declared)
      /\ size[m_building] = declared /\ payload[m_building] = body
  BY FrameHeard
<1>2. h \in Nat /\ Format \in Formats
  BY OpenFacts
<1>3. declared = says /\ says \in Nat
  <2>1. Len(out) >= h
    BY <1>1, <1>2
  <2> QED BY <1>1, <1>2, <2>1, HeardSays, SaysNat
<1>4. Verdict(chunk, FALSE) =
        IF ~wf THEN Lost("malformed", FALSE)
        ELSE IF Len(out) - h < says THEN Lost("length_mismatch", FALSE)
        ELSE IF ~verify(body) THEN Lost("crc_errors", FALSE)
        ELSE {"frames_received"}
  <2>1. FALSE \in BOOLEAN /\ CanHold(says) /\ Len(out) - h <= says
    BY <1>1, <1>3
  <2> QED BY <1>1, <1>2, <2>1, Verdicts
<1> HIDE DEF out, h, says, wf, body, n
<1>5. WholeBody(n) = IF Len(out) - h < says THEN "length_mismatch"
                     ELSE IF ~verify(body) THEN "crc_errors" ELSE "fine"
  <2>1. Len(out) - h < says <=> n - h # size[m_building]
    BY <1>1, <1>2, <1>3
  <2> QED BY <1>1, <2>1 DEF WholeBody, h
<1> QED BY <1>1, <1>4, <1>5 DEF n

\* The part of the body that is the packet.
LEMMA BodyKept ==
    ASSUME Format \in Formats, NEW w, Decoded(w) \in Seq(Byte),
           Len(Decoded(w)) >= length_size(Format), verify(BodyIn(Decoded(w)))
    PROVE  SubSeq(BodyIn(Decoded(w)), 1, Len(Decoded(w)) - length_size(Format) - Format.crc_size)
               = BodyOf(w)
<1> DEFINE out == Decoded(w)
           h == length_size(Format)
           crc == Format.crc_size
           body == BodyIn(out)
           m == Len(out) - h - crc
           x == SubSeq(body, 1, m)
           y == SubSeq(out, h + 1, Len(out) - crc)
<1>1. h \in Nat /\ crc \in Nat /\ Len(out) \in Nat /\ out \in Seq(Byte) /\ Len(out) >= h
  BY FormatFacts
<1>2. /\ body \in Seq(Byte) /\ Len(body) = Len(out) - h
      /\ \A k \in 1 .. Len(out) - h : body[k] = out[h + k]
  BY BodyLength
<1>3. Len(body) - crc >= 0
  BY DEF verify
<1> HIDE DEF out, h, crc, body
<1>4. /\ m \in Nat /\ m = Len(body) - crc /\ m <= Len(body) /\ m + 1 \in Nat /\ 1 <= m + 1
      /\ (m + 1) - 1 = m /\ (m + 1) + (h + 1) - 1 = Len(out) - crc + 1
      /\ h + 1 \in Nat /\ Len(out) - crc + 1 \in Nat /\ h + 1 <= Len(out) - crc + 1
      /\ (Len(out) - crc + 1) - 1 = Len(out) - crc /\ (Len(out) - crc + 1) - (h + 1) = m
      /\ \A k \in 1 .. m : /\ k \in 1 .. Len(out) - h /\ 1 + k - 1 = k /\ h + 1 + k - 1 = h + k
      /\ \A k \in 1 .. m : k \in 1 .. Len(body)
      /\ \A k \in h + 1 .. Len(out) - crc : k \in 1 .. Len(out)
  BY <1>1, <1>2, <1>3
<1> HIDE DEF m
<1> DEFINE b == m + 1
           e == Len(out) - crc + 1
<1>5. x \in Seq(Byte) /\ Len(x) = m /\ \A k \in 1 .. m : x[k] = body[k]
  <2>0. b \in Nat /\ 1 \in Nat /\ 1 <= b /\ b - 1 = m
    BY <1>4
  <2>1. \A k \in 1 .. b - 1 : body[k] \in Byte
    BY <1>2, <1>4, <2>0
  <2> HIDE DEF b
  <2>2. /\ SubSeq(body, 1, b - 1) \in Seq(Byte) /\ Len(SubSeq(body, 1, b - 1)) = b - 1
        /\ \A k \in 1 .. b - 1 : SubSeq(body, 1, b - 1)[k] = body[1 + k - 1]
    BY <2>0, <2>1, Slice
  <2> QED BY <1>4, <2>0, <2>2
<1>6. y \in Seq(Byte) /\ Len(y) = m /\ \A k \in 1 .. m : y[k] = out[h + 1 + k - 1]
  <2>0. e \in Nat /\ h + 1 \in Nat /\ h + 1 <= e /\ e - 1 = Len(out) - crc /\ e - (h + 1) = m
    BY <1>4
  <2>1. \A k \in h + 1 .. e - 1 : out[k] \in Byte
    BY <1>1, <1>4, <2>0
  <2> HIDE DEF e
  <2>2. /\ SubSeq(out, h + 1, e - 1) \in Seq(Byte)
        /\ Len(SubSeq(out, h + 1, e - 1)) = e - (h + 1)
        /\ \A k \in 1 .. e - (h + 1) : SubSeq(out, h + 1, e - 1)[k] = out[h + 1 + k - 1]
    BY <2>0, <2>1, Slice
  <2> QED BY <2>0, <2>2
<1> HIDE DEF x, y
<1>7. \A k \in 1 .. m : x[k] = y[k]
  BY <1>2, <1>4, <1>5, <1>6
<1>8. x = y
  BY <1>4, <1>5, <1>6, <1>7, SeqEqual
<1> QED BY <1>8 DEF x, y, m, body, crc, h, out, BodyOf

\* A published block joins the end of the inbox.
LEMMA Delivered ==
    ASSUME RInv, RInv', Kept, NEW c \in Blocks, queue' = Append(queue, c)
    PROVE  inbox' = Append(inbox, Content(c)')
<1>1. queue \in Seq(Blocks) /\ Len(queue) \in Nat
  BY SeenNext
<1>2. \A k \in 1 .. Len(queue) : queue[k] \in Queued /\ queue[k] \in Queued' /\ queue[k] \in Blocks
  <2> SUFFICES ASSUME NEW k \in 1 .. Len(queue)
               PROVE  queue[k] \in Queued' /\ queue[k] \in Queued /\ queue[k] \in Blocks
    OBVIOUS
  <2>1. k \in DOMAIN queue' /\ queue'[k] = queue[k] /\ queue[k] \in Blocks
    BY <1>1
  <2> QED BY <2>1, SeenNext DEF Queued
<1>3. \A k \in 1 .. Len(queue) : Bodies'[queue[k]] = Bodies[queue[k]]
  BY <1>2, SeenKept
<1>4. Bodies'[c] = Content(c)'
  BY DEF Bodies
<1>5. PICK f, g : f = Bodies /\ g = Bodies'
  OBVIOUS
<1> DEFINE F == {f[b] : b \in Blocks}
           G == {g[b] : b \in Blocks}
           S == F \union G
           q == queue
           a == Append(q, c)
           m == Mapped(q, f)
           o == Mapped(a, g)
           t == Append(m, g[c])
<1>6. inbox = m /\ inbox' = o
  BY <1>5, SeenNext
<1>7. /\ a \in Seq(Blocks) /\ Len(a) = Len(q) + 1 /\ a[Len(q) + 1] = c
      /\ \A k \in 1 .. Len(q) : a[k] = q[k]
  BY <1>1
<1> HIDE DEF a
<1>8. m \in Seq(S) /\ Len(m) = Len(q) /\ \A k \in 1 .. Len(q) : m[k] = f[q[k]]
  <2>1. m \in Seq(F) /\ Len(m) = Len(q) /\ \A k \in 1 .. Len(q) : m[k] = f[q[k]]
    BY <1>1, MappedSeq
  <2> HIDE DEF F, G, m
  <2> QED BY <2>1
<1>9. o \in Seq(S) /\ Len(o) = Len(a) /\ \A k \in 1 .. Len(a) : o[k] = g[a[k]]
  <2>1. o \in Seq(G) /\ Len(o) = Len(a) /\ \A k \in 1 .. Len(a) : o[k] = g[a[k]]
    BY <1>7, MappedSeq
  <2> HIDE DEF F, G, o
  <2> QED BY <2>1
<1>10. g[c] \in S /\ \A k \in 1 .. Len(q) : g[q[k]] = f[q[k]]
  BY <1>3, <1>5
<1> HIDE DEF S, m, o
<1>11. /\ t \in Seq(S) /\ Len(t) = Len(q) + 1 /\ t[Len(q) + 1] = g[c]
       /\ \A k \in 1 .. Len(q) : t[k] = m[k]
  BY <1>8, <1>10
<1> HIDE DEF t
<1>12. \A k \in 1 .. Len(o) : o[k] = t[k]
  <2> SUFFICES ASSUME NEW k \in 1 .. Len(q) + 1 PROVE o[k] = t[k]
    BY <1>7, <1>9
  <2>1. CASE k = Len(q) + 1
    BY <1>1, <1>7, <1>9, <1>11, <2>1
  <2>2. CASE k # Len(q) + 1
    <3>1. k \in 1 .. Len(q) /\ k \in 1 .. Len(a)
      BY <1>1, <1>7, <2>2
    <3> QED BY <1>7, <1>8, <1>9, <1>10, <1>11, <3>1
  <2> QED BY <2>1, <2>2
<1>13. o = t
  BY <1>7, <1>9, <1>11, <1>12, SeqEqual
<1> QED BY <1>4, <1>5, <1>6, <1>13 DEF t

\* The frame counted what it deserves, and was delivered if it deserves that.
Rules(refused) ==
    LET moved == Verdict(chunk, refused)
    IN  /\ m_stats' = Bump(NoCounts, moved)
        /\ inbox' = IF "frames_received" \in moved THEN Append(inbox, BodyOf(chunk)) ELSE inbox

LEMMA Ruling ==
    ASSUME NEW moved, NEW refused \in BOOLEAN, Verdict(chunk, refused) = moved,
           refused <=> "allocation_failure" \in moved,
           m_stats' = Bump(NoCounts, moved),
           inbox' = IF "frames_received" \in moved THEN Append(inbox, BodyOf(chunk)) ELSE inbox
    PROVE  Rules(m_stats'["allocation_failure"] > 0)
<1> DEFINE counted == m_stats'["allocation_failure"] > 0
<1>1. m_stats'["allocation_failure"] = IF "allocation_failure" \in moved THEN 1 ELSE 0
  BY Counting
<1>2. counted <=> refused
  BY <1>1
<1>3. Rules(refused)
  BY DEF Rules
<1> HIDE DEF counted
<1>4. CASE refused
  <2>1. counted = TRUE /\ refused = TRUE
    BY <1>2, <1>4, Zenon
  <2> QED BY <1>3, <2>1, Zenon DEF counted
<1>5. CASE ~refused
  <2>1. counted = refused
    BY <1>2, Zenon
  <2> QED BY <1>3, <2>1, Zenon DEF counted
<1> QED BY <1>4, <1>5

\* A frame given up before its delimiter.
LEMMA DroppedVerdict ==
    ASSUME RInv, RInv', Kept, FrameInv, UNCHANGED Format, Consume(0),
           m_decoder.state = "DropUntilDelimiter"
    PROVE  /\ gaps = 0 => Rules(m_stats'["allocation_failure"] > 0)
           /\ gaps > 0 => /\ m_stats'["frames_received"] = 0 /\ m_stats'["frames_lost"] >= gaps
                          /\ inbox' = inbox
           /\ queue' = queue
<1> DEFINE r == consume(m_decoder, 0)
<1>1. phase = "open" /\ FrameOK /\ Handled(r, 0)
  BY DEF Consume, FrameInv
<1>2. r.event = "None"
  BY <1>1, OpenFacts, ZeroByte
<1>3. Absorb(r)
  BY <1>1, <1>2, Zenon DEF Handled, Malformed, AttachHeader, RefuseBody, Overrun, beginBody,
                    BodyBegins, LoseComplete, PublishBody, RefuseNothing, PublishNothing
<1>4. m_stats' = m_stats /\ queue' = queue
  BY <1>1, <1>3, OpenFacts, Counting DEF Absorb, Counted, FrameCounts, packets, lists
<1>5. inbox' = inbox
  BY <1>4, InboxKept
<1>6. CASE gaps > 0 /\ m_stats["frames_received"] = 0 /\ m_stats["frames_lost"] >= gaps
  <2>1. gaps # 0
    BY <1>1, <1>6 DEF FrameOK
  <2> QED BY <1>4, <1>5, <1>6, <2>1
<1>7. CASE gaps = 0 /\ chunk # <<>> /\ Hopeless
  <2>1. PICK cause, out :
          /\ m_stats = Bump(NoCounts, Lost(cause, TRUE))
          /\ StandsFor(chunk, out) /\ Doomed(cause, out)
    BY <1>7 DEF Hopeless
  <2>2. chunk \in Seq(1 .. FullCode)
    BY <1>1 DEF FrameOK
  <2>3. out \in Seq(Byte) /\ Decoded(chunk) = out
    BY <2>1, <2>2, TracksMeaning DEF StandsFor
  <2>4. PICK refused \in BOOLEAN : refused <=> cause = "allocation_failure"
    OBVIOUS
  <2>5. Verdict(chunk, refused) = Lost(cause, TRUE)
    BY <1>1, <2>1, <2>3, <2>4, OpenFacts, Verdicts
  <2>6. PICK moved : moved = Lost(cause, TRUE)
    OBVIOUS
  <2>7. ("allocation_failure" \in moved <=> cause = "allocation_failure")
        /\ "frames_received" \notin moved
    BY <2>1, <2>6 DEF Lost, Doomed
  <2>8. m_stats' = Bump(NoCounts, moved) /\ Verdict(chunk, refused) = moved
    BY <1>4, <2>1, <2>5, <2>6
  <2>9. Rules(m_stats'["allocation_failure"] > 0)
    BY <1>5, <2>4, <2>7, <2>8, Ruling
  <2> QED BY <1>4, <1>7, <2>9
<1> QED BY <1>1, <1>6, <1>7 DEF FrameOK

\* A frame that its delimiter loses.
LEMMA LostVerdict ==
    ASSUME RInv, RInv', Kept, NEW d, NEW cause, NEW refused \in BOOLEAN,
           endFrame(d, {cause}), FrameCounts = NoCounts,
           Verdict(chunk, refused) = Lost(cause, FALSE),
           cause # "frames_received", refused <=> cause = "allocation_failure"
    PROVE  Rules(m_stats'["allocation_failure"] > 0) /\ queue' = queue
<1>1. queue' = queue
  BY DEF endFrame, ReleaseBuilding, lists
<1>2. inbox' = inbox
  BY <1>1, InboxKept
<1>3. PICK moved : moved = Lost(cause, FALSE)
  OBVIOUS
<1>4. {cause} \union {"frames_lost"} = moved /\ "frames_received" \notin moved
      /\ ("allocation_failure" \in moved <=> cause = "allocation_failure")
  BY <1>3 DEF Lost
<1>5. m_stats' = Bump(NoCounts, moved)
  BY <1>4 DEF endFrame, Counted
<1>6. Rules(m_stats'["allocation_failure"] > 0)
  BY <1>2, <1>3, <1>4, <1>5, Ruling
<1> QED BY <1>1, <1>6

\* A frame that is delivered.
LEMMA ReceivedVerdict ==
    ASSUME RInv, RInv', Kept, NEW r, NEW c \in Blocks, NEW n,
           Published(r, c, n), queue' = Append(queue, c), FrameCounts = NoCounts,
           Verdict(chunk, FALSE) = {"frames_received"},
           Content(c)' = BodyOf(chunk)
    PROVE  Rules(m_stats'["allocation_failure"] > 0)
<1>1. inbox' = Append(inbox, BodyOf(chunk))
  BY Delivered
<1>2. PICK moved : moved = {"frames_received"}
  OBVIOUS
<1>3. m_stats' = Bump(NoCounts, moved) /\ "allocation_failure" \notin moved
      /\ "frames_received" \in moved /\ FALSE \in BOOLEAN
  BY <1>2 DEF Published, Counted
<1> QED BY <1>1, <1>2, <1>3, Ruling

LEMMA DecodedVerdict ==
    ASSUME RInv, RInv', Kept, FrameInv, UNCHANGED Format, Consume(0),
           m_decoder.state = "Decoding"
    PROVE  gaps = 0 /\ chunk # <<>> /\ Rules(m_stats'["allocation_failure"] > 0)
<1> DEFINE d == m_decoder
           r == consume(d, 0)
           n == d.decodedBefore + d.written
           h == length_size(Format)
<1>1. /\ phase = "open" /\ FrameOK /\ Handled(r, 0) /\ gaps = 0 /\ chunk # <<>>
      /\ FrameCounts = NoCounts
  BY DEF Consume, FrameInv, FrameOK, FrameCounts
<1>2. /\ DecoderOK(d) /\ d.hasOutput /\ Format \in Formats /\ live \in SUBSET Blocks
      /\ size \in [Blocks -> 0 .. max_receive_body(Format)]
      /\ payload \in [Blocks -> Seq(Byte)] /\ h \in Nat
      /\ (m_building \in Blocks => m_building \in live) /\ m_stage \in {"Header", "Body"}
  BY <1>1, OpenFacts, StageFacts
<1>3. CASE d.blockRemaining > 0
  <2>1. r.event = "Malformed"
    BY <1>2, <1>3, ZeroByte
  <2>2. endFrame(r.d, {"malformed"})
    BY <1>1, <2>1, Zenon DEF Handled, Absorb, Malformed, AttachHeader, RefuseBody, Overrun, beginBody,
                      BodyBegins, LoseComplete, PublishBody, RefuseNothing, PublishNothing
  <2>3. Verdict(chunk, FALSE) = Lost("malformed", FALSE)
    BY <1>1, <1>3, JudgedHeader, JudgedBody
  <2> HIDE DEF r
  <2>4. Rules(m_stats'["allocation_failure"] > 0)
    <3>1. PICK cause : cause = "malformed"
      OBVIOUS
    <3>2. cause # "frames_received" /\ cause # "allocation_failure" /\ FALSE \in BOOLEAN
      BY <3>1
    <3>3. endFrame(r.d, {cause}) /\ Verdict(chunk, FALSE) = Lost(cause, FALSE)
      BY <2>2, <2>3, <3>1
    <3> QED BY <1>1, <3>2, <3>3, LostVerdict
  <2> QED BY <1>1, <2>4
<1>4. CASE ~(d.blockRemaining > 0)
  <2>1. r.event = "FrameComplete" /\ r.size = n
    BY <1>2, <1>4, ZeroByte
  <2>2. \/ LoseComplete(r) \/ PublishBody(r) \/ RefuseNothing(r)
        \/ \E c \in Blocks : PublishNothing(r, c)
    BY <1>1, <2>1, Zenon DEF Handled, Absorb, Malformed, AttachHeader, RefuseBody, Overrun, beginBody,
                      BodyBegins
  <2>3. m_stage = "Body" =>
          /\ WholeBody(n) # "fine" =>
                /\ WholeBody(n) # "allocation_failure" /\ WholeBody(n) # "frames_received"
                /\ Verdict(chunk, FALSE) = Lost(WholeBody(n), FALSE)
          /\ WholeBody(n) = "fine" => Verdict(chunk, FALSE) = {"frames_received"}
    BY <1>1, <1>4, JudgedBody
  <2>4. m_stage # "Body" =>
          /\ BareHeader(n) # "fine" =>
                /\ BareHeader(n) # "allocation_failure" /\ BareHeader(n) # "frames_received"
                /\ Verdict(chunk, FALSE) = Lost(BareHeader(n), FALSE)
          /\ BareHeader(n) = "fine" =>
                /\ Verdict(chunk, FALSE) = {"frames_received"}
                /\ Verdict(chunk, TRUE) = Lost("allocation_failure", FALSE)
                /\ BodyOf(chunk) = <<>>
    BY <1>1, <1>4, JudgedHeader
  <2> DEFINE out == Decoded(chunk)
  <2>5. n = Len(out) /\ out \in Seq(Byte) /\ Len(out) \in Nat
        /\ (m_stage = "Body" => Len(out) > h /\ payload[m_building] = BodyIn(out))
    BY <1>1, FrameHeard
  <2> HIDE DEF r, n, out
  <2>6. ASSUME LoseComplete(r)
        PROVE  Rules(m_stats'["allocation_failure"] > 0)
    <3>1. PICK cause : cause = Judgement(n)
      OBVIOUS
    <3>2. cause # "fine" /\ endFrame(r.d, {cause})
      BY <2>1, <2>6, <3>1 DEF LoseComplete
    <3>3. /\ Verdict(chunk, FALSE) = Lost(cause, FALSE)
          /\ cause # "allocation_failure" /\ cause # "frames_received"
      BY <2>3, <2>4, <3>1, <3>2 DEF Judgement
    <3> QED BY <1>1, <3>2, <3>3, LostVerdict
  <2>7. ASSUME RefuseNothing(r)
        PROVE  Rules(m_stats'["allocation_failure"] > 0)
    <3>1. endFrame(r.d, {"allocation_failure"}) /\ Verdict(chunk, TRUE) = Lost("allocation_failure", FALSE)
      BY <2>1, <2>4, <2>7 DEF RefuseNothing
    <3> QED BY <1>1, <3>1, LostVerdict
  <2>8. ASSUME NEW c \in Blocks, PublishNothing(r, c)
        PROVE  Rules(m_stats'["allocation_failure"] > 0)
    <3>1. /\ Published(r, c, 0) /\ queue' = Append(queue, c) /\ c \in live'
          /\ Verdict(chunk, FALSE) = {"frames_received"} /\ BodyOf(chunk) = <<>>
      BY <2>1, <2>4, <2>8 DEF PublishNothing, PublishEmpty, Enqueue
    <3>2. size'[c] = 0
      BY <1>2, <3>1 DEF Published, Contents
    <3>3. Content(c)' = <<>>
      BY <3>2, SubSeqEmpty DEF Content
    <3> QED BY <1>1, <3>1, <3>3, ReceivedVerdict
  <2>9. ASSUME PublishBody(r)
        PROVE  Rules(m_stats'["allocation_failure"] > 0)
    <3>1. PICK c, k : c = m_building /\ k = n - h - Format.crc_size
      OBVIOUS
    <3>2. /\ Published(r, c, k) /\ queue' = Append(queue, c) /\ live' = live
          /\ m_stage = "Body" /\ WholeBody(n) = "fine"
      BY <2>1, <2>9, <3>1 DEF PublishBody, Publish, Enqueue
    <3>3. Verdict(chunk, FALSE) = {"frames_received"}
      BY <2>3, <3>2
    <3>4. c \in Blocks /\ c \in live'
      BY <1>1, <1>2, <3>1, <3>2, StageFacts DEF ReadsBody
    <3>5. size'[c] = k /\ payload'[c] = payload[c]
      BY <1>2, <3>2, <3>4 DEF Published, Contents
    <3>6. verify(BodyIn(out)) /\ payload[c] = BodyIn(out)
      BY <2>5, <3>1, <3>2 DEF WholeBody
    <3>7. SubSeq(BodyIn(out), 1, k) = BodyOf(chunk)
      <4>1. Len(out) >= h
        BY <1>2, <2>5, <3>2
      <4> QED BY <1>2, <2>5, <3>1, <3>6, <4>1, BodyKept DEF out
    <3>8. Content(c)' = BodyOf(chunk)
      BY <3>5, <3>6, <3>7 DEF Content
    <3> QED BY <1>1, <3>2, <3>3, <3>4, <3>8, ReceivedVerdict
  <2> QED BY <1>1, <2>2, <2>6, <2>7, <2>8, <2>9
<1> QED BY <1>3, <1>4

\* What one step does to the frame under way.
LEMMA FrameStep ==
    ASSUME RInv, RInv', Kept, FrameInv, [ReceiverNext]_vars
    PROVE  /\ FrameInv'
           /\ Delimited /\ gaps = 0 => Rules(m_stats'["allocation_failure"] > 0)
           /\ Delimited /\ gaps > 0 =>
                /\ m_stats'["frames_received"] = 0 /\ m_stats'["frames_lost"] >= gaps
                /\ inbox' = inbox
           /\ Len(queue') > Len(queue) => Delimited
<1>1. Len(queue) \in Nat /\ queue \in Seq(Blocks)
  BY SeenNext
<1>2. ASSUME NEW b \in Byte, Consume(b), UNCHANGED Format, b # 0
      PROVE  FrameInv' /\ ~Delimited /\ ~(Len(queue') > Len(queue))
  <2>1. b \in 1 .. FullCode
    BY <1>2, ByteFacts DEF Byte
  <2>2. FrameOK' /\ chunk' # <<>> /\ queue' = queue
    BY <1>2, <2>1, ByteFrameStep
  <2> QED BY <1>1, <2>2 DEF FrameInv, Delimited
<1>3. CASE gap /\ UNCHANGED Format
  <2>1. FrameOK' /\ chunk' = chunk /\ queue' = queue
    BY <1>3, GapFrameStep
  <2> QED BY <1>1, <2>1 DEF FrameInv, Delimited
<1>4. CASE Elsewhere /\ UNCHANGED Format
  <2>1. FrameInv' /\ chunk' = chunk
    BY <1>4, ElsewhereFrame DEF history
  <2>2. ~(Len(queue') > Len(queue))
    BY <1>1, <1>4, ElsewhereQueue
  <2> QED BY <2>1, <2>2 DEF Delimited
<1>5. CASE UNCHANGED vars
  <2>1. /\ UNCHANGED <<Format, m_decoder, m_lengthBytes, m_stage, m_stats, chunk, gaps, m_building>>
        /\ size' = size /\ payload' = payload /\ phase' = phase /\ queue' = queue
    BY <1>5 DEF vars, packets, contents, history, lists
  <2>2. FrameInv'
    BY <2>1, UntouchedFrame DEF FrameInv
  <2> QED BY <1>1, <2>1, <2>2 DEF Delimited
<1>6. CASE Consume(0) /\ UNCHANGED Format
  <2>1. FrameOK' /\ chunk' = <<>> /\ phase = "open" /\ FrameOK
    BY <1>6, DelimiterFrame DEF Consume, FrameInv
  <2>2. CASE m_decoder.state = "Decoding"
    BY <1>6, <2>1, <2>2, DecodedVerdict DEF Delimited, FrameInv
  <2>3. CASE m_decoder.state = "DropUntilDelimiter"
    BY <1>1, <1>6, <2>1, <2>3, DroppedVerdict DEF FrameInv
  <2>4. CASE m_decoder.state = "Synced"
    <3>1. ~Delimited
      BY <2>1, <2>4 DEF FrameOK, Delimited
    <3>2. queue' = queue
      <4>1. consume(m_decoder, 0).event = "None"
        BY <2>1, <2>4, OpenFacts, ZeroByte
      <4> QED BY <1>6, <4>1, Zenon DEF Consume, Handled, Absorb, Malformed, AttachHeader, RefuseBody, Overrun,
                   beginBody, BodyBegins, LoseComplete, PublishBody, RefuseNothing, PublishNothing,
                   packets, lists
    <3> QED BY <1>1, <2>1, <3>1, <3>2 DEF FrameInv
  <2> QED BY <2>1, <2>2, <2>3, <2>4, OpenFacts
<1> QED BY <1>2, <1>3, <1>4, <1>5, <1>6 DEF ReceiverNext

\* Every frame is accounted for at its delimiter and as its bytes deserve: the
\* receiver, which sees one byte at a time and keeps no frame, counts and delivers
\* what Verdict says of the whole frame and the reference decoder of its bytes.
THEOREM ReceiverFrameVerdict == ReceiverSpec => FrameVerdict
<1>1. ReceiverInit => FrameInv
  BY FrameInit
<1>2. RInv /\ RInv' /\ FrameInv /\ [ReceiverNext]_vars => FrameInv'
  BY RInvStep, FrameStep
<1>3. RInv /\ RInv' /\ FrameInv /\ [ReceiverNext]_vars =>
        [/\ Delimited /\ gaps = 0 =>
              LET moved == Verdict(chunk, m_stats'["allocation_failure"] > 0)
              IN  /\ m_stats' = Bump(NoCounts, moved)
                  /\ inbox' = IF "frames_received" \in moved THEN Append(inbox, BodyOf(chunk))
                                                             ELSE inbox
         /\ Delimited /\ gaps > 0 =>
              /\ m_stats'["frames_received"] = 0 /\ m_stats'["frames_lost"] >= gaps
              /\ inbox' = inbox
         /\ Len(queue') > Len(queue) => Delimited]_vars
  BY RInvStep, FrameStep DEF Rules
<1>4. ReceiverSpec => []FrameInv
  BY <1>1, <1>2, ReceiverInductive, PTL DEF ReceiverSpec
<1> QED BY <1>3, <1>4, ReceiverInductive, PTL DEF ReceiverSpec, FrameVerdict
=============================================================================
