----------------------------- MODULE CobsPackets -----------------------------
(***************************************************************************)
(* The life of a receive block: storage grants it, the receiver builds a   *)
(* frame in it, threads it onto the intrusive ready queue, hands it to a   *)
(* Packet, and the last Packet gives it back (src/cobs/detail/Receiver.h,  *)
(* Packet.h, RxBlock.h).  The count of references is touched only by       *)
(* copying and by releasing; everywhere else a reference moves.            *)
(*                                                                         *)
(* Handles are the Packet variables of the application.  A constructor is  *)
(* the assignment to an empty handle, a destructor is a reset.             *)
(***************************************************************************)
EXTENDS Integers, Sequences, FiniteSets

CONSTANTS
    Blocks,      \* the blocks storage can grant
    Handles,     \* the application's Packet objects
    NoBlock      \* the null pointer

ASSUME PacketsAssumption ==
    /\ NoBlock \notin Blocks
    /\ IsFiniteSet(Handles)

Pointers == Blocks \union {NoBlock}

VARIABLES
    live,                    \* the blocks storage has granted and not got back
    refs, next_ready,        \* the block headers
    m_building, m_readyHead, m_readyTail,
    pkt,                     \* what each handle points to
    phase,                   \* of the receiver: "open", "closing", "closed"
    queue                    \* history: the published blocks, oldest first

headers == <<refs, next_ready>>
lists == <<m_readyHead, m_readyTail, queue>>
packets == <<live, headers, m_building, lists, pkt, phase>>

PacketsInit ==
    /\ live = {}
    /\ refs = [b \in Blocks |-> 0]
    /\ next_ready = [b \in Blocks |-> NoBlock]
    /\ m_building = NoBlock /\ m_readyHead = NoBlock /\ m_readyTail = NoBlock
    /\ pkt = [h \in Handles |-> NoBlock]
    /\ phase = "open"
    /\ queue = <<>>

-----------------------------------------------------------------------------
(* The receiver.                                                           *)

\* A granted block is constructed with one reference, which m_building holds.
Acquire(b) ==
    /\ phase = "open" /\ m_building = NoBlock /\ b \notin live
    /\ live' = live \union {b}
    /\ refs' = [refs EXCEPT ![b] = 1]
    /\ next_ready' = [next_ready EXCEPT ![b] = NoBlock]
    /\ m_building' = b
    /\ UNCHANGED <<lists, pkt, phase>>

\* A frame given up while it was being built returns its block to storage.
ReleaseBuilding ==
    /\ live' = live \ {m_building}
    /\ m_building' = NoBlock
    /\ UNCHANGED <<headers, lists, pkt>>

\* The block joins the tail of the list; its predecessor is linked to it.
Enqueue(b, next) ==
    /\ next_ready' = [c \in Blocks |->
                        IF c = b THEN NoBlock
                        ELSE IF c = m_readyTail THEN b ELSE next[c]]
    /\ m_readyHead' = IF m_readyTail = NoBlock THEN b ELSE m_readyHead
    /\ m_readyTail' = b
    /\ queue' = Append(queue, b)

Publish ==
    /\ phase = "open" /\ m_building # NoBlock
    /\ Enqueue(m_building, next_ready)
    /\ m_building' = NoBlock
    /\ UNCHANGED <<live, refs, pkt, phase>>

\* An empty application packet is granted and published at once.
PublishEmpty(b) ==
    /\ phase = "open" /\ m_building = NoBlock /\ b \notin live
    /\ live' = live \union {b}
    /\ refs' = [refs EXCEPT ![b] = 1]
    /\ Enqueue(b, next_ready)
    /\ UNCHANGED <<m_building, pkt, phase>>

Dequeue ==
    /\ m_readyHead' = next_ready[m_readyHead]
    /\ m_readyTail' = IF next_ready[m_readyHead] = NoBlock THEN NoBlock ELSE m_readyTail
    /\ next_ready' = [next_ready EXCEPT ![m_readyHead] = NoBlock]
    /\ queue' = Tail(queue)

-----------------------------------------------------------------------------
(* The handles.  Released(r, b) is the count and the grants after one      *)
(* handle on b let go, counting from r.                                    *)

RefsReleased(r, b) == IF b = NoBlock THEN r ELSE [r EXCEPT ![b] = @ - 1]
LiveReleased(r, b) == IF b # NoBlock /\ r[b] = 1 THEN live \ {b} ELSE live

Release(r, b) ==
    /\ refs' = RefsReleased(r, b)
    /\ live' = LiveReleased(r, b)

\* pop_packet into h: the queue's reference becomes the handle's, whose old
\* one is released.  An empty queue yields an empty Packet.
PopInto(h) ==
    /\ phase = "open"
    /\ IF m_readyHead = NoBlock THEN UNCHANGED <<lists, next_ready>> ELSE Dequeue
    /\ pkt' = [pkt EXCEPT ![h] = m_readyHead]
    /\ Release(refs, pkt[h])
    /\ UNCHANGED <<m_building, phase>>

\* Mutant: the old reference is released before the new one is counted.
CopyAssign_ReleasesFirst(h, g) ==
    /\ live' = LiveReleased(refs, pkt[h])
    /\ refs' = IF pkt[g] = NoBlock THEN RefsReleased(refs, pkt[h])
               ELSE [RefsReleased(refs, pkt[h]) EXCEPT ![pkt[g]] = @ + 1]
    /\ pkt' = [pkt EXCEPT ![h] = pkt[g]]
    /\ UNCHANGED <<next_ready, m_building, lists, phase>>

\* h = g, self-assignment included: counted first, released after.
CopyAssign(h, g) ==
    /\ Release(IF pkt[g] = NoBlock THEN refs ELSE [refs EXCEPT ![pkt[g]] = @ + 1],
               pkt[h])
    /\ pkt' = [pkt EXCEPT ![h] = pkt[g]]
    /\ UNCHANGED <<next_ready, m_building, lists, phase>>

\* Mutant: the handle moved from still points to the block.
MoveAssign_Copies(h, g) ==
    /\ h # g
    /\ Release(refs, pkt[h])
    /\ pkt' = [pkt EXCEPT ![h] = pkt[g]]
    /\ UNCHANGED <<next_ready, m_building, lists, phase>>

\* h = std::move(g); moving a handle onto itself does nothing.
MoveAssign(h, g) ==
    /\ h # g
    /\ Release(refs, pkt[h])
    /\ pkt' = [pkt EXCEPT ![h] = pkt[g], ![g] = NoBlock]
    /\ UNCHANGED <<next_ready, m_building, lists, phase>>

Reset(h) ==
    /\ Release(refs, pkt[h])
    /\ pkt' = [pkt EXCEPT ![h] = NoBlock]
    /\ UNCHANGED <<next_ready, m_building, lists, phase>>

-----------------------------------------------------------------------------
(* The destructor of the receiver, one turn of clearReady at a time.  The  *)
(* endpoint must outlive every Packet it handed out (Cobs.h, lifetime      *)
(* precondition 1).                                                        *)

Destroy ==
    /\ phase = "open" /\ \A h \in Handles : pkt[h] = NoBlock
    /\ phase' = "closing"
    /\ ReleaseBuilding

ClearOne ==
    /\ phase = "closing" /\ m_readyHead # NoBlock
    /\ Dequeue
    /\ Release(refs, m_readyHead)
    /\ UNCHANGED <<m_building, pkt, phase>>

Closed ==
    /\ phase = "closing" /\ m_readyHead = NoBlock
    /\ phase' = "closed"
    /\ UNCHANGED <<live, headers, m_building, lists, pkt>>

GiveUp ==
    /\ phase = "open" /\ m_building # NoBlock
    /\ ReleaseBuilding
    /\ UNCHANGED phase

\* While the receiver is closing or closed the handles stay empty.
Application ==
    /\ phase = "open"
    /\ \/ \E h \in Handles : PopInto(h) \/ Reset(h)
       \/ \E h, g \in Handles : CopyAssign(h, g) \/ MoveAssign(h, g)

PacketsNext ==
    \/ \E b \in Blocks : Acquire(b) \/ PublishEmpty(b)
    \/ GiveUp \/ Publish
    \/ Application
    \/ Destroy \/ ClearOne \/ Closed

PacketsSpec == PacketsInit /\ [][PacketsNext]_packets

-----------------------------------------------------------------------------
PacketsTypeOK ==
    /\ live \in SUBSET Blocks
    /\ refs \in [Blocks -> Nat]
    /\ next_ready \in [Blocks -> Pointers]
    /\ m_building \in Pointers /\ m_readyHead \in Pointers /\ m_readyTail \in Pointers
    /\ pkt \in [Handles -> Pointers]
    /\ phase \in {"open", "closing", "closed"}
    /\ queue \in Seq(Blocks)

Queued == {queue[k] : k \in DOMAIN queue}
HoldersOf(p, b) == {h \in Handles : p[h] = b}
Held == {b \in Blocks : \E h \in Handles : pkt[h] = b}

\* A block is in one stage of its life at a time: built, queued once, or in
\* the hands of the application.
OneStage ==
    /\ m_building \notin Queued \union Held
    /\ Queued \intersect Held = {}
    /\ \A j, k \in DOMAIN queue : queue[j] = queue[k] => j = k

\* Storage has granted exactly the blocks somebody owns: a block no handle,
\* queue or frame points to was given back, and nothing points to one that was.
LiveAreOwned == live = (Queued \union Held \union {m_building}) \ {NoBlock}

\* The count of a block is the number of its owners: the handles on it, or
\* the one reference of the frame being built or of the queue.
RefsAreOwners ==
    \A b \in live :
        refs[b] = IF b \in Held THEN Cardinality(HoldersOf(pkt, b)) ELSE 1

\* The links threaded through the blocks are the queue, from end to end.
ListIsQueue ==
    LET last == Len(queue)
    IN  /\ queue = <<>> => m_readyHead = NoBlock /\ m_readyTail = NoBlock
        /\ queue # <<>> =>
             /\ m_readyHead = queue[1] /\ m_readyTail = queue[last]
             /\ next_ready[queue[last]] = NoBlock
             /\ \A k \in 1 .. last - 1 : next_ready[queue[k]] = queue[k + 1]

\* Every block is accounted for: owned if and only if storage granted it,
\* counted once for each owner, and linked exactly as it waits.
PacketsAccounted == LiveAreOwned /\ RefsAreOwners /\ ListIsQueue

\* A destroyed receiver leaves nothing behind in its storage.
NothingLeaks == phase = "closed" => live = {}
=============================================================================
