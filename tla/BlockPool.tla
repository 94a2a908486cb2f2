------------------------------ MODULE BlockPool ------------------------------
(***************************************************************************)
(* wire::detail::BlockPool (src/wire/detail/BlockPool.h): a fixed array of *)
(* blocks whose free list is threaded through the free blocks themselves.  *)
(* While a client holds a block its bytes are the client's, the link word  *)
(* included: Scribble lets the client leave anything there.                *)
(*                                                                         *)
(* Callers are one thread; an operation is one step.  A caller may release *)
(* anything: a block it holds, a block that is already free, an address    *)
(* that is not a block of this pool, or the null pointer.                  *)
(***************************************************************************)
EXTENDS Naturals, FiniteSets

CONSTANTS
    BlockCount,    \* blocks of the pool
    Modulus        \* 2^32: the diagnostic counters wrap

ASSUME PoolAssumption ==
    /\ BlockCount \in Nat \ {0}
    /\ Modulus \in Nat \ {0}

Blocks  == 0 .. BlockCount - 1
Null    == BlockCount        \* no block
Foreign == BlockCount + 1    \* an address that is not the start of a block
Links   == Blocks \union {Null, Foreign}

VARIABLES
    m_free,      \* first free block, or Null
    link,        \* the word at the start of each block
    in_use, high_water, exhausted, rejected,   \* PoolStats
    held         \* the blocks clients hold

stats == <<in_use, high_water, exhausted, rejected>>
vars == <<m_free, link, stats, held>>

\* The constructor threads every block, first to last.
Init ==
    /\ m_free = 0
    /\ link = [b \in Blocks |-> b + 1]
    /\ in_use = 0 /\ high_water = 0 /\ exhausted = 0 /\ rejected = 0
    /\ held = {}

\* A set of blocks that the free list cannot leave.
Closed(S) ==
    /\ m_free \in Blocks => m_free \in S
    /\ \A b \in S : link[b] \in Blocks => link[b] \in S

\* The walk of is_free finds a block iff the list cannot avoid it.
is_free(b) == \A S \in SUBSET Blocks : Closed(S) => b \in S

owns(p) == p \in Blocks

AcquireDry ==
    /\ m_free = Null
    /\ exhausted' = (exhausted + 1) % Modulus
    /\ UNCHANGED <<m_free, link, in_use, high_water, rejected, held>>

Acquire ==
    /\ m_free # Null
    /\ m_free' = link[m_free]
    /\ in_use' = in_use + 1
    /\ high_water' = IF in_use' > high_water THEN in_use' ELSE high_water
    /\ held' = held \union {m_free}
    /\ UNCHANGED <<link, exhausted, rejected>>

Release(p) ==
    /\ owns(p) /\ ~is_free(p)
    /\ link' = [link EXCEPT ![p] = m_free]
    /\ m_free' = p
    /\ in_use' = in_use - 1
    /\ held' = held \ {p}
    /\ UNCHANGED <<high_water, exhausted, rejected>>

ReleaseRefused(p) ==
    /\ p # Null /\ (~owns(p) \/ is_free(p))
    /\ rejected' = (rejected + 1) % Modulus
    /\ UNCHANGED <<m_free, link, in_use, high_water, exhausted, held>>

\* The client writes its data into a block it holds.
Scribble(b, word) ==
    /\ b \in held
    /\ link' = [link EXCEPT ![b] = word]
    /\ UNCHANGED <<m_free, stats, held>>

Next ==
    \/ AcquireDry \/ Acquire
    \/ \E p \in Links : Release(p) \/ ReleaseRefused(p)
    \/ \E b \in Blocks, word \in Links : Scribble(b, word)

Spec == Init /\ [][Next]_vars

-----------------------------------------------------------------------------
\* The type invariant; in particular in_use never wraps below zero and the head
\* of the list is never a word a client wrote.
TypeOK ==
    /\ m_free \in Blocks \union {Null}
    /\ link \in [Blocks -> Links]
    /\ in_use \in 0 .. BlockCount /\ high_water \in 0 .. BlockCount
    /\ exhausted \in Nat /\ rejected \in Nat
    /\ held \subseteq Blocks

\* The free list holds exactly the blocks nobody holds: nothing leaks, nothing
\* held can be granted again, and is_free answers for the clients' view.
FreeListExact == \A b \in Blocks : is_free(b) <=> b \notin held

\* The list has no cycle and no fork: a free block is linked to a free block or
\* to nothing, from one place only.  is_free's walk therefore ends.
FreeListLinear ==
    \A b \in Blocks \ held :
        /\ link[b] \in (Blocks \ held) \union {Null}
        /\ link[b] \in Blocks => link[b] # m_free
        /\ \A c \in Blocks \ held : link[b] = link[c] /\ link[b] # Null => b = c

\* available() is the truth: the count in the stats is the number of blocks held.
StatsAgree == in_use = Cardinality(held) /\ in_use <= high_water

\* What a client relies on: see BlockLoans.
Loans == INSTANCE BlockLoans
LoansKept == Loans!Spec
=============================================================================
