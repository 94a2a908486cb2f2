-------------------------- MODULE PoolAndTcpProofs --------------------------
(***************************************************************************)
(* The free list of wire::detail::BlockPool is exact for every BlockCount, *)
(* the pool keeps the promise of BlockLoans, and the one component that    *)
(* runs on two pools, the Modbus TCP endpoint, loses no block of either,   *)
(* logs exactly the frames its stream is cut into, and sends exactly what  *)
(* the application put together.                                           *)
(*                                                                         *)
(* What makes a list exact is said of any links (FreeList): the free       *)
(* blocks are closed under the links (so the list never leaves them),      *)
(* every closed set contains them (so the list reaches them all), and the  *)
(* links neither fork nor return to the head (so taking the head takes     *)
(* nothing else).  The bytes of a stream are said by Cut, which looks at   *)
(* all of it; how Cut grows by one byte is what the receiver follows.      *)
(***************************************************************************)
EXTENDS TcpEndpointProps, Integers, FiniteSetTheorems, SequenceTheorems,
        WellFoundedInduction, TLAPS

(* Induction over the naturals with the predicate given as a set: the least  *)
(* element of a set of naturals is found through the well-founded order of   *)
(* finite sets, since 0 .. i grows with i.                                   *)

\* Every non-empty set of naturals has a least element.
LEMMA LeastElement ==
    ASSUME NEW T \in SUBSET Nat, T # {}
    PROVE  \E i \in T : \A y \in T : i <= y
<1> DEFINE R == StrictSubsetOrdering(Nat)
           U == {0 .. j : j \in T}
<1>1. IsWellFoundedOn(R, FiniteSubsetsOf(Nat))
  BY FS_StrictSubsetOrderingWellFounded
<1>2. U \subseteq FiniteSubsetsOf(Nat)
  <2>1. \A j \in Nat : IsFiniteSet(0 .. j)
    BY FS_Interval
  <2> QED BY <2>1 DEF FiniteSubsetsOf
<1>3. PICK u \in U : \A v \in U : ~(<<v, u>> \in R)
  <2> HIDE DEF R
  <2>1. U # {}
    OBVIOUS
  <2> HIDE DEF U
  <2> QED BY <1>1, <1>2, <2>1, WFMin
<1>4. PICK i \in T : u = 0 .. i
  BY <1>3
<1> HIDE DEF U
<1>5. ASSUME NEW y \in T, y < i
      PROVE  FALSE
  <2>1. 0 .. y \subseteq 0 .. i /\ 0 .. y # 0 .. i
    BY <1>5
  <2>2. <<0 .. y, 0 .. i>> \in R
    BY <2>1 DEF StrictSubsetOrdering
  <2>3. 0 .. y \in U
    BY DEF U
  <2> QED BY <2>2, <2>3, <1>3, <1>4
<1> QED BY <1>5

\* A set that holds 0 and, with each b below n, also b + 1 holds 0 .. n.
LEMMA IntervalInduction ==
    ASSUME NEW n \in Nat, NEW S, 0 \in S,
           \A b \in S : b \in 0 .. n - 1 => b + 1 \in S
    PROVE  0 .. n \subseteq S
<1> DEFINE T == {b \in 0 .. n : b \notin S}
<1>1. SUFFICES ASSUME T # {}
               PROVE  FALSE
  OBVIOUS
<1>2. PICK i \in T : \A y \in T : i <= y
  <2>1. T \in SUBSET Nat
    OBVIOUS
  <2> HIDE DEF T
  <2> QED BY <1>1, <2>1, LeastElement
<1>3. i # 0 /\ i - 1 \in 0 .. n - 1 /\ i - 1 \notin T
  BY <1>2
<1>4. i - 1 \in S
  BY <1>3
<1>5. (i - 1) + 1 \in S
  BY <1>3, <1>4
<1>6. (i - 1) + 1 = i
  BY <1>2
<1> QED BY <1>2, <1>5, <1>6

-----------------------------------------------------------------------------
(* The free list of a pool of n blocks: its head f, its links l, and the set *)
(* h of the blocks that are held.                                            *)

Unheld(n, h) == (0 .. n - 1) \ h

ClosedUnder(n, f, l, S) ==
    /\ f \in 0 .. n - 1 => f \in S
    /\ \A b \in S : l[b] \in 0 .. n - 1 => l[b] \in S

FreeList(n, f, l, h) ==
    /\ h \in SUBSET (0 .. n - 1)
    /\ f \in Unheld(n, h) \union {n}
    /\ l \in [0 .. n - 1 -> (0 .. n - 1) \union {n, n + 1}]
    /\ \A b \in Unheld(n, h) :
          /\ l[b] \in Unheld(n, h) \union {n}
          /\ l[b] # n => l[b] # f
          /\ \A c \in Unheld(n, h) : l[b] = l[c] /\ l[b] # n => b = c
    /\ \A S \in SUBSET (0 .. n - 1) : ClosedUnder(n, f, l, S) => Unheld(n, h) \subseteq S

\* What the constructor threads.
LEMMA ThreadedList ==
    ASSUME NEW n \in Nat \ {0}, NEW l, l = [b \in 0 .. n - 1 |-> b + 1]
    PROVE  FreeList(n, 0, l, {})
<1>1. Unheld(n, {}) = 0 .. n - 1 /\ 0 \in 0 .. n - 1
  BY DEF Unheld
<1>2. l \in [0 .. n - 1 -> (0 .. n - 1) \union {n, n + 1}]
  OBVIOUS
<1>3. \A b \in 0 .. n - 1 :
         /\ l[b] \in (0 .. n - 1) \union {n} /\ l[b] # 0
         /\ \A c \in 0 .. n - 1 : l[b] = l[c] => b = c
  OBVIOUS
<1>4. ASSUME NEW S \in SUBSET (0 .. n - 1), ClosedUnder(n, 0, l, S)
      PROVE  0 .. n - 1 \subseteq S
  <2> DEFINE k == n - 1
  <2>1. k \in Nat /\ 0 \in S
    BY <1>1, <1>4 DEF ClosedUnder
  <2>2. ASSUME NEW b \in S, b \in 0 .. k - 1
        PROVE  b + 1 \in S
    <3>1. b \in 0 .. n - 1 /\ b + 1 \in 0 .. n - 1 /\ l[b] = b + 1
      BY <2>2
    <3> QED BY <1>4, <3>1 DEF ClosedUnder
  <2> HIDE DEF k
  <2>3. 0 .. k \subseteq S
    BY <2>1, <2>2, IntervalInduction
  <2> QED BY <2>3 DEF k
<1> QED BY <1>1, <1>2, <1>3, <1>4 DEF FreeList

\* The walk of is_free from the head finds exactly the blocks nobody holds.
LEMMA WalkFindsTheFree ==
    ASSUME NEW n \in Nat, NEW f, NEW l, NEW h, FreeList(n, f, l, h), NEW b \in 0 .. n - 1
    PROVE  (\A S \in SUBSET (0 .. n - 1) : ClosedUnder(n, f, l, S) => b \in S) <=> b \notin h
<1>1. n \notin 0 .. n - 1
  OBVIOUS
<1>2. ClosedUnder(n, f, l, Unheld(n, h))
  BY <1>1 DEF ClosedUnder, FreeList, Unheld
<1>3. Unheld(n, h) \in SUBSET (0 .. n - 1)
  BY DEF Unheld
<1> QED BY <1>2, <1>3 DEF FreeList, Unheld

\* An empty list means that every block is held.
LEMMA EmptyListHoldsAll ==
    ASSUME NEW n \in Nat, NEW l, NEW h, FreeList(n, n, l, h)
    PROVE  h = 0 .. n - 1
<1>1. ClosedUnder(n, n, l, {})
  BY DEF ClosedUnder
<1> QED BY <1>1 DEF FreeList, Unheld

\* Taking the head: the list that starts at its link is the rest, exactly.
LEMMA HeadTaken ==
    ASSUME NEW n \in Nat, NEW f, NEW l, NEW h, FreeList(n, f, l, h), f # n
    PROVE  /\ f \in 0 .. n - 1 /\ f \notin h
           /\ FreeList(n, l[f], l, h \union {f})
<1>1. n \notin 0 .. n - 1
  OBVIOUS
<1>2. f \in 0 .. n - 1 /\ f \notin h /\ f \in Unheld(n, h)
  BY DEF FreeList, Unheld
<1>3. Unheld(n, h \union {f}) = Unheld(n, h) \ {f} /\ h \union {f} \in SUBSET (0 .. n - 1)
  BY <1>2 DEF FreeList, Unheld
<1>4. l[f] \in Unheld(n, h \union {f}) \union {n}
  BY <1>1, <1>2, <1>3 DEF FreeList
<1>5. \A b \in Unheld(n, h) \ {f} :
         /\ l[b] \in (Unheld(n, h) \ {f}) \union {n}
         /\ l[b] # n => l[b] # l[f]
         /\ \A c \in Unheld(n, h) \ {f} : l[b] = l[c] /\ l[b] # n => b = c
  BY <1>2 DEF FreeList
<1>6. ASSUME NEW S \in SUBSET (0 .. n - 1), ClosedUnder(n, l[f], l, S)
      PROVE  Unheld(n, h) \ {f} \subseteq S
  <2>1. ClosedUnder(n, f, l, S \union {f}) /\ S \union {f} \in SUBSET (0 .. n - 1)
    BY <1>2, <1>6 DEF ClosedUnder
  <2>2. Unheld(n, h) \subseteq S \union {f}
    BY <2>1 DEF FreeList
  <2> QED BY <2>2
<1>7. l \in [0 .. n - 1 -> (0 .. n - 1) \union {n, n + 1}]
  BY DEF FreeList
<1> QED BY <1>2, <1>3, <1>4, <1>5, <1>6, <1>7 DEF FreeList

\* Giving back: the block becomes the head, linked to the old list.
LEMMA HeadGiven ==
    ASSUME NEW n \in Nat, NEW f, NEW l, NEW h, FreeList(n, f, l, h), NEW p \in h
    PROVE  FreeList(n, p, [l EXCEPT ![p] = f], h \ {p})
<1>1. PICK g : g = [l EXCEPT ![p] = f]
  OBVIOUS
<1> DEFINE Free == Unheld(n, h)
           Now == Unheld(n, h \ {p})
<1>2. /\ n \notin 0 .. n - 1 /\ p \in 0 .. n - 1 /\ p # n
      /\ Now = Free \union {p} /\ p \notin Free /\ h \ {p} \in SUBSET (0 .. n - 1)
      /\ n \notin Free /\ Free \subseteq 0 .. n - 1 /\ f \in Free \union {n}
  BY DEF FreeList, Unheld
<1>3. g[p] = f /\ \A c \in Free : g[c] = l[c]
  BY <1>1, <1>2 DEF FreeList
<1>4. g \in [0 .. n - 1 -> (0 .. n - 1) \union {n, n + 1}]
  BY <1>1, <1>2 DEF FreeList
<1>5. \A c \in Free : l[c] \in Free \union {n} /\ (l[c] # n => l[c] # f)
  BY DEF FreeList
<1>6. \A c, d \in Free : l[c] = l[d] /\ l[c] # n => c = d
  BY DEF FreeList
<1>7. ASSUME NEW S \in SUBSET (0 .. n - 1), ClosedUnder(n, p, g, S)
      PROVE  Now \subseteq S
  <2>1. p \in S
    BY <1>2, <1>7 DEF ClosedUnder
  <2>2. S \intersect Free \in SUBSET (0 .. n - 1)
    BY <1>7
  <2>3. ClosedUnder(n, f, l, S \intersect Free)
    <3>1. f \in 0 .. n - 1 => f \in S \intersect Free
      BY <1>2, <1>3, <1>7, <2>1 DEF ClosedUnder
    <3>2. \A c \in S \intersect Free : l[c] \in 0 .. n - 1 => l[c] \in S \intersect Free
      BY <1>2, <1>3, <1>5, <1>7 DEF ClosedUnder
    <3> QED BY <3>1, <3>2 DEF ClosedUnder
  <2>4. Free \subseteq S \intersect Free
    BY <2>2, <2>3 DEF FreeList
  <2> QED BY <1>2, <2>1, <2>4
<1> HIDE DEF Free, Now
<1>8. \A b \in Now : g[b] \in Now \union {n} /\ g[b] # p
  BY <1>2, <1>3, <1>5
<1>9. \A b, c \in Now : g[b] = g[c] /\ g[b] # n => b = c
  BY <1>2, <1>3, <1>5, <1>6
<1> QED BY <1>1, <1>2, <1>4, <1>7, <1>8, <1>9 DEF FreeList, Now

\* What a holder writes into its block the list does not see.
LEMMA HeldWordsAreUnseen ==
    ASSUME NEW n \in Nat, NEW f, NEW l, NEW h, FreeList(n, f, l, h), NEW b \in h,
           NEW word \in (0 .. n - 1) \union {n, n + 1}
    PROVE  FreeList(n, f, [l EXCEPT ![b] = word], h)
<1>1. PICK g : g = [l EXCEPT ![b] = word]
  OBVIOUS
<1> DEFINE Free == Unheld(n, h)
<1>2. Free \subseteq 0 .. n - 1 /\ b \in 0 .. n - 1 /\ b \notin Free /\ n \notin 0 .. n - 1
  BY DEF FreeList, Unheld
<1>3. \A c \in Free : g[c] = l[c]
  BY <1>1, <1>2 DEF FreeList
<1>4. g \in [0 .. n - 1 -> (0 .. n - 1) \union {n, n + 1}]
  BY <1>1, <1>2 DEF FreeList
<1>5. ASSUME NEW S \in SUBSET (0 .. n - 1), ClosedUnder(n, f, g, S)
      PROVE  Free \subseteq S
  <2>1. S \intersect Free \in SUBSET (0 .. n - 1)
    BY <1>5
  <2>2. ClosedUnder(n, f, l, S \intersect Free)
    BY <1>2, <1>3, <1>5 DEF ClosedUnder, FreeList
  <2> QED BY <2>1, <2>2 DEF FreeList
<1> QED BY <1>1, <1>3, <1>4, <1>5 DEF FreeList

-----------------------------------------------------------------------------
(* The pool.                                                                 *)

Counted ==
    /\ in_use = Cardinality(held)
    /\ high_water \in 0 .. BlockCount /\ in_use <= high_water
    /\ exhausted \in Nat /\ rejected \in Nat

IInv == FreeList(BlockCount, m_free, link, held) /\ Counted

LEMMA BlocksFinite == IsFiniteSet(Blocks) /\ Cardinality(Blocks) = BlockCount
BY PoolAssumption, FS_Interval DEF Blocks

LEMMA NullIsNoBlock == Null \notin Blocks /\ Foreign \notin Blocks /\ Null # Foreign
BY PoolAssumption DEF Blocks, Null, Foreign

\* A set of blocks counts at most BlockCount.
LEMMA HeldBound ==
    ASSUME NEW S \in SUBSET Blocks
    PROVE  IsFiniteSet(S) /\ Cardinality(S) \in 0 .. BlockCount
<1>1. IsFiniteSet(S) /\ Cardinality(S) <= Cardinality(Blocks)
  BY BlocksFinite, FS_Subset
<1>2. Cardinality(S) \in Nat
  BY <1>1, FS_CardinalityType
<1> QED BY <1>1, <1>2, BlocksFinite, PoolAssumption

\* Under the invariant is_free answers exactly "nobody holds it".
LEMMA WalkIsExact ==
    ASSUME FreeList(BlockCount, m_free, link, held)
    PROVE  FreeListExact
<1> SUFFICES ASSUME NEW b \in Blocks PROVE is_free(b) <=> b \notin held
  BY DEF FreeListExact
<1>1. BlockCount \in Nat /\ b \in 0 .. BlockCount - 1
  BY PoolAssumption DEF Blocks
<1>2. (\A S \in SUBSET (0 .. BlockCount - 1) :
            ClosedUnder(BlockCount, m_free, link, S) => b \in S) <=> b \notin held
  BY <1>1, WalkFindsTheFree
<1> QED BY <1>2 DEF is_free, Closed, ClosedUnder, Blocks

LEMMA HeldBlocks == IInv => held \in SUBSET Blocks /\ link \in [Blocks -> Links]
BY DEF IInv, FreeList, Blocks, Links, Null, Foreign

LEMMA InitIInv == Init => IInv
<1> SUFFICES ASSUME Init
             PROVE  IInv
  OBVIOUS
<1>1. FreeList(BlockCount, m_free, link, held)
  BY PoolAssumption, ThreadedList DEF Init, Blocks
<1>2. Counted
  BY PoolAssumption, FS_EmptySet DEF Init, Counted
<1> QED BY <1>1, <1>2 DEF IInv

LEMMA AcquireKeepsIInv ==
    ASSUME IInv, Acquire
    PROVE  IInv' /\ m_free \in Blocks \ held
<1>1. /\ m_free \in Blocks \ held
      /\ FreeList(BlockCount, m_free', link', held')
  BY PoolAssumption, HeadTaken DEF IInv, Acquire, Blocks, Null
<1>2. held \in SUBSET Blocks /\ held' \in SUBSET Blocks
  BY <1>1, HeldBlocks DEF Acquire
<1>3. in_use' = Cardinality(held')
  <2>1. Cardinality(held \union {m_free}) = Cardinality(held) + 1
    BY <1>1, <1>2, HeldBound, FS_AddElement
  <2> QED BY <2>1 DEF IInv, Counted, Acquire
<1>4. in_use' \in 0 .. BlockCount
  BY <1>2, <1>3, HeldBound
<1>5. Counted'
  BY <1>3, <1>4, PoolAssumption DEF IInv, Counted, Acquire
<1> QED BY <1>1, <1>5 DEF IInv

LEMMA ReleaseKeepsIInv ==
    ASSUME IInv, NEW p, Release(p)
    PROVE  IInv' /\ p \in held
<1>1. p \in held
  BY WalkIsExact DEF IInv, Release, owns, FreeListExact
<1>2. FreeList(BlockCount, m_free', link', held')
  BY <1>1, PoolAssumption, HeadGiven DEF IInv, Release
<1>3. held \in SUBSET Blocks /\ held' \in SUBSET Blocks
  BY HeldBlocks DEF Release
<1>4. in_use' = Cardinality(held')
  <2>1. Cardinality(held \ {p}) = Cardinality(held) - 1
    BY <1>1, <1>3, HeldBound, FS_RemoveElement
  <2> QED BY <2>1 DEF IInv, Counted, Release
<1>5. in_use' \in 0 .. BlockCount /\ in_use \in 0 .. BlockCount
  BY <1>3, <1>4, HeldBound DEF IInv, Counted
<1>6. in_use' <= high_water'
  BY <1>5 DEF IInv, Counted, Release
<1> QED BY <1>1, <1>2, <1>4, <1>6 DEF IInv, Counted, Release

LEMMA ScribbleKeepsIInv ==
    ASSUME IInv, NEW b \in Blocks, NEW word \in Links, Scribble(b, word)
    PROVE  IInv'
<1>1. FreeList(BlockCount, m_free', link', held')
  BY PoolAssumption, HeldWordsAreUnseen
     DEF IInv, Scribble, Blocks, Links, Null, Foreign
<1> QED BY <1>1 DEF IInv, Counted, Scribble, stats

\* An operation that only counts, or a stutter, leaves the list alone.
LEMMA CountingKeepsIInv ==
    ASSUME IInv, UNCHANGED <<m_free, link, in_use, high_water, held>>,
           exhausted' \in Nat, rejected' \in Nat
    PROVE  IInv'
BY DEF IInv, Counted

LEMMA CountsWrap ==
    ASSUME IInv
    PROVE  /\ exhausted \in Nat /\ (exhausted + 1) % Modulus \in Nat
           /\ rejected \in Nat /\ (rejected + 1) % Modulus \in Nat
BY PoolAssumption DEF IInv, Counted

LEMMA NextIInv == IInv /\ [Next]_vars => IInv'
<1> SUFFICES ASSUME IInv, [Next]_vars
             PROVE  IInv'
  OBVIOUS
<1>1. CASE AcquireDry
  BY <1>1, CountsWrap, CountingKeepsIInv DEF AcquireDry
<1>2. CASE Acquire
  BY <1>2, AcquireKeepsIInv
<1>3. ASSUME NEW p \in Links, Release(p)
      PROVE  IInv'
  BY <1>3, ReleaseKeepsIInv
<1>4. ASSUME NEW p \in Links, ReleaseRefused(p)
      PROVE  IInv'
  BY <1>4, CountsWrap, CountingKeepsIInv DEF ReleaseRefused
<1>5. ASSUME NEW b \in Blocks, NEW word \in Links, Scribble(b, word)
      PROVE  IInv'
  BY <1>5, ScribbleKeepsIInv
<1>6. CASE UNCHANGED vars
  BY <1>6, CountsWrap, CountingKeepsIInv DEF vars, stats
<1> QED BY <1>1, <1>2, <1>3, <1>4, <1>5, <1>6 DEF Next

\* The inductive invariant holds in every reachable state.
LEMMA PoolInvariant == Spec => []IInv
BY InitIInv, NextIInv, PTL DEF Spec

-----------------------------------------------------------------------------
\* Type correctness: the counts stay within the pool, the head is never a word
\* a client wrote.
THEOREM PoolTypeCorrect == Spec => []TypeOK
<1>1. IInv => TypeOK
  <2> SUFFICES ASSUME IInv
               PROVE  TypeOK
    OBVIOUS
  <2>1. in_use \in 0 .. BlockCount /\ held \in SUBSET Blocks
    BY HeldBlocks, HeldBound DEF IInv, Counted
  <2>2. m_free \in Blocks \union {Null}
    BY DEF IInv, FreeList, Unheld, Blocks, Null
  <2> QED BY <2>1, <2>2, HeldBlocks DEF IInv, Counted, TypeOK
<1> QED BY <1>1, PoolInvariant, PTL

\* The free list is exact and linear: no leak, no double grant, no endless walk.
THEOREM PoolListExact == Spec => [](FreeListExact /\ FreeListLinear)
<1>1. IInv => FreeListLinear
  BY DEF IInv, FreeList, Unheld, FreeListLinear, Blocks, Null
<1>2. IInv => FreeListExact
  BY WalkIsExact DEF IInv
<1> QED BY <1>1, <1>2, PoolInvariant, PTL

\* available() counts the free blocks.
THEOREM PoolStatsAgree == Spec => []StatsAgree
<1>1. IInv => StatsAgree
  BY DEF IInv, Counted, StatsAgree
<1> QED BY <1>1, PoolInvariant, PTL

\* The pool implements the clients' view: a grant is a free block, a refusal
\* means every block is held, a double or foreign release has no effect.
THEOREM PoolKeepsLoans == Spec => LoansKept
<1>1. Init => Loans!Init
  BY DEF Init, Loans!Init
<1>2. IInv /\ [Next]_vars => [Loans!Next]_(Loans!vars)
  <2> SUFFICES ASSUME IInv, [Next]_vars
               PROVE  [Loans!Next]_(Loans!vars)
    OBVIOUS
  <2> USE DEF Loans!vars, Loans!Next
  <2>1. CASE AcquireDry
    <3>1. held = Blocks
      BY <2>1, PoolAssumption, EmptyListHoldsAll DEF AcquireDry, IInv, Blocks, Null
    <3> QED BY <2>1, <3>1 DEF AcquireDry, Loans!Dry
  <2>2. CASE Acquire
    BY <2>2, AcquireKeepsIInv DEF Acquire, Loans!Grant
  <2>3. ASSUME NEW p \in Links, Release(p)
        PROVE  Loans!GiveBack
    BY <2>3, ReleaseKeepsIInv DEF Release, Loans!GiveBack
  <2>4. ASSUME NEW p \in Links, ReleaseRefused(p)
        PROVE  Loans!Refuse
    BY <2>4 DEF ReleaseRefused, Loans!Refuse
  <2>5. ASSUME NEW b \in Blocks, NEW word \in Links, Scribble(b, word)
        PROVE  UNCHANGED Loans!vars
    BY <2>5 DEF Scribble, stats
  <2>6. CASE UNCHANGED vars
    BY <2>6 DEF vars, stats
  <2> QED BY <2>1, <2>2, <2>3, <2>4, <2>5, <2>6 DEF Next
<1> QED BY <1>1, <1>2, PoolInvariant, PTL DEF Spec, LoansKept, Loans!Spec

-----------------------------------------------------------------------------
(***************************************************************************)
(* The Modbus TCP endpoint: who has the blocks of its receive pool.        *)
(***************************************************************************)
\* The frame in flight is in b, the queue is q, the application has p; together
\* they are what is held, and no block is twice among them.
Owned(b, q, p, h) ==
    /\ b \in Blocks \union {Null} /\ q \in Seq(Blocks) /\ p \in SUBSET Blocks
    /\ h \in SUBSET Blocks
    /\ \A j, k \in DOMAIN q : q[j] = q[k] => j = k
    /\ \A k \in DOMAIN q : q[k] # b /\ q[k] \notin p
    /\ b \notin p
    /\ \A c \in Blocks : c \in h <=> c = b \/ c \in p \/ \E k \in DOMAIN q : q[k] = c

LEMMA GrantedIsOwned ==
    ASSUME NEW q, NEW p, NEW h, Owned(Null, q, p, h), NEW c \in Blocks \ h
    PROVE  Owned(c, q, p, h \union {c})
<1>1. \A k \in DOMAIN q : q[k] \in Blocks
  BY DEF Owned
<1> QED BY <1>1, NullIsNoBlock DEF Owned

LEMMA DroppedIsFree ==
    ASSUME NEW b, NEW q, NEW p, NEW h, Owned(b, q, p, h), b # Null
    PROVE  Owned(Null, q, p, h \ {b})
<1>1. \A k \in DOMAIN q : q[k] \in Blocks
  BY DEF Owned
<1> QED BY <1>1, NullIsNoBlock DEF Owned

LEMMA QueuedIsOwned ==
    ASSUME NEW b, NEW q, NEW p, NEW h, Owned(b, q, p, h), b # Null
    PROVE  Owned(Null, Append(q, b), p, h)
<1> DEFINE n == Len(q)
<1>1. b \in Blocks /\ q \in Seq(Blocks) /\ n \in Nat /\ DOMAIN q = 1 .. n
  BY DEF Owned
<1>2. /\ Append(q, b) \in Seq(Blocks) /\ DOMAIN Append(q, b) = 1 .. n + 1
      /\ \A k \in 1 .. n : Append(q, b)[k] = q[k] /\ q[k] \in Blocks
      /\ Append(q, b)[n + 1] = b
  BY <1>1
<1>3. 1 .. n + 1 = (1 .. n) \union {n + 1} /\ n + 1 \notin 1 .. n
  BY <1>1
<1> HIDE DEF n
<1>4. PICK w : w = Append(q, b)
  OBVIOUS
<1>5. \A j, k \in DOMAIN w : w[j] = w[k] => j = k
  BY <1>1, <1>2, <1>3, <1>4 DEF Owned
<1>6. \A k \in DOMAIN w : w[k] # Null /\ w[k] \notin p
  BY <1>1, <1>2, <1>3, <1>4, NullIsNoBlock DEF Owned
<1>7. \A c \in Blocks : c \in h <=> c = Null \/ c \in p \/ \E k \in DOMAIN w : w[k] = c
  BY <1>1, <1>2, <1>3, <1>4, NullIsNoBlock DEF Owned
<1>8. Null \notin p /\ Null \in Blocks \union {Null} /\ w \in Seq(Blocks)
  BY <1>2, <1>4, NullIsNoBlock DEF Owned
<1> QED BY <1>4, <1>5, <1>6, <1>7, <1>8 DEF Owned

LEMMA PoppedIsOwned ==
    ASSUME NEW b, NEW q, NEW p, NEW h, Owned(b, q, p, h), q # <<>>
    PROVE  Owned(b, Tail(q), p \union {Head(q)}, h)
<1> DEFINE n == Len(q) - 1
<1>1. q \in Seq(Blocks) /\ n \in Nat /\ DOMAIN q = 1 .. n + 1 /\ Head(q) = q[1] /\ q[1] \in Blocks
  BY DEF Owned
<1>2. /\ Tail(q) \in Seq(Blocks) /\ DOMAIN Tail(q) = 1 .. n
      /\ \A k \in 1 .. n : Tail(q)[k] = q[k + 1]
  BY <1>1
<1>3. /\ \A k \in 1 .. n : k + 1 \in 1 .. n + 1 /\ k + 1 # 1
      /\ \A k \in 1 .. n + 1 : k = 1 \/ (k - 1 \in 1 .. n /\ (k - 1) + 1 = k)
      /\ \A j, k \in 1 .. n : j + 1 = k + 1 => j = k
      /\ 1 \in 1 .. n + 1
  BY <1>1
<1> HIDE DEF n
<1>4. PICK w : w = Tail(q)
  OBVIOUS
<1>5. \A j, k \in DOMAIN w : w[j] = w[k] => j = k
  BY <1>1, <1>2, <1>3, <1>4 DEF Owned
<1>6. \A k \in DOMAIN w : w[k] # b /\ w[k] \notin p \union {q[1]}
  BY <1>1, <1>2, <1>3, <1>4 DEF Owned
<1>7. \A c \in Blocks : c \in h <=> c = b \/ c \in p \union {q[1]} \/ \E k \in DOMAIN w : w[k] = c
  <2>1. \A c : (\E k \in DOMAIN q : q[k] = c) <=> c = q[1] \/ \E k \in DOMAIN w : w[k] = c
    <3>1. ASSUME NEW k \in DOMAIN q, k # 1
          PROVE  \E j \in DOMAIN w : w[j] = q[k]
      <4>1. k - 1 \in 1 .. n /\ (k - 1) + 1 = k
        BY <1>1, <1>3, <3>1
      <4> QED BY <1>2, <1>4, <4>1
    <3>2. ASSUME NEW k \in DOMAIN w
          PROVE  \E j \in DOMAIN q : q[j] = w[k]
      BY <1>1, <1>2, <1>3, <1>4
    <3> QED BY <1>1, <1>3, <3>1, <3>2
  <2> QED BY <2>1 DEF Owned
<1>8. b \notin p \union {q[1]} /\ p \union {q[1]} \in SUBSET Blocks
  BY <1>1, <1>3 DEF Owned
<1> QED BY <1>1, <1>2, <1>4, <1>5, <1>6, <1>7, <1>8 DEF Owned

LEMMA ReturnedIsFree ==
    ASSUME NEW b, NEW q, NEW p, NEW h, Owned(b, q, p, h), NEW c \in p
    PROVE  Owned(b, q, p \ {c}, h \ {c})
BY DEF Owned

\* Cardinalities: a queue without repetition has as many blocks as it is long.
LEMMA QueueCount ==
    ASSUME NEW S, NEW q \in Seq(S), \A j, k \in DOMAIN q : q[j] = q[k] => j = k
    PROVE  /\ IsFiniteSet({q[k] : k \in DOMAIN q})
           /\ Cardinality({q[k] : k \in DOMAIN q}) = Len(q)
<1> DEFINE T == {q[k] : k \in DOMAIN q}
           n == Len(q)
<1>1. n \in Nat /\ DOMAIN q = 1 .. n
  OBVIOUS
<1>2. IsFiniteSet(1 .. n) /\ Cardinality(1 .. n) = n
  BY <1>1, FS_Interval
<1>3. [k \in 1 .. n |-> q[k]] \in Bijection(1 .. n, T)
  BY <1>1 DEF Bijection, Injection, Surjection, IsInjective
<1>4. ExistsBijection(1 .. n, T)
  BY <1>3 DEF ExistsBijection
<1> HIDE DEF T, n
<1> QED BY <1>2, <1>4, FS_Bijection DEF T, n

\* Two finite sets with nothing in common.
LEMMA DisjointCount ==
    ASSUME NEW S, NEW T, IsFiniteSet(S), IsFiniteSet(T), S \intersect T = {}
    PROVE  /\ IsFiniteSet(S \union T)
           /\ Cardinality(S \union T) = Cardinality(S) + Cardinality(T)
<1>1. Cardinality({}) = 0
  BY FS_EmptySet
<1>2. Cardinality(S) \in Nat /\ Cardinality(T) \in Nat
  BY FS_CardinalityType
<1>3. /\ IsFiniteSet(S \union T)
      /\ Cardinality(S \union T) = Cardinality(S) + Cardinality(T) - Cardinality(S \intersect T)
  BY FS_Union
<1>4. Cardinality(S \intersect T) = 0
  BY <1>1
<1> QED BY <1>2, <1>3, <1>4

\* One block or none.
LEMMA AtMostOne ==
    ASSUME NEW b, NEW null
    PROVE  IsFiniteSet(IF b = null THEN {} ELSE {b})
BY FS_EmptySet, FS_Singleton

Queued(q) == {q[k] : k \in DOMAIN q}
OneOf(b, null) == IF b = null THEN {} ELSE {b}

LEMMA OwnedCount ==
    ASSUME NEW b, NEW q, NEW p, NEW h, Owned(b, q, p, h)
    PROVE  /\ h = OneOf(b, Null) \union Queued(q) \union p
           /\ Cardinality(h) = Cardinality(OneOf(b, Null)) + Len(q) + Cardinality(p)
<1> DEFINE building == IF b = Null THEN {} ELSE {b}
           queued == {q[k] : k \in DOMAIN q}
<1>1. /\ \A c \in building \union queued \union p : c \in Blocks
      /\ \A c \in Blocks : c \in h <=> c \in building \union queued \union p
      /\ building \intersect queued = {} /\ (building \union queued) \intersect p = {}
  BY NullIsNoBlock DEF Owned
<1>2. IsFiniteSet(queued) /\ Cardinality(queued) = Len(q)
  BY QueueCount DEF Owned
<1>3. IsFiniteSet(building) /\ IsFiniteSet(p)
  BY AtMostOne, HeldBound DEF Owned
<1>4. h \in SUBSET Blocks
  BY DEF Owned
<1> HIDE DEF building, queued
<1>5. h = building \union queued \union p
  BY <1>1, <1>4
<1>6. /\ IsFiniteSet(building \union queued)
      /\ Cardinality(building \union queued) = Cardinality(building) + Len(q)
  BY <1>1, <1>2, <1>3, DisjointCount
<1>7. Cardinality(h) = Cardinality(building) + Len(q) + Cardinality(p)
  BY <1>1, <1>3, <1>5, <1>6, DisjointCount
<1> QED BY <1>5, <1>7 DEF building, queued, OneOf, Queued

-----------------------------------------------------------------------------
\* The receiver is a record of its fields, a frame is in flight exactly while a
\* body is read, and every block that is out of the pool has one owner.
RxOwners ==
    /\ x = [m_state |-> x.m_state, header |-> x.header, remaining |-> x.remaining,
            building |-> x.building, ready |-> x.ready]
    /\ x.m_state = "Body" <=> x.building # Null
    /\ Owned(x.building, x.ready, packets, held)

RxInv == IInv /\ RxOwners

LEMMA BeginKeepsOwners ==
    ASSUME RxInv, x.m_state = "Header", NEW header, begin_frame(header), UNCHANGED packets
    PROVE  RxInv'
<1>1. x.building = Null
  BY DEF RxInv, RxOwners
<1>2. CASE ~Plausible(header)
  <2>1. /\ x' = [x EXCEPT !.header = header, !.m_state = "Failed"]
        /\ UNCHANGED <<m_free, link, stats, held>>
    BY <1>2 DEF begin_frame, pool
  <2>2. IInv'
    BY <2>1 DEF RxInv, IInv, Counted, stats
  <2> QED BY <1>1, <2>1, <2>2 DEF RxInv, RxOwners
<1>3. CASE Plausible(header) /\ AcquireDry
  <2>1. x' = [x EXCEPT !.header = header, !.remaining = LengthOf(header), !.m_state = "Skip"]
    BY <1>3 DEF begin_frame, AcquireDry, Acquire
  <2>2. IInv' /\ held' = held
    BY <1>3, NextIInv DEF RxInv, Next, AcquireDry
  <2> QED BY <1>1, <2>1, <2>2 DEF RxInv, RxOwners
<1>4. CASE Plausible(header) /\ Acquire
  <2>1. x' = [x EXCEPT !.header = header, !.remaining = LengthOf(header), !.m_state = "Body",
                       !.building = m_free]
    BY <1>4 DEF begin_frame, AcquireDry, Acquire
  <2>2. IInv' /\ m_free \in Blocks \ held /\ held' = held \union {m_free}
    BY <1>4, AcquireKeepsIInv DEF RxInv, Acquire
  <2>3. Owned(m_free, x.ready, packets, held')
    BY <1>1, <2>2, GrantedIsOwned DEF RxInv, RxOwners
  <2>4. m_free # Null
    BY <2>2, NullIsNoBlock
  <2> QED BY <2>1, <2>2, <2>3, <2>4 DEF RxInv, RxOwners
<1> QED BY <1>2, <1>3, <1>4 DEF begin_frame

LEMMA FinishKeepsOwners ==
    ASSUME RxInv, x.m_state = "Body", NEW adu, finish_frame(adu), UNCHANGED packets
    PROVE  RxInv'
<1>1. x.building # Null
  BY DEF RxInv, RxOwners
<1>2. CASE Verified(adu)
  <2>1. /\ x' = [x EXCEPT !.building = Null, !.header = <<>>, !.remaining = 0,
                          !.ready = Append(@, x.building), !.m_state = "Header"]
        /\ UNCHANGED <<m_free, link, stats, held>>
    BY <1>2 DEF finish_frame, pool
  <2>2. IInv'
    BY <2>1 DEF RxInv, IInv, Counted, stats
  <2>3. Owned(Null, Append(x.ready, x.building), packets, held)
    BY <1>1, QueuedIsOwned DEF RxInv, RxOwners
  <2> QED BY <2>1, <2>2, <2>3 DEF RxInv, RxOwners
<1>3. CASE ~Verified(adu)
  <2>1. /\ x' = [x EXCEPT !.building = Null, !.header = <<>>, !.remaining = 0,
                          !.m_state = "Failed"]
        /\ Release(x.building)
    BY <1>3 DEF finish_frame
  <2>2. IInv' /\ held' = held \ {x.building}
    BY <2>1, ReleaseKeepsIInv DEF RxInv, Release
  <2>3. Owned(Null, x.ready, packets, held \ {x.building})
    BY <1>1, DroppedIsFree DEF RxInv, RxOwners
  <2> QED BY <2>1, <2>2, <2>3 DEF RxInv, RxOwners
<1> QED BY <1>2, <1>3

LEMMA PoolStays == ASSUME IInv, UNCHANGED pool PROVE IInv' /\ held' = held
BY DEF pool, IInv, Counted, stats

\* A boundary, by whatever call: the frame in flight goes back.
LEMMA RestartKeepsOwners ==
    ASSUME RxInv, DropBuilding, UNCHANGED packets, NEW s, s # "Body",
           x' = [m_state |-> s, header |-> <<>>, remaining |-> 0, building |-> Null,
                 ready |-> x.ready]
    PROVE  RxInv'
<1>1. CASE x.building = Null
  <2>1. IInv' /\ held' = held
    BY <1>1, PoolStays DEF RxInv, DropBuilding
  <2> QED BY <1>1, <2>1 DEF RxInv, RxOwners
<1>2. CASE x.building # Null
  <2>1. IInv' /\ held' = held \ {x.building}
    BY <1>2, ReleaseKeepsIInv DEF RxInv, DropBuilding, Release
  <2>2. Owned(Null, x.ready, packets, held')
    BY <1>2, <2>1, DroppedIsFree DEF RxInv, RxOwners
  <2> QED BY <2>1, <2>2 DEF RxInv, RxOwners
<1> QED BY <1>1, <1>2

LEMMA ReceiverKeepsOwners == ASSUME RxInv, NextRx PROVE RxInv'
<1>1. ASSUME NEW y, x' = y, y.building = x.building, y.ready = x.ready,
             y = [m_state |-> y.m_state, header |-> y.header, remaining |-> y.remaining,
                  building |-> y.building, ready |-> y.ready],
             y.m_state = "Body" <=> x.m_state = "Body", UNCHANGED <<pool, packets>>
      PROVE  RxInv'
  BY <1>1, PoolStays DEF RxInv, RxOwners
<1>2. ASSUME NEW b, Header(b), UNCHANGED packets PROVE RxInv'
  <2>1. CASE begin_frame(Append(x.header, b))
    BY <1>2, <2>1, BeginKeepsOwners DEF Header
  <2>2. CASE x' = [x EXCEPT !.header = Append(x.header, b)] /\ UNCHANGED pool
    <3>1. PICK y : y = [x EXCEPT !.header = Append(x.header, b)]
      OBVIOUS
    <3>2. /\ y.building = x.building /\ y.ready = x.ready /\ y.m_state = x.m_state
          /\ y = [m_state |-> y.m_state, header |-> y.header, remaining |-> y.remaining,
                  building |-> y.building, ready |-> y.ready]
      BY <3>1 DEF RxInv, RxOwners
    <3> QED BY <1>1, <1>2, <2>2, <3>1, <3>2
  <2> QED BY <1>2, <2>1, <2>2 DEF Header
<1>3. ASSUME NEW b, Body(b), UNCHANGED packets PROVE RxInv'
  <2>1. CASE finish_frame(Append(memory[x.building], b))
    BY <1>3, <2>1, FinishKeepsOwners DEF Body
  <2>2. CASE x' = [x EXCEPT !.remaining = @ - 1] /\ UNCHANGED pool
    BY <1>1, <1>3, <2>2 DEF RxInv, RxOwners
  <2> QED BY <1>3, <2>1, <2>2 DEF Body
<1>4. ASSUME Skip, UNCHANGED packets PROVE RxInv'
  <2>1. \/ x' = [x EXCEPT !.remaining = @ - 1]
        \/ x' = [x EXCEPT !.remaining = 0, !.header = <<>>, !.m_state = "Header"]
    BY <1>4 DEF Skip
  <2> QED BY <1>1, <1>4, <2>1 DEF Skip, RxInv, RxOwners
<1>5. CASE Consume
  <2>1. PICK f : ConsumeByte(f) \/ ConsumeNothing(f)
    BY <1>5 DEF Consume
  <2>2. CASE ConsumeByte(f)
    BY <1>2, <1>3, <1>4, <2>2 DEF ConsumeByte
  <2>3. CASE ConsumeNothing(f)
    BY <1>1, <2>3 DEF ConsumeNothing, RxInv, RxOwners
  <2> QED BY <2>1, <2>2, <2>3
<1>6. CASE reset_rx \/ notify_gap
  <2>1. DropBuilding /\ UNCHANGED packets
    BY <1>6 DEF reset_rx, notify_gap
  <2>2. \/ x' = [m_state |-> "Header", header |-> <<>>, remaining |-> 0, building |-> Null,
                 ready |-> x.ready]
        \/ x' = [m_state |-> "Failed", header |-> <<>>, remaining |-> 0, building |-> Null,
                 ready |-> x.ready]
    BY <1>6 DEF reset_rx, notify_gap, Restarted, NewReceiver
  <2> QED BY <2>1, <2>2, RestartKeepsOwners
<1>7. CASE pop_packet
  <2>1. /\ x.ready # <<>> /\ x' = [x EXCEPT !.ready = Tail(@)]
        /\ packets' = packets \union {Head(x.ready)} /\ UNCHANGED pool
    BY <1>7 DEF pop_packet
  <2>2. Owned(x.building, Tail(x.ready), packets \union {Head(x.ready)}, held)
    BY <2>1, PoppedIsOwned DEF RxInv, RxOwners
  <2> QED BY <2>1, <2>2, PoolStays DEF RxInv, RxOwners
<1>8. ASSUME NEW b \in Blocks, release_rx(b) PROVE RxInv'
  <2>1. b \in packets /\ packets' = packets \ {b} /\ Release(b) /\ x' = x
    BY <1>8 DEF release_rx
  <2>2. IInv' /\ held' = held \ {b}
    BY <2>1, ReleaseKeepsIInv DEF RxInv, Release
  <2>3. Owned(x.building, x.ready, packets', held')
    BY <2>1, <2>2, ReturnedIsFree DEF RxInv, RxOwners
  <2> QED BY <2>1, <2>2, <2>3 DEF RxInv, RxOwners
<1> QED BY <1>5, <1>6, <1>7, <1>8 DEF NextRx

-----------------------------------------------------------------------------
(***************************************************************************)
(* The blocks of the transmit pool: one message has each, or the transport *)
(* does.                                                                   *)
(***************************************************************************)
TxList == FreeList(TxBlocks, tx_free, tx_link, tx_held)

LEMMA TxNames ==
    /\ Tx!Blocks = 0 .. TxBlocks - 1 /\ Tx!Null = TxBlocks /\ TxBlocks \in Nat
    /\ Tx!Null \notin Tx!Blocks
BY TcpAssumption DEF Tx!Blocks, Tx!Null

LEMMA TxListExact == TxList => Tx!FreeListExact
<1> SUFFICES ASSUME TxList, NEW b \in Tx!Blocks PROVE Tx!is_free(b) <=> b \notin tx_held
  BY DEF Tx!FreeListExact
<1>1. (\A S \in SUBSET (0 .. TxBlocks - 1) :
            ClosedUnder(TxBlocks, tx_free, tx_link, S) => b \in S) <=> b \notin tx_held
  BY TxNames, WalkFindsTheFree DEF TxList
<1> QED BY <1>1, TxNames DEF Tx!is_free, Tx!Closed, ClosedUnder

LEMMA TxGrants ==
    ASSUME TxList, Tx!Acquire
    PROVE  /\ TxList' /\ tx_free \in Tx!Blocks \ tx_held
           /\ tx_held' = tx_held \union {tx_free}
BY TxNames, HeadTaken DEF TxList, Tx!Acquire

LEMMA TxTakesBack ==
    ASSUME TxList, NEW p, Tx!Release(p)
    PROVE  TxList' /\ p \in tx_held /\ tx_held' = tx_held \ {p}
<1>1. p \in tx_held
  BY TxListExact DEF Tx!Release, Tx!owns, Tx!FreeListExact
<1> QED BY <1>1, TxNames, HeadGiven DEF TxList, Tx!Release

\* Message h has block has[h], the transport reads a, and h is what is held.
Lent(has, a, held_) ==
    /\ has \in [Handles -> Tx!Blocks \union {Tx!Null}] /\ a \in Tx!Blocks \union {Tx!Null}
    /\ held_ \in SUBSET Tx!Blocks
    /\ \A g, h \in Handles : has[g] = has[h] /\ has[g] # Tx!Null => g = h
    /\ \A h \in Handles : has[h] # Tx!Null => has[h] # a
    /\ \A c \in Tx!Blocks : c \in held_ <=> c = a \/ \E h \in Handles : has[h] = c

LEMMA GrantedIsLent ==
    ASSUME NEW has, NEW a, NEW s, Lent(has, a, s), NEW h \in Handles, has[h] = Tx!Null,
           NEW c \in Tx!Blocks \ s
    PROVE  Lent([has EXCEPT ![h] = c], a, s \union {c})
<1>1. PICK now : now = [has EXCEPT ![h] = c]
  OBVIOUS
<1>2. /\ now \in [Handles -> Tx!Blocks \union {Tx!Null}]
      /\ now[h] = c /\ \A g \in Handles \ {h} : now[g] = has[g]
  BY <1>1 DEF Lent
<1>3. c # a /\ \A g \in Handles : has[g] # c
  BY DEF Lent
<1>4. \A d \in Tx!Blocks : d \in s \union {c} <=> d = a \/ \E g \in Handles : now[g] = d
  BY <1>2, <1>3, TxNames DEF Lent
<1>5. \A g, k \in Handles : now[g] = now[k] /\ now[g] # Tx!Null => g = k
  BY <1>2, <1>3 DEF Lent
<1>6. \A g \in Handles : now[g] # Tx!Null => now[g] # a
  BY <1>2, <1>3 DEF Lent
<1> QED BY <1>1, <1>2, <1>4, <1>5, <1>6 DEF Lent

LEMMA GivenBack ==
    ASSUME NEW has, NEW a, NEW s, Lent(has, a, s), NEW h \in Handles
    PROVE  Lent([has EXCEPT ![h] = Tx!Null], a, s \ {has[h]})
<1>1. PICK now : now = [has EXCEPT ![h] = Tx!Null]
  OBVIOUS
<1>2. /\ now \in [Handles -> Tx!Blocks \union {Tx!Null}]
      /\ now[h] = Tx!Null /\ \A g \in Handles \ {h} : now[g] = has[g]
  BY <1>1 DEF Lent
<1>3. \A d \in Tx!Blocks : d \in s \ {has[h]} <=> d = a \/ \E g \in Handles : now[g] = d
  BY <1>2, TxNames DEF Lent
<1>4. \A g, k \in Handles : now[g] = now[k] /\ now[g] # Tx!Null => g = k
  BY <1>2 DEF Lent
<1>5. \A g \in Handles : now[g] # Tx!Null => now[g] # a
  BY <1>2 DEF Lent
<1> QED BY <1>1, <1>2, <1>3, <1>4, <1>5 DEF Lent

\* A block that changes hands: from a message to one that holds nothing ...
LEMMA HandedOver ==
    ASSUME NEW has, NEW a, NEW s, Lent(has, a, s), NEW from \in Handles, NEW to \in Handles,
           from # to, has[to] = Tx!Null
    PROVE  Lent([has EXCEPT ![to] = has[from], ![from] = Tx!Null], a, s)
<1>1. PICK now : now = [has EXCEPT ![to] = has[from], ![from] = Tx!Null]
  OBVIOUS
<1>2. /\ now \in [Handles -> Tx!Blocks \union {Tx!Null}]
      /\ now[to] = has[from] /\ now[from] = Tx!Null
      /\ \A g \in Handles \ {from, to} : now[g] = has[g]
  BY <1>1 DEF Lent
<1>3. \A d \in Tx!Blocks : d \in s <=> d = a \/ \E g \in Handles : now[g] = d
  BY <1>2, TxNames DEF Lent
<1>4. \A g, k \in Handles : now[g] = now[k] /\ now[g] # Tx!Null => g = k
  BY <1>2 DEF Lent
<1>5. \A g \in Handles : now[g] # Tx!Null => now[g] # a
  BY <1>2 DEF Lent
<1> QED BY <1>1, <1>2, <1>3, <1>4, <1>5 DEF Lent

\* ... or to the transport.
LEMMA HandedToTransport ==
    ASSUME NEW has, NEW s, Lent(has, Tx!Null, s), NEW h \in Handles, has[h] # Tx!Null
    PROVE  Lent([has EXCEPT ![h] = Tx!Null], has[h], s)
<1>1. PICK now : now = [has EXCEPT ![h] = Tx!Null]
  OBVIOUS
<1>2. /\ now \in [Handles -> Tx!Blocks \union {Tx!Null}]
      /\ now[h] = Tx!Null /\ \A g \in Handles \ {h} : now[g] = has[g]
  BY <1>1 DEF Lent
<1>3. \A d \in Tx!Blocks : d \in s <=> d = has[h] \/ \E g \in Handles : now[g] = d
  BY <1>2, TxNames DEF Lent
<1>4. \A g, k \in Handles : now[g] = now[k] /\ now[g] # Tx!Null => g = k
  BY <1>2 DEF Lent
<1>5. \A g \in Handles : now[g] # Tx!Null => now[g] # has[h]
  BY <1>2 DEF Lent
<1>6. has[h] \in Tx!Blocks \union {Tx!Null}
  BY DEF Lent
<1> QED BY <1>1, <1>2, <1>3, <1>4, <1>5, <1>6 DEF Lent

LEMMA TransportDoneWith ==
    ASSUME NEW has, NEW a, NEW s, Lent(has, a, s), a # Tx!Null
    PROVE  Lent(has, Tx!Null, s \ {a})
BY TxNames DEF Lent

LEMMA TxBound ==
    ASSUME NEW S \in SUBSET Tx!Blocks
    PROVE  IsFiniteSet(S)
<1>1. IsFiniteSet(Tx!Blocks)
  BY TxNames, FS_Interval
<1> QED BY <1>1, FS_Subset

Holders(has) == {h \in Handles : has[h] # Tx!Null}
BlocksOf(has) == {has[h] : h \in Holders(has)}

LEMMA LentCount ==
    ASSUME NEW has, NEW a, NEW s, Lent(has, a, s)
    PROVE  /\ s = BlocksOf(has) \union OneOf(a, Tx!Null)
           /\ Cardinality(s) = Cardinality(Holders(has)) + Cardinality(OneOf(a, Tx!Null))
<1> DEFINE owned == {h \in Handles : has[h] # Tx!Null}
           lent == IF a = Tx!Null THEN {} ELSE {a}
           messages == {has[h] : h \in owned}
<1>1. /\ messages \in SUBSET Tx!Blocks /\ messages \intersect lent = {}
      /\ \A c \in messages \union lent : c \in Tx!Blocks
      /\ \A c \in Tx!Blocks : c \in s <=> c \in messages \union lent
  BY TxNames DEF Lent
<1>2. s = messages \union lent
  <2>1. s \in SUBSET Tx!Blocks
    BY DEF Lent
  <2> HIDE DEF messages, lent
  <2> QED BY <1>1, <2>1
<1>3. IsFiniteSet(messages) /\ IsFiniteSet(lent)
  BY <1>1, TxBound, AtMostOne
<1>4. Cardinality(owned) = Cardinality(messages)
  <2> DEFINE f == [c \in messages |-> CHOOSE h \in owned : has[h] = c]
  <2>1. \A c \in messages : f[c] \in owned /\ has[f[c]] = c
    OBVIOUS
  <2>2. \A h \in owned : has[h] \in messages /\ f[has[h]] = h
    BY <2>1 DEF Lent
  <2>3. f \in Bijection(messages, owned)
    <3>1. f \in [messages -> owned]
      BY <2>1
    <3> HIDE DEF f, owned, messages
    <3> QED BY <2>1, <2>2, <3>1 DEF Bijection, Injection, Surjection, IsInjective
  <2>4. ExistsBijection(messages, owned)
    BY <2>3 DEF ExistsBijection
  <2> HIDE DEF owned, messages
  <2> QED BY <1>3, <2>4, FS_Bijection
<1> HIDE DEF owned, lent, messages
<1>5. Cardinality(s) = Cardinality(owned) + Cardinality(lent)
  BY <1>1, <1>2, <1>3, <1>4, DisjointCount
<1> QED BY <1>2, <1>5 DEF owned, lent, messages, Holders, BlocksOf, OneOf

Carried == [h \in Handles |-> m[h].block]

MessageFields(r) == [block |-> r.block, size |-> r.size, state |-> r.state, text |-> r.text]

\* Every message is a record of its fields, and each block that is out is its own.
TxOwners ==
    /\ m = [h \in Handles |-> MessageFields(m[h])]
    /\ Lent(Carried, m_active_tx, tx_held)

TxInv == TxList /\ TxOwners

\* What a new value of one message means for the blocks the messages have.
LEMMA MessageSet ==
    ASSUME TxInv, NEW h \in Handles, NEW r, r = MessageFields(r), m' = [m EXCEPT ![h] = r]
    PROVE  /\ m' = [g \in Handles |-> MessageFields(m'[g])]
           /\ Carried' = [Carried EXCEPT ![h] = r.block]
<1>1. m' = [g \in Handles |-> IF g = h THEN r ELSE m[g]]
  BY DEF TxInv, TxOwners
<1>2. \A g \in Handles : m[g] = MessageFields(m[g])
  BY DEF TxInv, TxOwners
<1> QED BY <1>1, <1>2 DEF Carried, MessageFields

LEMMA EmptyIsFields == EmptyMessage = MessageFields(EmptyMessage) /\ EmptyMessage.block = Tx!Null
BY DEF EmptyMessage, MessageFields

LEMMA MessageBlock ==
    ASSUME TxInv, NEW h \in Handles
    PROVE  Carried[h] = m[h].block /\ m[h] = MessageFields(m[h])
BY DEF TxInv, TxOwners, Carried

\* Setting the state of a message, or its size and its text, keeps it a record of
\* its fields, with its block.
LEMMA FieldsBuilt ==
    \A b, z, s, t, u : u = [block |-> b, size |-> z, state |-> s, text |-> t]
                         => u = MessageFields(u) /\ u.block = b
BY DEF MessageFields

LEMMA StateSet ==
    ASSUME NEW v, v = MessageFields(v), NEW state, NEW w, w = [v EXCEPT !.state = state]
    PROVE  w = MessageFields(w) /\ w.block = v.block
<1>1. PICK b, z, s, t : v = [block |-> b, size |-> z, state |-> s, text |-> t]
  BY DEF MessageFields
<1>2. w = [block |-> b, size |-> z, state |-> state, text |-> t] /\ v.block = b
  BY <1>1
<1>3. \A u : u = [block |-> b, size |-> z, state |-> state, text |-> t]
               => u = MessageFields(u) /\ u.block = b
  BY FieldsBuilt
<1> QED BY <1>2, <1>3

LEMMA SizeSet ==
    ASSUME NEW v, v = MessageFields(v), NEW size, NEW w, w = [v EXCEPT !.size = size]
    PROVE  w = MessageFields(w) /\ w.block = v.block
<1>1. PICK b, z, s, t : v = [block |-> b, size |-> z, state |-> s, text |-> t]
  BY DEF MessageFields
<1>2. w = [block |-> b, size |-> size, state |-> s, text |-> t] /\ v.block = b
  BY <1>1
<1>3. \A u : u = [block |-> b, size |-> size, state |-> s, text |-> t]
               => u = MessageFields(u) /\ u.block = b
  BY FieldsBuilt
<1> QED BY <1>2, <1>3

LEMMA TextSet ==
    ASSUME NEW v, v = MessageFields(v), NEW text, NEW w, w = [v EXCEPT !.text = text]
    PROVE  w = MessageFields(w) /\ w.block = v.block
<1>1. PICK b, z, s, t : v = [block |-> b, size |-> z, state |-> s, text |-> t]
  BY DEF MessageFields
<1>2. w = [block |-> b, size |-> z, state |-> s, text |-> text] /\ v.block = b
  BY <1>1
<1>3. \A u : u = [block |-> b, size |-> z, state |-> s, text |-> text]
               => u = MessageFields(u) /\ u.block = b
  BY FieldsBuilt
<1> QED BY <1>2, <1>3

LEMMA TxStays == ASSUME TxInv, UNCHANGED txPool PROVE TxList' /\ tx_held' = tx_held
BY DEF txPool, TxInv, TxList

LEMMA MakeKeepsOwners ==
    ASSUME TxInv, NEW h \in Handles, NEW b, make_message(h, b)
    PROVE  TxInv'
<1>1. CASE Tx!AcquireDry /\ UNCHANGED m
  <2>1. m_active_tx' = m_active_tx /\ TxList' /\ tx_held' = tx_held
    BY <1>1 DEF make_message, transport, Tx!AcquireDry, TxInv, TxList
  <2> QED BY <1>1, <2>1 DEF TxInv, TxOwners, Carried
<1>2. ASSUME NEW text, Tx!Acquire,
             m' = [m EXCEPT ![h] = [block |-> tx_free, size |-> 0, state |-> "Building",
                                    text |-> text]]
      PROVE  TxInv'
  <2>1. PICK r : r = [block |-> tx_free, size |-> 0, state |-> "Building", text |-> text]
    OBVIOUS
  <2>2. r = MessageFields(r) /\ r.block = tx_free /\ m' = [m EXCEPT ![h] = r]
    BY <1>2, <2>1 DEF MessageFields
  <2>3. /\ m' = [g \in Handles |-> MessageFields(m'[g])]
        /\ Carried' = [Carried EXCEPT ![h] = tx_free]
    BY <2>2, MessageSet
  <2>4. TxList' /\ tx_free \in Tx!Blocks \ tx_held /\ tx_held' = tx_held \union {tx_free}
    BY <1>2, TxGrants DEF TxInv
  <2>5. Carried[h] = Tx!Null
    BY MessageBlock DEF make_message
  <2>6. Lent([Carried EXCEPT ![h] = tx_free], m_active_tx, tx_held \union {tx_free})
    BY <2>4, <2>5, GrantedIsLent DEF TxInv, TxOwners
  <2>7. m_active_tx' = m_active_tx
    BY DEF make_message, transport
  <2> QED BY <2>3, <2>4, <2>6, <2>7 DEF TxInv, TxOwners
<1> QED BY <1>1, <1>2 DEF make_message

\* A message that keeps its block.
LEMMA SameBlockKeepsOwners ==
    ASSUME TxInv, NEW h \in Handles, NEW r, r = MessageFields(r), r.block = m[h].block,
           m' = [m EXCEPT ![h] = r], UNCHANGED <<txPool, m_active_tx>>
    PROVE  TxInv'
<1>1. /\ m' = [g \in Handles |-> MessageFields(m'[g])]
      /\ Carried' = [Carried EXCEPT ![h] = r.block]
  BY MessageSet
<1>2. Carried' = Carried
  BY <1>1, MessageBlock DEF Carried
<1>3. TxList' /\ tx_held' = tx_held
  BY TxStays
<1> QED BY <1>1, <1>2, <1>3 DEF TxInv, TxOwners

LEMMA MoveKeepsOwners ==
    ASSUME TxInv, NEW from \in Handles, NEW to \in Handles, move(from, to)
    PROVE  TxInv'
<1>1. /\ from # to /\ m[from].block # Tx!Null
      /\ m' = [m EXCEPT ![to] = m[from], ![from] = EmptyMessage]
      /\ m_active_tx' = m_active_tx
  BY DEF move, transport
<1>2. m' = [g \in Handles |-> IF g = from THEN EmptyMessage ELSE IF g = to THEN m[from] ELSE m[g]]
  BY <1>1 DEF TxInv, TxOwners
<1>3. \A g \in Handles : m[g] = MessageFields(m[g])
  BY DEF TxInv, TxOwners
<1>4. m' = [g \in Handles |-> MessageFields(m'[g])]
  BY <1>2, <1>3, EmptyIsFields
<1>5. PICK emptied : emptied = [Carried EXCEPT ![to] = Tx!Null]
  OBVIOUS
<1>6. Carried' = [emptied EXCEPT ![to] = emptied[from], ![from] = Tx!Null]
  <2>1. Carried' = [g \in Handles |-> IF g = from THEN Tx!Null
                                      ELSE IF g = to THEN m[from].block ELSE m[g].block]
    BY <1>2, EmptyIsFields DEF Carried
  <2>2. emptied = [g \in Handles |-> IF g = to THEN Tx!Null ELSE m[g].block]
    BY <1>5 DEF Carried
  <2> QED BY <1>1, <2>1, <2>2
<1>7. Lent(emptied, m_active_tx, tx_held \ {Carried[to]})
  BY <1>5, GivenBack DEF TxInv, TxOwners
<1>8. TxList' /\ tx_held' = tx_held \ {Carried[to]}
  <2>1. CASE m[to].block = Tx!Null
    <3>1. TxList' /\ tx_held' = tx_held
      BY <2>1, TxStays DEF move
    <3>2. Carried[to] \notin tx_held
      BY <2>1, MessageBlock, TxNames DEF TxInv, TxOwners, Lent
    <3> QED BY <3>1, <3>2
  <2>2. CASE m[to].block # Tx!Null
    BY <2>2, MessageBlock, TxTakesBack DEF move, TxInv
  <2> QED BY <2>1, <2>2
<1>9. emptied[to] = Tx!Null
  BY <1>5 DEF Carried
<1>10. Lent(Carried', m_active_tx, tx_held')
  BY <1>1, <1>6, <1>7, <1>8, <1>9, HandedOver
<1> QED BY <1>1, <1>4, <1>8, <1>10 DEF TxInv, TxOwners

LEMMA ReleaseKeepsOwners ==
    ASSUME TxInv, NEW h \in Handles, release(h)
    PROVE  TxInv'
<1>1. /\ Tx!Release(m[h].block) /\ m' = [m EXCEPT ![h] = EmptyMessage]
      /\ m_active_tx' = m_active_tx
  BY DEF release, transport
<1>2. /\ m' = [g \in Handles |-> MessageFields(m'[g])]
      /\ Carried' = [Carried EXCEPT ![h] = Tx!Null]
  BY <1>1, EmptyIsFields, MessageSet
<1>3. TxList' /\ tx_held' = tx_held \ {Carried[h]}
  BY <1>1, MessageBlock, TxTakesBack DEF TxInv
<1>4. Lent(Carried', m_active_tx, tx_held')
  BY <1>2, <1>3, GivenBack DEF TxInv, TxOwners
<1> QED BY <1>1, <1>2, <1>3, <1>4 DEF TxInv, TxOwners

LEMMA SentKeepsOwners ==
    ASSUME TxInv, NEW h \in Handles, Sent(h)
    PROVE  TxInv'
<1>1. /\ m[h].block # Tx!Null /\ m_active_tx = Tx!Null
      /\ m' = [m EXCEPT ![h] = EmptyMessage] /\ m_active_tx' = m[h].block
      /\ UNCHANGED txPool
  BY DEF Sent, Ready, tx_active
<1>2. /\ m' = [g \in Handles |-> MessageFields(m'[g])]
      /\ Carried' = [Carried EXCEPT ![h] = Tx!Null]
  BY <1>1, EmptyIsFields, MessageSet
<1>3. TxList' /\ tx_held' = tx_held
  BY <1>1, TxStays
<1>4. Lent(Carried', m_active_tx', tx_held')
  BY <1>1, <1>2, <1>3, MessageBlock, HandedToTransport DEF TxInv, TxOwners
<1> QED BY <1>2, <1>3, <1>4 DEF TxInv, TxOwners

LEMMA TransmitterKeepsOwners == ASSUME TxInv, NextTx PROVE TxInv'
<1>1. ASSUME NEW h \in Handles, NEW b, append(h, b) PROVE TxInv'
  <2>1. PICK r : r = [m[h] EXCEPT !.size = @ + 1,
                         !.text = IF m[h].state = "Building" THEN Append(@, b) ELSE @]
    OBVIOUS
  <2>2. r = MessageFields(r) /\ r.block = m[h].block
    <3>1. PICK size, text :
             size = m[h].size + 1
             /\ text = IF m[h].state = "Building" THEN Append(m[h].text, b) ELSE m[h].text
      OBVIOUS
    <3>2. r = [m[h] EXCEPT !.size = size, !.text = text]
      BY <2>1, <3>1
    <3>3. PICK v : v = m[h]
      OBVIOUS
    <3>4. v = MessageFields(v) /\ r = [v EXCEPT !.size = size, !.text = text]
      BY <3>2, <3>3, MessageBlock
    <3>5. PICK u : u = [v EXCEPT !.size = size]
      OBVIOUS
    <3>6. r = [u EXCEPT !.text = text]
      BY <3>4, <3>5
    <3>7. v = MessageFields(v)
      BY <3>4
    <3>8. u = MessageFields(u) /\ u.block = v.block
      BY <3>5, <3>7, SizeSet
    <3>9. r = MessageFields(r) /\ r.block = u.block
      BY <3>6, <3>8, TextSet
    <3> QED BY <3>3, <3>8, <3>9
  <2>3. m' = [m EXCEPT ![h] = r] /\ UNCHANGED <<txPool, m_active_tx>>
    <3>1. /\ m' = [m EXCEPT ![h].size = @ + 1,
                            ![h].text = IF m[h].state = "Building" THEN Append(@, b) ELSE @]
          /\ UNCHANGED <<txPool, m_active_tx>>
      BY <1>1 DEF append, transport
    <3>2. [m EXCEPT ![h].size = @ + 1,
                    ![h].text = IF m[h].state = "Building" THEN Append(@, b) ELSE @]
             = [m EXCEPT ![h] = r]
      BY <2>1, MessageBlock DEF TxInv, TxOwners, MessageFields
    <3> QED BY <3>1, <3>2
  <2> QED BY <2>2, <2>3, SameBlockKeepsOwners
<1>2. ASSUME NEW h \in Handles, SendFailed(h) PROVE TxInv'
  <2>1. PICK r : r = [m[h] EXCEPT !.state = "Finalized"]
    OBVIOUS
  <2>2. r = MessageFields(r) /\ r.block = m[h].block
    BY <2>1, MessageBlock, StateSet
  <2>3. m' = [m EXCEPT ![h] = r] /\ UNCHANGED <<txPool, m_active_tx>>
    BY <1>2, <2>1 DEF SendFailed, transport
  <2> QED BY <2>2, <2>3, SameBlockKeepsOwners
<1>3. ASSUME UNCHANGED <<txPool, m, m_active_tx>> PROVE TxInv'
  BY <1>3, TxStays DEF TxInv, TxOwners, Carried
<1>4. CASE bind \/ unbind \/ TransportDone
  BY <1>3, <1>4 DEF bind, unbind, TransportDone
<1>5. CASE poll
  <2>1. /\ m_active_tx # Tx!Null /\ Tx!Release(m_active_tx) /\ m_active_tx' = Tx!Null
        /\ m' = m
    BY <1>5 DEF poll, tx_active
  <2>2. TxList' /\ tx_held' = tx_held \ {m_active_tx}
    BY <2>1, TxTakesBack DEF TxInv
  <2>3. Lent(Carried, Tx!Null, tx_held \ {m_active_tx})
    BY <2>1, TransportDoneWith DEF TxInv, TxOwners
  <2> QED BY <2>1, <2>2, <2>3 DEF TxInv, TxOwners, Carried
<1>6. ASSUME NEW h \in Handles, NEW g \in Handles, move(h, g) PROVE TxInv'
  BY <1>6, MoveKeepsOwners
<1>7. ASSUME NEW h \in Handles, release(h) \/ Sent(h) PROVE TxInv'
  BY <1>7, ReleaseKeepsOwners, SentKeepsOwners
<1>8. ASSUME NEW h \in Handles, NEW b, make_message(h, b) PROVE TxInv'
  BY <1>8, MakeKeepsOwners
<1> QED BY <1>1, <1>2, <1>4, <1>5, <1>6, <1>7, <1>8 DEF NextTx

-----------------------------------------------------------------------------
LEMMA TcpInit == InitTcp => RxInv /\ TxInv
<1> SUFFICES ASSUME InitTcp PROVE RxInv /\ TxInv
  OBVIOUS
<1>1. RxInv
  <2>1. IInv /\ held = {}
    BY InitIInv DEF InitTcp, InitRx, Init
  <2>2. x = NewReceiver /\ packets = {}
    BY DEF InitTcp, InitRx
  <2>3. Owned(Null, <<>>, {}, {})
    BY NullIsNoBlock DEF Owned
  <2> QED BY <2>1, <2>2, <2>3 DEF RxInv, RxOwners, NewReceiver
<1>2. TxInv
  <2>1. /\ tx_free = 0 /\ tx_link = [b \in 0 .. TxBlocks - 1 |-> b + 1] /\ tx_held = {}
        /\ m = [h \in Handles |-> EmptyMessage] /\ m_active_tx = Tx!Null
    BY TxNames DEF InitTcp, Tx!Init
  <2>2. TxList
    BY <2>1, TcpAssumption, ThreadedList DEF TxList
  <2>3. Carried = [h \in Handles |-> Tx!Null]
    BY <2>1, EmptyIsFields DEF Carried
  <2>4. Lent(Carried, m_active_tx, tx_held)
    BY <2>1, <2>3, TxNames DEF Lent
  <2> QED BY <2>1, <2>2, <2>4, EmptyIsFields DEF TxInv, TxOwners
<1> QED BY <1>1, <1>2

LEMMA TcpStep == RxInv /\ TxInv /\ [NextTcp]_tcpVars => (RxInv /\ TxInv)'
<1> SUFFICES ASSUME RxInv, TxInv, [NextTcp]_tcpVars PROVE RxInv' /\ TxInv'
  OBVIOUS
<1>1. ASSUME UNCHANGED rxVars PROVE RxInv'
  BY <1>1, PoolStays DEF RxInv, RxOwners, rxVars
<1>2. ASSUME UNCHANGED <<txPool, m, m_active_tx>> PROVE TxInv'
  BY <1>2, TxStays DEF TxInv, TxOwners, Carried
<1>3. CASE NextRx /\ UNCHANGED <<txPool, m, tx_memory, transport, answers, wire>>
  BY <1>2, <1>3, ReceiverKeepsOwners DEF transport
<1>4. CASE NextTx /\ UNCHANGED rxVars
  BY <1>1, <1>4, TransmitterKeepsOwners
<1>5. CASE UNCHANGED tcpVars
  BY <1>1, <1>2, <1>5 DEF tcpVars, transport
<1> QED BY <1>3, <1>4, <1>5 DEF NextTcp

LEMMA InvMeansOneOwner == RxInv /\ TxInv => BlocksHaveOneOwner
<1> SUFFICES ASSUME RxInv, TxInv PROVE BlocksHaveOneOwner
  OBVIOUS
<1>1. FreeListExact /\ Tx!FreeListExact
  BY WalkIsExact, TxListExact DEF RxInv, TxInv, IInv
<1>2. LET building == IF x.building = Null THEN {} ELSE {x.building}
          queued == {x.ready[k] : k \in DOMAIN x.ready}
      IN  /\ held = building \union queued \union packets
          /\ Cardinality(held) = Cardinality(building) + Len(x.ready) + Cardinality(packets)
  <2>1. /\ held = OneOf(x.building, Null) \union Queued(x.ready) \union packets
        /\ Cardinality(held) = Cardinality(OneOf(x.building, Null)) + Len(x.ready)
                                    + Cardinality(packets)
    BY OwnedCount DEF RxInv, RxOwners
  <2> QED BY <2>1 DEF OneOf, Queued
<1>3. LET owned == {h \in Handles : m[h].block # Tx!Null}
          lent == IF tx_active THEN {m_active_tx} ELSE {}
          messages == {m[h].block : h \in owned}
      IN  /\ tx_held = messages \union lent
          /\ Cardinality(tx_held) = Cardinality(owned) + Cardinality(lent)
  <2>1. Lent(Carried, m_active_tx, tx_held)
    BY DEF TxInv, TxOwners
  <2>2. \A h \in Handles : Carried[h] = m[h].block
    BY DEF Carried
  <2>3. /\ Holders(Carried) = {h \in Handles : m[h].block # Tx!Null}
        /\ BlocksOf(Carried) = {m[h].block : h \in Holders(Carried)}
    BY <2>2 DEF Holders, BlocksOf
  <2>4. OneOf(m_active_tx, Tx!Null) = IF tx_active THEN {m_active_tx} ELSE {}
    BY DEF OneOf, tx_active
  <2>5. /\ tx_held = BlocksOf(Carried) \union OneOf(m_active_tx, Tx!Null)
        /\ Cardinality(tx_held)
              = Cardinality(Holders(Carried)) + Cardinality(OneOf(m_active_tx, Tx!Null))
    BY <2>1, LentCount
  <2> QED BY <2>3, <2>4, <2>5
<1> QED BY <1>1, <1>2, <1>3 DEF BlocksHaveOneOwner

\* Both pools of a TCP endpoint stay exact, and a block that is out has one owner
\* at any moment: the frame in flight, the queue, one packet, one message or the
\* transport.  Nothing leaks at a bad checksum, a gap, a move over a message that
\* had a block, a refused transmission or a late poll, and nothing is released
\* twice.
THEOREM TcpBlocksHaveOneOwner == TcpSpec => []BlocksHaveOneOwner
<1> QED BY TcpInit, TcpStep, InvMeansOneOwner, PTL DEF TcpSpec

-----------------------------------------------------------------------------
(***************************************************************************)
(* The Modbus TCP endpoint: what the bytes are.                            *)
(***************************************************************************)
\* What the static assertions of tcp::Layout let a format be, and a checksum that
\* is as wide as its policy says.  (They also bound the length field by 16 bits;
\* nothing below depends on it.)
TcpPolicyFits ==
    /\ Format.crc_size \in Nat /\ Format.max_data_size \in Nat
    /\ \A s \in Seq(Nat) : Checksum(s) \in Seq(Nat) /\ Len(Checksum(s)) = Format.crc_size

\* Bytes are naturals; a frame of the peer has some.
TcpDomains == Frames \subseteq Seq(Nat) \ {<<>>} /\ Payload \subseteq Nat

\* The header alone decides.
LEMMA HeaderDecides ==
    ASSUME NEW v, NEW w, Len(v) \in Nat, Len(w) \in Nat, \A k \in 1 .. 6 : v[k] = w[k]
    PROVE  (Plausible(v) <=> Plausible(w)) /\ SizeOf(v) = SizeOf(w)
BY DEF Plausible, SizeOf, LengthOf

LEMMA PlausibleSize ==
    ASSUME TcpPolicyFits, NEW v, Plausible(v)
    PROVE  /\ SizeOf(v) \in Nat /\ SizeOf(v) >= 8 /\ SizeOf(v) >= 8 + Format.crc_size
           /\ SizeOf(v) = 6 + LengthOf(v)
           /\ SizeOf(v) <= max_adu_size
BY DEF TcpPolicyFits, Plausible, SizeOf, adu_overhead, max_adu_size, adu_prefix_size, length_prefix_size

\* One byte more.
LEMMA ByteMore ==
    ASSUME NEW v \in Seq(Nat), NEW b \in Nat
    PROVE  /\ Append(v, b) \in Seq(Nat) /\ Len(Append(v, b)) = Len(v) + 1
           /\ \A k \in 1 .. Len(v) : Append(v, b)[k] = v[k]
           /\ Append(v, b)[Len(v) + 1] = b
BY AppendProperties

\* A part of a sequence.
LEMMA Part ==
    ASSUME NEW w \in Seq(Nat), NEW i \in Nat \ {0}, NEW j \in Nat, j <= Len(w)
    PROVE  /\ SubSeq(w, i, j) \in Seq(Nat)
           /\ Len(SubSeq(w, i, j)) = IF i <= j THEN j - i + 1 ELSE 0
           /\ \A k \in 1 .. j - i + 1 : SubSeq(w, i, j)[k] = w[i + k - 1]
<1>1. \A k \in i .. j : w[k] \in Nat
  OBVIOUS
<1> QED BY <1>1, SubSeqProperties

LEMMA Prefix ==
    ASSUME NEW w \in Seq(Nat), NEW j \in Nat, j <= Len(w)
    PROVE  /\ SubSeq(w, 1, j) \in Seq(Nat) /\ Len(SubSeq(w, 1, j)) = j
           /\ \A k \in 1 .. j : SubSeq(w, 1, j)[k] = w[k]
<1>1. PICK s : s = SubSeq(w, 1, j)
  OBVIOUS
<1>2. /\ s \in Seq(Nat) /\ Len(s) = IF 1 <= j THEN j - 1 + 1 ELSE 0
      /\ \A k \in 1 .. j - 1 + 1 : s[k] = w[1 + k - 1]
  BY <1>1, Part
<1>3. Len(s) = j
  BY <1>2
<1>4. \A k \in 1 .. j : s[k] = w[k]
  BY <1>2
<1> QED BY <1>1, <1>2, <1>3, <1>4

\* What is left from p on, with one byte more.
LEMMA PartGrows ==
    ASSUME NEW w \in Seq(Nat), NEW b \in Nat, NEW p \in 1 .. Len(w) + 1
    PROVE  /\ SubSeq(w, p, Len(w)) \in Seq(Nat)
           /\ Len(SubSeq(w, p, Len(w))) = Len(w) + 1 - p
           /\ SubSeq(Append(w, b), p, Len(w) + 1) = Append(SubSeq(w, p, Len(w)), b)
<1>1. PICK v : v = SubSeq(w, p, Len(w))
  OBVIOUS
<1>2. PICK ww : ww = Append(w, b)
  OBVIOUS
<1>3. PICK n, vv : n = Len(w) + 1 /\ vv = SubSeq(ww, p, n)
  OBVIOUS
<1>4. /\ ww \in Seq(Nat) /\ Len(ww) = n /\ n \in Nat /\ p \in 1 .. n /\ Len(w) = n - 1
      /\ \A k \in 1 .. n - 1 : ww[k] = w[k]
      /\ ww[n] = b
  BY <1>2, <1>3, ByteMore
<1>5. v \in Seq(Nat) /\ Len(v) = n - p /\ \A k \in 1 .. n - p : v[k] = w[p + k - 1]
  <2>1. p \in Nat \ {0} /\ Len(w) \in Nat
    OBVIOUS
  <2>2. /\ v \in Seq(Nat) /\ Len(v) = IF p <= Len(w) THEN Len(w) - p + 1 ELSE 0
        /\ \A k \in 1 .. Len(w) - p + 1 : v[k] = w[p + k - 1]
    BY <1>1, <2>1, Part
  <2> QED BY <1>3, <2>1, <2>2
<1>6. /\ vv \in Seq(Nat) /\ Len(vv) = n - p + 1
      /\ \A k \in 1 .. n - p + 1 : vv[k] = ww[p + k - 1]
  <2>1. p \in Nat \ {0} /\ n \in Nat /\ p <= n /\ n <= Len(ww)
    BY <1>4
  <2>2. /\ vv \in Seq(Nat) /\ Len(vv) = IF p <= n THEN n - p + 1 ELSE 0
        /\ \A k \in 1 .. n - p + 1 : vv[k] = ww[p + k - 1]
    BY <1>3, <1>4, <2>1, Part
  <2> QED BY <2>1, <2>2
<1>7. PICK u : u = Append(v, b)
  OBVIOUS
<1>8. u \in Seq(Nat) /\ Len(u) = Len(v) + 1 /\ (\A k \in 1 .. Len(v) : u[k] = v[k])
      /\ u[Len(v) + 1] = b
  BY <1>5, <1>7, ByteMore
<1>9. \A k \in 1 .. Len(vv) : vv[k] = u[k]
  <2> SUFFICES ASSUME NEW k \in 1 .. n - p + 1 PROVE vv[k] = u[k]
    BY <1>6
  <2>0. vv[k] = ww[p + k - 1] /\ p + k - 1 \in 1 .. n
    BY <1>4, <1>6
  <2>1. CASE k <= n - p
    <3>1. k \in 1 .. n - p /\ p + k - 1 \in 1 .. n - 1
      BY <1>4, <2>1
    <3>2. v[k] = w[p + k - 1] /\ ww[p + k - 1] = w[p + k - 1] /\ u[k] = v[k]
      BY <1>4, <1>5, <1>8, <3>1
    <3> QED BY <2>0, <3>2
  <2>2. CASE k = n - p + 1
    <3>1. p + k - 1 = n /\ k = Len(v) + 1
      BY <1>4, <1>5, <2>2
    <3> QED BY <1>4, <1>8, <2>0, <3>1
  <2> QED BY <1>4, <2>1, <2>2
<1>10. vv = u
  <2>1. Len(vv) = Len(u)
    BY <1>4, <1>5, <1>6, <1>8
  <2> QED BY <1>6, <1>8, <1>9, <2>1, SeqEqual
<1>11. vv = SubSeq(Append(w, b), p, Len(w) + 1) /\ u = Append(SubSeq(w, p, Len(w)), b)
  BY <1>1, <1>2, <1>3, <1>7
<1>12. Len(v) = Len(w) + 1 - p
  BY <1>3, <1>5
<1> QED BY <1>1, <1>5, <1>10, <1>11, <1>12

\* Induction over the places of a sequence, from its end down.
LEMMA Downwards ==
    ASSUME NEW n \in Nat, NEW S, \A p \in 1 .. n : p + 1 .. n \subseteq S => p \in S
    PROVE  1 .. n \subseteq S
<1> DEFINE T == {n - p : p \in (1 .. n) \ S}
<1> SUFFICES ASSUME T # {} PROVE FALSE
  OBVIOUS
<1>1. PICK least \in T : \A y \in T : least <= y
  <2>1. T \in SUBSET Nat
    OBVIOUS
  <2> HIDE DEF T
  <2> QED BY <2>1, LeastElement
<1>2. PICK p \in (1 .. n) \ S : least = n - p
  BY <1>1
<1>3. p + 1 .. n \subseteq S
  <2> SUFFICES ASSUME NEW k \in p + 1 .. n, k \notin S PROVE FALSE
    OBVIOUS
  <2>1. n - k \in T
    BY <1>2
  <2> HIDE DEF T
  <2>2. n - p <= n - k
    BY <1>1, <1>2, <2>1
  <2> QED BY <2>2
<1> QED BY <1>2, <1>3

-----------------------------------------------------------------------------
(* How the lengths cut what was heard.  Pieces is a recursive function, a    *)
(* CHOOSE: that one exists is shown by building it from its last place down. *)

LEMMA PiecesDefined ==
    ASSUME NEW w, \E f : f = [p \in 1 .. Len(w) + 1 |-> Piece(w, f, p)]
    PROVE  Pieces(w) = [p \in 1 .. Len(w) + 1 |-> Piece(w, Pieces(w), p)]
<1> DEFINE G == CHOOSE f : f = [p \in 1 .. Len(w) + 1 |-> Piece(w, f, p)]
<1>1. Pieces(w) = G
  BY Zenon DEF Pieces
<1>2. G = [p \in 1 .. Len(w) + 1 |-> Piece(w, G, p)]
  <2> HIDE DEF Piece
  <2> QED BY Zenon
<1> QED BY <1>1, <1>2

\* A frame that lies in w from p on ends before another place of w.
LEMMA NextPlace ==
    ASSUME TcpPolicyFits, NEW w \in Seq(Nat), NEW p \in 1 .. Len(w) + 1,
           NEW v, v = SubSeq(w, p, Len(w)), BeginsWhole(v)
    PROVE  p + SizeOf(v) \in p + 1 .. Len(w) + 1
<1>1. Len(v) = Len(w) + 1 - p
  BY PartGrows, 0 \in Nat
<1>2. SizeOf(v) \in Nat /\ SizeOf(v) >= 8 /\ Len(v) >= SizeOf(v)
  BY PlausibleSize DEF BeginsWhole
<1> QED BY <1>1, <1>2

LEMMA PieceLocal ==
    ASSUME TcpPolicyFits, NEW w \in Seq(Nat), NEW p \in 1 .. Len(w) + 1, NEW f, NEW g,
           \A q \in p + 1 .. Len(w) + 1 : f[q] = g[q]
    PROVE  Piece(w, f, p) = Piece(w, g, p)
<1>1. PICK v : v = SubSeq(w, p, Len(w))
  OBVIOUS
<1>2. BeginsWhole(v) => f[p + SizeOf(v)] = g[p + SizeOf(v)]
  BY <1>1, NextPlace
<1> QED BY <1>1, <1>2 DEF Piece

LEMMA PiecesExist ==
    ASSUME TcpPolicyFits, NEW w \in Seq(Nat)
    PROVE  \E f : f = [p \in 1 .. Len(w) + 1 |-> Piece(w, f, p)]
<1> DEFINE end == Len(w) + 1
           Good(f, k) == f = [p \in k .. end |-> Piece(w, f, p)]
           S == {k \in 1 .. end : \E f : Good(f, k)}
<1>1. ASSUME NEW k \in 1 .. end, k + 1 .. end \subseteq S PROVE k \in S
  <2>1. \E h : \A p \in k + 1 .. end : h[p] = Piece(w, h, p)
    <3>1. CASE k = end
      <4>1. k + 1 .. end = {}
        BY <3>1
      <4> QED BY <4>1
    <3>2. CASE k # end
      <4>1. PICK h : Good(h, k + 1)
        <5>1. k + 1 \in k + 1 .. end
          BY <3>2
        <5>2. k + 1 \in S
          BY <1>1, <5>1
        <5> HIDE DEF Good
        <5> QED BY <5>2
      <4> HIDE DEF Piece
      <4> QED BY <4>1
    <3> QED BY <3>1, <3>2
  <2>2. PICK h : \A p \in k + 1 .. end : h[p] = Piece(w, h, p)
    BY <2>1
  <2> DEFINE f == [p \in k .. end |-> IF p = k THEN Piece(w, h, k) ELSE h[p]]
  <2>3. \A p \in k + 1 .. end : f[p] = h[p]
    OBVIOUS
  <2>4. f[k] = Piece(w, h, k)
    OBVIOUS
  <2>5. f = [p \in k .. end |-> f[p]]
    OBVIOUS
  <2> HIDE DEF f
  <2>6. \A p \in k .. end : Piece(w, f, p) = Piece(w, h, p)
    BY <2>3, PieceLocal
  <2>7. \A p \in k .. end : f[p] = Piece(w, f, p)
    BY <2>2, <2>3, <2>4, <2>6
  <2>8. Good(f, k)
    <3> HIDE DEF Piece
    <3> QED BY <2>5, <2>7
  <2> QED BY <2>8
<1>2. 1 \in S
  <2>1. end \in Nat /\ 1 \in 1 .. end
    OBVIOUS
  <2> HIDE DEF S, end
  <2> QED BY <1>1, <2>1, Downwards
<1> QED BY <1>2

LEMMA PiecesUnfold ==
    ASSUME TcpPolicyFits, NEW w \in Seq(Nat), NEW p \in 1 .. Len(w) + 1
    PROVE  Pieces(w)[p] = Piece(w, Pieces(w), p)
<1>1. Pieces(w) = [q \in 1 .. Len(w) + 1 |-> Piece(w, Pieces(w), q)]
  BY PiecesExist, PiecesDefined
<1> HIDE DEF Piece
<1> QED BY <1>1

\* What one byte more makes of a cut.
Grown(cut, b) ==
    LET e == Append(cut.left, b)
    IN  IF BeginsWhole(e) THEN [frames |-> Append(cut.frames, e), left |-> <<>>]
        ELSE [frames |-> cut.frames, left |-> e]

\* A cut is some frames and something that no frame lies at the front of.
IsCut(cut) ==
    /\ cut = [frames |-> cut.frames, left |-> cut.left]
    /\ cut.frames \in Seq(Seq(Nat)) /\ cut.left \in Seq(Nat) /\ ~BeginsWhole(cut.left)

\* A byte completes a frame at most, and then nothing is left.
LEMMA CompletesExactly ==
    ASSUME TcpPolicyFits, NEW v \in Seq(Nat), ~BeginsWhole(v), NEW b \in Nat,
           NEW e, e = Append(v, b), BeginsWhole(e)
    PROVE  SizeOf(e) = Len(e)
<1>1. e \in Seq(Nat) /\ Len(e) = Len(v) + 1 /\ \A k \in 1 .. Len(v) : e[k] = v[k]
  BY ByteMore
<1>2. SizeOf(e) \in Nat /\ SizeOf(e) >= 8 /\ Len(e) >= SizeOf(e) /\ Plausible(e)
  BY PlausibleSize DEF BeginsWhole
<1>3. Len(v) >= 6 /\ Len(v) \in Nat
  BY <1>1, <1>2
<1>4. Plausible(v) /\ SizeOf(v) = SizeOf(e)
  <2>1. \A k \in 1 .. 6 : v[k] = e[k]
    BY <1>1, <1>3
  <2>2. Len(e) \in Nat
    BY <1>1
  <2> QED BY <1>2, <1>3, <2>1, <2>2, HeaderDecides
<1>5. ~(Len(v) >= SizeOf(v))
  BY <1>3, <1>4 DEF BeginsWhole, length_prefix_size
<1> QED BY <1>1, <1>2, <1>3, <1>4, <1>5

\* A byte after a whole frame changes nothing of it.
LEMMA WholeStays ==
    ASSUME TcpPolicyFits, NEW v \in Seq(Nat), BeginsWhole(v), NEW b \in Nat,
           NEW e, e = Append(v, b)
    PROVE  /\ BeginsWhole(e) /\ SizeOf(e) = SizeOf(v) /\ SizeOf(v) \in Nat \ {0}
           /\ SubSeq(e, 1, SizeOf(v)) = SubSeq(v, 1, SizeOf(v))
           /\ SubSeq(v, 1, SizeOf(v)) \in Seq(Nat)
<1>1. e \in Seq(Nat) /\ Len(e) = Len(v) + 1 /\ \A k \in 1 .. Len(v) : e[k] = v[k]
  BY ByteMore
<1>2. PICK size : size = SizeOf(v)
  OBVIOUS
<1>3. size \in Nat \ {0} /\ Len(v) >= size /\ Len(v) >= 6 /\ Plausible(v)
  BY <1>2, PlausibleSize DEF BeginsWhole, length_prefix_size
<1>4. Plausible(e) /\ SizeOf(e) = size
  <2>1. \A k \in 1 .. 6 : v[k] = e[k]
    BY <1>1, <1>3
  <2>2. Len(e) \in Nat /\ Len(v) \in Nat
    BY <1>1
  <2> QED BY <1>2, <1>3, <2>1, <2>2, HeaderDecides
<1>5. BeginsWhole(e)
  BY <1>1, <1>3, <1>4 DEF BeginsWhole, length_prefix_size
<1>6. PICK s, t : s = SubSeq(v, 1, size) /\ t = SubSeq(e, 1, size)
  OBVIOUS
<1>7. /\ s \in Seq(Nat) /\ Len(s) = size /\ t \in Seq(Nat) /\ Len(t) = size
      /\ \A k \in 1 .. size : s[k] = v[k] /\ t[k] = e[k]
  <2>1. size <= Len(v) /\ size <= Len(e) /\ size \in Nat
    BY <1>1, <1>3
  <2> QED BY <1>1, <1>6, <2>1, Prefix
<1>8. \A k \in 1 .. Len(s) : s[k] = t[k]
  <2>1. PICK n : n = Len(v)
    OBVIOUS
  <2>2. n \in Nat /\ size \in Nat /\ size <= n
    BY <1>3, <2>1
  <2>3. \A k \in 1 .. size : k \in 1 .. n
    BY <2>2
  <2>4. \A k \in 1 .. size : s[k] = v[k] /\ t[k] = e[k] /\ e[k] = v[k]
    BY <1>1, <1>7, <2>1, <2>3, Zenon
  <2>5. \A k \in 1 .. size : s[k] = t[k]
    BY <2>4, Zenon
  <2> QED BY <1>7, <2>5, Zenon
<1>9. s = t
  BY <1>7, <1>8, SeqEqual
<1> QED BY <1>2, <1>3, <1>4, <1>5, <1>6, <1>7, <1>9

Behind(f, cut) == [frames |-> <<f>> \o cut.frames, left |-> cut.left]

\* The first frame of a longer cut is not touched by what grows at its end.
LEMMA GrownBehind ==
    ASSUME NEW f \in Seq(Nat), NEW cut, IsCut(cut), NEW b \in Nat
    PROVE  /\ IsCut(Behind(f, cut))
           /\ Grown(Behind(f, cut), b) = Behind(f, Grown(cut, b))
<1>0. PICK longer, grown :
         /\ longer = [frames |-> <<f>> \o cut.frames, left |-> cut.left]
         /\ grown = Grown(cut, b)
  OBVIOUS
<1>1. longer.left = cut.left /\ longer.frames = <<f>> \o cut.frames
  BY <1>0
<1>2. cut.frames \in Seq(Seq(Nat)) /\ cut.left \in Seq(Nat)
  BY DEF IsCut
<1>3. <<f>> \o cut.frames \in Seq(Seq(Nat))
  BY <1>2
<1>4. IsCut(longer)
  BY <1>0, <1>1, <1>3 DEF IsCut
<1>5. PICK e : e = Append(cut.left, b)
  OBVIOUS
<1>6. e \in Seq(Nat)
  BY <1>2, <1>5
<1>7. Append(<<f>> \o cut.frames, e) = <<f>> \o Append(cut.frames, e)
  <2>1. PICK S, fs, t : S = Seq(Nat) /\ fs = cut.frames /\ t = <<f>>
    OBVIOUS
  <2>2. fs \in Seq(S) /\ t \in Seq(S) /\ e \in S /\ <<e>> \in Seq(S) /\ t \o fs \in Seq(S)
    BY <1>2, <1>3, <1>6, <2>1
  <2>3. Append(t \o fs, e) = (t \o fs) \o <<e>> /\ Append(fs, e) = fs \o <<e>>
    BY <2>2, AppendIsConcat
  <2>4. (t \o fs) \o <<e>> = t \o (fs \o <<e>>)
    BY <2>2, ConcatAssociative
  <2> QED BY <2>1, <2>3, <2>4
<1>8. ASSUME BeginsWhole(e)
      PROVE  Grown(longer, b) = [frames |-> <<f>> \o grown.frames, left |-> grown.left]
  <2>1. grown = [frames |-> Append(cut.frames, e), left |-> <<>>]
    BY <1>0, <1>5, <1>8 DEF Grown
  <2>2. Grown(longer, b) = [frames |-> Append(<<f>> \o cut.frames, e), left |-> <<>>]
    BY <1>1, <1>5, <1>8 DEF Grown
  <2>3. grown.frames = Append(cut.frames, e) /\ grown.left = <<>>
    BY <2>1
  <2> QED BY <1>7, <2>2, <2>3
<1>9. ASSUME ~BeginsWhole(e)
      PROVE  Grown(longer, b) = [frames |-> <<f>> \o grown.frames, left |-> grown.left]
  <2>1. grown = [frames |-> cut.frames, left |-> e]
    BY <1>0, <1>5, <1>9 DEF Grown
  <2>2. Grown(longer, b) = [frames |-> <<f>> \o cut.frames, left |-> e]
    BY <1>1, <1>5, <1>9 DEF Grown
  <2>3. grown.frames = cut.frames /\ grown.left = e
    BY <2>1
  <2> QED BY <2>2, <2>3
<1>10. /\ IsCut(longer)
       /\ Grown(longer, b) = [frames |-> <<f>> \o grown.frames, left |-> grown.left]
  BY <1>4, <1>8, <1>9
<1> QED BY <1>0, <1>10 DEF Behind

\* The cut of a word, and of the word with one byte more.
LEMMA CutGrows ==
    ASSUME TcpPolicyFits, NEW w \in Seq(Nat), NEW b \in Nat
    PROVE  IsCut(Cut(w)) /\ Cut(Append(w, b)) = Grown(Cut(w), b)
<1>1. PICK n, ww : n = Len(w) + 1 /\ ww = Append(w, b)
  OBVIOUS
<1>2. /\ n \in Nat \ {0} /\ ww \in Seq(Nat) /\ Len(ww) = n /\ Len(w) = n - 1
  BY <1>1, ByteMore
<1>3. PICK old, new : old = Pieces(w) /\ new = Pieces(ww)
  OBVIOUS
<1> DEFINE S == {p \in 1 .. n : IsCut(old[p]) /\ new[p] = Grown(old[p], b)}
<1>4. ASSUME NEW p \in 1 .. n, p + 1 .. n \subseteq S PROVE p \in S
  <2>1. p \in 1 .. Len(w) + 1 /\ p \in 1 .. Len(ww) + 1
    BY <1>1, <1>2
  <2>2. PICK v, vv : v = SubSeq(w, p, Len(w)) /\ vv = SubSeq(ww, p, Len(ww))
    OBVIOUS
  <2>3. v \in Seq(Nat) /\ Len(v) = n - p /\ vv = Append(v, b)
    <3>1. /\ SubSeq(w, p, Len(w)) \in Seq(Nat) /\ Len(SubSeq(w, p, Len(w))) = Len(w) + 1 - p
          /\ SubSeq(Append(w, b), p, Len(w) + 1) = Append(SubSeq(w, p, Len(w)), b)
      BY <2>1, PartGrows
    <3>2. Len(w) + 1 = n /\ Len(w) + 1 = Len(ww)
      BY <1>1, <1>2
    <3>3. Len(w) + 1 - p = n - p
      BY <3>2
    <3>4. vv = Append(v, b)
      BY <1>1, <2>2, <3>1, <3>2, Zenon
    <3>5. v \in Seq(Nat) /\ Len(v) = n - p
      BY <2>2, <3>1, <3>3, Zenon
    <3> QED BY <3>4, <3>5
  <2>4. vv \in Seq(Nat) /\ Len(vv) = n - p + 1
    BY <1>2, <2>3, ByteMore
  <2>5. /\ old[p] = Piece(w, old, p) /\ new[p] = Piece(ww, new, p)
    BY <1>2, <1>3, <2>1, PiecesUnfold
  <2>6. CASE BeginsWhole(v)
    <3>1. PICK size, q, f : size = SizeOf(v) /\ q = p + size /\ f = SubSeq(v, 1, size)
      OBVIOUS
    <3>2. q \in p + 1 .. n
      BY <1>1, <2>1, <2>2, <2>6, <3>1, NextPlace
    <3>3. IsCut(old[q]) /\ new[q] = Grown(old[q], b)
      BY <1>4, <3>2
    <3>4. BeginsWhole(vv) /\ SizeOf(vv) = size /\ SubSeq(vv, 1, size) = f /\ f \in Seq(Nat)
      BY <2>3, <2>6, <3>1, WholeStays
    <3>5. old[p] = [frames |-> <<f>> \o old[q].frames, left |-> old[q].left]
      BY <2>2, <2>5, <2>6, <3>1 DEF Piece
    <3>6. new[p] = [frames |-> <<f>> \o new[q].frames, left |-> new[q].left]
      BY <2>2, <2>5, <3>1, <3>4 DEF Piece
    <3>7. IsCut(old[p]) /\ Grown(old[p], b) = new[p]
      <4>1. old[p] = Behind(f, old[q]) /\ new[p] = Behind(f, new[q])
        BY <3>5, <3>6 DEF Behind
      <4>2. IsCut(Behind(f, old[q])) /\ Grown(Behind(f, old[q]), b) = Behind(f, Grown(old[q], b))
        BY <3>3, <3>4, GrownBehind
      <4> QED BY <3>3, <4>1, <4>2
    <3> QED BY <3>7
  <2>7. CASE ~BeginsWhole(v)
    <3>1. old[p] = [frames |-> <<>>, left |-> v]
      BY <2>2, <2>5, <2>7 DEF Piece
    <3>2. IsCut(old[p])
      BY <2>3, <2>7, <3>1 DEF IsCut
    <3>3. CASE BeginsWhole(vv)
      <4>1. SizeOf(vv) = Len(vv)
        BY <2>3, <2>7, <3>3, CompletesExactly
      <4>2. PICK q : q = p + SizeOf(vv)
        OBVIOUS
      <4>3. q = n + 1 /\ q \in 1 .. Len(ww) + 1
        BY <1>2, <2>4, <4>1, <4>2
      <4>4. new[q] = [frames |-> <<>>, left |-> <<>>]
        <5>1. new[q] = Piece(ww, new, q)
          BY <1>2, <1>3, <4>3, PiecesUnfold
        <5>2. SubSeq(ww, q, Len(ww)) = <<>>
          BY <1>2, <4>3, SubSeqEmpty
        <5>3. ~BeginsWhole(<<>>)
          BY DEF BeginsWhole, length_prefix_size
        <5> QED BY <5>1, <5>2, <5>3 DEF Piece
      <4>5. SubSeq(vv, 1, Len(vv)) = vv
        BY <2>4
      <4>6. new[p] = [frames |-> <<vv>> \o <<>>, left |-> <<>>]
        <5>1. new[q].frames = <<>> /\ new[q].left = <<>>
          BY <4>4
        <5>2. new[p] = [frames |-> <<SubSeq(vv, 1, SizeOf(vv))>> \o new[q].frames,
                        left |-> new[q].left]
          BY <2>2, <2>5, <3>3, <4>2 DEF Piece
        <5> QED BY <4>1, <4>5, <5>1, <5>2
      <4>7. Grown(old[p], b) = [frames |-> Append(<<>>, vv), left |-> <<>>]
        BY <2>3, <3>1, <3>3 DEF Grown
      <4>8. Append(<<>>, vv) = <<vv>> \o <<>>
        BY <2>4
      <4> QED BY <3>2, <4>6, <4>7, <4>8
    <3>4. CASE ~BeginsWhole(vv)
      <4>1. new[p] = [frames |-> <<>>, left |-> vv]
        BY <2>2, <2>5, <3>4 DEF Piece
      <4>2. Grown(old[p], b) = [frames |-> <<>>, left |-> vv]
        BY <2>3, <3>1, <3>4 DEF Grown
      <4> QED BY <3>2, <4>1, <4>2
    <3> QED BY <3>3, <3>4
  <2> QED BY <2>6, <2>7
<1>5. 1 \in S
  <2>1. n \in Nat /\ 1 \in 1 .. n
    BY <1>2
  <2> HIDE DEF S
  <2> QED BY <1>4, <2>1, Downwards
<1> QED BY <1>1, <1>3, <1>5 DEF Cut

LEMMA CutOfNothing ==
    ASSUME TcpPolicyFits
    PROVE  Cut(<<>>) = [frames |-> <<>>, left |-> <<>>]
<1>1. Pieces(<<>>)[1] = Piece(<<>>, Pieces(<<>>), 1)
  <2>1. <<>> \in Seq(Nat) /\ 1 \in 1 .. Len(<<>>) + 1
    OBVIOUS
  <2> QED BY <2>1, PiecesUnfold
<1>2. SubSeq(<<>>, 1, Len(<<>>)) = <<>> /\ ~BeginsWhole(<<>>)
  BY DEF BeginsWhole, length_prefix_size
<1> QED BY <1>1, <1>2 DEF Piece, Cut

\* A frame, as long as its header has it.
Exactly(v) == v \in Seq(Nat) /\ BeginsWhole(v) /\ SizeOf(v) = Len(v)

LEMMA ExactlyIsFrame ==
    ASSUME TcpPolicyFits, NEW v, Exactly(v)
    PROVE  IsFrame(v)
<1>1. v \in Seq(Nat) /\ BeginsWhole(v) /\ SizeOf(v) = Len(v) /\ Len(v) \in Nat
  BY DEF Exactly
<1>2. PICK f, q : f = Pieces(v) /\ q = 1 + Len(v)
  OBVIOUS
<1>3. q \in 1 .. Len(v) + 1 /\ 1 \in 1 .. Len(v) + 1
  BY <1>1, <1>2
<1>4. f[1] = Piece(v, f, 1) /\ f[q] = Piece(v, f, q)
  BY <1>1, <1>2, <1>3, PiecesUnfold
<1>5. SubSeq(v, q, Len(v)) = <<>> /\ ~BeginsWhole(<<>>) /\ SubSeq(v, 1, Len(v)) = v
  <2>1. SubSeq(v, q, Len(v)) = <<>>
    BY <1>1, <1>2, SubSeqEmpty
  <2>2. ~BeginsWhole(<<>>)
    BY DEF BeginsWhole, length_prefix_size
  <2> QED BY <1>1, <2>1, <2>2
<1>6. f[q] = [frames |-> <<>>, left |-> <<>>]
  BY <1>4, <1>5 DEF Piece
<1>7. f[1] = [frames |-> <<v>> \o <<>>, left |-> <<>>]
  <2>1. f[q].frames = <<>> /\ f[q].left = <<>>
    BY <1>6
  <2>2. f[1] = [frames |-> <<SubSeq(v, 1, SizeOf(v))>> \o f[q].frames, left |-> f[q].left]
    BY <1>1, <1>2, <1>4, <1>5 DEF Piece
  <2> QED BY <1>1, <1>5, <2>1, <2>2
<1>8. <<v>> \o <<>> = <<v>>
  BY <1>1
<1> QED BY <1>2, <1>7, <1>8 DEF IsFrame, Cut

-----------------------------------------------------------------------------
(***************************************************************************)
(* What the receiver makes of what it heard.                               *)
(***************************************************************************)
RxTypes ==
    /\ x.m_state \in {"Header", "Body", "Skip", "Failed"}
    /\ x.header \in Seq(Nat) /\ x.remaining \in Nat
    /\ heard \in Seq(Nat) /\ rest \in Seq(Nat) /\ log \in Seq(Seq(Nat))
    /\ memory \in [Blocks -> Seq(Nat)]

\* Whatever is out of the pool, but the frame under way, is whole and verified.
WholeElsewhere == \A c \in held \ {x.building} : Exactly(memory[c]) /\ Verified(memory[c])

\* The header can be believed, and n bytes are to come.
Awaits(v, n) == Plausible(v) /\ Len(v) >= 6 /\ n # 0 /\ Len(v) + n = SizeOf(v)

\* The frames passed, so far as they were not skipped.
Passes(entries, frames) ==
    \A k \in DOMAIN entries :
        entries[k] # Skipped => /\ k <= Len(frames) /\ entries[k] = frames[k]
                                /\ Verified(entries[k])

Follows(cut, y, mem, entries, word) ==
    /\ Passes(entries, cut.frames)
    /\ y.m_state # "Failed" => Len(entries) = Len(cut.frames)
    /\ y.m_state = "Header" => y.header = cut.left /\ Len(cut.left) < 6
    /\ y.m_state = "Body" => mem[y.building] = cut.left /\ Awaits(cut.left, y.remaining)
    /\ y.m_state = "Skip" => Awaits(cut.left, y.remaining)
    /\ y.m_state = "Failed" /\ word # <<>> =>
          \/ Len(entries) = Len(cut.frames) /\ Len(cut.left) = 6 /\ ~Plausible(cut.left)
          \/ /\ Len(entries) = Len(cut.frames) - 1 /\ cut.left = <<>>
             /\ ~Verified(cut.frames[Len(cut.frames)])

FrameInv == RxTypes /\ WholeElsewhere /\ Follows(Cut(heard), x, memory, log, heard)

\* One frame more leaves the log true of the frames before.
LEMMA PassesKept ==
    ASSUME NEW frames \in Seq(Seq(Nat)), NEW entries \in Seq(Seq(Nat)),
           Passes(entries, frames), NEW e \in Seq(Nat)
    PROVE  Passes(entries, Append(frames, e))
<1>1. PICK S, more : S = Seq(Nat) /\ more = Append(frames, e)
  OBVIOUS
<1>2. Len(more) = Len(frames) + 1 /\ \A k \in 1 .. Len(frames) : more[k] = frames[k]
  BY <1>1, AppendProperties
<1>3. \A k \in DOMAIN entries : k \in Nat \ {0}
  OBVIOUS
<1>4. Len(frames) \in Nat
  OBVIOUS
<1>5. ASSUME NEW k \in DOMAIN entries, entries[k] # Skipped
      PROVE  k <= Len(more) /\ entries[k] = more[k] /\ Verified(entries[k])
  <2>1. k <= Len(frames) /\ entries[k] = frames[k] /\ Verified(entries[k])
    BY <1>5 DEF Passes
  <2>2. k \in 1 .. Len(frames)
    BY <1>3, <1>4, <2>1
  <2>3. more[k] = frames[k]
    BY <1>2, <2>2
  <2> QED BY <1>2, <1>4, <2>1, <2>2, <2>3
<1>6. Passes(entries, more)
  BY <1>5 DEF Passes
<1> QED BY <1>1, <1>6

\* The next entry is the next frame, or says that it was skipped.
LEMMA PassesMore ==
    ASSUME NEW frames \in Seq(Seq(Nat)), NEW entries \in Seq(Seq(Nat)),
           Passes(entries, frames), Len(entries) = Len(frames), NEW e \in Seq(Nat),
           NEW what \in Seq(Nat), what # Skipped => what = e /\ Verified(e)
    PROVE  /\ Passes(Append(entries, what), Append(frames, e))
           /\ Append(entries, what) \in Seq(Seq(Nat))
           /\ Len(Append(entries, what)) = Len(Append(frames, e))
<1>1. PICK S, more, longer : S = Seq(Nat) /\ more = Append(frames, e) /\ longer = Append(entries, what)
  OBVIOUS
<1>2. PICK n : n = Len(frames) + 1
  OBVIOUS
<1>3. /\ Len(more) = n /\ (\A k \in 1 .. n - 1 : more[k] = frames[k]) /\ more[n] = e
  BY <1>1, <1>2, AppendProperties
<1>4. /\ longer \in Seq(S) /\ Len(longer) = n /\ (\A k \in 1 .. n - 1 : longer[k] = entries[k])
      /\ longer[n] = what
  BY <1>1, <1>2, AppendProperties
<1>5. n \in Nat \ {0} /\ DOMAIN longer = 1 .. n /\ DOMAIN entries = 1 .. n - 1 /\ Len(frames) = n - 1
  BY <1>2, <1>4
<1>6. ASSUME NEW k \in 1 .. n, longer[k] # Skipped
      PROVE  k <= n /\ longer[k] = more[k] /\ Verified(longer[k])
  <2>1. CASE k = n
    BY <1>3, <1>4, <1>5, <1>6, <2>1
  <2>2. CASE k # n
    <3>1. k \in 1 .. n - 1
      BY <1>5, <2>2
    <3>2. longer[k] = entries[k] /\ more[k] = frames[k] /\ k \in DOMAIN entries
      BY <1>3, <1>4, <1>5, <3>1
    <3>3. entries[k] = frames[k] /\ Verified(entries[k])
      BY <1>6, <3>2 DEF Passes
    <3> QED BY <1>5, <3>1, <3>2, <3>3
  <2> QED BY <2>1, <2>2
<1>7. Passes(longer, more)
  BY <1>3, <1>5, <1>6 DEF Passes
<1> QED BY <1>1, <1>3, <1>4, <1>7

\* What the invariant says of the word heard, and of the word with b.
LEMMA Hears ==
    ASSUME TcpPolicyFits, FrameInv, NEW b \in Nat, heard' = Append(heard, b)
    PROVE  \E cut, e :
             /\ IsCut(cut) /\ Follows(cut, x, memory, log, heard)
             /\ e = Append(cut.left, b) /\ e \in Seq(Nat) /\ Len(e) = Len(cut.left) + 1
             /\ \A k \in 1 .. Len(cut.left) : e[k] = cut.left[k]
             /\ heard' \in Seq(Nat) /\ heard' # <<>>
             /\ Cut(heard') = IF BeginsWhole(e)
                              THEN [frames |-> Append(cut.frames, e), left |-> <<>>]
                              ELSE [frames |-> cut.frames, left |-> e]
<1>1. PICK cut : cut = Cut(heard)
  OBVIOUS
<1>2. heard \in Seq(Nat)
  BY DEF FrameInv, RxTypes
<1>3. IsCut(cut) /\ Cut(heard') = Grown(cut, b)
  BY <1>1, <1>2, CutGrows
<1>4. cut.left \in Seq(Nat)
  BY <1>3 DEF IsCut
<1>5. PICK e : e = Append(cut.left, b)
  OBVIOUS
<1>6. e \in Seq(Nat) /\ Len(e) = Len(cut.left) + 1 /\ \A k \in 1 .. Len(cut.left) : e[k] = cut.left[k]
  BY <1>4, <1>5, ByteMore
<1>7. heard' \in Seq(Nat) /\ heard' # <<>>
  BY <1>2, AppendProperties
<1> QED BY <1>1, <1>3, <1>5, <1>6, <1>7 DEF Grown, FrameInv

LEMMA HeaderFollows ==
    ASSUME TcpPolicyFits, RxInv, FrameInv, NEW b \in Nat, Header(b),
           heard' = Append(heard, b), rest' \in Seq(Nat)
    PROVE  FrameInv'
<1>1. PICK cut, e :
        /\ IsCut(cut) /\ Follows(cut, x, memory, log, heard)
        /\ e = Append(cut.left, b) /\ e \in Seq(Nat) /\ Len(e) = Len(cut.left) + 1
        /\ heard' \in Seq(Nat) /\ heard' # <<>>
        /\ Cut(heard') = IF BeginsWhole(e)
                         THEN [frames |-> Append(cut.frames, e), left |-> <<>>]
                         ELSE [frames |-> cut.frames, left |-> e]
  BY Hears
<1>2. /\ x.m_state = "Header" /\ x.header = cut.left /\ Len(cut.left) < 6
      /\ Len(log) = Len(cut.frames) /\ Passes(log, cut.frames) /\ x.building = Null
  BY <1>1 DEF Header, Follows, RxInv, RxOwners
<1>3. Len(cut.left) \in Nat
  BY <1>1 DEF IsCut
<1>4. ~BeginsWhole(e)
  <2>1. Plausible(e) => SizeOf(e) \in Nat /\ SizeOf(e) >= 8
    BY PlausibleSize
  <2> QED BY <1>1, <1>2, <1>3, <2>1 DEF BeginsWhole
<1>5. PICK now : now = [frames |-> cut.frames, left |-> e]
  OBVIOUS
<1>6. Cut(heard') = now /\ now.frames = cut.frames /\ now.left = e
  BY <1>1, <1>4, <1>5
<1>7. x = [m_state |-> x.m_state, header |-> x.header, remaining |-> x.remaining,
           building |-> x.building, ready |-> x.ready]
  BY DEF RxInv, RxOwners
<1>8. RxTypes /\ WholeElsewhere
  BY DEF FrameInv
<1>9. CASE Len(e) < length_prefix_size /\ x' = [x EXCEPT !.header = e] /\ UNCHANGED <<pool, memory, log>>
  <2>1. x'.m_state = "Header" /\ x'.header = e /\ x'.building = x.building /\ x'.remaining = x.remaining
    BY <1>2, <1>7, <1>9
  <2>2. RxTypes'
    BY <1>1, <1>8, <1>9, <2>1 DEF RxTypes
  <2>3. WholeElsewhere'
    BY <1>8, <1>9, <2>1 DEF WholeElsewhere, pool
  <2>4. Follows(now, x', memory', log', heard')
    BY <1>2, <1>6, <1>9, <2>1 DEF Follows, length_prefix_size
  <2> QED BY <1>6, <2>2, <2>3, <2>4 DEF FrameInv
<1>10. CASE Len(e) = length_prefix_size /\ begin_frame(e)
  <2>1. Len(e) = 6
    BY <1>10 DEF length_prefix_size
  <2>2. CASE /\ ~Plausible(e) /\ x' = [x EXCEPT !.header = e, !.m_state = "Failed"]
             /\ UNCHANGED <<pool, memory, log>>
    <3>1. x'.m_state = "Failed" /\ x'.header = e /\ x'.building = x.building /\ x'.remaining = x.remaining
      BY <1>7, <2>2
    <3>2. RxTypes'
      BY <1>1, <1>8, <2>2, <3>1 DEF RxTypes
    <3>3. WholeElsewhere'
      BY <1>8, <2>2, <3>1 DEF WholeElsewhere, pool
    <3>4. Follows(now, x', memory', log', heard')
      BY <1>2, <1>6, <2>1, <2>2, <3>1 DEF Follows
    <3> QED BY <1>6, <3>2, <3>3, <3>4 DEF FrameInv
  <2>3. ASSUME Plausible(e) PROVE LengthOf(e) \in Nat /\ Awaits(e, LengthOf(e))
    <3>1. LengthOf(e) \in Nat
      <4>1. e \in Seq(Nat) /\ 5 \in 1 .. Len(e) /\ 6 \in 1 .. Len(e)
        BY <1>1, <2>1
      <4>2. e[5] \in Nat /\ e[6] \in Nat
        BY <4>1, ElementOfSeq, Zenon
      <4> QED BY <4>2 DEF LengthOf
    <3> QED BY <2>1, <2>3, <3>1, PlausibleSize DEF Awaits
  <2>4. CASE /\ Plausible(e) /\ AcquireDry /\ UNCHANGED <<memory, log>>
             /\ x' = [x EXCEPT !.header = e, !.remaining = LengthOf(e), !.m_state = "Skip"]
    <3>1. /\ x'.m_state = "Skip" /\ x'.header = e /\ x'.building = x.building
          /\ x'.remaining = LengthOf(e)
      BY <1>7, <2>4
    <3>2. RxTypes'
      BY <1>1, <1>8, <2>3, <2>4, <3>1 DEF RxTypes
    <3>3. WholeElsewhere'
      BY <1>8, <2>4, <3>1 DEF WholeElsewhere, AcquireDry
    <3>4. Follows(now, x', memory', log', heard')
      BY <1>2, <1>6, <2>3, <2>4, <3>1 DEF Follows
    <3> QED BY <1>6, <3>2, <3>3, <3>4 DEF FrameInv
  <2>5. CASE /\ Plausible(e) /\ Acquire /\ memory' = [memory EXCEPT ![m_free] = e] /\ log' = log
             /\ x' = [x EXCEPT !.header = e, !.remaining = LengthOf(e), !.m_state = "Body",
                               !.building = m_free]
    <3>1. /\ x'.m_state = "Body" /\ x'.header = e /\ x'.building = m_free
          /\ x'.remaining = LengthOf(e)
      BY <1>7, <2>5
    <3>2. m_free \in Blocks \ held /\ held' = held \union {m_free} /\ held \in SUBSET Blocks
      BY <2>5, AcquireKeepsIInv, HeldBlocks DEF RxInv, Acquire
    <3>3. memory' \in [Blocks -> Seq(Nat)] /\ memory'[m_free] = e
          /\ \A c \in Blocks \ {m_free} : memory'[c] = memory[c]
      BY <1>1, <1>8, <2>5, <3>2 DEF RxTypes
    <3>4. RxTypes'
      BY <1>1, <1>8, <2>3, <2>5, <3>1, <3>3 DEF RxTypes
    <3>5. WholeElsewhere'
      BY <1>2, <1>8, <3>1, <3>2, <3>3, NullIsNoBlock DEF WholeElsewhere
    <3>6. Follows(now, x', memory', log', heard')
      BY <1>2, <1>6, <2>3, <2>5, <3>1, <3>3 DEF Follows
    <3> QED BY <1>6, <3>4, <3>5, <3>6 DEF FrameInv
  <2> QED BY <1>10, <2>2, <2>4, <2>5 DEF begin_frame, Acquire, AcquireDry
<1> QED BY <1>1, <1>2, <1>9, <1>10 DEF Header

\* One byte of a body or of a frame that is skipped: what was awaited is still so,
\* or the frame is complete.
LEMMA AwaitsOneLess ==
    ASSUME TcpPolicyFits, NEW v \in Seq(Nat), NEW b \in Nat, NEW n \in Nat, Awaits(v, n),
           NEW e, e = Append(v, b)
    PROVE  /\ n > 1 => ~BeginsWhole(e) /\ Awaits(e, n - 1)
           /\ n = 1 => BeginsWhole(e) /\ Exactly(e)
<1>1. e \in Seq(Nat) /\ Len(e) = Len(v) + 1 /\ \A k \in 1 .. Len(v) : e[k] = v[k]
  BY ByteMore
<1>2. Len(v) \in Nat /\ Len(v) >= 6 /\ Plausible(v) /\ Len(v) + n = SizeOf(v)
  BY DEF Awaits
<1>3. \A k \in 1 .. 6 : v[k] = e[k]
  BY <1>1, <1>2
<1>4. Len(e) \in Nat
  BY <1>1
<1>5. Plausible(e) /\ SizeOf(e) = SizeOf(v)
  BY <1>2, <1>3, <1>4, HeaderDecides
<1> QED BY <1>1, <1>2, <1>5 DEF Awaits, BeginsWhole, Exactly, length_prefix_size

LEMMA BodyFollows ==
    ASSUME TcpPolicyFits, RxInv, FrameInv, NEW b \in Nat, Body(b),
           heard' = Append(heard, b), rest' \in Seq(Nat)
    PROVE  FrameInv'
<1>1. PICK cut, e :
        /\ IsCut(cut) /\ Follows(cut, x, memory, log, heard)
        /\ e = Append(cut.left, b) /\ e \in Seq(Nat) /\ Len(e) = Len(cut.left) + 1
        /\ heard' \in Seq(Nat) /\ heard' # <<>>
        /\ Cut(heard') = IF BeginsWhole(e)
                         THEN [frames |-> Append(cut.frames, e), left |-> <<>>]
                         ELSE [frames |-> cut.frames, left |-> e]
  BY Hears
<1>2. /\ x.m_state = "Body" /\ memory[x.building] = cut.left /\ Awaits(cut.left, x.remaining)
      /\ Len(log) = Len(cut.frames) /\ Passes(log, cut.frames)
      /\ x.building \in Blocks /\ held \in SUBSET Blocks
  BY <1>1, HeldBlocks DEF Body, Follows, RxInv, RxOwners, Owned
<1>3. x = [m_state |-> x.m_state, header |-> x.header, remaining |-> x.remaining,
           building |-> x.building, ready |-> x.ready]
  BY DEF RxInv, RxOwners
<1>4. RxTypes /\ WholeElsewhere /\ x.remaining \in Nat /\ log \in Seq(Seq(Nat))
  BY DEF FrameInv, RxTypes
<1>5. /\ memory' \in [Blocks -> Seq(Nat)] /\ memory'[x.building] = e
      /\ \A c \in Blocks \ {x.building} : memory'[c] = memory[c]
  <2>1. memory' = [memory EXCEPT ![x.building] = e]
    BY <1>1, <1>2 DEF Body
  <2> QED BY <1>1, <1>2, <1>4, <2>1 DEF RxTypes
<1>6. cut.left \in Seq(Nat) /\ cut.frames \in Seq(Seq(Nat))
  BY <1>1 DEF IsCut
<1>7. /\ x.remaining > 1 => ~BeginsWhole(e) /\ Awaits(e, x.remaining - 1)
      /\ x.remaining = 1 => BeginsWhole(e) /\ Exactly(e)
  BY <1>1, <1>2, <1>4, <1>6, AwaitsOneLess
<1>8. CASE x.remaining > 1 /\ x' = [x EXCEPT !.remaining = @ - 1] /\ UNCHANGED <<pool, log>>
  <2>1. /\ x'.m_state = "Body" /\ x'.header = x.header /\ x'.building = x.building
        /\ x'.remaining = x.remaining - 1
    BY <1>2, <1>3, <1>8
  <2>2. x'.remaining \in Nat
    BY <1>4, <1>8, <2>1
  <2>3. RxTypes'
    BY <1>1, <1>4, <1>5, <1>8, <2>1, <2>2 DEF RxTypes
  <2>4. WholeElsewhere'
    BY <1>2, <1>4, <1>5, <1>8, <2>1 DEF WholeElsewhere, pool
  <2>5. PICK now : now = [frames |-> cut.frames, left |-> e]
    OBVIOUS
  <2>6. Follows(now, x', memory', log', heard')
    <3>1. now.frames = cut.frames /\ now.left = e
      BY <2>5
    <3> QED BY <1>2, <1>5, <1>7, <1>8, <2>1, <3>1 DEF Follows
  <2>7. Cut(heard') = now
    BY <1>1, <1>7, <1>8, <2>5
  <2> QED BY <2>3, <2>4, <2>6, <2>7 DEF FrameInv
<1>9. CASE x.remaining = 1 /\ finish_frame(e)
  <2>1. PICK now : now = [frames |-> Append(cut.frames, e), left |-> <<>>]
    OBVIOUS
  <2>2. Cut(heard') = now /\ now.frames = Append(cut.frames, e) /\ now.left = <<>>
    BY <1>1, <1>7, <1>9, <2>1
  <2>3. CASE /\ Verified(e) /\ log' = Append(log, e) /\ UNCHANGED pool
             /\ x' = [x EXCEPT !.building = Null, !.header = <<>>, !.remaining = 0,
                               !.ready = Append(@, x.building), !.m_state = "Header"]
    <3>1. x'.m_state = "Header" /\ x'.header = <<>> /\ x'.building = Null /\ x'.remaining = 0
      BY <1>3, <2>3
    <3>2. /\ Passes(log', Append(cut.frames, e)) /\ log' \in Seq(Seq(Nat))
          /\ Len(log') = Len(Append(cut.frames, e))
      <4>1. PICK frames : frames = cut.frames
        OBVIOUS
      <4>2. /\ frames \in Seq(Seq(Nat)) /\ log \in Seq(Seq(Nat)) /\ Passes(log, frames)
            /\ Len(log) = Len(frames) /\ e \in Seq(Nat) /\ (e # Skipped => e = e /\ Verified(e))
        BY <1>1, <1>2, <1>4, <1>6, <2>3, <4>1
      <4>3. /\ Passes(Append(log, e), Append(frames, e)) /\ Append(log, e) \in Seq(Seq(Nat))
            /\ Len(Append(log, e)) = Len(Append(frames, e))
        BY <4>2, PassesMore
      <4> QED BY <2>3, <4>1, <4>3
    <3>3. RxTypes'
      BY <1>1, <1>5, <3>1, <3>2 DEF RxTypes
    <3>4. WholeElsewhere'
      BY <1>2, <1>4, <1>5, <1>7, <1>9, <2>3, <3>1 DEF WholeElsewhere, pool
    <3>5. Follows(now, x', memory', log', heard')
      BY <2>2, <3>1, <3>2 DEF Follows
    <3> QED BY <2>2, <3>3, <3>4, <3>5 DEF FrameInv
  <2>4. CASE /\ ~Verified(e) /\ Release(x.building) /\ log' = log
             /\ x' = [x EXCEPT !.building = Null, !.header = <<>>, !.remaining = 0,
                               !.m_state = "Failed"]
    <3>1. x'.m_state = "Failed" /\ x'.header = <<>> /\ x'.building = Null /\ x'.remaining = 0
      BY <1>3, <2>4
    <3>2. Passes(log', Append(cut.frames, e))
      BY <1>1, <1>2, <1>4, <1>6, <2>4, PassesKept
    <3>3. /\ Append(cut.frames, e)[Len(cut.frames) + 1] = e
          /\ Len(Append(cut.frames, e)) = Len(cut.frames) + 1
      <4>1. PICK S : S = Seq(Nat)
        OBVIOUS
      <4> QED BY <1>1, <1>6, <4>1, AppendProperties
    <3>4. Len(log) = Len(now.frames) - 1 /\ now.frames[Len(now.frames)] = e
      BY <1>2, <1>6, <2>2, <3>3
    <3>5. RxTypes'
      BY <1>1, <1>4, <1>5, <2>4, <3>1 DEF RxTypes
    <3>6. WholeElsewhere'
      BY <1>2, <1>4, <1>5, <2>4, <3>1 DEF WholeElsewhere, Release
    <3>7. Follows(now, x', memory', log', heard')
      BY <2>2, <2>4, <3>1, <3>2, <3>4 DEF Follows
    <3> QED BY <2>2, <3>5, <3>6, <3>7 DEF FrameInv
  <2> QED BY <1>9, <2>3, <2>4 DEF finish_frame, Passed
<1> QED BY <1>1, <1>2, <1>8, <1>9 DEF Body

LEMMA SkipFollows ==
    ASSUME TcpPolicyFits, RxInv, FrameInv, NEW b \in Nat, Skip,
           heard' = Append(heard, b), rest' \in Seq(Nat)
    PROVE  FrameInv'
<1>1. PICK cut, e :
        /\ IsCut(cut) /\ Follows(cut, x, memory, log, heard)
        /\ e = Append(cut.left, b) /\ e \in Seq(Nat) /\ Len(e) = Len(cut.left) + 1
        /\ heard' \in Seq(Nat) /\ heard' # <<>>
        /\ Cut(heard') = IF BeginsWhole(e)
                         THEN [frames |-> Append(cut.frames, e), left |-> <<>>]
                         ELSE [frames |-> cut.frames, left |-> e]
  BY Hears
<1>2. /\ x.m_state = "Skip" /\ Awaits(cut.left, x.remaining)
      /\ Len(log) = Len(cut.frames) /\ Passes(log, cut.frames)
      /\ UNCHANGED <<pool, memory>>
  BY <1>1 DEF Skip, Follows
<1>3. x = [m_state |-> x.m_state, header |-> x.header, remaining |-> x.remaining,
           building |-> x.building, ready |-> x.ready]
  BY DEF RxInv, RxOwners
<1>4. RxTypes /\ WholeElsewhere /\ x.remaining \in Nat /\ log \in Seq(Seq(Nat))
  BY DEF FrameInv, RxTypes
<1>5. cut.left \in Seq(Nat) /\ cut.frames \in Seq(Seq(Nat))
  BY <1>1 DEF IsCut
<1>6. /\ x.remaining > 1 => ~BeginsWhole(e) /\ Awaits(e, x.remaining - 1)
      /\ x.remaining = 1 => BeginsWhole(e) /\ Exactly(e)
  BY <1>1, <1>2, <1>4, <1>5, AwaitsOneLess
<1>7. CASE x.remaining > 1 /\ x' = [x EXCEPT !.remaining = @ - 1] /\ UNCHANGED log
  <2>1. /\ x'.m_state = "Skip" /\ x'.header = x.header /\ x'.building = x.building
        /\ x'.remaining = x.remaining - 1
    BY <1>2, <1>3, <1>7
  <2>2. x'.remaining \in Nat
    BY <1>4, <1>7, <2>1
  <2>3. RxTypes'
    BY <1>1, <1>2, <1>4, <1>7, <2>1, <2>2 DEF RxTypes
  <2>4. WholeElsewhere'
    BY <1>2, <1>4, <2>1 DEF WholeElsewhere, pool
  <2>5. PICK now : now = [frames |-> cut.frames, left |-> e]
    OBVIOUS
  <2>6. Follows(now, x', memory', log', heard')
    <3>1. now.frames = cut.frames /\ now.left = e
      BY <2>5
    <3> QED BY <1>2, <1>6, <1>7, <2>1, <3>1 DEF Follows
  <2>7. Cut(heard') = now
    BY <1>1, <1>6, <1>7, <2>5
  <2> QED BY <2>3, <2>4, <2>6, <2>7 DEF FrameInv
<1>8. CASE /\ x.remaining = 1 /\ log' = Append(log, Skipped)
           /\ x' = [x EXCEPT !.remaining = 0, !.header = <<>>, !.m_state = "Header"]
  <2>1. PICK now : now = [frames |-> Append(cut.frames, e), left |-> <<>>]
    OBVIOUS
  <2>2. Cut(heard') = now /\ now.frames = Append(cut.frames, e) /\ now.left = <<>>
    BY <1>1, <1>6, <1>8, <2>1
  <2>3. x'.m_state = "Header" /\ x'.header = <<>> /\ x'.building = x.building /\ x'.remaining = 0
    BY <1>3, <1>8
  <2>4. /\ Passes(log', Append(cut.frames, e)) /\ log' \in Seq(Seq(Nat))
        /\ Len(log') = Len(Append(cut.frames, e))
    <3>1. Skipped \in Seq(Nat)
      BY DEF Skipped
    <3>2. PICK frames : frames = cut.frames
      OBVIOUS
    <3>3. /\ frames \in Seq(Seq(Nat)) /\ log \in Seq(Seq(Nat)) /\ Passes(log, frames)
          /\ Len(log) = Len(frames) /\ e \in Seq(Nat)
      BY <1>1, <1>2, <1>4, <1>5, <3>2
    <3>4. /\ Passes(Append(log, Skipped), Append(frames, e))
          /\ Append(log, Skipped) \in Seq(Seq(Nat))
          /\ Len(Append(log, Skipped)) = Len(Append(frames, e))
      BY <3>1, <3>3, PassesMore
    <3> QED BY <1>8, <3>2, <3>4
  <2>5. RxTypes'
    BY <1>1, <1>2, <1>4, <2>3, <2>4 DEF RxTypes
  <2>6. WholeElsewhere'
    BY <1>2, <1>4, <2>3 DEF WholeElsewhere, pool
  <2>7. Follows(now, x', memory', log', heard')
    BY <2>2, <2>3, <2>4 DEF Follows
  <2> QED BY <2>2, <2>5, <2>6, <2>7 DEF FrameInv
<1> QED BY <1>2, <1>7, <1>8 DEF Skip, Passed

\* A boundary: nothing was heard since.
LEMMA RestartFollows ==
    ASSUME TcpPolicyFits, RxInv, FrameInv, DropBuilding, memory' = memory,
           NEW s, s \in {"Header", "Failed"},
           x' = [m_state |-> s, header |-> <<>>, remaining |-> 0, building |-> Null,
                 ready |-> x.ready],
           heard' = <<>>, log' = <<>>, rest' \in Seq(Nat)
    PROVE  FrameInv'
<1>1. x'.m_state = s /\ x'.header = <<>> /\ x'.remaining = 0 /\ x'.building = Null
  OBVIOUS
<1>2. RxTypes /\ WholeElsewhere
  BY DEF FrameInv
<1>3. RxTypes'
  BY <1>1, <1>2 DEF RxTypes
<1>4. held' \subseteq held \ {x.building}
  <2>1. Null \notin held
    BY HeldBlocks, NullIsNoBlock DEF RxInv
  <2> QED BY <2>1 DEF DropBuilding, Release, pool
<1>5. WholeElsewhere'
  BY <1>2, <1>4 DEF WholeElsewhere
<1>6. PICK cut : cut = [frames |-> <<>>, left |-> <<>>]
  OBVIOUS
<1>7. Cut(heard') = cut /\ cut.frames = <<>> /\ cut.left = <<>>
  BY <1>6, CutOfNothing
<1>8. Follows(cut, x', memory', log', heard')
  BY <1>1, <1>7 DEF Follows, Passes
<1> QED BY <1>3, <1>5, <1>7, <1>8 DEF FrameInv

LEMMA ReceiverFollows ==
    ASSUME TcpPolicyFits, TcpDomains, RxInv, FrameInv, NextRx
    PROVE  FrameInv'
<1>1. RxTypes /\ WholeElsewhere /\ rest \in Seq(Nat)
  BY DEF FrameInv, RxTypes
<1>2. x = [m_state |-> x.m_state, header |-> x.header, remaining |-> x.remaining,
           building |-> x.building, ready |-> x.ready]
  BY DEF RxInv, RxOwners
<1>3. ASSUME NEW f, ConsumeByte(f) PROVE FrameInv'
  <2>1. f \in Seq(Nat) /\ f # <<>>
    BY <1>1, <1>3 DEF ConsumeByte, Coming, TcpDomains
  <2>2. PICK b : b = Head(f)
    OBVIOUS
  <2>3. b \in Nat /\ Tail(f) \in Seq(Nat)
    BY <2>1, <2>2
  <2>4. rest' \in Seq(Nat) /\ heard' = Append(heard, b) /\ (Header(b) \/ Body(b) \/ Skip)
    BY <1>3, <2>2, <2>3 DEF ConsumeByte
  <2> QED BY <2>3, <2>4, HeaderFollows, BodyFollows, SkipFollows
<1>4. ASSUME NEW f, ConsumeNothing(f) PROVE FrameInv'
  BY <1>4 DEF ConsumeNothing, FrameInv, RxTypes, WholeElsewhere, pool
<1>5. CASE reset_rx \/ notify_gap
  <2>1. DropBuilding /\ memory' = memory /\ heard' = <<>> /\ log' = <<>> /\ rest' \in Seq(Nat)
    <3>1. CASE reset_rx
      BY <3>1 DEF reset_rx
    <3>2. CASE notify_gap
      BY <1>1, <3>2 DEF notify_gap, connection
    <3> QED BY <1>5, <3>1, <3>2
  <2>2. PICK s : /\ s \in {"Header", "Failed"}
                 /\ x' = [m_state |-> s, header |-> <<>>, remaining |-> 0, building |-> Null,
                          ready |-> x.ready]
    BY <1>5 DEF reset_rx, notify_gap, Restarted, NewReceiver
  <2> QED BY <2>1, <2>2, RestartFollows
<1>6. ASSUME held' \subseteq held, UNCHANGED <<memory, rest, heard, log>>,
             NEW q, x' = [x EXCEPT !.ready = q]
      PROVE  FrameInv'
  <2>1. /\ x'.m_state = x.m_state /\ x'.header = x.header /\ x'.remaining = x.remaining
        /\ x'.building = x.building
    BY <1>2, <1>6
  <2>2. RxTypes'
    BY <1>1, <1>6, <2>1 DEF RxTypes
  <2>3. WholeElsewhere'
    BY <1>1, <1>6, <2>1 DEF WholeElsewhere
  <2>4. Follows(Cut(heard'), x', memory', log', heard')
    BY <1>6, <2>1 DEF Follows, FrameInv
  <2> QED BY <2>2, <2>3, <2>4 DEF FrameInv
<1>7. CASE pop_packet
  BY <1>6, <1>7 DEF pop_packet, pool, connection
<1>8. ASSUME NEW b \in Blocks, release_rx(b) PROVE FrameInv'
  <2>1. held' \subseteq held /\ UNCHANGED <<x, memory, rest, heard, log>>
    BY <1>8 DEF release_rx, Release, connection
  <2> QED BY <1>1, <2>1 DEF FrameInv, RxTypes, WholeElsewhere
<1> QED BY <1>3, <1>4, <1>5, <1>7, <1>8 DEF NextRx, Consume

LEMMA FrameInvMeansClosed ==
    ASSUME TcpPolicyFits, RxInv, FrameInv
    PROVE  FailsClosed
<1>1. PICK cut : cut = Cut(heard)
  OBVIOUS
<1>2. Follows(cut, x, memory, log, heard) /\ IsCut(cut) /\ x.m_state \in {"Header", "Body", "Skip", "Failed"}
  BY <1>1, CutGrows, 0 \in Nat DEF FrameInv, RxTypes
<1>3. \A k \in DOMAIN x.ready : IsFrame(memory[x.ready[k]]) /\ Verified(memory[x.ready[k]])
  <2> SUFFICES ASSUME NEW k \in DOMAIN x.ready
               PROVE  IsFrame(memory[x.ready[k]]) /\ Verified(memory[x.ready[k]])
    OBVIOUS
  <2>1. x.ready[k] \in held \ {x.building}
    BY DEF RxInv, RxOwners, Owned
  <2>2. Exactly(memory[x.ready[k]]) /\ Verified(memory[x.ready[k]])
    BY <2>1 DEF FrameInv, WholeElsewhere
  <2> QED BY <2>2, ExactlyIsFrame
<1>4. Len(cut.left) >= 6 /\ x.m_state # "Failed" => Plausible(cut.left)
  <2>1. Len(cut.left) \in Nat
    BY <1>2 DEF IsCut
  <2> QED BY <1>2, <2>1 DEF Follows, Awaits
<1>5. Last(cut.frames) = cut.frames[Len(cut.frames)]
  BY DEF Last
<1> QED BY <1>1, <1>2, <1>3, <1>4, <1>5 DEF FailsClosed, Follows, Passes, length_prefix_size

-----------------------------------------------------------------------------
(***************************************************************************)
(* What a message contains, and what the transport reads.                  *)
(***************************************************************************)
\* What the application put together: a prefix without protocol and length, and
\* size bytes of data.
Text(t, size) ==
    /\ t \in Seq(Nat) /\ size \in 0 .. Format.max_data_size /\ Len(t) = 8 + size
    /\ t[3] = 0 /\ t[4] = 0 /\ t[5] = 0 /\ t[6] = 0

\* The text with its length.
Covered(t) ==
    LET length == Len(t) + Format.crc_size - 6
    IN  [t EXCEPT ![5] = length \div 256, ![6] = length % 256]

Sealed(t) == Covered(t) \o Checksum(Covered(t))

MessageOK(r, mem) ==
    /\ r.block # Tx!Null /\ Text(r.text, r.size)
    /\ \/ r.state = "Building" /\ mem[r.block] = r.text
       \/ r.state = "Finalized" /\ mem[r.block] = Sealed(r.text)

TxContents ==
    /\ tx_memory \in [Tx!Blocks -> Seq(Nat)]
    /\ \A h \in Handles : m[h] = EmptyMessage \/ MessageOK(m[h], tx_memory)
    /\ tx_active => tx_memory[m_active_tx] = Sealed(wire) /\ \E n \in Nat : Text(wire, n)
    /\ m_busy => tx_active

\* Two bytes carry the length.
LEMMA LengthSplits ==
    ASSUME NEW n \in Nat
    PROVE  n \div 256 \in Nat /\ n % 256 \in Nat /\ 256 * (n \div 256) + (n % 256) = n
<1>1. n \div 256 \in Int /\ n % 256 \in 0 .. 255 /\ n = 256 * (n \div 256) + (n % 256)
  BY Z3
<1>2. PICK q, low : q = n \div 256 /\ low = n % 256
  OBVIOUS
<1>3. q \in Int /\ low \in 0 .. 255 /\ n = 256 * q + low
  BY <1>1, <1>2
<1>4. q \in Nat
  BY <1>3
<1> QED BY <1>2, <1>3, <1>4

LEMMA CoveredFacts ==
    ASSUME TcpPolicyFits, NEW t, NEW size, Text(t, size), NEW u, u = Covered(t)
    PROVE  /\ u \in Seq(Nat) /\ Len(u) = Len(t) /\ Plausible(u)
           /\ SizeOf(u) = Len(t) + Format.crc_size
           /\ [u EXCEPT ![5] = 0, ![6] = 0] = t
<1>1. /\ t \in Seq(Nat) /\ Len(t) = 8 + size /\ size \in Nat /\ size <= Format.max_data_size
      /\ Format.crc_size \in Nat /\ Format.max_data_size \in Nat
      /\ t[3] = 0 /\ t[4] = 0 /\ t[5] = 0 /\ t[6] = 0
  BY DEF Text, TcpPolicyFits
<1>2. PICK length : length = Len(t) + Format.crc_size - 6
  OBVIOUS
<1>3. length \in Nat /\ length = size + 2 + Format.crc_size
  <2>1. PICK len, crc : len = Len(t) /\ crc = Format.crc_size
    OBVIOUS
  <2>2. len \in Nat /\ crc \in Nat /\ len = 8 + size /\ length = len + crc - 6
    BY <1>1, <1>2, <2>1
  <2>3. length \in Nat /\ length = size + 2 + crc
    BY <1>1, <2>2
  <2> QED BY <2>1, <2>3
<1>4. PICK hi, lo : hi = length \div 256 /\ lo = length % 256
  OBVIOUS
<1>5. hi \in Nat /\ lo \in Nat /\ 256 * hi + lo = length
  BY <1>3, <1>4, LengthSplits
<1>6. u = [t EXCEPT ![5] = hi, ![6] = lo]
  BY <1>2, <1>4 DEF Covered
<1>7. t = [k \in 1 .. Len(t) |-> t[k]] /\ 5 \in 1 .. Len(t) /\ 6 \in 1 .. Len(t)
  BY <1>1
<1>8. u = [k \in 1 .. Len(t) |-> IF k = 6 THEN lo ELSE IF k = 5 THEN hi ELSE t[k]]
  BY <1>6, <1>7
<1>9. u \in Seq(Nat) /\ Len(u) = Len(t)
  BY <1>1, <1>5, <1>8
<1>10. u[3] = 0 /\ u[4] = 0 /\ u[5] = hi /\ u[6] = lo
  BY <1>1, <1>7, <1>8
<1>11. [u EXCEPT ![5] = 0, ![6] = 0] = t
  BY <1>1, <1>7, <1>8
<1>12. SizeOf(u) = 6 + length
  BY <1>5, <1>10 DEF SizeOf, LengthOf, length_prefix_size
<1>13. Plausible(u)
  <2>1. PICK crc, most : crc = Format.crc_size /\ most = Format.max_data_size
    OBVIOUS
  <2>2. LengthOf(u) = length
    BY <1>5, <1>10 DEF LengthOf
  <2>3. 6 + length \in 8 + crc .. 8 + crc + most
    <3>1. size \in Nat /\ crc \in Nat /\ most \in Nat /\ size <= most /\ length = size + 2 + crc
      BY <1>1, <1>3, <2>1
    <3> QED BY <3>1
  <2> QED BY <1>10, <2>1, <2>2, <2>3
          DEF Plausible, length_prefix_size, adu_overhead, adu_prefix_size, max_adu_size
<1>14. SizeOf(u) = Len(t) + Format.crc_size
  <2>1. PICK len, crc : len = Len(t) /\ crc = Format.crc_size
    OBVIOUS
  <2>2. len = 8 + size /\ crc \in Nat /\ length = size + 2 + crc
    BY <1>1, <1>3, <2>1
  <2>3. PICK most : most = SizeOf(u)
    OBVIOUS
  <2>4. size \in Nat /\ most = 6 + length
    BY <1>1, <1>12, <2>3
  <2>5. most = len + crc
    BY <2>2, <2>4
  <2> QED BY <2>1, <2>3, <2>5
<1> QED BY <1>9, <1>11, <1>13, <1>14

LEMMA SealedFacts ==
    ASSUME TcpPolicyFits, NEW t, NEW size, Text(t, size), NEW s, s = Sealed(t)
    PROVE  /\ Exactly(s) /\ Verified(s) /\ IsFrame(s)
           /\ [SubSeq(s, 1, Len(s) - Format.crc_size) EXCEPT ![5] = 0, ![6] = 0] = t
<1>1. PICK u, sum : u = Covered(t) /\ sum = Checksum(u)
  OBVIOUS
<1>2. /\ u \in Seq(Nat) /\ Len(u) = Len(t) /\ Plausible(u)
      /\ SizeOf(u) = Len(t) + Format.crc_size
      /\ [u EXCEPT ![5] = 0, ![6] = 0] = t
  BY <1>1, CoveredFacts
<1>3. sum \in Seq(Nat) /\ Len(sum) = Format.crc_size /\ Format.crc_size \in Nat
  BY <1>1, <1>2 DEF TcpPolicyFits
<1>4. s = u \o sum
  BY <1>1 DEF Sealed
<1>5. PICK n, z : n = Len(u) /\ z = Len(sum)
  OBVIOUS
<1>6. n \in Nat /\ n >= 8 /\ z \in Nat /\ z = Format.crc_size
  BY <1>2, <1>3, <1>5 DEF Text
<1>7. /\ s \in Seq(Nat) /\ Len(s) = n + z
      /\ \A k \in 1 .. n : s[k] = u[k]
      /\ \A k \in 1 .. z : s[n + k] = sum[k]
  <2>1. /\ s \in Seq(Nat) /\ Len(s) = n + z
        /\ \A k \in 1 .. n + z : s[k] = IF k <= n THEN u[k] ELSE sum[k - n]
    <3>1. u \in Seq(Nat) /\ sum \in Seq(Nat)
      BY <1>2, <1>3
    <3>2. /\ u \o sum \in Seq(Nat)
          /\ Len(u \o sum) = Len(u) + Len(sum)
          /\ \A i \in 1 .. Len(u) + Len(sum) : (u \o sum)[i] =
                IF i <= Len(u) THEN u[i] ELSE sum[i - Len(u)]
      BY <3>1, ConcatProperties, Zenon
    <3> QED BY <1>4, <1>5, <3>2, Zenon
  <2>2. \A k \in 1 .. n : s[k] = u[k]
    <3>1. \A k \in 1 .. n : k \in 1 .. n + z /\ k <= n
      BY <1>6
    <3> QED BY <2>1, <3>1, Zenon
  <2>3. \A k \in 1 .. z : n + k \in 1 .. n + z /\ ~(n + k <= n) /\ n + k - n = k
    BY <1>6
  <2>4. \A k \in 1 .. z : s[n + k] = sum[k]
    <3> SUFFICES ASSUME NEW k \in 1 .. z PROVE s[n + k] = sum[k]
      OBVIOUS
    <3>1. PICK i : i = n + k
      OBVIOUS
    <3>2. i \in 1 .. n + z /\ ~(i <= n) /\ i - n = k
      BY <1>6, <3>1
    <3>3. s[i] = sum[i - n]
      BY <2>1, <3>2
    <3>4. s[i] = sum[k]
      BY <3>2, <3>3
    <3> QED BY <3>1, <3>4
  <2> QED BY <2>1, <2>2, <2>4
<1>8. Exactly(s)
  <2>1. \A k \in 1 .. 6 : u[k] = s[k]
    <3>1. \A k \in 1 .. 6 : k \in 1 .. n
      BY <1>6
    <3> QED BY <1>7, <3>1
  <2>2. Len(u) \in Nat /\ Len(s) \in Nat /\ Len(s) = Len(u) + Format.crc_size
    BY <1>5, <1>6, <1>7
  <2>3. Plausible(s) /\ SizeOf(u) = SizeOf(s)
    BY <1>2, <2>1, <2>2, HeaderDecides
  <2>4. SizeOf(s) = Len(s) /\ Len(s) >= 6
    BY <1>2, <1>5, <1>6, <1>7, <2>2, <2>3
  <2> QED BY <1>7, <2>2, <2>3, <2>4 DEF Exactly, BeginsWhole, length_prefix_size
<1>9. Len(s) - Format.crc_size = n /\ n <= Len(s)
  BY <1>6, <1>7
<1>10. PICK a, c : a = SubSeq(s, 1, n) /\ c = SubSeq(s, n + 1, n + z)
  OBVIOUS
<1>11. a = u
  <2>1. a \in Seq(Nat) /\ Len(a) = n /\ \A k \in 1 .. n : a[k] = s[k]
    BY <1>6, <1>7, <1>9, <1>10, Prefix
  <2>2. \A k \in 1 .. Len(a) : a[k] = u[k]
    BY <1>7, <2>1
  <2> QED BY <1>2, <1>5, <2>1, <2>2, SeqEqual
<1>12. c = sum
  <2>1. PICK i, j : i = n + 1 /\ j = n + z
    OBVIOUS
  <2>2. i \in Nat \ {0} /\ j \in Nat /\ j <= Len(s) /\ c = SubSeq(s, i, j)
    BY <1>6, <1>7, <1>10, <2>1
  <2>3. /\ c \in Seq(Nat) /\ Len(c) = IF i <= j THEN j - i + 1 ELSE 0
        /\ \A k \in 1 .. j - i + 1 : c[k] = s[i + k - 1]
    BY <1>7, <2>2, Part
  <2>4. Len(c) = z /\ j - i + 1 = z
    BY <1>6, <2>1, <2>3
  <2>5. \A k \in 1 .. z : i + k - 1 = n + k
    BY <1>6, <2>1
  <2>6. \A k \in 1 .. Len(c) : c[k] = sum[k]
    BY <1>7, <2>3, <2>4, <2>5
  <2> QED BY <1>3, <1>5, <2>3, <2>4, <2>6, SeqEqual
<1>13. Verified(s)
  <2>1. SubSeq(s, n + 1, Len(s)) = c /\ SubSeq(s, 1, n) = u
    BY <1>7, <1>10, <1>11
  <2> QED BY <1>1, <1>9, <1>12, <2>1 DEF Verified
<1>14. IsFrame(s)
  BY <1>8, ExactlyIsFrame
<1>15. SubSeq(s, 1, Len(s) - Format.crc_size) = u
  BY <1>9, <1>10, <1>11
<1> QED BY <1>2, <1>8, <1>13, <1>14, <1>15

\* A block that a message has is out, and nobody else's; so is the transport's.
LEMMA OutBlocks ==
    ASSUME TxInv
    PROVE  /\ \A h \in Handles : m[h].block # Tx!Null =>
                 /\ m[h].block \in Tx!Blocks /\ m[h].block \in tx_held /\ m[h].block # m_active_tx
                 /\ \A g \in Handles : m[g].block = m[h].block => g = h
           /\ tx_active => m_active_tx \in Tx!Blocks /\ m_active_tx \in tx_held
<1>1. \A h \in Handles : Carried[h] = m[h].block
  BY DEF Carried
<1>2. Lent(Carried, m_active_tx, tx_held)
  BY DEF TxInv, TxOwners
<1>3. PICK has : has = Carried
  OBVIOUS
<1>4. \A h \in Handles : has[h] # Tx!Null =>
         /\ has[h] \in Tx!Blocks /\ has[h] \in tx_held /\ has[h] # m_active_tx
         /\ \A g \in Handles : has[g] = has[h] => g = h
  BY <1>2, <1>3 DEF Lent
<1>5. m_active_tx # Tx!Null => m_active_tx \in Tx!Blocks /\ m_active_tx \in tx_held
  BY <1>2 DEF Lent
<1> QED BY <1>1, <1>3, <1>4, <1>5 DEF tx_active

\* A sequence as its own places.
LEMMA TextAppend ==
    ASSUME NEW t, NEW size, Text(t, size), size < Format.max_data_size, NEW b \in Nat,
           Format.max_data_size \in Nat
    PROVE  Text(Append(t, b), size + 1) /\ SubSeq(t, 1, 8 + size) \o <<b>> = Append(t, b)
<1>1. /\ t \in Seq(Nat) /\ Len(t) = 8 + size /\ size \in Nat
      /\ t[3] = 0 /\ t[4] = 0 /\ t[5] = 0 /\ t[6] = 0
  BY DEF Text
<1>2. PICK e : e = Append(t, b)
  OBVIOUS
<1>3. e \in Seq(Nat) /\ Len(e) = Len(t) + 1 /\ \A k \in 1 .. Len(t) : e[k] = t[k]
  BY <1>1, <1>2, ByteMore
<1>4. Text(e, size + 1)
  BY <1>1, <1>3 DEF Text
<1>5. SubSeq(t, 1, 8 + size) = t
  BY <1>1
<1>6. t \o <<b>> = e
  BY <1>1, <1>2, AppendIsConcat
<1> QED BY <1>2, <1>4, <1>5, <1>6

-----------------------------------------------------------------------------
\* A message is written: it alone changes, with its own block.
LEMMA OneMessageWritten ==
    ASSUME TxInv, TxContents, NEW h \in Handles, NEW r, NEW bytes \in Seq(Nat),
           NEW b \in Tx!Blocks, r.block = b, m' = [m EXCEPT ![h] = r],
           tx_memory' = [tx_memory EXCEPT ![b] = bytes],
           b = m[h].block \/ b \notin tx_held, MessageOK(r, tx_memory'),
           UNCHANGED <<m_active_tx, m_busy, wire>>
    PROVE  TxContents'
<1>1. m = [g \in Handles |-> m[g]]
  BY DEF TxInv, TxOwners
<1>2. m'[h] = r /\ \A g \in Handles \ {h} : m'[g] = m[g]
  BY <1>1
<1>3. /\ tx_memory' \in [Tx!Blocks -> Seq(Nat)] /\ tx_memory'[b] = bytes
      /\ \A c \in Tx!Blocks \ {b} : tx_memory'[c] = tx_memory[c]
  BY DEF TxContents
<1>4. ASSUME NEW g \in Handles PROVE m'[g] = EmptyMessage \/ MessageOK(m'[g], tx_memory')
  <2>1. CASE g = h
    BY <1>2, <2>1
  <2>2. CASE g # h
    <3>0. m'[g] = m[g] /\ (m[g] = EmptyMessage \/ MessageOK(m[g], tx_memory))
      BY <1>2, <2>2 DEF TxContents
    <3> SUFFICES ASSUME MessageOK(m[g], tx_memory) PROVE MessageOK(m[g], tx_memory')
      BY <3>0
    <3>1. m[g].block # Tx!Null
      BY DEF MessageOK
    <3>2. m[g].block \in Tx!Blocks /\ m[g].block \in tx_held
          /\ (m[h].block = m[g].block => h = g)
      BY <3>1, OutBlocks
    <3>3. m[g].block # b
      BY <2>2, <3>2
    <3>4. tx_memory'[m[g].block] = tx_memory[m[g].block]
      BY <1>3, <3>2, <3>3
    <3> QED BY <3>4 DEF MessageOK
  <2> QED BY <2>1, <2>2
<1>5. ASSUME tx_active PROVE tx_memory'[m_active_tx] = tx_memory[m_active_tx]
  <2>1. m_active_tx \in Tx!Blocks /\ m_active_tx \in tx_held /\ m_active_tx # Tx!Null
    BY <1>5, OutBlocks DEF tx_active
  <2>2. m_active_tx # b
    <3>1. CASE b = m[h].block
      <4>1. m[h].block # Tx!Null
        BY <3>1, TxNames
      <4> QED BY <3>1, <4>1, OutBlocks
    <3>2. CASE b \notin tx_held
      BY <2>1, <3>2
    <3> QED BY <3>1, <3>2
  <2> QED BY <1>3, <2>1, <2>2
<1>6. tx_active' <=> tx_active
  BY DEF tx_active
<1> QED BY <1>3, <1>4, <1>5, <1>6 DEF TxContents

\* Messages change hands: the bytes stay.
LEMMA MessagesMove ==
    ASSUME TxInv, TxContents, UNCHANGED <<tx_memory, m_active_tx, m_busy, wire>>,
           \A g \in Handles : m'[g] = EmptyMessage \/ \E h \in Handles : m'[g] = m[h]
    PROVE  TxContents'
<1>1. \A g \in Handles : m'[g] = EmptyMessage \/ MessageOK(m'[g], tx_memory)
  BY DEF TxContents
<1>2. tx_active' <=> tx_active
  BY DEF tx_active
<1> QED BY <1>1, <1>2 DEF TxContents

\* The prefix of an answer: the request's transaction and its address and code.
LEMMA PrefixOf ==
    ASSUME NEW w \in Seq(Nat), Len(w) >= 8
    PROVE  SubSeq(w, 1, 2) \o <<0, 0, 0, 0>> \o SubSeq(w, 7, 8)
              = <<w[1], w[2], 0, 0, 0, 0, w[7], w[8]>>
<1>1. PICK a, b, c, d : a = w[1] /\ b = w[2] /\ c = w[7] /\ d = w[8]
  OBVIOUS
<1>2. a \in Nat /\ b \in Nat /\ c \in Nat /\ d \in Nat
  BY <1>1
<1>3. SubSeq(w, 1, 2) = <<a, b>>
  <2>1. PICK s : s = SubSeq(w, 1, 2)
    OBVIOUS
  <2>2. s \in Seq(Nat) /\ Len(s) = 2 /\ \A k \in 1 .. 2 : s[k] = w[k]
    BY <2>1, Prefix
  <2>3. <<a, b>> \in Seq(Nat) /\ Len(<<a, b>>) = 2
    BY <1>2
  <2>4. s[1] = a /\ s[2] = b
    BY <1>1, <2>2
  <2>5. \A k \in 1 .. Len(s) : s[k] = <<a, b>>[k]
    BY <2>2, <2>4
  <2> QED BY <2>1, <2>2, <2>3, <2>5, SeqEqual
<1>4. SubSeq(w, 7, 8) = <<c, d>>
  <2>1. PICK s : s = SubSeq(w, 7, 8)
    OBVIOUS
  <2>2. s \in Seq(Nat) /\ Len(s) = 2 /\ \A k \in 1 .. 2 : s[k] = w[7 + k - 1]
    BY <2>1, Part
  <2>3. <<c, d>> \in Seq(Nat) /\ Len(<<c, d>>) = 2
    BY <1>2
  <2>4. s[1] = c /\ s[2] = d
    BY <1>1, <2>2
  <2>5. \A k \in 1 .. Len(s) : s[k] = <<c, d>>[k]
    BY <2>2, <2>4
  <2> QED BY <2>1, <2>2, <2>3, <2>5, SeqEqual
<1>5. <<a, b>> \o <<0, 0, 0, 0>> \o <<c, d>> = <<a, b, 0, 0, 0, 0, c, d>>
  <2>1. PICK u, v, e : u = <<a, b>> /\ v = <<0, 0, 0, 0>> /\ e = <<c, d>>
    OBVIOUS
  <2>2. /\ u \in Seq(Nat) /\ Len(u) = 2 /\ u[1] = a /\ u[2] = b
        /\ v \in Seq(Nat) /\ Len(v) = 4 /\ v[1] = 0 /\ v[2] = 0 /\ v[3] = 0 /\ v[4] = 0
        /\ e \in Seq(Nat) /\ Len(e) = 2 /\ e[1] = c /\ e[2] = d
    BY <1>2, <2>1
  <2>3. PICK uv : uv = u \o v
    OBVIOUS
  <2>4. /\ uv \in Seq(Nat) /\ Len(uv) = 6
        /\ \A k \in 1 .. 6 : uv[k] = IF k <= 2 THEN u[k] ELSE v[k - 2]
    <3>1. /\ u \o v \in Seq(Nat) /\ Len(u \o v) = Len(u) + Len(v)
          /\ \A k \in 1 .. Len(u) + Len(v) : (u \o v)[k] =
                IF k <= Len(u) THEN u[k] ELSE v[k - Len(u)]
      BY <2>2, ConcatProperties, Zenon
    <3>2. Len(u) = 2 /\ Len(v) = 4
      BY <2>2
    <3>3. /\ uv \in Seq(Nat) /\ Len(uv) = 2 + 4
          /\ \A k \in 1 .. 2 + 4 : uv[k] = IF k <= 2 THEN u[k] ELSE v[k - 2]
      BY <2>3, <3>1, <3>2, Zenon
    <3> QED BY <3>3
  <2>5. uv[1] = a /\ uv[2] = b /\ uv[3] = 0 /\ uv[4] = 0 /\ uv[5] = 0 /\ uv[6] = 0
    BY <2>2, <2>4
  <2>6. PICK all : all = uv \o e
    OBVIOUS
  <2>7. /\ all \in Seq(Nat) /\ Len(all) = 8
        /\ \A k \in 1 .. 8 : all[k] = IF k <= 6 THEN uv[k] ELSE e[k - 6]
    <3>1. /\ uv \o e \in Seq(Nat) /\ Len(uv \o e) = Len(uv) + Len(e)
          /\ \A k \in 1 .. Len(uv) + Len(e) : (uv \o e)[k] =
                IF k <= Len(uv) THEN uv[k] ELSE e[k - Len(uv)]
      <4>1. uv \in Seq(Nat) /\ e \in Seq(Nat)
        BY <2>2, <2>4
      <4> QED BY <4>1, ConcatProperties, Zenon
    <3>2. Len(uv) = 6 /\ Len(e) = 2
      BY <2>2, <2>4
    <3>3. /\ all \in Seq(Nat) /\ Len(all) = 6 + 2
          /\ \A k \in 1 .. 6 + 2 : all[k] = IF k <= 6 THEN uv[k] ELSE e[k - 6]
      BY <2>6, <3>1, <3>2, Zenon
    <3> QED BY <3>3
  <2>8. /\ all[1] = a /\ all[2] = b /\ all[3] = 0 /\ all[4] = 0 /\ all[5] = 0 /\ all[6] = 0
        /\ all[7] = c /\ all[8] = d
    <3>1. /\ \A k \in 1 .. 6 : all[k] = uv[k]
          /\ all[7] = e[7 - 6] /\ all[8] = e[8 - 6]
      BY <2>7
    <3>2. 7 - 6 = 1 /\ 8 - 6 = 2
      OBVIOUS
    <3>3. \A k \in 1 .. 6 : all[k] = uv[k]
      BY <3>1
    <3>4. all[1] = uv[1] /\ all[2] = uv[2] /\ all[3] = uv[3] /\ all[4] = uv[4]
          /\ all[5] = uv[5] /\ all[6] = uv[6]
      BY <3>3
    <3>5. all[7] = e[1] /\ all[8] = e[2]
      BY <3>1, <3>2
    <3> QED BY <2>2, <2>5, <3>4, <3>5
  <2>9. PICK q : q = <<a, b, 0, 0, 0, 0, c, d>>
    OBVIOUS
  <2>10. /\ q \in Seq(Nat) /\ Len(q) = 8
         /\ q[1] = a /\ q[2] = b /\ q[3] = 0 /\ q[4] = 0 /\ q[5] = 0 /\ q[6] = 0
         /\ q[7] = c /\ q[8] = d
    BY <1>2, <2>9
  <2>11. \A k \in 1 .. Len(all) : all[k] = q[k]
    <3>1. \A k \in 1 .. Len(all) :
             k = 1 \/ k = 2 \/ k = 3 \/ k = 4 \/ k = 5 \/ k = 6 \/ k = 7 \/ k = 8
      BY <2>7
    <3>2. /\ all[1] = q[1] /\ all[2] = q[2] /\ all[3] = q[3] /\ all[4] = q[4]
          /\ all[5] = q[5] /\ all[6] = q[6] /\ all[7] = q[7] /\ all[8] = q[8]
      BY <2>8, <2>10, Zenon
    <3> QED BY <3>1, <3>2
  <2>12. all = q
    BY <2>7, <2>10, <2>11, SeqEqual
  <2> QED BY <2>1, <2>3, <2>6, <2>9, <2>12
<1> QED BY <1>1, <1>3, <1>4, <1>5

LEMMA MakeKeepsContents ==
    ASSUME TcpPolicyFits, RxInv, FrameInv, TxInv, TxContents, NEW h \in Handles,
           NEW b \in packets, make_message(h, b)
    PROVE  TxContents'
<1>1. CASE Tx!AcquireDry /\ UNCHANGED <<m, tx_memory, answers>>
  BY <1>1, MessagesMove DEF make_message, transport
<1>2. PICK request : request = memory[b]
  OBVIOUS
<1>3. request \in Seq(Nat) /\ Len(request) >= 8
  <2>1. b \in held \ {x.building}
    BY DEF RxInv, RxOwners, Owned
  <2>2. Exactly(request)
    BY <1>2, <2>1 DEF FrameInv, WholeElsewhere
  <2>3. SizeOf(request) >= 8
    BY <2>2, PlausibleSize DEF Exactly, BeginsWhole
  <2> QED BY <2>2, <2>3 DEF Exactly
<1>4. PICK prefix : prefix = SubSeq(request, 1, 2) \o <<0, 0, 0, 0>> \o SubSeq(request, 7, 8)
  OBVIOUS
<1>5. Text(prefix, 0)
  <2>1. PICK q : q = <<request[1], request[2], 0, 0, 0, 0, request[7], request[8]>>
    OBVIOUS
  <2>2. request[1] \in Nat /\ request[2] \in Nat /\ request[7] \in Nat /\ request[8] \in Nat
    BY <1>3
  <2>5. prefix = q
    BY <1>3, <1>4, <2>1, PrefixOf
  <2>6. q \in Seq(Nat) /\ Len(q) = 8 /\ q[3] = 0 /\ q[4] = 0 /\ q[5] = 0 /\ q[6] = 0
    BY <2>1, <2>2
  <2> QED BY <2>5, <2>6 DEF Text, TcpPolicyFits
<1>6. CASE /\ Tx!Acquire
           /\ m' = [m EXCEPT ![h] = [block |-> tx_free, size |-> 0, state |-> "Building",
                                     text |-> prefix]]
           /\ tx_memory' = [tx_memory EXCEPT ![tx_free] = prefix]
  <2>1. PICK r : r = [block |-> tx_free, size |-> 0, state |-> "Building", text |-> prefix]
    OBVIOUS
  <2>2. tx_free \in Tx!Blocks \ tx_held
    BY <1>6, TxGrants DEF TxInv
  <2>3. tx_memory'[tx_free] = prefix
    BY <1>6, <2>2 DEF TxContents
  <2>4. MessageOK(r, tx_memory') /\ r.block = tx_free /\ prefix \in Seq(Nat)
    BY <1>5, <2>1, <2>2, <2>3, TxNames DEF MessageOK, Text
  <2>5. UNCHANGED <<m_active_tx, m_busy, wire>>
    BY DEF make_message, transport
  <2> QED BY <1>6, <2>1, <2>2, <2>4, <2>5, OneMessageWritten
<1> QED BY <1>1, <1>2, <1>4, <1>6 DEF make_message

LEMMA AppendKeepsContents ==
    ASSUME TcpPolicyFits, TcpDomains, TxInv, TxContents, NEW h \in Handles, NEW b \in Payload,
           append(h, b)
    PROVE  TxContents'
<1>1. m[h].state = "Building" /\ m[h].size < Format.max_data_size
  BY DEF append, MakeRoom
<1>2. m[h] = MessageFields(m[h]) /\ m = [g \in Handles |-> m[g]]
  BY MessageBlock DEF TxInv, TxOwners
<1>3. m[h].state # EmptyMessage.state
  BY <1>1 DEF EmptyMessage
<1>4. /\ MessageOK(m[h], tx_memory) /\ m[h].block # Tx!Null
      /\ Text(m[h].text, m[h].size) /\ tx_memory[m[h].block] = m[h].text
  BY <1>1, <1>3 DEF TxContents, MessageOK
<1>5. m[h].block \in Tx!Blocks
  BY <1>4, OutBlocks
<1>6. PICK block, t, size, more : block = m[h].block /\ t = m[h].text /\ size = m[h].size
                                 /\ more = Append(t, b)
  OBVIOUS
<1>7. b \in Nat /\ size \in Nat
  BY <1>4, <1>6 DEF TcpDomains, Text
<1>8. Text(more, size + 1) /\ SubSeq(t, 1, 8 + size) \o <<b>> = more /\ more \in Seq(Nat)
  <2>1. Text(t, size) /\ size < Format.max_data_size /\ Format.max_data_size \in Nat
    BY <1>1, <1>4, <1>6 DEF TcpPolicyFits
  <2>2. Text(Append(t, b), size + 1) /\ SubSeq(t, 1, 8 + size) \o <<b>> = Append(t, b)
    BY <1>7, <2>1, TextAppend
  <2> QED BY <1>6, <2>2 DEF Text
<1>9. tx_memory' = [tx_memory EXCEPT ![block] = more]
  <2>1. tx_memory' = [tx_memory EXCEPT ![block] = SubSeq(t, 1, 8 + size) \o <<b>>]
    BY <1>4, <1>5, <1>6 DEF append, adu_prefix_size, TxContents
  <2> QED BY <1>8, <2>1
<1>10. PICK r : r = [m[h] EXCEPT !.size = @ + 1,
                         !.text = IF m[h].state = "Building" THEN Append(@, b) ELSE @]
  OBVIOUS
<1>11. m' = [m EXCEPT ![h] = r]
  <2>1. m' = [m EXCEPT ![h].size = @ + 1,
                       ![h].text = IF m[h].state = "Building" THEN Append(@, b) ELSE @]
    BY DEF append
  <2>2. [m EXCEPT ![h].size = @ + 1,
                  ![h].text = IF m[h].state = "Building" THEN Append(@, b) ELSE @]
           = [m EXCEPT ![h] = r]
    BY <1>10, MessageBlock DEF TxInv, TxOwners, MessageFields
  <2> QED BY <2>1, <2>2
<1>12. r = [block |-> block, size |-> size + 1, state |-> "Building", text |-> more]
  <2>1. PICK v : v = m[h]
    OBVIOUS
  <2>2. v = [block |-> block, size |-> size, state |-> "Building", text |-> t]
    BY <1>1, <1>2, <1>6, <2>1 DEF MessageFields
  <2>3. PICK z : z = size + 1
    OBVIOUS
  <2>4. r = [v EXCEPT !.size = z, !.text = more]
    BY <1>1, <1>6, <1>10, <2>1, <2>3
  <2>5. r = [block |-> block, size |-> z, state |-> "Building", text |-> more]
    BY <2>2, <2>4
  <2> QED BY <2>3, <2>5
<1>13. tx_memory'[block] = more
  BY <1>5, <1>6, <1>9 DEF TxContents
<1>14. MessageOK(r, tx_memory') /\ r.block = block
  BY <1>4, <1>6, <1>8, <1>13, <1>12 DEF MessageOK
<1>15. UNCHANGED <<m_active_tx, m_busy, wire>>
  BY DEF append, transport
<1> QED BY <1>5, <1>6, <1>8, <1>9, <1>11, <1>14, <1>15, OneMessageWritten

\* finalize seals what the message has, once.
LEMMA FinalizedIsSealed ==
    ASSUME TcpPolicyFits, TxContents, NEW h \in Handles, m[h].block # Tx!Null
    PROVE  /\ MessageOK(m[h], tx_memory) /\ Finalized(h) = Sealed(m[h].text)
           /\ Finalized(h) \in Seq(Nat)
<1>1. MessageOK(m[h], tx_memory)
  BY EmptyIsFields DEF TxContents
<1>2. Finalized(h) = Sealed(m[h].text)
  <2>1. CASE m[h].state = "Finalized"
    BY <1>1, <2>1 DEF MessageOK, Finalized
  <2>2. CASE m[h].state = "Building"
    BY <1>1, <2>2 DEF MessageOK, Finalized, Sealed, Covered, length_prefix_size
  <2> QED BY <1>1, <2>1, <2>2 DEF MessageOK
<1>3. Exactly(Sealed(m[h].text))
  BY <1>1, SealedFacts DEF MessageOK
<1> QED BY <1>1, <1>2, <1>3 DEF Exactly

LEMMA RefusedKeepsContents ==
    ASSUME TcpPolicyFits, TxInv, TxContents, NEW h \in Handles, SendFailed(h)
    PROVE  TxContents'
<1>1. /\ m[h].block # Tx!Null
      /\ tx_memory' = [tx_memory EXCEPT ![m[h].block] = Finalized(h)]
      /\ m' = [m EXCEPT ![h].state = "Finalized"]
      /\ UNCHANGED <<m_active_tx, m_busy, wire>>
  BY DEF SendFailed, Ready, transport
<1>2. PICK block, bytes : block = m[h].block /\ bytes = Finalized(h)
  OBVIOUS
<1>3. /\ MessageOK(m[h], tx_memory) /\ bytes = Sealed(m[h].text) /\ bytes \in Seq(Nat)
      /\ block \in Tx!Blocks
  BY <1>1, <1>2, FinalizedIsSealed, OutBlocks
<1>4. PICK r : r = [m[h] EXCEPT !.state = "Finalized"]
  OBVIOUS
<1>5. m' = [m EXCEPT ![h] = r]
  BY <1>1, <1>4
<1>6. r.block = m[h].block /\ r.size = m[h].size /\ r.state = "Finalized" /\ r.text = m[h].text
  <2>1. PICK v : v = m[h]
    OBVIOUS
  <2>2. PICK d, z, st, t : v = [block |-> d, size |-> z, state |-> st, text |-> t]
    BY <2>1, MessageBlock DEF MessageFields
  <2>3. r = [block |-> d, size |-> z, state |-> "Finalized", text |-> t]
    BY <1>4, <2>1, <2>2
  <2> QED BY <2>1, <2>2, <2>3
<1>7. tx_memory'[block] = bytes
  BY <1>1, <1>2, <1>3 DEF TxContents
<1>8. MessageOK(r, tx_memory') /\ r.block = block
  BY <1>2, <1>3, <1>7, <1>6 DEF MessageOK
<1> QED BY <1>1, <1>2, <1>3, <1>5, <1>8, OneMessageWritten

LEMMA SentKeepsContents ==
    ASSUME TcpPolicyFits, TxInv, TxContents, NEW h \in Handles, Sent(h)
    PROVE  TxContents'
<1>1. /\ m[h].block # Tx!Null
      /\ tx_memory' = [tx_memory EXCEPT ![m[h].block] = Finalized(h)]
      /\ m' = [m EXCEPT ![h] = EmptyMessage]
      /\ m_active_tx' = m[h].block /\ m_busy' = TRUE /\ wire' = m[h].text
  BY DEF Sent, Ready
<1>2. PICK block, bytes : block = m[h].block /\ bytes = Finalized(h)
  OBVIOUS
<1>3. /\ MessageOK(m[h], tx_memory) /\ bytes = Sealed(m[h].text) /\ bytes \in Seq(Nat)
      /\ block \in Tx!Blocks
  BY <1>1, <1>2, FinalizedIsSealed, OutBlocks
<1>4. m = [g \in Handles |-> m[g]]
  BY DEF TxInv, TxOwners
<1>5. /\ tx_memory' \in [Tx!Blocks -> Seq(Nat)] /\ tx_memory'[block] = bytes
      /\ \A c \in Tx!Blocks \ {block} : tx_memory'[c] = tx_memory[c]
  BY <1>1, <1>2, <1>3 DEF TxContents
<1>6. ASSUME NEW g \in Handles PROVE m'[g] = EmptyMessage \/ MessageOK(m'[g], tx_memory')
  <2>1. CASE g = h
    BY <1>1, <1>4, <2>1
  <2>2. CASE g # h
    <3>1. m'[g] = m[g] /\ (m[g] = EmptyMessage \/ MessageOK(m[g], tx_memory))
      BY <1>1, <1>4, <2>2 DEF TxContents
    <3> SUFFICES ASSUME MessageOK(m[g], tx_memory) PROVE MessageOK(m[g], tx_memory')
      BY <3>1
    <3>2. m[g].block # Tx!Null
      BY DEF MessageOK
    <3>3. m[g].block \in Tx!Blocks /\ (m[h].block = m[g].block => h = g)
      BY <3>2, OutBlocks
    <3>4. tx_memory'[m[g].block] = tx_memory[m[g].block]
      BY <1>2, <1>5, <2>2, <3>3
    <3> QED BY <3>4 DEF MessageOK
  <2> QED BY <2>1, <2>2
<1>7. tx_memory'[m_active_tx'] = Sealed(wire') /\ \E n \in Nat : Text(wire', n)
  BY <1>1, <1>2, <1>3, <1>5 DEF MessageOK, Text
<1>8. tx_active'
  BY <1>1 DEF tx_active
<1> QED BY <1>5, <1>6, <1>7, <1>8 DEF TxContents

LEMMA TransmitterKeepsContents ==
    ASSUME TcpPolicyFits, TcpDomains, RxInv, FrameInv, TxInv, TxContents, NextTx
    PROVE  TxContents'
<1>1. m = [g \in Handles |-> m[g]]
  BY DEF TxInv, TxOwners
<1>2. ASSUME NEW from \in Handles, NEW to \in Handles, move(from, to) PROVE TxContents'
  <2>1. /\ m' = [m EXCEPT ![to] = m[from], ![from] = EmptyMessage]
        /\ UNCHANGED <<tx_memory, m_active_tx, m_busy, wire>>
    BY <1>2 DEF move, transport
  <2>2. \A g \in Handles : m'[g] = EmptyMessage \/ m'[g] = m[from] \/ m'[g] = m[g]
    BY <1>1, <2>1
  <2> QED BY <2>1, <2>2, MessagesMove
<1>3. ASSUME NEW h \in Handles, release(h) PROVE TxContents'
  <2>1. /\ m' = [m EXCEPT ![h] = EmptyMessage]
        /\ UNCHANGED <<tx_memory, m_active_tx, m_busy, wire>>
    BY <1>3 DEF release, transport
  <2>2. \A g \in Handles : m'[g] = EmptyMessage \/ m'[g] = m[g]
    BY <1>1, <2>1
  <2> QED BY <2>1, <2>2, MessagesMove
<1>4. CASE bind \/ unbind
  BY <1>4, MessagesMove DEF bind, unbind
<1>5. CASE TransportDone
  <2>1. UNCHANGED <<m, tx_memory, m_active_tx, wire>> /\ m_busy' = FALSE
    BY <1>5 DEF TransportDone
  <2> QED BY <2>1 DEF TxContents, tx_active
<1>6. CASE poll
  <2>1. UNCHANGED <<m, tx_memory, m_busy>> /\ ~m_busy /\ m_active_tx' = Tx!Null
    BY <1>6 DEF poll
  <2> QED BY <2>1 DEF TxContents, tx_active
<1>7. ASSUME NEW h \in Handles, SendFailed(h) \/ Sent(h) PROVE TxContents'
  BY <1>7, RefusedKeepsContents, SentKeepsContents
<1>8. ASSUME NEW h \in Handles, NEW b \in packets, make_message(h, b) PROVE TxContents'
  BY <1>8, MakeKeepsContents
<1>9. ASSUME NEW h \in Handles, NEW b \in Payload, append(h, b) PROVE TxContents'
  BY <1>9, AppendKeepsContents
<1> QED BY <1>2, <1>3, <1>4, <1>5, <1>6, <1>7, <1>8, <1>9 DEF NextTx

LEMMA ContentsMeanWhole == ASSUME TcpPolicyFits, TxContents PROVE WireIsWhole
<1> SUFFICES ASSUME m_busy PROVE WireIsWhole
  BY DEF WireIsWhole
<1>1. PICK adu : adu = tx_memory[m_active_tx]
  OBVIOUS
<1>2. tx_active /\ adu = Sealed(wire)
  BY <1>1 DEF TxContents
<1>3. PICK n \in Nat : Text(wire, n)
  BY <1>2 DEF TxContents
<1>4. /\ IsFrame(adu) /\ Verified(adu)
      /\ [SubSeq(adu, 1, Len(adu) - Format.crc_size) EXCEPT ![5] = 0, ![6] = 0] = wire
  BY <1>2, <1>3, SealedFacts
<1> QED BY <1>1, <1>2, <1>4 DEF WireIsWhole

-----------------------------------------------------------------------------
TcpBytes == RxInv /\ TxInv /\ FrameInv /\ TxContents

LEMMA TcpBytesInit == ASSUME TcpPolicyFits, InitTcp PROVE TcpBytes
<1>1. RxInv /\ TxInv
  BY TcpInit
<1>2. /\ x = NewReceiver /\ memory = [b \in Blocks |-> <<>>] /\ rest = <<>> /\ heard = <<>>
      /\ log = <<>> /\ held = {}
  BY DEF InitTcp, InitRx, Init
<1>3. FrameInv
  <2>1. RxTypes /\ WholeElsewhere
    BY <1>2 DEF RxTypes, WholeElsewhere, NewReceiver
  <2>2. PICK cut : cut = [frames |-> <<>>, left |-> <<>>]
    OBVIOUS
  <2>3. Cut(heard) = cut /\ cut.frames = <<>> /\ cut.left = <<>>
    BY <1>2, <2>2, CutOfNothing
  <2>4. Follows(cut, x, memory, log, heard)
    BY <1>2, <2>3 DEF Follows, Passes, NewReceiver
  <2> QED BY <2>1, <2>3, <2>4 DEF FrameInv
<1>4. TxContents
  <2>1. /\ m = [h \in Handles |-> EmptyMessage] /\ tx_memory = [b \in Tx!Blocks |-> <<>>]
        /\ m_active_tx = Tx!Null /\ m_busy = FALSE
    BY DEF InitTcp
  <2>2. <<>> \in Seq(Nat)
    OBVIOUS
  <2> QED BY <2>1, <2>2 DEF TxContents, tx_active
<1> QED BY <1>1, <1>3, <1>4 DEF TcpBytes

LEMMA TcpBytesStep ==
    ASSUME TcpPolicyFits, TcpDomains, TcpBytes, [NextTcp]_tcpVars
    PROVE  TcpBytes'
<1>1. RxInv /\ TxInv /\ FrameInv /\ TxContents
  BY DEF TcpBytes
<1>2. RxInv' /\ TxInv'
  BY <1>1, TcpStep
<1>3. ASSUME UNCHANGED rxVars PROVE FrameInv'
  BY <1>1, <1>3 DEF FrameInv, RxTypes, WholeElsewhere, rxVars, pool, connection
<1>4. ASSUME UNCHANGED <<m, tx_memory, transport, wire>> PROVE TxContents'
  BY <1>1, <1>4 DEF TxContents, transport, tx_active
<1>5. CASE NextRx /\ UNCHANGED <<txPool, m, tx_memory, transport, answers, wire>>
  BY <1>1, <1>2, <1>4, <1>5, ReceiverFollows DEF TcpBytes
<1>6. CASE NextTx /\ UNCHANGED rxVars
  BY <1>1, <1>2, <1>3, <1>6, TransmitterKeepsContents DEF TcpBytes
<1>7. CASE UNCHANGED tcpVars
  BY <1>2, <1>3, <1>4, <1>7 DEF tcpVars, TcpBytes
<1> QED BY <1>5, <1>6, <1>7 DEF NextTcp

LEMMA TcpBytesInvariant == ASSUME TcpPolicyFits, TcpDomains PROVE TcpSpec => []TcpBytes
<1>1. InitTcp => TcpBytes
  BY TcpBytesInit
<1>2. TcpBytes /\ [NextTcp]_tcpVars => TcpBytes'
  BY TcpBytesStep
<1> QED BY <1>1, <1>2, PTL DEF TcpSpec

\* The receiver fails closed, for every format, checksum, pool and stream: each
\* frame is delivered whole and verified, or skipped for want of a block, in order,
\* and it stops for good at the first byte where it no longer knows a boundary.
THEOREM TcpFailsClosed == ASSUME TcpPolicyFits, TcpDomains PROVE TcpSpec => []FailsClosed
<1>1. TcpBytes => FailsClosed
  BY FrameInvMeansClosed DEF TcpBytes
<1> QED BY <1>1, TcpBytesInvariant, PTL

\* The transport reads the answer exactly as it was put together, with the length
\* and the checksum that belong to it, until it is done.
THEOREM TcpWireIsWhole == ASSUME TcpPolicyFits, TcpDomains PROVE TcpSpec => []WireIsWhole
<1>1. TcpBytes => WireIsWhole
  BY ContentsMeanWhole DEF TcpBytes
<1> QED BY <1>1, TcpBytesInvariant, PTL
=============================================================================
