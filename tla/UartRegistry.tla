----------------------------- MODULE UartRegistry -----------------------------
(***************************************************************************)
(* uart::detail::Registry (src/uart/Uart.h), the table through which the   *)
(* HAL callbacks of every UART find their engine, and the ownership        *)
(* protocol of Uart::init and ~Uart around it.  Several engines share the  *)
(* table; interrupts look it up at any point between two steps of theirs.  *)
(* The transfers of one engine are UartDriver's.                           *)
(***************************************************************************)
EXTENDS Integers, TLAPS

CONSTANTS
    Engines, Handles,
    Null,              \* nullptr, for an engine and for a handle
    Instance,          \* of a handle: the peripheral it drives
    MaxInstances       \* UART_ENGINE_MAX_INSTANCES

RegistryDomains ==
    /\ MaxInstances \in Nat /\ Null \notin Engines /\ Null \notin Handles
    /\ Instance \in [Handles -> Nat]

VARIABLES
    s_entries,   \* the table
    m_huart,     \* of every engine, its member
    pc,          \* of every engine: "out", "in", or "leaving" (init failed late, ~Uart)
    served       \* history: the engine and the handle of the last callback

vars == <<s_entries, m_huart, pc, served>>

Slots == 1 .. MaxInstances
Unused == [huart |-> Null, self |-> Null]

Init ==
    /\ s_entries = [k \in Slots |-> Unused]
    /\ m_huart = [e \in Engines |-> Null]
    /\ pc = [e \in Engines |-> "out"]
    /\ served = [self |-> Null, huart |-> Null, bound |-> Null]

\* One engine, one handle, one peripheral.
Taken(h, self) ==
    \E k \in Slots :
        LET entry == s_entries[k]
        IN  \/ entry.self = self \/ entry.huart = h
            \/ entry.huart # Null /\ Instance[entry.huart] = Instance[h]

FirstFree(k) == s_entries[k].huart = Null /\ \A j \in 1 .. (k - 1) : s_entries[j].huart # Null

\* init, under one IrqGuard; a refusal changes nothing.
attach(h, self) ==
    /\ m_huart[self] = Null /\ ~Taken(h, self)
    /\ \E k \in Slots : FirstFree(k) /\ s_entries' = [s_entries EXCEPT ![k] =
                                                        [huart |-> h, self |-> self]]
    /\ m_huart' = [m_huart EXCEPT ![self] = h]
    /\ pc' = [pc EXCEPT ![self] = "in"]
    /\ UNCHANGED served

\* The destructor, and an init the hardware refused: the entry goes first ...
detach(self) ==
    /\ pc[self] = "in"
    /\ s_entries' = [k \in Slots |-> IF s_entries[k].self = self THEN Unused ELSE s_entries[k]]
    /\ pc' = [pc EXCEPT ![self] = "leaving"]
    /\ UNCHANGED <<m_huart, served>>

\* ... and the handle when the hardware is stopped, with interrupts on.
Unbind(self) ==
    /\ pc[self] = "leaving"
    /\ m_huart' = [m_huart EXCEPT ![self] = Null]
    /\ pc' = [pc EXCEPT ![self] = "out"]
    /\ UNCHANGED <<s_entries, served>>

\* The entry find returns: the first of the handle.
Found(k, h) == s_entries[k].huart = h /\ \A j \in 1 .. (k - 1) : s_entries[j].huart # h

\* onRxEvent, onTxCplt, onError: the callback's engine, and the handle it has.
Dispatch(h) ==
    /\ \E k \in Slots : Found(k, h) /\ served' = [self |-> s_entries[k].self, huart |-> h,
                                                  bound |-> m_huart[s_entries[k].self]]
    /\ UNCHANGED <<s_entries, m_huart, pc>>

Next ==
    \/ \E self \in Engines : detach(self) \/ Unbind(self) \/ \E h \in Handles : attach(h, self)
    \/ \E h \in Handles : Dispatch(h)

Spec == Init /\ [][Next]_vars

-----------------------------------------------------------------------------
(***************************************************************************)
(* Properties and their proofs.                                            *)
(***************************************************************************)
\* A callback that reaches an engine is about the UART this engine is bound to:
\* none runs in an engine whose m_huart is null, which isrError would
\* dereference, however init and ~Uart are interrupted (Uart::init).
OnlyBoundEnginesAreServed == served.self # Null => served.bound = served.huart

\* Every engine that is in receives the callbacks of its own handle: whatever
\* order others came and went in, the search ends at its entry (Registry::find).
EveryEngineIsFound ==
    \A e \in Engines : pc[e] = "in" =>
        \E k \in Slots : Found(k, m_huart[e]) /\ s_entries[k].self = e

\* No peripheral is driven by two entries (Registry::attach).
OneEnginePerPeripheral ==
    \A j, k \in Slots :
        /\ j # k /\ s_entries[j].huart # Null /\ s_entries[k].huart # Null
        => Instance[s_entries[j].huart] # Instance[s_entries[k].huart]

\* The table against the engines: an entry is of an engine that is in, with its
\* handle, and every engine that is in has exactly one.
Mirror ==
    /\ \A k \in Slots : s_entries[k] # Unused =>
          /\ s_entries[k].self \in Engines /\ pc[s_entries[k].self] = "in"
          /\ s_entries[k].huart \in Handles
          /\ m_huart[s_entries[k].self] = s_entries[k].huart
    /\ \A e \in Engines : pc[e] = "in" => \E k \in Slots : s_entries[k].self = e

RegistryInv ==
    /\ s_entries \in [Slots -> [huart : Handles \union {Null}, self : Engines \union {Null}]]
    /\ m_huart \in [Engines -> Handles \union {Null}]
    /\ pc \in [Engines -> {"out", "in", "leaving"}]
    /\ Mirror /\ OneEnginePerPeripheral /\ OnlyBoundEnginesAreServed

LEMMA attachStep ==
    ASSUME RegistryDomains, RegistryInv, NEW h \in Handles, NEW self \in Engines,
           attach(h, self)
    PROVE  RegistryInv'
<1> USE DEF RegistryInv, RegistryDomains
<1>1. PICK k \in Slots : /\ FirstFree(k)
                         /\ s_entries' = [s_entries EXCEPT ![k] = [huart |-> h, self |-> self]]
  BY DEF attach
<1>2. /\ m_huart' = [m_huart EXCEPT ![self] = h] /\ pc' = [pc EXCEPT ![self] = "in"]
      /\ m_huart[self] = Null /\ ~Taken(h, self) /\ served' = served
  BY DEF attach
<1>3. /\ s_entries' \in [Slots -> [huart : Handles \union {Null}, self : Engines \union {Null}]]
      /\ m_huart' \in [Engines -> Handles \union {Null}]
      /\ pc' \in [Engines -> {"out", "in", "leaving"}]
  BY <1>1, <1>2
<1>4. Mirror'
  <2>1. ASSUME NEW j \in Slots, s_entries'[j] # Unused
        PROVE  /\ s_entries'[j].self \in Engines /\ pc'[s_entries'[j].self] = "in"
               /\ s_entries'[j].huart \in Handles
               /\ m_huart'[s_entries'[j].self] = s_entries'[j].huart
    <3>1. CASE j = k
      BY <1>1, <1>2, <3>1
    <3>2. CASE j # k
      <4>1. s_entries'[j] = s_entries[j]
        BY <1>1, <3>2
      <4>2. s_entries[j].self # self
        BY <1>2 DEF Taken
      <4> QED BY <1>2, <2>1, <4>1, <4>2 DEF Mirror
    <3> QED BY <3>1, <3>2
  <2>2. ASSUME NEW e \in Engines, pc'[e] = "in"
        PROVE  \E j \in Slots : s_entries'[j].self = e
    <3>1. CASE e = self
      BY <1>1, <3>1
    <3>2. CASE e # self
      <4>1. PICK j \in Slots : s_entries[j].self = e
        BY <1>2, <2>2, <3>2 DEF Mirror
      <4>2. s_entries[j] # Unused
        BY <4>1 DEF Unused
      <4>3. s_entries[j].huart # Null
        BY <4>2 DEF Mirror
      <4>4. j # k
        BY <1>1, <4>3 DEF FirstFree
      <4> QED BY <1>1, <4>1, <4>4
    <3> QED BY <3>1, <3>2
  <2> QED BY <2>1, <2>2 DEF Mirror
<1>5. OneEnginePerPeripheral'
  <2> SUFFICES ASSUME NEW i \in Slots, NEW j \in Slots, i # j,
                      s_entries'[i].huart # Null, s_entries'[j].huart # Null
               PROVE  Instance[s_entries'[i].huart] # Instance[s_entries'[j].huart]
    BY DEF OneEnginePerPeripheral
  <2>1. ASSUME NEW m \in Slots, s_entries[m].huart # Null
        PROVE  Instance[s_entries[m].huart] # Instance[h]
    BY <1>2, <2>1 DEF Taken
  <2>2. CASE i = k
    BY <1>1, <2>1, <2>2
  <2>3. CASE j = k
    BY <1>1, <2>1, <2>3
  <2>4. CASE i # k /\ j # k
    BY <1>1, <2>4 DEF OneEnginePerPeripheral
  <2> QED BY <2>2, <2>3, <2>4
<1> QED BY <1>2, <1>3, <1>4, <1>5 DEF OnlyBoundEnginesAreServed

LEMMA detachStep ==
    ASSUME RegistryInv, RegistryDomains, NEW self \in Engines, detach(self) PROVE RegistryInv'
<1> USE DEF RegistryInv
<1>1. /\ s_entries' = [k \in Slots |-> IF s_entries[k].self = self THEN Unused
                                                                  ELSE s_entries[k]]
      /\ pc' = [pc EXCEPT ![self] = "leaving"] /\ m_huart' = m_huart /\ served' = served
  BY DEF detach
<1>2. \A k \in Slots : \/ s_entries'[k] = Unused
                       \/ s_entries'[k] = s_entries[k] /\ s_entries[k].self # self
  BY <1>1
<1>3. s_entries' \in [Slots -> [huart : Handles \union {Null}, self : Engines \union {Null}]]
  BY <1>1 DEF Unused
<1>4. pc' \in [Engines -> {"out", "in", "leaving"}]
  BY <1>1
<1>5. Mirror'
  <2>1. ASSUME NEW j \in Slots, s_entries'[j] # Unused
        PROVE  /\ s_entries'[j].self \in Engines /\ pc'[s_entries'[j].self] = "in"
               /\ s_entries'[j].huart \in Handles
               /\ m_huart'[s_entries'[j].self] = s_entries'[j].huart
    BY <1>1, <1>2, <2>1 DEF Mirror
  <2>2. ASSUME NEW e \in Engines, pc'[e] = "in"
        PROVE  \E j \in Slots : s_entries'[j].self = e
    <3>1. e # self /\ pc[e] = "in"
      BY <1>1, <2>2
    <3>2. PICK j \in Slots : s_entries[j].self = e
      BY <3>1 DEF Mirror
    <3> QED BY <1>1, <3>1, <3>2
  <2> QED BY <2>1, <2>2 DEF Mirror
<1>6. OneEnginePerPeripheral'
  BY <1>2 DEF OneEnginePerPeripheral, Unused
<1> QED BY <1>1, <1>3, <1>4, <1>5, <1>6 DEF OnlyBoundEnginesAreServed

LEMMA UnbindStep ==
    ASSUME RegistryInv, NEW self \in Engines, Unbind(self) PROVE RegistryInv'
BY DEF RegistryInv, Unbind, Mirror, OneEnginePerPeripheral, OnlyBoundEnginesAreServed

LEMMA DispatchStep ==
    ASSUME RegistryInv, RegistryDomains, NEW h \in Handles, Dispatch(h) PROVE RegistryInv'
<1> USE DEF RegistryInv
<1>1. PICK k \in Slots :
        /\ s_entries[k].huart = h
        /\ served' = [self |-> s_entries[k].self, huart |-> h,
                      bound |-> m_huart[s_entries[k].self]]
  BY DEF Dispatch, Found
<1>2. s_entries' = s_entries /\ m_huart' = m_huart /\ pc' = pc
  BY DEF Dispatch
<1>3. s_entries[k] # Unused
  BY <1>1 DEF Unused, RegistryDomains
<1>4. OnlyBoundEnginesAreServed'
  BY <1>1, <1>3 DEF Mirror, OnlyBoundEnginesAreServed
<1>5. Mirror' /\ OneEnginePerPeripheral'
  BY <1>2 DEF Mirror, OneEnginePerPeripheral
<1> QED BY <1>2, <1>4, <1>5

LEMMA RegistryInductive ==
    ASSUME RegistryDomains PROVE Spec => []RegistryInv
<1>1. Init => RegistryInv
  BY DEF Init, RegistryInv, Mirror, OneEnginePerPeripheral, OnlyBoundEnginesAreServed,
         Unused, RegistryDomains
<1>2. RegistryInv /\ [Next]_vars => RegistryInv'
  <2> SUFFICES ASSUME RegistryInv, [Next]_vars PROVE RegistryInv'
    OBVIOUS
  <2>1. CASE UNCHANGED vars
    BY <2>1 DEF vars, RegistryInv, Mirror, OneEnginePerPeripheral, OnlyBoundEnginesAreServed
  <2> QED BY <2>1, attachStep, detachStep, UnbindStep, DispatchStep DEF Next
<1> QED BY <1>1, <1>2, PTL DEF Spec

\* OnlyBoundEnginesAreServed, for every number of engines, handles and slots.
THEOREM RegistryServesBoundEngines ==
    ASSUME RegistryDomains PROVE Spec => []OnlyBoundEnginesAreServed
<1>1. RegistryInv => OnlyBoundEnginesAreServed
  BY DEF RegistryInv
<1> QED BY <1>1, RegistryInductive, PTL

\* EveryEngineIsFound: the entry of an engine is the first of its handle,
\* because no other entry has it.
THEOREM RegistryFindsEveryEngine ==
    ASSUME RegistryDomains PROVE Spec => []EveryEngineIsFound
<1>1. ASSUME RegistryInv, NEW e \in Engines, pc[e] = "in"
      PROVE  \E k \in Slots : Found(k, m_huart[e]) /\ s_entries[k].self = e
  <2>1. PICK k \in Slots : s_entries[k].self = e
    BY <1>1 DEF RegistryInv, Mirror
  <2>2. s_entries[k] # Unused
    BY <2>1 DEF Unused, RegistryDomains
  <2>3. s_entries[k].huart = m_huart[e] /\ s_entries[k].huart # Null
    BY <1>1, <2>1, <2>2 DEF RegistryInv, Mirror, RegistryDomains
  <2>4. ASSUME NEW j \in 1 .. (k - 1) PROVE s_entries[j].huart # m_huart[e]
    <3>1. j \in Slots /\ j # k
      BY DEF Slots, RegistryDomains
    <3> QED BY <1>1, <2>3, <3>1 DEF RegistryInv, OneEnginePerPeripheral
  <2> QED BY <2>1, <2>3, <2>4 DEF Found
<1>2. RegistryInv => EveryEngineIsFound
  BY <1>1 DEF EveryEngineIsFound
<1> QED BY <1>2, RegistryInductive, PTL
=============================================================================
