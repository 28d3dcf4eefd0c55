--------------------------- MODULE StopSourceProofs ---------------------------
(***************************************************************************)
(* Proofs about StopSource, for any number of sources, connections and     *)
(* shared states.                                                          *)
(***************************************************************************)
EXTENDS StopSource, TLAPS

(* The types, with the fact that a source's state has been made.            *)
TypeInv == TypeOK /\ \A s \in Sources : source[s] \in made \cup {NoState}

LEMMA TypeInit == Init => TypeInv
  BY StopAssumption DEF StopAssumption, Init, TypeInv, TypeOK

LEMMA WithoutType ==
  ASSUME TypeOK, NEW c \in Connections
  PROVE  SignalsWithout(c) \in [States -> SUBSET (1..MaxKey)]
  BY DEF TypeOK, SignalsWithout

LEMMA TypeStep == TypeInv /\ [Next]_vars => TypeInv'
<1>. SUFFICES ASSUME TypeInv, [Next]_vars PROVE TypeInv'
  OBVIOUS
<1>. USE StopAssumption DEF StopAssumption, TypeInv, TypeOK
<1>1. ASSUME NEW s \in Sources, MakeSource(s) PROVE TypeInv'
  BY <1>1 DEF MakeSource, connectionVars
<1>2. ASSUME NEW s \in Sources, Stop(s) PROVE TypeInv'
  BY <1>2 DEF Stop, StopState, connectionVars
<1>3. ASSUME NEW s \in Sources, DestroySource(s) PROVE TypeInv'
  BY <1>3 DEF DestroySource, StopState, connectionVars
<1>4. ASSUME NEW s \in Sources, NEW r \in Sources, MoveSource(s, r) PROVE TypeInv'
  BY <1>4 DEF MoveSource, StopState, connectionVars
<1>5. ASSUME NEW c \in Connections, NEW t \in States, Connect(c, t) PROVE TypeInv'
  <2>1. SignalsWithout(c) \in [States -> SUBSET (1..MaxKey)]
    BY WithoutType
  <2>2. CASE t \in stopped_
    BY <1>5, <2>1, <2>2 DEF Connect, Keeps, NextKey
  <2>3. CASE t \notin stopped_
    <3>1. next_key_[t] + 1 \in 1..MaxKey
      BY <1>5, <2>3 DEF Connect, Keeps, NextKey
    <3>. DEFINE kept == SignalsWithout(c)[t] \cup {next_key_[t] + 1}
    <3>2. kept \in SUBSET (1..MaxKey)
      BY <2>1, <3>1
    <3>3. signals_' = [SignalsWithout(c) EXCEPT ![t] = kept]
      BY <1>5, <2>1, <2>3 DEF Connect, Keeps, NextKey
    <3>. HIDE DEF kept
    <3>4. signals_' \in [States -> SUBSET (1..MaxKey)]
      BY <2>1, <3>2, <3>3
    <3>. QED
      BY <1>5, <2>3, <3>1, <3>4 DEF Connect, Keeps, NextKey
  <2>. QED
    BY <2>2, <2>3
<1>6. ASSUME NEW c \in Connections, NEW d \in Connections, MoveConstruct(c, d) PROVE TypeInv'
  BY <1>6 DEF MoveConstruct, stateVars
<1>7. ASSUME NEW c \in Connections, NEW d \in Connections, MoveAssign(c, d) PROVE TypeInv'
  BY <1>7, WithoutType DEF MoveAssign
<1>8. ASSUME NEW c \in Connections, DestroyConnection(c) PROVE TypeInv'
  BY <1>8, WithoutType DEF DestroyConnection
<1>9. CASE UNCHANGED vars
  BY <1>9 DEF vars, stateVars, connectionVars
<1>. QED
  BY <1>1, <1>2, <1>3, <1>4, <1>5, <1>6, <1>7, <1>8, <1>9 DEF Next

LEMMA TypeInvariance == Spec => []TypeInv
  BY TypeInit, TypeStep, PTL DEF Spec

(* Sources, states and connections keep their types.                        *)
THEOREM StopTypeCorrect == Spec => []TypeOK
<1>1. TypeInv => TypeOK
  BY DEF TypeInv
<1>. QED
  BY <1>1, TypeInvariance, PTL

-----------------------------------------------------------------------------
LEMMA OwnedStep == TypeInv /\ OwnedOrStopped /\ [Next]_vars => OwnedOrStopped'
<1>. SUFFICES ASSUME TypeInv, OwnedOrStopped, [Next]_vars PROVE OwnedOrStopped'
  OBVIOUS
<1>. USE StopAssumption DEF StopAssumption, TypeInv, TypeOK, OwnedOrStopped
<1>1. ASSUME NEW s \in Sources, MakeSource(s) PROVE OwnedOrStopped'
  BY <1>1 DEF MakeSource
<1>2. ASSUME NEW s \in Sources, Stop(s) PROVE OwnedOrStopped'
  BY <1>2 DEF Stop, StopState
<1>3. ASSUME NEW s \in Sources, DestroySource(s) PROVE OwnedOrStopped'
  BY <1>3 DEF DestroySource, StopState
<1>4. ASSUME NEW s \in Sources, NEW r \in Sources, MoveSource(s, r) PROVE OwnedOrStopped'
  BY <1>4 DEF MoveSource, StopState
<1>5. ASSUME NEW c \in Connections, NEW t \in States, Connect(c, t) PROVE OwnedOrStopped'
  BY <1>5 DEF Connect, Keeps, NextKey
<1>6. ASSUME NEW c \in Connections, NEW d \in Connections,
             MoveConstruct(c, d) \/ MoveAssign(c, d)
      PROVE  OwnedOrStopped'
  BY <1>6 DEF MoveConstruct, MoveAssign, stateVars
<1>7. ASSUME NEW c \in Connections, DestroyConnection(c) PROVE OwnedOrStopped'
  BY <1>7 DEF DestroyConnection
<1>8. CASE UNCHANGED vars
  BY <1>8 DEF vars, stateVars
<1>. QED
  BY <1>1, <1>2, <1>3, <1>4, <1>5, <1>6, <1>7, <1>8 DEF Next

(* A state that no source can stop any more is stopped.                     *)
THEOREM StatesOwned == Spec => []OwnedOrStopped
<1>1. Init => OwnedOrStopped
  BY DEF Init, OwnedOrStopped
<1>. QED
  BY <1>1, OwnedStep, TypeInvariance, PTL DEF Spec

-----------------------------------------------------------------------------
(* The slots and the connections that hold them: a key is at most the last  *)
(* one given, a kept slot has one holder, and a stopped state keeps none.   *)
SlotInv ==
  /\ \A t \in States : \A k \in signals_[t] : k <= next_key_[t]
  /\ SlotsAreHeld
  /\ ConnectedIsHeard
  /\ NoneKeptByStop

LEMMA SlotInit == Init => SlotInv
  BY StopAssumption
  DEF StopAssumption, Init, SlotInv, SlotsAreHeld, ConnectedIsHeard, NoneKeptByStop

(* A kept slot is kept under one key by one connection: SlotsAreHeld, said  *)
(* without sets.                                                            *)
Held(t, k, c) ==
  /\ impl_[c] = t /\ id_[c] = k
  /\ \A d \in Connections : impl_[d] = t /\ id_[d] = k => d = c

LEMMA HeldByOne ==
  SlotsAreHeld <=>
    \A t \in States : \A k \in signals_[t] : \E c \in Connections : Held(t, k, c)
  BY DEF SlotsAreHeld, HoldersOf, Held

LEMMA HeldByOneNext ==
  SlotsAreHeld' <=>
    \A t \in States : \A k \in signals_'[t] : \E c \in Connections : Held(t, k, c)'
  BY DEF SlotsAreHeld, HoldersOf, Held

LEMMA SlotStep == TypeInv /\ TypeInv' /\ SlotInv /\ [Next]_vars => SlotInv'
<1>. SUFFICES ASSUME TypeInv, TypeInv', SlotInv, [Next]_vars PROVE SlotInv'
  OBVIOUS
<1>1. /\ \A t \in States : \A k \in signals_[t] : k <= next_key_[t]
      /\ \A t \in States : \A k \in signals_[t] : \E c \in Connections : Held(t, k, c)
      /\ ConnectedIsHeard
      /\ NoneKeptByStop
  BY HeldByOne DEF SlotInv
<1>. USE <1>1, StopAssumption
     DEF StopAssumption, TypeInv, TypeOK, Held, ConnectedIsHeard, NoneKeptByStop
<1>2. ASSUME NEW s \in Sources, MakeSource(s) PROVE SlotInv'
  BY <1>2, HeldByOneNext DEF MakeSource, connectionVars, SlotInv
<1>3. ASSUME NEW u, StopState(u), UNCHANGED connectionVars PROVE SlotInv'
  BY <1>3, HeldByOneNext DEF StopState, connectionVars, SlotInv
<1>4. ASSUME NEW c \in Connections, NEW t \in States, Connect(c, t) PROVE SlotInv'
  <2>1. CASE t \in stopped_
    BY <1>4, <2>1, HeldByOneNext DEF Connect, Keeps, NextKey, SignalsWithout, SlotInv
  <2>2. CASE t \notin stopped_
    <3>0. PICK n \in Nat : n = next_key_[t] + 1
      OBVIOUS
    <3>1. /\ t \in made
          /\ next_key_' = [next_key_ EXCEPT ![t] = n]
          /\ impl_' = [impl_ EXCEPT ![c] = t]
          /\ id_' = [id_ EXCEPT ![c] = n]
          /\ UNCHANGED <<made, stopped_>>
      BY <1>4, <2>2, <3>0 DEF Connect, Keeps, NextKey
    <3>2. \A u \in States : signals_'[u] =
            (IF u = impl_[c] THEN signals_[u] \ {id_[c]} ELSE signals_[u])
              \cup (IF u = t THEN {n} ELSE {})
      <4>1. signals_' = [SignalsWithout(c) EXCEPT ![t] = @ \cup {n}]
        BY <1>4, <2>2, <3>0 DEF Connect, Keeps, NextKey
      <4>2. \A u \in States : signals_'[u] =
              SignalsWithout(c)[u] \cup (IF u = t THEN {n} ELSE {})
        BY <4>1, WithoutType
      <4>. QED
        BY <4>2 DEF SignalsWithout
    <3>3. ASSUME NEW u \in States, NEW k \in signals_'[u]
          PROVE  k <= next_key_'[u]
      <4>1. k \in signals_[u] \/ (u = t /\ k = n)
        BY <3>2
      <4>2. next_key_[u] \in Nat /\ signals_[u] \subseteq 1..MaxKey
        OBVIOUS
      <4>3. next_key_'[u] = IF u = t THEN n ELSE next_key_[u]
        BY <3>1
      <4>4. CASE k \in signals_[u]
        BY <3>0, <4>2, <4>3, <4>4
      <4>5. CASE u = t /\ k = n
        BY <4>3, <4>5
      <4>. QED
        BY <4>1, <4>4, <4>5
    <3>4. \A d \in Connections \ {c} : impl_'[d] = impl_[d] /\ id_'[d] = id_[d]
      BY <3>1
    <3>5. \A d \in Connections : impl_[d] = t => id_[d] # n
      BY <2>2, <3>0, <3>1
    <3>6. Held(t, n, c)'
      BY <3>1, <3>4, <3>5
    <3>7. ASSUME NEW u \in States, NEW k \in signals_[u], u # impl_[c] \/ k # id_[c]
          PROVE  \E d \in Connections : Held(u, k, d)'
      <4>1. PICK d \in Connections : Held(u, k, d)
        OBVIOUS
      <4>2. d # c
        BY <3>7, <4>1
      <4>3. ~(u = t /\ k = n)
        BY <4>1, <3>5
      <4>4. Held(u, k, d)'
        BY <3>1, <3>4, <4>1, <4>2, <4>3
      <4>. QED
        BY <4>4
    <3>8. \A u \in States : \A k \in signals_'[u] : \E d \in Connections : Held(u, k, d)'
      BY <3>2, <3>6, <3>7
    <3>9. ConnectedIsHeard'
      <4>1. ASSUME NEW d \in Connections, d # c, impl_[d] \in made \ stopped_
            PROVE  id_[d] \in signals_'[impl_[d]]
        <5>1. id_[d] \in signals_[impl_[d]]
          BY <4>1
        <5>2. ~(impl_[d] = impl_[c] /\ id_[d] = id_[c])
          BY <4>1, <5>1
        <5>. QED
          BY <3>2, <4>1, <5>1, <5>2
      <4>2. id_'[c] \in signals_'[impl_'[c]]
        BY <3>1, <3>2
      <4>. QED
        BY <3>1, <3>4, <4>1, <4>2
    <3>10. NoneKeptByStop'
      BY <2>2, <3>1, <3>2
    <3>. QED
      BY <3>3, <3>8, <3>9, <3>10, HeldByOneNext DEF SlotInv
  <2>. QED
    BY <2>1, <2>2
<1>5. ASSUME NEW c \in Connections, NEW d \in Connections, MoveConstruct(c, d) PROVE SlotInv'
  BY <1>5, HeldByOneNext DEF MoveConstruct, stateVars, SlotInv
<1>6. ASSUME NEW c \in Connections, NEW d \in Connections, MoveAssign(c, d) PROVE SlotInv'
  BY <1>6, HeldByOneNext DEF MoveAssign, SignalsWithout, SlotInv
<1>7. ASSUME NEW c \in Connections, DestroyConnection(c) PROVE SlotInv'
  BY <1>7, HeldByOneNext DEF DestroyConnection, SignalsWithout, SlotInv
<1>8. CASE UNCHANGED vars
  BY <1>8, HeldByOneNext DEF vars, stateVars, connectionVars, SlotInv
<1>. QED
  BY <1>2, <1>3, <1>4, <1>5, <1>6, <1>7, <1>8
  DEF Next, Stop, DestroySource, MoveSource, SlotInv

LEMMA SlotInvariance == Spec => []SlotInv
  BY SlotInit, SlotStep, TypeInvariance, PTL DEF Spec

(* A slot that a stop would call has one connection.                        *)
THEOREM SlotsHeld == Spec => []SlotsAreHeld
<1>1. SlotInv => SlotsAreHeld
  BY DEF SlotInv
<1>. QED
  BY <1>1, SlotInvariance, PTL

(* The slot of a live connection is kept until a stop calls it.             *)
THEOREM ConnectionsHeard == Spec => []ConnectedIsHeard
<1>1. SlotInv => ConnectedIsHeard
  BY DEF SlotInv
<1>. QED
  BY <1>1, SlotInvariance, PTL

(* A stopped state keeps no slot.                                           *)
THEOREM NoneKept == Spec => []NoneKeptByStop
<1>1. SlotInv => NoneKeptByStop
  BY DEF SlotInv
<1>. QED
  BY <1>1, SlotInvariance, PTL
=============================================================================
