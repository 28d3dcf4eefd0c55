------------------------------ MODULE StopSource ------------------------------
(***************************************************************************)
(* async::stop_source, stop_token and stop_token::connection.  A source    *)
(* owns a shared state; tokens share it; a connection keeps one slot in it *)
(* connected.  Sources and connections are C++ objects that are moved,     *)
(* assigned over and destroyed; in an operation of variant_stream or       *)
(* connection_impl the connection is a local of the frame its slot refers  *)
(* to.  The slots of this code cancel I/O and call nothing here again, so  *)
(* stop is one step.                                                       *)
(***************************************************************************)
EXTENDS Naturals, FiniteSets

CONSTANTS
  Sources,      \* the stop_source objects; an empty one may be a destroyed one
  Connections,  \* the stop_token::connection objects, likewise
  States,       \* the stop_shared_states that may be made
  NoState,      \* the null shared_ptr
  MaxKey        \* how often one state is connected to, at most

ASSUME StopAssumption == NoState \notin States /\ MaxKey \in Nat

VARIABLES
  source,     \* [source -> its impl_]
  made,       \* the states that have been made
  stopped_,   \* the states that are stopped
  signals_,   \* [state -> the keys of the slots it has]
  next_key_,  \* [state -> the last key it gave]
  impl_, id_  \* [connection -> its members]

stateVars == <<made, stopped_, signals_, next_key_>>
connectionVars == <<impl_, id_>>
vars == <<source, stateVars, connectionVars>>

TypeOK ==
  /\ source \in [Sources -> States \cup {NoState}]
  /\ made \subseteq States
  /\ stopped_ \subseteq made
  /\ signals_ \in [States -> SUBSET (1..MaxKey)]
  /\ next_key_ \in [States -> 0..MaxKey]
  /\ impl_ \in [Connections -> made \cup {NoState}]
  /\ id_ \in [Connections -> 0..MaxKey]

Init ==
  /\ source = [s \in Sources |-> NoState]
  /\ made = {}
  /\ stopped_ = {}
  /\ signals_ = [t \in States |-> {}]
  /\ next_key_ = [t \in States |-> 0]
  /\ impl_ = [c \in Connections |-> NoState]
  /\ id_ = [c \in Connections |-> 0]

-----------------------------------------------------------------------------
(* Mutant: stop_source::stop does not test impl_. *)
StopStateUntested(t) ==
  /\ stopped_' = stopped_ \cup {t}
  /\ signals_' = [u \in States |-> IF u = t THEN {} ELSE signals_[u]]
  /\ UNCHANGED <<made, next_key_>>

(* stop_shared_state::stop through an impl_ that may be null: the slots are *)
(* taken out and called.                                                    *)
StopState(t) ==
  /\ stopped_' = stopped_ \cup ({t} \ {NoState})
  /\ signals_' = [u \in States |-> IF u = t THEN {} ELSE signals_[u]]
  /\ UNCHANGED <<made, next_key_>>

(* The constructor of stop_source. *)
MakeSource(s) ==
  /\ source[s] = NoState
  /\ \E t \in States \ made :
       /\ source' = [source EXCEPT ![s] = t]
       /\ made' = made \cup {t}
  /\ UNCHANGED <<stopped_, signals_, next_key_, connectionVars>>

(* Mutant: the old state is dropped and not stopped. *)
MoveSourceDropping(s, r) ==
  /\ s # r
  /\ source' = [source EXCEPT ![s] = source[r], ![r] = NoState]
  /\ UNCHANGED <<stateVars, connectionVars>>

(* The move constructor, and the move assignment, whose temporary stops the *)
(* state that s had.                                                        *)
MoveSource(s, r) ==
  /\ s # r
  /\ source' = [source EXCEPT ![s] = source[r], ![r] = NoState]
  /\ StopState(source[s])
  /\ UNCHANGED connectionVars

Stop(s) ==
  /\ StopState(source[s])
  /\ UNCHANGED <<source, connectionVars>>

DestroySource(s) ==
  /\ source' = [source EXCEPT ![s] = NoState]
  /\ StopState(source[s])
  /\ UNCHANGED connectionVars

-----------------------------------------------------------------------------
(* connection's destructor, and the head of its move assignment: disconnect *)
(* if (impl_ && id_).                                                       *)
SignalsWithout(c) ==
  [t \in States |-> IF t = impl_[c] THEN signals_[t] \ {id_[c]} ELSE signals_[t]]

(* Mutant: a stopped state keeps the slot and gives it a key. *)
KeepsAlways(t) == TRUE

(* connect tests stopped_. *)
Keeps(t) == t \notin stopped_

(* Mutant: the next slot is given the same key. *)
SameKey(t) == next_key_

NextKey(t) == [next_key_ EXCEPT ![t] = @ + 1]

(* c = token.connect(slot): a stopped state calls the slot at once and      *)
(* gives the connection no key; any other keeps it under its next key.      *)
Connect(c, t) ==
  /\ t \in made
  /\ impl_' = [impl_ EXCEPT ![c] = t]
  /\ \/ /\ ~Keeps(t)
        /\ id_' = [id_ EXCEPT ![c] = 0]
        /\ signals_' = SignalsWithout(c)
        /\ UNCHANGED next_key_
     \/ /\ Keeps(t) /\ next_key_[t] < MaxKey
        /\ next_key_' = NextKey(t)
        /\ id_' = [id_ EXCEPT ![c] = next_key_[t] + 1]
        /\ signals_' = [SignalsWithout(c) EXCEPT ![t] = @ \cup {next_key_[t] + 1}]
  /\ UNCHANGED <<source, made, stopped_>>

(* The default move constructor: the source keeps its key and is null.      *)
MoveConstruct(c, d) ==
  /\ c # d /\ impl_[c] = NoState
  /\ impl_' = [impl_ EXCEPT ![c] = impl_[d], ![d] = NoState]
  /\ id_' = [id_ EXCEPT ![c] = id_[d]]
  /\ UNCHANGED <<source, stateVars>>

(* Mutant: what c was connected to stays connected. *)
AssignLeaking(c, d) ==
  /\ c # d
  /\ impl_' = [impl_ EXCEPT ![c] = impl_[d], ![d] = NoState]
  /\ id_' = [id_ EXCEPT ![c] = id_[d], ![d] = 0]
  /\ UNCHANGED <<source, stateVars>>

(* The move assignment, but to the object itself. *)
MoveAssign(c, d) ==
  /\ c # d
  /\ signals_' = SignalsWithout(c)
  /\ impl_' = [impl_ EXCEPT ![c] = impl_[d], ![d] = NoState]
  /\ id_' = [id_ EXCEPT ![c] = id_[d], ![d] = 0]
  /\ UNCHANGED <<source, made, stopped_, next_key_>>

DestroyConnection(c) ==
  /\ signals_' = SignalsWithout(c)
  /\ impl_' = [impl_ EXCEPT ![c] = NoState]
  /\ id_' = [id_ EXCEPT ![c] = 0]
  /\ UNCHANGED <<source, made, stopped_, next_key_>>

Next ==
  \/ \E s \in Sources : MakeSource(s) \/ Stop(s) \/ DestroySource(s)
  \/ \E s, r \in Sources : MoveSource(s, r)
  \/ \E c \in Connections, t \in States : Connect(c, t)
  \/ \E c, d \in Connections : MoveConstruct(c, d) \/ MoveAssign(c, d)
  \/ \E c \in Connections : DestroyConnection(c)

Spec == Init /\ [][Next]_vars

-----------------------------------------------------------------------------
(* Properties                                                               *)

(* A state that nobody can stop any more has been stopped: it belongs to    *)
(* one source, through every move and assignment, or it is stopped.  So no  *)
(* operation waits for a stop that can no longer come.                      *)
OwnedOrStopped ==
  /\ \A t \in made \ stopped_ : \E s \in Sources : source[s] = t
  /\ \A s, r \in Sources : source[s] = source[r] /\ source[s] # NoState => s = r

(* The connections whose slot t keeps under key k. *)
HoldersOf(t, k) == {c \in Connections : impl_[c] = t /\ id_[c] = k}

(* A slot that a stop would call has one connection, the object whose       *)
(* lifetime bounds that of the frame it refers to: none is left behind by a *)
(* connection that is gone, and none is disconnected through another.       *)
SlotsAreHeld ==
  \A t \in States : \A k \in signals_[t] :
    \E c \in Connections : HoldersOf(t, k) = {c}

(* An operation that has connected its slot is not deaf to a stop: as long  *)
(* as its connection lives and the state is not stopped, the slot is kept.  *)
ConnectedIsHeard ==
  \A c \in Connections :
    impl_[c] \in made \ stopped_ => id_[c] \in signals_[impl_[c]]

(* A stop calls a slot once: it keeps none for another stop, and one that   *)
(* is connected after the stop is called then and not kept.                 *)
NoneKeptByStop == \A t \in stopped_ : signals_[t] = {}
=============================================================================
