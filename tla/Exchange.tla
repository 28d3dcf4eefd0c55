------------------------------- MODULE Exchange -------------------------------
(***************************************************************************)
(* What a connection object promises the pool and its callers, without the *)
(* wire, the buffer and the reasons why a transfer fails.  It serves one   *)
(* call at a time.  The request of a call is sent on the stream that the   *)
(* object has open; when that fails, or none is open, the object connects, *)
(* once, and sends it.  A call that has been stopped sends nothing more.   *)
(***************************************************************************)
EXTENDS Naturals

CONSTANT Calls   \* the calls that the object may serve

VARIABLES
  serving,      \* the call that is being served, or none
  stream,       \* "closed", "open", or "destroyed" with the object
  may_connect,  \* whether the call may still connect
  sent,         \* [call |-> how often its request was sent, wholly or in part]
  result,       \* [call |-> "none" yet, "ok", "error", "aborted" or "thrown"]
  stopped       \* the calls that were stopped

vars == <<serving, stream, may_connect, sent, result, stopped>>

Init ==
  /\ serving = {}
  /\ stream = "closed"
  /\ may_connect = TRUE
  /\ sent = [c \in Calls |-> 0]
  /\ result = [c \in Calls |-> "none"]
  /\ stopped = {}

Send(c) == sent' = [sent EXCEPT ![c] = @ + 1]

Ends(c, r) == serving' = {} /\ result' = [result EXCEPT ![c] = r]

(* A call that was stopped before sends nothing; if a stream is open, it is *)
(* closed, or breaks.                                                       *)
Begin(c) ==
  /\ serving = {} /\ stream # "destroyed" /\ result[c] = "none"
  /\ may_connect' = TRUE
  /\ \/ /\ c \notin stopped
        /\ serving' = {c}
        /\ IF stream = "open" THEN Send(c) ELSE UNCHANGED sent
        /\ UNCHANGED <<stream, result>>
     \/ /\ c \in stopped
        /\ \/ Ends(c, "aborted") /\ stream' = "closed"
           \/ Ends(c, "thrown") /\ stream = "open" /\ stream' = "destroyed"
        /\ UNCHANGED sent
  /\ UNCHANGED stopped

(* The stream that was open fails, and the call goes on to connect. *)
GiveUpStream(c) ==
  /\ serving = {c} /\ may_connect /\ stream = "open" /\ c \notin stopped
  /\ stream' = "closed"
  /\ UNCHANGED <<serving, may_connect, sent, result, stopped>>

Connect(c) ==
  /\ serving = {c} /\ may_connect /\ stream = "closed" /\ c \notin stopped
  /\ stream' = "open"
  /\ may_connect' = FALSE
  /\ Send(c)
  /\ UNCHANGED <<serving, result, stopped>>

(* Only a call that was stopped is aborted, and one that found a stream     *)
(* open does not fail before it has tried a new one.                        *)
End(c) ==
  /\ serving = {c}
  /\ may_connect' \in {may_connect, FALSE}
  /\ \/ Ends(c, "ok") /\ stream = "open" /\ stream' \in {"open", "closed"}
     \/ /\ Ends(c, "error") /\ stream' = "closed"
        /\ may_connect => stream = "closed"
     \/ Ends(c, "aborted") /\ stream' = "closed" /\ c \in stopped
     \/ Ends(c, "thrown") /\ stream' = "destroyed"
  /\ UNCHANGED <<sent, stopped>>

Stop(c) ==
  /\ stopped' = stopped \cup {c}
  /\ UNCHANGED <<serving, stream, may_connect, sent, result>>

(* The caller that made call c is done with it and makes another one. *)
Again(c) ==
  /\ serving # {c}
  /\ sent' = [sent EXCEPT ![c] = 0]
  /\ result' = [result EXCEPT ![c] = "none"]
  /\ stopped' = stopped \ {c}
  /\ UNCHANGED <<serving, stream, may_connect>>

Next ==
  \E c \in Calls :
    Begin(c) \/ GiveUpStream(c) \/ Connect(c) \/ End(c) \/ Stop(c) \/ Again(c)

Spec == Init /\ [][Next]_vars
=============================================================================
