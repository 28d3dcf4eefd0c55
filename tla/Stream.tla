-------------------------------- MODULE Stream --------------------------------
(***************************************************************************)
(* What a variant_stream promises its owner, without resolver, timers,     *)
(* endpoints and handshakes.  Every connect is given the token of a        *)
(* stop_source of its own.                                                 *)
(***************************************************************************)

VARIABLES
  stream,   \* "closed", "connecting" or "open"
  stopped,  \* whether the stop_source of the last connect is stopped
  error     \* what the last connect gave: "none", "error" or "aborted"

vars == <<stream, stopped, error>>

Init == stream = "closed" /\ stopped = FALSE /\ error = "none"

(* A connect whose stop_source is stopped already ends at once. *)
Connect ==
  /\ stream = "closed"
  /\ \/ stopped' = TRUE /\ error' = "aborted" /\ UNCHANGED stream
     \/ stopped' = FALSE /\ error' = "none" /\ stream' = "connecting"

Opens ==
  /\ stream = "connecting"
  /\ stream' = "open" /\ error' = "none"
  /\ UNCHANGED stopped

(* operation_aborted means a stop to those who wait for the connect: no     *)
(* timer, whatever it cancels, may make a connect end with it.              *)
Fails ==
  /\ stream = "connecting"
  /\ stream' = "closed"
  /\ error' = "error" \/ (error' = "aborted" /\ stopped)
  /\ UNCHANGED stopped

Stop ==
  /\ stream = "connecting"
  /\ stopped' = TRUE
  /\ UNCHANGED <<stream, error>>

Close ==
  /\ stream = "open"
  /\ stream' = "closed"
  /\ UNCHANGED <<stopped, error>>

Next == Connect \/ Opens \/ Fails \/ Stop \/ Close

Spec == Init /\ [][Next]_vars
=============================================================================
