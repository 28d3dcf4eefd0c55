------------------------- MODULE VariantStreamProofs -------------------------
(***************************************************************************)
(* Proofs about VariantStream, for names of any number of endpoints.       *)
(***************************************************************************)
EXTENDS VariantStream, TLAPS

(* What resolve holds while it waits: with the resolver's handler behind it *)
(* and no error it has an endpoint, with the timer's handler before the     *)
(* resolver's it has an error, and endpoints come with no error but a stop. *)
ResolveInv ==
  pc = "resolve" =>
    /\ ~pending_resolve /\ error = "none" => results > 0
    /\ pending_resolve /\ ~pending_timer => error # "none"
    /\ results > 0 /\ ~stopped => error = "none" /\ ~pending_resolve

(* The types of the variables other than the flags.                         *)
CoreTypes ==
  /\ pc \in {"idle", "resolve", "connect_tcp", "handshake"}
  /\ ttype \in {"tcp", "tls"}
  /\ resolver \in {"running", "done"} \cup Outcomes
  /\ timer \in {"running", "posted", "done"}
  /\ cv \in {"none", "waiting", "posted"}
  /\ error \in {"none", "failed", "aborted", "timed_out"}
  /\ results \in 0..MaxEndpoints
  /\ left \in 0..MaxEndpoints
  /\ attempt \in {"none", "running"} \cup Outcomes
  /\ var_ \in {"monostate", ttype}

FlagTypes == stopped \in BOOLEAN /\ deadline \in BOOLEAN

IInv == CoreTypes /\ FrameOutlivesHandlers /\ NoLostCvWakeup /\ ResolveInv

LEMMA FlagsInit == Init => FlagTypes
  BY Zenon DEF Init, FlagTypes

LEMMA FlagsStep == FlagTypes /\ [Next]_vars => FlagTypes'
<1>. SUFFICES ASSUME FlagTypes, [Next]_vars PROVE FlagTypes'
  OBVIOUS
<1>. USE DEF FlagTypes
<1>1. CASE Connect
  BY <1>1, Zenon DEF Connect, Finish, Kept, streamVars
<1>2. CASE ResumeResolve
  BY <1>2, Zenon DEF ResumeResolve, Finish, Kept, streamVars
<1>3. CASE ConnectTcpReturns
  BY <1>3, Zenon DEF ConnectTcpReturns, StartHandshake, MayShakeHands, Finish, Kept
<1>4. CASE HandshakeStep
  BY <1>4, Zenon DEF HandshakeStep, Finish, Kept
<1>5. CASE Timeout
  BY <1>5, Zenon DEF Timeout, TimedSteps, Finish, Kept
<1>6. CASE Stop
  <2>1. (pc = "handshake") \in BOOLEAN
    BY Zenon
  <2>2. CASE StopResolve
    BY <1>6, <2>2, Zenon DEF Stop, StopResolve, streamVars
  <2>3. CASE StopTransfer
    BY <1>6, <2>1, <2>3, Zenon DEF Stop, StopTransfer
  <2>. QED
    BY <1>6, <2>2, <2>3, Zenon DEF Stop
<1>7. CASE ResolverCompletes \/ TimerExpires
  BY <1>7, Zenon DEF ResolverCompletes, TimerExpires, streamVars
<1>8. CASE ResolveHandler \/ TimerHandler
  BY <1>8, Zenon DEF ResolveHandler, TimerHandler, streamVars
<1>9. CASE AttemptCompletes \/ NextEndpoint \/ Close
  BY <1>9, Zenon DEF AttemptCompletes, NextEndpoint, Close
<1>10. CASE UNCHANGED vars
  BY <1>10, Zenon DEF vars, streamVars
<1>. QED
  BY <1>1, <1>2, <1>3, <1>4, <1>5, <1>6, <1>7, <1>8, <1>9, <1>10, Zenon DEF Next

LEMMA InitInv == Init => IInv
  BY EndpointsAssumption
  DEF EndpointsAssumption, Init, IInv, CoreTypes, FrameOutlivesHandlers, NoLostCvWakeup,
      ResolveInv, pending_resolve, pending_timer, Outcomes

LEMMA StepInv == IInv /\ [Next]_vars => IInv'
<1>. SUFFICES ASSUME IInv, [Next]_vars PROVE IInv'
  OBVIOUS
<1>. USE EndpointsAssumption
     DEF EndpointsAssumption, IInv, CoreTypes, FrameOutlivesHandlers, NoLostCvWakeup,
         ResolveInv, pending_resolve, pending_timer, Outcomes
<1>1. CASE Connect
  BY <1>1 DEF Connect, Finish, Kept, resolveVars, streamVars
<1>2. CASE ResolverCompletes
  BY <1>2 DEF ResolverCompletes, streamVars
<1>3. CASE TimerExpires
  BY <1>3 DEF TimerExpires, streamVars
<1>4. CASE ResolveHandler
  BY <1>4 DEF ResolveHandler, ResolveError, CancelTimer, NotifyCv, streamVars
<1>5. CASE TimerHandler
  BY <1>5 DEF TimerHandler, TimerError, CancelResolver, NotifyCv, streamVars
<1>6. CASE ResumeResolve
  BY <1>6 DEF ResumeResolve, Waiting, Finish, Kept, streamVars
<1>7. CASE AttemptCompletes
  BY <1>7 DEF AttemptCompletes, resolveVars
<1>8. CASE NextEndpoint
  BY <1>8 DEF NextEndpoint, resolveVars
<1>9. CASE ConnectTcpReturns
  BY <1>9 DEF ConnectTcpReturns, StartHandshake, MayShakeHands, Finish, Kept, resolveVars
<1>10. CASE HandshakeStep
  BY <1>10 DEF HandshakeStep, Finish, Kept, resolveVars
<1>11. CASE Timeout
  BY <1>11 DEF Timeout, TimedSteps, Finish, Kept, resolveVars
<1>12. CASE Stop
  BY <1>12 DEF Stop, StopResolve, StopTransfer, CancelTimer, CancelResolver,
               resolveVars, streamVars
<1>13. CASE Close
  BY <1>13 DEF Close, resolveVars
<1>14. CASE UNCHANGED vars
  BY <1>14 DEF vars, resolveVars, streamVars
<1>. QED
  BY <1>1, <1>2, <1>3, <1>4, <1>5, <1>6, <1>7, <1>8, <1>9, <1>10, <1>11, <1>12,
     <1>13, <1>14 DEF Next

LEMMA Invariance == Spec => []IInv
  BY InitInv, StepInv, PTL DEF Spec

(* The state of a stream keeps its types.                                   *)
THEOREM StreamTypeCorrect == Spec => []TypeOK
<1>1. IInv /\ FlagTypes => TypeOK
  BY DEF IInv, CoreTypes, FlagTypes, TypeOK
<1>2. Spec => []FlagTypes
  BY FlagsInit, FlagsStep, PTL DEF Spec
<1>. QED
  BY <1>1, <1>2, Invariance, PTL

(* resolve's frame outlives its handlers, and connect_tcp has an endpoint.  *)
THEOREM FrameSafe == Spec => []FrameOutlivesHandlers
<1>1. IInv => FrameOutlivesHandlers
  BY DEF IInv
<1>. QED
  BY <1>1, Invariance, PTL

(* resolve never sleeps with both handlers behind it.                       *)
THEOREM CvWakeups == Spec => []NoLostCvWakeup
<1>1. IInv => NoLostCvWakeup
  BY DEF IInv
<1>. QED
  BY <1>1, Invariance, PTL

(* resolve gives endpoints or an error, and both only when a stop came after *)
(* the answer, in whatever order its handlers run (resolve).                *)
THEOREM ResolveDecides == Spec => []ResolvedOrFailed
<1>1. IInv => ResolvedOrFailed
  BY DEF IInv, ResolveInv, ResolvedOrFailed
<1>. QED
  BY <1>1, Invariance, PTL

(* connect leaves the stream open when it succeeds, and closed when not.    *)
THEOREM Postconditions == Spec => OpenIffConnected
<1>1. ASSUME IInv, [Next]_vars, pc # "idle", pc' = "idle"
      PROVE  error' = "none" <=> var_' # "monostate"
  <2>1. \E ec \in {"none", "failed", "aborted", "timed_out"} : Finish(ec)
    <3>. USE <1>1 DEF IInv, CoreTypes, Outcomes
    <3>1. CASE Connect \/ Close
      BY <3>1 DEF Connect, Close
    <3>2. CASE ResumeResolve
      BY <3>2 DEF ResumeResolve
    <3>3. CASE ConnectTcpReturns
      BY <3>3 DEF ConnectTcpReturns, StartHandshake, MayShakeHands
    <3>4. CASE HandshakeStep
      BY <3>4 DEF HandshakeStep
    <3>5. CASE Timeout
      BY <3>5 DEF Timeout, TimedSteps
    <3>6. CASE \/ ResolverCompletes \/ TimerExpires \/ ResolveHandler \/ TimerHandler
               \/ AttemptCompletes \/ NextEndpoint \/ Stop \/ UNCHANGED vars
      BY <3>6 DEF ResolverCompletes, TimerExpires, ResolveHandler, TimerHandler,
                  AttemptCompletes, NextEndpoint, Stop, vars
    <3>. QED
      BY <3>1, <3>2, <3>3, <3>4, <3>5, <3>6 DEF Next
  <2>2. ttype \in {"tcp", "tls"}
    BY <1>1 DEF IInv, CoreTypes
  <2>. QED
    BY <2>1, <2>2 DEF Finish, Kept
<1>. QED
  BY <1>1, Invariance, PTL DEF Spec, OpenIffConnected

(* A connect that is stopped begins no other step.                          *)
THEOREM StopEnds == Spec => StopEndsTheStep
<1>1. ASSUME IInv, [Next]_vars, stopped', pc' # pc
      PROVE  pc' = "idle"
  <2>. USE <1>1 DEF IInv, CoreTypes
  <2>1. CASE Connect
    BY <2>1 DEF Connect, Finish, Kept
  <2>2. CASE ResumeResolve
    BY <2>2 DEF ResumeResolve, Finish, Kept
  <2>3. CASE ConnectTcpReturns
    BY <2>3 DEF ConnectTcpReturns, StartHandshake, MayShakeHands, Finish, Kept
  <2>4. CASE HandshakeStep
    BY <2>4 DEF HandshakeStep, Finish, Kept
  <2>5. CASE Timeout
    BY <2>5 DEF Timeout, TimedSteps, Finish, Kept
  <2>6. CASE \/ ResolverCompletes \/ TimerExpires \/ ResolveHandler \/ TimerHandler
             \/ AttemptCompletes \/ NextEndpoint \/ Stop \/ Close \/ UNCHANGED vars
    BY <2>6 DEF ResolverCompletes, TimerExpires, ResolveHandler, TimerHandler,
                AttemptCompletes, NextEndpoint, Stop, Close, vars
  <2>. QED
    BY <2>1, <2>2, <2>3, <2>4, <2>5, <2>6 DEF Next
<1>. QED
  BY <1>1, Invariance, PTL DEF Spec, StopEndsTheStep
-----------------------------------------------------------------------------
(* The stream keeps what Stream promises.                                   *)

(* Whatever was aborted, was so by a stop, or by the timer's handler whose  *)
(* own error stands: ResolveError stores nothing after it.                  *)
AbortInv ==
  /\ error = "aborted" => stopped
  /\ resolver = "aborted" /\ pending_timer => stopped
  /\ attempt = "aborted" => stopped
  /\ attempt # "none" => pc \in {"connect_tcp", "handshake"}

LEMMA AbortInit == Init => AbortInv
  BY DEF Init, AbortInv

(* How a connect ends, whichever step it is in. *)
LEMMA FinishAborted ==
  ASSUME AbortInv, NEW ec, Finish(ec), ec = "aborted" => stopped,
         UNCHANGED <<stopped, resolver, timer>>
  PROVE  AbortInv'
  BY DEF AbortInv, Finish, pending_timer

LEMMA AbortStep == IInv /\ AbortInv /\ [Next]_vars => AbortInv'
<1>. SUFFICES ASSUME IInv, AbortInv, [Next]_vars PROVE AbortInv'
  OBVIOUS
<1>1. CASE Connect
  <2>1. attempt = "none" /\ resolver = "done"
    BY <1>1 DEF IInv, FrameOutlivesHandlers, AbortInv, Connect, pending_resolve
  <2>2. CASE stopped' = TRUE /\ Finish("aborted") /\ UNCHANGED resolveVars
    BY <2>1, <2>2 DEF Finish, AbortInv, resolveVars
  <2>3. CASE pc' = "resolve" /\ resolver' = "running" /\ error' = "none" /\ UNCHANGED streamVars
    BY <2>1, <2>3 DEF AbortInv, streamVars
  <2>. QED
    BY <1>1, <2>2, <2>3 DEF Connect
<1>2. CASE ResolverCompletes \/ TimerExpires
  BY <1>2 DEF ResolverCompletes, TimerExpires, streamVars, AbortInv, pending_timer
<1>3. CASE ResolveHandler
  <2>1. pending_timer' => pending_timer
    BY <1>3 DEF ResolveHandler, CancelTimer, pending_timer
  <2>2. error' = "aborted" => stopped
    BY <1>3 DEF ResolveHandler, ResolveError, AbortInv
  <2>. QED
    BY <1>3, <2>1, <2>2 DEF ResolveHandler, streamVars, AbortInv
<1>4. CASE TimerHandler
  <2>1. error' = "aborted" => stopped
    BY <1>4 DEF TimerHandler, TimerError, AbortInv
  <2>. QED
    BY <1>4, <2>1 DEF TimerHandler, streamVars, AbortInv, pending_timer
<1>5. CASE ResumeResolve
  <2>1. CASE UNCHANGED <<pc, error, streamVars>>
    BY <1>5, <2>1 DEF ResumeResolve, AbortInv, pending_timer, streamVars
  <2>2. CASE \E ec : Finish(ec) /\ (ec = "aborted" => stopped)
    BY <1>5, <2>2, FinishAborted DEF ResumeResolve
  <2>3. CASE pc' = "connect_tcp" /\ attempt' = "running" /\ UNCHANGED error
    BY <1>5, <2>3 DEF ResumeResolve, AbortInv, pending_timer
  <2>. QED
    BY <1>5, <2>1, <2>2, <2>3 DEF ResumeResolve, AbortInv
<1>6. CASE AttemptCompletes \/ NextEndpoint
  BY <1>6 DEF AttemptCompletes, NextEndpoint, resolveVars, AbortInv, pending_timer
<1>7. CASE ConnectTcpReturns
  <2>1. CASE \E ec : Finish(ec) /\ (ec = "aborted" => stopped)
    BY <1>7, <2>1, FinishAborted DEF ConnectTcpReturns, resolveVars
  <2>2. CASE pc' = "handshake" /\ attempt' = "running" /\ UNCHANGED error
    BY <1>7, <2>2 DEF ConnectTcpReturns, resolveVars, AbortInv, pending_timer
  <2>. QED
    BY <1>7, <2>1, <2>2 DEF ConnectTcpReturns, StartHandshake, MayShakeHands, AbortInv
<1>8. CASE HandshakeStep
  <2>1. CASE \E ec : Finish(ec) /\ (ec = "aborted" => stopped)
    BY <1>8, <2>1, FinishAborted DEF HandshakeStep, resolveVars
  <2>2. CASE attempt' = "running" /\ UNCHANGED <<pc, error>>
    BY <1>8, <2>2 DEF HandshakeStep, resolveVars, AbortInv, pending_timer
  <2>. QED
    BY <1>8, <2>1, <2>2 DEF HandshakeStep, AbortInv
<1>9. CASE Timeout
  BY <1>9, FinishAborted DEF Timeout, resolveVars
<1>10. CASE Stop
  BY <1>10 DEF Stop, StopResolve, StopTransfer, streamVars, resolveVars, AbortInv
<1>11. CASE Close
  BY <1>11 DEF Close, resolveVars, AbortInv, pending_timer
<1>12. CASE UNCHANGED vars
  BY <1>12 DEF vars, resolveVars, streamVars, AbortInv, pending_timer
<1>. QED
  BY <1>1, <1>2, <1>3, <1>4, <1>5, <1>6, <1>7, <1>8, <1>9, <1>10, <1>11, <1>12 DEF Next

(* Nothing that happens inside a connect shows. *)
LEMMA InsideStep ==
  ASSUME pc # "idle", pc' # "idle", UNCHANGED stopped
  PROVE  UNCHANGED Promise!vars
  BY DEF Promise!vars

LEMMA FinishStep ==
  ASSUME IInv, pc # "idle", UNCHANGED <<stopped, ttype>>,
         NEW ec \in {"none", "failed", "aborted", "timed_out"},
         Finish(ec), ec = "aborted" => stopped
  PROVE  Promise!Opens \/ Promise!Fails
<1>1. ttype # "monostate"
  BY DEF IInv, CoreTypes
<1>2. CASE ec = "none"
  BY <1>1, <1>2 DEF Finish, Kept, Promise!Opens
<1>3. CASE ec # "none"
  BY <1>3 DEF Finish, Kept, Promise!Fails
<1>. QED
  BY <1>2, <1>3

LEMMA StreamStep ==
  ASSUME IInv, AbortInv, [Next]_vars
  PROVE  [Promise!Next]_(Promise!vars)
<1>1. CASE Connect
  <2>1. CASE stopped' = TRUE /\ Finish("aborted")
    BY <1>1, <2>1 DEF Connect, Finish, Kept, Promise!Connect, Promise!Next
  <2>2. CASE stopped' = FALSE /\ pc' = "resolve"
    BY <1>1, <2>2 DEF Connect, Promise!Connect, Promise!Next
  <2>. QED
    BY <1>1, <2>1, <2>2 DEF Connect
<1>2. ASSUME ResolverCompletes \/ TimerExpires \/ ResolveHandler \/ TimerHandler
      PROVE  UNCHANGED Promise!vars
  <2>1. pending_resolve \/ pending_timer
    BY <1>2 DEF ResolverCompletes, TimerExpires, ResolveHandler, TimerHandler,
                pending_resolve, pending_timer, Outcomes
  <2>2. pc = "resolve" /\ pc' = pc /\ stopped' = stopped
    BY <1>2, <2>1 DEF IInv, CoreTypes, FrameOutlivesHandlers,
                      ResolverCompletes, TimerExpires, ResolveHandler, TimerHandler
  <2>. QED
    BY <2>2, InsideStep
<1>3. ASSUME AttemptCompletes \/ NextEndpoint PROVE UNCHANGED Promise!vars
  <2>1. pc # "idle" /\ pc' = pc /\ stopped' = stopped
    BY <1>3 DEF AttemptCompletes, NextEndpoint, AbortInv
  <2>. QED
    BY <2>1, InsideStep
<1>4. ASSUME ResumeResolve \/ ConnectTcpReturns \/ HandshakeStep \/ Timeout
      PROVE  [Promise!Next]_(Promise!vars)
  <2>1. pc # "idle" /\ UNCHANGED <<stopped, ttype>>
    BY <1>4 DEF IInv, FrameOutlivesHandlers, ResumeResolve, ConnectTcpReturns,
                HandshakeStep, Timeout, TimedSteps
  <2>2. \/ pc' # "idle"
        \/ \E ec \in {"none", "failed", "aborted", "timed_out"} :
             Finish(ec) /\ (ec = "aborted" => stopped)
    <3>1. CASE ResumeResolve
      BY <2>1, <3>1 DEF ResumeResolve, IInv, CoreTypes, AbortInv
    <3>2. CASE ConnectTcpReturns
      BY <3>2 DEF ConnectTcpReturns, StartHandshake, MayShakeHands, AbortInv
    <3>3. CASE HandshakeStep
      BY <2>1, <3>3 DEF HandshakeStep, AbortInv
    <3>4. CASE Timeout
      BY <3>4 DEF Timeout
    <3>. QED
      BY <1>4, <3>1, <3>2, <3>3, <3>4
  <2>. QED
    BY <2>1, <2>2, InsideStep, FinishStep DEF Promise!Next
<1>5. CASE Stop
  <2>1. pc # "idle" /\ pc' = pc /\ stopped' = TRUE
    BY <1>5 DEF Stop, StopResolve, StopTransfer
  <2>. QED
    BY <2>1 DEF Promise!Stop, Promise!Next
<1>6. CASE Close
  BY <1>6 DEF Close, Promise!Close, Promise!Next
<1>7. CASE UNCHANGED vars
  BY <1>7 DEF vars, streamVars, Promise!vars
<1>. QED
  BY <1>1, <1>2, <1>3, <1>4, <1>5, <1>6, <1>7 DEF Next

(* Every behaviour of a stream is one of Stream: a connect ends with        *)
(* operation_aborted only when its caller stopped it, whatever the timers   *)
(* and the resolver cancel among themselves.                                *)
THEOREM StreamKeepsPromise == Spec => ImplementsStream
<1>1. Init => Promise!Init
  BY DEF Init, Promise!Init
<1>2. Spec => []AbortInv
  BY AbortInit, AbortStep, Invariance, PTL DEF Spec
<1>3. IInv /\ AbortInv /\ [Next]_vars => [Promise!Next]_(Promise!vars)
  BY StreamStep
<1>. QED
  BY <1>1, <1>2, <1>3, Invariance, PTL DEF Spec, ImplementsStream, Promise!Spec
=============================================================================
