---------------------------- MODULE VariantStream ----------------------------
(***************************************************************************)
(* http::variant_stream: connect, as a coroutine that resolves, connects   *)
(* and for tls shakes hands, and close.  While it is in resolve three      *)
(* handlers race on its frame: the resolver's, the timer's and the slot of *)
(* the stop_source; a second timer, cv, wakes the coroutine.  While it is  *)
(* in connect_tcp or handshake a Beast stream tries the endpoints in turn, *)
(* or sends and receives, under one deadline, and a stop cancels the       *)
(* operation that is under way at that moment.                             *)
(*                                                                         *)
(* Everything runs on one strand.  A handler is posted when its operation  *)
(* completes and runs later: what was posted cannot be cancelled.          *)
(***************************************************************************)
EXTENDS Naturals

CONSTANT MaxEndpoints   \* the endpoints a name may resolve to

ASSUME EndpointsAssumption == MaxEndpoints \in Nat \ {0}

VARIABLES
  pc,        \* which step of connect the coroutine is in
  ttype,     \* the transport_type
  stopped,   \* whether the stop_source of the connect is stopped
  resolver,  \* async_resolve: running, posted with an outcome, or done
  timer,     \* the resolve timer's async_wait: running, posted or done
  cv,        \* the coroutine's wait on cv, if any
  error,     \* the error_code of the step, and at last of connect
  results,   \* how many endpoints the resolver gave
  left,      \* how many of them have not been tried
  attempt,   \* the connect, or the read or write of a handshake, under way
  deadline,  \* whether the Beast timeout is armed
  var_       \* the variant: monostate, tcp or tls

resolveVars == <<resolver, timer, cv, results>>
streamVars == <<left, attempt, deadline, var_>>
vars == <<pc, ttype, stopped, error, resolveVars, streamVars>>

-----------------------------------------------------------------------------
Outcomes == {"ok", "failed", "aborted"}

(* pending_resolve and pending_timer.                                       *)
pending_resolve == resolver # "done"
pending_timer == timer # "done"

TypeOK ==
  /\ pc \in {"idle", "resolve", "connect_tcp", "handshake"}
  /\ ttype \in {"tcp", "tls"}
  /\ stopped \in BOOLEAN
  /\ resolver \in {"running", "done"} \cup Outcomes
  /\ timer \in {"running", "posted", "done"}
  /\ cv \in {"none", "waiting", "posted"}
  /\ error \in {"none", "failed", "aborted", "timed_out"}
  /\ results \in 0..MaxEndpoints
  /\ left \in 0..MaxEndpoints
  /\ attempt \in {"none", "running"} \cup Outcomes
  /\ deadline \in BOOLEAN
  /\ var_ \in {"monostate", ttype}

Init ==
  /\ pc = "idle"
  /\ ttype \in {"tcp", "tls"}
  /\ stopped = FALSE
  /\ resolver = "done"
  /\ timer = "done"
  /\ cv = "none"
  /\ error = "none"
  /\ results = 0
  /\ left = 0
  /\ attempt = "none"
  /\ deadline = FALSE
  /\ var_ = "monostate"

-----------------------------------------------------------------------------
(* cancel of a timer's wait, and of a query: a query that a thread of the   *)
(* resolver has begun goes on.                                              *)
CancelTimer == timer' = IF timer = "running" THEN "posted" ELSE timer

CancelResolver ==
  \/ resolver = "running" /\ resolver' = "aborted"
  \/ UNCHANGED resolver

(* cv.cancel_one.                                                           *)
NotifyCv == cv' = IF cv = "waiting" THEN "posted" ELSE cv

(* The end of connect: a stream that failed is closed. *)
Kept(ec) == IF ec = "none" THEN ttype ELSE "monostate"

Finish(ec) ==
  /\ pc' = "idle"
  /\ error' = ec
  /\ left' = 0
  /\ attempt' = "none"
  /\ deadline' = FALSE
  /\ var_' = Kept(ec)

-----------------------------------------------------------------------------
(* connect up to its first wait.  resolve starts a query, a timer and, with *)
(* cv, a wait for both.  Each connect has a stop_source of its own.         *)
Connect ==
  /\ pc = "idle" /\ var_ = "monostate"
  /\ \/ /\ stopped' = TRUE
        /\ Finish("aborted")
        /\ UNCHANGED resolveVars
     \/ /\ stopped' = FALSE
        /\ pc' = "resolve"
        /\ resolver' = "running"
        /\ timer' = "running"
        /\ cv' = "waiting"
        /\ error' = "none"
        /\ results' = 0
        /\ UNCHANGED streamVars
  /\ UNCHANGED ttype

ResolverCompletes ==
  /\ resolver = "running"
  /\ resolver' \in {"ok", "failed"}
  /\ UNCHANGED <<pc, ttype, stopped, error, timer, cv, results, streamVars>>

TimerExpires ==
  /\ timer = "running"
  /\ timer' = "posted"
  /\ UNCHANGED <<pc, ttype, stopped, error, resolver, cv, results, streamVars>>

(* Mutant: the outcome is stored even after the timer's handler has run. *)
LateResolveError == IF resolver = "ok" THEN "none" ELSE resolver

(* Mutant: of a query that the timer's handler cancelled, the error is stored. *)
LateCancellation ==
  IF resolver # "ok" THEN resolver ELSE IF pending_timer THEN "none" ELSE error

(* What the resolver's handler stores: nothing after the timer's handler. *)
ResolveError ==
  IF ~pending_timer THEN error ELSE IF resolver = "ok" THEN "none" ELSE resolver

(* The handler of async_resolve. *)
ResolveHandler ==
  /\ resolver \in Outcomes
  /\ resolver' = "done"
  /\ CancelTimer
  /\ error' = ResolveError
  /\ IF pending_timer /\ resolver = "ok" THEN results' \in 1..MaxEndpoints
                                         ELSE UNCHANGED results
  /\ NotifyCv
  /\ UNCHANGED <<pc, ttype, stopped, streamVars>>

(* Mutant: a timer that was cancelled counts as expired too. *)
CancelledTimesOut == "timed_out"

TimerError == IF pending_resolve THEN "timed_out" ELSE error

(* Mutant: the timer's handler does not notify cv. *)
TimerHandlerSilent ==
  /\ timer = "posted"
  /\ timer' = "done"
  /\ CancelResolver
  /\ error' = TimerError
  /\ UNCHANGED <<pc, ttype, stopped, cv, results, streamVars>>

(* The handler of the timer, expired or cancelled. *)
TimerHandler ==
  /\ timer = "posted"
  /\ timer' = "done"
  /\ CancelResolver
  /\ error' = TimerError
  /\ NotifyCv
  /\ UNCHANGED <<pc, ttype, stopped, results, streamVars>>

-----------------------------------------------------------------------------
(* Mutant: one of the two handlers is enough to end the wait. *)
WaitingEither == pending_timer /\ pending_resolve

(* The condition of the loop that waits on cv.                              *)
Waiting == pending_timer \/ pending_resolve

(* The coroutine resumes: it waits again, or resolve returns, and unless    *)
(* that failed or the call is stopped, connect_tcp tries the first endpoint. *)
ResumeResolve ==
  /\ cv = "posted"
  /\ \/ /\ Waiting
        /\ cv' = "waiting"
        /\ UNCHANGED <<pc, error, streamVars>>
     \/ /\ ~Waiting /\ error # "none"
        /\ cv' = "none"
        /\ Finish(error)
     \/ /\ ~Waiting /\ error = "none" /\ stopped
        /\ cv' = "none"
        /\ Finish("aborted")
     \/ /\ ~Waiting /\ error = "none" /\ ~stopped
        /\ cv' = "none"
        /\ pc' = "connect_tcp"
        /\ left' = results - 1
        /\ attempt' = "running"
        /\ deadline' = TRUE
        /\ var_' = ttype
        /\ UNCHANGED error
  /\ UNCHANGED <<ttype, stopped, resolver, timer, results>>

(* An operation on the socket completes. *)
AttemptCompletes ==
  /\ attempt = "running"
  /\ attempt' \in {"ok", "failed"}
  /\ UNCHANGED <<pc, ttype, stopped, error, resolveVars, left, deadline, var_>>

(* async_connect: an endpoint that cannot be connected to is followed by    *)
(* the next one, whatever the error was.                                    *)
NextEndpoint ==
  /\ pc = "connect_tcp" /\ attempt \in {"failed", "aborted"} /\ left > 0
  /\ left' = left - 1
  /\ attempt' = "running"
  /\ UNCHANGED <<pc, ttype, stopped, error, resolveVars, deadline, var_>>

(* Mutant: handshake does not look at the stop token. *)
MayAlwaysShakeHands == TRUE

MayShakeHands == ~stopped

(* handshake up to async_handshake; naming the host to OpenSSL may fail. *)
StartHandshake ==
  \/ ~MayShakeHands /\ Finish("aborted")
  \/ MayShakeHands /\ Finish("failed")
  \/ /\ MayShakeHands
     /\ pc' = "handshake"
     /\ attempt' = "running"
     /\ deadline' = TRUE
     /\ UNCHANGED <<error, left, var_>>

ConnectTcpReturns ==
  /\ pc = "connect_tcp"
  /\ \/ attempt = "ok" /\ ttype = "tcp" /\ Finish("none")
     \/ attempt = "ok" /\ ttype = "tls" /\ StartHandshake
     \/ attempt \in {"failed", "aborted"} /\ left = 0 /\ Finish(attempt)
  /\ UNCHANGED <<ttype, stopped, resolveVars>>

(* async_handshake reads or writes once more, or ends. *)
HandshakeStep ==
  /\ pc = "handshake"
  /\ \/ /\ attempt = "ok"
        /\ attempt' = "running"
        /\ UNCHANGED <<pc, error, left, deadline, var_>>
     \/ attempt = "ok" /\ \E ec \in {"none", "failed"} : Finish(ec)
     \/ attempt \in {"failed", "aborted"} /\ Finish(attempt)
  /\ UNCHANGED <<ttype, stopped, resolveVars>>

(* Mutant: handshake is given no timeout. *)
TimedConnect == {"connect_tcp"}

TimedSteps == {"connect_tcp", "handshake"}

(* expires_after: Beast closes the socket and the operation ends.           *)
Timeout ==
  /\ pc \in TimedSteps /\ deadline
  /\ Finish("timed_out")
  /\ UNCHANGED <<ttype, stopped, resolveVars>>

-----------------------------------------------------------------------------
(* The three slots that connect leaves with the stop token: resolve's, and  *)
(* tcp.cancel(), which cancels what is under way and the Beast timer that   *)
(* watches it.  An async_connect waits on that timer once; the next read or *)
(* write of a handshake waits on it anew.                                   *)
StopResolve ==
  /\ pc = "resolve"
  /\ error' = "aborted"
  /\ CancelTimer
  /\ CancelResolver
  /\ UNCHANGED <<cv, results, streamVars>>

StopTransfer ==
  /\ pc \in {"connect_tcp", "handshake"}
  /\ attempt' = IF attempt = "running" THEN "aborted" ELSE attempt
  /\ deadline' = (pc = "handshake")
  /\ UNCHANGED <<error, resolveVars, left, var_>>

Stop ==
  /\ ~stopped
  /\ stopped' = TRUE
  /\ StopResolve \/ StopTransfer
  /\ UNCHANGED <<pc, ttype>>

Close ==
  /\ pc = "idle" /\ var_ # "monostate"
  /\ var_' = "monostate"
  /\ UNCHANGED <<pc, ttype, stopped, error, resolveVars, left, attempt, deadline>>

Next ==
  \/ Connect
  \/ ResolverCompletes
  \/ TimerExpires
  \/ ResolveHandler
  \/ TimerHandler
  \/ ResumeResolve
  \/ AttemptCompletes
  \/ NextEndpoint
  \/ ConnectTcpReturns
  \/ HandshakeStep
  \/ Timeout
  \/ Stop
  \/ Close

Spec == Init /\ [][Next]_vars

(* Posted handlers run, the query ends, the timers expire, and the system   *)
(* gives an attempt to connect up some day.  A peer need not go on with a   *)
(* handshake.                                                               *)
Fairness ==
  /\ WF_vars(ResolverCompletes)
  /\ WF_vars(TimerExpires)
  /\ WF_vars(ResolveHandler)
  /\ WF_vars(TimerHandler)
  /\ WF_vars(ResumeResolve)
  /\ WF_vars(pc = "connect_tcp" /\ AttemptCompletes)
  /\ WF_vars(NextEndpoint)
  /\ WF_vars(ConnectTcpReturns)
  /\ WF_vars(Timeout)

FairSpec == Spec /\ Fairness

-----------------------------------------------------------------------------
(* Properties                                                               *)

(* The handlers of resolve use its frame by reference, so the coroutine     *)
(* leaves resolve only when both have run; and an endpoint is tried only    *)
(* when the resolver gave it, not when the timer's handler or a stop came   *)
(* between the query and its outcome.                                       *)
FrameOutlivesHandlers ==
  /\ pc # "resolve" => ~pending_resolve /\ ~pending_timer /\ cv = "none"
  /\ pc = "connect_tcp" => results > left

(* cv.cancel_one is lost when the coroutine is not waiting.  Still, when it *)
(* sleeps on cv there is a handler to come that will wake it.               *)
NoLostCvWakeup == cv = "waiting" => pending_resolve \/ pending_timer

(* However the resolver's answer, the timer and a stop race, resolve gives   *)
(* its caller endpoints or an error: not a success with nothing to connect  *)
(* to, and no error beside endpoints unless a stop came after the answer.   *)
(* The timer that the answer cancels does not make it a timeout.            *)
ResolvedOrFailed ==
  pc = "resolve" /\ ~pending_resolve /\ ~pending_timer =>
    /\ error = "none" => results > 0
    /\ results > 0 /\ ~stopped => error = "none"

(* The postconditions of connect (variant_stream.hpp:86-87): the stream is  *)
(* open when it returns success and closed when it returns an error.  It is *)
(* a part of ImplementsStream below.                                        *)
OpenIffConnected ==
  [][pc # "idle" /\ pc' = "idle" => (error' = "none" <=> var_' # "monostate")]_vars

(* The stream keeps what Stream promises.  Within a connect its error is a  *)
(* local matter; but that the handlers of resolve cancel one another, each  *)
(* with operation_aborted, must not show to a caller that never stopped.    *)
(* That is what ConnectFails of ConnectionImpl takes for granted.           *)
Promise ==
  INSTANCE Stream WITH
    stream <- IF pc # "idle"           THEN "connecting"
              ELSE IF var_ = "monostate" THEN "closed" ELSE "open",
    error  <- IF pc # "idle"                      THEN "none"
              ELSE IF error \in {"failed", "timed_out"} THEN "error" ELSE error

ImplementsStream == Promise!Spec

(* A stopped connect goes on to no other step.                              *)
StopEndsTheStep == [][stopped' /\ pc' # pc => pc' = "idle"]_vars

(* variant_stream.hpp:75-77: a stop will result in (almost) immediate       *)
(* cancellation of the connect process unless it has already completed.  So *)
(* the attempt that it cancels is the last one.                             *)
StopIsImmediate == [][attempt = "aborted" => attempt' # "running"]_vars

(* Every connect ends: the callers of rest_call, and the pool's waiters     *)
(* behind them, rely on it.                                                 *)
ConnectEnds == pc # "idle" ~> pc = "idle"
=============================================================================
