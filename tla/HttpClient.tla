------------------------------ MODULE HttpClient ------------------------------
(***************************************************************************)
(* The cache, the connection objects in its slots, and callers that call   *)
(* again and again and may stop a call at any time.  An object does what   *)
(* Exchange promises, which ConnectionImpl implements; Exchange in turn    *)
(* relies on the pool to give an object to one call at a time.             *)
(*                                                                         *)
(* A call whose host and request slot are free is served at once, even     *)
(* when a waiter that was notified has not resumed yet, and that waiter    *)
(* goes to the end of its queue.                                           *)
(***************************************************************************)
EXTENDS ConnectionCache

CONSTANTS
  WatchedKey, WatchedSlot,  \* any of the connection objects
  Stoppable                 \* the calls that may be stopped, to bound the states

ASSUME WatchedAssumption ==
  WatchedKey \in Keys /\ WatchedSlot \in 1..MaxConnectionsPerHost

ASSUME StoppableAssumption == Stoppable \subseteq Calls

VARIABLES
  stream,       \* [key, slot |-> the stream of the object made for the slot]
  may_connect,  \* [key, slot |-> whether the call it serves may connect]
  exchange,     \* [call |-> how far its rest_call is, or its result]
  sent,         \* [call |-> how often its request was sent]
  stopped       \* the calls whose stop_source was stopped

exchangeVars == <<stream, may_connect, exchange, sent, stopped>>
clientVars == <<vars, exchangeVars>>

Objects == Keys \X (1..MaxConnectionsPerHost)

(* The object that c owns, or owned last. *)
Object(c) == <<key[c], slot[c]>>

ClientTypeOK ==
  /\ TypeOK
  /\ stream \in [Objects -> {"closed", "open", "destroyed"}]
  /\ may_connect \in [Objects -> BOOLEAN]
  /\ exchange \in [Calls -> {"none", "serving", "ok", "error", "aborted", "thrown"}]
  /\ sent \in [Calls -> 0..2]
  /\ stopped \subseteq Calls

ClientInit ==
  /\ Init
  /\ stream = [o \in Objects |-> "closed"]
  /\ may_connect = [o \in Objects |-> TRUE]
  /\ exchange = [c \in Calls |-> "none"]
  /\ sent = [c \in Calls |-> 0]
  /\ stopped = {}

-----------------------------------------------------------------------------
(* What the object of c does in rest_call.                                  *)

SetStream(c, state) == stream' = [stream EXCEPT ![Object(c)] = state]

Becomes(c, e) == exchange' = [exchange EXCEPT ![c] = e]

Send(c) == sent' = [sent EXCEPT ![c] = @ + 1]

(* call awaits rest_call of its connection, on the strand of that.  A call  *)
(* that was stopped, in a queue or before, finds out now.                   *)
BeginExchange(c) ==
  /\ pc[c] = "rest_call" /\ exchange[c] = "none"
  /\ may_connect' = [may_connect EXCEPT ![Object(c)] = TRUE]
  /\ \/ /\ c \notin stopped
        /\ Becomes(c, "serving")
        /\ IF stream[Object(c)] = "open" THEN Send(c) ELSE UNCHANGED sent
        /\ UNCHANGED stream
     \/ /\ c \in stopped
        /\ \/ Becomes(c, "aborted") /\ SetStream(c, "closed")
           \/ /\ stream[Object(c)] = "open"
              /\ Becomes(c, "thrown") /\ SetStream(c, "destroyed")
        /\ UNCHANGED sent
  /\ UNCHANGED <<vars, stopped>>

GiveUpStream(c) ==
  /\ exchange[c] = "serving" /\ c \notin stopped
  /\ may_connect[Object(c)] /\ stream[Object(c)] = "open"
  /\ SetStream(c, "closed")
  /\ UNCHANGED <<vars, may_connect, exchange, sent, stopped>>

(* Mutant: a call may connect as often as its stream breaks. *)
ConnectRepeatedly(c) ==
  /\ exchange[c] = "serving" /\ c \notin stopped
  /\ stream[Object(c)] = "closed"
  /\ SetStream(c, "open")
  /\ Send(c)
  /\ UNCHANGED <<vars, may_connect, exchange, stopped>>

Connect(c) ==
  /\ exchange[c] = "serving" /\ c \notin stopped
  /\ may_connect[Object(c)] /\ stream[Object(c)] = "closed"
  /\ SetStream(c, "open")
  /\ may_connect' = [may_connect EXCEPT ![Object(c)] = FALSE]
  /\ Send(c)
  /\ UNCHANGED <<vars, exchange, stopped>>

EndExchange(c) ==
  /\ exchange[c] = "serving"
  /\ \/ /\ stream[Object(c)] = "open"
        /\ Becomes(c, "ok")
        /\ SetStream(c, "open") \/ SetStream(c, "closed")
     \/ /\ may_connect[Object(c)] => stream[Object(c)] = "closed"
        /\ Becomes(c, "error") /\ SetStream(c, "closed")
     \/ c \in stopped /\ Becomes(c, "aborted") /\ SetStream(c, "closed")
     \/ Becomes(c, "thrown") /\ SetStream(c, "destroyed")
  /\ UNCHANGED <<vars, may_connect, sent, stopped>>

-----------------------------------------------------------------------------
(* The steps of the cache.                                                  *)

(* Mutant: the exception is caught and the connection put back. *)
UnwindReplacing(c) ==
  /\ exchange[c] = "thrown"
  /\ Unwind(c) \/ Complete(c)
  /\ UNCHANGED exchangeVars

(* rest_call threw.                                                         *)
ExchangeThrew(c) ==
  /\ exchange[c] = "thrown"
  /\ Unwind(c)
  /\ UNCHANGED exchangeVars

(* rest_call gave (ec, response).                                           *)
ExchangeReturned(c) ==
  /\ exchange[c] \in {"ok", "error", "aborted"}
  /\ Complete(c)
  /\ pc'[c] = IF exchange[c] = "ok" THEN "returned" ELSE "failed"
  /\ UNCHANGED exchangeVars

(* The callers.  One that a call threw an exception of rest_call at goes on  *)
(* too, but its call is kept for what it has of the cache.                  *)
Stop(c) ==
  /\ c \in Stoppable \ stopped /\ pc[c] \notin Finished
  /\ stopped' = stopped \cup {c}
  /\ UNCHANGED <<vars, stream, may_connect, exchange, sent>>

CallAgain(c) ==
  /\ pc[c] \in Finished \ {"unwound"}
  /\ pc' = [pc EXCEPT ![c] = "idle"]
  /\ \E k \in Keys : key' = [key EXCEPT ![c] = k]
  /\ Becomes(c, "none")
  /\ sent' = [sent EXCEPT ![c] = 0]
  /\ stopped' = stopped \ {c}
  /\ UNCHANGED <<poolVars, requestVars, slot, stream, may_connect>>

(* What happens to a call without its caller. *)
Advance(c) ==
  \/ (ResumeRequest(c) \/ ResumeAcquire(c)) /\ UNCHANGED exchangeVars
  \/ BeginExchange(c)
  \/ EndExchange(c)
  \/ ExchangeThrew(c)
  \/ ExchangeReturned(c)

ClientNext ==
  \E c \in Calls :
    \/ (Call(c) \/ RejectUrl(c)) /\ UNCHANGED exchangeVars
    \/ Advance(c)
    \/ GiveUpStream(c)
    \/ Connect(c)
    \/ Stop(c)
    \/ CallAgain(c)

ClientSpec == ClientInit /\ [][ClientNext]_clientVars

(* Posted handlers run, an exchange ends (RestCallEnds of ConnectionImpl),  *)
(* and call goes on after it.                                               *)
ClientFairness == \A c \in Calls : WF_clientVars(Advance(c))

FairClientSpec == ClientSpec /\ ClientFairness

-----------------------------------------------------------------------------
(* Properties                                                               *)

Serving(o) == {c \in Calls : Object(c) = o /\ exchange[c] = "serving"}

(* A connection in the pool is at rest: nobody's exchange goes on on it, and *)
(* it is not one that threw.  The slots of those stay empty.                *)
PoolAtRest ==
  \A k \in Keys : \A i \in Available(k) :
    Serving(<<k, i>>) = {} /\ stream[<<k, i>>] # "destroyed"

(* What ConnectionImpl takes for granted and the cache must provide: each   *)
(* connection object is used as Exchange says, by one call after another.   *)
Watched == <<WatchedKey, WatchedSlot>>

OfWatched == {c \in Calls : Object(c) = Watched}

WatchedObject ==
  INSTANCE Exchange WITH
    serving     <- Serving(Watched),
    stream      <- stream[Watched],
    may_connect <- may_connect[Watched],
    sent        <- [c \in Calls |-> IF c \in OfWatched THEN sent[c] ELSE 0],
    result      <- [c \in Calls |-> IF c \in OfWatched /\ exchange[c] # "serving"
                                      THEN exchange[c] ELSE "none"],
    stopped     <- stopped \cap OfWatched

ObjectsAreUsedInTurn == WatchedObject!Spec

(* A step in which a call takes what a resumed waiter is coming for. *)
Overtaking ==
  \E c \in Calls :
    \/ /\ pc[c] \in {"idle", "request_ready"} /\ pc'[c] = "rest_call"
       /\ HostCallsAt("host_ready", key[c]) # {}
    \/ /\ pc[c] = "idle" /\ pc'[c] \in {"host_wait", "rest_call"}
       /\ CallsAt("request_ready") # {}

(* With callers that never rest, a call may be overtaken for ever; that is  *)
(* the only way to wait for ever.  Unless exceptions of rest_call empty the *)
(* pool, every call is finished if waiters are overtaken finitely often.    *)
ServedUnlessOvertaken ==
  [](\A c \in Calls : pc[c] # "unwound") /\ <>[][~Overtaking]_clientVars
    => \A c \in Calls : (pc[c] # "idle") ~> (pc[c] \in Finished)
=============================================================================
