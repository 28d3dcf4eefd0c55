--------------------------- MODULE ConnectionCache ---------------------------
(***************************************************************************)
(* http::connection_cache_impl: the pool of HTTP connections behind        *)
(* connection_cache.  Every member function runs on one strand (exec_), so *)
(* the code between two suspension points of a coroutine is one action.    *)
(* A call suspends at three places: waiting for a request slot, waiting    *)
(* for a connection to its host, and inside connection_impl::rest_call.    *)
(*                                                                         *)
(* A steady_timer that never expires is used as a condition variable:      *)
(* async_wait puts the coroutine at the end of the timer's queue, and      *)
(* cancel_one takes the oldest waiter off it and POSTS its handler.  The   *)
(* waiter resumes later, when other calls may have run in between, and a   *)
(* cancel_one that finds nobody waiting is lost.                           *)
(***************************************************************************)
EXTENDS Integers, Sequences, FiniteSets

CONSTANTS
  Calls,                  \* the invocations of connection_cache_impl::call
  Keys,                   \* the connection_keys their URLs parse to
  MaxConnectionsPerHost,  \* max_connections_per_host_
  MaxConcurrentRequests   \* max_concurrent_requests_

ASSUME CacheAssumption ==
  /\ IsFiniteSet(Calls)
  /\ MaxConnectionsPerHost \in Nat \ {0}
  /\ MaxConcurrentRequests \in Nat \ {0}

VARIABLES
  connection_map_,           \* [key |-> its equal_range, as a sequence of slots]
  max_per_host_conditions_,  \* the keys that have a condition timer
  host_waiters,              \* [key |-> the calls queued on its timer]
  request_count_,
  request_waiters,           \* the calls queued on concurrent_requests_available_
  pc,                        \* where each call is
  key,                       \* the connection_key of the URL each call is given
  slot                       \* active_connection::map_value_, an index in the range

poolVars == <<connection_map_, max_per_host_conditions_, host_waiters>>
requestVars == <<request_count_, request_waiters>>
vars == <<poolVars, requestVars, pc, key, slot>>

-----------------------------------------------------------------------------
(* A slot of connection_map_ holds a connection, or null while the          *)
(* connection is out in some call's active_connection.                      *)
SlotState == {"connection", "null"}

CallState ==
  { "idle",                            \* not called yet
    "request_wait", "request_ready",   \* queued for a request slot; handler posted
    "host_wait", "host_ready",         \* queued for a connection; handler posted
    "rest_call",                       \* owns an active_connection, awaits rest_call
    "returned", "failed",              \* co_return response; throw system_error(ec)
    "rejected",                        \* parse_url threw
    "unwound" }                        \* rest_call threw through call

Finished == {"returned", "failed", "rejected", "unwound"}

(* The calls that have done ++request_count_ and not --request_count_: an   *)
(* exception out of rest_call leaves the count raised.                      *)
Admitted == {c \in Calls : pc[c] \in {"host_wait", "host_ready", "rest_call", "unwound"}}

Slots(k) == 1..Len(connection_map_[k])

(* The slots of a key that hold a connection. *)
Available(k) == {i \in Slots(k) : connection_map_[k][i] = "connection"}

(* Values have their types, and a host's range of slots stays within        *)
(* max_connections_per_host_ (the test at connection_cache_impl.cpp:200).   *)
TypeOK ==
  /\ connection_map_ \in [Keys -> Seq(SlotState)]
  /\ \A k \in Keys : Len(connection_map_[k]) <= MaxConnectionsPerHost
  /\ max_per_host_conditions_ \subseteq Keys
  /\ host_waiters \in [Keys -> Seq(Calls)]
  /\ request_count_ \in Int
  /\ request_waiters \in Seq(Calls)
  /\ pc \in [Calls -> CallState]
  /\ key \in [Calls -> Keys]
  /\ slot \in [Calls -> 0..MaxConnectionsPerHost]

Init ==
  /\ connection_map_ = [k \in Keys |-> <<>>]
  /\ max_per_host_conditions_ = {}
  /\ host_waiters = [k \in Keys |-> <<>>]
  /\ request_count_ = 0
  /\ request_waiters = <<>>
  /\ pc = [c \in Calls |-> "idle"]
  /\ key \in [Calls -> Keys]
  /\ slot = [c \in Calls |-> 0]

-----------------------------------------------------------------------------
(* steady_timer::cancel_one: the waiter whose handler it posts, if there is *)
(* one, and the queue without it.                                           *)
Posted(queue) == IF queue = <<>> THEN {} ELSE {Head(queue)}

AfterPosting(queue, posted) == IF posted = {} THEN queue ELSE Tail(queue)

(* Mutant: replace_connection forgets to notify. *)
NobodyNotified(k) == {}

(* Whom replace_connection notifies.                                        *)
HostNotified(k) == Posted(host_waiters[k])

(* Mutant: the count is tested before it is lowered. *)
RequestNotifiedBeforeRelease ==
  IF request_count_ < MaxConcurrentRequests THEN Posted(request_waiters) ELSE {}

(* Whom call notifies after --request_count_.                               *)
RequestNotified ==
  IF request_count_ - 1 < MaxConcurrentRequests THEN Posted(request_waiters) ELSE {}

-----------------------------------------------------------------------------
(* acquire_connection, one pass of its loop for call c and key k.           *)

(* Mutant: the connection is copied out of its slot. *)
TakeAvailableCopying(c, k) ==
  \E i \in Available(k) :
    /\ slot' = [slot EXCEPT ![c] = i]
    /\ pc' = [pc EXCEPT ![c] = "rest_call"]
    /\ UNCHANGED <<connection_map_, host_waiters>>

(* An available connection is found: active_connection moves that           *)
(* connection out of its slot.                                              *)
TakeAvailable(c, k) ==
  \E i \in Available(k) :
    /\ connection_map_' = [connection_map_ EXCEPT ![k][i] = "null"]
    /\ slot' = [slot EXCEPT ![c] = i]
    /\ pc' = [pc EXCEPT ![c] = "rest_call"]
    /\ UNCHANGED host_waiters

(* Mutant: <= for < in the comparison with max_connections_per_host_. *)
CreateOneTooMany(c, k) ==
  /\ Available(k) = {}
  /\ Len(connection_map_[k]) <= MaxConnectionsPerHost
  /\ connection_map_' = [connection_map_ EXCEPT ![k] = Append(@, "null")]
  /\ slot' = [slot EXCEPT ![c] = Len(connection_map_[k]) + 1]
  /\ pc' = [pc EXCEPT ![c] = "rest_call"]
  /\ UNCHANGED host_waiters

(* Mutant: the new connection is not moved out of its slot. *)
CreateLeftInPool(c, k) ==
  /\ Available(k) = {}
  /\ Len(connection_map_[k]) < MaxConnectionsPerHost
  /\ connection_map_' = [connection_map_ EXCEPT ![k] = Append(@, "connection")]
  /\ slot' = [slot EXCEPT ![c] = Len(connection_map_[k]) + 1]
  /\ pc' = [pc EXCEPT ![c] = "rest_call"]
  /\ UNCHANGED host_waiters

(* None is, and the range is short of its maximum: a new connection is      *)
(* emplaced and moved out of its new slot at once.                          *)
CreateConnection(c, k) ==
  /\ Available(k) = {}
  /\ Len(connection_map_[k]) < MaxConnectionsPerHost
  /\ connection_map_' = [connection_map_ EXCEPT ![k] = Append(@, "null")]
  /\ slot' = [slot EXCEPT ![c] = Len(connection_map_[k]) + 1]
  /\ pc' = [pc EXCEPT ![c] = "rest_call"]
  /\ UNCHANGED host_waiters

(* Mutant: the iterator to the timer, held over a wait, points elsewhere. *)
WaitOnAnotherTimer(c, k) ==
  /\ Available(k) = {}
  /\ Len(connection_map_[k]) >= MaxConnectionsPerHost
  /\ \E h \in max_per_host_conditions_ :
       host_waiters' = [host_waiters EXCEPT ![h] = Append(@, c)]
  /\ pc' = [pc EXCEPT ![c] = "host_wait"]
  /\ UNCHANGED <<connection_map_, slot>>

(* The range is full and in use: wait on the key's timer. *)
WaitForConnection(c, k) ==
  /\ Available(k) = {}
  /\ Len(connection_map_[k]) >= MaxConnectionsPerHost
  /\ host_waiters' = [host_waiters EXCEPT ![k] = Append(@, c)]
  /\ pc' = [pc EXCEPT ![c] = "host_wait"]
  /\ UNCHANGED <<connection_map_, slot>>

TryAcquire(c, k) ==
  \/ TakeAvailable(c, k)
  \/ CreateConnection(c, k)
  \/ WaitForConnection(c, k)

(* The head of acquire_connection finds or creates the key's timer. *)
AcquireConnection(c, k) ==
  /\ max_per_host_conditions_' = max_per_host_conditions_ \cup {k}
  /\ TryAcquire(c, k)

-----------------------------------------------------------------------------
(* call, from its while loop on request_count_ to its next suspension.      *)
WaitForRequest(c) ==
  /\ request_count_ >= MaxConcurrentRequests
  /\ request_waiters' = Append(request_waiters, c)
  /\ pc' = [pc EXCEPT ![c] = "request_wait"]
  /\ UNCHANGED <<poolVars, request_count_, slot>>

Admit(c) ==
  /\ request_count_ < MaxConcurrentRequests
  /\ request_count_' = request_count_ + 1
  /\ AcquireConnection(c, key[c])
  /\ UNCHANGED request_waiters

EnterWhenAdmitted(c) == WaitForRequest(c) \/ Admit(c)

(* A caller starts a call whose URL parses. *)
Call(c) ==
  /\ pc[c] = "idle"
  /\ EnterWhenAdmitted(c)
  /\ UNCHANGED key

(* parse_url throws before anything is counted. *)
RejectUrl(c) ==
  /\ pc[c] = "idle"
  /\ pc' = [pc EXCEPT ![c] = "rejected"]
  /\ UNCHANGED <<poolVars, requestVars, key, slot>>

(* Mutant: an if in place of the while loop. *)
ResumeRequestWithoutTest(c) ==
  /\ pc[c] = "request_ready"
  /\ request_count_' = request_count_ + 1
  /\ AcquireConnection(c, key[c])
  /\ UNCHANGED <<request_waiters, key>>

(* The posted handler of the request timer runs: the while loop tests again. *)
ResumeRequest(c) ==
  /\ pc[c] = "request_ready"
  /\ EnterWhenAdmitted(c)
  /\ UNCHANGED key

(* The posted handler of the host's timer runs: the for loop goes round. *)
ResumeAcquire(c) ==
  /\ pc[c] = "host_ready"
  /\ TryAcquire(c, key[c])
  /\ UNCHANGED <<max_per_host_conditions_, requestVars, key>>

(* rest_call gives (ec, response).  replace_connection puts the connection  *)
(* back and notifies the host's timer; the request slot is released and its *)
(* timer notified; then call returns the response or throws ec.             *)
Complete(c) ==
  LET k == key[c]
  IN  /\ pc[c] = "rest_call"
      /\ connection_map_' = [connection_map_ EXCEPT ![k][slot[c]] = "connection"]
      /\ host_waiters' = [host_waiters EXCEPT ![k] = AfterPosting(@, HostNotified(k))]
      /\ request_count_' = request_count_ - 1
      /\ request_waiters' = AfterPosting(request_waiters, RequestNotified)
      /\ \E outcome \in {"returned", "failed"} :
           pc' = [d \in Calls |-> CASE d = c                 -> outcome
                                    [] d \in HostNotified(k) -> "host_ready"
                                    [] d \in RequestNotified -> "request_ready"
                                    [] OTHER                 -> pc[d]]
      /\ UNCHANGED <<max_per_host_conditions_, key, slot>>

(* rest_call throws (connection_impl.cpp:94, the shutdown without an        *)
(* error_code).  The frame of call is unwound: the active_connection is     *)
(* destroyed with its connection, the slot stays null in the map, and       *)
(* neither the count nor the timers are touched.                            *)
Unwind(c) ==
  /\ pc[c] = "rest_call"
  /\ pc' = [pc EXCEPT ![c] = "unwound"]
  /\ UNCHANGED <<poolVars, requestVars, key, slot>>

-----------------------------------------------------------------------------
Next ==
  \E c \in Calls :
    \/ Call(c)
    \/ RejectUrl(c)
    \/ ResumeRequest(c)
    \/ ResumeAcquire(c)
    \/ Complete(c)
    \/ Unwind(c)

Spec == Init /\ [][Next]_vars

(* Every coroutine whose handler has been posted is resumed, and a          *)
(* rest_call ends: each operation inside it has a timeout.  A caller need   *)
(* not start a call.                                                        *)
Fairness ==
  \A c \in Calls :
    /\ WF_vars(ResumeRequest(c))
    /\ WF_vars(ResumeAcquire(c))
    /\ WF_vars(Complete(c) \/ Unwind(c))

FairSpec == Spec /\ Fairness

-----------------------------------------------------------------------------
(* Properties                                                               *)

CallsAt(state) == {c \in Calls : pc[c] = state}
HostCallsAt(state, k) == {c \in CallsAt(state) : key[c] = k}

Using(k) == HostCallsAt("rest_call", k)
Lost(k) == HostCallsAt("unwound", k)

(* The calls with a slot: theirs is empty now, or for good after Unwind.    *)
Holders == {c \in Calls : pc[c] \in {"rest_call", "unwound"}}

(* The queue lists the calls of a set, each of them once. *)
Lists(queue, set) ==
  /\ {queue[i] : i \in 1..Len(queue)} = set
  /\ \A i, j \in 1..Len(queue) : queue[i] = queue[j] => i = j

(* The slot of a call that awaits rest_call, or that it threw through, is   *)
(* empty and nobody else's: no two calls write to one connection, and the   *)
(* assertions of replace_connection (connection_cache_impl.cpp:238-246,     *)
(* 266-267) cannot fail.                                                    *)
NoSharedConnection ==
  /\ \A c \in Admitted : key[c] \in max_per_host_conditions_
  /\ \A c \in Holders :
       /\ slot[c] \in Slots(key[c])
       /\ connection_map_[key[c]][slot[c]] = "null"
       /\ \A d \in Holders : key[d] = key[c] /\ slot[d] = slot[c] => d = c

(* No slot goes missing: what the map counts against                        *)
(* max_connections_per_host_ is in the pool, out with a call, or was        *)
(* dropped by a call that rest_call threw through.                          *)
SlotsConserved ==
  \A k \in Keys :
    Len(connection_map_[k])
      = Cardinality(Available(k)) + Cardinality(Using(k)) + Cardinality(Lost(k))

(* request_count_ is the number of calls between ++request_count_ and       *)
(* --request_count_, so it never wraps below zero, and it stays within its  *)
(* limit although the limit is tested long before some waiters count        *)
(* themselves in.                                                           *)
RequestsConserved ==
  /\ request_count_ = Cardinality(Admitted)
  /\ request_count_ <= MaxConcurrentRequests

(* cancel_one wakes one waiter and is lost when nobody waits.  Still, a     *)
(* call never sleeps beside a connection it could have: while calls queue   *)
(* for a host, each connection in the pool has a resumed waiter coming.     *)
NoLostHostWakeup ==
  \A k \in Keys : host_waiters[k] # <<>> =>
    /\ Len(connection_map_[k]) >= MaxConnectionsPerHost
    /\ Cardinality(Available(k)) <= Cardinality(HostCallsAt("host_ready", k))

(* The same of the request slots.                                           *)
NoLostRequestWakeup ==
  request_waiters # <<>> =>
    MaxConcurrentRequests <= request_count_ + Cardinality(CallsAt("request_ready"))

(* The calls that nothing can finish: those that rest_call threw at, and     *)
(* those that wait for a host all of whose connections were lost that way.  *)
Stranded ==
  {c \in Calls : \/ pc[c] = "unwound"
                 \/ /\ pc[c] = "host_wait"
                    /\ MaxConnectionsPerHost <= Cardinality(Lost(key[c]))}

(* The cache never stands still while calls wait: a call that waits for a   *)
(* connection is stranded or has another of its host before it that moves;  *)
(* one that waits for a request slot has some call before it that moves,    *)
(* unless stranded calls hold all request slots.  Nothing else, no order of *)
(* wakeups and newcomers and no mix of full hosts, brings the pool to rest. *)
NoStandstill ==
  /\ \A c \in CallsAt("host_wait") \ Stranded :
       HostCallsAt("host_ready", key[c]) \cup Using(key[c]) # {}
  /\ CallsAt("request_wait") # {} =>
       \/ \E c \in Calls : pc[c] \in {"request_ready", "host_ready", "rest_call"}
       \/ MaxConcurrentRequests <= Cardinality(Stranded)

(* A call in a timer's queue is suspended on that timer, and is there once: *)
(* no handler is posted twice, or to a call that has moved on.              *)
QueuesMatchSuspensions ==
  /\ Lists(request_waiters, CallsAt("request_wait"))
  /\ \A k \in Keys : Lists(host_waiters[k], HostCallsAt("host_wait", k))

(* The comment on active_connection (connection_cache_impl.hpp:78-80): the  *)
(* connection will be moved back to its slot when it is no longer needed,   *)
(* so an empty slot is the slot of a call that is using its connection.     *)
EmptySlotIsInUse ==
  \A k \in Keys : \A i \in Slots(k) :
    connection_map_[k][i] = "null" => \E c \in Using(k) : slot[c] = i

(* Every call that is started finishes, in both queues and through the two  *)
(* levels of waiting, provided that no rest_call throws.                    *)
CallsFinishUnlessUnwound ==
  [](\A c \in Calls : pc[c] # "unwound")
    => \A c \in Calls : (pc[c] # "idle") ~> (pc[c] \in Finished)

(* What a host's leaked slots cost the others: calls to k still finish      *)
(* while rest_call never throws for k and the calls to other hosts, leaked  *)
(* and stuck ones included, leave it one request slot.                      *)
HostsAreIndependent ==
  \A k \in Keys :
    []( /\ Lost(k) = {}
        /\ Cardinality({c \in Admitted : key[c] # k}) < MaxConcurrentRequests)
      => \A c \in Calls : (pc[c] # "idle" /\ key[c] = k) ~> (pc[c] \in Finished)

-----------------------------------------------------------------------------
(* The cache implements the abstract pool: a call in either queue is        *)
(* waiting, and one that rest_call threw through is broken.                 *)
poolStatus ==
  [c \in Calls |->
     CASE pc[c] = "idle"      -> "idle"
       [] pc[c] = "rest_call" -> "served"
       [] pc[c] = "unwound"   -> "broken"
       [] pc[c] \in {"returned", "failed", "rejected"} -> "done"
       [] OTHER               -> "waiting"]

Pool == INSTANCE ConnectionPool WITH
          status <- poolStatus, host <- key, serves <- slot

(* Every step of the cache is a step the pool allows or leaves its callers  *)
(* seeing nothing, whatever the order in which posted handlers run.         *)
ImplementsPool == Pool!Spec
=============================================================================
