--------------------------- MODULE HttpClientProofs ---------------------------
(***************************************************************************)
(* The cache gives its connection objects to one call after another, as    *)
(* Exchange demands, for any number of calls, hosts and connections, with  *)
(* callers that call again and stop their calls.                           *)
(***************************************************************************)
EXTENDS HttpClient, ConnectionCacheProofs

(* What the rest needs of the cache. *)
CacheInv == TypeOK /\ QueuesMatchSuspensions /\ NoSharedConnection

(* The states of a call without a connection, before it had one. *)
Before == {"idle", "request_wait", "request_ready", "host_wait", "host_ready", "rejected"}

LEMMA SomeStep ==
  ASSUME CacheInv, [Next]_vars
  PROVE  CacheInv'
  BY TypeStep, QueuesStep, SharedStep DEF CacheInv

LEMMA CacheAtRest ==
  ASSUME CacheInv, UNCHANGED vars
  PROVE  CacheInv' /\ Holders' = Holders /\ pc' = pc /\ \A d : Object(d)' = Object(d)
<1>1. CacheInv'
  BY SomeStep
<1>2. pc' = pc /\ key' = key /\ slot' = slot
  BY DEF vars
<1>3. Holders' = Holders /\ \A d : Object(d)' = Object(d)
  BY <1>2 DEF Holders, Object
<1> QED BY <1>1, <1>2, <1>3

(* Each way through the queues moves the call alone. *)
LEMMA QueueStep ==
  ASSUME CacheInv, NEW c \in Calls,
         Call(c) \/ RejectUrl(c) \/ ResumeRequest(c) \/ ResumeAcquire(c)
  PROVE  /\ pc[c] \in Before \ {"rejected"}
         /\ pc'[c] \in {"request_wait", "host_wait", "rejected", "rest_call"}
         /\ \A d \in Calls \ {c} : pc'[d] = pc[d] /\ slot'[d] = slot[d]
         /\ key' = key
<1> USE DEF CacheInv, TypeOK
<1>1. CASE RejectUrl(c)
  BY <1>1 DEF RejectUrl, Before
<1>2. ASSUME TryAcquire(c, key[c])
      PROVE  /\ pc'[c] \in {"host_wait", "rest_call"}
             /\ \A d \in Calls \ {c} : pc'[d] = pc[d] /\ slot'[d] = slot[d]
  BY <1>2 DEF TryAcquire, TakeAvailable, CreateConnection, WaitForConnection
<1>3. ASSUME EnterWhenAdmitted(c)
      PROVE  /\ pc'[c] \in {"request_wait", "host_wait", "rest_call"}
             /\ \A d \in Calls \ {c} : pc'[d] = pc[d] /\ slot'[d] = slot[d]
  BY <1>2, <1>3 DEF EnterWhenAdmitted, WaitForRequest, Admit, AcquireConnection
<1> QED
  BY <1>1, <1>2, <1>3 DEF Call, ResumeRequest, ResumeAcquire, Before

(* The end of a call moves it, and wakes calls that stay in the queues.     *)
LEMMA EndStep ==
  ASSUME CacheInv, NEW c \in Calls, Complete(c)
  PROVE  /\ pc[c] = "rest_call" /\ pc'[c] \in {"returned", "failed"}
         /\ \A d \in Calls \ {c} :
              pc'[d] = pc[d] \/ (pc[d] \in Before /\ pc'[d] \in Before)
         /\ key' = key /\ slot' = slot
<1>1. /\ HostNotified(key[c]) \subseteq HostCallsAt("host_wait", key[c])
      /\ RequestNotified \subseteq CallsAt("request_wait")
  BY CompleteMoves DEF CacheInv
<1>2. \A d \in Calls :
        /\ d \in HostNotified(key[c]) => pc[d] = "host_wait"
        /\ d \in RequestNotified => pc[d] = "request_wait"
  BY <1>1 DEF HostCallsAt, CallsAt
<1> QED BY <1>2 DEF Complete, Before

LEMMA UnwindStep ==
  ASSUME CacheInv, NEW c \in Calls, Unwind(c)
  PROVE  /\ pc[c] = "rest_call" /\ pc'[c] = "unwound"
         /\ \A d \in Calls \ {c} : pc'[d] = pc[d]
         /\ key' = key /\ slot' = slot
  BY DEF CacheInv, TypeOK, Unwind

LEMMA AgainStep ==
  ASSUME CacheInv, NEW c \in Calls, CallAgain(c)
  PROVE  /\ CacheInv'
         /\ pc[c] \in Finished \ {"unwound"} /\ pc'[c] = "idle"
         /\ \A d \in Calls \ {c} : pc'[d] = pc[d] /\ key'[d] = key[d]
         /\ slot' = slot
<1> USE DEF CacheInv
<1>1. /\ pc' = [pc EXCEPT ![c] = "idle"]
      /\ pc[c] \in {"returned", "failed", "rejected"}
      /\ UNCHANGED <<connection_map_, max_per_host_conditions_, host_waiters,
                     request_count_, request_waiters, slot>>
      /\ key' \in [Calls -> Keys]
      /\ \A d \in Calls \ {c} : pc'[d] = pc[d] /\ key'[d] = key[d]
      /\ pc'[c] = "idle"
  BY DEF CallAgain, poolVars, requestVars, TypeOK, Finished
<1>2. TypeOK'
  BY <1>1 DEF TypeOK, CallState
<1>3. /\ CallsAt("request_wait")' = CallsAt("request_wait")
      /\ \A k \in Keys : HostCallsAt("host_wait", k)' = HostCallsAt("host_wait", k)
  BY <1>1 DEF CallsAt, HostCallsAt
<1>4. QueuesMatchSuspensions'
  BY <1>1, <1>3 DEF QueuesMatchSuspensions, Lists
<1>5. /\ Admitted' = Admitted /\ c \notin Admitted
      /\ Holders' = Holders /\ c \notin Holders
  BY <1>1 DEF Admitted, Holders
<1>6. NoSharedConnection'
  <2>1. \A d \in Admitted : key'[d] = key[d]
    BY <1>1, <1>5 DEF Admitted
  <2>2. \A d \in Holders : key'[d] = key[d] /\ slot'[d] = slot[d]
    BY <1>1, <1>5 DEF Holders
  <2> QED BY <1>1, <1>5, <2>1, <2>2 DEF NoSharedConnection, Slots
<1> QED BY <1>1, <1>2, <1>4, <1>6 DEF Finished

(* Calls that have a connection, or lost it, have objects of their own. *)
LEMMA HolderObjects ==
  ASSUME CacheInv
  PROVE  /\ \A c \in Holders : Object(c) \in Objects
         /\ \A c, d \in Holders : Object(c) = Object(d) => c = d
<1>1. \A c \in Holders : /\ key[c] \in Keys
                         /\ slot[c] \in 1..MaxConnectionsPerHost
  <2>1. \A k \in Keys : /\ Len(connection_map_[k]) \in Nat
                        /\ Len(connection_map_[k]) <= MaxConnectionsPerHost
    BY LenProperties DEF CacheInv, TypeOK
  <2> QED BY <2>1, CacheAssumption DEF CacheInv, NoSharedConnection, Slots, Holders, TypeOK
<1>2. \A c \in Holders : Object(c) \in Objects
  BY <1>1 DEF Object, Objects
<1>3. \A c, d \in Holders : Object(c) = Object(d) => key[c] = key[d] /\ slot[c] = slot[d]
  BY DEF Object
<1> QED BY <1>2, <1>3 DEF CacheInv, NoSharedConnection

-----------------------------------------------------------------------------
(* How far an exchange is goes with where its call is; and an object that   *)
(* an exception destroyed is still held by the call that got it.            *)
ExchangeInv ==
  \A c \in Calls :
    /\ exchange[c] = "none" => sent[c] = 0
    /\ pc[c] \in Before => exchange[c] = "none"
    /\ exchange[c] = "serving" => pc[c] = "rest_call"
    /\ exchange[c] = "thrown" => pc[c] \in {"rest_call", "unwound"}
    /\ exchange[c] = "serving" /\ may_connect[Object(c)] => sent[c] \in 0..1

ObjectInv ==
  \A o \in Objects : stream[o] = "destroyed" =>
    \E c \in Holders : Object(c) = o /\ exchange[c] = "thrown"

ClientInv == CacheInv /\ ClientTypeOK /\ ExchangeInv /\ ObjectInv

LEMMA ClientInvInit == ClientInit => ClientInv
<1> SUFFICES ASSUME ClientInit PROVE ClientInv
  OBVIOUS
<1>1. CacheInv
  BY TypeInit, QueuesInit, SharedInit DEF ClientInit, CacheInv
<1>2. ClientTypeOK
  BY <1>1 DEF ClientInit, ClientTypeOK, CacheInv
<1>3. ExchangeInv /\ ObjectInv
  BY DEF ClientInit, Init, ExchangeInv, ObjectInv, Objects
<1> QED BY <1>1, <1>2, <1>3 DEF ClientInv

(* A step that leaves all exchanges as they are keeps the invariant if it   *)
(* keeps those who hold an object that an exchange has touched.             *)
LEMMA QuietStep ==
  ASSUME ClientInv, CacheInv', UNCHANGED exchangeVars,
         \A c \in Calls :
           /\ pc'[c] \in Before => exchange[c] = "none"
           /\ exchange[c] \in {"serving", "thrown"} =>
                /\ pc'[c] \in {"rest_call", "unwound"}
                /\ exchange[c] = "serving" => pc'[c] = "rest_call"
                /\ key'[c] = key[c] /\ slot'[c] = slot[c]
  PROVE  ClientInv'
<1>1. ClientTypeOK'
  BY DEF ClientInv, ClientTypeOK, exchangeVars, CacheInv
<1>2. \A c \in Calls : exchange[c] \in {"serving", "thrown"} => Object(c)' = Object(c)
  BY DEF Object
<1>3. ExchangeInv'
  BY <1>2 DEF ClientInv, ExchangeInv, exchangeVars
<1>4. ObjectInv'
  <2>1. \A c \in Holders : exchange[c] = "thrown" => c \in Holders'
    BY DEF Holders
  <2>2. Holders \subseteq Calls
    BY DEF Holders
  <2> QED BY <1>2, <2>1, <2>2 DEF ClientInv, ObjectInv, exchangeVars
<1> QED BY <1>1, <1>3, <1>4 DEF ClientInv

LEMMA QueuedExchange ==
  ASSUME ClientInv, NEW c \in Calls,
         (Call(c) \/ RejectUrl(c) \/ ResumeRequest(c) \/ ResumeAcquire(c))
           /\ UNCHANGED exchangeVars
  PROVE  ClientInv'
<1>1. CacheInv'
  BY SomeStep DEF ClientInv, Next
<1>2. /\ pc[c] \in Before /\ exchange[c] = "none"
      /\ \A d \in Calls \ {c} : pc'[d] = pc[d] /\ slot'[d] = slot[d]
      /\ key' = key
  BY QueueStep DEF ClientInv, ExchangeInv
<1> QED BY <1>1, <1>2, QuietStep DEF ClientInv, ExchangeInv

LEMMA ThrownExchange ==
  ASSUME ClientInv, NEW c \in Calls, ExchangeThrew(c)
  PROVE  ClientInv'
<1>1. Unwind(c) /\ exchange[c] = "thrown" /\ UNCHANGED exchangeVars
  BY DEF ExchangeThrew
<1>2. CacheInv'
  BY <1>1, SomeStep DEF ClientInv, Next
<1>3. /\ pc'[c] = "unwound"
      /\ \A d \in Calls \ {c} : pc'[d] = pc[d]
      /\ key' = key /\ slot' = slot
  BY <1>1, UnwindStep DEF ClientInv
<1> QED BY <1>1, <1>2, <1>3, QuietStep DEF ClientInv, ExchangeInv, Before

LEMMA ReturnedExchange ==
  ASSUME ClientInv, NEW c \in Calls, ExchangeReturned(c)
  PROVE  ClientInv'
<1>1. Complete(c) /\ exchange[c] \in {"ok", "error", "aborted"} /\ UNCHANGED exchangeVars
  BY DEF ExchangeReturned
<1>2. CacheInv'
  BY <1>1, SomeStep DEF ClientInv, Next
<1>3. /\ pc'[c] \in {"returned", "failed"}
      /\ \A d \in Calls \ {c} :
           pc'[d] = pc[d] \/ (pc[d] \in Before /\ pc'[d] \in Before)
      /\ key' = key /\ slot' = slot
  BY <1>1, EndStep DEF ClientInv
<1>4. \A d \in Calls \ {c} : exchange[d] \in {"serving", "thrown"} => pc'[d] = pc[d]
  BY <1>3 DEF ClientInv, ExchangeInv, Before
<1> QED BY <1>1, <1>2, <1>3, <1>4, QuietStep DEF ClientInv, ExchangeInv, Before

(* The steps of an exchange happen at an object that no other call holds.   *)
LEMMA AtObject ==
  ASSUME ClientInv, NEW c \in Calls, pc[c] = "rest_call"
  PROVE  /\ c \in Holders /\ Object(c) \in Objects
         /\ \A d \in Holders \ {c} : Object(d) # Object(c)
         /\ \A d \in Calls \ {c} :
              exchange[d] \in {"serving", "thrown"} => d \in Holders
<1>1. c \in Holders
  BY DEF Holders
<1> QED BY <1>1, HolderObjects DEF ClientInv, ExchangeInv, Holders

LEMMA ExchangeStep ==
  ASSUME ClientInv, NEW c \in Calls,
         BeginExchange(c) \/ GiveUpStream(c) \/ Connect(c) \/ EndExchange(c)
  PROVE  ClientInv'
<1> DEFINE o == Object(c)
<1>1. /\ UNCHANGED <<vars, stopped>>
      /\ pc[c] = "rest_call"
      /\ \E e : exchange' = [exchange EXCEPT ![c] = e]
      /\ \E e : sent' = [sent EXCEPT ![c] = e]
      /\ \E e : stream' = [stream EXCEPT ![o] = e]
      /\ \E e : may_connect' = [may_connect EXCEPT ![o] = e]
  <2>1. /\ exchange = [exchange EXCEPT ![c] = exchange[c]]
        /\ sent = [sent EXCEPT ![c] = sent[c]]
        /\ stream = [stream EXCEPT ![o] = stream[o]]
        /\ may_connect = [may_connect EXCEPT ![o] = may_connect[o]]
    BY DEF ClientInv, ClientTypeOK
  <2>2. CASE BeginExchange(c)
    BY <2>1, <2>2 DEF BeginExchange, Becomes, SetStream, Send
  <2>3. CASE GiveUpStream(c)
    BY <2>1, <2>3 DEF GiveUpStream, SetStream, ClientInv, ExchangeInv
  <2>4. CASE Connect(c)
    BY <2>1, <2>4 DEF Connect, SetStream, Send, ClientInv, ExchangeInv
  <2>5. CASE EndExchange(c)
    BY <2>1, <2>5 DEF EndExchange, SetStream, Becomes, ClientInv, ExchangeInv
  <2> QED BY <2>2, <2>3, <2>4, <2>5
<1>2. /\ exchange'[c] \in {"serving", "ok", "error", "aborted", "thrown"}
      /\ sent'[c] \in 0..2
      /\ stream'[o] \in {"closed", "open", "destroyed"}
      /\ may_connect'[o] \in BOOLEAN
      /\ exchange'[c] = "serving" /\ may_connect'[o] => sent'[c] \in 0..1
      /\ stream'[o] = "destroyed" => exchange'[c] = "thrown"
  <2>1. /\ exchange \in [Calls -> {"none", "serving", "ok", "error", "aborted", "thrown"}]
        /\ sent \in [Calls -> 0..2]
        /\ stream \in [Objects -> {"closed", "open", "destroyed"}]
        /\ may_connect \in [Objects -> BOOLEAN]
        /\ o \in Objects
    BY <1>1, AtObject DEF ClientInv, ClientTypeOK
  <2>2. stream[o] = "destroyed" => exchange[c] = "thrown"
    BY <1>1, AtObject DEF ClientInv, ObjectInv
  <2>3. CASE BeginExchange(c)
    <3>1. sent[c] = 0 /\ exchange[c] = "none"
      BY <2>3 DEF BeginExchange, ClientInv, ExchangeInv
    <3> QED BY <2>1, <2>2, <2>3, <3>1 DEF BeginExchange, Becomes, SetStream, Send
  <2>4. CASE GiveUpStream(c)
    BY <2>1, <2>4 DEF GiveUpStream, SetStream, ClientInv, ExchangeInv
  <2>5. CASE Connect(c)
    <3>1. sent[c] \in 0..1 /\ exchange[c] = "serving"
      BY <2>5 DEF Connect, ClientInv, ExchangeInv
    <3> QED BY <2>1, <2>5, <3>1 DEF Connect, SetStream, Send
  <2>6. CASE EndExchange(c)
    BY <2>1, <2>2, <2>6 DEF EndExchange, SetStream, Becomes
  <2> QED BY <2>3, <2>4, <2>5, <2>6
<1>3. /\ \A d \in Calls \ {c} : exchange'[d] = exchange[d] /\ sent'[d] = sent[d]
      /\ \A p \in Objects \ {o} : stream'[p] = stream[p] /\ may_connect'[p] = may_connect[p]
  BY <1>1 DEF ClientInv, ClientTypeOK
<1>4. /\ CacheInv' /\ Holders' = Holders
      /\ pc' = pc /\ \A d : Object(d)' = Object(d)
  BY <1>1, CacheAtRest DEF ClientInv
<1>5. /\ c \in Holders /\ o \in Objects
      /\ \A d \in Holders \ {c} : Object(d) \in Objects \ {o}
      /\ \A d \in Calls \ {c} : exchange[d] \in {"serving", "thrown"} => d \in Holders
  BY <1>1, AtObject, HolderObjects DEF ClientInv
<1> HIDE DEF o
<1>6. ClientTypeOK'
  <2>1. /\ TypeOK' /\ stopped' \subseteq Calls
    BY <1>1, <1>4 DEF CacheInv, ClientInv, ClientTypeOK
  <2>2. exchange' \in [Calls -> {"none", "serving", "ok", "error", "aborted", "thrown"}]
    BY <1>1, <1>2, <1>3 DEF ClientInv, ClientTypeOK
  <2>3. sent' \in [Calls -> 0..2]
    BY <1>1, <1>2, <1>3 DEF ClientInv, ClientTypeOK
  <2>4. stream' \in [Objects -> {"closed", "open", "destroyed"}]
    BY <1>1, <1>2, <1>3 DEF ClientInv, ClientTypeOK
  <2>5. may_connect' \in [Objects -> BOOLEAN]
    BY <1>1, <1>2, <1>3 DEF ClientInv, ClientTypeOK
  <2> QED BY <2>1, <2>2, <2>3, <2>4, <2>5 DEF ClientTypeOK
<1>7. ExchangeInv'
  <2>1. ASSUME NEW d \in Calls \ {c}, exchange[d] = "serving"
        PROVE  may_connect'[Object(d)] = may_connect[Object(d)]
    BY <1>3, <1>5, <2>1
  <2> QED BY <1>1, <1>2, <1>3, <1>4, <2>1 DEF ClientInv, ExchangeInv, Before, o
<1>8. ObjectInv'
  <2>1. ASSUME NEW p \in Objects \ {o}, stream'[p] = "destroyed"
        PROVE  \E d \in Holders : Object(d) = p /\ exchange'[d] = "thrown"
    <3>1. PICK d \in Holders : Object(d) = p /\ exchange[d] = "thrown"
      BY <1>3, <2>1 DEF ClientInv, ObjectInv
    <3>2. d \in Calls \ {c}
      BY <3>1 DEF Holders, o
    <3> QED BY <1>3, <3>1, <3>2
  <2> QED BY <1>2, <1>4, <1>5, <2>1 DEF ObjectInv, o
<1> QED BY <1>4, <1>6, <1>7, <1>8 DEF ClientInv

LEMMA CallerStep ==
  ASSUME ClientInv, NEW c \in Calls, Stop(c) \/ CallAgain(c)
  PROVE  ClientInv'
<1>1. CASE Stop(c)
  <2>1. /\ UNCHANGED <<vars, stream, may_connect, exchange, sent>>
        /\ stopped' \subseteq Calls
    BY <1>1 DEF Stop, ClientInv, ClientTypeOK
  <2>2. CacheInv' /\ Holders' = Holders /\ pc' = pc /\ \A d : Object(d)' = Object(d)
    BY <2>1, CacheAtRest DEF ClientInv
  <2>3. ClientTypeOK'
    BY <2>1, <2>2 DEF ClientInv, ClientTypeOK, CacheInv
  <2> QED BY <2>1, <2>2, <2>3 DEF ClientInv, ExchangeInv, ObjectInv
<1>2. CASE CallAgain(c)
  <2>1. /\ CacheInv'
        /\ pc[c] \in {"returned", "failed", "rejected"} /\ pc'[c] = "idle"
        /\ \A d \in Calls \ {c} : pc'[d] = pc[d] /\ key'[d] = key[d]
        /\ slot' = slot
    BY <1>2, AgainStep DEF ClientInv, Finished
  <2>2. /\ exchange' = [exchange EXCEPT ![c] = "none"]
        /\ sent' = [sent EXCEPT ![c] = 0]
        /\ stopped' \subseteq Calls
        /\ UNCHANGED <<stream, may_connect>>
    BY <1>2 DEF CallAgain, Becomes, ClientInv, ClientTypeOK
  <2>3. ClientTypeOK'
    BY <2>1, <2>2 DEF ClientInv, ClientTypeOK, CacheInv
  <2>4. /\ \A d \in Calls \ {c} : /\ exchange'[d] = exchange[d] /\ sent'[d] = sent[d]
                                  /\ Object(d)' = Object(d)
        /\ exchange'[c] = "none" /\ sent'[c] = 0
        /\ exchange[c] \notin {"serving", "thrown"}
    BY <2>1, <2>2 DEF ClientInv, ClientTypeOK, ExchangeInv, Object
  <2>5. ExchangeInv'
    BY <2>1, <2>2, <2>4 DEF ClientInv, ExchangeInv
  <2>6. ObjectInv'
    <3>1. ASSUME NEW d \in Holders, exchange[d] = "thrown"
          PROVE  d \in Holders' /\ Object(d)' = Object(d) /\ exchange'[d] = "thrown"
      BY <2>1, <2>4, <3>1 DEF Holders
    <3> QED BY <2>2, <3>1 DEF ClientInv, ObjectInv
  <2> QED BY <2>1, <2>3, <2>5, <2>6 DEF ClientInv
<1> QED BY <1>1, <1>2

LEMMA ClientInvStep == ClientInv /\ [ClientNext]_clientVars => ClientInv'
<1> SUFFICES ASSUME ClientInv, [ClientNext]_clientVars PROVE ClientInv'
  OBVIOUS
<1>1. CASE UNCHANGED clientVars
  <2>1. UNCHANGED vars /\ UNCHANGED exchangeVars
    BY <1>1 DEF clientVars
  <2>2. CacheInv'
    BY <2>1, SomeStep DEF ClientInv
  <2> QED BY <2>1, <2>2, QuietStep DEF vars, ClientInv, ExchangeInv
<1>2. ASSUME NEW c \in Calls, Advance(c) PROVE ClientInv'
  BY <1>2, QueuedExchange, ExchangeStep, ThrownExchange, ReturnedExchange DEF Advance
<1> QED
  BY <1>1, <1>2, QueuedExchange, ExchangeStep, CallerStep DEF ClientNext

LEMMA ClientInvCorrect == ClientSpec => []ClientInv
  BY ClientInvInit, ClientInvStep, PTL DEF ClientSpec

(* The state of the cache and of the exchanges keeps its types: no request  *)
(* is sent more than twice.                                                 *)
THEOREM ClientTypeCorrect == ClientSpec => []ClientTypeOK
<1>1. ClientInv => ClientTypeOK
  BY DEF ClientInv
<1> QED BY <1>1, ClientInvCorrect, PTL

(* What the cache counts and whom it wakes, with callers that never rest.    *)

(* The steps of the client are those of the cache, and new calls.            *)
LEMMA CacheOrAgain ==
  ClientNext \/ UNCHANGED clientVars => [Next]_vars \/ \E c \in Calls : CallAgain(c)
<1> SUFFICES ASSUME ClientNext \/ UNCHANGED clientVars
             PROVE  [Next]_vars \/ \E c \in Calls : CallAgain(c)
  OBVIOUS
<1>1. CASE UNCHANGED clientVars
  BY <1>1 DEF clientVars
<1>2. ASSUME NEW c \in Calls,
             BeginExchange(c) \/ GiveUpStream(c) \/ Connect(c) \/ EndExchange(c) \/ Stop(c)
      PROVE  UNCHANGED vars
  BY <1>2 DEF BeginExchange, GiveUpStream, Connect, EndExchange, Stop
<1>3. ASSUME NEW c \in Calls,
             Call(c) \/ RejectUrl(c) \/ ResumeRequest(c) \/ ResumeAcquire(c)
               \/ ExchangeThrew(c) \/ ExchangeReturned(c)
      PROVE  Next
  BY <1>3 DEF ExchangeThrew, ExchangeReturned, Next
<1> QED BY <1>1, <1>2, <1>3 DEF ClientNext, Advance

CountInv ==
  RequestsConserved /\ SlotsConserved /\ NoLostHostWakeup /\ NoLostRequestWakeup

(* A caller that calls again was in none of the sets that are counted.       *)
LEMMA AgainCounts ==
  ASSUME CacheInv, CountInv, NEW c \in Calls, CallAgain(c)
  PROVE  CountInv'
<1>1. /\ UNCHANGED <<poolVars, requestVars>>
      /\ pc[c] \in {"returned", "failed", "rejected"} /\ pc'[c] = "idle"
      /\ \A d \in Calls \ {c} : pc'[d] = pc[d] /\ key'[d] = key[d]
  BY AgainStep DEF CallAgain, Finished
<1>2. Admitted' = Admitted
  BY <1>1 DEF Admitted
<1>3. CallsAt("request_ready")' = CallsAt("request_ready")
  BY <1>1 DEF CallsAt
<1>4. \A k \in Keys : /\ Using(k)' = Using(k) /\ Lost(k)' = Lost(k)
                      /\ HostCallsAt("host_ready", k)' = HostCallsAt("host_ready", k)
  BY <1>1 DEF Using, Lost, HostCallsAt, CallsAt
<1>5. \A k \in Keys : Available(k)' = Available(k)
  BY <1>1 DEF Available, Slots, poolVars
<1>6. RequestsConserved'
  BY <1>1, <1>2 DEF CountInv, RequestsConserved, requestVars
<1>7. SlotsConserved'
  BY <1>1, <1>4, <1>5 DEF CountInv, SlotsConserved, poolVars
<1>8. NoLostHostWakeup'
  BY <1>1, <1>4, <1>5 DEF CountInv, NoLostHostWakeup, poolVars
<1>9. NoLostRequestWakeup'
  BY <1>1, <1>3 DEF CountInv, NoLostRequestWakeup, requestVars
<1> QED BY <1>6, <1>7, <1>8, <1>9 DEF CountInv

LEMMA CountInvCorrect == ClientSpec => []CountInv
<1>1. ClientInit => CountInv
  BY RequestsInit, SlotsInit, HostWakeupInit, RequestWakeupInit DEF ClientInit, CountInv
<1>2. CacheInv /\ CountInv /\ [Next]_vars => CountInv'
  BY RequestsStep, SlotsStep, HostWakeupStep, RequestWakeupStep DEF CacheInv, CountInv
<1>3. ClientInv /\ CountInv /\ [ClientNext]_clientVars => CountInv'
  BY <1>2, CacheOrAgain, AgainCounts DEF ClientInv
<1> QED BY <1>1, <1>3, ClientInvCorrect, PTL DEF ClientSpec

(* Callers that call again for ever never make request_count_ drift from    *)
(* the calls that the cache has admitted, nor exceed its limit.             *)
THEOREM ClientRequestsCounted == ClientSpec => []RequestsConserved
<1>1. CountInv => RequestsConserved
  BY DEF CountInv
<1> QED BY <1>1, CountInvCorrect, PTL

(* However often connections are taken, put back and lost to exceptions,    *)
(* every slot of a host holds a connection, is out, or is lost.             *)
THEOREM ClientSlotsAccounted == ClientSpec => []SlotsConserved
<1>1. CountInv => SlotsConserved
  BY DEF CountInv
<1> QED BY <1>1, CountInvCorrect, PTL

(* New calls overtake resumed waiters, but none sleeps beside a connection  *)
(* that no resumed waiter is coming for.                                    *)
THEOREM ClientHostWakeups == ClientSpec => []NoLostHostWakeup
<1>1. CountInv => NoLostHostWakeup
  BY DEF CountInv
<1> QED BY <1>1, CountInvCorrect, PTL

(* The same for request slots.                                              *)
THEOREM ClientRequestWakeups == ClientSpec => []NoLostRequestWakeup
<1>1. CountInv => NoLostRequestWakeup
  BY DEF CountInv
<1> QED BY <1>1, CountInvCorrect, PTL

(* With callers that never rest a waiter may be overtaken, but the cache     *)
(* stands still only when exceptions have lost what its callers wait for.   *)
THEOREM ClientNeverStandsStill == ClientSpec => []NoStandstill
<1>1. ClientInv /\ CountInv => NoStandstill
  BY CountsMove DEF ClientInv, CacheInv, CountInv
<1> QED BY <1>1, ClientInvCorrect, CountInvCorrect, PTL

-----------------------------------------------------------------------------
(* A connection in the pool is at rest and not broken by an exception.      *)
THEOREM PoolRests == ClientSpec => []PoolAtRest
<1>1. ASSUME ClientInv PROVE PoolAtRest
  <2> SUFFICES ASSUME NEW k \in Keys, NEW i \in Available(k)
               PROVE  Serving(<<k, i>>) = {} /\ stream[<<k, i>>] # "destroyed"
    BY DEF PoolAtRest
  <2>1. i \in Slots(k) /\ connection_map_[k][i] = "connection"
    BY DEF Available
  <2>2. \A c \in Holders : Object(c) # <<k, i>>
    BY <1>1, <2>1 DEF ClientInv, CacheInv, NoSharedConnection, Object
  <2>3. <<k, i>> \in Objects
    BY <1>1, <2>1, LenProperties, CacheAssumption
       DEF ClientInv, CacheInv, TypeOK, Slots, Objects
  <2> QED
    BY <1>1, <2>2, <2>3 DEF ClientInv, ExchangeInv, ObjectInv, Serving, Holders
<1> QED BY <1>1, ClientInvCorrect, PTL

-----------------------------------------------------------------------------
(* The watched object, in the variables of Exchange.                        *)
WServing == Serving(Watched)
WSent == [c \in Calls |-> IF c \in OfWatched THEN sent[c] ELSE 0]
WResult == [c \in Calls |-> IF c \in OfWatched /\ exchange[c] # "serving"
                              THEN exchange[c] ELSE "none"]
WStopped == stopped \cap OfWatched
WVars == <<WServing, stream[Watched], may_connect[Watched], WSent, WResult, WStopped>>

LEMMA WatchedVars == UNCHANGED WVars <=> UNCHANGED WatchedObject!vars
  BY DEF WatchedObject!vars, WVars, WServing, WSent, WResult, WStopped

LEMMA WatchedInit == ClientInit => WatchedObject!Init
<1> SUFFICES ASSUME ClientInit PROVE WatchedObject!Init
  OBVIOUS
<1>1. Watched \in Objects
  BY WatchedAssumption DEF Watched, Objects
<1>2. OfWatched = {}
  <2>1. \A c \in Calls : slot[c] = 0
    BY DEF ClientInit, Init
  <2>2. WatchedSlot # 0
    BY WatchedAssumption, CacheAssumption
  <2> QED BY <2>1, <2>2 DEF OfWatched, Object, Watched
<1>3. Serving(Watched) = {}
  BY DEF Serving, ClientInit
<1> QED BY <1>1, <1>2, <1>3 DEF ClientInit, WatchedObject!Init

(* A step that leaves the exchanges alone, and lets only a call whose       *)
(* exchange has not begun change its object.                                *)
LEMMA QuietWatched ==
  ASSUME ClientInv, UNCHANGED exchangeVars,
         \A d \in Calls : exchange[d] # "none" => Object(d)' = Object(d)
  PROVE  WServing' = WServing /\ WSent' = WSent /\ WResult' = WResult
<1>1. \A d \in Calls : exchange[d] = "none" => sent[d] = 0
  BY DEF ClientInv, ExchangeInv
<1>2. \A d \in Calls : exchange[d] # "none" => (d \in OfWatched' <=> d \in OfWatched)
  BY DEF OfWatched, Watched
<1>3. WServing' = WServing
  BY DEF WServing, Serving, exchangeVars, Watched
<1>4. WSent' = WSent
  <2>1. \A d \in Calls : (IF d \in OfWatched THEN sent[d] ELSE 0)'
                           = (IF d \in OfWatched THEN sent[d] ELSE 0)
    BY <1>1, <1>2 DEF exchangeVars
  <2> QED BY <2>1 DEF WSent
<1>5. WResult' = WResult
  <2>1. \A d \in Calls :
          (IF d \in OfWatched /\ exchange[d] # "serving" THEN exchange[d] ELSE "none")'
            = (IF d \in OfWatched /\ exchange[d] # "serving" THEN exchange[d] ELSE "none")
    BY <1>2 DEF exchangeVars
  <2> QED BY <2>1 DEF WResult
<1> QED BY <1>3, <1>4, <1>5

LEMMA QueuedWatched ==
  ASSUME ClientInv, NEW c \in Calls,
         (Call(c) \/ RejectUrl(c) \/ ResumeRequest(c) \/ ResumeAcquire(c))
           /\ UNCHANGED exchangeVars
  PROVE  [WatchedObject!Next]_WVars
<1>1. /\ exchange[c] = "none"
      /\ \A d \in Calls \ {c} : Object(d)' = Object(d)
  BY QueueStep DEF ClientInv, ExchangeInv, Object
<1>2. WServing' = WServing /\ WSent' = WSent /\ WResult' = WResult
  BY <1>1, QuietWatched
<1>3. /\ stream'[Watched] = stream[Watched] /\ may_connect'[Watched] = may_connect[Watched]
      /\ stopped' = stopped
  BY DEF exchangeVars, Watched
<1>4. \A d \in Calls \ {c} : d \in WStopped' <=> d \in WStopped
  BY <1>1, <1>3 DEF WStopped, OfWatched, Watched
<1>5. WStopped' = WStopped \/ WStopped' = WStopped \cup {c} \/ WStopped' = WStopped \ {c}
  <2>1. WStopped \subseteq Calls /\ WStopped' \subseteq Calls
    BY DEF WStopped, OfWatched
  <2> QED BY <1>4, <2>1
<1>6. CASE WStopped' = WStopped
  BY <1>2, <1>3, <1>6 DEF WVars
<1>7. CASE WStopped' = WStopped \cup {c}
  <2>1. WatchedObject!Stop(c)
    BY <1>2, <1>3, <1>7
       DEF WatchedObject!Stop, WServing, WSent, WResult, WStopped
  <2> QED BY <2>1 DEF WatchedObject!Next
<1>8. CASE WStopped' = WStopped \ {c}
  <2>1. c \notin WServing /\ WSent[c] = 0 /\ WResult[c] = "none"
    BY <1>1 DEF WServing, Serving, WSent, WResult, ClientInv, ExchangeInv
  <2>2. WSent = [WSent EXCEPT ![c] = 0] /\ WResult = [WResult EXCEPT ![c] = "none"]
    BY <2>1 DEF WSent, WResult
  <2>3. WatchedObject!Again(c)
    BY <1>2, <1>3, <1>8, <2>1, <2>2
       DEF WatchedObject!Again, WServing, WSent, WResult, WStopped
  <2> QED BY <2>3 DEF WatchedObject!Next
<1> QED BY <1>5, <1>6, <1>7, <1>8

LEMMA EndedWatched ==
  ASSUME ClientInv, NEW c \in Calls, ExchangeThrew(c) \/ ExchangeReturned(c)
  PROVE  UNCHANGED WVars
<1>1. key' = key /\ slot' = slot /\ UNCHANGED exchangeVars
  BY EndStep, UnwindStep DEF ExchangeThrew, ExchangeReturned, ClientInv
<1>2. WServing' = WServing /\ WSent' = WSent /\ WResult' = WResult
  BY <1>1, QuietWatched DEF Object
<1>3. /\ stream'[Watched] = stream[Watched] /\ may_connect'[Watched] = may_connect[Watched]
      /\ WStopped' = WStopped
  BY <1>1 DEF exchangeVars, Watched, WStopped, OfWatched, Object
<1> QED BY <1>2, <1>3 DEF WVars

LEMMA CallerWatched ==
  ASSUME ClientInv, NEW c \in Calls, Stop(c) \/ CallAgain(c)
  PROVE  [WatchedObject!Next]_WVars
<1>1. CASE Stop(c)
  <2>1. /\ UNCHANGED <<key, slot, stream, may_connect, exchange, sent>>
        /\ stopped' = stopped \cup {c}
    BY <1>1 DEF Stop, vars
  <2>2. /\ WServing' = WServing /\ WSent' = WSent /\ WResult' = WResult
        /\ stream'[Watched] = stream[Watched] /\ may_connect'[Watched] = may_connect[Watched]
        /\ OfWatched' = OfWatched
    BY <2>1 DEF WServing, Serving, WSent, WResult, OfWatched, Object, Watched
  <2>3. CASE c \in OfWatched
    <3>1. WStopped' = WStopped \cup {c}
      BY <2>1, <2>2, <2>3 DEF WStopped
    <3>2. WatchedObject!Stop(c)
      BY <2>2, <3>1 DEF WatchedObject!Stop, WServing, WSent, WResult, WStopped
    <3> QED BY <3>2 DEF WatchedObject!Next
  <2>4. CASE c \notin OfWatched
    <3>1. WStopped' = WStopped
      BY <2>1, <2>2, <2>4 DEF WStopped
    <3> QED BY <2>2, <3>1 DEF WVars
  <2> QED BY <2>3, <2>4
<1>2. CASE CallAgain(c)
  <2>1. /\ pc[c] \in {"returned", "failed", "rejected"}
        /\ \A d \in Calls \ {c} : Object(d)' = Object(d)
    BY <1>2, AgainStep DEF ClientInv, Finished, Object
  <2>2. /\ exchange' = [exchange EXCEPT ![c] = "none"]
        /\ sent' = [sent EXCEPT ![c] = 0]
        /\ stopped' = stopped \ {c}
        /\ UNCHANGED <<stream, may_connect>>
    BY <1>2 DEF CallAgain, Becomes
  <2>3. /\ \A d \in Calls \ {c} : /\ exchange'[d] = exchange[d] /\ sent'[d] = sent[d]
                                  /\ d \in OfWatched' <=> d \in OfWatched
        /\ exchange'[c] = "none" /\ sent'[c] = 0 /\ exchange[c] # "serving"
    BY <2>1, <2>2 DEF ClientInv, ClientTypeOK, ExchangeInv, OfWatched, Watched
  <2>4. WServing' = WServing /\ c \notin WServing
    BY <2>1, <2>3 DEF WServing, Serving, Watched
  <2>5. WSent' = [WSent EXCEPT ![c] = 0]
    BY <2>3 DEF WSent
  <2>6. WResult' = [WResult EXCEPT ![c] = "none"]
    BY <2>3 DEF WResult
  <2>7. WStopped' = WStopped \ {c}
    <3>1. \A d \in Calls : d \in WStopped' <=> d \in WStopped \ {c}
      BY <2>2, <2>3 DEF WStopped
    <3>2. WStopped \subseteq Calls /\ WStopped' \subseteq Calls
      BY DEF WStopped, OfWatched
    <3> QED BY <3>1, <3>2
  <2>8. stream'[Watched] = stream[Watched] /\ may_connect'[Watched] = may_connect[Watched]
    BY <2>2 DEF Watched
  <2>9. WatchedObject!Again(c)
    BY <2>4, <2>5, <2>6, <2>7, <2>8
       DEF WatchedObject!Again, WServing, WSent, WResult, WStopped
  <2> QED BY <2>9 DEF WatchedObject!Next
<1> QED BY <1>1, <1>2

(* A step of the exchange of c, at its object.                              *)
LEMMA AtWatched ==
  ASSUME ClientInv, NEW c \in Calls, pc[c] = "rest_call", Object(c) = Watched,
         UNCHANGED <<vars, stopped>>,
         exchange' \in [Calls -> {"none", "serving", "ok", "error", "aborted", "thrown"}],
         sent' \in [Calls -> Nat],
         \A d \in Calls \ {c} : exchange'[d] = exchange[d] /\ sent'[d] = sent[d]
  PROVE  /\ WServing = (IF exchange[c] = "serving" THEN {c} ELSE {})
         /\ WServing' = (IF exchange'[c] = "serving" THEN {c} ELSE {})
         /\ WSent' = [WSent EXCEPT ![c] = sent'[c]]
         /\ WSent[c] = sent[c]
         /\ WResult' = [WResult EXCEPT ![c] =
                          IF exchange'[c] = "serving" THEN "none" ELSE exchange'[c]]
         /\ WResult[c] = (IF exchange[c] = "serving" THEN "none" ELSE exchange[c])
         /\ WStopped' = WStopped
         /\ c \in WStopped <=> c \in stopped
<1>1. \A d : Object(d)' = Object(d)
  BY CacheAtRest DEF ClientInv
<1>2. OfWatched' = OfWatched /\ c \in OfWatched /\ OfWatched \subseteq Calls
  BY <1>1 DEF OfWatched, Watched
<1>3. \A d \in Calls \ {c} : Object(d) = Watched => exchange[d] # "serving"
  BY AtObject
<1>4. /\ WServing = (IF exchange[c] = "serving" THEN {c} ELSE {})
      /\ WServing' = (IF exchange'[c] = "serving" THEN {c} ELSE {})
  BY <1>1, <1>3 DEF WServing, Serving, Watched
<1>5. WSent' = [WSent EXCEPT ![c] = sent'[c]] /\ WSent[c] = sent[c]
  BY <1>2 DEF WSent
<1>6. /\ WResult' = [WResult EXCEPT ![c] =
                       IF exchange'[c] = "serving" THEN "none" ELSE exchange'[c]]
      /\ WResult[c] = (IF exchange[c] = "serving" THEN "none" ELSE exchange[c])
  BY <1>2 DEF WResult
<1>7. WStopped' = WStopped /\ (c \in WStopped <=> c \in stopped)
  BY <1>2 DEF WStopped
<1> QED BY <1>4, <1>5, <1>6, <1>7

LEMMA ExchangeWatched ==
  ASSUME ClientInv, NEW c \in Calls,
         BeginExchange(c) \/ GiveUpStream(c) \/ Connect(c) \/ EndExchange(c)
  PROVE  [WatchedObject!Next]_WVars
<1>1. /\ pc[c] = "rest_call"
      /\ UNCHANGED <<vars, stopped>>
      /\ \A d \in Calls \ {c} : exchange'[d] = exchange[d] /\ sent'[d] = sent[d]
      /\ \A p \in Objects \ {Object(c)} :
           stream'[p] = stream[p] /\ may_connect'[p] = may_connect[p]
  BY DEF BeginExchange, GiveUpStream, Connect, EndExchange, Becomes, SetStream, Send,
         ClientInv, ClientTypeOK, ExchangeInv
<1>2. Watched \in Objects
  BY WatchedAssumption DEF Watched, Objects
<1>3. CASE Object(c) # Watched
  <2>1. \A d : Object(d)' = Object(d)
    BY <1>1, CacheAtRest DEF ClientInv
  <2>2. c \notin OfWatched /\ OfWatched' = OfWatched /\ OfWatched \subseteq Calls
    BY <1>3, <2>1 DEF OfWatched, Watched
  <2>3. stream'[Watched] = stream[Watched] /\ may_connect'[Watched] = may_connect[Watched]
    BY <1>1, <1>2, <1>3
  <2>4. WServing' = WServing
    BY <1>1, <2>1, <1>3 DEF WServing, Serving, Watched
  <2>5. WSent' = WSent
    <3>1. \A d \in Calls : (IF d \in OfWatched THEN sent[d] ELSE 0)'
                             = (IF d \in OfWatched THEN sent[d] ELSE 0)
      BY <1>1, <2>2
    <3> QED BY <3>1 DEF WSent
  <2>6. WResult' = WResult
    <3>1. \A d \in Calls :
            (IF d \in OfWatched /\ exchange[d] # "serving" THEN exchange[d] ELSE "none")'
              = (IF d \in OfWatched /\ exchange[d] # "serving" THEN exchange[d] ELSE "none")
      BY <1>1, <2>2
    <3> QED BY <3>1 DEF WResult
  <2>7. WStopped' = WStopped
    BY <1>1, <2>2 DEF WStopped
  <2> QED BY <2>3, <2>4, <2>5, <2>6, <2>7 DEF WVars
<1>4. CASE Object(c) = Watched
  <2>1. /\ exchange' \in [Calls -> {"none", "serving", "ok", "error", "aborted", "thrown"}]
        /\ sent' \in [Calls -> Nat]
        /\ sent \in [Calls -> Nat]
        /\ stream \in [Objects -> {"closed", "open", "destroyed"}]
        /\ exchange \in [Calls -> {"none", "serving", "ok", "error", "aborted", "thrown"}]
        /\ may_connect \in [Objects -> BOOLEAN]
    BY ExchangeStep DEF ClientInv, ClientTypeOK
  <2>2. /\ WServing = (IF exchange[c] = "serving" THEN {c} ELSE {})
        /\ WServing' = (IF exchange'[c] = "serving" THEN {c} ELSE {})
        /\ WSent' = [WSent EXCEPT ![c] = sent'[c]]
        /\ WSent[c] = sent[c]
        /\ WResult' = [WResult EXCEPT ![c] =
                         IF exchange'[c] = "serving" THEN "none" ELSE exchange'[c]]
        /\ WResult[c] = (IF exchange[c] = "serving" THEN "none" ELSE exchange[c])
        /\ WStopped' = WStopped
        /\ c \in WStopped <=> c \in stopped
    BY <1>1, <1>4, <2>1, AtWatched
  <2>3. /\ WSent = [WSent EXCEPT ![c] = sent[c]]
        /\ exchange[c] \in {"none", "serving"} => WResult = [WResult EXCEPT ![c] = "none"]
    BY <2>2 DEF WSent, WResult
  <2>4. CASE BeginExchange(c)
    <3>1. /\ exchange[c] = "none" /\ may_connect'[Watched] = TRUE
          /\ \/ /\ c \notin stopped /\ exchange'[c] = "serving"
                /\ stream'[Watched] = stream[Watched]
                /\ sent'[c] = IF stream[Watched] = "open" THEN sent[c] + 1 ELSE sent[c]
             \/ /\ c \in stopped /\ sent'[c] = sent[c]
                /\ \/ exchange'[c] = "aborted" /\ stream'[Watched] = "closed"
                   \/ /\ exchange'[c] = "thrown" /\ stream[Watched] = "open"
                      /\ stream'[Watched] = "destroyed"
      BY <1>2, <1>4, <2>1, <2>4 DEF BeginExchange, Becomes, SetStream, Send
    <3>2. stream[Watched] # "destroyed"
      <4>1. \A d \in Holders : Object(d) = Watched => d = c
        BY <1>1, <1>4, AtObject
      <4> QED BY <1>2, <3>1, <4>1 DEF ClientInv, ObjectInv
    <3>3. WatchedObject!Begin(c)
      <4>1. WSent' = IF c \notin stopped /\ stream[Watched] = "open"
                       THEN [WSent EXCEPT ![c] = @ + 1] ELSE WSent
        BY <2>2, <2>3, <3>1
      <4>2. /\ WServing = {}
            /\ WServing' = IF c \notin stopped THEN {c} ELSE {}
            /\ WResult[c] = "none"
            /\ WResult' = IF c \notin stopped THEN WResult
                                              ELSE [WResult EXCEPT ![c] = exchange'[c]]
        BY <2>2, <2>3, <3>1
      <4> QED
        BY <2>2, <3>1, <3>2, <4>1, <4>2
           DEF WatchedObject!Begin, WatchedObject!Send, WatchedObject!Ends,
               WServing, WSent, WResult, WStopped
    <3> QED BY <3>3 DEF WatchedObject!Next
  <2>5. CASE GiveUpStream(c)
    <3>1. /\ exchange[c] = "serving" /\ exchange' = exchange /\ sent' = sent
          /\ c \notin stopped /\ may_connect[Watched] /\ stream[Watched] = "open"
          /\ stream'[Watched] = "closed" /\ may_connect'[Watched] = may_connect[Watched]
      BY <1>2, <1>4, <2>1, <2>5 DEF GiveUpStream, SetStream
    <3>2. WServing = {c} /\ WServing' = WServing /\ WSent' = WSent /\ WResult' = WResult
      BY <2>2, <2>3, <3>1
    <3>3. WatchedObject!GiveUpStream(c)
      BY <2>2, <3>1, <3>2
         DEF WatchedObject!GiveUpStream, WServing, WSent, WResult, WStopped
    <3> QED BY <3>3 DEF WatchedObject!Next
  <2>6. CASE Connect(c)
    <3>1. /\ exchange[c] = "serving" /\ exchange' = exchange /\ sent'[c] = sent[c] + 1
          /\ c \notin stopped /\ may_connect[Watched] /\ stream[Watched] = "closed"
          /\ stream'[Watched] = "open" /\ may_connect'[Watched] = FALSE
      BY <1>2, <1>4, <2>1, <2>6 DEF Connect, SetStream, Send
    <3>2. /\ WServing = {c} /\ WServing' = WServing /\ WResult' = WResult
          /\ WSent' = [WSent EXCEPT ![c] = @ + 1]
      BY <2>2, <2>3, <3>1
    <3>3. WatchedObject!Connect(c)
      BY <2>2, <3>1, <3>2
         DEF WatchedObject!Connect, WatchedObject!Send, WServing, WSent, WResult, WStopped
    <3> QED BY <3>3 DEF WatchedObject!Next
  <2>7. CASE EndExchange(c)
    <3>1. /\ exchange[c] = "serving" /\ sent' = sent
          /\ may_connect'[Watched] = may_connect[Watched]
          /\ exchange'[c] # "serving"
          /\ \/ /\ stream[Watched] = "open" /\ exchange'[c] = "ok"
                /\ stream'[Watched] \in {"open", "closed"}
             \/ /\ may_connect[Watched] => stream[Watched] = "closed"
                /\ exchange'[c] = "error" /\ stream'[Watched] = "closed"
             \/ c \in stopped /\ exchange'[c] = "aborted" /\ stream'[Watched] = "closed"
             \/ exchange'[c] = "thrown" /\ stream'[Watched] = "destroyed"
      BY <1>2, <1>4, <2>1, <2>7 DEF EndExchange, Becomes, SetStream
    <3>2. /\ WServing = {c} /\ WServing' = {} /\ WSent' = WSent
          /\ WResult' = [WResult EXCEPT ![c] = exchange'[c]]
      BY <2>2, <2>3, <3>1
    <3>3. WatchedObject!End(c)
      BY <2>2, <3>1, <3>2
         DEF WatchedObject!End, WatchedObject!Ends, WServing, WSent, WResult, WStopped
    <3> QED BY <3>3 DEF WatchedObject!Next
  <2> QED BY <2>4, <2>5, <2>6, <2>7
<1> QED BY <1>3, <1>4

LEMMA WatchedStep == ClientInv /\ [ClientNext]_clientVars => [WatchedObject!Next]_WVars
<1> SUFFICES ASSUME ClientInv, [ClientNext]_clientVars
             PROVE  [WatchedObject!Next]_WVars
  OBVIOUS
<1>1. CASE UNCHANGED clientVars
  <2>1. key' = key /\ slot' = slot /\ UNCHANGED exchangeVars
    BY <1>1 DEF clientVars, vars
  <2>2. WServing' = WServing /\ WSent' = WSent /\ WResult' = WResult
    BY <2>1, QuietWatched DEF Object
  <2>3. /\ stream'[Watched] = stream[Watched] /\ may_connect'[Watched] = may_connect[Watched]
        /\ WStopped' = WStopped
    BY <2>1 DEF exchangeVars, Watched, WStopped, OfWatched, Object
  <2> QED BY <2>2, <2>3 DEF WVars
<1>2. ASSUME NEW c \in Calls, Advance(c) PROVE [WatchedObject!Next]_WVars
  BY <1>2, QueuedWatched, ExchangeWatched, EndedWatched DEF Advance
<1> QED
  BY <1>1, <1>2, QueuedWatched, ExchangeWatched, CallerWatched DEF ClientNext

(* The cache uses every connection object as Exchange demands: by one call  *)
(* after another, none of them after it threw.                              *)
THEOREM ObjectsInTurn == ClientSpec => ObjectsAreUsedInTurn
<1>1. ClientInv /\ [ClientNext]_clientVars => [WatchedObject!Next]_(WatchedObject!vars)
  BY WatchedStep, WatchedVars
<1> QED
  BY <1>1, WatchedInit, ClientInvCorrect, PTL
     DEF ClientSpec, ObjectsAreUsedInTurn, WatchedObject!Spec
=============================================================================
