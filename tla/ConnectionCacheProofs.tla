------------------------ MODULE ConnectionCacheProofs ------------------------
(* Theorems of ConnectionCache, for every number of calls and hosts and     *)
(* every value of the two limits.                                           *)
EXTENDS ConnectionCache, SequenceTheorems, FiniteSetTheorems, TLAPS

-----------------------------------------------------------------------------
(* Queues: what async_wait and cancel_one do to a timer's queue.            *)

(* async_wait leaves the queue as it was and adds the new waiter at its end. *)
LEMMA AppendWaiter ==
  ASSUME NEW S, NEW q \in Seq(S), NEW e \in S
  PROVE  /\ Append(q, e) \in Seq(S)
         /\ Append(q, e) # <<>>
         /\ Len(q) \in Nat
         /\ Len(Append(q, e)) = Len(q) + 1
         /\ \A i \in 1..Len(q) : Append(q, e)[i] = q[i]
         /\ Append(q, e)[Len(q) + 1] = e
  BY AppendProperties, LenProperties

(* cancel_one posts the head's handler and moves the others up, and does     *)
(* nothing to an empty queue.                                                *)
LEMMA CancelOneEffect ==
  ASSUME NEW S, NEW q \in Seq(S), NEW r, r = AfterPosting(q, Posted(q))
  PROVE  /\ r \in Seq(S)
         /\ Posted(q) \subseteq S
         /\ q = <<>> => Posted(q) = {} /\ r = <<>>
         /\ q # <<>> => /\ 1 \in 1..Len(q)
                        /\ Posted(q) = {q[1]}
                        /\ Len(r) = Len(q) - 1
                        /\ \A i \in 1..Len(r) :
                             /\ i + 1 \in 1..Len(q)
                             /\ r[i] = q[i + 1]
<1>1. CASE q = <<>>
  BY <1>1 DEF Posted, AfterPosting
<1>2. CASE q # <<>>
  <2>1. /\ Head(q) \in S
        /\ Head(q) = q[1]
        /\ Tail(q) \in Seq(S)
        /\ Len(Tail(q)) = Len(q) - 1
        /\ \A i \in 1..Len(Tail(q)) : Tail(q)[i] = q[i + 1]
    BY <1>2, HeadTailProperties
  <2>2. Len(q) \in Nat /\ Len(q) # 0
    BY <1>2, EmptySeq, LenProperties
  <2>3. r = Tail(q) /\ Posted(q) = {Head(q)}
    BY <1>2 DEF Posted, AfterPosting
  <2>. QED
    BY <1>2, <2>1, <2>2, <2>3
<1>. QED
  BY <1>1, <1>2

(* Moving a connection in or out of a slot of a range.                      *)
LEMMA SlotUpdate ==
  ASSUME NEW S, NEW q \in Seq(S), NEW i, NEW e \in S
  PROVE  /\ [q EXCEPT ![i] = e] \in Seq(S)
         /\ Len([q EXCEPT ![i] = e]) = Len(q)
         /\ \A j \in 1..Len(q) : [q EXCEPT ![i] = e][j] = IF j = i THEN e ELSE q[j]
<1>1. q \in [1..Len(q) -> S] /\ Len(q) \in Nat
  BY LenProperties
<1>2. [q EXCEPT ![i] = e] \in [1..Len(q) -> S]
  BY <1>1
<1>. QED
  BY <1>1, <1>2, SeqDef, LenProperties

(* The same in the map: the other slots and the other ranges stay.           *)
LEMMA MapUpdate ==
  ASSUME TypeOK, NEW k \in Keys, NEW i, NEW e \in SlotState,
         connection_map_' = [connection_map_ EXCEPT ![k][i] = e]
  PROVE  /\ connection_map_' \in [Keys -> Seq(SlotState)]
         /\ \A h \in Keys : Len(connection_map_'[h]) = Len(connection_map_[h])
         /\ \A h \in Keys : \A j \in 1..Len(connection_map_[h]) :
              connection_map_'[h][j]
                = IF h = k /\ j = i THEN e ELSE connection_map_[h][j]
<1>1. \A h \in Keys : connection_map_[h] \in Seq(SlotState)
  BY DEF TypeOK
<1> DEFINE r == [connection_map_[k] EXCEPT ![i] = e]
<1>2. /\ r \in Seq(SlotState)
      /\ Len(r) = Len(connection_map_[k])
      /\ \A j \in 1..Len(connection_map_[k]) :
           r[j] = IF j = i THEN e ELSE connection_map_[k][j]
  BY <1>1, SlotUpdate
<1>3. connection_map_' = [connection_map_ EXCEPT ![k] = r]
  OBVIOUS
<1> HIDE DEF r
<1>4. \A h \in Keys : connection_map_'[h] = IF h = k THEN r ELSE connection_map_[h]
  BY <1>3 DEF TypeOK
<1>5. connection_map_' \in [Keys -> Seq(SlotState)]
  BY <1>1, <1>2, <1>3 DEF TypeOK
<1>. QED
  BY <1>1, <1>2, <1>4, <1>5

(* A new slot at the end of a range leaves the others as they were.          *)
LEMMA MapAppend ==
  ASSUME TypeOK, NEW k \in Keys, NEW e \in SlotState,
         connection_map_' = [connection_map_ EXCEPT ![k] = Append(@, e)]
  PROVE  /\ Len(connection_map_'[k]) = Len(connection_map_[k]) + 1
         /\ connection_map_'[k][Len(connection_map_[k]) + 1] = e
         /\ \A h \in Keys : h # k => connection_map_'[h] = connection_map_[h]
         /\ \A h \in Keys : /\ Len(connection_map_[h]) \in Nat
                            /\ \A j \in 1..Len(connection_map_[h]) :
                                 connection_map_'[h][j] = connection_map_[h][j]
<1>1. \A h \in Keys : connection_map_[h] \in Seq(SlotState) /\ Len(connection_map_[h]) \in Nat
  BY LenProperties DEF TypeOK
<1>2. \A h \in Keys :
        connection_map_'[h] = IF h = k THEN Append(connection_map_[k], e) ELSE connection_map_[h]
  BY DEF TypeOK
<1> DEFINE r == Append(connection_map_[k], e)
<1>3. /\ Len(r) = Len(connection_map_[k]) + 1
      /\ \A j \in 1..Len(connection_map_[k]) : r[j] = connection_map_[k][j]
      /\ r[Len(connection_map_[k]) + 1] = e
  BY <1>1, AppendWaiter
<1> HIDE DEF r
<1>4. \A h \in Keys : connection_map_'[h] = IF h = k THEN r ELSE connection_map_[h]
  BY <1>2 DEF r
<1>. QED
  BY <1>1, <1>3, <1>4

-----------------------------------------------------------------------------
(* Type correctness.                                                         *)
LEMMA TypeInit == Init => TypeOK
<1> SUFFICES ASSUME Init PROVE TypeOK
  OBVIOUS
<1>1. Len(<<>>) = 0 /\ 0 \in 0..MaxConnectionsPerHost
  BY EmptySeq, CacheAssumption
<1>. QED
  BY <1>1, EmptySeq, CacheAssumption DEF Init, TypeOK, CallState, SlotState

(* One pass of acquire_connection's loop.                                    *)
LEMMA TypeTryAcquire ==
  ASSUME TypeOK, NEW c \in Calls, NEW k \in Keys, TryAcquire(c, k)
  PROVE  /\ connection_map_' \in [Keys -> Seq(SlotState)]
         /\ \A h \in Keys : Len(connection_map_[h])' <= MaxConnectionsPerHost
         /\ host_waiters' \in [Keys -> Seq(Calls)]
         /\ pc' \in [Calls -> CallState]
         /\ slot' \in [Calls -> 0..MaxConnectionsPerHost]
<1>1. \A h \in Keys : Len(connection_map_[h]) \in Nat
  BY LenProperties DEF TypeOK
<1>2. CASE TakeAvailable(c, k)
  <2>1. PICK i \in Available(k) :
          /\ connection_map_' = [connection_map_ EXCEPT ![k][i] = "null"]
          /\ slot' = [slot EXCEPT ![c] = i]
          /\ pc' = [pc EXCEPT ![c] = "rest_call"]
          /\ UNCHANGED host_waiters
    BY <1>2 DEF TakeAvailable
  <2>2. i \in 1..Len(connection_map_[k]) /\ i \in 0..MaxConnectionsPerHost
    BY <1>1, CacheAssumption DEF Available, Slots, TypeOK
  <2>3. /\ connection_map_' \in [Keys -> Seq(SlotState)]
        /\ \A h \in Keys : Len(connection_map_[h])' <= MaxConnectionsPerHost
    BY <2>1, MapUpdate DEF TypeOK, SlotState
  <2>4. slot' \in [Calls -> 0..MaxConnectionsPerHost]
    BY <2>1, <2>2 DEF TypeOK
  <2>5. pc' \in [Calls -> CallState]
    BY <2>1 DEF TypeOK, CallState
  <2>. QED
    BY <2>1, <2>3, <2>4, <2>5 DEF TypeOK
<1>3. CASE CreateConnection(c, k)
  <2>1. /\ connection_map_' \in [Keys -> Seq(SlotState)]
        /\ \A h \in Keys : Len(connection_map_[h])' <= MaxConnectionsPerHost
    BY <1>1, <1>3, AppendWaiter, CacheAssumption DEF CreateConnection, TypeOK, SlotState
  <2>2. slot' \in [Calls -> 0..MaxConnectionsPerHost]
    BY <1>1, <1>3, CacheAssumption DEF CreateConnection, TypeOK
  <2>. QED
    BY <1>3, <2>1, <2>2 DEF CreateConnection, TypeOK, CallState
<1>4. CASE WaitForConnection(c, k)
  BY <1>4, AppendWaiter DEF WaitForConnection, TypeOK, CallState
<1>. QED
  BY <1>2, <1>3, <1>4 DEF TryAcquire

LEMMA TypeComplete ==
  ASSUME TypeOK, NEW c \in Calls, Complete(c)
  PROVE  TypeOK'
<1>1. \A k \in Keys : AfterPosting(host_waiters[k], HostNotified(k)) \in Seq(Calls)
  BY CancelOneEffect DEF TypeOK, HostNotified
<1>2. AfterPosting(request_waiters, RequestNotified) \in Seq(Calls)
  <2>1. CASE request_count_ - 1 < MaxConcurrentRequests
    BY <2>1, CancelOneEffect DEF TypeOK, RequestNotified
  <2>2. CASE ~(request_count_ - 1 < MaxConcurrentRequests)
    BY <2>2 DEF TypeOK, RequestNotified, AfterPosting
  <2>. QED
    BY <2>1, <2>2
<1>3. host_waiters' \in [Keys -> Seq(Calls)] /\ request_waiters' \in Seq(Calls)
  BY <1>1, <1>2 DEF Complete, TypeOK
<1>4. /\ connection_map_' \in [Keys -> Seq(SlotState)]
      /\ \A h \in Keys : Len(connection_map_[h])' <= MaxConnectionsPerHost
  BY MapUpdate DEF Complete, TypeOK, SlotState
<1>5. pc' \in [Calls -> CallState]
  BY DEF Complete, TypeOK, CallState
<1>. QED
  BY <1>3, <1>4, <1>5 DEF Complete, TypeOK

LEMMA TypeStep == TypeOK /\ [Next]_vars => TypeOK'
<1> SUFFICES ASSUME TypeOK, [Next]_vars PROVE TypeOK'
  OBVIOUS
<1>1. ASSUME NEW c \in Calls, EnterWhenAdmitted(c), UNCHANGED key
      PROVE  TypeOK'
  <2>1. CASE WaitForRequest(c)
    BY <1>1, <2>1, AppendWaiter DEF WaitForRequest, poolVars, TypeOK, CallState
  <2>2. CASE Admit(c)
    <3>1. key[c] \in Keys
      BY DEF TypeOK
    <3>. QED
      BY <1>1, <2>2, <3>1, TypeTryAcquire DEF Admit, AcquireConnection, TypeOK
  <2>. QED
    BY <1>1, <2>1, <2>2 DEF EnterWhenAdmitted
<1>2. ASSUME NEW c \in Calls, Call(c) PROVE TypeOK'
  BY <1>1, <1>2 DEF Call
<1>3. ASSUME NEW c \in Calls, RejectUrl(c) PROVE TypeOK'
  BY <1>3 DEF RejectUrl, poolVars, requestVars, TypeOK, CallState
<1>4. ASSUME NEW c \in Calls, ResumeRequest(c) PROVE TypeOK'
  BY <1>1, <1>4 DEF ResumeRequest
<1>5. ASSUME NEW c \in Calls, ResumeAcquire(c) PROVE TypeOK'
  <2>1. key[c] \in Keys
    BY DEF TypeOK
  <2>. QED
    BY <1>5, <2>1, TypeTryAcquire DEF ResumeAcquire, requestVars, TypeOK
<1>6. ASSUME NEW c \in Calls, Complete(c) PROVE TypeOK'
  BY <1>6, TypeComplete
<1>7. ASSUME NEW c \in Calls, Unwind(c) PROVE TypeOK'
  BY <1>7 DEF Unwind, poolVars, requestVars, TypeOK, CallState
<1>8. CASE UNCHANGED vars
  BY <1>8 DEF vars, poolVars, requestVars, TypeOK
<1>. QED
  BY <1>2, <1>3, <1>4, <1>5, <1>6, <1>7, <1>8 DEF Next

(* The state of the pool keeps its types, and a host its limit.             *)
THEOREM TypeCorrect == Spec => []TypeOK
  BY TypeInit, TypeStep, PTL DEF Spec

-----------------------------------------------------------------------------
(* How the sets of calls by state change when a call moves that was not yet  *)
(* called or whose handler was posted.                                      *)
Runnable == {"idle", "request_ready", "host_ready"}

(* It gets a connection and calls rest_call.                                *)
LEMMA MoveToUse ==
  ASSUME TypeOK, NEW c \in Calls, pc[c] \in Runnable,
         pc' = [pc EXCEPT ![c] = "rest_call"], UNCHANGED key
  PROVE  /\ CallsAt("request_wait")' = CallsAt("request_wait")
         /\ CallsAt("request_ready")' = CallsAt("request_ready") \ {c}
         /\ \A k \in Keys :
              /\ HostCallsAt("host_wait", k)' = HostCallsAt("host_wait", k)
              /\ HostCallsAt("host_ready", k)' = HostCallsAt("host_ready", k) \ {c}
              /\ Using(k)' = IF k = key[c] THEN Using(k) \cup {c} ELSE Using(k)
              /\ Lost(k)' = Lost(k)
         /\ Admitted' = Admitted \cup {c}
         /\ Holders' = Holders \cup {c}
<1>1. /\ \A d \in Calls : pc'[d] = IF d = c THEN "rest_call" ELSE pc[d]
      /\ pc[c] \in {"idle", "request_ready", "host_ready"}
  BY DEF TypeOK, Runnable
<1>2. /\ CallsAt("request_wait")' = CallsAt("request_wait")
      /\ CallsAt("request_ready")' = CallsAt("request_ready") \ {c}
  BY <1>1 DEF CallsAt
<1>3. \A k \in Keys :
        /\ HostCallsAt("host_wait", k)' = HostCallsAt("host_wait", k)
        /\ HostCallsAt("host_ready", k)' = HostCallsAt("host_ready", k) \ {c}
        /\ Using(k)' = IF k = key[c] THEN Using(k) \cup {c} ELSE Using(k)
        /\ Lost(k)' = Lost(k)
  BY <1>1 DEF CallsAt, HostCallsAt, Using, Lost
<1>4. Admitted' = Admitted \cup {c}
  BY <1>1 DEF Admitted
<1>5. Holders' = Holders \cup {c}
  BY <1>1 DEF Holders
<1>. QED
  BY <1>2, <1>3, <1>4, <1>5

(* It waits for a connection to its host.                                   *)
LEMMA MoveToHostWait ==
  ASSUME TypeOK, NEW c \in Calls, pc[c] \in Runnable,
         pc' = [pc EXCEPT ![c] = "host_wait"], UNCHANGED key
  PROVE  /\ CallsAt("request_wait")' = CallsAt("request_wait")
         /\ CallsAt("request_ready")' = CallsAt("request_ready") \ {c}
         /\ \A k \in Keys :
              /\ HostCallsAt("host_wait", k)' = IF k = key[c] THEN HostCallsAt("host_wait", k) \cup {c} ELSE HostCallsAt("host_wait", k)
              /\ HostCallsAt("host_ready", k)' = HostCallsAt("host_ready", k) \ {c}
              /\ Using(k)' = Using(k)
              /\ Lost(k)' = Lost(k)
         /\ Admitted' = Admitted \cup {c}
         /\ Holders' = Holders
<1>1. /\ \A d \in Calls : pc'[d] = IF d = c THEN "host_wait" ELSE pc[d]
      /\ pc[c] \in {"idle", "request_ready", "host_ready"}
  BY DEF TypeOK, Runnable
<1>2. /\ CallsAt("request_wait")' = CallsAt("request_wait")
      /\ CallsAt("request_ready")' = CallsAt("request_ready") \ {c}
  BY <1>1 DEF CallsAt
<1>3. \A k \in Keys :
        /\ HostCallsAt("host_wait", k)' = IF k = key[c] THEN HostCallsAt("host_wait", k) \cup {c} ELSE HostCallsAt("host_wait", k)
        /\ HostCallsAt("host_ready", k)' = HostCallsAt("host_ready", k) \ {c}
        /\ Using(k)' = Using(k)
        /\ Lost(k)' = Lost(k)
  BY <1>1 DEF CallsAt, HostCallsAt, Using, Lost
<1>4. Admitted' = Admitted \cup {c}
  BY <1>1 DEF Admitted
<1>5. Holders' = Holders
  BY <1>1 DEF Holders
<1>. QED
  BY <1>2, <1>3, <1>4, <1>5

(* It waits for a request slot.                                             *)
LEMMA MoveToRequestWait ==
  ASSUME TypeOK, NEW c \in Calls, pc[c] \in Runnable,
         pc' = [pc EXCEPT ![c] = "request_wait"], UNCHANGED key
  PROVE  /\ CallsAt("request_wait")' = CallsAt("request_wait") \cup {c}
         /\ CallsAt("request_ready")' = CallsAt("request_ready") \ {c}
         /\ \A k \in Keys :
              /\ HostCallsAt("host_wait", k)' = HostCallsAt("host_wait", k)
              /\ HostCallsAt("host_ready", k)' = HostCallsAt("host_ready", k) \ {c}
              /\ Using(k)' = Using(k)
              /\ Lost(k)' = Lost(k)
         /\ Admitted' = Admitted \ {c}
         /\ Holders' = Holders
<1>1. /\ \A d \in Calls : pc'[d] = IF d = c THEN "request_wait" ELSE pc[d]
      /\ pc[c] \in {"idle", "request_ready", "host_ready"}
  BY DEF TypeOK, Runnable
<1>2. /\ CallsAt("request_wait")' = CallsAt("request_wait") \cup {c}
      /\ CallsAt("request_ready")' = CallsAt("request_ready") \ {c}
  BY <1>1 DEF CallsAt
<1>3. \A k \in Keys :
        /\ HostCallsAt("host_wait", k)' = HostCallsAt("host_wait", k)
        /\ HostCallsAt("host_ready", k)' = HostCallsAt("host_ready", k) \ {c}
        /\ Using(k)' = Using(k)
        /\ Lost(k)' = Lost(k)
  BY <1>1 DEF CallsAt, HostCallsAt, Using, Lost
<1>4. Admitted' = Admitted \ {c}
  BY <1>1 DEF Admitted
<1>5. Holders' = Holders
  BY <1>1 DEF Holders
<1>. QED
  BY <1>2, <1>3, <1>4, <1>5

(* Sets of calls are finite.                                                *)
LEMMA FiniteCalls ==
  ASSUME NEW S \in SUBSET Calls
  PROVE  /\ IsFiniteSet(S)
         /\ Cardinality(S) \in Nat
         /\ \A c \in S : Cardinality(S \ {c}) = Cardinality(S) - 1
         /\ \A c \in Calls \ S : Cardinality(S \cup {c}) = Cardinality(S) + 1
<1>1. IsFiniteSet(S)
  BY CacheAssumption, FS_Subset
<1>. QED
  BY <1>1, FS_CardinalityType, FS_AddElement, FS_RemoveElement

(* The queue lists of a timer: a call that starts to wait is added to the    *)
(* set, one whose handler is posted leaves it.                              *)
LEMMA ListsAppend ==
  ASSUME NEW S, NEW q \in Seq(S), NEW e \in S, NEW T, Lists(q, T), e \notin T
  PROVE  Lists(Append(q, e), T \cup {e})
<1> DEFINE r == Append(q, e)
<1>1. /\ Len(q) \in Nat
      /\ Len(r) = Len(q) + 1
      /\ \A i \in 1..Len(q) : r[i] = q[i]
      /\ r[Len(q) + 1] = e
  BY AppendWaiter
<1> HIDE DEF r
<1>2. {r[i] : i \in 1..Len(r)} = T \cup {e}
  BY <1>1 DEF Lists
<1>3. \A i, j \in 1..Len(r) : r[i] = r[j] => i = j
  BY <1>1 DEF Lists
<1>. QED
  BY <1>2, <1>3 DEF Lists, r

LEMMA ListsCancelOne ==
  ASSUME NEW S, NEW q \in Seq(S), NEW T, Lists(q, T)
  PROVE  /\ Lists(AfterPosting(q, Posted(q)), T \ Posted(q))
         /\ Posted(q) \subseteq T
<1> DEFINE r == AfterPosting(q, Posted(q))
<1>1. CASE q = <<>>
  <2>1. Posted(q) = {} /\ r = q
    BY <1>1, CancelOneEffect
  <2>. QED
    BY <2>1
<1>2. CASE q # <<>>
  <2>1. /\ Len(q) \in Nat
        /\ 1 \in 1..Len(q)
        /\ Posted(q) = {q[1]}
        /\ Len(r) = Len(q) - 1
        /\ \A i \in 1..Len(r) : i + 1 \in 1..Len(q) /\ r[i] = q[i + 1]
    BY <1>2, CancelOneEffect, LenProperties
  <2> HIDE DEF r
  <2>2. Posted(q) \subseteq T
    BY <2>1 DEF Lists
  <2>3. {r[i] : i \in 1..Len(r)} = T \ Posted(q)
    <3>1. ASSUME NEW i \in 1..Len(r) PROVE r[i] \in T \ Posted(q)
      BY <2>1 DEF Lists
    <3>2. ASSUME NEW t \in T \ Posted(q) PROVE \E i \in 1..Len(r) : r[i] = t
      <4>1. PICK j \in 1..Len(q) : q[j] = t
        BY DEF Lists
      <4>2. j # 1
        BY <2>1, <4>1
      <4>3. j - 1 \in 1..Len(r) /\ r[j - 1] = t
        BY <2>1, <4>1, <4>2
      <4>. QED
        BY <4>3
    <3>. QED
      BY <3>1, <3>2
  <2>4. \A i, j \in 1..Len(r) : r[i] = r[j] => i = j
    BY <2>1 DEF Lists
  <2>. QED
    BY <2>2, <2>3, <2>4 DEF Lists, r
<1>. QED
  BY <1>1, <1>2

(* What Complete does to the queues and the sets of calls: the calling one  *)
(* leaves, and the waiters it notifies move from waiting to ready.          *)
LEMMA CompleteMoves ==
  ASSUME TypeOK, QueuesMatchSuspensions, NEW c \in Calls, Complete(c),
         NEW host, host = HostNotified(key[c]), NEW next, next = RequestNotified
  PROVE  /\ host \subseteq HostCallsAt("host_wait", key[c])
         /\ next \subseteq CallsAt("request_wait")
         /\ CallsAt("request_wait")' = CallsAt("request_wait") \ next
         /\ CallsAt("request_ready")' = CallsAt("request_ready") \cup next
         /\ \A k : HostCallsAt("host_wait", k)' = HostCallsAt("host_wait", k) \ host
         /\ \A k : HostCallsAt("host_ready", k)'
                     = IF k = key[c] THEN HostCallsAt("host_ready", k) \cup host
                                     ELSE HostCallsAt("host_ready", k)
         /\ \A k : Using(k)' = Using(k) \ {c}
         /\ \A k : Lost(k)' = Lost(k)
         /\ Admitted' = Admitted \ {c}
         /\ Holders' = Holders \ {c}
<1>1. host \subseteq HostCallsAt("host_wait", key[c])
  BY ListsCancelOne DEF QueuesMatchSuspensions, TypeOK, HostNotified
<1>2. next \subseteq CallsAt("request_wait")
  BY ListsCancelOne DEF QueuesMatchSuspensions, TypeOK, RequestNotified
<1>3. PICK outcome \in {"returned", "failed"} :
        \A d \in Calls :
          pc'[d] = CASE d = c       -> outcome
                     [] d \in host -> "host_ready"
                     [] d \in next -> "request_ready"
                     [] OTHER       -> pc[d]
  BY DEF Complete
<1>4. pc[c] = "rest_call" /\ UNCHANGED key
  BY DEF Complete
<1>5. /\ \A d \in host : d \in Calls /\ pc[d] = "host_wait" /\ key[d] = key[c]
      /\ \A d \in next : d \in Calls /\ pc[d] = "request_wait"
  BY <1>1, <1>2 DEF CallsAt, HostCallsAt
<1>6. \A d \in Calls :
        /\ d = c => pc'[d] \in {"returned", "failed"}
        /\ d \in host => pc'[d] = "host_ready"
        /\ d \in next => pc'[d] = "request_ready"
        /\ d # c /\ d \notin host /\ d \notin next => pc'[d] = pc[d]
  BY <1>3, <1>4, <1>5
<1>7. /\ CallsAt("request_wait")' = CallsAt("request_wait") \ next
      /\ CallsAt("request_ready")' = CallsAt("request_ready") \cup next
  BY <1>4, <1>5, <1>6 DEF CallsAt
<1>8. \A k : /\ HostCallsAt("host_wait", k)' = HostCallsAt("host_wait", k) \ host
             /\ HostCallsAt("host_ready", k)'
                     = IF k = key[c] THEN HostCallsAt("host_ready", k) \cup host
                                     ELSE HostCallsAt("host_ready", k)
  BY <1>4, <1>5, <1>6 DEF CallsAt, HostCallsAt
<1>9. \A k : Using(k)' = Using(k) \ {c} /\ Lost(k)' = Lost(k)
  BY <1>4, <1>5, <1>6 DEF CallsAt, HostCallsAt, Using, Lost
<1>10. Admitted' = Admitted \ {c} /\ Holders' = Holders \ {c}
  BY <1>4, <1>5, <1>6 DEF Admitted, Holders
<1>. QED
  BY <1>1, <1>2, <1>7, <1>8, <1>9, <1>10

-----------------------------------------------------------------------------
(* The queues list the suspended calls.                                     *)
LEMMA QueuesInit == Init => QueuesMatchSuspensions
  BY EmptySeq DEF Init, QueuesMatchSuspensions, Lists, CallsAt, HostCallsAt

LEMMA QueuesTryAcquire ==
  ASSUME TypeOK, QueuesMatchSuspensions, NEW c \in Calls, pc[c] \in Runnable,
         TryAcquire(c, key[c]), UNCHANGED <<request_waiters, key>>
  PROVE  QueuesMatchSuspensions'
<1>1. \A k \in Keys : c \notin HostCallsAt("host_wait", k)
  BY DEF CallsAt, HostCallsAt, Runnable
<1>2. CASE pc' = [pc EXCEPT ![c] = "rest_call"] /\ UNCHANGED host_waiters
  <2>1. /\ CallsAt("request_wait")' = CallsAt("request_wait")
        /\ \A k \in Keys : HostCallsAt("host_wait", k)' = HostCallsAt("host_wait", k)
    BY <1>2, MoveToUse
  <2>. QED
    BY <1>2, <2>1 DEF QueuesMatchSuspensions, Lists
<1>3. CASE WaitForConnection(c, key[c])
  <2>1. /\ CallsAt("request_wait")' = CallsAt("request_wait")
        /\ \A k \in Keys : HostCallsAt("host_wait", k)'
                    = IF k = key[c] THEN HostCallsAt("host_wait", k) \cup {c}
                                    ELSE HostCallsAt("host_wait", k)
    BY <1>3, MoveToHostWait DEF WaitForConnection
  <2>2. \A k \in Keys :
          host_waiters'[k] = IF k = key[c] THEN Append(host_waiters[k], c)
                                           ELSE host_waiters[k]
    BY <1>3 DEF WaitForConnection, TypeOK
  <2>3. ASSUME NEW k \in Keys PROVE Lists(host_waiters'[k], HostCallsAt("host_wait", k)')
    <3>1. host_waiters[k] \in Seq(Calls) /\ Lists(host_waiters[k], HostCallsAt("host_wait", k))
      BY DEF QueuesMatchSuspensions, TypeOK
    <3>. QED
      BY <1>1, <2>1, <2>2, <3>1, ListsAppend
  <2>. QED
    BY <2>1, <2>3 DEF QueuesMatchSuspensions, Lists
<1>. QED
  BY <1>2, <1>3 DEF TryAcquire, TakeAvailable, CreateConnection

LEMMA QueuesEnter ==
  ASSUME TypeOK, QueuesMatchSuspensions, NEW c \in Calls, pc[c] \in Runnable,
         EnterWhenAdmitted(c), UNCHANGED key
  PROVE  QueuesMatchSuspensions'
<1>1. CASE WaitForRequest(c)
  <2>1. c \notin CallsAt("request_wait")
    BY DEF CallsAt, Runnable
  <2>2. /\ CallsAt("request_wait")' = CallsAt("request_wait") \cup {c}
        /\ \A k \in Keys : HostCallsAt("host_wait", k)' = HostCallsAt("host_wait", k)
    BY <1>1, MoveToRequestWait DEF WaitForRequest
  <2>3. Lists(Append(request_waiters, c), CallsAt("request_wait") \cup {c})
    BY <2>1, ListsAppend DEF QueuesMatchSuspensions, TypeOK
  <2>. QED
    BY <1>1, <2>2, <2>3 DEF WaitForRequest, poolVars, QueuesMatchSuspensions, Lists
<1>2. CASE Admit(c)
  BY <1>2, QueuesTryAcquire DEF Admit, AcquireConnection
<1>. QED
  BY <1>1, <1>2 DEF EnterWhenAdmitted

LEMMA QueuesComplete ==
  ASSUME TypeOK, QueuesMatchSuspensions, NEW c \in Calls, Complete(c)
  PROVE  QueuesMatchSuspensions'
<1>1. Lists(request_waiters', CallsAt("request_wait")')
  <2>1. CallsAt("request_wait")' = CallsAt("request_wait") \ RequestNotified
    BY CompleteMoves
  <2>2. /\ request_waiters \in Seq(Calls)
        /\ Lists(request_waiters, CallsAt("request_wait"))
        /\ request_waiters' = AfterPosting(request_waiters, RequestNotified)
    BY DEF TypeOK, QueuesMatchSuspensions, Complete
  <2>3. CASE RequestNotified = Posted(request_waiters)
    BY <2>1, <2>2, <2>3, ListsCancelOne
  <2>4. CASE RequestNotified = {}
    BY <2>1, <2>2, <2>4 DEF AfterPosting
  <2>. QED
    BY <2>3, <2>4 DEF RequestNotified
<1>2. ASSUME NEW k \in Keys PROVE Lists(host_waiters'[k], HostCallsAt("host_wait", k)')
  <2>1. /\ host_waiters[k] \in Seq(Calls)
        /\ Lists(host_waiters[k], HostCallsAt("host_wait", k))
    BY DEF TypeOK, QueuesMatchSuspensions
  <2>2. CASE k = key[c]
    <3>1. HostCallsAt("host_wait", k)' = HostCallsAt("host_wait", k) \ Posted(host_waiters[k])
      BY <2>2, CompleteMoves DEF HostNotified
    <3>2. host_waiters'[k] = AfterPosting(host_waiters[k], Posted(host_waiters[k]))
      BY <2>2 DEF Complete, TypeOK, HostNotified
    <3>. QED
      BY <2>1, <3>1, <3>2, ListsCancelOne
  <2>3. CASE k # key[c]
    <3>1. HostNotified(key[c]) \subseteq HostCallsAt("host_wait", key[c])
      BY CompleteMoves
    <3>2. HostCallsAt("host_wait", k)' = HostCallsAt("host_wait", k)
      BY <2>3, <3>1, CompleteMoves DEF HostCallsAt
    <3>3. host_waiters'[k] = host_waiters[k]
      BY <2>3 DEF Complete, TypeOK
    <3>. QED
      BY <2>1, <3>2, <3>3
  <2>. QED
    BY <2>2, <2>3
<1>. QED
  BY <1>1, <1>2 DEF QueuesMatchSuspensions, Lists

LEMMA QueuesStep == TypeOK /\ QueuesMatchSuspensions /\ [Next]_vars => QueuesMatchSuspensions'
<1> SUFFICES ASSUME TypeOK, QueuesMatchSuspensions, [Next]_vars
             PROVE  QueuesMatchSuspensions'
  OBVIOUS
<1>1. ASSUME NEW c \in Calls, RejectUrl(c) \/ Unwind(c) PROVE QueuesMatchSuspensions'
  <2>1. /\ CallsAt("request_wait")' = CallsAt("request_wait")
        /\ \A k \in Keys : HostCallsAt("host_wait", k)' = HostCallsAt("host_wait", k)
        /\ UNCHANGED <<request_waiters, host_waiters>>
    BY <1>1 DEF RejectUrl, Unwind, TypeOK, CallsAt, HostCallsAt, poolVars, requestVars
  <2>. QED
    BY <2>1 DEF QueuesMatchSuspensions, Lists
<1>2. ASSUME NEW c \in Calls, Call(c) \/ ResumeRequest(c) PROVE QueuesMatchSuspensions'
  BY <1>2, QueuesEnter DEF Call, ResumeRequest, Runnable
<1>3. ASSUME NEW c \in Calls, ResumeAcquire(c) PROVE QueuesMatchSuspensions'
  BY <1>3, QueuesTryAcquire DEF ResumeAcquire, requestVars, Runnable
<1>4. ASSUME NEW c \in Calls, Complete(c) PROVE QueuesMatchSuspensions'
  BY <1>4, QueuesComplete
<1>5. CASE UNCHANGED vars
  BY <1>5 DEF vars, poolVars, requestVars, QueuesMatchSuspensions, Lists, CallsAt, HostCallsAt
<1>. QED
  BY <1>1, <1>2, <1>3, <1>4, <1>5 DEF Next

(* No handler is posted twice or to a call that has moved on.               *)
THEOREM QueuesCorrect == Spec => []QueuesMatchSuspensions
  BY TypeInit, TypeStep, QueuesInit, QueuesStep, PTL DEF Spec

-----------------------------------------------------------------------------
(* No two calls share a connection.                                         *)
LEMMA SharedInit == Init => NoSharedConnection
  BY DEF Init, NoSharedConnection, Admitted, Holders

LEMMA SharedTryAcquire ==
  ASSUME TypeOK, NoSharedConnection, NEW c \in Calls, pc[c] \in Runnable,
         TryAcquire(c, key[c]), UNCHANGED key,
         max_per_host_conditions_ \subseteq max_per_host_conditions_',
         key[c] \in max_per_host_conditions_'
  PROVE  NoSharedConnection'
<1>0. "null" \in SlotState
  BY DEF SlotState
<1> DEFINE k == key[c]
<1>1. /\ k \in Keys
      /\ c \notin Holders
      /\ \A d \in Holders : d \in Calls /\ key[d] \in Keys
      /\ \A h \in Keys : Len(connection_map_[h]) \in Nat
  BY LenProperties DEF TypeOK, Holders, Runnable
<1>2. CASE TakeAvailable(c, k)
  <2>1. PICK i \in Available(k) :
          /\ connection_map_' = [connection_map_ EXCEPT ![k][i] = "null"]
          /\ slot' = [slot EXCEPT ![c] = i]
          /\ pc' = [pc EXCEPT ![c] = "rest_call"]
    BY <1>2 DEF TakeAvailable
  <2>2. /\ Admitted' = Admitted \cup {c}
        /\ Holders' = Holders \cup {c}
    BY <2>1, MoveToUse
  <2>3. /\ \A h \in Keys : Len(connection_map_'[h]) = Len(connection_map_[h])
        /\ \A h \in Keys : \A j \in 1..Len(connection_map_[h]) :
             connection_map_'[h][j]
               = IF h = k /\ j = i THEN "null" ELSE connection_map_[h][j]
    BY <1>0, <1>1, <2>1, MapUpdate DEF TypeOK
  <2>4. /\ slot'[c] = i
        /\ \A d \in Holders : slot'[d] = slot[d]
    BY <1>1, <2>1 DEF TypeOK
  <2>5. i \in 1..Len(connection_map_[k]) /\ connection_map_[k][i] = "connection"
    BY DEF Available, Slots
  <2>6. \A d \in Holders : key[d] = k => slot[d] # i
    BY <2>5 DEF NoSharedConnection
  <2>. QED
    BY <1>1, <2>2, <2>3, <2>4, <2>5, <2>6 DEF NoSharedConnection, Slots
<1>3. CASE CreateConnection(c, k)
  <2>1. /\ connection_map_' = [connection_map_ EXCEPT ![k] = Append(@, "null")]
        /\ slot' = [slot EXCEPT ![c] = Len(connection_map_[k]) + 1]
        /\ pc' = [pc EXCEPT ![c] = "rest_call"]
    BY <1>3 DEF CreateConnection
  <2>2. /\ Admitted' = Admitted \cup {c}
        /\ Holders' = Holders \cup {c}
    BY <2>1, MoveToUse
  <2>3. /\ Len(connection_map_'[k]) = Len(connection_map_[k]) + 1
        /\ connection_map_'[k][Len(connection_map_[k]) + 1] = "null"
        /\ \A h \in Keys : h # k => connection_map_'[h] = connection_map_[h]
        /\ \A h \in Keys : \A j \in 1..Len(connection_map_[h]) :
             connection_map_'[h][j] = connection_map_[h][j]
    BY <1>0, <1>1, <2>1, MapAppend
  <2>4. /\ slot'[c] = Len(connection_map_[k]) + 1
        /\ \A d \in Holders : slot'[d] = slot[d]
    BY <1>1, <2>1 DEF TypeOK
  <2>5. \A d \in Holders :
          /\ slot[d] \in 1..Len(connection_map_[key[d]])
          /\ slot[d] \in 1..Len(connection_map_'[key[d]])
          /\ connection_map_'[key[d]][slot[d]] = "null"
          /\ key[d] = k => slot[d] # Len(connection_map_[k]) + 1
    BY <1>1, <2>3 DEF NoSharedConnection, Slots
  <2>6. /\ Len(connection_map_[k]) + 1 \in 1..Len(connection_map_'[k])
    BY <1>1, <2>3
  <2>. QED
    BY <1>1, <2>2, <2>3, <2>4, <2>5, <2>6 DEF NoSharedConnection, Slots
<1>4. CASE WaitForConnection(c, k)
  <2>1. /\ Admitted' = Admitted \cup {c}
        /\ Holders' = Holders
    BY <1>4, MoveToHostWait DEF WaitForConnection
  <2>2. UNCHANGED <<connection_map_, slot, key>>
    BY <1>4 DEF WaitForConnection
  <2>. QED
    BY <2>1, <2>2 DEF NoSharedConnection, Slots
<1>. QED
  BY <1>2, <1>3, <1>4 DEF TryAcquire

LEMMA SharedComplete ==
  ASSUME TypeOK, QueuesMatchSuspensions, NoSharedConnection, NEW c \in Calls, Complete(c)
  PROVE  NoSharedConnection'
<1>0. "connection" \in SlotState
  BY DEF SlotState
<1>1. /\ Admitted' = Admitted \ {c}
      /\ Holders' = Holders \ {c}
      /\ UNCHANGED <<max_per_host_conditions_, key, slot>>
  BY CompleteMoves DEF Complete
<1>2. /\ c \in Holders
      /\ key[c] \in Keys
      /\ \A d \in Holders : key[d] \in Keys
      /\ connection_map_' = [connection_map_ EXCEPT ![key[c]][slot[c]] = "connection"]
  BY DEF Complete, Holders, TypeOK
<1>3. /\ \A h \in Keys : Len(connection_map_'[h]) = Len(connection_map_[h])
      /\ \A h \in Keys : \A j \in 1..Len(connection_map_[h]) :
           connection_map_'[h][j]
             = IF h = key[c] /\ j = slot[c] THEN "connection" ELSE connection_map_[h][j]
  BY <1>0, <1>2, MapUpdate DEF TypeOK
<1>4. \A d \in Holders \ {c} : ~(key[d] = key[c] /\ slot[d] = slot[c])
  BY <1>2 DEF NoSharedConnection
<1>. QED
  BY <1>1, <1>2, <1>3, <1>4 DEF NoSharedConnection, Slots

LEMMA SharedStep ==
  TypeOK /\ QueuesMatchSuspensions /\ NoSharedConnection /\ [Next]_vars => NoSharedConnection'
<1> SUFFICES ASSUME TypeOK, QueuesMatchSuspensions, NoSharedConnection, [Next]_vars
             PROVE  NoSharedConnection'
  OBVIOUS
<1>1. ASSUME NEW c \in Calls, RejectUrl(c) \/ Unwind(c) PROVE NoSharedConnection'
  <2>1. /\ Admitted' = Admitted
        /\ Holders' = Holders
        /\ UNCHANGED <<connection_map_, max_per_host_conditions_, key, slot>>
    BY <1>1 DEF RejectUrl, Unwind, TypeOK, Admitted, Holders, poolVars
  <2>. QED
    BY <2>1 DEF NoSharedConnection, Slots
<1>2. ASSUME NEW c \in Calls, pc[c] \in {"idle", "request_ready"}, EnterWhenAdmitted(c),
             UNCHANGED key
      PROVE  NoSharedConnection'
  <2>1. CASE WaitForRequest(c)
    <3>1. /\ Admitted' = Admitted \ {c}
          /\ Holders' = Holders
          /\ UNCHANGED <<connection_map_, max_per_host_conditions_, key, slot>>
      BY <1>2, <2>1, MoveToRequestWait DEF WaitForRequest, poolVars, Runnable
    <3>. QED
      BY <3>1 DEF NoSharedConnection, Slots
  <2>2. CASE Admit(c)
    BY <1>2, <2>2, SharedTryAcquire DEF Admit, AcquireConnection, Runnable
  <2>. QED
    BY <1>2, <2>1, <2>2 DEF EnterWhenAdmitted
<1>3. ASSUME NEW c \in Calls, Call(c) \/ ResumeRequest(c) PROVE NoSharedConnection'
  BY <1>2, <1>3 DEF Call, ResumeRequest
<1>4. ASSUME NEW c \in Calls, ResumeAcquire(c) PROVE NoSharedConnection'
  <2>1. key[c] \in max_per_host_conditions_
    BY <1>4 DEF NoSharedConnection, ResumeAcquire, Admitted
  <2>. QED
    BY <1>4, <2>1, SharedTryAcquire DEF ResumeAcquire, Runnable
<1>5. ASSUME NEW c \in Calls, Complete(c) PROVE NoSharedConnection'
  BY <1>5, SharedComplete
<1>6. CASE UNCHANGED vars
  BY <1>6 DEF vars, poolVars, requestVars, NoSharedConnection, Slots, Admitted, Holders
<1>. QED
  BY <1>1, <1>3, <1>4, <1>5, <1>6 DEF Next

(* No two calls write to one connection, and replace_connection's           *)
(* assertions hold.                                                         *)
THEOREM ConnectionsExclusive == Spec => []NoSharedConnection
  BY TypeInit, TypeStep, QueuesInit, QueuesStep, SharedInit, SharedStep, PTL DEF Spec

-----------------------------------------------------------------------------
(* Request slots: the count is the number of calls that were admitted.      *)
LEMMA AdmittedFinite ==
  /\ Admitted \subseteq Calls
  /\ Cardinality(Admitted) \in Nat
  /\ \A c \in Admitted : Cardinality(Admitted \ {c}) = Cardinality(Admitted) - 1
  /\ \A c \in Calls \ Admitted : Cardinality(Admitted \cup {c}) = Cardinality(Admitted) + 1
<1>1. Admitted \in SUBSET Calls
  BY DEF Admitted
<1>. QED
  BY <1>1, FiniteCalls

(* A pass of acquire_connection's loop leaves the call admitted.            *)
LEMMA AcquireAdmits ==
  ASSUME TypeOK, NEW c \in Calls, pc[c] \in Runnable, TryAcquire(c, key[c]), UNCHANGED key
  PROVE  Admitted' = Admitted \cup {c}
<1>1. CASE TakeAvailable(c, key[c]) \/ CreateConnection(c, key[c])
  <2>1. pc' = [pc EXCEPT ![c] = "rest_call"]
    BY <1>1 DEF TakeAvailable, CreateConnection
  <2>. QED
    BY <2>1, MoveToUse
<1>2. CASE WaitForConnection(c, key[c])
  BY <1>2, MoveToHostWait DEF WaitForConnection
<1>. QED
  BY <1>1, <1>2 DEF TryAcquire

LEMMA RequestsInit == Init => RequestsConserved
<1> SUFFICES ASSUME Init PROVE RequestsConserved
  OBVIOUS
<1>1. Admitted = {}
  BY DEF Init, Admitted
<1>. QED
  BY <1>1, FS_EmptySet, CacheAssumption DEF Init, RequestsConserved

LEMMA RequestsStep ==
  TypeOK /\ QueuesMatchSuspensions /\ RequestsConserved /\ [Next]_vars => RequestsConserved'
<1> SUFFICES ASSUME TypeOK, QueuesMatchSuspensions, RequestsConserved, [Next]_vars
             PROVE  RequestsConserved'
  OBVIOUS
<1>1. ASSUME UNCHANGED request_count_, Admitted' = Admitted PROVE RequestsConserved'
  BY <1>1 DEF RequestsConserved
<1>2. ASSUME NEW c \in Calls, RejectUrl(c) \/ Unwind(c) PROVE RequestsConserved'
  <2>1. Admitted' = Admitted
    BY <1>2 DEF RejectUrl, Unwind, TypeOK, Admitted
  <2>. QED
    BY <1>1, <1>2, <2>1 DEF RejectUrl, Unwind, requestVars
<1>3. ASSUME NEW c \in Calls, Call(c) \/ ResumeRequest(c) PROVE RequestsConserved'
  <2>1. c \notin Admitted /\ UNCHANGED key /\ pc[c] \in Runnable
    BY <1>3 DEF Call, ResumeRequest, Admitted, Runnable
  <2>2. CASE WaitForRequest(c)
    <3>1. Admitted' = Admitted \ {c}
      BY <2>1, <2>2, MoveToRequestWait DEF WaitForRequest
    <3>2. Admitted' = Admitted
      BY <2>1, <3>1
    <3>. QED
      BY <1>1, <2>2, <3>2 DEF WaitForRequest
  <2>3. CASE Admit(c)
    <3>1. Admitted' = Admitted \cup {c}
      BY <2>1, <2>3, AcquireAdmits DEF Admit, AcquireConnection
    <3>2. Cardinality(Admitted') = Cardinality(Admitted) + 1
      BY <2>1, <3>1, AdmittedFinite
    <3>. QED
      BY <2>3, <3>2, AdmittedFinite, CacheAssumption DEF Admit, RequestsConserved
  <2>. QED
    BY <1>3, <2>2, <2>3 DEF Call, ResumeRequest, EnterWhenAdmitted
<1>4. ASSUME NEW c \in Calls, ResumeAcquire(c) PROVE RequestsConserved'
  <2>1. c \in Admitted /\ UNCHANGED key /\ pc[c] \in Runnable
    BY <1>4 DEF ResumeAcquire, Admitted, Runnable
  <2>2. Admitted' = Admitted
    BY <1>4, <2>1, AcquireAdmits DEF ResumeAcquire
  <2>. QED
    BY <1>1, <1>4, <2>2 DEF ResumeAcquire, requestVars
<1>5. ASSUME NEW c \in Calls, Complete(c) PROVE RequestsConserved'
  <2>1. c \in Admitted /\ Admitted' = Admitted \ {c} /\ request_count_' = request_count_ - 1
    BY <1>5, CompleteMoves DEF Complete, Admitted
  <2>2. Cardinality(Admitted') = Cardinality(Admitted) - 1
    BY <2>1, AdmittedFinite
  <2>. QED
    BY <2>1, <2>2, AdmittedFinite, CacheAssumption DEF RequestsConserved
<1>6. CASE UNCHANGED vars
  BY <1>1, <1>6 DEF vars, requestVars, Admitted
<1>. QED
  BY <1>2, <1>3, <1>4, <1>5, <1>6 DEF Next

(* request_count_ counts the admitted calls and stays within its limit.     *)
THEOREM RequestsCorrect == Spec => []RequestsConserved
  BY TypeInit, TypeStep, QueuesInit, QueuesStep, RequestsInit, RequestsStep, PTL DEF Spec

-----------------------------------------------------------------------------
(* No wakeup of a request slot is lost.                                     *)
LEMMA RequestWakeupInit == Init => NoLostRequestWakeup
  BY DEF Init, NoLostRequestWakeup

LEMMA RequestWakeupStep ==
  TypeOK /\ QueuesMatchSuspensions /\ NoLostRequestWakeup /\ [Next]_vars => NoLostRequestWakeup'
<1> SUFFICES ASSUME TypeOK, QueuesMatchSuspensions, NoLostRequestWakeup, [Next]_vars
             PROVE  NoLostRequestWakeup'
  OBVIOUS
<1> DEFINE ready == CallsAt("request_ready")
<1>1. /\ MaxConcurrentRequests \in Nat
      /\ request_count_ \in Int
      /\ Cardinality(ready) \in Nat
      /\ \A c \in ready : Cardinality(ready \ {c}) = Cardinality(ready) - 1
      /\ \A c \in Calls \ ready : Cardinality(ready \cup {c}) = Cardinality(ready) + 1
  <2>1. ready \in SUBSET Calls
    BY DEF CallsAt
  <2>. QED
    BY <2>1, FiniteCalls, CacheAssumption DEF TypeOK
<1>2. ASSUME UNCHANGED requestVars, ready' = ready PROVE NoLostRequestWakeup'
  BY <1>2 DEF NoLostRequestWakeup, requestVars
<1>3. ASSUME NEW c \in Calls, RejectUrl(c) \/ Unwind(c) PROVE NoLostRequestWakeup'
  <2>1. ready' = ready
    BY <1>3 DEF RejectUrl, Unwind, TypeOK, CallsAt
  <2>. QED
    BY <1>2, <1>3, <2>1 DEF RejectUrl, Unwind
<1>4. ASSUME NEW c \in Calls, Call(c) \/ ResumeRequest(c) PROVE NoLostRequestWakeup'
  <2>1. UNCHANGED key /\ pc[c] \in Runnable
    BY <1>4 DEF Call, ResumeRequest, Runnable
  <2>2. CASE WaitForRequest(c)
    <3>1. Cardinality(ready') \in Nat
      <4>1. ready' = ready \ {c}
        BY <2>1, <2>2, MoveToRequestWait DEF WaitForRequest
      <4>. QED
        BY <4>1, FiniteCalls DEF CallsAt
    <3>2. request_count_' = request_count_ /\ request_count_ >= MaxConcurrentRequests
      BY <2>2 DEF WaitForRequest
    <3>. QED
      BY <1>1, <3>1, <3>2 DEF NoLostRequestWakeup
  <2>3. CASE Admit(c)
    <3>1. request_count_' = request_count_ + 1 /\ request_waiters' = request_waiters
      BY <2>3 DEF Admit
    <3>2. ready' = ready \ {c}
      <4>1. TryAcquire(c, key[c])
        BY <2>3 DEF Admit, AcquireConnection
      <4>2. CASE TakeAvailable(c, key[c]) \/ CreateConnection(c, key[c])
        <5>1. pc' = [pc EXCEPT ![c] = "rest_call"]
          BY <4>2 DEF TakeAvailable, CreateConnection
        <5>. QED
          BY <2>1, <5>1, MoveToUse
      <4>3. CASE WaitForConnection(c, key[c])
        BY <2>1, <4>3, MoveToHostWait DEF WaitForConnection
      <4>. QED
        BY <4>1, <4>2, <4>3 DEF TryAcquire
    <3>3. Cardinality(ready') \in Nat /\ Cardinality(ready') >= Cardinality(ready) - 1
      <4>1. CASE c \in ready
        BY <1>1, <3>2, <4>1, FiniteCalls DEF CallsAt
      <4>2. CASE c \notin ready
        <5>1. ready' = ready
          BY <3>2, <4>2
        <5>. QED
          BY <1>1, <5>1
      <4>. QED
        BY <4>1, <4>2
    <3>. QED
      BY <1>1, <3>1, <3>3 DEF NoLostRequestWakeup
  <2>. QED
    BY <1>4, <2>2, <2>3 DEF Call, ResumeRequest, EnterWhenAdmitted
<1>5. ASSUME NEW c \in Calls, ResumeAcquire(c) PROVE NoLostRequestWakeup'
  <2>1. ready' = ready
    <3>1. /\ c \notin ready
          /\ pc' = [pc EXCEPT ![c] = "rest_call"] \/ pc' = [pc EXCEPT ![c] = "host_wait"]
      BY <1>5 DEF ResumeAcquire, TryAcquire, TakeAvailable, CreateConnection,
                  WaitForConnection, CallsAt
    <3>. QED
      BY <3>1 DEF CallsAt, TypeOK
  <2>. QED
    BY <1>2, <1>5, <2>1 DEF ResumeAcquire
<1>6. ASSUME NEW c \in Calls, Complete(c) PROVE NoLostRequestWakeup'
  <2>1. /\ request_count_' = request_count_ - 1
        /\ request_waiters' = AfterPosting(request_waiters, RequestNotified)
        /\ ready' = ready \cup RequestNotified
        /\ RequestNotified \subseteq CallsAt("request_wait")
    BY <1>6, CompleteMoves DEF Complete
  <2>2. CASE request_count_ - 1 < MaxConcurrentRequests
    <3>1. CASE request_waiters = <<>>
      BY <2>1, <2>2, <3>1 DEF AfterPosting, Posted, RequestNotified, NoLostRequestWakeup
    <3>2. CASE request_waiters # <<>>
      <4>1. RequestNotified = {Head(request_waiters)}
        BY <2>2, <3>2 DEF RequestNotified, Posted
      <4>2. Head(request_waiters) \in Calls \ ready
        BY <2>1, <4>1 DEF CallsAt
      <4>3. Cardinality(ready') = Cardinality(ready) + 1
        BY <1>1, <2>1, <4>1, <4>2
      <4>. QED
        BY <1>1, <2>1, <3>2, <4>3 DEF NoLostRequestWakeup
    <3>. QED
      BY <3>1, <3>2
  <2>3. CASE ~(request_count_ - 1 < MaxConcurrentRequests)
    <3>1. ready' = ready
      BY <2>1, <2>3 DEF RequestNotified
    <3>. QED
      BY <1>1, <2>1, <2>3, <3>1 DEF NoLostRequestWakeup
  <2>. QED
    BY <2>2, <2>3
<1>7. CASE UNCHANGED vars
  BY <1>2, <1>7 DEF vars, CallsAt
<1>. QED
  BY <1>3, <1>4, <1>5, <1>6, <1>7 DEF Next

(* No call sleeps beside a free request slot unless a waiter is on its way. *)
THEOREM RequestWakeups == Spec => []NoLostRequestWakeup
  BY TypeInit, TypeStep, QueuesInit, QueuesStep, RequestWakeupInit, RequestWakeupStep,
     PTL DEF Spec

-----------------------------------------------------------------------------
(* What each step does to the connections in the pool.                      *)
LEMMA AvailableFinite ==
  ASSUME TypeOK, NEW k \in Keys
  PROVE  /\ IsFiniteSet(Available(k))
         /\ Cardinality(Available(k)) \in Nat
         /\ \A i \in Available(k) :
              Cardinality(Available(k) \ {i}) = Cardinality(Available(k)) - 1
         /\ \A i : i \notin Available(k) =>
              Cardinality(Available(k) \cup {i}) = Cardinality(Available(k)) + 1
<1>1. Len(connection_map_[k]) \in Nat
  BY LenProperties DEF TypeOK
<1>2. IsFiniteSet(1..Len(connection_map_[k]))
  BY <1>1, FS_Interval
<1>3. IsFiniteSet(Available(k))
  BY <1>2, FS_Subset DEF Available, Slots
<1>. QED
  BY <1>3, FS_CardinalityType, FS_AddElement, FS_RemoveElement

LEMMA TakeEffect ==
  ASSUME TypeOK, NEW c, NEW k \in Keys, TakeAvailable(c, k)
  PROVE  \E i \in Available(k) :
           /\ \A h \in Keys : Available(h)' = IF h = k THEN Available(h) \ {i}
                                                    ELSE Available(h)
           /\ \A h \in Keys : Len(connection_map_'[h]) = Len(connection_map_[h])
<1>1. PICK i \in Available(k) : connection_map_' = [connection_map_ EXCEPT ![k][i] = "null"]
  BY DEF TakeAvailable
<1>2. "null" \in SlotState
  BY DEF SlotState
<1>3. /\ \A h \in Keys : Len(connection_map_'[h]) = Len(connection_map_[h])
      /\ \A h \in Keys : \A j \in 1..Len(connection_map_[h]) :
           connection_map_'[h][j]
             = IF h = k /\ j = i THEN "null" ELSE connection_map_[h][j]
  BY <1>1, <1>2, MapUpdate DEF TypeOK
<1>4. Available(k)' = Available(k) \ {i}
  BY <1>3 DEF Available, Slots
<1>5. ASSUME NEW h \in Keys, h # k PROVE Available(h)' = Available(h)
  BY <1>3, <1>5 DEF Available, Slots
<1>. QED
  BY <1>3, <1>4, <1>5

LEMMA CreateEffect ==
  ASSUME TypeOK, NEW c, NEW k \in Keys, CreateConnection(c, k)
  PROVE  /\ Available(k) = {}
         /\ \A h \in Keys : Available(h)' = Available(h)
         /\ Len(connection_map_'[k]) = Len(connection_map_[k]) + 1
         /\ \A h \in Keys : h # k => connection_map_'[h] = connection_map_[h]
<1>1. "null" \in SlotState /\ connection_map_' = [connection_map_ EXCEPT ![k] = Append(@, "null")]
  BY DEF SlotState, CreateConnection
<1>2. /\ Len(connection_map_'[k]) = Len(connection_map_[k]) + 1
      /\ connection_map_'[k][Len(connection_map_[k]) + 1] = "null"
      /\ \A h \in Keys : h # k => connection_map_'[h] = connection_map_[h]
      /\ \A h \in Keys : /\ Len(connection_map_[h]) \in Nat
                         /\ \A j \in 1..Len(connection_map_[h]) :
                              connection_map_'[h][j] = connection_map_[h][j]
  BY <1>1, MapAppend DEF TypeOK
<1>3. ASSUME NEW h \in Keys PROVE Available(h)' = Available(h)
  BY <1>2 DEF Available, Slots
<1>. QED
  BY <1>2, <1>3 DEF CreateConnection

LEMMA CompleteEffect ==
  ASSUME TypeOK, NoSharedConnection, NEW c \in Calls, Complete(c)
  PROVE  /\ key[c] \in Keys
         /\ slot[c] \notin Available(key[c])
         /\ \A h \in Keys : Available(h)' = IF h = key[c] THEN Available(h) \cup {slot[c]}
                                                         ELSE Available(h)
         /\ \A h \in Keys : Len(connection_map_'[h]) = Len(connection_map_[h])
<1>1. /\ connection_map_' = [connection_map_ EXCEPT ![key[c]][slot[c]] = "connection"]
      /\ UNCHANGED key
      /\ key[c] \in Keys
      /\ c \in Holders
  BY DEF Complete, TypeOK, Holders
<1>2. "connection" \in SlotState
  BY DEF SlotState
<1>3. /\ \A h \in Keys : Len(connection_map_'[h]) = Len(connection_map_[h])
      /\ \A h \in Keys : \A j \in 1..Len(connection_map_[h]) :
           connection_map_'[h][j]
             = IF h = key[c] /\ j = slot[c] THEN "connection" ELSE connection_map_[h][j]
  BY <1>1, <1>2, MapUpdate DEF TypeOK
<1>4. slot[c] \in Slots(key[c]) /\ connection_map_[key[c]][slot[c]] = "null"
  BY <1>1 DEF NoSharedConnection
<1>5. ASSUME NEW h \in Keys, h = key[c] PROVE Available(h)' = Available(h) \cup {slot[c]}
  BY <1>5, <1>1, <1>3, <1>4 DEF Available, Slots
<1>6. ASSUME NEW h \in Keys, h # key[c] PROVE Available(h)' = Available(h)
  BY <1>3, <1>6 DEF Available, Slots
<1>7. slot[c] \notin Available(key[c])
  BY <1>4 DEF Available
<1>. QED
  BY <1>1, <1>3, <1>5, <1>6, <1>7

-----------------------------------------------------------------------------
(* No slot goes missing.                                                    *)
LEMMA SlotsInit == Init => SlotsConserved
<1> SUFFICES ASSUME Init, NEW k \in Keys
             PROVE  Len(connection_map_[k])
                      = Cardinality(Available(k)) + Cardinality(Using(k)) + Cardinality(Lost(k))
  BY DEF SlotsConserved
<1>1. connection_map_[k] = <<>> /\ Len(connection_map_[k]) = 0
  BY EmptySeq DEF Init
<1>2. Available(k) = {} /\ Using(k) = {} /\ Lost(k) = {}
  BY <1>1 DEF Init, Available, Slots, Using, Lost, HostCallsAt, CallsAt
<1>. QED
  BY <1>1, <1>2, FS_EmptySet

LEMMA UsingFinite ==
  ASSUME NEW k
  PROVE  /\ Cardinality(Using(k)) \in Nat
         /\ Cardinality(Lost(k)) \in Nat
         /\ \A c \in Using(k) : Cardinality(Using(k) \ {c}) = Cardinality(Using(k)) - 1
         /\ \A c \in Calls \ Using(k) : Cardinality(Using(k) \cup {c}) = Cardinality(Using(k)) + 1
         /\ \A c \in Calls \ Lost(k) : Cardinality(Lost(k) \cup {c}) = Cardinality(Lost(k)) + 1
<1>1. Using(k) \in SUBSET Calls /\ Lost(k) \in SUBSET Calls
  BY DEF Using, Lost, HostCallsAt, CallsAt
<1>. QED
  BY <1>1, FiniteCalls

LEMMA SlotCounts ==
  ASSUME TypeOK, SlotsConserved, NEW k \in Keys
  PROVE  /\ Cardinality(Available(k)) \in Nat
         /\ Cardinality(Using(k)) \in Nat
         /\ Cardinality(Lost(k)) \in Nat
         /\ Len(connection_map_[k])
              = Cardinality(Available(k)) + Cardinality(Using(k)) + Cardinality(Lost(k))
  BY AvailableFinite, UsingFinite DEF SlotsConserved

LEMMA SlotsTryAcquire ==
  ASSUME TypeOK, SlotsConserved, NEW c \in Calls, pc[c] \in Runnable,
         NEW k \in Keys, k = key[c], TryAcquire(c, k), UNCHANGED key
  PROVE  SlotsConserved'
<1>1. /\ c \notin Using(k)
      /\ \A h \in Keys : Len(connection_map_[h]) \in Nat
  BY LenProperties DEF TypeOK, Using, HostCallsAt, CallsAt, Runnable
<1>2. CASE TakeAvailable(c, k) \/ CreateConnection(c, k)
  <2>1. pc' = [pc EXCEPT ![c] = "rest_call"]
    BY <1>2 DEF TakeAvailable, CreateConnection
  <2>2. \A h \in Keys : /\ Using(h)' = IF h = k THEN Using(h) \cup {c} ELSE Using(h)
                       /\ Lost(h)' = Lost(h)
    BY <2>1, MoveToUse
  <2>3. Cardinality(Using(k)') = Cardinality(Using(k)) + 1
    BY <1>1, <2>2, UsingFinite
  <2>4. CASE TakeAvailable(c, k)
    <3>1. PICK i \in Available(k) :
            /\ \A h \in Keys : Available(h)' = IF h = k THEN Available(h) \ {i}
                                                     ELSE Available(h)
            /\ \A h \in Keys : Len(connection_map_'[h]) = Len(connection_map_[h])
      BY <1>1, <2>4, TakeEffect
    <3>2. Cardinality(Available(k) \ {i}) = Cardinality(Available(k)) - 1
      BY <3>1, AvailableFinite
    <3>3. ASSUME NEW h \in Keys
          PROVE  Len(connection_map_'[h])
                   = Cardinality(Available(h)') + Cardinality(Using(h)') + Cardinality(Lost(h)')
      <4>1. CASE h = k
        <5>1. Cardinality(Available(h)') = Cardinality(Available(h)) - 1
          BY <3>1, <3>2, <4>1
        <5>2. /\ Cardinality(Using(h)') = Cardinality(Using(h)) + 1
              /\ Lost(h)' = Lost(h)
              /\ Len(connection_map_'[h]) = Len(connection_map_[h])
          BY <2>2, <2>3, <3>1, <4>1
        <5>. QED
          BY <5>1, <5>2, SlotCounts
      <4>2. CASE h # k
        BY <2>2, <3>1, <4>2 DEF SlotsConserved
      <4>. QED
        BY <4>1, <4>2
    <3>. QED
      BY <3>3 DEF SlotsConserved
  <2>5. CASE CreateConnection(c, k)
    <3>1. /\ \A h \in Keys : Available(h)' = Available(h)
          /\ Len(connection_map_'[k]) = Len(connection_map_[k]) + 1
          /\ \A h \in Keys : h # k => connection_map_'[h] = connection_map_[h]
      BY <1>1, <2>5, CreateEffect
    <3>2. ASSUME NEW h \in Keys
          PROVE  Len(connection_map_'[h])
                   = Cardinality(Available(h)') + Cardinality(Using(h)') + Cardinality(Lost(h)')
      <4>1. CASE h = k
        BY <2>2, <2>3, <3>1, <4>1, SlotCounts
      <4>2. CASE h # k
        BY <2>2, <3>1, <4>2 DEF SlotsConserved
      <4>. QED
        BY <4>1, <4>2
    <3>. QED
      BY <3>2 DEF SlotsConserved
  <2>. QED
    BY <1>2, <2>4, <2>5
<1>3. CASE WaitForConnection(c, k)
  <2>1. \A h \in Keys : Using(h)' = Using(h) /\ Lost(h)' = Lost(h)
    BY <1>3, MoveToHostWait DEF WaitForConnection
  <2>2. connection_map_' = connection_map_ /\ \A h \in Keys : Available(h)' = Available(h)
    BY <1>3 DEF WaitForConnection, Available, Slots
  <2>. QED
    BY <2>1, <2>2 DEF SlotsConserved
<1>. QED
  BY <1>2, <1>3 DEF TryAcquire

LEMMA SlotsStep ==
  TypeOK /\ QueuesMatchSuspensions /\ NoSharedConnection /\ SlotsConserved /\ [Next]_vars
    => SlotsConserved'
<1> SUFFICES ASSUME TypeOK, QueuesMatchSuspensions, NoSharedConnection, SlotsConserved,
                    [Next]_vars
             PROVE  SlotsConserved'
  OBVIOUS
<1>1. ASSUME connection_map_' = connection_map_,
             \A k \in Keys : Using(k)' = Using(k) /\ Lost(k)' = Lost(k)
      PROVE  SlotsConserved'
  <2>1. \A k \in Keys : Available(k)' = Available(k)
    BY <1>1 DEF Available, Slots
  <2>. QED
    BY <1>1, <2>1 DEF SlotsConserved
<1>2. ASSUME NEW c \in Calls, RejectUrl(c) PROVE SlotsConserved'
  <2>1. \A k \in Keys : Using(k)' = Using(k) /\ Lost(k)' = Lost(k)
    BY <1>2 DEF RejectUrl, TypeOK, Using, Lost, HostCallsAt, CallsAt
  <2>. QED
    BY <1>1, <1>2, <2>1 DEF RejectUrl, poolVars
<1>3. ASSUME NEW c \in Calls, Call(c) \/ ResumeRequest(c) PROVE SlotsConserved'
  <2>1. UNCHANGED key /\ pc[c] \in Runnable
    BY <1>3 DEF Call, ResumeRequest, Runnable
  <2>2. CASE WaitForRequest(c)
    <3>1. \A k \in Keys : Using(k)' = Using(k) /\ Lost(k)' = Lost(k)
      BY <2>1, <2>2, MoveToRequestWait DEF WaitForRequest
    <3>. QED
      BY <1>1, <2>2, <3>1 DEF WaitForRequest, poolVars
  <2>3. CASE Admit(c)
    BY <2>1, <2>3, SlotsTryAcquire DEF Admit, AcquireConnection, TypeOK
  <2>. QED
    BY <1>3, <2>2, <2>3 DEF Call, ResumeRequest, EnterWhenAdmitted
<1>4. ASSUME NEW c \in Calls, ResumeAcquire(c) PROVE SlotsConserved'
  BY <1>4, SlotsTryAcquire DEF ResumeAcquire, Runnable, TypeOK
<1>5. ASSUME NEW c \in Calls, Complete(c) PROVE SlotsConserved'
  <2>1. /\ key[c] \in Keys
        /\ slot[c] \notin Available(key[c])
        /\ \A h \in Keys : Available(h)' = IF h = key[c] THEN Available(h) \cup {slot[c]}
                                                        ELSE Available(h)
        /\ \A h \in Keys : Len(connection_map_'[h]) = Len(connection_map_[h])
    BY <1>5, CompleteEffect
  <2>2. \A h \in Keys : Using(h)' = Using(h) \ {c} /\ Lost(h)' = Lost(h)
    BY <1>5, CompleteMoves
  <2>3. c \in Using(key[c])
    BY <1>5 DEF Complete, Using, HostCallsAt, CallsAt
  <2>4. ASSUME NEW h \in Keys
        PROVE  Len(connection_map_'[h])
                 = Cardinality(Available(h)') + Cardinality(Using(h)') + Cardinality(Lost(h)')
    <3>1. CASE h = key[c]
      <4>1. Cardinality(Available(h)') = Cardinality(Available(h)) + 1
        BY <2>1, <3>1, AvailableFinite
      <4>2. Cardinality(Using(h)') = Cardinality(Using(h)) - 1
        BY <2>2, <2>3, <3>1, UsingFinite
      <4>. QED
        BY <2>1, <2>2, <4>1, <4>2, SlotCounts
    <3>2. CASE h # key[c]
      <4>1. Using(h)' = Using(h)
        BY <2>2, <3>2 DEF Using, HostCallsAt
      <4>. QED
        BY <2>1, <2>2, <3>2, <4>1 DEF SlotsConserved
    <3>. QED
      BY <3>1, <3>2
  <2>. QED
    BY <2>4 DEF SlotsConserved
<1>6. ASSUME NEW c \in Calls, Unwind(c) PROVE SlotsConserved'
  <2>1. \A h \in Keys :
          /\ Using(h)' = IF h = key[c] THEN Using(h) \ {c} ELSE Using(h)
          /\ Lost(h)' = IF h = key[c] THEN Lost(h) \cup {c} ELSE Lost(h)
    BY <1>6 DEF Unwind, TypeOK, Using, Lost, HostCallsAt, CallsAt
  <2>2. /\ c \in Using(key[c]) /\ c \notin Lost(key[c])
        /\ connection_map_' = connection_map_
    BY <1>6 DEF Unwind, Using, Lost, HostCallsAt, CallsAt, poolVars
  <2>3. /\ Cardinality(Using(key[c]) \ {c}) = Cardinality(Using(key[c])) - 1
        /\ Cardinality(Lost(key[c]) \cup {c}) = Cardinality(Lost(key[c])) + 1
    BY <2>2, UsingFinite
  <2>4. ASSUME NEW h \in Keys
        PROVE  Len(connection_map_'[h])
                 = Cardinality(Available(h)') + Cardinality(Using(h)') + Cardinality(Lost(h)')
    <3>1. Available(h)' = Available(h)
      BY <2>2 DEF Available, Slots
    <3>2. CASE h = key[c]
      <4>1. /\ Cardinality(Using(h)') = Cardinality(Using(h)) - 1
            /\ Cardinality(Lost(h)') = Cardinality(Lost(h)) + 1
        BY <2>1, <2>3, <3>2
      <4>. QED
        BY <2>2, <3>1, <4>1, SlotCounts
    <3>3. CASE h # key[c]
      BY <2>1, <2>2, <3>1, <3>3 DEF SlotsConserved
    <3>. QED
      BY <3>2, <3>3
  <2>. QED
    BY <2>4 DEF SlotsConserved
<1>7. CASE UNCHANGED vars
  BY <1>1, <1>7 DEF vars, poolVars, Using, Lost, HostCallsAt, CallsAt
<1>. QED
  BY <1>2, <1>3, <1>4, <1>5, <1>6, <1>7 DEF Next

(* Every slot a host has is in the pool, in use or lost with a call.        *)
THEOREM SlotsAccounted == Spec => []SlotsConserved
  BY TypeInit, TypeStep, QueuesInit, QueuesStep, SharedInit, SharedStep, SlotsInit, SlotsStep,
     PTL DEF Spec

-----------------------------------------------------------------------------
(* No wakeup of a host's connection is lost.                                *)
LEMMA ReadyFinite ==
  ASSUME NEW k
  PROVE  LET ready == HostCallsAt("host_ready", k)
         IN  /\ ready \subseteq Calls
             /\ Cardinality(ready) \in Nat
             /\ \A c \in ready : Cardinality(ready \ {c}) = Cardinality(ready) - 1
             /\ \A c \in Calls \ ready : Cardinality(ready \cup {c}) = Cardinality(ready) + 1
<1>1. HostCallsAt("host_ready", k) \in SUBSET Calls
  BY DEF HostCallsAt, CallsAt
<1>. QED
  BY <1>1, FiniteCalls

(* A connection may be taken, when the taker was a resumed waiter or a      *)
(* newcomer.                                                                *)
LEMMA HostWakeupTake ==
  ASSUME TypeOK, NoLostHostWakeup, NEW c \in Calls, pc[c] \in Runnable,
         NEW k \in Keys, k = key[c], TakeAvailable(c, k), UNCHANGED key
  PROVE  NoLostHostWakeup'
<1>1. PICK i \in Available(k) :
        /\ \A h \in Keys : Available(h)' = IF h = k THEN Available(h) \ {i} ELSE Available(h)
        /\ \A h \in Keys : Len(connection_map_'[h]) = Len(connection_map_[h])
  BY TakeEffect
<1>2. \A h \in Keys : HostCallsAt("host_ready", h)' = HostCallsAt("host_ready", h) \ {c}
  BY MoveToUse DEF TakeAvailable
<1>3. UNCHANGED host_waiters
  BY DEF TakeAvailable
<1>4. ASSUME NEW h \in Keys, host_waiters[h] # <<>>
      PROVE  /\ Len(connection_map_'[h]) >= MaxConnectionsPerHost
             /\ Cardinality(Available(h)') <= Cardinality(HostCallsAt("host_ready", h)')
  <2>1. /\ Len(connection_map_[h]) >= MaxConnectionsPerHost
        /\ Cardinality(Available(h)) <= Cardinality(HostCallsAt("host_ready", h))
        /\ Cardinality(Available(h)) \in Nat
        /\ Cardinality(HostCallsAt("host_ready", h)) \in Nat
    BY <1>4, AvailableFinite, ReadyFinite DEF NoLostHostWakeup
  <2>2. CASE h = k
    <3>1. Cardinality(Available(h)') = Cardinality(Available(h)) - 1
      <4>1. Cardinality(Available(k) \ {i}) = Cardinality(Available(k)) - 1
        BY AvailableFinite
      <4>. QED
        BY <1>1, <2>2, <4>1
    <3>2. /\ Cardinality(HostCallsAt("host_ready", h)') \in Nat
          /\ Cardinality(HostCallsAt("host_ready", h)')
               >= Cardinality(HostCallsAt("host_ready", h)) - 1
      <4>1. CASE c \in HostCallsAt("host_ready", h)
        <5>1. Cardinality(HostCallsAt("host_ready", h) \ {c}) \in Nat
          BY FiniteCalls DEF HostCallsAt, CallsAt
        <5>2. Cardinality(HostCallsAt("host_ready", h) \ {c})
                = Cardinality(HostCallsAt("host_ready", h)) - 1
          BY <4>1, ReadyFinite
        <5>3. Cardinality(HostCallsAt("host_ready", h)')
                = Cardinality(HostCallsAt("host_ready", h) \ {c})
          BY <1>2
        <5>. QED
          BY <2>1, <5>1, <5>2, <5>3
      <4>2. CASE c \notin HostCallsAt("host_ready", h)
        <5>1. HostCallsAt("host_ready", h)' = HostCallsAt("host_ready", h)
          BY <1>2, <4>2
        <5>. QED
          BY <2>1, <5>1
      <4>. QED
        BY <4>1, <4>2
    <3>. QED
      BY <1>1, <2>1, <3>1, <3>2
  <2>3. CASE h # k
    <3>1. c \notin HostCallsAt("host_ready", h)
      BY <2>3 DEF HostCallsAt
    <3>2. HostCallsAt("host_ready", h)' = HostCallsAt("host_ready", h)
      BY <1>2, <3>1
    <3>. QED
      BY <1>1, <2>1, <2>3, <3>2
  <2>. QED
    BY <2>2, <2>3
<1>. QED
  BY <1>3, <1>4 DEF NoLostHostWakeup

LEMMA HostWakeupTryAcquire ==
  ASSUME TypeOK, NoLostHostWakeup, NEW c \in Calls, pc[c] \in Runnable,
         NEW k \in Keys, k = key[c], TryAcquire(c, k), UNCHANGED key
  PROVE  NoLostHostWakeup'
<1>1. CASE TakeAvailable(c, k)
  BY <1>1, HostWakeupTake
<1>2. CASE CreateConnection(c, k) \/ WaitForConnection(c, k)
  <2>1. /\ Available(k) = {}
        /\ \A h \in Keys : Available(h)' = Available(h)
        /\ \A h \in Keys : h # k => connection_map_'[h] = connection_map_[h]
    <3>1. CASE CreateConnection(c, k)
      BY <3>1, CreateEffect
    <3>2. CASE WaitForConnection(c, k)
      BY <3>2 DEF WaitForConnection, Available, Slots
    <3>. QED
      BY <1>2, <3>1, <3>2
  <2>2. \A h \in Keys : HostCallsAt("host_ready", h)' = HostCallsAt("host_ready", h) \ {c}
    BY <1>2, MoveToUse, MoveToHostWait DEF CreateConnection, WaitForConnection
  <2>3. host_waiters'[k] # <<>> => Len(connection_map_'[k]) >= MaxConnectionsPerHost
    <3>1. CASE CreateConnection(c, k)
      <4>1. Len(connection_map_'[k]) = Len(connection_map_[k]) + 1
        BY <3>1, CreateEffect
      <4>2. Len(connection_map_[k]) \in Nat
        BY LenProperties DEF TypeOK
      <4>. QED
        BY <3>1, <4>1, <4>2, CacheAssumption DEF NoLostHostWakeup, CreateConnection
    <3>2. CASE WaitForConnection(c, k)
      BY <3>2 DEF WaitForConnection
    <3>. QED
      BY <1>2, <3>1, <3>2
  <2>4. \A h \in Keys : h # k => host_waiters'[h] = host_waiters[h]
    BY <1>2 DEF CreateConnection, WaitForConnection, TypeOK
  <2>5. ASSUME NEW h \in Keys, host_waiters'[h] # <<>>
        PROVE  /\ Len(connection_map_'[h]) >= MaxConnectionsPerHost
               /\ Cardinality(Available(h)') <= Cardinality(HostCallsAt("host_ready", h)')
    <3>1. CASE h = k
      <4>1. Cardinality(Available(h)') = 0
        <5>1. Available(h)' = {}
          BY <2>1, <3>1
        <5>. QED
          BY <5>1, FS_EmptySet
      <4>2. Cardinality(HostCallsAt("host_ready", h)') \in Nat
        BY <2>2, FiniteCalls DEF HostCallsAt, CallsAt
      <4>. QED
        BY <2>3, <2>5, <3>1, <4>1, <4>2
    <3>2. CASE h # k
      <4>1. c \notin HostCallsAt("host_ready", h)
        BY <3>2 DEF HostCallsAt
      <4>2. HostCallsAt("host_ready", h)' = HostCallsAt("host_ready", h)
        BY <2>2, <4>1
      <4>. QED
        BY <2>1, <2>4, <2>5, <3>2, <4>2 DEF NoLostHostWakeup
    <3>. QED
      BY <3>1, <3>2
  <2>. QED
    BY <2>5 DEF NoLostHostWakeup
<1>. QED
  BY <1>1, <1>2 DEF TryAcquire

LEMMA HostWakeupComplete ==
  ASSUME TypeOK, QueuesMatchSuspensions, NoSharedConnection, NoLostHostWakeup,
         NEW c \in Calls, Complete(c), NEW k \in Keys, k = key[c]
  PROVE  NoLostHostWakeup'
<1>1. /\ slot[c] \notin Available(k)
      /\ \A h \in Keys : Available(h)' = IF h = k THEN Available(h) \cup {slot[c]}
                                                ELSE Available(h)
      /\ \A h \in Keys : Len(connection_map_'[h]) = Len(connection_map_[h])
  BY CompleteEffect
<1>2. /\ HostNotified(k) \subseteq HostCallsAt("host_wait", k)
      /\ \A h \in Keys : HostCallsAt("host_ready", h)'
                            = IF h = k THEN HostCallsAt("host_ready", h) \cup HostNotified(k)
                                       ELSE HostCallsAt("host_ready", h)
  BY CompleteMoves
<1>3. \A h \in Keys : host_waiters'[h] = IF h = k THEN AfterPosting(host_waiters[h], HostNotified(k))
                                                 ELSE host_waiters[h]
  BY DEF Complete, TypeOK
<1>4. ASSUME NEW h \in Keys, host_waiters'[h] # <<>>
      PROVE  /\ Len(connection_map_'[h]) >= MaxConnectionsPerHost
             /\ Cardinality(Available(h)') <= Cardinality(HostCallsAt("host_ready", h)')
  <2>1. CASE h = k
    <3>1. host_waiters[k] # <<>>
      BY <1>3, <1>4, <2>1 DEF AfterPosting, HostNotified, Posted
    <3>2. HostNotified(k) = {Head(host_waiters[k])}
      BY <3>1 DEF HostNotified, Posted
    <3>3. Head(host_waiters[k]) \in Calls \ HostCallsAt("host_ready", k)
      BY <1>2, <3>2 DEF HostCallsAt, CallsAt
    <3>4. Cardinality(HostCallsAt("host_ready", k) \cup HostNotified(k))
            = Cardinality(HostCallsAt("host_ready", k)) + 1
      BY <3>2, <3>3, ReadyFinite
    <3>5. Cardinality(Available(k) \cup {slot[c]}) = Cardinality(Available(k)) + 1
      BY <1>1, AvailableFinite
    <3>6. /\ Len(connection_map_[k]) >= MaxConnectionsPerHost
          /\ Cardinality(Available(k)) <= Cardinality(HostCallsAt("host_ready", k))
          /\ Cardinality(Available(k)) \in Nat
          /\ Cardinality(HostCallsAt("host_ready", k)) \in Nat
      BY <3>1, AvailableFinite, ReadyFinite DEF NoLostHostWakeup
    <3>7. /\ Cardinality(Available(h)') = Cardinality(Available(k)) + 1
          /\ Cardinality(HostCallsAt("host_ready", h)')
               = Cardinality(HostCallsAt("host_ready", k)) + 1
          /\ Len(connection_map_'[h]) = Len(connection_map_[k])
      BY <1>1, <1>2, <2>1, <3>4, <3>5
    <3>. QED
      BY <3>6, <3>7
  <2>2. CASE h # k
    BY <1>1, <1>2, <1>3, <1>4, <2>2 DEF NoLostHostWakeup
  <2>. QED
    BY <2>1, <2>2
<1>. QED
  BY <1>4 DEF NoLostHostWakeup

LEMMA HostWakeupInit == Init => NoLostHostWakeup
  BY DEF Init, NoLostHostWakeup

LEMMA HostWakeupStep ==
  TypeOK /\ QueuesMatchSuspensions /\ NoSharedConnection /\ NoLostHostWakeup /\ [Next]_vars
    => NoLostHostWakeup'
<1> SUFFICES ASSUME TypeOK, QueuesMatchSuspensions, NoSharedConnection, NoLostHostWakeup,
                    [Next]_vars
             PROVE  NoLostHostWakeup'
  OBVIOUS
<1>1. ASSUME UNCHANGED poolVars,
             \A k \in Keys : HostCallsAt("host_ready", k)' = HostCallsAt("host_ready", k)
      PROVE  NoLostHostWakeup'
  <2>1. \A k \in Keys : Available(k)' = Available(k)
    BY <1>1 DEF Available, Slots, poolVars
  <2>. QED
    BY <1>1, <2>1 DEF NoLostHostWakeup, poolVars
<1>2. ASSUME NEW c \in Calls, RejectUrl(c) \/ Unwind(c) PROVE NoLostHostWakeup'
  <2>1. \A k \in Keys : HostCallsAt("host_ready", k)' = HostCallsAt("host_ready", k)
    BY <1>2 DEF RejectUrl, Unwind, TypeOK, HostCallsAt, CallsAt
  <2>. QED
    BY <1>1, <1>2, <2>1 DEF RejectUrl, Unwind
<1>3. ASSUME NEW c \in Calls, Call(c) \/ ResumeRequest(c) PROVE NoLostHostWakeup'
  <2>1. UNCHANGED key /\ pc[c] \in Runnable /\ \A k : c \notin HostCallsAt("host_ready", k)
    BY <1>3 DEF Call, ResumeRequest, Runnable, HostCallsAt, CallsAt
  <2>2. CASE WaitForRequest(c)
    <3>1. \A k \in Keys : HostCallsAt("host_ready", k)' = HostCallsAt("host_ready", k) \ {c}
      BY <2>1, <2>2, MoveToRequestWait DEF WaitForRequest
    <3>2. \A k \in Keys : HostCallsAt("host_ready", k)' = HostCallsAt("host_ready", k)
      BY <2>1, <3>1
    <3>. QED
      BY <1>1, <2>2, <3>2 DEF WaitForRequest
  <2>3. CASE Admit(c)
    BY <2>1, <2>3, HostWakeupTryAcquire DEF Admit, AcquireConnection, TypeOK
  <2>. QED
    BY <1>3, <2>2, <2>3 DEF Call, ResumeRequest, EnterWhenAdmitted
<1>4. ASSUME NEW c \in Calls, ResumeAcquire(c) PROVE NoLostHostWakeup'
  BY <1>4, HostWakeupTryAcquire DEF ResumeAcquire, Runnable, TypeOK
<1>5. ASSUME NEW c \in Calls, Complete(c) PROVE NoLostHostWakeup'
  BY <1>5, HostWakeupComplete DEF TypeOK
<1>6. CASE UNCHANGED vars
  BY <1>1, <1>6 DEF vars, HostCallsAt, CallsAt
<1>. QED
  BY <1>2, <1>3, <1>4, <1>5, <1>6 DEF Next

(* No call sleeps beside a connection of its host unless a resumed waiter   *)
(* is coming for that connection.                                           *)
THEOREM HostWakeups == Spec => []NoLostHostWakeup
  BY TypeInit, TypeStep, QueuesInit, QueuesStep, SharedInit, SharedStep,
     HostWakeupInit, HostWakeupStep, PTL DEF Spec

-----------------------------------------------------------------------------
(* The cache does not stand still.                                          *)

(* Somebody who waits is in the queue. *)
LEMMA Queued ==
  ASSUME NEW q, NEW set, Lists(q, set), set # {}
  PROVE  q # <<>>
BY EmptySeq DEF Lists

(* What is counted and who is woken leave no way to stand still: a host     *)
(* whose connections are neither in the pool nor in use has lost them, and  *)
(* when no admitted call moves all of them are stranded.                    *)
LEMMA CountsMove ==
  ASSUME TypeOK, QueuesMatchSuspensions, SlotsConserved, RequestsConserved,
         NoLostHostWakeup, NoLostRequestWakeup
  PROVE  NoStandstill
<1>1. ASSUME NEW c \in CallsAt("host_wait"),
             HostCallsAt("host_ready", key[c]) \cup Using(key[c]) = {}
      PROVE  c \in Stranded
  <2> DEFINE k == key[c]
  <2>1. c \in Calls /\ pc[c] = "host_wait" /\ k \in Keys
    BY DEF CallsAt, TypeOK
  <2>2. host_waiters[k] # <<>>
    <3>1. c \in HostCallsAt("host_wait", k)
      BY DEF HostCallsAt
    <3>2. Lists(host_waiters[k], HostCallsAt("host_wait", k))
      BY <2>1 DEF QueuesMatchSuspensions
    <3> QED BY <3>1, <3>2, Queued
  <2>3. Cardinality(HostCallsAt("host_ready", k)) = 0 /\ Cardinality(Using(k)) = 0
    <3>1. HostCallsAt("host_ready", k) = {} /\ Using(k) = {}
      BY <1>1
    <3> QED BY <3>1, FS_EmptySet
  <2>4. /\ Len(connection_map_[k]) >= MaxConnectionsPerHost
        /\ Cardinality(Available(k)) <= Cardinality(HostCallsAt("host_ready", k))
    BY <2>1, <2>2 DEF NoLostHostWakeup
  <2>5. MaxConnectionsPerHost <= Cardinality(Lost(k))
    BY <2>1, <2>3, <2>4, SlotCounts, CacheAssumption
  <2> QED BY <2>1, <2>5 DEF Stranded
<1>2. ASSUME CallsAt("request_wait") # {},
             \A c \in Calls : pc[c] \notin {"request_ready", "host_ready", "rest_call"}
      PROVE  MaxConcurrentRequests <= Cardinality(Stranded)
  <2>1. request_waiters # <<>>
    BY <1>2, Queued DEF QueuesMatchSuspensions
  <2>2. Cardinality(CallsAt("request_ready")) = 0
    <3>1. CallsAt("request_ready") = {}
      BY <1>2 DEF CallsAt
    <3> QED BY <3>1, FS_EmptySet
  <2>3. Admitted \subseteq Stranded
    <3>1. ASSUME NEW c \in Admitted PROVE c \in Stranded
      <4>1. c \in Calls /\ pc[c] \in {"host_wait", "unwound"}
        BY <1>2, <3>1 DEF Admitted
      <4>2. CASE pc[c] = "unwound"
        BY <4>1, <4>2 DEF Stranded
      <4>3. CASE pc[c] = "host_wait"
        <5>1. c \in CallsAt("host_wait")
          BY <4>1, <4>3 DEF CallsAt
        <5>2. HostCallsAt("host_ready", key[c]) \cup Using(key[c]) = {}
          BY <1>2 DEF HostCallsAt, Using, CallsAt
        <5> QED BY <1>1, <5>1, <5>2
      <4> QED BY <4>1, <4>2, <4>3
    <3> QED BY <3>1
  <2>4. Stranded \in SUBSET Calls
    BY DEF Stranded
  <2>5. Cardinality(Admitted) <= Cardinality(Stranded)
    BY <2>3, <2>4, FiniteCalls, FS_Subset
  <2>6. /\ Cardinality(Admitted) \in Nat /\ Cardinality(Stranded) \in Nat
        /\ MaxConcurrentRequests \in Nat
    BY <2>4, AdmittedFinite, FiniteCalls, CacheAssumption
  <2>7. MaxConcurrentRequests <= request_count_ + Cardinality(CallsAt("request_ready"))
    BY <2>1 DEF NoLostRequestWakeup
  <2> QED BY <2>2, <2>5, <2>6, <2>7 DEF RequestsConserved
<1> QED BY <1>1, <1>2 DEF NoStandstill

(* As long as calls wait, some call before them moves, unless exceptions    *)
(* of rest_call have lost what they wait for (call, acquire_connection,     *)
(* replace_connection).                                                     *)
THEOREM NeverStandsStill == Spec => []NoStandstill
  BY CountsMove, TypeCorrect, QueuesCorrect, SlotsAccounted, RequestsCorrect,
     HostWakeups, RequestWakeups, PTL

-----------------------------------------------------------------------------
(* The cache implements the abstract pool.                                  *)
LEMMA PoolStatus ==
  ASSUME TypeOK
  PROVE  /\ poolStatus = [c \in Calls |-> poolStatus[c]]
         /\ \A c \in Calls :
              /\ pc[c] = "idle" => poolStatus[c] = "idle"
              /\ pc[c] = "rest_call" => poolStatus[c] = "served"
              /\ pc[c] = "unwound" => poolStatus[c] = "broken"
              /\ pc[c] \in {"returned", "failed", "rejected"} => poolStatus[c] = "done"
              /\ pc[c] \in {"request_wait", "request_ready", "host_wait", "host_ready"}
                   => poolStatus[c] = "waiting"
<1>1. poolStatus = [c \in Calls |-> poolStatus[c]]
  BY DEF poolStatus
<1>2. ASSUME NEW c \in Calls, pc[c] = "idle" PROVE poolStatus[c] = "idle"
  BY <1>2 DEF poolStatus
<1>3. ASSUME NEW c \in Calls, pc[c] = "rest_call" PROVE poolStatus[c] = "served"
  BY <1>3 DEF poolStatus
<1>4. ASSUME NEW c \in Calls, pc[c] = "unwound" PROVE poolStatus[c] = "broken"
  BY <1>4 DEF poolStatus
<1>5. ASSUME NEW c \in Calls, pc[c] \in {"returned", "failed", "rejected"}
      PROVE  poolStatus[c] = "done"
  BY <1>5 DEF poolStatus
<1>6. ASSUME NEW c \in Calls,
             pc[c] \in {"request_wait", "request_ready", "host_wait", "host_ready"}
      PROVE  poolStatus[c] = "waiting"
  BY <1>6 DEF poolStatus
<1>. QED
  BY <1>1, <1>2, <1>3, <1>4, <1>5, <1>6

LEMMA OccupiedHolders == TypeOK => Pool!Occupied = Holders
<1> SUFFICES ASSUME TypeOK PROVE Pool!Occupied = Holders
  OBVIOUS
<1>1. \A c \in Calls : poolStatus[c] \in {"served", "broken"} <=> pc[c] \in {"rest_call", "unwound"}
  BY PoolStatus DEF TypeOK, CallState
<1>. QED
  BY <1>1 DEF Pool!Occupied, Holders

(* The abstract pool counts with an instance of the same operator.          *)
LEMMA PoolCardinality ==
  ASSUME NEW S
  PROVE  Pool!Cardinality(S) = Cardinality(S)
  BY DEF Pool!Cardinality, Cardinality

(* A step that moves one call moves its status alone.                       *)
LEMMA StatusMove ==
  ASSUME TypeOK, TypeOK', NEW c \in Calls, NEW others \in SUBSET Calls,
         \A d \in Calls \ ({c} \cup others) : pc'[d] = pc[d],
         \A d \in others : /\ pc[d] \in {"request_wait", "host_wait"}
                           /\ pc'[d] \in {"request_ready", "host_ready"}
  PROVE  /\ poolStatus'[c] = poolStatus[c] => poolStatus' = poolStatus
         /\ c \notin others => poolStatus' = [poolStatus EXCEPT ![c] = poolStatus'[c]]
<1>1. ASSUME NEW d \in Calls \ {c} PROVE poolStatus'[d] = poolStatus[d]
  <2>1. CASE d \in others
    <3>1. poolStatus[d] = "waiting"
      BY <2>1, PoolStatus
    <3>2. poolStatus'[d] = "waiting"
      BY <2>1 DEF poolStatus
    <3>. QED
      BY <3>1, <3>2
  <2>2. CASE d \notin others
    <3>1. pc'[d] = pc[d]
      BY <2>2
    <3>. QED
      BY <3>1 DEF poolStatus
  <2>. QED
    BY <2>1, <2>2
<1>2. /\ poolStatus = [d \in Calls |-> poolStatus[d]]
      /\ poolStatus' = [d \in Calls |-> poolStatus'[d]]
  BY DEF poolStatus
<1>. QED
  BY <1>1, <1>2

LEMMA StatusMoveAlone ==
  ASSUME TypeOK, TypeOK', NEW c \in Calls, \A d \in Calls \ {c} : pc'[d] = pc[d]
  PROVE  /\ poolStatus'[c] = poolStatus[c] => poolStatus' = poolStatus
         /\ poolStatus' = [poolStatus EXCEPT ![c] = poolStatus'[c]]
<1>1. /\ {} \in SUBSET Calls /\ c \notin {}
      /\ \A d \in Calls \ ({c} \cup {}) : pc'[d] = pc[d]
      /\ \A d \in {} : /\ pc[d] \in {"request_wait", "host_wait"}
                      /\ pc'[d] \in {"request_ready", "host_ready"}
  OBVIOUS
<1>. QED
  BY <1>1, StatusMove

(* A call that gets a connection is served by one that serves nobody else.  *)
LEMMA ServeStep ==
  ASSUME TypeOK, TypeOK', NoSharedConnection, NEW c \in Calls, pc[c] \in Runnable,
         Cardinality(Holders) < MaxConcurrentRequests,
         TakeAvailable(c, key[c]) \/ CreateConnection(c, key[c]), UNCHANGED key
  PROVE  Pool!Serve(c)
<1>1. PICK i : /\ slot' = [slot EXCEPT ![c] = i]
               /\ i \in Available(key[c]) \/ i = Len(connection_map_[key[c]]) + 1
               /\ i \in 1..MaxConnectionsPerHost
  <2>1. Len(connection_map_[key[c]]) \in Nat /\ Len(connection_map_[key[c]]) <= MaxConnectionsPerHost
    BY LenProperties DEF TypeOK
  <2>2. CASE TakeAvailable(c, key[c])
    <3>1. PICK j \in Available(key[c]) : slot' = [slot EXCEPT ![c] = j]
      BY <2>2 DEF TakeAvailable
    <3>2. j \in 1..MaxConnectionsPerHost
      BY <2>1, CacheAssumption DEF Available, Slots
    <3>. QED
      BY <3>1, <3>2
  <2>3. CASE CreateConnection(c, key[c])
    <3>1. slot' = [slot EXCEPT ![c] = Len(connection_map_[key[c]]) + 1]
      BY <2>3 DEF CreateConnection
    <3>2. Len(connection_map_[key[c]]) + 1 \in 1..MaxConnectionsPerHost
      BY <2>1, <2>3, CacheAssumption DEF CreateConnection
    <3>. QED
      BY <3>1, <3>2
  <2>. QED
    BY <2>2, <2>3
<1>2. i \in Pool!FreeConnections(key[c])
  <2>1. ASSUME NEW d \in Holders, key[d] = key[c] PROVE slot[d] # i
    <3>1. /\ slot[d] \in 1..Len(connection_map_[key[c]])
          /\ connection_map_[key[c]][slot[d]] = "null"
          /\ Len(connection_map_[key[c]]) \in Nat
      BY <2>1, LenProperties DEF NoSharedConnection, Slots, TypeOK
    <3>. QED
      BY <1>1, <3>1 DEF Available
  <2>. QED
    BY <1>1, <2>1, OccupiedHolders DEF Pool!FreeConnections
<1>3. pc'[c] = "rest_call" /\ \A d \in Calls \ {c} : pc'[d] = pc[d]
  BY DEF TakeAvailable, CreateConnection, TypeOK
<1>4. poolStatus'[c] = "served"
  BY <1>3 DEF poolStatus
<1>5. poolStatus' = [poolStatus EXCEPT ![c] = "served"]
  BY <1>3, <1>4, StatusMoveAlone
<1>6. poolStatus[c] \in {"idle", "waiting"}
  BY PoolStatus DEF Runnable
<1>7. Pool!Cardinality(Pool!Occupied) < MaxConcurrentRequests
  BY OccupiedHolders, PoolCardinality
<1>8. /\ \E j \in Pool!FreeConnections(key[c]) : slot' = [slot EXCEPT ![c] = j]
      /\ key' = key
  BY <1>1, <1>2
<1>. QED
  BY <1>5, <1>6, <1>7, <1>8 DEF Pool!Serve

(* A call that starts to wait, or waits on.                                 *)
LEMMA WaitStep ==
  ASSUME TypeOK, TypeOK', NEW c \in Calls, pc[c] \in Runnable,
         NEW b \in {"request_wait", "host_wait"},
         pc' = [pc EXCEPT ![c] = b], UNCHANGED <<key, slot>>
  PROVE  [Pool!Next]_(Pool!vars)
<1>1. pc'[c] = b /\ \A d \in Calls \ {c} : pc'[d] = pc[d]
  BY DEF TypeOK
<1>2. poolStatus'[c] = "waiting"
  BY <1>1 DEF poolStatus
<1>3. CASE pc[c] = "idle"
  <2>1. poolStatus[c] = "idle"
    BY <1>3, PoolStatus
  <2>2. poolStatus' = [poolStatus EXCEPT ![c] = "waiting"]
    BY <1>1, <1>2, StatusMoveAlone
  <2>. QED
    BY <2>1, <2>2 DEF Pool!Wait, Pool!Next
<1>4. CASE pc[c] # "idle"
  <2>1. poolStatus[c] = "waiting"
    BY <1>4, PoolStatus DEF Runnable
  <2>2. poolStatus' = poolStatus
    BY <1>1, <1>2, <2>1, StatusMoveAlone
  <2>. QED
    BY <2>2 DEF Pool!vars
<1>. QED
  BY <1>3, <1>4

LEMMA AcquireStep ==
  ASSUME TypeOK, TypeOK', NoSharedConnection, NEW c \in Calls, pc[c] \in Runnable,
         Cardinality(Holders) < MaxConcurrentRequests,
         TryAcquire(c, key[c]), UNCHANGED key
  PROVE  [Pool!Next]_(Pool!vars)
<1>1. CASE TakeAvailable(c, key[c]) \/ CreateConnection(c, key[c])
  BY <1>1, ServeStep DEF Pool!Next
<1>2. CASE WaitForConnection(c, key[c])
  BY <1>2, WaitStep DEF WaitForConnection
<1>. QED
  BY <1>1, <1>2 DEF TryAcquire

(* Fewer calls hold a slot than are admitted, by one when one of them is    *)
(* still waiting.                                                           *)
LEMMA HoldersBound ==
  ASSUME RequestsConserved
  PROVE  /\ Cardinality(Holders) \in Nat
         /\ Cardinality(Holders) <= request_count_
         /\ \A c \in Admitted \ Holders : Cardinality(Holders) < MaxConcurrentRequests
<1>1. Holders \in SUBSET Calls /\ Admitted \in SUBSET Calls /\ Holders \subseteq Admitted
  BY DEF Holders, Admitted
<1>2. /\ IsFiniteSet(Admitted)
      /\ Cardinality(Admitted) \in Nat
      /\ Cardinality(Holders) \in Nat
      /\ \A c \in Calls \ Holders : Cardinality(Holders \cup {c}) = Cardinality(Holders) + 1
  BY <1>1, FiniteCalls
<1>3. Cardinality(Holders) <= Cardinality(Admitted)
  BY <1>1, <1>2, FS_Subset
<1>4. ASSUME NEW c \in Admitted \ Holders
      PROVE  Cardinality(Holders) < MaxConcurrentRequests
  <2>1. Holders \cup {c} \subseteq Admitted /\ c \in Calls \ Holders
    BY <1>1
  <2>2. Cardinality(Holders \cup {c}) <= Cardinality(Admitted)
    BY <1>2, <2>1, FS_Subset
  <2>3. Cardinality(Holders \cup {c}) = Cardinality(Holders) + 1
    BY <1>2, <2>1
  <2>. QED
    BY <1>2, <2>2, <2>3, CacheAssumption DEF RequestsConserved
<1>. QED
  BY <1>2, <1>3, <1>4 DEF RequestsConserved

LEMMA PoolInit == Init => Pool!Init
<1> SUFFICES ASSUME Init PROVE Pool!Init
  OBVIOUS
<1>1. poolStatus = [c \in Calls |-> "idle"]
  BY DEF Init, poolStatus
<1>. QED
  BY <1>1 DEF Init, Pool!Init

LEMMA PoolStep ==
  ASSUME TypeOK, TypeOK', QueuesMatchSuspensions, NoSharedConnection, RequestsConserved,
         [Next]_vars
  PROVE  [Pool!Next]_(Pool!vars)
<1>1. ASSUME NEW c \in Calls, Call(c) \/ ResumeRequest(c) PROVE [Pool!Next]_(Pool!vars)
  <2>1. UNCHANGED key /\ pc[c] \in Runnable
    BY <1>1 DEF Call, ResumeRequest, Runnable
  <2>2. CASE WaitForRequest(c)
    BY <2>1, <2>2, WaitStep DEF WaitForRequest
  <2>3. CASE Admit(c)
    <3>1. Cardinality(Holders) < MaxConcurrentRequests
      BY <2>3, HoldersBound, CacheAssumption DEF Admit, TypeOK
    <3>. QED
      BY <2>1, <2>3, <3>1, AcquireStep DEF Admit, AcquireConnection
  <2>. QED
    BY <1>1, <2>2, <2>3 DEF Call, ResumeRequest, EnterWhenAdmitted
<1>2. ASSUME NEW c \in Calls, ResumeAcquire(c) PROVE [Pool!Next]_(Pool!vars)
  <2>1. UNCHANGED key /\ pc[c] \in Runnable /\ c \in Admitted \ Holders
    BY <1>2 DEF ResumeAcquire, Runnable, Admitted, Holders
  <2>2. Cardinality(Holders) < MaxConcurrentRequests
    BY <2>1, HoldersBound
  <2>. QED
    BY <1>2, <2>1, <2>2, AcquireStep DEF ResumeAcquire
<1>3. ASSUME NEW c \in Calls, RejectUrl(c) PROVE Pool!Finish(c)
  <2>1. pc[c] = "idle" /\ pc'[c] = "rejected" /\ \A d \in Calls \ {c} : pc'[d] = pc[d]
    BY <1>3 DEF RejectUrl, TypeOK
  <2>2. poolStatus[c] = "idle" /\ poolStatus'[c] = "done"
    BY <2>1 DEF poolStatus
  <2>3. poolStatus' = [poolStatus EXCEPT ![c] = "done"]
    BY <2>1, <2>2, StatusMoveAlone
  <2>. QED
    BY <1>3, <2>2, <2>3 DEF Pool!Finish, RejectUrl
<1>4. ASSUME NEW c \in Calls, Complete(c) PROVE Pool!Finish(c)
  <2> DEFINE others == HostNotified(key[c]) \cup RequestNotified
  <2>1. /\ HostNotified(key[c]) \subseteq HostCallsAt("host_wait", key[c])
        /\ RequestNotified \subseteq CallsAt("request_wait")
    BY <1>4, CompleteMoves
  <2>2. /\ others \in SUBSET Calls
        /\ \A d \in others : pc[d] \in {"request_wait", "host_wait"}
        /\ pc[c] = "rest_call" /\ c \notin others
    BY <1>4, <2>1 DEF HostCallsAt, CallsAt, Complete
  <2>3. /\ pc'[c] \in {"returned", "failed"}
        /\ \A d \in others : pc'[d] \in {"request_ready", "host_ready"}
        /\ \A d \in Calls \ ({c} \cup others) : pc'[d] = pc[d]
    <3>1. PICK outcome \in {"returned", "failed"} :
            \A d \in Calls :
              pc'[d] = CASE d = c                      -> outcome
                         [] d \in HostNotified(key[c]) -> "host_ready"
                         [] d \in RequestNotified      -> "request_ready"
                         [] OTHER                      -> pc[d]
      BY <1>4 DEF Complete
    <3>. QED
      BY <2>2, <3>1
  <2>4. poolStatus[c] = "served" /\ poolStatus'[c] = "done"
    BY <2>2, <2>3 DEF poolStatus
  <2>5. poolStatus' = [poolStatus EXCEPT ![c] = "done"]
    <3> HIDE DEF others
    <3>. QED
      BY <2>2, <2>3, <2>4, StatusMove
  <2>. QED
    BY <1>4, <2>4, <2>5 DEF Pool!Finish, Complete
<1>5. ASSUME NEW c \in Calls, Unwind(c) PROVE Pool!Break(c)
  <2>1. pc[c] = "rest_call" /\ pc'[c] = "unwound" /\ \A d \in Calls \ {c} : pc'[d] = pc[d]
    BY <1>5 DEF Unwind, TypeOK
  <2>2. poolStatus[c] = "served" /\ poolStatus'[c] = "broken"
    BY <2>1 DEF poolStatus
  <2>3. poolStatus' = [poolStatus EXCEPT ![c] = "broken"]
    BY <2>1, <2>2, StatusMoveAlone
  <2>. QED
    BY <1>5, <2>2, <2>3 DEF Pool!Break, Unwind
<1>6. CASE UNCHANGED vars
  BY <1>6 DEF vars, Pool!vars, poolStatus
<1>. QED
  BY <1>1, <1>2, <1>3, <1>4, <1>5, <1>6 DEF Next, Pool!Next

(* Every behaviour of the cache is one that the abstract pool allows.       *)
THEOREM CacheImplementsPool == Spec => ImplementsPool
<1>1. Init => Pool!Init
  BY PoolInit
<1>2. TypeOK /\ TypeOK' /\ QueuesMatchSuspensions /\ NoSharedConnection
        /\ RequestsConserved /\ [Next]_vars => [Pool!Next]_(Pool!vars)
  BY PoolStep
<1>. QED
  BY <1>1, <1>2, TypeCorrect, QueuesCorrect, ConnectionsExclusive, RequestsCorrect,
     PTL DEF Spec, ImplementsPool, Pool!Spec
=============================================================================
