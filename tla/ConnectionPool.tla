---------------------------- MODULE ConnectionPool ----------------------------
(***************************************************************************)
(* What a connection cache promises its callers, without the queues, the   *)
(* timers and the counters by which connection_cache_impl keeps it: each   *)
(* host has a bounded number of connections, a connection serves one call  *)
(* at a time, few enough calls are served at once, and a call that is      *)
(* served gives its connection back unless its exchange breaks down.       *)
(***************************************************************************)
EXTENDS Naturals, FiniteSets

CONSTANTS
  Calls,                  \* the requests
  Keys,                   \* the hosts they go to
  MaxConnectionsPerHost,  \* connections to a host
  MaxConcurrentRequests   \* requests served at once

VARIABLES
  status,  \* of each call: "idle", "waiting", "served", "done" or "broken"
  host,    \* the host each call is for
  serves   \* the connection, of its host's, that serves or served the call

vars == <<status, host, serves>>

(* The calls whose exchange broke down keep what they had. *)
Occupied == {c \in Calls : status[c] \in {"served", "broken"}}

FreeConnections(k) ==
  {i \in 1..MaxConnectionsPerHost :
     \A c \in Occupied : host[c] = k => serves[c] # i}

Init ==
  /\ status = [c \in Calls |-> "idle"]
  /\ host \in [Calls -> Keys]
  /\ serves = [c \in Calls |-> 0]

Wait(c) ==
  /\ status[c] = "idle"
  /\ status' = [status EXCEPT ![c] = "waiting"]
  /\ UNCHANGED <<host, serves>>

(* Served after a wait, or at once. *)
Serve(c) ==
  /\ status[c] \in {"idle", "waiting"}
  /\ Cardinality(Occupied) < MaxConcurrentRequests
  /\ \E i \in FreeConnections(host[c]) : serves' = [serves EXCEPT ![c] = i]
  /\ status' = [status EXCEPT ![c] = "served"]
  /\ UNCHANGED host

(* A call is done when it has been served, or at once if it is no request. *)
Finish(c) ==
  /\ status[c] \in {"idle", "served"}
  /\ status' = [status EXCEPT ![c] = "done"]
  /\ UNCHANGED <<host, serves>>

Break(c) ==
  /\ status[c] = "served"
  /\ status' = [status EXCEPT ![c] = "broken"]
  /\ UNCHANGED <<host, serves>>

Next == \E c \in Calls : Wait(c) \/ Serve(c) \/ Finish(c) \/ Break(c)

Spec == Init /\ [][Next]_vars
=============================================================================
