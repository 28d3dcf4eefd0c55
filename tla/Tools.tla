-------------------------------- MODULE Tools --------------------------------
(***************************************************************************)
(* The two programs that come with the library.  Both build a              *)
(* connection_cache and spawn a coroutine, visit_site, for every URL: demo *)
(* from the coroutine crawl, which counts the visits and sleeps until the  *)
(* count is zero; httpcat before it enters io_context::run, which returns  *)
(* when no visit is left.  Then the cache is destroyed, with the timers in *)
(* which calls wait and the count that the visits' handlers lower.         *)
(*                                                                         *)
(* connection_cache::call awaits connection_cache_impl::call, directly or  *)
(* by co_spawn, so a visit starts with Call, at once or after other steps. *)
(***************************************************************************)
EXTENDS ConnectionCache

VARIABLES
  program,        \* which of the two runs
  main,           \* crawl, or the main function of httpcat
  spawned,        \* the visits that were spawned
  ended,          \* the visits whose completion handler has run
  pending_count   \* of crawl

mainVars == <<program, main, spawned, ended, pending_count>>
toolVars == <<vars, mainVars>>

ToolInit ==
  /\ Init
  /\ program \in {"demo", "httpcat"}
  /\ main = "spawning"
  /\ spawned = {}
  /\ ended = {}
  /\ pending_count = 0

-----------------------------------------------------------------------------
(* Mutant: the count is set for the visits of a round, not raised. *)
CountedOnce == 1

Counted == pending_count + 1

(* One turn of the loop.  co_spawn may run the visit to its first           *)
(* suspension, or post it.  crawl does not suspend between two turns, and   *)
(* httpcat is not in run yet.                                               *)
Spawn(c) ==
  /\ main = "spawning" /\ c \notin spawned
  /\ spawned' = spawned \cup {c}
  /\ pending_count' = IF program = "demo" THEN Counted ELSE 0
  /\ \/ program = "demo" /\ Call(c)
     \/ UNCHANGED vars
  /\ UNCHANGED <<program, main, ended>>

(* The end of the loop: crawl waits on cv while there are visits pending,   *)
(* and httpcat calls run.                                                   *)
Loop == IF program = "demo" /\ pending_count = 0 THEN "done" ELSE "waiting"

AllSpawned ==
  /\ main = "spawning" /\ spawned = Calls
  /\ main' = Loop
  /\ UNCHANGED <<vars, program, spawned, ended, pending_count>>

(* A visit that was posted starts.  The URLs of demo are well formed. *)
StartVisit(c) ==
  /\ main # "spawning" /\ c \in spawned
  /\ Call(c) \/ (program = "httpcat" /\ RejectUrl(c))
  /\ UNCHANGED mainVars

(* A visit goes on inside the cache. *)
VisitStep(c) ==
  /\ main # "spawning"
  /\ ResumeRequest(c) \/ ResumeAcquire(c) \/ Complete(c) \/ Unwind(c)
  /\ UNCHANGED mainVars

(* Mutant: the count is tested before it is lowered. *)
NonePendingBefore == pending_count = 0

NonePending == pending_count - 1 = 0

(* call returned or threw; visit_site catches what it threw and ends, and   *)
(* the completion handler runs.                                             *)
VisitEnds(c) ==
  /\ main # "spawning" /\ pc[c] \in Finished /\ c \notin ended
  /\ ended' = ended \cup {c}
  /\ IF program = "demo"
       THEN /\ pending_count' = pending_count - 1
            /\ main' = IF NonePending /\ main = "waiting" THEN "posted" ELSE main
       ELSE UNCHANGED <<pending_count, main>>
  /\ UNCHANGED <<vars, program, spawned>>

(* The handler of crawl's wait runs and the loop tests the count again. *)
ResumeCrawl ==
  /\ main = "posted"
  /\ main' = Loop
  /\ UNCHANGED <<vars, program, spawned, ended, pending_count>>

(* run returns when there is no work left. *)
RunReturns ==
  /\ program = "httpcat" /\ main = "waiting" /\ ended = Calls
  /\ main' = "done"
  /\ UNCHANGED <<vars, program, spawned, ended, pending_count>>

VisitNext(c) == StartVisit(c) \/ VisitStep(c) \/ VisitEnds(c)

MainNext == (\E c \in Calls : Spawn(c)) \/ AllSpawned \/ ResumeCrawl \/ RunReturns

ToolNext == MainNext \/ \E c \in Calls : VisitNext(c)

ToolSpec == ToolInit /\ [][ToolNext]_toolVars

(* The programs run, and a rest_call ends. *)
ToolFairness == WF_toolVars(MainNext) /\ \A c \in Calls : WF_toolVars(VisitNext(c))

FairToolSpec == ToolSpec /\ ToolFairness

-----------------------------------------------------------------------------
(* Properties                                                               *)

(* The cache is not destroyed while a call waits in one of its timers or in *)
(* rest_call, nor crawl's frame before the handlers that refer to it.       *)
CacheOutlivesCalls ==
  main = "done" => ended = Calls /\ \A c \in Calls : pc[c] \in Finished

(* The only notification of crawl's cv comes from the last visit, and it is *)
(* lost if crawl does not wait: crawl never sleeps with no visit pending.   *)
NoLostCompletion ==
  program = "demo" /\ main = "waiting" => pending_count > 0

(* The programs end although some visits lose their connections to an       *)
(* exception of rest_call, as long as each host keeps a connection and the  *)
(* cache a request slot.                                                    *)
ProgramEnds ==
  [](/\ \A k \in Keys : Cardinality(Lost(k)) < MaxConnectionsPerHost
     /\ Cardinality(CallsAt("unwound")) < MaxConcurrentRequests)
    => <>(main = "done")
=============================================================================
