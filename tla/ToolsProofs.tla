----------------------------- MODULE ToolsProofs -----------------------------
(***************************************************************************)
(* The tools use the cache as ConnectionCache says, and end it when the    *)
(* last call is over: for any number of visits, hosts and limits.          *)
(***************************************************************************)
EXTENDS Tools, ConnectionCacheProofs

LEMMA ToolStepIsCacheStep == [ToolNext]_toolVars => [Next]_vars
<1> SUFFICES ASSUME [ToolNext]_toolVars PROVE [Next]_vars
  OBVIOUS
<1>1. CASE UNCHANGED toolVars
  BY <1>1 DEF toolVars
<1>2. CASE AllSpawned \/ ResumeCrawl \/ RunReturns
  BY <1>2 DEF AllSpawned, ResumeCrawl, RunReturns
<1>3. ASSUME NEW c \in Calls, Spawn(c) PROVE [Next]_vars
  BY <1>3 DEF Spawn, Next
<1>4. ASSUME NEW c \in Calls, VisitNext(c) PROVE [Next]_vars
  BY <1>4 DEF VisitNext, StartVisit, VisitStep, VisitEnds, Next
<1> QED BY <1>1, <1>2, <1>3, <1>4 DEF ToolNext, MainNext

(* The invariants that the visits need of the cache. *)
CacheInv == TypeOK /\ QueuesMatchSuspensions

LEMMA CacheInvInit == ToolInit => CacheInv
  BY TypeInit, QueuesInit DEF ToolInit, CacheInv

LEMMA CacheInvStep == CacheInv /\ [ToolNext]_toolVars => CacheInv'
  BY ToolStepIsCacheStep, TypeStep, QueuesStep DEF CacheInv

(* A call that is over stays so, whatever the others do: in particular no   *)
(* handler is posted to it.                                                 *)
LEMMA FinishedStays ==
  ASSUME CacheInv, [Next]_vars, NEW d \in Calls, pc[d] \in Finished
  PROVE  pc'[d] = pc[d]
<1> USE DEF CacheInv
<1>1. CASE UNCHANGED vars
  BY <1>1 DEF vars
<1>2. ASSUME NEW c \in Calls, EnterWhenAdmitted(c), pc[c] \in {"idle", "request_ready"}
      PROVE  pc'[d] = pc[d]
  <2>1. c # d
    BY <1>2 DEF Finished
  <2>2. \E s \in CallState : pc' = [pc EXCEPT ![c] = s]
    BY <1>2 DEF EnterWhenAdmitted, WaitForRequest, Admit, AcquireConnection, TryAcquire,
                TakeAvailable, CreateConnection, WaitForConnection, CallState
  <2> QED BY <2>1, <2>2 DEF TypeOK
<1>3. ASSUME NEW c \in Calls, ResumeAcquire(c) PROVE pc'[d] = pc[d]
  <2>1. c # d
    BY <1>3 DEF ResumeAcquire, Finished
  <2>2. \E s \in CallState : pc' = [pc EXCEPT ![c] = s]
    BY <1>3 DEF ResumeAcquire, TryAcquire, TakeAvailable, CreateConnection,
                WaitForConnection, CallState
  <2> QED BY <2>1, <2>2 DEF TypeOK
<1>4. ASSUME NEW c \in Calls, Complete(c) PROVE pc'[d] = pc[d]
  <2>1. d # c
    BY <1>4 DEF Complete, Finished
  <2>2. /\ HostNotified(key[c]) \subseteq HostCallsAt("host_wait", key[c])
        /\ RequestNotified \subseteq CallsAt("request_wait")
    BY <1>4, CompleteMoves
  <2>3. d \notin HostNotified(key[c]) /\ d \notin RequestNotified
    BY <2>2 DEF HostCallsAt, CallsAt, Finished
  <2> QED BY <1>4, <2>1, <2>3 DEF Complete
<1>5. ASSUME NEW c \in Calls, RejectUrl(c) \/ Unwind(c) PROVE pc'[d] = pc[d]
  <2>1. d # c
    BY <1>5 DEF RejectUrl, Unwind, Finished
  <2> QED BY <1>5, <2>1 DEF RejectUrl, Unwind, TypeOK
<1> QED
  BY <1>1, <1>2, <1>3, <1>4, <1>5 DEF Next, Call, ResumeRequest

-----------------------------------------------------------------------------
(* What the visits and the count of crawl are at any time. *)
ProgramInv ==
  /\ program \in {"demo", "httpcat"}
  /\ spawned \subseteq Calls
  /\ ended \subseteq spawned
  /\ main # "spawning" => spawned = Calls
  /\ \A c \in ended : pc[c] \in Finished
  /\ program = "demo" => pending_count = Cardinality(spawned \ ended)
  /\ program = "demo" /\ main = "waiting" => pending_count > 0
  /\ main = "done" => ended = Calls

LEMMA ProgramInit == ToolInit => ProgramInv
<1> SUFFICES ASSUME ToolInit PROVE ProgramInv
  OBVIOUS
<1>1. Cardinality({}) = 0
  BY FS_EmptySet
<1>2. spawned \ ended = {}
  BY DEF ToolInit
<1> QED BY <1>1, <1>2 DEF ToolInit, ProgramInv

(* The loop of crawl ends only when every visit has. *)
LEMMA LoopEnds ==
  ASSUME ProgramInv, spawned = Calls
  PROVE  /\ Loop \in {"waiting", "done"}
         /\ Loop = "done" => program = "demo" /\ ended = Calls
         /\ program = "demo" /\ Loop = "waiting" => pending_count > 0
<1>1. spawned \ ended \in SUBSET Calls
  BY DEF ProgramInv
<1>2. Cardinality(spawned \ ended) \in Nat
  BY <1>1, FiniteCalls
<1>3. ASSUME program = "demo", pending_count = 0 PROVE ended = Calls
  <2>1. IsFiniteSet(spawned \ ended) /\ Cardinality(spawned \ ended) = 0
    BY <1>1, <1>3, FiniteCalls DEF ProgramInv
  <2>2. spawned \ ended = {}
    BY <2>1, FS_EmptySet
  <2>3. ended \subseteq Calls
    BY DEF ProgramInv
  <2> QED BY <2>2, <2>3
<1>4. program = "demo" => pending_count \in Nat
  BY <1>2 DEF ProgramInv
<1> QED BY <1>3, <1>4 DEF Loop

LEMMA ProgramStep == CacheInv /\ ProgramInv /\ [ToolNext]_toolVars => ProgramInv'
<1> SUFFICES ASSUME CacheInv, ProgramInv, [ToolNext]_toolVars PROVE ProgramInv'
  OBVIOUS
<1>0. \A d \in ended : pc'[d] \in Finished
  BY ToolStepIsCacheStep, FinishedStays DEF ProgramInv
<1>1. CASE UNCHANGED toolVars
  BY <1>1 DEF toolVars, mainVars, vars, ProgramInv
<1>2. ASSUME NEW c \in Calls, Spawn(c) PROVE ProgramInv'
  <2>1. /\ spawned' \ ended' = (spawned \ ended) \cup {c}
        /\ spawned \ ended \in SUBSET Calls
        /\ c \notin spawned \ ended
    BY <1>2 DEF Spawn, ProgramInv
  <2>2. Cardinality(spawned' \ ended') = Cardinality(spawned \ ended) + 1
    BY <2>1, FiniteCalls
  <2> QED BY <1>0, <1>2, <2>2 DEF Spawn, Counted, ProgramInv
<1>3. CASE AllSpawned
  BY <1>0, <1>3, LoopEnds DEF AllSpawned, ProgramInv
<1>4. CASE ResumeCrawl
  <2>1. spawned = Calls
    BY <1>4 DEF ResumeCrawl, ProgramInv
  <2> QED BY <1>0, <1>4, <2>1, LoopEnds DEF ResumeCrawl, ProgramInv
<1>5. CASE RunReturns
  BY <1>0, <1>5 DEF RunReturns, ProgramInv
<1>6. ASSUME NEW c \in Calls, StartVisit(c) \/ VisitStep(c) PROVE ProgramInv'
  BY <1>0, <1>6 DEF StartVisit, VisitStep, mainVars, ProgramInv
<1>7. ASSUME NEW c \in Calls, VisitEnds(c) PROVE ProgramInv'
  <2>1. /\ spawned = Calls /\ c \in spawned \ ended
        /\ spawned \ ended \in SUBSET Calls
        /\ spawned' \ ended' = (spawned \ ended) \ {c}
        /\ pc' = pc
    BY <1>7 DEF VisitEnds, ProgramInv, vars
  <2>2. /\ Cardinality(spawned' \ ended') = Cardinality(spawned \ ended) - 1
        /\ Cardinality(spawned' \ ended') \in Nat
    <3>1. (spawned \ ended) \ {c} \in SUBSET Calls
      BY <2>1
    <3> QED BY <2>1, <3>1, FiniteCalls
  <2>3. program = "demo" => /\ pending_count' = Cardinality(spawned' \ ended')
                            /\ main' = "waiting" => pending_count' > 0
    <3>1. Cardinality(spawned \ ended) \in Nat
      BY <2>1, FiniteCalls
    <3> QED BY <1>7, <2>2, <3>1 DEF VisitEnds, NonePending, ProgramInv
  <2>4. /\ program' \in {"demo", "httpcat"}
        /\ spawned' \subseteq Calls
        /\ ended' \subseteq spawned'
        /\ spawned' = Calls
        /\ \A d \in ended' : pc'[d] \in Finished
        /\ program' = program
    BY <1>7, <2>1 DEF VisitEnds, ProgramInv
  <2>5. main' = "done" => ended' = Calls
    <3>1. main' = "done" => main = "done"
      BY <1>7 DEF VisitEnds
    <3>2. main # "done"
      BY <1>7 DEF VisitEnds, ProgramInv
    <3> QED BY <3>1, <3>2
  <2> QED BY <2>3, <2>4, <2>5 DEF ProgramInv
<1> QED
  BY <1>1, <1>2, <1>3, <1>4, <1>5, <1>6, <1>7 DEF ToolNext, MainNext, VisitNext

LEMMA ProgramCorrect == ToolSpec => [](CacheInv /\ ProgramInv)
  BY CacheInvInit, CacheInvStep, ProgramInit, ProgramStep, PTL DEF ToolSpec

(* The tools only do with the cache what Spec of ConnectionCache has: all   *)
(* theorems about the cache hold while they run.                            *)
THEOREM ToolsUseTheCache == ToolSpec => Spec
<1>1. ToolInit => Init
  BY DEF ToolInit
<1> QED BY <1>1, ToolStepIsCacheStep, PTL DEF ToolSpec, Spec

(* The cache, its timers and the frame of crawl are destroyed only when     *)
(* every call is over and every handler has run.                            *)
THEOREM CacheOutlives == ToolSpec => []CacheOutlivesCalls
<1>1. CacheInv /\ ProgramInv => CacheOutlivesCalls
  BY DEF ProgramInv, CacheOutlivesCalls
<1> QED BY <1>1, ProgramCorrect, PTL

(* crawl never sleeps with no visit pending, whose end would wake it.       *)
THEOREM CompletionsHeard == ToolSpec => []NoLostCompletion
<1>1. CacheInv /\ ProgramInv => NoLostCompletion
  BY DEF ProgramInv, NoLostCompletion
<1> QED BY <1>1, ProgramCorrect, PTL
=============================================================================
