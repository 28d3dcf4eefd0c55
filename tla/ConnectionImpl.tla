---------------------------- MODULE ConnectionImpl ----------------------------
(***************************************************************************)
(* http::connection_impl: one connection object of the pool.  Its          *)
(* rest_calls come one at a time (NoSharedConnection of ConnectionCache).  *)
(* A rest_call writes its request and reads the response; when that fails, *)
(* other than by a stop, it connects anew and tries once more.  It         *)
(* suspends in connect, in async_write and in async_read, and meanwhile    *)
(* the peer answers, closes or resets, a Beast timeout closes the socket,  *)
(* or the caller stops the call.                                           *)
(*                                                                         *)
(* A response is two parts, cut somewhere in its header, and a read brings *)
(* one of them or both: Beast parses a header when all of it is there, and *)
(* until then its bytes stay in buf_.  The peer answers each request that  *)
(* it was sent with one message, in their order, or not at all.            *)
(***************************************************************************)
EXTENDS Integers, Sequences, FiniteSets

CONSTANT Calls   \* the invocations of rest_call, numbered in their order

ASSUME ImplAssumption == Calls \subseteq Nat /\ IsFiniteSet(Calls)

VARIABLES
  pc,         \* where the coroutine of the current call is
  call,       \* the current, or the last, of the calls
  retried,    \* whether it is past its connect
  stopped,    \* the calls whose stop_source was stopped
  cancelled,  \* whether a stop cancelled the transfer under way
  outcome,    \* [call |-> what rest_call gave it]
  stream_,    \* variant_stream: monostate, or how its socket is
  buf_,       \* the parts read and not parsed
  wire,       \* the parts the peer has sent and nobody has read
  owed,       \* the parts the peer has yet to send
  conn,       \* the number of connections made so far
  sentOn,     \* [call |-> the connections on which its request began to be written]
  answer      \* [call |-> the parts of the response it was given]

callVars == <<pc, call, retried, outcome, answer>>
netVars == <<wire, owed>>
vars == <<callVars, stopped, cancelled, stream_, buf_, netVars, conn, sentOn>>

-----------------------------------------------------------------------------
Errors == {"error", "aborted"}

(* "up", the peer sent a FIN, or it sent a RST. *)
Open == {"up", "fin", "reset"}

Parts ==
  [call : Calls, conn : Nat, kind : {"head", "tail"}, keep_alive : BOOLEAN]

TypeOK ==
  /\ pc \in {"idle", "connect", "write", "read", "destroyed"}
  /\ call \in Calls
  /\ retried \in BOOLEAN
  /\ stopped \subseteq Calls
  /\ cancelled \in BOOLEAN
  /\ outcome \in [Calls -> {"none", "ok", "thrown"} \cup Errors]
  /\ stream_ \in {"monostate"} \cup Open
  /\ buf_ \in Seq(Parts)
  /\ wire \in Seq(Parts)
  /\ owed \in Seq(Parts)
  /\ conn \in 0..Cardinality(Calls)
  /\ sentOn \in [Calls -> Seq(1..conn)]
  /\ answer \in [Calls -> Seq(Parts)]

Init ==
  /\ pc = "idle"
  /\ call \in Calls
  /\ retried = FALSE
  /\ stopped = {}
  /\ cancelled = FALSE
  /\ outcome = [c \in Calls |-> "none"]
  /\ stream_ = "monostate"
  /\ buf_ = <<>>
  /\ wire = <<>>
  /\ owed = <<>>
  /\ conn = 0
  /\ sentOn = [c \in Calls |-> <<>>]
  /\ answer = [c \in Calls |-> <<>>]

-----------------------------------------------------------------------------
(* How a rest_call ends.                                                    *)

Return(c, result, message) ==
  /\ pc' = "idle"
  /\ outcome' = [outcome EXCEPT ![c] = result]
  /\ answer' = [answer EXCEPT ![c] = message]
  /\ cancelled' = FALSE

(* An exception leaves rest_call: the owner of the connection is unwound    *)
(* and the connection destroyed.                                            *)
Throw(c) ==
  /\ pc' = "destroyed"
  /\ outcome' = [outcome EXCEPT ![c] = "thrown"]
  /\ stream_' = "monostate"
  /\ cancelled' = FALSE
  /\ UNCHANGED answer

(* Mutant: a failed attempt leaves its stream open. *)
LeaveOpen == UNCHANGED stream_

(* variant_stream::close.                                                   *)
Close == stream_' = "monostate"

(* Mutant: connect does not look at the stop token. *)
AnyCall(c) == TRUE

MayConnect(c) == c \notin stopped

(* connect, up to the resolver: it returns at once when the call is stopped. *)
StartConnect(c) ==
  \/ ~MayConnect(c) /\ Return(c, "aborted", <<>>)
  \/ /\ MayConnect(c)
     /\ pc' = "connect"
     /\ cancelled' = FALSE
     /\ UNCHANGED <<outcome, answer>>

(* Mutant: any error is worth a second attempt, and a third. *)
RetryAlways(c, ec) == StartConnect(c)

(* Line 33: an error other than operation_aborted is worth one retry.       *)
RetryOrReturn(c, ec) ==
  \/ /\ ec # "aborted" /\ ~retried
     /\ StartConnect(c)
  \/ /\ ec = "aborted" \/ retried
     /\ Return(c, ec, <<>>)

(* An attempt ends with ec.  Its shutdown throws when the socket is not     *)
(* connected any more (line 94); else the stream is closed.                 *)
Fail(c, ec) ==
  \/ /\ stream_ = "reset"
     /\ Throw(c)
  \/ /\ stream_ # "reset"
     /\ Close
     /\ RetryOrReturn(c, ec)

(* An attempt has read a response.  One that needs eof closes the stream,   *)
(* and an error of its shutdown replaces the success (line 98).             *)
Succeed(c, message) ==
  LET keep_alive == message[Len(message)].keep_alive
  IN  \/ /\ keep_alive
         /\ Return(c, "ok", message)
         /\ UNCHANGED stream_
      \/ /\ ~keep_alive /\ stream_ # "reset"
         /\ Close
         /\ Return(c, "ok", message)
      \/ /\ ~keep_alive /\ stream_ = "reset"
         /\ Close
         /\ RetryOrReturn(c, "error")

-----------------------------------------------------------------------------
(* async_read on a buffer.  The parser waits for the end of a header.  It    *)
(* takes a header that starts with a status line off the buffer, and with   *)
(* it the stale parts before the header's own, which pass for its fields.   *)
(* Or it refuses what it has seen: a response that is malformed or exceeds  *)
(* body_limit, or one that a stale part has spoilt.                         *)
Ends(b) == {i \in 1..Len(b) : b[i].kind = "tail"}

(* The part at which a header ends, or the last so far. *)
Seen(b) ==
  {i \in 1..Len(b) : (i = Len(b) \/ i \in Ends(b)) /\ \A j \in 1..(i - 1) : j \notin Ends(b)}

(* A header that starts with a status line ends at part i. *)
HasHeader(b, i) == b[1].kind = "head" /\ i \in Ends(b)

(* What a parser leaves of b when it refuses what ends at part i: the parts  *)
(* behind those it has used up, or some of a part as well, which then begins *)
(* no header.  So does a first part of which it has used nothing.           *)
Leftovers(b, i) ==
  {SubSeq(b, n, Len(b)) : n \in 2..(i + 1)} \cup
  {[SubSeq(b, n, Len(b)) EXCEPT ![1].kind = "tail"] : n \in 1..i}

Parse(c, b) ==
  \/ /\ \A i \in Seen(b) : ~HasHeader(b, i)
     /\ pc' = "read"
     /\ buf_' = b
     /\ UNCHANGED <<outcome, answer, cancelled, stream_>>
  \/ \E i \in Seen(b) :
       \/ /\ HasHeader(b, i)
          /\ Succeed(c, SubSeq(b, 1, i))
          /\ buf_' = SubSeq(b, i + 1, Len(b))
       \/ /\ Fail(c, "error")
          /\ buf_' \in Leftovers(b, i)

(* What is under way on the transport, gone when the stream is closed.      *)
Transport(unread, unsent) ==
  /\ wire' = IF stream_' = "monostate" THEN <<>> ELSE unread
  /\ owed' = IF stream_' = "monostate" THEN <<>> ELSE unsent

-----------------------------------------------------------------------------
(* The steps of the coroutine.                                              *)

(* async_write of the request begins on a connection. *)
SentOnto(c, connection) == [sentOn EXCEPT ![c] = Append(@, connection)]

(* The pool hands the connection to a call: it writes on an open stream,    *)
(* unless the call is stopped already, and connects a closed one.           *)
RestCall(c) ==
  /\ pc = "idle" /\ outcome[c] = "none"
  /\ \A d \in Calls : d < c => outcome[d] # "none"
  /\ call' = c
  /\ retried' = FALSE
  /\ \/ /\ stream_ = "monostate"
        /\ StartConnect(c)
        /\ UNCHANGED stream_
     \/ /\ stream_ # "monostate" /\ c \in stopped
        /\ Fail(c, "aborted")
     \/ /\ stream_ # "monostate" /\ c \notin stopped
        /\ pc' = "write"
        /\ UNCHANGED <<stream_, outcome, answer, cancelled>>
  /\ sentOn' = IF pc' = "write" THEN SentOnto(c, conn) ELSE sentOn
  /\ Transport(wire, owed)
  /\ UNCHANGED <<stopped, buf_, conn>>

(* connect succeeds, and the attempt begins on a socket to which the peer   *)
(* may have done something meanwhile.                                       *)
ConnectSucceeds(c) ==
  /\ pc = "connect" /\ call = c
  /\ conn' = conn + 1
  /\ retried' = TRUE
  /\ \E s \in Open :
       \/ /\ c \notin stopped
          /\ pc' = "write"
          /\ stream_' = s
          /\ UNCHANGED <<outcome, answer, cancelled>>
       \/ /\ c \in stopped /\ s # "reset"
          /\ Close
          /\ Return(c, "aborted", <<>>)
       \/ /\ c \in stopped /\ s = "reset"
          /\ Throw(c)
  /\ sentOn' = IF pc' = "write" THEN SentOnto(c, conn') ELSE sentOn
  /\ UNCHANGED <<call, stopped, buf_, netVars>>

ConnectFails(c) ==
  /\ pc = "connect" /\ call = c
  /\ \E ec \in {"error"} \cup {e \in {"aborted"} : c \in stopped} : Return(c, ec, <<>>)
  /\ UNCHANGED <<call, retried, stopped, stream_, buf_, netVars, conn, sentOn>>

(* The parts of a response to c on the current connection.                  *)
Response(c, keep_alive) ==
  LET part(kind) == [call |-> c, conn |-> conn, kind |-> kind, keep_alive |-> keep_alive]
  IN  <<part("head"), part("tail")>>

(* async_write completes.  A stop may have come too late to cancel it; if   *)
(* not, async_read begins, with what buf_ has.                              *)
WriteDone(c) ==
  /\ pc = "write" /\ call = c /\ ~cancelled
  /\ stream_ \in {"up", "fin"}
  /\ \/ /\ c \in stopped
        /\ Fail(c, "aborted")
        /\ UNCHANGED buf_
     \/ /\ c \notin stopped
        /\ Parse(c, buf_)
  /\ \E keep_alive \in BOOLEAN :
       Transport(wire, IF stream_ = "up" THEN owed \o Response(c, keep_alive) ELSE <<>>)
  /\ UNCHANGED <<call, retried, stopped, conn, sentOn>>

(* A read of async_read brings some of the parts on the wire.               *)
ReadSome(c) ==
  /\ pc = "read" /\ call = c /\ ~cancelled
  /\ \E n \in 1..Len(wire) :
       /\ Parse(c, buf_ \o SubSeq(wire, 1, n))
       /\ Transport(SubSeq(wire, n + 1, Len(wire)), owed)
  /\ UNCHANGED <<call, retried, stopped, conn, sentOn>>

(* What a transfer that breaks off leaves in buf_: a header of which not    *)
(* all has come, or, of a body behind its header, a chunk line that is cut. *)
BrokenOff ==
  LET unread == buf_ \o wire \o owed
      bodies == {i \in Seen(unread) : pc = "read" /\ HasHeader(unread, i)}
  IN  {buf_} \cup {<<unread[i]>> : i \in bodies}

(* async_write or async_read fails: cancelled by a stop, at the end of the  *)
(* stream or on a reset.                                                    *)
TransferFails(c) ==
  /\ pc \in {"write", "read"} /\ call = c
  /\ \/ /\ cancelled
        /\ Fail(c, "aborted")
     \/ /\ ~cancelled
        /\ stream_ = "reset" \/ (pc = "read" /\ stream_ = "fin" /\ wire = <<>>)
        /\ Fail(c, "error")
  /\ buf_' \in BrokenOff
  /\ Transport(wire, owed)
  /\ UNCHANGED <<call, retried, stopped, conn, sentOn>>

(* Mutant: only async_write is given a timeout. *)
TimedWrite == {"write"}

TimedTransfers == {"write", "read"}

(* expires_after: Beast closes the socket and the transfer fails with       *)
(* timeout; the shutdown of the closed socket throws.                       *)
Timeout(c) ==
  /\ pc \in TimedTransfers /\ call = c
  /\ Throw(c)
  /\ Transport(<<>>, <<>>)
  /\ UNCHANGED <<call, retried, stopped, buf_, conn, sentOn>>

-----------------------------------------------------------------------------
(* The caller and the peer.                                                 *)

(* stop: the slot cancels a transfer of the call, which does nothing to one *)
(* that is already complete or is between two of its steps.                 *)
Stop(c) ==
  /\ c \notin stopped /\ outcome[c] = "none"
  /\ stopped' = stopped \cup {c}
  /\ \/ /\ call = c /\ pc \in {"write", "read"}
        /\ cancelled' = TRUE
     \/ UNCHANGED cancelled
  /\ UNCHANGED <<callVars, stream_, buf_, netVars, conn, sentOn>>

PeerReplies ==
  /\ stream_ = "up" /\ owed # <<>>
  /\ wire' = Append(wire, Head(owed))
  /\ owed' = Tail(owed)
  /\ UNCHANGED <<callVars, stopped, cancelled, stream_, buf_, conn, sentOn>>

PeerCloses ==
  /\ stream_ = "up"
  /\ stream_' = "fin"
  /\ owed' = <<>>
  /\ UNCHANGED <<callVars, stopped, cancelled, buf_, wire, conn, sentOn>>

PeerResets ==
  /\ stream_ \in {"up", "fin"}
  /\ stream_' = "reset"
  /\ owed' = <<>>
  /\ UNCHANGED <<callVars, stopped, cancelled, buf_, wire, conn, sentOn>>

Next ==
  \/ \E c \in Calls :
       \/ RestCall(c)
       \/ ConnectSucceeds(c)
       \/ ConnectFails(c)
       \/ WriteDone(c)
       \/ ReadSome(c)
       \/ TransferFails(c)
       \/ Timeout(c)
       \/ Stop(c)
  \/ PeerReplies
  \/ PeerCloses
  \/ PeerResets

Spec == Init /\ [][Next]_vars

(* stream_.connect ends, by its own timeouts if not before, and each        *)
(* transfer has a timeout.  The peer need not do anything.                  *)
Fairness ==
  \A c \in Calls :
    /\ WF_vars(ConnectSucceeds(c) \/ ConnectFails(c))
    /\ WF_vars(Timeout(c))

FairSpec == Spec /\ Fairness

-----------------------------------------------------------------------------
(* Properties                                                               *)

(* What a closed stream should be: nothing of what was read from it is left *)
(* for the next one.  rest_call does not see to it: a stop, an end of       *)
(* stream or a refused response may leave bytes in buf_.                    *)
ClosedIsDrained == pc # "destroyed" /\ stream_ = "monostate" => buf_ = <<>>

(* A call that succeeds is given the response to its own request, all of it *)
(* from the connection on which the request was last written: nothing of an *)
(* earlier call's or an earlier connection's.                               *)
AnswersOwnRequest ==
  \A c \in Calls : outcome[c] = "ok" =>
    \A i \in 1..Len(answer[c]) :
      /\ answer[c][i].call = c
      /\ answer[c][i].conn = sentOn[c][Len(sentOn[c])]

(* A stream left open for the next call has nothing outstanding: the last   *)
(* call's response was read to its end, and no answer to a call that failed *)
(* or was stopped can come in late.                                         *)
IdleStreamIsDrained ==
  pc = "idle" /\ stream_ # "monostate" =>
    /\ outcome[call] = "ok"
    /\ buf_ = <<>> /\ wire = <<>> /\ owed = <<>>

(* Both hold unless a stream was closed with bytes of it left in buf_: what *)
(* retries, stops, timeouts, late answers and ends of stream do to an open  *)
(* stream, or leave on it for the next call, never makes them fail.         *)
AnswersUnlessStale == []ClosedIsDrained => []AnswersOwnRequest

DrainedUnlessStale == []ClosedIsDrained => []IdleStreamIsDrained

(* The request of a call begins to be written once, or once more when the   *)
(* first time was on a connection that an earlier call had left open, and   *)
(* then on a new one.                                                       *)
SentAgainOnlyAfterReuse ==
  \A c \in Calls :
    /\ Len(sentOn[c]) <= 2
    /\ Len(sentOn[c]) = 2 =>
         /\ sentOn[c][1] < sentOn[c][2]
         /\ \E d \in Calls \ {c} :
              outcome[d] = "ok" /\ sentOn[d][Len(sentOn[d])] = sentOn[c][1]

(* Once its stop_source is stopped, a call begins no connect, no write and  *)
(* no read.                                                                 *)
StopIsFinal ==
  [][call' \in stopped /\ pc' # pc => pc' \notin {"connect", "write", "read"}]_vars

(* Every rest_call ends, which is what the pool's waiters rely on.          *)
RestCallEnds == pc # "idle" ~> pc \in {"idle", "destroyed"}

(* The connection object keeps what Exchange promises: it sends a request   *)
(* at most twice, never after a stop, does not give a call up before it has *)
(* tried a new connection, and throws only when it is destroyed.            *)
Promise == INSTANCE Exchange WITH
             serving     <- IF pc \in {"connect", "write", "read"} THEN {call} ELSE {},
             stream      <- IF pc = "destroyed"            THEN "destroyed"
                            ELSE IF stream_ = "monostate" THEN "closed" ELSE "open",
             may_connect <- ~retried,
             sent        <- [c \in Calls |-> Len(sentOn[c])],
             result      <- outcome

ImplementsExchange == Promise!Spec
=============================================================================
