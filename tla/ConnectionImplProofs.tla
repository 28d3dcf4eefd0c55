------------------------- MODULE ConnectionImplProofs -------------------------
(***************************************************************************)
(* One connection object, for any number of calls and any peer: its types, *)
(* how often it sends a request, and the promise of Exchange; and, unless  *)
(* a closed stream leaves bytes in buf_, that nobody is given another's    *)
(* response.                                                               *)
(***************************************************************************)
EXTENDS ConnectionImpl, FiniteSetTheorems, SequenceTheorems, TLAPS

Active == {"connect", "write", "read"}

(* The calls that may have connected. *)
Connected == {c \in Calls : outcome[c] # "none" \/ (c = call /\ retried)}

(* What pc says of the rest. *)
Control ==
  /\ pc = "connect" => ~retried
  /\ pc \in {"connect", "destroyed"} => stream_ = "monostate"
  /\ pc \in {"write", "read"} => stream_ \in Open
  /\ pc \in Active => outcome[call] = "none"
  /\ pc = "destroyed" => outcome[call] = "thrown"
  /\ pc = "idle" /\ retried => outcome[call] # "none"
  /\ pc = "idle" /\ stream_ # "monostate" => outcome[call] = "ok"
  /\ stream_ # "monostate" => conn >= 1
  /\ cancelled => pc \in {"write", "read"} /\ call \in stopped

CoreInv == TypeOK /\ Control /\ conn <= Cardinality(Connected)

-----------------------------------------------------------------------------
(* What a transfer may come to.                                             *)

(* An attempt fails: the object is destroyed, or its stream closed.  Then   *)
(* the call connects, if it has not and is not stopped, or is over.         *)
AttemptFails(c) ==
  \/ Throw(c)
  \/ /\ Close
     /\ ~retried /\ MayConnect(c)
     /\ pc' = "connect" /\ cancelled' = FALSE
     /\ UNCHANGED <<outcome, answer>>
  \/ /\ Close
     /\ \E r \in Errors :
          /\ Return(c, r, <<>>)
          /\ r = "error" => retried
          /\ r = "aborted" => c \in stopped

Answered(c) ==
  /\ \E message \in Seq(Parts) : Return(c, "ok", message)
  /\ stream_' \in {stream_, "monostate"}

Waits == pc' = "read" /\ UNCHANGED <<outcome, answer, cancelled, stream_>>

TransferStep(c) ==
  /\ pc \in {"write", "read"} /\ call = c
  /\ UNCHANGED <<call, retried, stopped, conn, sentOn>>
  /\ AttemptFails(c) \/ Answered(c) \/ (Waits /\ (pc = "read" \/ c \notin stopped))

BuffersTyped == buf_ \in Seq(Parts) /\ wire \in Seq(Parts) /\ owed \in Seq(Parts)

LEMMA FailFails ==
  ASSUME NEW c, NEW ec \in Errors, Fail(c, ec), ec = "aborted" => c \in stopped
  PROVE  AttemptFails(c)
  BY Zenon DEF Fail, RetryOrReturn, StartConnect, MayConnect, AttemptFails, Errors

LEMMA SucceedEnds ==
  ASSUME NEW c, NEW message \in Seq(Parts), Succeed(c, message)
  PROVE  AttemptFails(c) \/ Answered(c)
<1>1. CASE Return(c, "ok", message) /\ stream_' \in {stream_, "monostate"}
  BY <1>1 DEF Answered
<1>2. CASE Close /\ RetryOrReturn(c, "error")
  BY <1>2 DEF RetryOrReturn, StartConnect, MayConnect, AttemptFails, Errors
<1> QED BY <1>1, <1>2 DEF Succeed, Close

LEMMA SubSeqTyped ==
  ASSUME NEW S, NEW s \in Seq(S), NEW m \in Int, NEW n \in Int, m >= 1, n <= Len(s)
  PROVE  SubSeq(s, m, n) \in Seq(S)
<1>1. \A i \in m..n : s[i] \in S
  <2> SUFFICES ASSUME NEW i \in m..n PROVE s[i] \in S
    OBVIOUS
  <2>1. i \in 1..Len(s)
    BY LenProperties
  <2> QED BY <2>1, ElementOfSeq
<1> QED BY <1>1, SubSeqProperties

(* A transfer that breaks off leaves a sequence of parts. *)
LEMMA BrokenOffTyped ==
  ASSUME TypeOK, NEW b \in BrokenOff
  PROVE  b \in Seq(Parts)
<1> DEFINE unread == buf_ \o wire \o owed
<1>1. buf_ \in Seq(Parts) /\ wire \in Seq(Parts) /\ owed \in Seq(Parts)
  BY DEF TypeOK
<1>2. buf_ \o wire \in Seq(Parts)
  BY <1>1, ConcatProperties
<1>3. unread \in Seq(Parts)
  BY <1>1, <1>2, ConcatProperties
<1> HIDE DEF unread
<1>4. ASSUME NEW i \in 1..Len(unread) PROVE <<unread[i]>> \in Seq(Parts)
  <2>1. unread[i] \in Parts
    BY <1>3, ElementOfSeq
  <2> QED BY <2>1
<1>5. b = buf_ \/ \E i \in Seen(unread) : b = <<unread[i]>>
  BY DEF BrokenOff, unread
<1> QED BY <1>1, <1>4, <1>5 DEF Seen

LEMMA LeftoversTyped ==
  ASSUME NEW b \in Seq(Parts), NEW i \in 1..Len(b), NEW l \in Leftovers(b, i)
  PROVE  l \in Seq(Parts)
<1>0. Len(b) \in Nat
  BY LenProperties
<1>1. ASSUME NEW n \in 1..(i + 1) PROVE SubSeq(b, n, Len(b)) \in Seq(Parts)
  <2>1. n \in Int /\ n >= 1 /\ Len(b) \in Int /\ Len(b) <= Len(b)
    BY <1>0
  <2> QED BY <2>1, SubSeqTyped
<1>2. ASSUME NEW n \in 1..i
      PROVE  [SubSeq(b, n, Len(b)) EXCEPT ![1].kind = "tail"] \in Seq(Parts)
  <2> DEFINE s == SubSeq(b, n, Len(b))
  <2>1. s \in Seq(Parts)
    BY <1>0, <1>1
  <2>2. Len(s) \in Nat /\ \A j \in 1..Len(s) : s[j] \in Parts
    BY <2>1, LenProperties, ElementOfSeq
  <2>3. 1 \in 1..Len(s)
    <3>1. n <= Len(b) /\ n \in Int
      BY <1>0
    <3>2. \A j \in n..Len(b) : b[j] \in Parts
      BY <1>0, ElementOfSeq
    <3>3. Len(s) = IF n <= Len(b) THEN Len(b) - n + 1 ELSE 0
      BY <1>0, <3>1, <3>2, SubSeqProperties
    <3> HIDE DEF s
    <3> QED BY <1>0, <3>1, <3>3
  <2> HIDE DEF s
  <2>4. [s[1] EXCEPT !.kind = "tail"] \in Parts
    BY <2>2, <2>3 DEF Parts
  <2>5. [s EXCEPT ![1] = [s[1] EXCEPT !.kind = "tail"]] \in Seq(Parts)
    BY <2>1, <2>3, <2>4, ExceptSeq
  <2>6. [s EXCEPT ![1].kind = "tail"] = [s EXCEPT ![1] = [s[1] EXCEPT !.kind = "tail"]]
    OBVIOUS
  <2> QED BY <2>5, <2>6 DEF s
<1>3. CASE \E n \in 2..(i + 1) : l = SubSeq(b, n, Len(b))
  BY <1>0, <1>1, <1>3
<1>4. CASE \E n \in 1..i : l = [SubSeq(b, n, Len(b)) EXCEPT ![1].kind = "tail"]
  BY <1>2, <1>4
<1> QED BY <1>3, <1>4 DEF Leftovers

LEMMA ParseEnds ==
  ASSUME NEW c, NEW b \in Seq(Parts), Parse(c, b)
  PROVE  /\ AttemptFails(c) \/ Answered(c) \/ Waits
         /\ buf_' \in Seq(Parts)
<1>1. CASE pc' = "read" /\ buf_' = b /\ UNCHANGED <<outcome, answer, cancelled, stream_>>
  BY <1>1 DEF Waits
<1>2. ASSUME NEW i \in Seen(b),
             Succeed(c, SubSeq(b, 1, i)), buf_' = SubSeq(b, i + 1, Len(b))
      PROVE  (AttemptFails(c) \/ Answered(c)) /\ buf_' \in Seq(Parts)
  <2>1. i \in 1..Len(b) /\ Len(b) \in Nat
    BY LenProperties DEF Seen
  <2>2. SubSeq(b, 1, i) \in Seq(Parts) /\ SubSeq(b, i + 1, Len(b)) \in Seq(Parts)
    BY <2>1, SubSeqTyped
  <2> QED BY <1>2, <2>2, SucceedEnds
<1>3. ASSUME NEW i \in Seen(b), Fail(c, "error"), buf_' \in Leftovers(b, i)
      PROVE  AttemptFails(c) /\ buf_' \in Seq(Parts)
  <2>1. i \in 1..Len(b)
    BY DEF Seen
  <2>2. buf_' \in Seq(Parts)
    BY <1>3, <2>1, LeftoversTyped
  <2> QED BY <1>3, <2>2, FailFails DEF Errors
<1> QED BY <1>1, <1>2, <1>3 DEF Parse

LEMMA TransportTyped ==
  ASSUME NEW r \in Seq(Parts), NEW s \in Seq(Parts), Transport(r, s)
  PROVE  wire' \in Seq(Parts) /\ owed' \in Seq(Parts)
<1>1. <<>> \in Seq(Parts)
  BY EmptySeq
<1> QED BY <1>1 DEF Transport

LEMMA ResponseTyped ==
  ASSUME NEW c \in Calls, NEW keep_alive \in BOOLEAN, conn \in Nat
  PROVE  Response(c, keep_alive) \in Seq(Parts)
<1> DEFINE part(kind) == [call |-> c, conn |-> conn, kind |-> kind, keep_alive |-> keep_alive]
<1>1. part("head") \in Parts /\ part("tail") \in Parts
  BY DEF Parts
<1>2. Response(c, keep_alive) = <<part("head"), part("tail")>>
  BY DEF Response
<1> HIDE DEF part
<1> QED BY <1>1, <1>2

LEMMA TransferSteps ==
  ASSUME TypeOK, Control, NEW c \in Calls,
         WriteDone(c) \/ ReadSome(c) \/ TransferFails(c) \/ Timeout(c)
  PROVE  TransferStep(c) /\ BuffersTyped'
<1> USE DEF TypeOK, BuffersTyped
<1>e. <<>> \in Seq(Parts)
  BY EmptySeq
<1>1. CASE WriteDone(c)
  <2>1. wire' \in Seq(Parts) /\ owed' \in Seq(Parts)
    <3>1. PICK keep_alive \in BOOLEAN :
            Transport(wire, IF stream_ = "up" THEN owed \o Response(c, keep_alive) ELSE <<>>)
      BY <1>1 DEF WriteDone
    <3>2. Response(c, keep_alive) \in Seq(Parts)
      BY ResponseTyped
    <3>3. owed \o Response(c, keep_alive) \in Seq(Parts)
      BY <3>2, ConcatProperties
    <3> QED BY <1>e, <3>1, <3>3, TransportTyped
  <2>2. CASE c \in stopped
    <3>1. Fail(c, "aborted") /\ UNCHANGED buf_
      BY <1>1, <2>2 DEF WriteDone
    <3>2. AttemptFails(c)
      BY <2>2, <3>1, FailFails DEF Errors
    <3> QED BY <1>1, <2>1, <3>1, <3>2 DEF WriteDone, TransferStep
  <2>3. CASE c \notin stopped
    <3>1. Parse(c, buf_)
      BY <1>1, <2>3 DEF WriteDone
    <3>2. (AttemptFails(c) \/ Answered(c) \/ Waits) /\ buf_' \in Seq(Parts)
      BY <3>1, ParseEnds
    <3> QED BY <1>1, <2>1, <2>3, <3>2 DEF WriteDone, TransferStep
  <2> QED BY <2>2, <2>3
<1>2. CASE ReadSome(c)
  <2>1. PICK n \in 1..Len(wire) :
          /\ Parse(c, buf_ \o SubSeq(wire, 1, n))
          /\ Transport(SubSeq(wire, n + 1, Len(wire)), owed)
    BY <1>2 DEF ReadSome
  <2>2. Len(wire) \in Nat
    BY LenProperties
  <2>3. SubSeq(wire, 1, n) \in Seq(Parts) /\ SubSeq(wire, n + 1, Len(wire)) \in Seq(Parts)
    BY <2>2, SubSeqTyped
  <2>4. buf_ \o SubSeq(wire, 1, n) \in Seq(Parts)
    BY <2>3, ConcatProperties
  <2>5. (AttemptFails(c) \/ Answered(c) \/ Waits) /\ buf_' \in Seq(Parts)
    BY <2>1, <2>4, ParseEnds
  <2>6. wire' \in Seq(Parts) /\ owed' \in Seq(Parts)
    BY <2>1, <2>3, TransportTyped
  <2> QED BY <1>2, <2>5, <2>6 DEF ReadSome, TransferStep
<1>3. CASE TransferFails(c)
  <2>1. PICK ec \in Errors : Fail(c, ec) /\ (ec = "aborted" => c \in stopped)
    BY <1>3 DEF TransferFails, Control, Errors
  <2>2. AttemptFails(c)
    BY <2>1, FailFails
  <2>3. wire' \in Seq(Parts) /\ owed' \in Seq(Parts)
    BY <1>3, TransportTyped DEF TransferFails
  <2>4. buf_' \in Seq(Parts)
    BY <1>3, BrokenOffTyped DEF TransferFails
  <2> QED BY <1>3, <2>2, <2>3, <2>4 DEF TransferFails, TransferStep
<1>4. CASE Timeout(c)
  <2>1. wire' \in Seq(Parts) /\ owed' \in Seq(Parts)
    BY <1>4, <1>e, TransportTyped DEF Timeout
  <2> QED BY <1>4, <2>1 DEF Timeout, TimedTransfers, TransferStep, AttemptFails
<1> QED BY <1>1, <1>2, <1>3, <1>4
-----------------------------------------------------------------------------
(* The peer acts on the wire and on an open stream. *)
PeerStep ==
  /\ stream_ \in Open /\ stream_' \in Open
  /\ UNCHANGED <<callVars, stopped, cancelled, buf_, conn, sentOn>>

LEMMA PeerSteps ==
  ASSUME TypeOK, PeerReplies \/ PeerCloses \/ PeerResets
  PROVE  PeerStep /\ BuffersTyped'
<1> USE DEF TypeOK, BuffersTyped
<1>e. <<>> \in Seq(Parts)
  BY EmptySeq
<1>1. CASE PeerReplies
  <2>1. Head(owed) \in Parts /\ Tail(owed) \in Seq(Parts)
    BY <1>1, HeadTailProperties DEF PeerReplies
  <2>2. Append(wire, Head(owed)) \in Seq(Parts)
    BY <2>1, AppendProperties
  <2> QED BY <1>1, <2>1, <2>2 DEF PeerReplies, PeerStep, Open
<1>2. CASE PeerCloses
  BY <1>2, <1>e DEF PeerCloses, PeerStep, Open
<1>3. CASE PeerResets
  BY <1>3, <1>e DEF PeerResets, PeerStep, Open
<1> QED BY <1>1, <1>2, <1>3

LEMMA NextSteps ==
  ASSUME TypeOK, Control, [Next]_vars
  PROVE  \/ \E c \in Calls :
              \/ RestCall(c) \/ ConnectSucceeds(c) \/ ConnectFails(c) \/ Stop(c)
              \/ TransferStep(c) /\ BuffersTyped'
         \/ PeerStep /\ BuffersTyped'
         \/ UNCHANGED vars
  BY TransferSteps, PeerSteps DEF Next

-----------------------------------------------------------------------------
(* The connections are no more than the calls. *)
LEMMA CallsFinite ==
  ASSUME NEW S \in SUBSET Calls
  PROVE  /\ IsFiniteSet(S)
         /\ Cardinality(S) \in Nat
         /\ Cardinality(S) <= Cardinality(Calls)
  BY ImplAssumption, FS_Subset, FS_CardinalityType

LEMMA ConnectionsCounted ==
  ASSUME CoreInv, Connected \subseteq Connected',
         \/ conn' = conn
         \/ conn' = conn + 1 /\ \E c \in Connected' : c \notin Connected
  PROVE  conn' <= Cardinality(Connected') /\ conn' \in 0..Cardinality(Calls)
<1>1. conn \in Nat /\ conn <= Cardinality(Connected)
  BY DEF CoreInv, TypeOK
<1>2. Cardinality(Calls) \in Nat /\ Cardinality(Connected) \in Nat
  BY ImplAssumption, FS_CardinalityType, CallsFinite DEF Connected
<1>3. /\ IsFiniteSet(Connected') /\ Cardinality(Connected') \in Nat
      /\ Cardinality(Connected') <= Cardinality(Calls)
  <2>1. Connected' \in SUBSET Calls
    BY DEF Connected
  <2> QED BY <2>1, CallsFinite
<1>4. Cardinality(Connected) <= Cardinality(Connected')
  BY <1>3, FS_Subset
<1>5. Cardinality(Connected') = Cardinality(Connected) => Connected' = Connected
  BY <1>3, FS_Subset
<1> QED BY <1>1, <1>2, <1>3, <1>4, <1>5

LEMMA SeqGrows ==
  ASSUME NEW m \in Nat, NEW s \in Seq(1..m)
  PROVE  s \in Seq(1..(m + 1)) /\ Append(s, m + 1) \in Seq(1..(m + 1))
<1>1. s \in Seq(1..(m + 1))
  BY SeqMonotonic
<1> QED BY <1>1, AppendProperties
-----------------------------------------------------------------------------
(* Types and control: each kind of step keeps CoreInv.                      *)

LEMMA CoreInit == Init => CoreInv
<1> SUFFICES ASSUME Init PROVE CoreInv
  OBVIOUS
<1>1. Cardinality(Calls) \in Nat /\ Cardinality(Connected) \in Nat
  BY ImplAssumption, FS_CardinalityType, CallsFinite DEF Connected
<1>2. <<>> \in Seq(Parts) /\ <<>> \in Seq(1..conn)
  BY EmptySeq
<1>3. TypeOK
  <2>1. /\ buf_ \in Seq(Parts) /\ wire \in Seq(Parts) /\ owed \in Seq(Parts)
        /\ conn \in 0..Cardinality(Calls)
    BY <1>1, <1>2 DEF Init
  <2>2. sentOn \in [Calls -> Seq(1..conn)] /\ answer \in [Calls -> Seq(Parts)]
    BY <1>2 DEF Init
  <2> QED BY <2>1, <2>2 DEF Init, TypeOK
<1>4. Control
  BY DEF Init, Control, Active
<1> QED BY <1>1, <1>3, <1>4 DEF CoreInv, Init

LEMMA CoreConnectSucceeds ==
  ASSUME CoreInv, NEW c \in Calls, ConnectSucceeds(c)
  PROVE  CoreInv'
<1> USE DEF CoreInv
<1>1. /\ pc = "connect" /\ call = c /\ ~retried /\ outcome[c] = "none"
      /\ call' = c /\ retried' /\ conn' = conn + 1 /\ c \notin Connected
  BY DEF ConnectSucceeds, Control, Active, Connected
<1>2. PICK s \in Open :
        \/ /\ c \notin stopped /\ pc' = "write" /\ stream_' = s
           /\ UNCHANGED <<outcome, answer, cancelled>>
        \/ c \in stopped /\ Close /\ Return(c, "aborted", <<>>)
        \/ c \in stopped /\ Throw(c)
  BY DEF ConnectSucceeds
<1>3. c \in Connected' /\ Connected \subseteq Connected'
  BY <1>1, <1>2 DEF Connected, Return, Throw, TypeOK
<1>4. conn' <= Cardinality(Connected') /\ conn' \in 0..Cardinality(Calls)
  BY <1>1, <1>3, ConnectionsCounted
<1>5. sentOn' \in [Calls -> Seq(1..conn')]
  <2>1. conn \in Nat /\ sentOn \in [Calls -> Seq(1..conn)]
    BY DEF TypeOK
  <2>2. sentOn' = sentOn \/ sentOn' = [sentOn EXCEPT ![c] = Append(@, conn + 1)]
    BY <1>1 DEF ConnectSucceeds, SentOnto
  <2> QED BY <1>1, <2>1, <2>2, SeqGrows
<1>6. TypeOK'
  <2>1. <<>> \in Seq(Parts)
    BY EmptySeq
  <2> QED BY <1>1, <1>2, <1>4, <1>5, <2>1
          DEF TypeOK, ConnectSucceeds, Return, Throw, Close, Errors, netVars
<1>7. Control'
  BY <1>1, <1>2 DEF Control, TypeOK, ConnectSucceeds, Return, Throw, Close, Active, Open
<1> QED BY <1>4, <1>6, <1>7

LEMMA CoreConnectFails ==
  ASSUME CoreInv, NEW c \in Calls, ConnectFails(c)
  PROVE  CoreInv'
<1> USE DEF CoreInv
<1>1. PICK ec \in Errors : Return(c, ec, <<>>)
  BY DEF ConnectFails, Errors
<1>2. Connected \subseteq Connected'
  BY <1>1 DEF Connected, Return, TypeOK, ConnectFails, Errors
<1>3. conn' <= Cardinality(Connected') /\ conn' \in 0..Cardinality(Calls)
  BY <1>2, ConnectionsCounted DEF ConnectFails
<1>4. TypeOK'
  <2>1. <<>> \in Seq(Parts)
    BY EmptySeq
  <2> QED BY <1>1, <1>3, <2>1 DEF TypeOK, ConnectFails, Return, netVars
<1>5. Control'
  BY <1>1 DEF Control, TypeOK, ConnectFails, Return, Active, Errors
<1> QED BY <1>3, <1>4, <1>5

(* The three ways of a step in which a call begins or goes on.              *)
LEMMA CoreTransfer ==
  ASSUME CoreInv, NEW c \in Calls, TransferStep(c), BuffersTyped'
  PROVE  CoreInv'
<1> USE DEF CoreInv
<1>1. /\ pc \in {"write", "read"} /\ call = c /\ call' = c /\ outcome[c] = "none"
      /\ UNCHANGED <<retried, stopped, conn, sentOn>>
  BY DEF TransferStep, Control, Active
<1>2. /\ outcome' \in [Calls -> {"none", "ok", "thrown"} \cup Errors]
      /\ answer' \in [Calls -> Seq(Parts)]
      /\ pc' \in {"idle", "connect", "read", "destroyed"}
      /\ \A d \in Calls \ {c} : outcome'[d] = outcome[d]
      /\ stream_' \in {stream_, "monostate"}
      /\ cancelled' \in BOOLEAN
  <2>1. <<>> \in Seq(Parts)
    BY EmptySeq
  <2> QED BY <2>1 DEF TransferStep, AttemptFails, Answered, Waits, Throw, Return, Close,
                      TypeOK, Errors
<1>3. Connected \subseteq Connected'
  BY <1>1, <1>2 DEF Connected
<1>4. conn' <= Cardinality(Connected') /\ conn' \in 0..Cardinality(Calls)
  BY <1>1, <1>3, ConnectionsCounted
<1>5. TypeOK'
  BY <1>1, <1>2, <1>4 DEF TypeOK, BuffersTyped
<1>6. Control'
  <2>1. CASE AttemptFails(c)
    BY <1>1, <2>1 DEF AttemptFails, Throw, Return, Close, Control, TypeOK, Active, Errors
  <2>2. CASE Answered(c)
    BY <1>1, <2>2 DEF Answered, Return, Control, TypeOK, Active
  <2>3. CASE Waits
    BY <1>1, <2>3 DEF Waits, Control, TypeOK, Active
  <2> QED BY <2>1, <2>2, <2>3 DEF TransferStep
<1> QED BY <1>4, <1>5, <1>6

LEMMA CoreRestCall ==
  ASSUME CoreInv, NEW c \in Calls, RestCall(c)
  PROVE  CoreInv'
<1> USE DEF CoreInv
<1>1. /\ pc = "idle" /\ outcome[c] = "none" /\ call' = c /\ retried' = FALSE
      /\ UNCHANGED <<stopped, buf_, conn>> /\ ~cancelled
  BY DEF RestCall, Control
<1>2. \/ /\ stream_' = "monostate" /\ pc' = "connect" /\ cancelled' = FALSE
         /\ UNCHANGED <<outcome, answer>>
      \/ stream_' = "monostate" /\ Return(c, "aborted", <<>>)
      \/ Throw(c)
      \/ stream_ # "monostate" /\ pc' = "write" /\ UNCHANGED <<stream_, outcome, answer, cancelled>>
  BY DEF RestCall, StartConnect, Fail, RetryOrReturn, Close
<1>3. Connected \subseteq Connected'
  BY <1>1, <1>2 DEF Connected, Return, Throw, TypeOK, Control
<1>4. conn' <= Cardinality(Connected') /\ conn' \in 0..Cardinality(Calls)
  BY <1>1, <1>3, ConnectionsCounted
<1>5. wire' \in Seq(Parts) /\ owed' \in Seq(Parts) /\ <<>> \in Seq(Parts)
  BY TransportTyped, EmptySeq DEF RestCall, TypeOK
<1>6. sentOn' \in [Calls -> Seq(1..conn')]
  <2>1. CASE pc' = "write"
    <3>1. stream_ # "monostate"
      BY <1>2, <2>1 DEF Return, Throw
    <3>2. conn \in 1..conn
      BY <3>1 DEF TypeOK, Control
    <3>3. sentOn' = [sentOn EXCEPT ![c] = Append(@, conn)]
      BY <2>1 DEF RestCall, SentOnto
    <3> QED BY <1>1, <3>2, <3>3, AppendProperties DEF TypeOK
  <2>2. CASE pc' # "write"
    BY <1>1, <2>2 DEF RestCall, TypeOK
  <2> QED BY <2>1, <2>2
<1>7. TypeOK'
  <2>1. /\ pc' \in {"idle", "connect", "write", "destroyed"}
        /\ outcome' \in [Calls -> {"none", "ok", "thrown"} \cup Errors]
        /\ stream_' \in {"monostate"} \cup Open
        /\ answer' \in [Calls -> Seq(Parts)]
        /\ cancelled' \in BOOLEAN
    BY <1>2, <1>5 DEF TypeOK, Return, Throw, Errors
  <2> QED BY <1>1, <1>4, <1>5, <1>6, <2>1 DEF TypeOK
<1>8. Control'
  BY <1>1, <1>2 DEF Control, TypeOK, Return, Throw, Active, Open
<1> QED BY <1>4, <1>7, <1>8

LEMMA CoreStep ==
  ASSUME CoreInv, [Next]_vars
  PROVE  CoreInv'
<1> USE DEF CoreInv
<1>1. ASSUME NEW c \in Calls, Stop(c) PROVE CoreInv'
  <2>1. Connected' = Connected
    BY <1>1 DEF Stop, callVars, Connected
  <2>2. TypeOK'
    BY <1>1 DEF Stop, callVars, netVars, TypeOK
  <2>3. Control'
    BY <1>1 DEF Stop, callVars, TypeOK, Control, Active
  <2> QED BY <1>1, <2>1, <2>2, <2>3 DEF Stop
<1>2. ASSUME PeerStep, BuffersTyped' PROVE CoreInv'
  <2>1. Connected' = Connected
    BY <1>2 DEF PeerStep, callVars, Connected
  <2>2. TypeOK'
    BY <1>2 DEF PeerStep, callVars, TypeOK, BuffersTyped
  <2>3. Control'
    BY <1>2 DEF PeerStep, callVars, Control, Active, Open
  <2> QED BY <1>2, <2>1, <2>2, <2>3 DEF PeerStep
<1>3. CASE UNCHANGED vars
  <2>1. Connected' = Connected
    BY <1>3 DEF vars, callVars, Connected
  <2>2. TypeOK' /\ Control'
    BY <1>3 DEF vars, callVars, netVars, TypeOK, Control, Active
  <2> QED BY <1>3, <2>1, <2>2 DEF vars
<1> QED BY <1>1, <1>2, <1>3, NextSteps, CoreRestCall, CoreConnectSucceeds,
           CoreConnectFails, CoreTransfer

(* The state of a connection object keeps its types, however many calls it   *)
(* serves; in particular it makes no more connections than it is given      *)
(* calls, whatever the peer does.                                           *)
THEOREM ImplTypeCorrect == Spec => []TypeOK
<1>1. Spec => []CoreInv
  BY CoreInit, CoreStep, PTL DEF Spec
<1> QED BY <1>1, PTL DEF CoreInv

-----------------------------------------------------------------------------
(* How often a request is sent.                                             *)

LastSent(c) == sentOn[c][Len(sentOn[c])]

(* The first connection of c served another call before. *)
Reused(c) == \E d \in Calls \ {c} : outcome[d] = "ok" /\ LastSent(d) = sentOn[c][1]

SentWell(c) ==
  /\ Len(sentOn[c]) <= 2
  /\ Len(sentOn[c]) = 2 => sentOn[c][1] < sentOn[c][2] /\ Reused(c)

(* An open stream is the connection of the last request; a call that has    *)
(* not connected can only have sent on a connection that was left open.     *)
SentInv ==
  /\ SentAgainOnlyAfterReuse
  /\ \A c \in Calls :
       outcome[c] = "none" /\ ~(c = call /\ pc \in Active) => sentOn[c] = <<>>
  /\ stream_ # "monostate" => sentOn[call] # <<>> /\ LastSent(call) = conn
  /\ pc \in Active /\ ~retried =>
       /\ Len(sentOn[call]) <= 1
       /\ sentOn[call] # <<>> => Reused(call)

LEMMA SentInit == Init => SentInv
<1>1. Len(<<>>) = 0
  BY EmptySeq
<1> QED BY <1>1 DEF Init, SentInv, SentAgainOnlyAfterReuse, Active

LEMMA SentWellForAll ==
  /\ SentAgainOnlyAfterReuse <=> \A c \in Calls : SentWell(c)
  /\ SentAgainOnlyAfterReuse' <=> \A c \in Calls : SentWell(c)'
  BY DEF SentAgainOnlyAfterReuse, SentWell, Reused, LastSent

LEMMA ReusedStays ==
  ASSUME NEW c \in Calls, Reused(c), sentOn'[c][1] = sentOn[c][1],
         \A d \in Calls \ {c} : outcome[d] = "ok" =>
           outcome'[d] = "ok" /\ sentOn'[d] = sentOn[d]
  PROVE  Reused(c)'
  BY DEF Reused, LastSent

(* A step that sends nothing. *)
LEMMA SentStays ==
  ASSUME SentAgainOnlyAfterReuse, sentOn' = sentOn,
         \A d \in Calls : outcome[d] = "ok" => outcome'[d] = "ok"
  PROVE  SentAgainOnlyAfterReuse'
  BY DEF SentAgainOnlyAfterReuse

LEMMA SentRestCall ==
  ASSUME CoreInv, SentInv, NEW c \in Calls, RestCall(c)
  PROVE  SentInv'
<1> USE DEF CoreInv
<1>1. /\ pc = "idle" /\ outcome[c] = "none" /\ call' = c /\ conn' = conn
      /\ sentOn[c] = <<>> /\ sentOn \in [Calls -> Seq(1..conn)] /\ call \in Calls
  BY DEF RestCall, SentInv, Active, TypeOK
<1>2. CASE pc' = "write"
  <2>1. stream_ # "monostate" /\ UNCHANGED <<outcome, stream_>>
    BY <1>2 DEF RestCall, StartConnect, Fail, RetryOrReturn, Return, Throw
  <2>2. outcome[call] = "ok" /\ call # c /\ LastSent(call) = conn /\ conn \in 1..conn
    BY <1>1, <2>1 DEF Control, SentInv, TypeOK
  <2>3. sentOn' = [sentOn EXCEPT ![c] = <<conn>>]
    <3>1. Append(<<>>, conn) = <<conn>>
      OBVIOUS
    <3> QED BY <1>1, <1>2, <3>1 DEF RestCall, SentOnto
  <2>4. sentOn'[c] = <<conn>> /\ \A d \in Calls \ {c} : sentOn'[d] = sentOn[d]
    BY <1>1, <2>3
  <2>7. Len(<<conn>>) = 1 /\ <<conn>>[1] = conn /\ <<conn>> # <<>>
    OBVIOUS
  <2>5. Reused(c)'
    BY <1>1, <2>1, <2>2, <2>4, <2>7 DEF Reused, LastSent
  <2>6. SentAgainOnlyAfterReuse'
    <3> SUFFICES ASSUME NEW d \in Calls PROVE SentWell(d)'
      BY SentWellForAll
    <3>1. CASE d = c
      BY <2>4, <2>7, <3>1 DEF SentWell
    <3>2. CASE d # c
      <4>1. sentOn'[d] = sentOn[d] /\ SentWell(d)
        BY <2>4, <3>2, SentWellForAll DEF SentInv
      <4>2. \A e \in Calls : outcome[e] = "ok" => outcome'[e] = "ok" /\ sentOn'[e] = sentOn[e]
        BY <1>1, <2>1, <2>4
      <4> QED BY <4>1, <4>2, ReusedStays DEF SentWell
    <3> QED BY <3>1, <3>2
  <2> QED BY <1>1, <1>2, <2>1, <2>4, <2>5, <2>6, <2>7 DEF SentInv, Active, LastSent
<1>3. CASE pc' # "write"
  <2>1. sentOn' = sentOn /\ stream_' = "monostate"
    BY <1>3 DEF RestCall, StartConnect, Fail, RetryOrReturn, Throw, Close
  <2>2. /\ pc' = "connect" \/ outcome'[c] # "none"
        /\ \A d \in Calls \ {c} : outcome'[d] = outcome[d]
    BY <1>3 DEF RestCall, StartConnect, Fail, RetryOrReturn, Return, Throw, TypeOK
  <2>3. SentAgainOnlyAfterReuse'
    BY <1>1, <2>1, <2>2, SentStays DEF SentInv
  <2>4. Len(<<>>) = 0
    BY EmptySeq
  <2> QED BY <1>1, <2>1, <2>2, <2>3, <2>4 DEF SentInv, Active
<1> QED BY <1>2, <1>3

LEMMA SentConnectSucceeds ==
  ASSUME CoreInv, SentInv, NEW c \in Calls, ConnectSucceeds(c)
  PROVE  SentInv'
<1> USE DEF CoreInv
<1>1. /\ pc = "connect" /\ call = c /\ call' = c /\ ~retried /\ retried'
      /\ conn' = conn + 1 /\ outcome[c] = "none"
      /\ sentOn \in [Calls -> Seq(1..conn)] /\ conn \in Nat
  BY DEF ConnectSucceeds, Control, Active, TypeOK
<1>2. /\ Len(sentOn[c]) <= 1
      /\ sentOn[c] # <<>> => Reused(c)
  BY <1>1 DEF SentInv, Active
<1>3. /\ pc' = "write" \/ (outcome'[c] # "none" /\ stream_' = "monostate" /\ pc' # "write")
      /\ \A d \in Calls \ {c} : outcome'[d] = outcome[d]
  BY DEF ConnectSucceeds, Return, Throw, Close, TypeOK
<1>4. \A d \in Calls : outcome[d] = "ok" => outcome'[d] = "ok"
  BY <1>1, <1>3
<1>5. CASE pc' # "write"
  <2>1. sentOn' = sentOn
    BY <1>5 DEF ConnectSucceeds
  <2>2. SentAgainOnlyAfterReuse'
    BY <1>4, <2>1, SentStays DEF SentInv
  <2> QED BY <1>1, <1>3, <1>5, <2>1, <2>2 DEF SentInv, Active
<1>6. CASE pc' = "write"
  <2>1. sentOn' = [sentOn EXCEPT ![c] = Append(@, conn + 1)]
    BY <1>1, <1>6 DEF ConnectSucceeds, SentOnto
  <2>2. sentOn'[c] = Append(sentOn[c], conn + 1) /\ \A d \in Calls \ {c} : sentOn'[d] = sentOn[d]
    BY <1>1, <2>1
  <2>3. /\ Len(sentOn'[c]) = Len(sentOn[c]) + 1 /\ sentOn'[c] # <<>>
        /\ sentOn'[c][Len(sentOn[c]) + 1] = conn + 1
        /\ \A i \in 1..Len(sentOn[c]) : sentOn'[c][i] = sentOn[c][i]
        /\ Len(sentOn[c]) \in Nat
    <3>1. sentOn[c] \in Seq(Int)
      BY <1>1, SeqMonotonic
    <3> QED BY <1>1, <2>2, <3>1, AppendProperties, LenProperties
  <2>4. LastSent(c)' = conn'
    BY <1>1, <2>3 DEF LastSent
  <2>5. SentAgainOnlyAfterReuse'
    <3> SUFFICES ASSUME NEW d \in Calls PROVE SentWell(d)'
      BY SentWellForAll
    <3>e. \A e \in Calls : outcome[e] = "ok" => outcome'[e] = "ok" /\ sentOn'[e] = sentOn[e]
      BY <1>1, <1>4, <2>2
    <3>1. CASE d = c
      <4>1. Len(sentOn'[c]) <= 2
        BY <1>2, <2>3
      <4>2. ASSUME Len(sentOn'[c]) = 2
            PROVE  sentOn'[c][1] < sentOn'[c][2] /\ Reused(c)'
        <5>1. Len(sentOn[c]) = 1
          <6> DEFINE n == Len(sentOn[c])
          <6>1. n \in Nat /\ n + 1 = 2
            BY <2>3, <4>2
          <6> HIDE DEF n
          <6>2. n = 1
            BY <6>1
          <6> QED BY <6>2 DEF n
        <5>4. sentOn[c] # <<>>
          BY <5>1, EmptySeq
        <5>2. sentOn[c][1] \in 1..conn
          <6>1. 1 \in 1..Len(sentOn[c]) /\ sentOn[c] \in Seq(1..conn)
            BY <1>1, <5>1
          <6> QED BY <6>1, ElementOfSeq
        <5>3. sentOn'[c][1] = sentOn[c][1] /\ sentOn'[c][2] = conn + 1
          BY <2>3, <5>1
        <5> QED BY <1>1, <1>2, <3>e, <5>2, <5>3, <5>4, ReusedStays
      <4> QED BY <3>1, <4>1, <4>2 DEF SentWell
    <3>2. CASE d # c
      <4>1. sentOn'[d] = sentOn[d] /\ SentWell(d)
        BY <2>2, <3>2, SentWellForAll DEF SentInv
      <4> QED BY <3>e, <4>1, ReusedStays DEF SentWell
    <3> QED BY <3>1, <3>2
  <2>6. \A d \in Calls : outcome'[d] = "none" /\ d # c => sentOn'[d] = <<>>
    BY <1>1, <1>3, <2>2 DEF SentInv
  <2> QED BY <1>1, <1>6, <2>3, <2>4, <2>5, <2>6 DEF SentInv, Active
<1> QED BY <1>5, <1>6

LEMMA SentTransfer ==
  ASSUME CoreInv, SentInv, NEW c \in Calls, TransferStep(c) \/ ConnectFails(c)
  PROVE  SentInv'
<1> USE DEF CoreInv
<1>1. /\ pc \in Active /\ call = c /\ call' = c /\ outcome[c] = "none"
      /\ UNCHANGED <<retried, conn, sentOn>>
  BY DEF TransferStep, ConnectFails, Control, Active
<1>2. /\ pc' \in Active \/ outcome'[c] # "none"
      /\ stream_' \in {stream_, "monostate"}
      /\ \A d \in Calls \ {c} : outcome'[d] = outcome[d]
  <2>1. CASE ConnectFails(c)
    BY <2>1 DEF ConnectFails, Return, TypeOK
  <2>2. CASE TransferStep(c)
    BY <2>2 DEF TransferStep, AttemptFails, Answered, Waits, Throw, Return, Close,
                TypeOK, Errors, Active
  <2> QED BY <2>1, <2>2
<1>3. SentAgainOnlyAfterReuse'
  BY <1>1, <1>2, SentStays DEF SentInv
<1>4. Reused(c) => Reused(c)'
  BY <1>1, <1>2, ReusedStays
<1>5. ASSUME ~retried
      PROVE  /\ Len(sentOn'[c]) <= 1
             /\ sentOn'[c] # <<>> => Reused(c)'
  BY <1>1, <1>4, <1>5 DEF SentInv
<1> QED BY <1>1, <1>2, <1>3, <1>5 DEF SentInv, LastSent

LEMMA SentStep ==
  ASSUME CoreInv, SentInv, [Next]_vars
  PROVE  SentInv'
<1>1. ASSUME UNCHANGED <<callVars, conn, sentOn>>, stream_' = stream_ \/ stream_ \in Open
      PROVE  SentInv'
  <2>1. stream_ = "monostate" => stream_' = "monostate"
    BY <1>1 DEF Open
  <2>2. SentAgainOnlyAfterReuse' /\ (\A c : Reused(c) <=> Reused(c)')
    BY <1>1 DEF callVars, SentInv, SentAgainOnlyAfterReuse, Reused, LastSent
  <2> QED BY <1>1, <2>1, <2>2 DEF SentInv, callVars, LastSent, CoreInv, TypeOK
<1>2. ASSUME NEW c \in Calls, Stop(c) PROVE SentInv'
  BY <1>1, <1>2 DEF Stop
<1>3. CASE PeerStep
  BY <1>1, <1>3 DEF PeerStep
<1>4. CASE UNCHANGED vars
  BY <1>1, <1>4 DEF vars
<1> QED BY <1>2, <1>3, <1>4, NextSteps, SentRestCall, SentConnectSucceeds, SentTransfer
        DEF CoreInv

(* A request is sent once, or once more on a new connection after one that  *)
(* another call had left open, whatever the peer does and whatever is       *)
(* stopped.                                                                 *)
THEOREM SentAgain == Spec => []SentAgainOnlyAfterReuse
<1>1. Init => CoreInv /\ SentInv
  BY CoreInit, SentInit
<1>2. CoreInv /\ SentInv /\ [Next]_vars => (CoreInv /\ SentInv)'
  BY CoreStep, SentStep
<1>3. SentInv => SentAgainOnlyAfterReuse
  BY DEF SentInv
<1> QED BY <1>1, <1>2, <1>3, PTL DEF Spec

-----------------------------------------------------------------------------
(* What a stop ends.                                                        *)

(* A call that was stopped before a step does not begin to connect, to write *)
(* or to read in it, from wherever it is.                                   *)
THEOREM StoppedStays == Spec => StopIsFinal
<1>1. ASSUME CoreInv, [Next]_vars
      PROVE  [call' \in stopped /\ pc' # pc => pc' \notin {"connect", "write", "read"}]_vars
  <2>1. ASSUME NEW c \in Calls, RestCall(c), call' \in stopped
        PROVE  pc' \notin Active
    BY <2>1 DEF RestCall, StartConnect, MayConnect, Fail, RetryOrReturn, Return, Throw, Active
  <2>2. ASSUME NEW c \in Calls, ConnectSucceeds(c), call' \in stopped
        PROVE  pc' \notin Active
    BY <2>2 DEF ConnectSucceeds, Return, Throw, Active
  <2>3. ASSUME NEW c \in Calls, ConnectFails(c)
        PROVE  pc' \notin Active
    BY <2>3 DEF ConnectFails, Return, Active
  <2>4. ASSUME NEW c \in Calls, TransferStep(c), call' \in stopped, pc' # pc
        PROVE  pc' \notin Active
    BY <2>4 DEF TransferStep, AttemptFails, Answered, Waits, Return, Throw, MayConnect, Active
  <2>5. ASSUME NEW c \in Calls, Stop(c) PROVE pc' = pc
    BY <2>5 DEF Stop, callVars
  <2>6. PeerStep => pc' = pc
    BY DEF PeerStep, callVars
  <2> QED BY <1>1, <2>1, <2>2, <2>3, <2>4, <2>5, <2>6, NextSteps DEF CoreInv, Active
<1> QED BY <1>1, CoreInit, CoreStep, PTL DEF Spec, StopIsFinal

-----------------------------------------------------------------------------
(* The promise of Exchange.                                                 *)

LEMMA SentOnce ==
  ASSUME TypeOK, NEW c \in Calls, NEW n, sentOn' = [sentOn EXCEPT ![c] = Append(@, n)]
  PROVE  [d \in Calls |-> Len(sentOn[d])]' =
           [[d \in Calls |-> Len(sentOn[d])] EXCEPT ![c] = @ + 1]
<1>1. Len(Append(sentOn[c], n)) = Len(sentOn[c]) + 1
  <2>1. sentOn[c] \in Seq(1..conn)
    BY DEF TypeOK
  <2>2. sentOn[c] \in Seq((1..conn) \cup {n})
    BY <2>1, SeqMonotonic
  <2> QED BY <2>2, AppendProperties
<1> QED BY <1>1 DEF TypeOK

LEMMA PromiseInit == Init => Promise!Init
<1>1. Len(<<>>) = 0
  BY EmptySeq
<1> QED BY <1>1 DEF Init, Promise!Init

LEMMA PromiseRestCall ==
  ASSUME CoreInv, NEW c \in Calls, RestCall(c)
  PROVE  Promise!Begin(c)
<1> USE DEF CoreInv
<1>1. /\ pc = "idle" /\ outcome[c] = "none" /\ call' = c /\ retried' = FALSE
      /\ UNCHANGED <<stopped, conn>>
  BY DEF RestCall
<1>2. CASE pc' = "write"
  <2>1. stream_ # "monostate" /\ c \notin stopped /\ UNCHANGED <<outcome, stream_>>
    BY <1>2 DEF RestCall, StartConnect, Fail, RetryOrReturn, Return, Throw
  <2>2. sentOn' = [sentOn EXCEPT ![c] = Append(@, conn)]
    BY <1>2 DEF RestCall, SentOnto
  <2> QED BY <1>1, <1>2, <2>1, <2>2, SentOnce DEF Promise!Begin, Promise!Send
<1>3. CASE pc' # "write"
  <2>1. sentOn' = sentOn
    BY <1>3 DEF RestCall
  <2>2. \/ /\ stream_ = "monostate" /\ stream_' = "monostate"
           /\ c \notin stopped /\ pc' = "connect" /\ UNCHANGED outcome
        \/ c \in stopped /\ stream_' = "monostate" /\ Return(c, "aborted", <<>>)
        \/ c \in stopped /\ stream_ # "monostate" /\ Throw(c)
    BY <1>3 DEF RestCall, StartConnect, MayConnect, Fail, RetryOrReturn, Close
  <2> QED BY <1>1, <2>1, <2>2 DEF Promise!Begin, Promise!Ends, Return, Throw
<1> QED BY <1>2, <1>3

LEMMA PromiseConnectSucceeds ==
  ASSUME CoreInv, NEW c \in Calls, ConnectSucceeds(c)
  PROVE  Promise!Connect(c) \/ Promise!End(c)
<1> USE DEF CoreInv
<1>1. /\ pc = "connect" /\ call = c /\ call' = c /\ retried = FALSE /\ retried' = TRUE
      /\ conn' = conn + 1 /\ stream_ = "monostate" /\ stopped' = stopped
  BY DEF ConnectSucceeds, Control, TypeOK
<1>2. CASE pc' = "write"
  <2>1. c \notin stopped /\ stream_' \in Open /\ outcome' = outcome
    BY <1>2 DEF ConnectSucceeds, Return, Throw
  <2>2. sentOn' = [sentOn EXCEPT ![c] = Append(@, conn')]
    BY <1>2 DEF ConnectSucceeds, SentOnto
  <2>3. [d \in Calls |-> Len(sentOn[d])]' =
           [[d \in Calls |-> Len(sentOn[d])] EXCEPT ![c] = @ + 1]
    BY <1>1, <2>2, SentOnce
  <2> QED BY <1>1, <1>2, <2>1, <2>3 DEF Promise!Connect, Promise!Send, Open
<1>3. CASE pc' # "write"
  <2>1. sentOn' = sentOn
    BY <1>3 DEF ConnectSucceeds
  <2>2. \/ c \in stopped /\ stream_' = "monostate" /\ Return(c, "aborted", <<>>)
        \/ Throw(c)
    BY <1>3 DEF ConnectSucceeds, Close
  <2> QED BY <1>1, <2>1, <2>2 DEF Promise!End, Promise!Ends, Return, Throw
<1> QED BY <1>2, <1>3

LEMMA PromiseConnectFails ==
  ASSUME CoreInv, NEW c \in Calls, ConnectFails(c)
  PROVE  Promise!End(c)
<1>1. /\ pc = "connect" /\ call = c /\ stream_ = "monostate"
      /\ UNCHANGED <<call, retried, stopped, stream_, sentOn>>
  BY DEF ConnectFails, CoreInv, Control
<1>2. \/ Return(c, "error", <<>>)
      \/ c \in stopped /\ Return(c, "aborted", <<>>)
  BY DEF ConnectFails
<1> QED BY <1>1, <1>2 DEF Promise!End, Promise!Ends, Return

LEMMA PromiseTransfer ==
  ASSUME CoreInv, NEW c \in Calls, TransferStep(c)
  PROVE  Promise!GiveUpStream(c) \/ Promise!End(c) \/ UNCHANGED Promise!vars
<1> USE DEF CoreInv
<1>1. /\ pc \in {"write", "read"} /\ call = c /\ stream_ \in Open
      /\ retried \in BOOLEAN
      /\ UNCHANGED <<call, retried, stopped, conn, sentOn>>
  BY DEF TransferStep, Control, TypeOK
<1>2. CASE Throw(c)
  BY <1>1, <1>2 DEF Throw, Promise!End, Promise!Ends, Open
<1>3. CASE Close /\ ~retried /\ MayConnect(c) /\ pc' = "connect" /\ UNCHANGED outcome
  BY <1>1, <1>3 DEF Close, MayConnect, Promise!GiveUpStream, Open
<1>4. ASSUME NEW r \in Errors, Close, Return(c, r, <<>>),
             r = "error" => retried, r = "aborted" => c \in stopped
      PROVE  Promise!End(c)
  BY <1>1, <1>4 DEF Close, Return, Errors, Promise!End, Promise!Ends, Open
<1>5. CASE Answered(c)
  BY <1>1, <1>5 DEF Answered, Return, Promise!End, Promise!Ends, Open
<1>6. CASE Waits
  BY <1>1, <1>6 DEF Waits, Promise!vars
<1> QED BY <1>2, <1>3, <1>4, <1>5, <1>6 DEF TransferStep, AttemptFails

LEMMA PromiseStep ==
  ASSUME CoreInv, [Next]_vars
  PROVE  [Promise!Next]_(Promise!vars)
<1> USE DEF CoreInv
<1>1. ASSUME NEW c \in Calls, Stop(c) PROVE Promise!Stop(c)
  BY <1>1 DEF Stop, callVars, Promise!Stop
<1>2. PeerStep => UNCHANGED Promise!vars
  BY DEF PeerStep, callVars, Open, Promise!vars
<1>3. UNCHANGED vars => UNCHANGED Promise!vars
  BY DEF vars, callVars, netVars, Promise!vars
<1> QED BY <1>1, <1>2, <1>3, NextSteps, PromiseRestCall, PromiseConnectSucceeds,
           PromiseConnectFails, PromiseTransfer DEF Promise!Next

(* The connection object keeps the promise of Exchange, for any number of    *)
(* calls, whatever the peer does: so the cache, which by ObjectsInTurn of   *)
(* HttpClientProofs uses its objects as Exchange demands, may rely on it.   *)
THEOREM ImplKeepsPromise == Spec => ImplementsExchange
<1>1. CoreInv /\ [Next]_vars => [Promise!Next]_(Promise!vars)
  BY PromiseStep
<1> QED BY <1>1, PromiseInit, CoreInit, CoreStep, PTL DEF Spec, ImplementsExchange, Promise!Spec

-----------------------------------------------------------------------------
(* Responses, when no closed stream leaves anything in buf_.                *)

(* The parts of the response to the request under way. *)
Own(kind, k) == [call |-> call, conn |-> conn, kind |-> kind, keep_alive |-> k]

(* How far a response has come: the peer, the wire and buf_ hold its parts   *)
(* in their order, or those that were sent before the peer closed.          *)
Arriving(h, t) ==
  \/ buf_ = <<>> /\ wire = <<>>     /\ owed \in {<<>>, <<h, t>>}
  \/ buf_ = <<>> /\ wire = <<h>>    /\ owed \in {<<>>, <<t>>}
  \/ buf_ = <<>> /\ wire = <<h, t>> /\ owed = <<>>
  \/ buf_ = <<h>> /\ wire = <<>>    /\ owed \in {<<>>, <<t>>}
  \/ buf_ = <<h>> /\ wire = <<t>>   /\ owed = <<>>

(* What is on its way answers the request under way, and when none is,      *)
(* nothing is left over.                                                    *)
WireInv ==
  /\ pc \in {"idle", "connect", "write"} => buf_ = <<>>
  /\ pc # "read" => wire = <<>> /\ owed = <<>>
  /\ pc = "read" => \E k \in BOOLEAN : Arriving(Own("head", k), Own("tail", k))

FreshInv == CoreInv /\ SentInv /\ WireInv /\ AnswersOwnRequest

LEMMA FreshInit == Init => FreshInv
<1> SUFFICES ASSUME Init PROVE FreshInv
  OBVIOUS
<1>1. WireInv /\ AnswersOwnRequest
  BY DEF Init, WireInv, AnswersOwnRequest
<1> QED BY <1>1, CoreInit, SentInit DEF FreshInv

(* A step in which no call succeeds. *)
NoAnswer ==
  \A d \in Calls : outcome'[d] = "ok" =>
    outcome[d] = "ok" /\ answer'[d] = answer[d] /\ sentOn'[d] = sentOn[d]

LEMMA AnswersStay ==
  ASSUME AnswersOwnRequest, NoAnswer
  PROVE  AnswersOwnRequest'
  BY DEF AnswersOwnRequest, NoAnswer

LEMMA FailClears ==
  ASSUME NEW c, NEW ec, NEW r, NEW s, Fail(c, ec), Transport(r, s)
  PROVE  stream_' = "monostate" /\ wire' = <<>> /\ owed' = <<>>
<1>1. stream_' = "monostate"
  BY DEF Fail, Throw, Close
<1> QED BY <1>1 DEF Transport

LEMMA FailAnswersNone ==
  ASSUME CoreInv, NEW c \in Calls, NEW ec \in Errors, Fail(c, ec), sentOn' = sentOn
  PROVE  NoAnswer
<1>1. \/ Throw(c)
      \/ Return(c, ec, <<>>)
      \/ Return(c, "aborted", <<>>)
      \/ UNCHANGED <<outcome, answer>>
  BY DEF Fail, RetryOrReturn, StartConnect
<1> QED BY <1>1 DEF CoreInv, TypeOK, NoAnswer, Throw, Return, Errors

LEMMA FailEnds ==
  ASSUME NEW c, NEW ec, Fail(c, ec)
  PROVE  pc' \in {"idle", "connect", "destroyed"}
  BY DEF Fail, Throw, RetryOrReturn, StartConnect, Return

(* An attempt fails, and what it leaves is not stale.                       *)
LEMMA FailIsFresh ==
  ASSUME CoreInv, NEW c \in Calls, NEW ec \in Errors, Fail(c, ec), sentOn' = sentOn,
         NEW r, NEW s, Transport(r, s), ClosedIsDrained'
  PROVE  WireInv' /\ NoAnswer
<1>1. stream_' = "monostate" /\ wire' = <<>> /\ owed' = <<>>
  BY FailClears
<1>2. pc' \in {"idle", "connect", "destroyed"}
  BY FailEnds
<1>3. pc' # "destroyed" => buf_' = <<>>
  BY <1>1 DEF ClosedIsDrained
<1>4. WireInv'
  BY <1>1, <1>2, <1>3 DEF WireInv
<1> QED BY <1>4, FailAnswersNone

LEMMA FreshRestCall ==
  ASSUME FreshInv, NEW c \in Calls, RestCall(c)
  PROVE  WireInv' /\ NoAnswer
<1> USE DEF FreshInv
<1>1. /\ pc = "idle" /\ outcome[c] = "none" /\ wire = <<>> /\ owed = <<>>
      /\ buf_ = <<>> /\ UNCHANGED buf_
  BY DEF RestCall, WireInv
<1>2. wire' = <<>> /\ owed' = <<>>
  BY <1>1 DEF RestCall, Transport
<1>3. \/ Throw(c) \/ Return(c, "aborted", <<>>)
      \/ pc' \in {"connect", "write"} /\ UNCHANGED <<outcome, answer>>
  BY DEF RestCall, StartConnect, Fail, RetryOrReturn
<1>4. WireInv'
  BY <1>1, <1>2, <1>3 DEF WireInv, Throw, Return
<1>5. outcome'[c] # "ok"
  BY <1>1, <1>3 DEF Throw, Return, CoreInv, TypeOK
<1>6. \A d \in Calls \ {c} :
        outcome'[d] = outcome[d] /\ answer'[d] = answer[d] /\ sentOn'[d] = sentOn[d]
  BY <1>3 DEF Throw, Return, CoreInv, TypeOK, RestCall, SentOnto
<1> QED BY <1>4, <1>5, <1>6 DEF NoAnswer

LEMMA FreshConnect ==
  ASSUME FreshInv, NEW c \in Calls, ConnectSucceeds(c) \/ ConnectFails(c)
  PROVE  WireInv' /\ NoAnswer
<1> USE DEF FreshInv
<1>1. /\ outcome[c] = "none" /\ wire = <<>> /\ owed = <<>> /\ buf_ = <<>>
      /\ wire' = <<>> /\ owed' = <<>> /\ UNCHANGED buf_
  BY DEF ConnectSucceeds, ConnectFails, WireInv, CoreInv, Control, Active, netVars
<1>2. \/ Throw(c) \/ (\E r \in Errors : Return(c, r, <<>>))
      \/ pc' = "write" /\ UNCHANGED <<outcome, answer>>
  BY DEF ConnectSucceeds, ConnectFails, Errors
<1>3. WireInv'
  BY <1>1, <1>2 DEF WireInv, Throw, Return
<1>4. outcome'[c] # "ok"
  BY <1>1, <1>2 DEF Throw, Return, CoreInv, TypeOK, Errors
<1>5. \A d \in Calls \ {c} :
        outcome'[d] = outcome[d] /\ answer'[d] = answer[d] /\ sentOn'[d] = sentOn[d]
  BY <1>2 DEF Throw, Return, CoreInv, TypeOK, ConnectSucceeds, ConnectFails, SentOnto
<1> QED BY <1>3, <1>4, <1>5 DEF NoAnswer

LEMMA FreshWriteDone ==
  ASSUME FreshInv, ClosedIsDrained', NEW c \in Calls, WriteDone(c)
  PROVE  WireInv' /\ NoAnswer
<1> USE DEF FreshInv
<1>1. /\ pc = "write" /\ call = c /\ buf_ = <<>> /\ wire = <<>> /\ owed = <<>>
      /\ UNCHANGED <<call, conn, sentOn>>
  BY DEF WriteDone, WireInv
<1>2. PICK k \in BOOLEAN :
        Transport(wire, IF stream_ = "up" THEN owed \o Response(c, k) ELSE <<>>)
  BY DEF WriteDone
<1>3. CASE c \in stopped
  <2>1. Fail(c, "aborted")
    BY <1>3 DEF WriteDone
  <2> QED BY <1>1, <1>2, <2>1, FailIsFresh DEF Errors
<1>4. CASE c \notin stopped
  <2>1. Parse(c, <<>>)
    BY <1>1, <1>4 DEF WriteDone
  <2>2. Seen(<<>>) = {}
    BY DEF Seen
  <2>3. pc' = "read" /\ buf_' = <<>> /\ UNCHANGED <<outcome, answer, stream_>>
    BY <2>1, <2>2 DEF Parse
  <2>4. Response(c, k) = <<Own("head", k)', Own("tail", k)'>>
    BY <1>1 DEF Response, Own
  <2>5. owed \o Response(c, k) = Response(c, k)
    <3>1. Response(c, k) \in Seq(Parts)
      BY ResponseTyped DEF CoreInv, TypeOK
    <3> QED BY <1>1, <3>1, ConcatEmptySeq
  <2>6. stream_' # "monostate"
    BY <1>1, <2>3 DEF CoreInv, Control, Open
  <2>7. wire' = <<>> /\ owed' \in {<<>>, <<Own("head", k)', Own("tail", k)'>>}
    BY <1>1, <1>2, <2>4, <2>5, <2>6 DEF Transport
  <2>8. Arriving(Own("head", k), Own("tail", k))'
    BY <2>3, <2>7 DEF Arriving
  <2>9. WireInv'
    BY <2>3, <2>8 DEF WireInv
  <2>10. NoAnswer
    BY <1>1, <2>3 DEF NoAnswer
  <2> QED BY <2>9, <2>10
<1> QED BY <1>3, <1>4

LEMMA FreshFails ==
  ASSUME FreshInv, ClosedIsDrained', NEW c \in Calls, TransferFails(c) \/ Timeout(c)
  PROVE  WireInv' /\ NoAnswer
<1> USE DEF FreshInv
<1>1. CASE TransferFails(c)
  <2>1. PICK ec \in Errors : Fail(c, ec)
    BY <1>1 DEF TransferFails, Errors
  <2> QED BY <1>1, <2>1, FailIsFresh DEF TransferFails
<1>2. CASE Timeout(c)
  <2>1. pc' = "destroyed" /\ wire' = <<>> /\ owed' = <<>>
    BY <1>2 DEF Timeout, Throw, Transport
  <2>2. NoAnswer
    BY <1>2 DEF Timeout, Throw, NoAnswer, CoreInv, TypeOK
  <2> QED BY <2>1, <2>2 DEF WireInv
<1> QED BY <1>1, <1>2

-----------------------------------------------------------------------------
(* A response of two parts. *)
LEMMA TwoParts ==
  ASSUME NEW S, NEW h \in S, NEW t \in S
  PROVE  /\ Len(<<h>>) = 1 /\ Len(<<h, t>>) = 2
         /\ SubSeq(<<h>>, 1, 1) = <<h>> /\ SubSeq(<<h>>, 2, 1) = <<>>
         /\ SubSeq(<<h, t>>, 1, 1) = <<h>> /\ SubSeq(<<h, t>>, 2, 2) = <<t>>
         /\ SubSeq(<<h, t>>, 1, 2) = <<h, t>> /\ SubSeq(<<h, t>>, 3, 2) = <<>>
         /\ <<>> \o <<h>> = <<h>> /\ <<>> \o <<h, t>> = <<h, t>>
         /\ <<h>> \o <<t>> = <<h, t>>
         /\ Append(<<>>, h) = <<h>> /\ Append(<<h>>, t) = <<h, t>>
         /\ Head(<<h>>) = h /\ Tail(<<h>>) = <<>>
         /\ Head(<<h, t>>) = h /\ Tail(<<h, t>>) = <<t>>
<1> DEFINE a == <<h>>
           z == <<t>>
           b == <<h, t>>
<1>1. a \in Seq(S) /\ Len(a) = 1 /\ a[1] = h
  OBVIOUS
<1>2. z \in Seq(S) /\ Len(z) = 1 /\ z[1] = t
  OBVIOUS
<1>3. b \in Seq(S) /\ Len(b) = 2 /\ b[1] = h /\ b[2] = t
  OBVIOUS
<1>4. Append(<<>>, h) = a
  OBVIOUS
<1>e. Tail(a) = <<>>
  OBVIOUS
<1>f. Tail(b) = z
  OBVIOUS
<1>g. Head(a) = h /\ Head(b) = h
  OBVIOUS
<1> HIDE DEF a, z, b
<1>d. Append(a, t) = b
  <2> DEFINE s == Append(a, t)
  <2>0. a \in Seq(S) /\ t \in S
    BY <1>1
  <2>1. /\ s \in Seq(S) /\ Len(s) = Len(a) + 1
        /\ \A i \in 1..Len(a) : s[i] = a[i]
        /\ s[Len(a) + 1] = t
    BY <2>0, AppendProperties
  <2> HIDE DEF s
  <2>2. Len(s) = 2 /\ s[1] = h /\ s[2] = t
    BY <1>1, <2>1
  <2> QED BY <1>3, <2>1, <2>2, SeqEqual DEF s
<1>5. SubSeq(a, 1, 1) = a /\ SubSeq(b, 1, 2) = b
  BY <1>1, <1>3, SubSeqFull
<1>6. SubSeq(a, 2, 1) = <<>> /\ SubSeq(b, 3, 2) = <<>>
  <2>1. 1 \in Int /\ 2 \in Int /\ 3 \in Int /\ 1 < 2 /\ 2 < 3
    OBVIOUS
  <2> QED BY <2>1, SubSeqEmpty
<1>7. <<>> \o a = a /\ <<>> \o b = b
  BY <1>1, <1>3, ConcatEmptySeq
<1>8. SubSeq(b, 1, 1) = a
  <2> DEFINE s == SubSeq(b, 1, 1)
  <2>1. s \in Seq(S) /\ Len(s) = 1 /\ s[1] = h
    <3>1. \A i \in 1..1 : b[i] \in S
      BY <1>3
    <3>2. /\ s \in Seq(S)
          /\ Len(s) = IF 1 <= 1 THEN 1 - 1 + 1 ELSE 0
          /\ \A i \in 1..(1 - 1 + 1) : s[i] = b[1 + i - 1]
      BY <3>1, SubSeqProperties
    <3> HIDE DEF s
    <3>3. 1 \in 1..(1 - 1 + 1) /\ 1 + 1 - 1 = 1
      OBVIOUS
    <3> QED BY <1>3, <3>2, <3>3
  <2> HIDE DEF s
  <2> QED BY <1>1, <2>1, SeqEqual DEF s
<1>9. SubSeq(b, 2, 2) = z
  <2> DEFINE s == SubSeq(b, 2, 2)
  <2>1. s \in Seq(S) /\ Len(s) = 1 /\ s[1] = t
    <3>1. \A i \in 2..2 : b[i] \in S
      BY <1>3
    <3>2. /\ s \in Seq(S)
          /\ Len(s) = IF 2 <= 2 THEN 2 - 2 + 1 ELSE 0
          /\ \A i \in 1..(2 - 2 + 1) : s[i] = b[2 + i - 1]
      BY <3>1, SubSeqProperties
    <3> HIDE DEF s
    <3>3. 1 \in 1..(2 - 2 + 1) /\ 2 + 1 - 1 = 2
      OBVIOUS
    <3> QED BY <1>3, <3>2, <3>3
  <2> HIDE DEF s
  <2> QED BY <1>2, <2>1, SeqEqual DEF s
<1>10. a \o z = b
  <2> DEFINE s == a \o z
  <2>1. /\ s \in Seq(S) /\ Len(s) = Len(a) + Len(z)
        /\ \A i \in 1 .. Len(a) + Len(z) : s[i] = IF i <= Len(a) THEN a[i] ELSE z[i - Len(a)]
    BY <1>1, <1>2, ConcatProperties
  <2> HIDE DEF s
  <2>2. Len(s) = 2 /\ s[1] = h /\ s[2] = t
    BY <1>1, <1>2, <2>1
  <2> QED BY <1>3, <2>1, <2>2, SeqEqual DEF s
<1> QED BY <1>1, <1>2, <1>3, <1>4, <1>5, <1>6, <1>7, <1>8, <1>9, <1>10,
           <1>d, <1>e, <1>f, <1>g DEF a, z, b

LEMMA HeadSeen ==
  ASSUME NEW c, NEW h \in Parts, h.kind = "head", Parse(c, <<h>>)
  PROVE  (Waits /\ buf_' = <<h>>) \/ Fail(c, "error")
<1>1. Ends(<<h>>) = {}
  BY DEF Ends
<1>2. \A i : ~HasHeader(<<h>>, i)
  BY <1>1 DEF HasHeader
<1> QED BY <1>2 DEF Parse, Waits

LEMMA BothSeen ==
  ASSUME NEW c, NEW h \in Parts, NEW t \in Parts,
         h.kind = "head", t.kind = "tail", Parse(c, <<h, t>>)
  PROVE  (Succeed(c, <<h, t>>) /\ buf_' = <<>>) \/ Fail(c, "error")
<1>1. Len(<<h, t>>) = 2 /\ <<h, t>>[1] = h /\ <<h, t>>[2] = t
  OBVIOUS
<1> DEFINE b == <<h, t>>
<1>2. SubSeq(b, 1, 2) = b /\ SubSeq(b, 3, 2) = <<>>
  BY TwoParts
<1> HIDE DEF b
<1>3. Len(b) = 2 /\ b[1] = h /\ b[2] = t
  BY <1>1 DEF b
<1>4. Ends(b) = {2}
  BY <1>3 DEF Ends
<1>5. Seen(b) = {2} /\ HasHeader(b, 2)
  BY <1>3, <1>4 DEF Seen, HasHeader
<1>6. Parse(c, b)
  BY DEF b
<1>7. \/ Succeed(c, SubSeq(b, 1, 2)) /\ buf_' = SubSeq(b, 2 + 1, Len(b))
      \/ Fail(c, "error")
  BY <1>5, <1>6 DEF Parse
<1>8. 2 + 1 = 3
  OBVIOUS
<1> QED BY <1>2, <1>3, <1>7, <1>8 DEF b

(* What a read brings to the parser.                                        *)
LEMMA ReadBrings ==
  ASSUME NEW h \in Parts, NEW t \in Parts, Arriving(h, t), NEW n \in 1..Len(wire)
  PROVE  LET b    == buf_ \o SubSeq(wire, 1, n)
             rest == SubSeq(wire, n + 1, Len(wire))
         IN  \/ b = <<h>> /\ rest = <<>> /\ owed \in {<<>>, <<t>>}
             \/ b = <<h>> /\ rest = <<t>> /\ owed = <<>>
             \/ b = <<h, t>> /\ rest = <<>> /\ owed = <<>>
<1> DEFINE a == <<h>>
           z == <<t>>
           m == <<h, t>>
           b    == buf_ \o SubSeq(wire, 1, n)
           rest == SubSeq(wire, n + 1, Len(wire))
<1>1. Len(<<>>) = 0
  OBVIOUS
<1>2. /\ Len(a) = 1 /\ SubSeq(a, 1, 1) = a /\ SubSeq(a, 2, 1) = <<>> /\ <<>> \o a = a
      /\ Len(m) = 2 /\ SubSeq(m, 1, 1) = a /\ SubSeq(m, 2, 2) = z
      /\ SubSeq(m, 1, 2) = m /\ SubSeq(m, 3, 2) = <<>> /\ <<>> \o m = m
      /\ a \o z = m
  BY TwoParts
<1>3. Len(z) = 1 /\ SubSeq(z, 1, 1) = z /\ SubSeq(z, 2, 1) = <<>>
  BY TwoParts
<1>4. \/ buf_ = <<>> /\ wire = <<>>
      \/ buf_ = <<>> /\ wire = a /\ owed \in {<<>>, z}
      \/ buf_ = <<>> /\ wire = m /\ owed = <<>>
      \/ buf_ = a /\ wire = <<>>
      \/ buf_ = a /\ wire = z /\ owed = <<>>
  BY DEF Arriving
<1>5. n \in Int /\ 1 + 1 = 2 /\ 2 + 1 = 3
  OBVIOUS
<1> HIDE DEF a, z, m
<1>6. CASE wire = <<>>
  BY <1>1, <1>6
<1>7. CASE buf_ = <<>> /\ wire = a /\ owed \in {<<>>, z}
  <2>1. n = 1 /\ Len(wire) = 1
    BY <1>2, <1>7
  <2>2. b = a /\ rest = <<>>
    BY <1>2, <1>5, <1>7, <2>1
  <2> QED BY <1>7, <2>2 DEF a, z, m
<1>8. CASE buf_ = <<>> /\ wire = m /\ owed = <<>>
  <2>0. Len(wire) = 2
    BY <1>2, <1>8
  <2>1. n \in {1, 2} /\ Len(wire) = 2
    BY <2>0
  <2>2. n = 1 => b = a /\ rest = z
    BY <1>2, <1>5, <1>8, <2>1
  <2>3. n = 2 => b = m /\ rest = <<>>
    BY <1>2, <1>5, <1>8, <2>1
  <2> QED BY <1>8, <2>1, <2>2, <2>3 DEF a, z, m
<1>9. CASE buf_ = a /\ wire = z /\ owed = <<>>
  <2>0. Len(wire) = 1
    BY <1>3, <1>9
  <2>1. n = 1 /\ Len(wire) = 1
    BY <2>0
  <2>2. b = m /\ rest = <<>>
    BY <1>2, <1>3, <1>5, <1>9, <2>1
  <2> QED BY <1>9, <2>2 DEF a, z, m
<1> QED BY <1>4, <1>6, <1>7, <1>8, <1>9

(* The parser is given the response to the request, and nothing else.       *)
LEMMA FreshReadSome ==
  ASSUME FreshInv, ClosedIsDrained', NEW c \in Calls, ReadSome(c)
  PROVE  WireInv' /\ (NoAnswer \/ AnswersOwnRequest')
<1> USE DEF FreshInv
<1>1. PICK n \in 1..Len(wire) :
        /\ Parse(c, buf_ \o SubSeq(wire, 1, n))
        /\ Transport(SubSeq(wire, n + 1, Len(wire)), owed)
  BY DEF ReadSome
<1>2. /\ pc = "read" /\ call = c /\ call' = c /\ UNCHANGED <<conn, sentOn>>
      /\ stream_ # "monostate" /\ LastSent(c) = conn /\ outcome[c] = "none"
  BY DEF ReadSome, CoreInv, Control, SentInv, Open, Active
<1>3. PICK k \in BOOLEAN : Arriving(Own("head", k), Own("tail", k))
  BY <1>2 DEF WireInv
<1> DEFINE h == Own("head", k)
           t == Own("tail", k)
<1>4. /\ h \in Parts /\ h.call = c /\ h.conn = conn /\ h.kind = "head"
      /\ t \in Parts /\ t.call = c /\ t.conn = conn /\ t.kind = "tail"
  BY <1>2 DEF Own, Parts, CoreInv, TypeOK
<1>5. h' = h /\ t' = t
  BY <1>2 DEF Own
<1> HIDE DEF h, t
<1>6. LET b    == buf_ \o SubSeq(wire, 1, n)
          rest == SubSeq(wire, n + 1, Len(wire))
      IN  \/ b = <<h>> /\ rest = <<>> /\ owed \in {<<>>, <<t>>}
          \/ b = <<h>> /\ rest = <<t>> /\ owed = <<>>
          \/ b = <<h, t>> /\ rest = <<>> /\ owed = <<>>
  BY <1>3, <1>4, ReadBrings DEF h, t
<1>7. CASE Fail(c, "error")
  BY <1>1, <1>2, <1>7, FailIsFresh DEF Errors
<1>8. ASSUME Parse(c, <<h>>), NEW rest, Transport(rest, owed), ~Fail(c, "error"),
             \/ rest = <<>> /\ owed \in {<<>>, <<t>>}
             \/ rest = <<t>> /\ owed = <<>>
      PROVE  WireInv' /\ NoAnswer
  <2>1. Waits /\ buf_' = <<h>>
    BY <1>4, <1>8, HeadSeen
  <2>2. wire' = rest /\ owed' = owed
    BY <1>2, <1>8, <2>1 DEF Waits, Transport
  <2>3. Arriving(h, t)'
    BY <1>5, <1>8, <2>1, <2>2 DEF Arriving
  <2>4. WireInv'
    BY <2>1, <2>3 DEF WireInv, Waits, h, t
  <2>5. NoAnswer
    BY <1>2, <2>1 DEF Waits, NoAnswer
  <2> QED BY <2>4, <2>5
<1>9. ASSUME Parse(c, <<h, t>>), Transport(<<>>, <<>>), ~Fail(c, "error")
      PROVE  WireInv' /\ AnswersOwnRequest'
  <2>1. Succeed(c, <<h, t>>) /\ buf_' = <<>>
    BY <1>4, <1>9, BothSeen
  <2>2. wire' = <<>> /\ owed' = <<>> /\ pc' \in {"idle", "connect"}
    BY <1>9, <2>1 DEF Transport, Succeed, RetryOrReturn, StartConnect, Return
  <2>3. WireInv'
    BY <2>1, <2>2 DEF WireInv
  <2>4. \A d \in Calls \ {c} : outcome'[d] = outcome[d] /\ answer'[d] = answer[d]
    BY <2>1 DEF Succeed, RetryOrReturn, StartConnect, Return, CoreInv, TypeOK
  <2>5. outcome'[c] = "ok" => answer'[c] = <<h, t>>
    BY <1>2, <2>1 DEF Succeed, RetryOrReturn, StartConnect, Return, CoreInv, TypeOK
  <2>6. ASSUME NEW d \in Calls, outcome'[d] = "ok", NEW i \in 1..Len(answer'[d])
        PROVE  /\ answer'[d][i].call = d
               /\ answer'[d][i].conn = sentOn'[d][Len(sentOn'[d])]
    <3>1. CASE d = c
      <4>1. answer'[d] = <<h, t>>
        BY <2>5, <2>6, <3>1
      <4>2. answer'[d][i] \in {h, t}
        BY <2>6, <4>1
      <4> QED BY <1>2, <1>4, <3>1, <4>2 DEF LastSent
    <3>2. CASE d # c
      BY <1>2, <2>4, <2>6, <3>2 DEF AnswersOwnRequest
    <3> QED BY <3>1, <3>2
  <2> QED BY <2>3, <2>6 DEF AnswersOwnRequest
<1> QED BY <1>1, <1>6, <1>7, <1>8, <1>9

LEMMA FreshPeer ==
  ASSUME FreshInv, PeerReplies \/ PeerCloses \/ PeerResets
  PROVE  WireInv' /\ NoAnswer
<1> USE DEF FreshInv
<1>1. stream_ # "monostate" /\ UNCHANGED <<callVars, buf_, conn, sentOn>>
  BY DEF PeerReplies, PeerCloses, PeerResets
<1>2. NoAnswer /\ \A kind, k : Own(kind, k)' = Own(kind, k)
  BY <1>1 DEF callVars, NoAnswer, Own
<1>3. CASE pc # "read"
  <2>1. wire = <<>> /\ owed = <<>>
    BY <1>3 DEF WireInv
  <2>2. wire' = <<>> /\ owed' = <<>>
    BY <2>1 DEF PeerReplies, PeerCloses, PeerResets
  <2> QED BY <1>1, <1>2, <1>3, <2>2 DEF WireInv, callVars
<1>4. CASE pc = "read"
  <2>1. PICK k \in BOOLEAN : Arriving(Own("head", k), Own("tail", k))
    BY <1>4 DEF WireInv
  <2> DEFINE h == Own("head", k)
             t == Own("tail", k)
  <2>2. h \in Parts /\ t \in Parts
    BY DEF Own, Parts, CoreInv, TypeOK
  <2>3. Arriving(h, t) /\ h' = h /\ t' = t
    BY <1>2, <2>1
  <2> HIDE DEF h, t
  <2>4. /\ Append(<<>>, h) = <<h>> /\ Append(<<>>, t) = <<t>> /\ Append(<<h>>, t) = <<h, t>>
        /\ Head(<<h, t>>) = h /\ Tail(<<h, t>>) = <<t>>
        /\ Head(<<t>>) = t /\ Tail(<<t>>) = <<>>
    BY <2>2, TwoParts
  <2>5. CASE PeerReplies
    <3>1. /\ owed # <<>> /\ buf_' = buf_
          /\ wire' = Append(wire, Head(owed)) /\ owed' = Tail(owed)
      BY <1>1, <2>5 DEF PeerReplies
    <3>2. \/ buf_' = <<>> /\ wire' = <<h>> /\ owed' = <<t>>
          \/ buf_' = <<>> /\ wire' = <<h, t>> /\ owed' = <<>>
          \/ buf_' = <<h>> /\ wire' = <<t>> /\ owed' = <<>>
      BY <2>3, <2>4, <3>1 DEF Arriving
    <3>3. Arriving(h, t)'
      BY <2>3, <3>2 DEF Arriving
    <3> QED BY <1>1, <1>2, <1>4, <3>3 DEF WireInv, callVars, h, t
  <2>6. CASE PeerCloses \/ PeerResets
    <3>1. wire' = wire /\ owed' = <<>> /\ buf_' = buf_
      BY <1>1, <2>6 DEF PeerCloses, PeerResets
    <3>2. Arriving(h, t)'
      BY <2>3, <3>1 DEF Arriving
    <3> QED BY <1>1, <1>2, <1>4, <3>2 DEF WireInv, callVars, h, t
  <2> QED BY <2>5, <2>6
<1> QED BY <1>3, <1>4

LEMMA FreshStep ==
  ASSUME FreshInv, [Next]_vars, ClosedIsDrained'
  PROVE  FreshInv'
<1> USE DEF FreshInv
<1>1. CoreInv' /\ SentInv'
  BY CoreStep, SentStep
<1>2. ASSUME UNCHANGED <<callVars, stream_, buf_, netVars, conn, sentOn>>
      PROVE  WireInv' /\ NoAnswer
  BY <1>2 DEF callVars, netVars, WireInv, Arriving, Own, NoAnswer
<1>3. ASSUME NEW c \in Calls, Stop(c) PROVE WireInv' /\ NoAnswer
  BY <1>2, <1>3 DEF Stop
<1>4. ASSUME UNCHANGED vars PROVE WireInv' /\ NoAnswer
  BY <1>2, <1>4 DEF vars
<1>5. WireInv' /\ (NoAnswer \/ AnswersOwnRequest')
  BY <1>3, <1>4, FreshRestCall, FreshConnect, FreshWriteDone, FreshReadSome, FreshFails,
     FreshPeer DEF Next
<1>6. AnswersOwnRequest'
  BY <1>5, AnswersStay
<1> QED BY <1>1, <1>5, <1>6

LEMMA FreshInvariant == Spec => ([]ClosedIsDrained => []FreshInv)
<1>1. FreshInv /\ [Next]_vars /\ ClosedIsDrained' => FreshInv'
  BY FreshStep
<1> QED BY <1>1, FreshInit, PTL DEF Spec

(* Unless bytes of a closed stream are left in buf_, a call that succeeds is *)
(* given the response to its own request, from the connection on which it   *)
(* was last sent, for any number of calls on the object (rest_call).        *)
THEOREM AnsweredUnlessStale == Spec => AnswersUnlessStale
<1>1. FreshInv => AnswersOwnRequest
  BY DEF FreshInv
<1> QED BY <1>1, FreshInvariant, PTL DEF AnswersUnlessStale

(* And then a stream that is left open in the pool has nothing outstanding: *)
(* neither bytes in buf_ nor an answer that may still come in.              *)
THEOREM DrainedStreams == Spec => DrainedUnlessStale
<1>1. FreshInv => IdleStreamIsDrained
  BY DEF FreshInv, WireInv, CoreInv, Control, IdleStreamIsDrained
<1> QED BY <1>1, FreshInvariant, PTL DEF DrainedUnlessStale
=============================================================================
