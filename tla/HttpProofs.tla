----------------------------- MODULE HttpProofs -----------------------------
(***************************************************************************)
(* Proofs about HttpClient, for any callers, requests and initializations: *)
(* every request that was queued is answered, in hand or still queued, in  *)
(* the order of the requests, and its callback runs once; and the HTTP     *)
(* thread never goes to sleep on requests that were signalled.             *)
(*                                                                         *)
(* Then the same for the reads of a response, for the connection of a      *)
(* request, and for the Consume methods, for any text whose line ends are  *)
(* told.  The last part is about the components next to each other in      *)
(* MCHttp: what is proved of each is so of the composite.                  *)
(***************************************************************************)
EXTENDS MCHttp, ThreadCounts

\* The requests that responses are for.
Of(q) == [n \in DOMAIN q |-> q[n].request]

LEMMA OfIsSeq ==
  ASSUME NEW q \in Seq(Responses)
  PROVE  /\ Of(q) \in Seq(Requests) /\ Len(Of(q)) = Len(q)
         /\ \A i \in 1..Len(q): Of(q)[i] = q[i].request /\ q[i].request \in Requests
<1>1. /\ Len(q) \in Nat /\ DOMAIN q = 1..Len(q)
      /\ \A i \in 1..Len(q): q[i] \in Responses
  BY LenProperties, ElementOfSeq
<1>2. \A i \in 1..Len(q): q[i].request \in Requests
  BY <1>1 DEF Responses
<1>. QED
  BY <1>1, <1>2 DEF Of

\* The thread adds a response behind the others.
LEMMA OfAppend ==
  ASSUME NEW q \in Seq(Responses), NEW r \in Responses
  PROVE  Of(Append(q, r)) = Of(q) \o <<r.request>>
<1>1. /\ Append(q, r) \in Seq(Responses) /\ Len(Append(q, r)) = Len(q) + 1
      /\ \A i \in 1..Len(q): Append(q, r)[i] = q[i]
      /\ Append(q, r)[Len(q) + 1] = r /\ Len(q) \in Nat
  BY AppendProperties, LenProperties
<1>2. r.request \in Requests
  BY DEF Responses
<1>3. Of(q) \o <<r.request>> = Append(Of(q), r.request)
  BY <1>2, OfIsSeq, AppendIsConcat
<1>4. /\ Append(Of(q), r.request) \in Seq(Requests)
      /\ Len(Append(Of(q), r.request)) = Len(q) + 1
      /\ \A i \in 1..Len(q): Append(Of(q), r.request)[i] = q[i].request
      /\ Append(Of(q), r.request)[Len(q) + 1] = r.request
  BY <1>2, OfIsSeq, AppendProperties
<1>5. /\ Of(Append(q, r)) \in Seq(Requests) /\ Len(Of(Append(q, r))) = Len(q) + 1
      /\ \A i \in 1..Len(q) + 1: Of(Append(q, r))[i] = Append(q, r)[i].request
  BY <1>1, OfIsSeq
<1>6. \A i \in 1..Len(q) + 1: Of(Append(q, r))[i] = Append(Of(q), r.request)[i]
  <2>1. \A i \in 1..Len(q) + 1: i \in 1..Len(q) \/ i = Len(q) + 1
    BY <1>1
  <2>. QED
    BY <1>1, <1>4, <1>5, <2>1
<1>7. Of(Append(q, r)) = Append(Of(q), r.request)
  BY <1>4, <1>5, <1>6, SeqEqual
<1>. QED
  BY <1>3, <1>7

\* The main thread takes the one in front.
LEMMA OfTail ==
  ASSUME NEW q \in Seq(Responses), q # <<>>
  PROVE  /\ Head(q) \in Responses /\ Tail(q) \in Seq(Responses)
         /\ Of(q) = <<Head(q).request>> \o Of(Tail(q))
<1>1. /\ Head(q) \in Responses /\ Tail(q) \in Seq(Responses)
      /\ Len(Tail(q)) = Len(q) - 1 /\ Len(q) \in Nat /\ Len(q) # 0
      /\ \A i \in 1..Len(Tail(q)): Tail(q)[i] = q[i + 1]
      /\ Head(q) = q[1]
  BY HeadTailProperties, LenProperties, EmptySeq
<1>2. Head(q).request \in Requests
  BY <1>1 DEF Responses
<1>3. /\ <<Head(q).request>> \in Seq(Requests) /\ Len(<<Head(q).request>>) = 1
      /\ <<Head(q).request>>[1] = Head(q).request
  BY <1>2
<1>4. /\ Of(Tail(q)) \in Seq(Requests) /\ Len(Of(Tail(q))) = Len(q) - 1
      /\ \A i \in 1..Len(q) - 1: Of(Tail(q))[i] = Tail(q)[i].request
  BY <1>1, OfIsSeq
<1>. DEFINE joined == <<Head(q).request>> \o Of(Tail(q))
<1>5. /\ joined \in Seq(Requests) /\ Len(joined) = 1 + (Len(q) - 1)
      /\ \A i \in 1..1 + (Len(q) - 1):
           joined[i] = IF i <= 1 THEN <<Head(q).request>>[i] ELSE Of(Tail(q))[i - 1]
  BY <1>3, <1>4, ConcatProperties
<1>. HIDE DEF joined
<1>6. /\ Of(q) \in Seq(Requests) /\ Len(Of(q)) = Len(q)
      /\ \A i \in 1..Len(q): Of(q)[i] = q[i].request
  BY OfIsSeq
<1>7. ASSUME NEW i \in 1..Len(q)
      PROVE  Of(q)[i] = joined[i]
  <2>1. CASE i = 1
    BY <1>1, <1>3, <1>5, <1>6, <2>1
  <2>2. CASE i # 1
    <3>1. i - 1 \in 1..Len(q) - 1 /\ (i - 1) + 1 = i /\ ~ i <= 1 /\ i \in 1..1 + (Len(q) - 1)
      BY <1>1, <2>2
    <3>2. joined[i] = Of(Tail(q))[i - 1]
      BY <1>5, <3>1
    <3>. QED
      BY <1>1, <1>4, <1>6, <3>1, <3>2
  <2>. QED
    BY <2>1, <2>2
<1>8. Of(q) = joined
  BY <1>1, <1>5, <1>6, <1>7, SeqEqual
<1>. QED
  BY <1>1, <1>8 DEF joined

---------------------------------------------------------------------------
PcTypes == {"idle", "write_id", "push", "signal", "shutdown_signal", "join", "drain", "callback"}

QueueTypes ==
  /\ requestQueue \in Seq(Requests) /\ responseQueue \in Seq(Responses)
  /\ accepted \in Seq(Requests) /\ delivered \in Seq(Requests)

OtherTypes ==
  /\ initialized \in BOOLEAN /\ threadRunning \in BOOLEAN
  /\ semaphore \in Nat
  /\ nextRequestId \in Nat \ {0}
  /\ worker \in {"none", "starting", "check", "wait", "pop", "process", "exited"}
  /\ current \in Requests
  /\ pc \in [Clients -> PcTypes]
  /\ inCallback \in BOOLEAN
  /\ request \in [Clients -> Requests]
  /\ inits \in Nat

LEMMA TypeParts == TypeOK <=> QueueTypes /\ OtherTypes
BY DEF TypeOK, QueueTypes, OtherTypes, PcTypes

\* A step that leaves the queues alone, and what the thread has in hand.
LEMMA OrderStays ==
  ASSUME TypeOK, InOrder, UNCHANGED queueVars, OtherTypes', InHand' = InHand
  PROVE  TypeOK' /\ InOrder'
<1>1. QueueTypes'
  BY DEF TypeOK, QueueTypes, queueVars
<1>2. InOrder'
  BY DEF InOrder, Answered, queueVars
<1>. QED
  BY <1>1, <1>2 DEF TypeOK, QueueTypes, OtherTypes, PcTypes

LEMMA CallerSteps ==
  ASSUME HttpAssumption, TypeOK, InOrder, NEW c \in Clients,
         ReadId(c) \/ WriteId(c) \/ SignalRequest(c)
  PROVE  TypeOK' /\ InOrder'
<1>1. UNCHANGED queueVars /\ UNCHANGED workerVars
  BY DEF ReadId, WriteId, SignalRequest
<1>2. InHand' = InHand
  BY <1>1 DEF workerVars, InHand
<1>3. NoRequest \in Requests /\ OtherTypes
  BY TypeParts DEF NoRequest, Requests, HttpAssumption
<1>4. CASE ReadId(c)
  <2>1. [id |-> nextRequestId, from |-> c] \in Requests
    BY <1>3 DEF OtherTypes, Requests
  <2>2. OtherTypes'
    BY <1>3, <1>4, <2>1 DEF ReadId, Goto, OtherTypes, PcTypes, clientVars, workerVars
  <2>. QED
    BY <1>1, <1>2, <2>2, OrderStays
<1>5. CASE WriteId(c)
  <2>1. request[c].id \in Nat
    BY <1>3 DEF OtherTypes, Requests
  <2>2. OtherTypes'
    BY <1>3, <1>5, <2>1 DEF WriteId, Goto, OtherTypes, PcTypes, clientVars, workerVars
  <2>. QED
    BY <1>1, <1>2, <2>2, OrderStays
<1>6. CASE SignalRequest(c)
  <2>1. OtherTypes'
    BY <1>3, <1>6 DEF SignalRequest, Goto, OtherTypes, PcTypes, clientVars, workerVars
  <2>. QED
    BY <1>1, <1>2, <2>1, OrderStays
<1>. QED
  BY <1>4, <1>5, <1>6

LEMMA MainSteps ==
  ASSUME HttpAssumption, TypeOK, InOrder,
         ShutdownStore \/ Shutdown \/ CallProcessResponses \/ CallbackReturns \/ NoMoreResponses
  PROVE  TypeOK' /\ InOrder'
<1>1. UNCHANGED queueVars /\ UNCHANGED workerVars
  BY DEF ShutdownStore, Shutdown, ShutdownSignal, ShutdownJoin, CallProcessResponses,
         CallbackReturns, NoMoreResponses
<1>2. InHand' = InHand
  BY <1>1 DEF workerVars, InHand
<1>3. Main \in Clients /\ OtherTypes
  BY TypeParts DEF HttpAssumption
<1>4. \A from, to: Goto(Main, from, to) /\ to \in PcTypes => pc' \in [Clients -> PcTypes]
  BY <1>3 DEF Goto, OtherTypes
<1>5. pc' \in [Clients -> PcTypes]
  <2>1. {"shutdown_signal", "join", "idle", "drain", "callback"} \subseteq PcTypes
    BY DEF PcTypes
  <2>. QED
    BY <1>4, <2>1 DEF ShutdownStore, Shutdown, ShutdownSignal, ShutdownJoin,
       CallProcessResponses, CallbackReturns, NoMoreResponses
<1>6. /\ semaphore' \in Nat /\ nextRequestId' = nextRequestId /\ inits' = inits
      /\ request' = request
  BY <1>3 DEF OtherTypes, ShutdownStore, Shutdown, ShutdownSignal, ShutdownJoin,
     CallProcessResponses, CallbackReturns, NoMoreResponses, clientVars
<1>7. initialized' \in BOOLEAN /\ threadRunning' \in BOOLEAN /\ inCallback' \in BOOLEAN
  BY <1>3, Zenon DEF OtherTypes, ShutdownStore, Shutdown, ShutdownSignal, ShutdownJoin,
     CallProcessResponses, CallbackReturns, NoMoreResponses, clientVars
<1>8. OtherTypes'
  BY <1>1, <1>3, <1>5, <1>6, <1>7 DEF OtherTypes, workerVars
<1>. QED
  BY <1>1, <1>2, <1>8, OrderStays

LEMMA InitStep ==
  ASSUME TypeOK, HttpInit
  PROVE  TypeOK' /\ InOrder'
<1>1. /\ requestQueue' = <<>> /\ responseQueue' = <<>> /\ accepted' = <<>> /\ delivered' = <<>>
      /\ worker' = "starting"
  BY DEF HttpInit
<1>2. QueueTypes'
  BY <1>1 DEF QueueTypes
<1>3. initialized' \in BOOLEAN /\ threadRunning' \in BOOLEAN /\ inCallback' \in BOOLEAN
  BY Zenon DEF HttpInit, TypeOK, callVars
<1>4. OtherTypes'
  BY <1>1, <1>3, TypeParts DEF HttpInit, OtherTypes, callVars
<1>5. Of(responseQueue') = <<>>
  BY <1>1 DEF Of
<1>6. Answered' = <<>> /\ InHand' = <<>>
  BY <1>1, <1>5, ConcatEmptySeq, EmptySeq DEF Answered, InHand, Of
<1>7. InOrder'
  BY <1>1, <1>6, ConcatEmptySeq, EmptySeq DEF InOrder
<1>. QED
  BY <1>2, <1>4, <1>7 DEF TypeOK, QueueTypes, OtherTypes, PcTypes

\* A step that changes the queues: what it makes of their types and their order.
LEMMA QueueTypesGiveType ==
  ASSUME QueueTypes', OtherTypes'
  PROVE  TypeOK'
BY DEF TypeOK, QueueTypes, OtherTypes, PcTypes

LEMMA PushStep ==
  ASSUME TypeOK, InOrder, NEW c \in Clients, PushRequest(c)
  PROVE  TypeOK' /\ InOrder'
<1>1. /\ requestQueue' = Append(requestQueue, request[c])
      /\ accepted' = Append(accepted, request[c])
      /\ UNCHANGED <<responseQueue, delivered, worker, current>>
  BY DEF PushRequest, workerVars
<1>2. request[c] \in Requests /\ QueueTypes /\ OtherTypes
  BY TypeParts DEF OtherTypes
<1>3. QueueTypes'
  BY <1>1, <1>2, AppendProperties DEF QueueTypes
<1>4. OtherTypes'
  BY <1>2 DEF PushRequest, Goto, OtherTypes, PcTypes, clientVars, workerVars
<1>5. Answered' = Answered /\ InHand' = InHand
  BY <1>1 DEF Answered, InHand
<1>6. Answered \o InHand \in Seq(Requests)
  <2>1. Of(responseQueue) \in Seq(Requests) /\ delivered \in Seq(Requests)
    BY <1>2, OfIsSeq DEF QueueTypes
  <2>2. delivered \o Of(responseQueue) \in Seq(Requests)
    BY <2>1, ConcatProperties
  <2>3. Answered \in Seq(Requests)
    BY <2>2 DEF Answered, Of
  <2>4. InHand \in Seq(Requests)
    BY <1>2 DEF InHand, OtherTypes
  <2>. QED
    BY <2>3, <2>4, ConcatProperties
<1>. DEFINE before == Answered \o InHand
<1>7. accepted = before \o requestQueue
  BY DEF InOrder
<1>8. accepted' = before \o requestQueue'
  <2>. HIDE DEF before
  <2>1. accepted' = (before \o requestQueue) \o <<request[c]>>
    BY <1>1, <1>2, <1>7, AppendIsConcat DEF QueueTypes
  <2>2. requestQueue' = requestQueue \o <<request[c]>>
    BY <1>1, <1>2, AppendIsConcat DEF QueueTypes
  <2>3. before \in Seq(Requests)
    BY <1>6 DEF before
  <2>4. requestQueue \in Seq(Requests) /\ <<request[c]>> \in Seq(Requests)
    BY <1>2 DEF QueueTypes
  <2>. QED
    BY <2>1, <2>2, <2>3, <2>4, ConcatAssociative
<1>9. InOrder'
  BY <1>5, <1>8 DEF InOrder
<1>. QED
  BY <1>3, <1>4, <1>9, QueueTypesGiveType

LEMMA PopResponseStep ==
  ASSUME HttpAssumption, TypeOK, InOrder, PopResponse
  PROVE  TypeOK' /\ InOrder'
<1>1. /\ responseQueue # <<>> /\ responseQueue' = Tail(responseQueue)
      /\ delivered' = Append(delivered, Head(responseQueue).request)
      /\ UNCHANGED <<requestQueue, accepted, worker, current>>
  BY DEF PopResponse, workerVars
<1>2. QueueTypes /\ OtherTypes /\ Main \in Clients
  BY TypeParts DEF HttpAssumption
<1>3. /\ Head(responseQueue) \in Responses /\ Tail(responseQueue) \in Seq(Responses)
      /\ Of(responseQueue) = <<Head(responseQueue).request>> \o Of(Tail(responseQueue))
  BY <1>1, <1>2, OfTail DEF QueueTypes
<1>. DEFINE r == Head(responseQueue).request
<1>4. r \in Requests
  BY <1>3 DEF Responses
<1>5. QueueTypes'
  BY <1>1, <1>2, <1>3, <1>4, AppendProperties DEF QueueTypes
<1>6. OtherTypes'
  <2>1. inCallback' = TRUE /\ inCallback' \in BOOLEAN
    BY Zenon DEF PopResponse
  <2>. QED
    BY <1>2, <2>1 DEF PopResponse, Goto, OtherTypes, PcTypes, clientVars, workerVars
<1>7. Answered' = Answered
  <2>1. Answered = delivered \o Of(responseQueue)
    BY DEF Answered, Of
  <2>2. Answered' = delivered' \o Of(responseQueue')
    BY DEF Answered, Of
  <2>3. delivered' = delivered \o <<r>>
    BY <1>1, <1>2, <1>4, AppendIsConcat DEF QueueTypes
  <2>4. delivered \in Seq(Requests) /\ <<r>> \in Seq(Requests)
        /\ Of(Tail(responseQueue)) \in Seq(Requests)
    <3>1. Of(Tail(responseQueue)) \in Seq(Requests)
      BY <1>3, OfIsSeq
    <3>2. <<r>> \in Seq(Requests)
      BY <1>4
    <3>. QED
      BY <1>2, <3>1, <3>2 DEF QueueTypes
  <2>. HIDE DEF r
  <2>5. (delivered \o <<r>>) \o Of(Tail(responseQueue))
          = delivered \o (<<r>> \o Of(Tail(responseQueue)))
    BY <2>4, ConcatAssociative
  <2>6. Of(responseQueue) = <<r>> \o Of(Tail(responseQueue))
    BY <1>3 DEF r
  <2>. QED
    BY <1>1, <2>1, <2>2, <2>3, <2>5, <2>6
<1>8. InOrder'
  BY <1>1, <1>7 DEF InOrder, InHand
<1>. QED
  BY <1>5, <1>6, <1>8, QueueTypesGiveType

LEMMA ThreadQuietStep ==
  ASSUME HttpAssumption, TypeOK, InOrder, ThreadStart \/ ThreadCheck \/ ThreadWait
  PROVE  TypeOK' /\ InOrder'
<1>1. UNCHANGED queueVars /\ UNCHANGED <<clientVars, nextRequestId, pc, request, inCallback, current>>
  BY DEF ThreadStart, ThreadCheck, ThreadWait, otherVars, callVars
<1>2. /\ worker \in {"starting", "check", "wait"}
      /\ worker' \in {"check", "wait", "exited", "pop"}
  BY DEF ThreadStart, ThreadCheck, ThreadWait, WorkerGoto
<1>3. InHand' = InHand
  BY <1>2 DEF InHand
<1>4. semaphore' \in Nat /\ OtherTypes
  BY TypeParts DEF ThreadStart, ThreadCheck, ThreadWait, OtherTypes
<1>5. threadRunning' \in BOOLEAN
  BY <1>4, Zenon DEF ThreadStart, ThreadCheck, ThreadWait, OtherTypes
<1>6. OtherTypes'
  BY <1>1, <1>2, <1>4, <1>5 DEF OtherTypes, clientVars
<1>. QED
  BY <1>1, <1>3, <1>6, OrderStays

LEMMA ThreadPopStep ==
  ASSUME HttpAssumption, TypeOK, InOrder, ThreadPop
  PROVE  TypeOK' /\ InOrder'
<1>1. /\ UNCHANGED <<responseQueue, accepted, delivered, semaphore, threadRunning>>
      /\ UNCHANGED <<clientVars, nextRequestId, pc, request, inCallback>>
      /\ worker = "pop" /\ QueueTypes /\ OtherTypes
  BY TypeParts DEF ThreadPop, otherVars, callVars, WorkerGoto
<1>2. Answered' = Answered /\ InHand = <<>>
  BY <1>1 DEF Answered, InHand
<1>3. Answered \in Seq(Requests)
  <2>1. Of(responseQueue) \in Seq(Requests) /\ delivered \in Seq(Requests)
    BY <1>1, OfIsSeq DEF QueueTypes
  <2>2. delivered \o Of(responseQueue) \in Seq(Requests)
    BY <2>1, ConcatProperties
  <2>. QED
    BY <2>2 DEF Answered, Of
<1>4. accepted = Answered \o requestQueue
  BY <1>2, <1>3, ConcatEmptySeq DEF InOrder
<1>5. CASE requestQueue = <<>>
  <2>1. worker' = "check" /\ UNCHANGED <<requestQueue, current>>
    BY <1>5 DEF ThreadPop, WorkerGoto
  <2>2. OtherTypes' /\ InHand' = <<>> /\ UNCHANGED queueVars
    BY <1>1, <2>1 DEF OtherTypes, clientVars, InHand, queueVars
  <2>. QED
    BY <1>2, <2>2, OrderStays
<1>6. CASE requestQueue # <<>>
  <2>1. /\ worker' = "process" /\ current' = Head(requestQueue)
        /\ requestQueue' = Tail(requestQueue)
    BY <1>6 DEF ThreadPop, WorkerGoto
  <2>2. /\ Head(requestQueue) \in Requests /\ Tail(requestQueue) \in Seq(Requests)
        /\ requestQueue = <<Head(requestQueue)>> \o Tail(requestQueue)
    BY <1>1, <1>6, HeadTailProperties DEF QueueTypes
  <2>3. OtherTypes' /\ QueueTypes'
    BY <1>1, <2>1, <2>2 DEF OtherTypes, QueueTypes, clientVars
  <2>4. InHand' = <<Head(requestQueue)>> /\ <<Head(requestQueue)>> \in Seq(Requests)
    BY <2>1, <2>2 DEF InHand
  <2>5. (Answered \o <<Head(requestQueue)>>) \o Tail(requestQueue)
          = Answered \o (<<Head(requestQueue)>> \o Tail(requestQueue))
    BY <1>3, <2>2, <2>4, ConcatAssociative
  <2>6. accepted' = (Answered' \o InHand') \o requestQueue'
    BY <1>1, <1>2, <1>4, <2>1, <2>2, <2>4, <2>5
  <2>. QED
    BY <2>3, <2>6, QueueTypesGiveType DEF InOrder
<1>. QED
  BY <1>5, <1>6

LEMMA ProcessStep ==
  ASSUME HttpAssumption, TypeOK, InOrder, NEW errored \in BOOLEAN, ProcessRequest(errored)
  PROVE  TypeOK' /\ InOrder'
<1>. DEFINE r == [request |-> current, errored |-> errored]
<1>1. /\ UNCHANGED <<requestQueue, accepted, delivered, semaphore, threadRunning>>
      /\ UNCHANGED <<clientVars, nextRequestId, pc, request, inCallback>>
      /\ worker = "process" /\ worker' = "pop" /\ current' = NoRequest
      /\ responseQueue' = Append(responseQueue, r)
      /\ QueueTypes /\ OtherTypes /\ NoRequest \in Requests
  BY TypeParts DEF ProcessRequest, otherVars, callVars, WorkerGoto, NoRequest, Requests,
     HttpAssumption
<1>2. r \in Responses /\ r.request = current /\ current \in Requests
  BY <1>1 DEF Responses, OtherTypes
<1>. HIDE DEF r
<1>3. QueueTypes' /\ OtherTypes'
  <2>1. responseQueue' \in Seq(Responses)
    BY <1>1, <1>2, AppendProperties DEF QueueTypes
  <2>. QED
    BY <1>1, <2>1 DEF QueueTypes, OtherTypes, clientVars
<1>4. InHand = <<current>> /\ InHand' = <<>> /\ <<current>> \in Seq(Requests)
  BY <1>1, <1>2 DEF InHand
<1>5. Of(responseQueue') = Of(responseQueue) \o <<current>>
  BY <1>1, <1>2, OfAppend DEF QueueTypes
<1>6. /\ delivered \in Seq(Requests) /\ Of(responseQueue) \in Seq(Requests)
      /\ requestQueue \in Seq(Requests)
  BY <1>1, OfIsSeq DEF QueueTypes
<1>7. Answered' = delivered \o Of(responseQueue') /\ Answered = delivered \o Of(responseQueue)
  BY <1>1 DEF Answered, Of
<1>8. Answered' = Answered \o InHand
  BY <1>4, <1>5, <1>6, <1>7, ConcatAssociative
<1>9. Answered' \in Seq(Requests)
  <2>1. Answered \in Seq(Requests)
    BY <1>6, <1>7, ConcatProperties
  <2>. QED
    BY <1>4, <1>8, <2>1, ConcatProperties
<1>10. Answered' \o InHand' = Answered'
  BY <1>4, <1>9, ConcatEmptySeq
<1>11. InOrder'
  BY <1>1, <1>8, <1>10 DEF InOrder
<1>. QED
  BY <1>3, <1>11, QueueTypesGiveType

LEMMA NextInOrder ==
  ASSUME HttpAssumption, TypeOK, InOrder, [Next]_vars
  PROVE  TypeOK' /\ InOrder'
<1>1. CASE UNCHANGED vars
  BY <1>1 DEF vars, TypeOK, InOrder, Answered, InHand
<1>2. CASE Thread
  BY <1>2, ThreadQuietStep, ThreadPopStep, ProcessStep DEF Thread
<1>3. CASE \E c \in Clients : ReadId(c) \/ WriteId(c) \/ PushRequest(c) \/ SignalRequest(c)
  BY <1>3, CallerSteps, PushStep
<1>. QED
  BY <1>1, <1>2, <1>3, InitStep, MainSteps, PopResponseStep DEF Next

---------------------------------------------------------------------------
\* Until the client is initialized anew, every request is in exactly one place and
\* in its order, whoever made it, whatever became of it, and however calls of Get,
\* ProcessResponses and Shutdown interleave with the thread.
THEOREM ClientInOrder ==
  ASSUME HttpAssumption
  PROVE  Spec => []RequestsInOrder
<1>1. Init => TypeOK /\ InOrder
  <2>. SUFFICES ASSUME Init PROVE TypeOK /\ InOrder
    OBVIOUS
  <2>1. TypeOK
    <3>1. initialized \in BOOLEAN /\ threadRunning \in BOOLEAN /\ inCallback \in BOOLEAN
      BY Zenon DEF Init
    <3>2. NoRequest \in Requests
      BY DEF NoRequest, Requests, HttpAssumption
    <3>. QED
      BY <3>1, <3>2 DEF Init, TypeOK
  <2>2. accepted = <<>> /\ requestQueue = <<>> /\ InHand = <<>>
    BY DEF Init, InHand
  <2>3. Of(responseQueue) = <<>> /\ delivered = <<>>
    BY DEF Init, Of
  <2>4. Answered = <<>> \o <<>>
    BY <2>3 DEF Answered, Of
  <2>5. Answered = <<>>
    BY <2>4, ConcatEmptySeq, EmptySeq
  <2>. QED
    BY <2>1, <2>2, <2>5, ConcatEmptySeq, EmptySeq DEF InOrder
<1>2. TypeOK /\ InOrder /\ [Next]_vars => TypeOK' /\ InOrder'
  BY NextInOrder
<1>3. TypeOK /\ InOrder => RequestsInOrder
  BY DEF RequestsInOrder
<1>. QED
  BY <1>1, <1>2, <1>3, PTL DEF Spec

\* A caller that is about to signal stays so until it does.
LEMMA SignalsStay ==
  ASSUME TypeOK, NEW c \in Clients, NEW from, NEW to, Goto(c, from, to), from # "signal",
         \E d \in Clients: pc[d] = "signal"
  PROVE  \E d \in Clients: pc'[d] = "signal"
<1>1. PICK d \in Clients: pc[d] = "signal"
  OBVIOUS
<1>2. c # d
  BY <1>1 DEF Goto
<1>3. pc'[d] = "signal"
  BY <1>1, <1>2 DEF Goto, TypeOK
<1>. QED
  BY <1>3

LEMMA NextWakes ==
  ASSUME HttpAssumption, TypeOK, NoLostWakeup, [Next]_vars
  PROVE  NoLostWakeup'
<1>. USE DEF NoLostWakeup
<1>1. CASE UNCHANGED vars
  BY <1>1 DEF vars
<1>2. CASE HttpInit
  BY <1>2 DEF HttpInit
<1>3. CASE Thread
  BY <1>3 DEF Thread, ThreadStart, ThreadCheck, ThreadWait, ThreadPop, ProcessRequest, WorkerGoto,
     otherVars, callVars, queueVars, TypeOK
<1>4. ASSUME NEW c \in Clients, PushRequest(c)
      PROVE  NoLostWakeup'
  <2>1. pc'[c] = "signal"
    BY <1>4 DEF PushRequest, Goto, TypeOK
  <2>. QED
    BY <2>1
<1>5. ASSUME NEW c \in Clients, SignalRequest(c)
      PROVE  NoLostWakeup'
  <2>1. semaphore' > 0
    BY <1>5 DEF SignalRequest, TypeOK
  <2>. QED
    BY <2>1
\* The rest leave the thread, its queue and its permits as they are, or give one.
<1>6. ASSUME NEW c \in Clients, NEW from, NEW to, Goto(c, from, to), from # "signal",
             requestQueue' = requestQueue, worker' = worker, semaphore' \in {semaphore, semaphore + 1}
      PROVE  NoLostWakeup'
  <2>. SUFFICES ASSUME requestQueue' # <<>>, worker' \in {"starting", "check", "wait"}
                PROVE  semaphore' > 0 \/ \E d \in Clients: pc'[d] = "signal"
    BY DEF NoLostWakeup
  <2>1. semaphore > 0 \/ \E d \in Clients: pc[d] = "signal"
    BY <1>6
  <2>2. semaphore > 0 => semaphore' > 0
    BY <1>6 DEF TypeOK
  <2>. QED
    BY <1>6, <2>1, <2>2, SignalsStay
<1>7. ASSUME NEW c \in Clients, ReadId(c) \/ WriteId(c)
      PROVE  NoLostWakeup'
  <2>1. requestQueue' = requestQueue /\ worker' = worker /\ semaphore' \in {semaphore, semaphore + 1}
    BY <1>7 DEF ReadId, WriteId, queueVars, workerVars, TypeOK
  <2>. QED
    BY <1>6, <1>7, <2>1 DEF ReadId, WriteId
<1>8. CASE ShutdownStore \/ Shutdown \/ CallProcessResponses \/ PopResponse \/ CallbackReturns
           \/ NoMoreResponses
  <2>1. Main \in Clients /\ requestQueue' = requestQueue /\ worker' = worker
    BY <1>8 DEF HttpAssumption, ShutdownStore, Shutdown, ShutdownSignal, ShutdownJoin,
       CallProcessResponses, PopResponse, CallbackReturns, NoMoreResponses, queueVars, workerVars
  <2>2. semaphore' \in {semaphore, semaphore + 1}
    BY <1>8 DEF ShutdownStore, Shutdown, ShutdownSignal, ShutdownJoin,
       CallProcessResponses, PopResponse, CallbackReturns, NoMoreResponses, TypeOK
  <2>3. \E from \in PcTypes \ {"signal"}, to \in PcTypes: Goto(Main, from, to)
    BY <1>8 DEF ShutdownStore, Shutdown, ShutdownSignal, ShutdownJoin, PcTypes,
       CallProcessResponses, PopResponse, CallbackReturns, NoMoreResponses
  <2>. QED
    BY <1>6, <2>1, <2>2, <2>3
<1>. QED
  BY <1>1, <1>2, <1>3, <1>4, <1>5, <1>7, <1>8 DEF Next

\* The HTTP thread does not sleep, and will not, on a request whose caller has
\* signalled it, although a pass of the thread may take many requests at once.
THEOREM ClientWakesThread ==
  ASSUME HttpAssumption
  PROVE  Spec => []RequestWakesThread
<1>1. Init => NoLostWakeup
  BY DEF Init, NoLostWakeup
<1>2. TypeOK /\ NoLostWakeup /\ [Next]_vars => NoLostWakeup'
  BY NextWakes
<1>3. NoLostWakeup => RequestWakesThread
  BY DEF RequestWakesThread
<1>4. Spec => []TypeOK
  <2>1. RequestsInOrder => TypeOK
    BY DEF RequestsInOrder
  <2>. QED
    BY <2>1, ClientInOrder, PTL
<1>. QED
  BY <1>1, <1>2, <1>3, <1>4, PTL DEF Spec

---------------------------------------------------------------------------
(***************************************************************************)
(* HttpRead, for every size of the header, the body and the buffers: no    *)
(* buffer is filled past its end, and only a whole response is ever        *)
(* parsed.  The invariant adds that what was received was sent.            *)
(***************************************************************************)

ReadInv == Read!TypeOK /\ Read!ParsesOnlyWhole /\ Read!Received <= rSends

\* What was received grows by what a read brings, whether it goes to a new buffer
\* or to the one before.
LEMMA ReceivedGrows ==
  ASSUME Read!ReadAssumption, Read!TypeOK, NEW n \in Nat, n <= Read!Room,
         rBuffers' = rBuffers + (IF Read!NeedsBuffer THEN 1 ELSE 0),
         rLast' = (IF Read!NeedsBuffer THEN 0 ELSE rLast) + n
  PROVE  /\ Read!Received \in Nat /\ Read!Received' = Read!Received + n
         /\ rBuffers' \in Nat /\ rLast' \in 0..BufferSize
<1>1. rBuffers \in Nat /\ rLast \in 0..BufferSize /\ BufferSize \in Nat
  BY DEF Read!TypeOK, Read!ReadAssumption
<1>2. CASE rBuffers = 0
  BY <1>1, <1>2 DEF Read!Received, Read!NeedsBuffer, Read!Room
<1>3. CASE rBuffers # 0 /\ rLast = BufferSize
  <2>1. rBuffers' = rBuffers + 1 /\ rLast' = n
    BY <1>3 DEF Read!NeedsBuffer
  <2>2. (rBuffers - 1) * BufferSize + BufferSize = rBuffers * BufferSize
    BY <1>1
  <2>3. rBuffers * BufferSize \in Nat /\ (rBuffers + 1) - 1 = rBuffers
    BY <1>1
  <2>4. Read!Received = rBuffers * BufferSize
    BY <1>3, <2>2 DEF Read!Received
  <2>5. Read!Received' = rBuffers * BufferSize + n
    BY <1>1, <2>1, <2>3 DEF Read!Received
  <2>. QED
    BY <1>1, <1>3, <2>1, <2>3, <2>4, <2>5 DEF Read!NeedsBuffer, Read!Room
<1>4. CASE rBuffers # 0 /\ rLast # BufferSize
  <2>1. rBuffers' = rBuffers /\ rLast' = rLast + n /\ rLast + n <= BufferSize
    BY <1>1, <1>4 DEF Read!NeedsBuffer, Read!Room
  <2>2. (rBuffers - 1) * BufferSize \in Nat
    BY <1>1, <1>4
  <2>3. Read!Received = (rBuffers - 1) * BufferSize + rLast
    BY <1>4 DEF Read!Received
  <2>4. Read!Received' = (rBuffers - 1) * BufferSize + (rLast + n)
    BY <1>4, <2>1 DEF Read!Received
  <2>. QED
    BY <1>1, <2>1, <2>2, <2>3, <2>4
<1>. QED
  BY <1>2, <1>3, <1>4

LEMMA FinishStep ==
  ASSUME Read!ReadAssumption, ReadInv, NEW n \in Nat, n <= Read!Room, Read!Received + n <= rSends,
         NEW e \in BOOLEAN, Read!Finish(n, e), rNotified' \in BOOLEAN
  PROVE  ReadInv'
<1>1. /\ Read!Received \in Nat /\ Read!Received' = Read!Received + n
      /\ rBuffers' \in Nat /\ rLast' \in 0..BufferSize
  BY ReceivedGrows DEF ReadInv, Read!Finish
<1>2. /\ UNCHANGED <<rHttps, rDeclared, rSends, rClosed>> /\ rError' = e
      /\ rState' = IF ~ e /\ Read!Complete(Read!Received + n) THEN "parse"
                  ELSE IF e THEN "failed" ELSE "reading"
  BY DEF Read!Finish, Read!fixed
<1>3. Read!TypeOK'
  BY <1>1, <1>2 DEF ReadInv, Read!TypeOK
<1>4. rSends \in Nat /\ rSends <= Read!Total /\ Read!Total \in Nat
  BY DEF ReadInv, Read!TypeOK, Read!Total, Read!ReadAssumption
<1>5. ASSUME rState' = "parse"
      PROVE  Read!Received' = Read!Total /\ rDeclared' /\ ~ rError'
  <2>1. ~ e /\ Read!Complete(Read!Received + n)
    BY <1>2, <1>5
  <2>2. Read!Received + n >= Read!Total /\ rDeclared
    BY <2>1 DEF Read!Complete
  <2>. QED
    BY <1>1, <1>2, <1>4, <2>1, <2>2
<1>6. Read!ParsesOnlyWhole'
  BY <1>5 DEF Read!ParsesOnlyWhole, Read!Total
<1>7. Read!Received' <= rSends'
  BY <1>1, <1>2
<1>. QED
  BY <1>3, <1>6, <1>7 DEF ReadInv

LEMMA ReadNextInv ==
  ASSUME Read!ReadAssumption, ReadInv, [Read!Next]_(Read!vars)
  PROVE  ReadInv'
<1>1. 0 \in Nat /\ Read!Received + 0 <= rSends /\ rError \in BOOLEAN /\ rNotified \in BOOLEAN
  <2>1. CASE rBuffers = 0
    BY <2>1 DEF ReadInv, Read!TypeOK, Read!Received
  <2>2. CASE rBuffers # 0
    <3>1. rBuffers - 1 \in Nat /\ BufferSize \in Nat /\ rLast \in Nat
      BY <2>2 DEF ReadInv, Read!TypeOK, Read!ReadAssumption
    <3>2. (rBuffers - 1) * BufferSize \in Nat
      BY <3>1
    <3>3. Read!Received \in Nat
      BY <2>2, <3>1, <3>2 DEF Read!Received
    <3>. QED
      BY <3>3 DEF ReadInv, Read!TypeOK
  <2>. QED
    BY <2>1, <2>2
<1>2. Read!Room \in Nat
  BY DEF Read!Room, Read!NeedsBuffer, ReadInv, Read!TypeOK, Read!ReadAssumption
<1>3. CASE Read!ReadData
  <2>1. PICK n \in 1..Read!Room: Read!Received + n <= rSends /\ Read!Finish(n, rError)
    BY <1>3 DEF Read!ReadData
  <2>2. n \in Nat /\ n <= Read!Room /\ rNotified' \in BOOLEAN
    BY <1>1, <1>2, <1>3 DEF Read!ReadData
  <2>. QED
    BY <1>1, <2>1, <2>2, FinishStep
<1>4. CASE Read!ReadNothingYet
  BY <1>1, <1>2, <1>4, FinishStep DEF Read!ReadNothingYet
<1>5. CASE Read!ReadCloseNotify
  BY <1>1, <1>2, <1>5, FinishStep DEF Read!ReadCloseNotify
<1>6. CASE Read!ReadEnd
  <2>1. Read!Finish(0, FALSE) /\ rNotified' = rNotified
    BY <1>6, Zenon DEF Read!ReadEnd
  <2>2. 0 <= Read!Room
    BY <1>2
  <2>. QED
    BY <1>1, <2>1, <2>2, FinishStep, Zenon
<1>7. CASE Read!ReadError
  <2>1. Read!Finish(0, TRUE) /\ rNotified' = rNotified
    BY <1>7, Zenon DEF Read!ReadError
  <2>2. 0 <= Read!Room
    BY <1>2
  <2>. QED
    BY <1>1, <2>1, <2>2, FinishStep, Zenon
<1>8. CASE Read!PeerCloses
  <2>1. Read!Received' = Read!Received /\ Read!TypeOK'
    BY <1>8 DEF Read!PeerCloses, Read!fixed, ReadInv, Read!TypeOK, Read!Received, Read!Total
  <2>. QED
    BY <1>8, <2>1 DEF Read!PeerCloses, Read!fixed, ReadInv, Read!ParsesOnlyWhole, Read!Total
<1>9. CASE UNCHANGED Read!vars
  <2>1. Read!Received' = Read!Received /\ Read!TypeOK'
    BY <1>9 DEF Read!vars, Read!fixed, ReadInv, Read!TypeOK, Read!Received, Read!Total
  <2>. QED
    BY <1>9, <2>1 DEF Read!vars, Read!fixed, ReadInv, Read!ParsesOnlyWhole, Read!Total
<1>. QED
  BY <1>3, <1>4, <1>5, <1>6, <1>7, <1>8, <1>9 DEF Read!Next, Read!Read

LEMMA ReadInitInv ==
  ASSUME Read!ReadAssumption, Read!Init
  PROVE  ReadInv
<1>1. Read!Total \in Nat
  BY DEF Read!Total, Read!ReadAssumption
<1>2. Read!TypeOK
  <2>1. rClosed \in BOOLEAN /\ rNotified \in BOOLEAN /\ rError \in BOOLEAN
    BY Zenon DEF Read!Init
  <2>2. rBuffers \in Nat /\ rLast \in 0..BufferSize
    BY DEF Read!Init, Read!ReadAssumption
  <2>. QED
    BY <2>1, <2>2 DEF Read!Init, Read!TypeOK
<1>3. Read!Received = 0 /\ 0 <= rSends
  BY <1>1 DEF Read!Init, Read!Received
<1>. QED
  BY <1>2, <1>3 DEF Read!Init, ReadInv, Read!ParsesOnlyWhole

---------------------------------------------------------------------------
(***************************************************************************)
(* HttpConnection, for requests of any size: every way out of              *)
(* ProcessRequest closes the connection once and leaves nothing of it, and *)
(* the server gets the request whole and in order.  The invariant adds     *)
(* which steps a request without TLS goes through, and what it has of TLS. *)
(***************************************************************************)

PlainSteps == {"resolve", "net_connect", "set_nonblock"}
TlsSteps   == {"config_defaults", "drbg_seed", "ssl_setup", "set_hostname", "handshake"}
Steps      == PlainSteps \cup TlsSteps

Progress ==
  /\ nHttps \in BOOLEAN
  /\ nPc \in Steps \cup {"write", "read", "parse", "done"}
  /\ ~ nHttps => nTls = "none" /\ nPc \notin TlsSteps
  /\ nPc # "done" => nCloses = <<>>
  /\ nPc = "done" => \E f: nCloses = <<f>>

\* The sockets of a request, by how far it has come: mbedtls_net_connect closes the
\* ones it cannot connect, and the one it connects stays open.
Tried == {"resolve", "net_connect"}
SocketsKept ==
  /\ nPc = "resolve" => nFd # "socket"
  /\ nPc \in Tried => \A i \in DOMAIN nSockets: nSockets[i] = 1
  /\ nFd = "socket" => Len(nSockets) > 0
  /\ nPc \notin Tried \cup {"done"} =>
       /\ nFd = "socket"
       /\ \A i \in DOMAIN nSockets: nSockets[i] = (IF i = Len(nSockets) THEN 0 ELSE 1)

ConnInv ==
  Conn!TypeOK /\ Progress /\ SocketsKept /\ Conn!LeftClosed /\ Conn!SentWhole

LEMMA OneMore ==
  ASSUME NEW s \in Seq(Nat), NEW n \in Nat
  PROVE  /\ Append(s, n) \in Seq(Nat) /\ Len(Append(s, n)) = Len(s) + 1
         /\ Len(s) \in Nat /\ DOMAIN s = 1..Len(s) /\ DOMAIN Append(s, n) = 1..Len(s) + 1
         /\ \A i \in 1..Len(s): Append(s, n)[i] = s[i]
         /\ Append(s, n)[Len(s) + 1] = n
OBVIOUS

LEMMA StepsListed ==
  /\ DOMAIN Conn!ConnectSteps = 1..8 /\ Len(Conn!ConnectSteps) = 8
  /\ Conn!ConnectSteps[1] = "resolve"
  /\ Conn!ConnectSteps[2] = "net_connect" /\ Conn!ConnectSteps[3] = "set_nonblock"
  /\ Conn!ConnectSteps[4] = "config_defaults" /\ Conn!ConnectSteps[5] = "drbg_seed"
  /\ Conn!ConnectSteps[6] = "ssl_setup" /\ Conn!ConnectSteps[7] = "set_hostname"
  /\ Conn!ConnectSteps[8] = "handshake"
BY DEF Conn!ConnectSteps

LEMMA StepsAre == {Conn!ConnectSteps[i]: i \in DOMAIN Conn!ConnectSteps} = Steps
BY StepsListed DEF Steps, PlainSteps, TlsSteps

\* What Connect does next; without TLS it is done after three calls.
LEMMA AfterSteps ==
  ASSUME NEW step \in Steps
  PROVE  /\ Conn!After(step) \in Steps \cup {"write"}
         /\ ~ nHttps /\ step \in PlainSteps => Conn!After(step) \notin TlsSteps
         /\ step = "resolve" => Conn!After(step) = "net_connect"
         /\ step # "resolve" => Conn!After(step) \notin Tried
<1>. DEFINE i == CHOOSE i \in DOMAIN Conn!ConnectSteps: Conn!ConnectSteps[i] = step
<1>1. i \in 1..8 /\ Conn!ConnectSteps[i] = step
  <2>1. \E j \in DOMAIN Conn!ConnectSteps: Conn!ConnectSteps[j] = step
    BY StepsListed DEF Steps, PlainSteps, TlsSteps
  <2>. QED
    BY <2>1, StepsListed
<1>2. Conn!After(step) = IF i = Len(Conn!ConnectSteps) \/ (~ nHttps /\ step = "set_nonblock") THEN "write"
                    ELSE Conn!ConnectSteps[i + 1]
  BY DEF Conn!After
<1>. HIDE DEF i
<1>3. /\ i # 8 => Conn!ConnectSteps[i + 1] \in Steps
      /\ i # 1 /\ i # 8 => Conn!ConnectSteps[i + 1] \notin Tried
  BY <1>1, StepsListed DEF Steps, PlainSteps, TlsSteps, Tried
<1>4. (step = "resolve" <=> i = 1) /\ (step = "net_connect" <=> i = 2)
  BY <1>1, StepsListed
<1>. QED
  BY <1>2, <1>3, <1>4, StepsListed DEF Steps, PlainSteps, TlsSteps, Tried

\* Every way out.
LEMMA CloseStep ==
  ASSUME ConnInv, NEW error \in BOOLEAN, nPc # "done", Conn!Close(error),
         nPc = "net_connect" => nAddresses = 0
  PROVE  ConnInv'
<1>1. nCloses' = <<nFd>> /\ nPc' = "done"
      /\ UNCHANGED <<nHttps, nAddresses, nSlen, nWire, nWaits>>
      /\ nResponse' = [errored |-> error, result |-> ~error]
  BY DEF Conn!Close, ConnInv, Progress
<1>2. nFd' = "none" /\ (nHttps' <=> nTls' = "freed")
  BY DEF Conn!Close, Conn!NetFree, ConnInv, Progress, Conn!TypeOK
<1>7. /\ nSockets' \in Seq(Nat)
      /\ \A i \in DOMAIN nSockets':
           \/ nSockets'[i] = 1
           \/ nSockets'[i] = 2 /\ i = Len(nSockets') /\ nAddresses' = 0
  <2>. DEFINE last == Len(nSockets)
  <2>1. /\ nSockets \in Seq(Nat)
        /\ nSockets' = IF nFd = "socket" THEN [nSockets EXCEPT ![last] = @ + 1] ELSE nSockets
        /\ nFd = "socket" => last > 0
    BY DEF Conn!Close, Conn!NetFree, ConnInv, SocketsKept, Conn!TypeOK
  <2>2. CASE nPc \in Tried
    <3>1. /\ \A i \in DOMAIN nSockets: nSockets[i] = 1
          /\ nFd = "socket" => nAddresses = 0
      BY <2>2 DEF ConnInv, SocketsKept, Tried
    <3>. QED
      BY <1>1, <2>1, <3>1
  <2>3. CASE nPc \notin Tried
    <3>1. /\ nFd = "socket"
          /\ \A i \in DOMAIN nSockets: nSockets[i] = (IF i = last THEN 0 ELSE 1)
      BY <2>3 DEF ConnInv, SocketsKept
    <3>. QED
      BY <1>1, <2>1, <3>1
  <2>. QED
    BY <2>2, <2>3
<1>3. Conn!TypeOK'
  BY <1>1, <1>2, <1>7 DEF Conn!Close, ConnInv, Conn!TypeOK
<1>8. SocketsKept'
  BY <1>1, <1>2 DEF SocketsKept, Tried
<1>4. Progress'
  <2>1. nHttps' \in BOOLEAN /\ (~ nHttps' => nTls' = "none")
    BY <1>1 DEF Conn!Close, ConnInv, Progress
  <2>. QED
    BY <1>1, <2>1 DEF Progress, TlsSteps
<1>5. Conn!LeftClosed'
  <2>1. Len(nCloses') = 1
    BY <1>1
  <2>2. nResponse'.result = ~ nResponse'.errored
    BY <1>1
  <2>. QED
    BY <1>1, <1>2, <1>7, <2>1, <2>2 DEF Conn!LeftClosed
<1>6. Conn!SentWhole'
  BY <1>1 DEF Conn!SentWhole, ConnInv
<1>. QED
  BY <1>3, <1>4, <1>5, <1>6, <1>8 DEF ConnInv

LEMMA WriteStep ==
  ASSUME Conn!ConnectionAssumption, ConnInv, Conn!WriteSome
  PROVE  ConnInv'
<1>1. PICK n \in 1..RequestSize - nSlen:
        /\ nWire' = nWire \o [i \in 1..n |-> Conn!WriteFrom + i]
        /\ nSlen' = nSlen + n
        /\ nPc' = IF nSlen + n >= RequestSize THEN "read" ELSE "write"
  BY DEF Conn!WriteSome
<1>2. nSlen \in Nat /\ RequestSize \in Nat /\ n \in Nat /\ nSlen + n <= RequestSize
      /\ nWire = [i \in 1..nSlen |-> i]
  BY DEF ConnInv, Conn!TypeOK, Conn!SentWhole, Conn!ConnectionAssumption
<1>3. nPc = "write" /\ UNCHANGED <<nHttps, nFd, nAddresses, nSockets, nTls, nWaits, nResponse, nCloses>>
  BY DEF Conn!WriteSome
<1>4. nWire' = [i \in 1..nSlen' |-> i]
  <2>. DEFINE more  == [i \in 1..n |-> nSlen + i]
              whole == [i \in 1..nSlen' |-> i]
  <2>1. nWire \in Seq(Nat) /\ Len(nWire) = nSlen /\ \A i \in 1..nSlen: nWire[i] = i
    BY <1>2
  <2>2. more \in Seq(Nat) /\ Len(more) = n /\ \A i \in 1..n: more[i] = nSlen + i
    BY <1>2
  <2>3. nSlen' \in Nat /\ nSlen' = nSlen + n
    BY <1>1, <1>2
  <2>4. whole \in Seq(Nat) /\ Len(whole) = nSlen' /\ \A i \in 1..nSlen': whole[i] = i
    BY <2>3
  <2>5. nWire' = nWire \o more
    BY <1>1 DEF Conn!WriteFrom
  <2>. HIDE DEF more, whole
  <2>6. nWire' \in Seq(Nat) /\ Len(nWire') = nSlen'
    BY <2>1, <2>2, <2>3, <2>5, ConcatProperties
  <2>7. \A i \in 1..nSlen': nWire'[i] = i
    <3>1. ASSUME NEW i \in 1..nSlen'
          PROVE  nWire'[i] = i
      <4>1. (nWire \o more)[i] = IF i <= nSlen THEN nWire[i] ELSE more[i - nSlen]
        BY <2>1, <2>2, <2>3, ConcatProperties
      <4>2. CASE i <= nSlen
        BY <1>2, <2>1, <2>3, <2>5, <4>1, <4>2
      <4>3. CASE ~ i <= nSlen
        <5>1. i - nSlen \in 1..n /\ nSlen + (i - nSlen) = i
          BY <1>2, <2>3, <4>3
        <5>. QED
          BY <2>2, <2>5, <4>1, <4>3, <5>1
      <4>. QED
        BY <4>2, <4>3
    <3>. QED
      BY <3>1
  <2>8. nWire' = whole
    BY <2>4, <2>6, <2>7, SeqEqual
  <2>. QED
    BY <2>8 DEF whole
<1>5. Conn!TypeOK' /\ Progress' /\ Conn!LeftClosed' /\ SocketsKept'
  BY <1>1, <1>2, <1>3 DEF ConnInv, Conn!TypeOK, Progress, Conn!LeftClosed, TlsSteps,
                          SocketsKept, Tried
<1>6. nPc' \in {"read", "parse"} => nSlen' = RequestSize
  BY <1>1, <1>2
<1>. QED
  BY <1>4, <1>5, <1>6 DEF ConnInv, Conn!SentWhole

LEMMA ConnNextInv ==
  ASSUME Conn!ConnectionAssumption, ConnInv, [Conn!Next]_(Conn!vars)
  PROVE  ConnInv'
<1>1. CASE Conn!ConnectStep
  <2>1. nPc \in Steps /\ nPc' = Conn!After(nPc)
    BY <1>1, StepsAre DEF Conn!ConnectStep
  <2>2. /\ nPc' \in Steps \cup {"write"}
        /\ ~ nHttps /\ nPc \in PlainSteps => nPc' \notin TlsSteps
        /\ nPc = "resolve" => nPc' = "net_connect"
        /\ nPc # "resolve" => nPc' \notin Tried
    BY <2>1, AfterSteps
  <2>3. /\ UNCHANGED <<nHttps, nSlen, nWire, nWaits, nResponse, nCloses>>
        /\ IF nPc = "net_connect" THEN nFd' = "socket" /\ nSockets' = Append(nSockets, 0)
           ELSE UNCHANGED <<nFd, nSockets>>
        /\ nAddresses' \in 0..MaxAddresses
        /\ nTls' = (IF nPc = "ssl_setup" THEN "setup" ELSE nTls)
    BY <1>1 DEF Conn!ConnectStep, ConnInv, Conn!TypeOK, Conn!ConnectionAssumption
  <2>4. nPc # "done" /\ nPc' \notin {"read", "parse", "done"}
        /\ (~ nHttps => nPc \in PlainSteps /\ nPc # "ssl_setup")
    BY <2>1, <2>2 DEF ConnInv, Progress, Steps, PlainSteps, TlsSteps
  <2>5. nSockets' \in Seq(Nat) /\ SocketsKept'
    <3>1. CASE nPc = "net_connect"
      <4>1. /\ nSockets \in Seq(Nat) /\ \A i \in DOMAIN nSockets: nSockets[i] = 1
            /\ nFd' = "socket" /\ nSockets' = Append(nSockets, 0)
            /\ nPc' \notin Tried \cup {"done"}
        BY <2>2, <2>3, <2>4, <3>1 DEF ConnInv, Conn!TypeOK, SocketsKept, Tried
      <4>2. /\ nSockets' \in Seq(Nat) /\ Len(nSockets') > 0
            /\ \A i \in DOMAIN nSockets': nSockets'[i] = (IF i = Len(nSockets') THEN 0 ELSE 1)
        BY <4>1, OneMore
      <4>. QED
        BY <4>1, <4>2 DEF SocketsKept, Tried
    <3>2. CASE nPc # "net_connect"
      BY <2>2, <2>3, <2>4, <3>2 DEF ConnInv, Conn!TypeOK, SocketsKept, Tried
    <3>. QED
      BY <3>1, <3>2
  <2>6. Conn!TypeOK'
    <3>1. nFd' \in {"zero", "none", "socket"}
      BY <2>3 DEF ConnInv, Conn!TypeOK
    <3>. QED
      BY <2>3, <2>5, <3>1 DEF ConnInv, Conn!TypeOK
  <2>. QED
    BY <2>2, <2>3, <2>4, <2>5, <2>6 DEF ConnInv, Progress, Conn!LeftClosed, Conn!SentWhole
<1>9. CASE Conn!AddressFails
  <2>1. /\ nPc = "net_connect" /\ nPc' = nPc /\ nAddresses' \in 0..MaxAddresses
        /\ \/ nFd' = "none" /\ UNCHANGED nSockets
           \/ nFd' = "socket" /\ nSockets' = Append(nSockets, 1)
        /\ UNCHANGED <<nHttps, nTls, nSlen, nWire, nWaits, nResponse, nCloses>>
    BY <1>9 DEF Conn!AddressFails, ConnInv, Conn!TypeOK, Conn!ConnectionAssumption
  <2>2. nSockets' \in Seq(Nat) /\ SocketsKept'
    <3>1. nSockets \in Seq(Nat) /\ \A i \in DOMAIN nSockets: nSockets[i] = 1
      BY <2>1 DEF ConnInv, Conn!TypeOK, SocketsKept, Tried
    <3>2. /\ nSockets' \in Seq(Nat) /\ \A i \in DOMAIN nSockets': nSockets'[i] = 1
          /\ nFd' = "socket" => Len(nSockets') > 0
      BY <2>1, <3>1, OneMore
    <3>. QED
      BY <2>1, <3>2 DEF SocketsKept, Tried
  <2>. QED
    BY <2>1, <2>2 DEF ConnInv, Conn!TypeOK, Progress, Conn!LeftClosed, Conn!SentWhole
<1>10. CASE Conn!NoAddressLeft
  BY <1>10, CloseStep, Zenon DEF Conn!NoAddressLeft
<1>2. CASE Conn!HandshakeWants
  BY <1>2 DEF Conn!HandshakeWants, Conn!ConnectionAssumption, ConnInv, Conn!TypeOK, Progress,
              Conn!LeftClosed, Conn!SentWhole, SocketsKept
<1>3. CASE Conn!ConnectFails
  <2>1. nPc # "done" /\ nPc # "net_connect"
    BY <1>3, StepsAre DEF Conn!ConnectFails, Steps, PlainSteps, TlsSteps
  <2>. QED
    BY <1>3, <2>1, CloseStep, Zenon DEF Conn!ConnectFails
<1>4. CASE Conn!WriteSome
  BY <1>4, WriteStep
<1>5. CASE Conn!WriteFails \/ Conn!ReadFails \/ Conn!ParseFails
  <2>1. nPc # "done" /\ nPc # "net_connect" /\ Conn!Close(TRUE)
    BY <1>5, Zenon DEF Conn!WriteFails, Conn!ReadFails, Conn!ParseFails
  <2>. QED
    BY <2>1, CloseStep, Zenon
<1>6. CASE Conn!ParseReturns
  <2>1. nPc # "done" /\ nPc # "net_connect" /\ Conn!Close(FALSE)
    BY <1>6, Zenon DEF Conn!ParseReturns
  <2>. QED
    BY <2>1, CloseStep, Zenon
<1>7. CASE Conn!ReadReturns
  BY <1>7 DEF Conn!ReadReturns, ConnInv, Conn!TypeOK, Progress, Conn!LeftClosed, Conn!SentWhole,
              TlsSteps, SocketsKept, Tried
<1>8. CASE Conn!WriteWants \/ UNCHANGED Conn!vars
  BY <1>8 DEF Conn!WriteWants, Conn!vars, ConnInv, Conn!TypeOK, Progress, Conn!LeftClosed,
              Conn!SentWhole, SocketsKept
<1>. QED
  BY <1>1, <1>2, <1>3, <1>4, <1>5, <1>6, <1>7, <1>8, <1>9, <1>10 DEF Conn!Next

LEMMA ConnInitInv ==
  ASSUME Conn!ConnectionAssumption, Conn!Init
  PROVE  ConnInv
<1>1. nWire = [i \in 1..nSlen |-> i]
  BY DEF Conn!Init
<1>2. Conn!TypeOK /\ Progress /\ SocketsKept
  BY DEF Conn!Init, Conn!TypeOK, Progress, Conn!ConnectionAssumption, Steps, PlainSteps, TlsSteps,
         SocketsKept, Tried
<1>. QED
  BY <1>1, <1>2 DEF Conn!Init, ConnInv, Conn!LeftClosed, Conn!SentWhole

---------------------------------------------------------------------------
(* The Consume methods.  A String ends with its text or before a line end, *)
(* and does not begin inside one.                                          *)

\* The least of a set of numbers.
LEMMA LeastOf ==
  ASSUME NEW S, S \subseteq Nat, S # {}
  PROVE  Scan!Min(S) \in S /\ \A y \in S : Scan!Min(S) <= y
<1>1. \E x \in S : \A y \in S : x <= y
  BY LeastNumber
<1>. QED
  BY <1>1 DEF Scan!Min

LEMMA CountOfScan ==
  ASSUME NEW S PROVE Scan!Cardinality(S) = Cardinality(S)
BY DEF Scan!Cardinality, Cardinality

\* Where a line, or a String, ends: with the text, or before a line end.
EndRight(e) ==
  /\ e \in 0..Len(cBuffer)
  /\ e = Len(cBuffer) \/ (Scan!IsNewline(Scan!CharAt(e)) /\ Scan!CharAt(e - 1) # "\r")

ScanInv ==
  /\ cBuffer \in Buffers /\ cData \in 0..Len(cBuffer) /\ cLength \in Nat
  /\ EndRight(cData + cLength) /\ ~ Scan!SplitsLineEnd(cData)
  /\ cPiece \in [at : 0..Len(cBuffer), length : Nat, line : BOOLEAN]
  /\ cPiece.line => EndRight(cPiece.at + cPiece.length) /\ ~ Scan!SplitsLineEnd(cPiece.at)

\* The characters of a text, and of what is around it.
LEMMA CharFacts ==
  ASSUME Scan!ScanAssumption, cBuffer \in Buffers
  PROVE  /\ Len(cBuffer) \in Nat
         /\ \A i \in Int : i \notin 0..Len(cBuffer) - 1 => Scan!CharAt(i) = "null"
         /\ \A i \in Int : Scan!CharAt(i) = "\r" =>
              /\ Scan!CharAt(i + 1) = "\n"
              /\ Scan!CharAt(i - 1) = "\n" => Scan!CharAt(i - 2) = "\r"
<1>1. cBuffer \in Seq(STRING) /\ Scan!LineEndsTold(cBuffer)
  BY DEF Scan!ScanAssumption
<1>2. Len(cBuffer) \in Nat /\ DOMAIN cBuffer = 1..Len(cBuffer)
  BY <1>1, LenProperties
<1>3. \A i \in Int : Scan!CharAt(i) = IF i \in 0..Len(cBuffer) - 1 THEN cBuffer[i + 1] ELSE "null"
  BY DEF Scan!CharAt, Scan!NullChar
<1>4. ASSUME NEW i \in Int, Scan!CharAt(i) = "\r"
      PROVE  /\ Scan!CharAt(i + 1) = "\n"
             /\ Scan!CharAt(i - 1) = "\n" => Scan!CharAt(i - 2) = "\r"
  <2>1. i \in 0..Len(cBuffer) - 1 /\ cBuffer[i + 1] = "\r" /\ i + 1 \in 1..Len(cBuffer)
    BY <1>2, <1>3, <1>4
  <2>. DEFINE k == i + 1
  <2>2. /\ k + 1 \in 1..Len(cBuffer) /\ cBuffer[k + 1] = "\n"
        /\ k > 1 /\ cBuffer[k - 1] = "\n" => k > 2 /\ cBuffer[k - 2] = "\r"
    <3>1. k \in DOMAIN cBuffer /\ cBuffer[k] = "\r"
      BY <1>2, <2>1
    <3>. HIDE DEF k
    <3>. QED
      BY <1>1, <1>2, <3>1 DEF Scan!LineEndsTold
  <2>3. Scan!CharAt(i + 1) = cBuffer[i + 2]
    BY <1>2, <1>3, <2>1, <2>2
  <2>4. k + 1 = i + 2 /\ k - 1 = i /\ k - 2 = i - 1
    BY <2>1
  <2>5. ASSUME Scan!CharAt(i - 1) = "\n" PROVE Scan!CharAt(i - 2) = "\r"
    <3>1. i - 1 \in 0..Len(cBuffer) - 1 /\ cBuffer[i] = "\n"
      BY <1>2, <1>3, <2>5
    <3>2. k > 2 /\ cBuffer[i - 1] = "\r"
      BY <2>2, <2>4, <3>1
    <3>3. i - 2 \in 0..Len(cBuffer) - 1 /\ (i - 2) + 1 = i - 1
      BY <1>2, <2>1, <3>2
    <3>. QED
      BY <1>3, <3>2, <3>3
  <2>. QED
    BY <2>2, <2>3, <2>4, <2>5
<1>. QED
  BY <1>2, <1>3, <1>4

\* Where a loop stops: within the text, past all it goes on at, and not before.
LEMMA StopsAt ==
  ASSUME Scan!ScanAssumption, cBuffer \in Buffers, NEW from \in 0..Len(cBuffer),
         NEW goesOn, NEW stop \in from..Len(cBuffer), stop \notin goesOn
  PROVE  /\ Scan!Stop(from, goesOn) \in from..stop /\ Scan!Stop(from, goesOn) \notin goesOn
         /\ \A i \in from..Scan!Stop(from, goesOn) - 1 : i \in goesOn
<1>. DEFINE S == (from..Len(cBuffer)) \ goesOn
            s == Scan!Min(S)
<1>1. Len(cBuffer) \in Nat
  BY CharFacts
<1>2. S \subseteq Nat /\ stop \in S
  BY <1>1
<1>3. s \in S /\ \A y \in S : s <= y
  BY <1>2, LeastOf
<1>4. Scan!Stop(from, goesOn) = s
  BY DEF Scan!Stop
<1>. HIDE DEF s
<1>5. s \in from..stop /\ s \notin goesOn
  BY <1>1, <1>2, <1>3
<1>6. \A i \in from..s - 1 : i \in goesOn
  BY <1>1, <1>3, <1>5
<1>. QED
  BY <1>4, <1>5, <1>6

\* The invariant in the words of the steps below.
LEMMA ScanFacts ==
  ASSUME Scan!ScanAssumption, ScanInv
  PROVE  /\ Len(cBuffer) \in Nat /\ cBuffer \in Buffers /\ cData \in 0..Len(cBuffer) /\ cLength \in Nat
         /\ Scan!End = cData + cLength /\ Scan!End \in cData..Len(cBuffer) /\ EndRight(Scan!End)
         /\ ~ (Scan!CharAt(cData - 1) = "\r" /\ Scan!CharAt(cData) = "\n")
         /\ Scan!CharAt(Scan!End) \in {"\n", "\r", "null"}
         /\ Scan!CharAt(Scan!End - 1) = "\r" => Scan!CharAt(Scan!End) # "\n"
<1>1. Len(cBuffer) \in Nat /\ Scan!CharAt(Len(cBuffer)) = "null"
  BY CharFacts DEF ScanInv
<1>2. Scan!End = cData + cLength /\ EndRight(Scan!End) /\ cData \in 0..Len(cBuffer) /\ cLength \in Nat
  BY DEF Scan!End, ScanInv
<1>3. Scan!End \in cData..Len(cBuffer)
  BY <1>1, <1>2 DEF EndRight
<1>4. /\ Scan!CharAt(Scan!End) \in {"\n", "\r", "null"}
      /\ Scan!CharAt(Scan!End - 1) = "\r" => Scan!CharAt(Scan!End) # "\n"
  BY <1>1, <1>2 DEF EndRight, Scan!IsNewline
<1>. QED
  BY <1>1, <1>2, <1>3, <1>4 DEF ScanInv, Scan!SplitsLineEnd

\* A call that ends at `to`, and returns what is from `at` up to there or less.
Passes(to, at) ==
  /\ to \in cData..Scan!End /\ ~ Scan!SplitsLineEnd(to) /\ at \in cData..to
  /\ Scan!Advance(to)
  /\ cPiece' \in [at : {at}, length : 0..to - at, line : BOOLEAN]
  /\ cPiece'.line => EndRight(at + cPiece'.length) /\ ~ Scan!SplitsLineEnd(at)

Follows ==
  /\ cData' >= cData /\ Scan!End' = Scan!End /\ cLength' >= 0
  /\ cPiece'.length >= 0
  /\ cPiece'.at >= cData /\ cPiece'.at + cPiece'.length <= cData'

LEMMA PassesRight ==
  ASSUME Scan!ScanAssumption, ScanInv, NEW to, NEW at, Passes(to, at)
  PROVE  ScanInv' /\ Follows
<1>1. /\ Len(cBuffer) \in Nat /\ cBuffer \in Buffers /\ cData \in 0..Len(cBuffer) /\ cLength \in Nat
      /\ Scan!End = cData + cLength /\ Scan!End \in cData..Len(cBuffer) /\ EndRight(Scan!End)
  BY ScanFacts
<1>2. /\ to \in cData..Scan!End /\ ~ Scan!SplitsLineEnd(to) /\ at \in cData..to
      /\ cData' = to /\ cLength' = cLength - (to - cData) /\ cBuffer' = cBuffer
  BY DEF Passes, Scan!Advance
<1>3. /\ cPiece' \in [at : {at}, length : 0..to - at, line : BOOLEAN]
      /\ cPiece'.line => EndRight(at + cPiece'.length) /\ ~ Scan!SplitsLineEnd(at)
  BY DEF Passes
<1>4. cLength' \in Nat /\ cData' + cLength' = Scan!End /\ cData' \in 0..Len(cBuffer)
  BY <1>1, <1>2
<1>5. cPiece'.at = at /\ cPiece'.length \in 0..to - at /\ cPiece'.line \in BOOLEAN
  BY <1>3
<1>6. Follows
  BY <1>1, <1>2, <1>4, <1>5 DEF Follows, Scan!End
<1>7. cPiece' \in [at : 0..Len(cBuffer), length : Nat, line : BOOLEAN]
  BY <1>1, <1>2, <1>3
<1>8. ScanInv'
  <2>1. /\ (cBuffer' \in Buffers) /\ (cData' \in 0..Len(cBuffer')) /\ (cLength' \in Nat)
        /\ (cPiece' \in [at : 0..Len(cBuffer'), length : Nat, line : BOOLEAN])
    BY <1>1, <1>2, <1>4, <1>7
  <2>2. (EndRight(cData + cLength))' /\ ~ (Scan!SplitsLineEnd(cData))'
    BY <1>1, <1>2, <1>4 DEF EndRight, Scan!SplitsLineEnd, Scan!CharAt, Scan!IsNewline
  <2>3. cPiece'.line => (EndRight(cPiece.at + cPiece.length))' /\ ~ (Scan!SplitsLineEnd(cPiece.at))'
    BY <1>2, <1>3, <1>5 DEF EndRight, Scan!SplitsLineEnd, Scan!CharAt, Scan!IsNewline
  <2>. QED
    BY <2>1, <2>2, <2>3 DEF ScanInv
<1>. QED
  BY <1>6, <1>8

\* White space is passed up to where something else is, or the String ends.
LEMMA Whitespace ==
  ASSUME Scan!ScanAssumption, ScanInv
  PROVE  /\ Scan!AfterWhitespace \in cData..Scan!End /\ ~ Scan!SplitsLineEnd(Scan!AfterWhitespace)
<1>. DEFINE goesOn == {i \in cData..Scan!End - 1 : Scan!IsWhitespace(Scan!CharAt(i))}
            w == Scan!AfterWhitespace
<1>1. /\ Len(cBuffer) \in Nat /\ cBuffer \in Buffers /\ cData \in 0..Len(cBuffer)
      /\ Scan!End \in cData..Len(cBuffer)
      /\ Scan!CharAt(Scan!End - 1) = "\r" => Scan!CharAt(Scan!End) # "\n"
  BY ScanFacts
<1>2. Scan!End \notin goesOn
  BY <1>1
<1>3. w = Scan!Stop(cData, goesOn)
  BY DEF Scan!AfterWhitespace
<1>. HIDE DEF w
<1>4. w \in cData..Scan!End /\ w \notin goesOn
  <2>. HIDE DEF goesOn
  <2>. QED
    BY <1>1, <1>2, <1>3, StopsAt
<1>5. w = Scan!End \/ ~ Scan!IsWhitespace(Scan!CharAt(w))
  BY <1>1, <1>4
<1>6. ~ Scan!SplitsLineEnd(w)
  BY <1>1, <1>5 DEF Scan!SplitsLineEnd, Scan!IsWhitespace, Scan!IsNewline
<1>. QED
  BY <1>4, <1>6 DEF w

LEMMA WhitespaceStep ==
  ASSUME Scan!ScanAssumption, ScanInv, Scan!ConsumeWhitespace
  PROVE  ScanInv' /\ Follows
<1>1. Scan!AfterWhitespace \in cData..Scan!End /\ ~ Scan!SplitsLineEnd(Scan!AfterWhitespace)
  BY Whitespace
<1>2. Scan!Advance(Scan!AfterWhitespace) /\ cPiece' = [at |-> cData, length |-> 0, line |-> FALSE]
  BY DEF Scan!ConsumeWhitespace, Scan!Ref
<1>3. cData \in Nat /\ Scan!End \in Nat
  BY ScanFacts
<1>4. Passes(Scan!AfterWhitespace, cData)
  BY <1>1, <1>2, <1>3 DEF Passes
<1>. QED
  BY <1>4, PassesRight

LEMMA WordStep ==
  ASSUME Scan!ScanAssumption, ScanInv, Scan!ConsumeWord
  PROVE  ScanInv' /\ Follows
<1>. DEFINE start == Scan!AfterWhitespace
            goesOn == {i \in start..Len(cBuffer) : Scan!IsWord(Scan!CharAt(i))}
            end == IF start < Scan!End THEN Scan!Stop(start, goesOn) ELSE start
<1>1. start \in cData..Scan!End /\ ~ Scan!SplitsLineEnd(start)
  BY Whitespace
<1>2. /\ Len(cBuffer) \in Nat /\ cBuffer \in Buffers /\ cData \in 0..Len(cBuffer)
      /\ Scan!End \in cData..Len(cBuffer) /\ Scan!CharAt(Scan!End) \in {"\n", "\r", "null"}
  BY ScanFacts
<1>3. Scan!Advance(end) /\ cPiece' = [at |-> start, length |-> end - start, line |-> FALSE]
  BY DEF Scan!ConsumeWord, Scan!Ref
<1>. HIDE DEF start
<1>4. Scan!End \notin goesOn
  BY <1>2 DEF Scan!IsWord, Scan!IsWhitespace, Scan!IsNewline, Scan!NullChar
<1>5. end \in start..Scan!End /\ ~ Scan!SplitsLineEnd(end)
  <2>1. CASE start < Scan!End
    <3>1. end = Scan!Stop(start, goesOn)
      BY <2>1
    <3>2. end \in start..Scan!End /\ end \notin goesOn /\ \A i \in start..end - 1 : i \in goesOn
      <4>1. start \in 0..Len(cBuffer) /\ Scan!End \in start..Len(cBuffer)
        BY <1>1, <1>2, <2>1
      <4>. HIDE DEF goesOn, end
      <4>. QED
        BY <1>2, <1>4, <3>1, <4>1, StopsAt
    <3>. HIDE DEF end
    <3>3. CASE end = start
      BY <1>1, <3>2, <3>3
    <3>4. CASE end # start
      <4>1. Scan!IsWord(Scan!CharAt(end - 1))
        BY <1>1, <1>2, <3>2, <3>4
      <4>. QED
        BY <3>2, <4>1 DEF Scan!SplitsLineEnd, Scan!IsWord, Scan!IsWhitespace, Scan!IsNewline
    <3>. QED
      BY <3>3, <3>4
  <2>2. CASE ~ (start < Scan!End)
    BY <1>1, <1>2, <2>2
  <2>. QED
    BY <2>1, <2>2
<1>. HIDE DEF end
<1>6. Passes(end, start)
  <2>1. end \in cData..Scan!End /\ start \in cData..end /\ end - start \in 0..end - start
    BY <1>1, <1>2, <1>5
  <2>. QED
    BY <1>3, <1>5, <2>1 DEF Passes
<1>. QED
  BY <1>6, PassesRight

LEMMA UntilStep ==
  ASSUME Scan!ScanAssumption, ScanInv, NEW c \in Tokens, Scan!ConsumeUntil(c)
  PROVE  ScanInv' /\ Follows
<1>. DEFINE goesOn == {i \in cData..Scan!End - 1 : Scan!CharAt(i) \notin {"null", c}}
            end == Scan!Stop(cData, goesOn)
<1>1. /\ Len(cBuffer) \in Nat /\ cBuffer \in Buffers /\ cData \in 0..Len(cBuffer)
      /\ Scan!End \in cData..Len(cBuffer)
      /\ Scan!CharAt(Scan!End - 1) = "\r" => Scan!CharAt(Scan!End) # "\n"
  BY ScanFacts
<1>2. Scan!Advance(end) /\ cPiece' = [at |-> cData, length |-> end - cData, line |-> FALSE]
  BY DEF Scan!ConsumeUntil, Scan!Ref, Scan!NullChar
<1>3. Scan!End \notin goesOn
  BY <1>1
<1>4. end \in cData..Scan!End /\ end \notin goesOn
  <2>. HIDE DEF goesOn
  <2>. QED
    BY <1>1, <1>3, StopsAt
<1>. HIDE DEF end
<1>5. ~ Scan!SplitsLineEnd(end)
  <2>1. CASE end = Scan!End
    BY <1>1, <2>1 DEF Scan!SplitsLineEnd
  <2>2. CASE end # Scan!End
    <3>1. Scan!CharAt(end) \in {"null", c}
      BY <1>1, <1>4, <2>2
    <3>2. Scan!CharAt(end) # "\n"
      BY <3>1 DEF Scan!ScanAssumption
    <3>. QED
      BY <3>2 DEF Scan!SplitsLineEnd
  <2>. QED
    BY <2>1, <2>2
<1>6. Passes(end, cData)
  <2>1. end - cData \in 0..end - cData /\ cData \in cData..end
    BY <1>1, <1>4
  <2>. QED
    BY <1>2, <1>4, <1>5, <2>1 DEF Passes
<1>. QED
  BY <1>6, PassesRight

LEMMA CountStep ==
  ASSUME Scan!ScanAssumption, ScanInv, NEW n \in Counts, ~ Scan!SplitsLineEnd(cData + n),
         Scan!Consume(n)
  PROVE  ScanInv' /\ Follows
<1>. DEFINE goesOn == {i \in cData..Scan!End - 1 : Scan!CharAt(i) # "null" /\ i < cData + n}
            end == Scan!Stop(cData, goesOn)
<1>1. /\ Len(cBuffer) \in Nat /\ cBuffer \in Buffers /\ cData \in 0..Len(cBuffer)
      /\ Scan!End \in cData..Len(cBuffer) /\ n \in Nat
      /\ Scan!CharAt(Scan!End - 1) = "\r" => Scan!CharAt(Scan!End) # "\n"
  BY ScanFacts DEF Scan!ScanAssumption
<1>2. Scan!Advance(end) /\ cPiece' = [at |-> cData, length |-> end - cData, line |-> FALSE]
  BY DEF Scan!Consume, Scan!Ref, Scan!NullChar
<1>3. Scan!End \notin goesOn
  BY <1>1
<1>4. end \in cData..Scan!End /\ end \notin goesOn /\ \A i \in cData..end - 1 : i \in goesOn
  <2>. HIDE DEF goesOn
  <2>. QED
    BY <1>1, <1>3, StopsAt
<1>. HIDE DEF end
<1>5. ~ Scan!SplitsLineEnd(end)
  <2>1. CASE end = Scan!End
    BY <1>1, <2>1 DEF Scan!SplitsLineEnd
  <2>2. CASE end # Scan!End /\ Scan!CharAt(end) = "null"
    BY <2>2 DEF Scan!SplitsLineEnd
  <2>3. CASE end # Scan!End /\ Scan!CharAt(end) # "null"
    <3>1. end >= cData + n
      BY <1>1, <1>4, <2>3
    <3>2. end <= cData + n
      <4>1. CASE end = cData
        BY <1>1, <4>1
      <4>2. CASE end # cData
        <5>1. end - 1 \in goesOn
          <6>1. end - 1 \in cData..end - 1
            BY <1>1, <1>4, <4>2
          <6>. QED
            BY <1>4, <6>1
        <5>. QED
          BY <1>1, <1>4, <5>1
      <4>. QED
        BY <4>1, <4>2
    <3>3. end = cData + n
      BY <1>1, <1>4, <3>1, <3>2
    <3>. QED
      BY <3>3
  <2>. QED
    BY <2>1, <2>2, <2>3
<1>6. Passes(end, cData)
  <2>1. end - cData \in 0..end - cData /\ cData \in cData..end
    BY <1>1, <1>4
  <2>. QED
    BY <1>2, <1>4, <1>5, <2>1 DEF Passes
<1>. QED
  BY <1>6, PassesRight

LEMMA EnterStep ==
  ASSUME Scan!ScanAssumption, ScanInv, Scan!EnterLine
  PROVE  ScanInv'
<1>1. /\ cPiece.line /\ cData' = cPiece.at /\ cLength' = cPiece.length /\ cBuffer' = cBuffer
      /\ cPiece' = [at |-> cPiece.at, length |-> 0, line |-> FALSE]
  BY DEF Scan!EnterLine, Scan!Ref
<1>2. /\ cPiece.at \in 0..Len(cBuffer) /\ cPiece.length \in Nat /\ cBuffer \in Buffers
      /\ EndRight(cPiece.at + cPiece.length) /\ ~ Scan!SplitsLineEnd(cPiece.at)
  BY <1>1 DEF ScanInv
<1>3. (EndRight(cData + cLength))' /\ ~ (Scan!SplitsLineEnd(cData))'
  BY <1>1, <1>2 DEF EndRight, Scan!SplitsLineEnd, Scan!CharAt, Scan!IsNewline
<1>4. cPiece' \in [at : 0..Len(cBuffer), length : Nat, line : BOOLEAN] /\ ~ cPiece'.line
  BY <1>1, <1>2
<1>. QED
  BY <1>1, <1>2, <1>3, <1>4 DEF ScanInv

\* What LinesAreLines says of a step.
LineTaken ==
  /\ \A i \in cData..cData + cPiece'.length - 1 : ~ Scan!IsNewline(Scan!CharAt(i))
  /\ \A i \in cData + cPiece'.length..cData' - 1 : Scan!IsNewline(Scan!CharAt(i))
  /\ Scan!Cardinality({i \in cData..cData' - 1 : Scan!CharAt(i) = "\n"}) <= 1
  /\ cLength > 0 => cLength' < cLength

\* The last line of a text has no end,
LEMMA LastLineStep ==
  ASSUME Scan!ScanAssumption, ScanInv, Scan!ConsumeLine, Scan!Newlines = {}
  PROVE  ScanInv' /\ Follows /\ LineTaken
<1>1. /\ Len(cBuffer) \in Nat /\ cBuffer \in Buffers /\ cData \in 0..Len(cBuffer) /\ cLength \in Nat
      /\ Scan!End = cData + cLength /\ Scan!End \in cData..Len(cBuffer) /\ EndRight(Scan!End)
      /\ Scan!CharAt(Scan!End - 1) = "\r" => Scan!CharAt(Scan!End) # "\n"
  BY ScanFacts
<1>2. Scan!Advance(Scan!End) /\ cPiece' = [at |-> cData, length |-> cLength, line |-> TRUE]
  BY DEF Scan!ConsumeLine, Scan!Line, Scan!Ref
<1>3. \A i \in cData..Scan!End - 1 : Scan!CharAt(i) # "\n"
  BY DEF Scan!Newlines
<1>4. ASSUME NEW i \in cData..Scan!End - 1 PROVE ~ Scan!IsNewline(Scan!CharAt(i))
  <2>1. ASSUME Scan!CharAt(i) = "\r" PROVE FALSE
    <3>1. Scan!CharAt(i + 1) = "\n"
      BY <1>1, <2>1, CharFacts
    <3>2. i + 1 = Scan!End
      BY <1>1, <1>3, <3>1
    <3>3. i = Scan!End - 1
      BY <1>1, <3>2
    <3>. QED
      BY <1>1, <2>1, <3>1, <3>2, <3>3
  <2>. QED
    BY <1>3, <2>1 DEF Scan!IsNewline
<1>5. Passes(Scan!End, cData)
  <2>1. ~ Scan!SplitsLineEnd(Scan!End) /\ ~ Scan!SplitsLineEnd(cData)
    BY <1>1 DEF Scan!SplitsLineEnd, ScanInv
  <2>2. cPiece' \in [at : {cData}, length : 0..Scan!End - cData, line : BOOLEAN] /\ cPiece'.length = cLength
    BY <1>1, <1>2
  <2>. QED
    BY <1>1, <1>2, <2>1, <2>2 DEF Passes
<1>6. cData' = Scan!End /\ cLength' = 0 /\ cPiece'.length = cLength
  BY <1>1, <1>2 DEF Scan!Advance
<1>7. {i \in cData..cData' - 1 : Scan!CharAt(i) = "\n"} = {}
  BY <1>3, <1>6
<1>8. Scan!Cardinality({i \in cData..cData' - 1 : Scan!CharAt(i) = "\n"}) <= 1
  BY <1>7, CountOfScan, FS_EmptySet
<1>9. /\ \A i \in cData..cData + cPiece'.length - 1 : ~ Scan!IsNewline(Scan!CharAt(i))
      /\ \A i \in cData + cPiece'.length..cData' - 1 : Scan!IsNewline(Scan!CharAt(i))
  BY <1>1, <1>4, <1>6
<1>10. LineTaken
  BY <1>1, <1>6, <1>8, <1>9 DEF LineTaken
<1>. QED
  BY <1>5, <1>10, PassesRight

\* and any other one ends at the first "\n" and the "\r" before it.
LEMMA LineStep ==
  ASSUME Scan!ScanAssumption, ScanInv, Scan!ConsumeLine, Scan!Newlines # {}
  PROVE  ScanInv' /\ Follows /\ LineTaken
<1>. DEFINE nl == Scan!Min(Scan!Newlines)
            past == Scan!PastLine(nl)
            end == Scan!LineEnd(nl)
<1>1. /\ Len(cBuffer) \in Nat /\ cBuffer \in Buffers /\ cData \in 0..Len(cBuffer) /\ cLength \in Nat
      /\ Scan!End = cData + cLength /\ Scan!End \in cData..Len(cBuffer)
      /\ ~ (Scan!CharAt(cData - 1) = "\r" /\ Scan!CharAt(cData) = "\n")
  BY ScanFacts
<1>2. /\ nl \in cData..Scan!End - 1 /\ Scan!CharAt(nl) = "\n"
      /\ \A i \in cData..nl - 1 : Scan!CharAt(i) # "\n"
  <2>1. Scan!Newlines \subseteq Nat
    BY <1>1 DEF Scan!Newlines
  <2>2. nl \in Scan!Newlines /\ \A i \in Scan!Newlines : nl <= i
    BY <2>1, LeastOf
  <2>. HIDE DEF nl
  <2>. QED
    BY <1>1, <2>2 DEF Scan!Newlines
<1>3. past = nl + 1
  <2>. HIDE DEF nl
  <2>1. ASSUME Scan!CharAt(nl + 1) = "\r" PROVE Scan!CharAt(nl - 1) = "\r"
    <3>1. nl + 1 \in Int /\ (nl + 1) - 1 = nl /\ (nl + 1) - 2 = nl - 1
      BY <1>1, <1>2
    <3>. QED
      BY <1>1, <1>2, <2>1, <3>1, CharFacts
  <2>. QED
    BY <2>1 DEF Scan!PastLine
<1>4. Scan!Advance(past) /\ cPiece' = [at |-> cData, length |-> end - cData, line |-> TRUE]
  BY DEF Scan!ConsumeLine, Scan!Line, Scan!Ref
<1>. HIDE DEF past, nl
<1>5. \/ end = nl - 1 /\ Scan!CharAt(nl - 1) = "\r" /\ nl # cData
      \/ end = nl /\ Scan!CharAt(nl - 1) # "\r"
  BY <1>1, <1>2 DEF Scan!LineEnd
<1>. HIDE DEF end
<1>6. end \in cData..nl
  BY <1>1, <1>2, <1>5
<1>7. EndRight(end)
  <2>1. CASE end = nl
    BY <1>1, <1>2, <1>5, <2>1 DEF EndRight, Scan!IsNewline
  <2>2. CASE end = nl - 1 /\ Scan!CharAt(nl - 1) = "\r"
    <3>1. Scan!CharAt(end - 1) # "\r"
      <4>1. (end - 1) + 1 = end /\ end - 1 \in Int
        BY <1>1, <1>2, <2>2
      <4>. QED
        BY <1>1, <2>2, <4>1, CharFacts
    <3>. QED
      BY <1>1, <1>2, <1>6, <2>2, <3>1 DEF EndRight, Scan!IsNewline
  <2>. QED
    BY <1>5, <2>1, <2>2
<1>8. ASSUME NEW i \in cData..end - 1 PROVE ~ Scan!IsNewline(Scan!CharAt(i))
  <2>1. i \in cData..nl - 1 /\ i + 1 \in cData..nl
    BY <1>1, <1>2, <1>6
  <2>2. ASSUME Scan!CharAt(i) = "\r" PROVE FALSE
    <3>1. Scan!CharAt(i + 1) = "\n"
      BY <1>1, <2>2, CharFacts
    <3>2. i + 1 = nl /\ i = nl - 1
      BY <1>1, <1>2, <2>1, <3>1
    <3>. QED
      BY <1>1, <1>2, <1>5, <2>2, <3>2
  <2>. QED
    BY <1>2, <2>1, <2>2 DEF Scan!IsNewline
<1>9. ASSUME NEW i \in end..nl PROVE Scan!IsNewline(Scan!CharAt(i))
  BY <1>1, <1>2, <1>5, <1>6 DEF Scan!IsNewline
<1>10. cData' = past /\ cPiece'.length = end - cData /\ cLength' = cLength - (past - cData)
  BY <1>4 DEF Scan!Advance
<1>11. Passes(past, cData)
  <2>1. ~ Scan!SplitsLineEnd(past)
    <3>1. past - 1 = nl
      BY <1>1, <1>2, <1>3
    <3>. QED
      BY <1>2, <3>1 DEF Scan!SplitsLineEnd
  <2>2. /\ past \in cData..Scan!End /\ cData \in cData..past
        /\ end - cData \in 0..past - cData /\ cData + (end - cData) = end
    BY <1>1, <1>2, <1>3, <1>6
  <2>3. cPiece' \in [at : {cData}, length : 0..past - cData, line : BOOLEAN]
    BY <1>4, <2>2
  <2>4. EndRight(cData + cPiece'.length) /\ ~ Scan!SplitsLineEnd(cData)
    BY <1>7, <1>10, <2>2 DEF ScanInv
  <2>. QED
    BY <1>4, <2>1, <2>2, <2>3, <2>4 DEF Passes
<1>12. {i \in cData..cData' - 1 : Scan!CharAt(i) = "\n"} = {nl}
  <2>1. \A i \in cData..cData' - 1 : i \in cData..nl - 1 \/ i = nl
    BY <1>1, <1>2, <1>3, <1>10
  <2>2. nl \in cData..cData' - 1
    BY <1>1, <1>2, <1>3, <1>10
  <2>. QED
    BY <1>2, <2>1, <2>2
<1>13. Scan!Cardinality({i \in cData..cData' - 1 : Scan!CharAt(i) = "\n"}) <= 1
  <2>1. Scan!Cardinality({nl}) = 1
    BY CountOfScan, FS_Singleton
  <2>. QED
    BY <1>12, <2>1
<1>14. LineTaken
  <2>1. cData + cPiece'.length = end /\ cData' - 1 = nl /\ cLength' < cLength
    BY <1>1, <1>2, <1>3, <1>6, <1>10
  <2>2. /\ \A i \in cData..cData + cPiece'.length - 1 : ~ Scan!IsNewline(Scan!CharAt(i))
        /\ \A i \in cData + cPiece'.length..cData' - 1 : Scan!IsNewline(Scan!CharAt(i))
    <3>1. /\ cData..cData + cPiece'.length - 1 = cData..end - 1
          /\ cData + cPiece'.length..cData' - 1 = end..nl
      BY <1>1, <1>2, <1>3, <1>6, <1>10
    <3>2. \A i \in end..nl : Scan!IsNewline(Scan!CharAt(i))
      BY <1>9
    <3>3. \A i \in cData..end - 1 : ~ Scan!IsNewline(Scan!CharAt(i))
      BY <1>8
    <3>. QED
      BY <3>1, <3>2, <3>3
  <2>3. cLength > 0 => cLength' < cLength
    BY <2>1
  <2>. QED
    BY <1>13, <2>2, <2>3, Zenon DEF LineTaken
<1>. QED
  BY <1>11, <1>14, PassesRight

LEMMA ScanStep ==
  ASSUME Scan!ScanAssumption, ScanInv, Scan!Next
  PROVE  ScanInv' /\ (Scan!EnterLine \/ Follows) /\ (Scan!ConsumeLine => LineTaken)
<1>1. Scan!ConsumeLine => ScanInv' /\ Follows /\ LineTaken
  BY LastLineStep, LineStep
<1>2. CASE ~ Scan!ConsumeLine
  <2>1. ASSUME Scan!ConsumeWhitespace PROVE ScanInv' /\ Follows
    BY <2>1, WhitespaceStep
  <2>2. ASSUME Scan!ConsumeWord PROVE ScanInv' /\ Follows
    BY <2>2, WordStep
  <2>3. ASSUME NEW c \in Tokens, Scan!ConsumeUntil(c) PROVE ScanInv' /\ Follows
    BY <2>3, UntilStep
  <2>4. ASSUME NEW n \in Counts, ~ Scan!SplitsLineEnd(cData + n), Scan!Consume(n)
        PROVE  ScanInv' /\ Follows
    BY <2>4, CountStep
  <2>5. ASSUME Scan!EnterLine PROVE ScanInv'
    BY <2>5, EnterStep
  <2>. QED
    BY <1>2, <2>1, <2>2, <2>3, <2>4, <2>5 DEF Scan!Next
<1>. QED
  BY <1>1, <1>2

LEMMA ScanInitInv ==
  ASSUME Scan!ScanAssumption, Scan!Init
  PROVE  ScanInv
<1>1. cBuffer \in Buffers /\ cData = 0 /\ cLength = Len(cBuffer)
      /\ cPiece = [at |-> 0, length |-> 0, line |-> FALSE]
  BY DEF Scan!Init, Scan!Ref
<1>2. Len(cBuffer) \in Nat /\ Scan!CharAt(-1) = "null"
  BY <1>1, CharFacts
<1>. QED
  BY <1>1, <1>2 DEF ScanInv, EndRight, Scan!SplitsLineEnd

LEMMA ScanStays ==
  ASSUME ScanInv, UNCHANGED Scan!vars PROVE ScanInv'
BY DEF Scan!vars, ScanInv, EndRight, Scan!SplitsLineEnd, Scan!CharAt, Scan!IsNewline

LEMMA ScanTypes ==
  ASSUME Scan!ScanAssumption, ScanInv PROVE Scan!TypeOK
<1>1. /\ Len(cBuffer) \in Nat /\ cLength \in Nat /\ cData \in Nat
      /\ Scan!End = cData + cLength /\ Scan!End \in cData..Len(cBuffer)
  BY ScanFacts
<1>2. cLength \in 0..Len(cBuffer)
  BY <1>1
<1>. QED
  BY <1>2 DEF ScanInv, Scan!TypeOK

---------------------------------------------------------------------------
\* The components of MCHttp: a step of the composite is a step of one of them, or
\* leaves it alone, and it is always the same one that runs.
LEMMA StepOfOne ==
  /\ AllInit => /\ Init
                /\ which = "read" => Read!Init
                /\ which = "connection" => Conn!Init
                /\ which = "scan" => Scan!Init
  /\ [AllNext]_allVars => /\ [Next]_vars
                          /\ [Read!Next]_(Read!vars) /\ [Conn!Next]_(Conn!vars)
                          /\ (Scan!Next /\ which = "scan") \/ UNCHANGED Scan!vars
                          /\ UNCHANGED which
<1>1. AllInit => /\ Init
                 /\ which = "read" => Read!Init
                 /\ which = "connection" => Conn!Init
                 /\ which = "scan" => Scan!Init
  BY Zenon DEF AllInit
<1>2. [AllNext]_allVars => RunClient \/ RunRead \/ RunConn \/ RunScan
                           \/ UNCHANGED <<which, vars, readVars, connVars, scanVars>>
  BY DEF AllNext, allVars, RunChunk, OnlyChunk
<1>3. RunClient => Next /\ UNCHANGED <<which, readVars, connVars, scanVars>>
  BY DEF RunClient, OnlyClient
<1>4. RunRead => Read!Next /\ UNCHANGED <<which, vars, connVars, scanVars>>
  BY DEF RunRead, OnlyRead
<1>5. RunConn => Conn!Next /\ UNCHANGED <<which, vars, readVars, scanVars>>
  BY DEF RunConn, OnlyConn
<1>6. RunScan => Scan!Next /\ which = "scan" /\ UNCHANGED <<which, vars, readVars, connVars>>
  BY DEF RunScan, OnlyScan
<1>7. ASSUME [AllNext]_allVars
      PROVE  /\ [Next]_vars /\ [Read!Next]_(Read!vars) /\ [Conn!Next]_(Conn!vars)
             /\ (Scan!Next /\ which = "scan") \/ UNCHANGED Scan!vars
             /\ UNCHANGED which
  <2>1. /\ Next \/ UNCHANGED vars
        /\ Read!Next \/ UNCHANGED readVars
        /\ Conn!Next \/ UNCHANGED connVars
        /\ (Scan!Next /\ which = "scan") \/ UNCHANGED scanVars
        /\ UNCHANGED which
    BY <1>2, <1>3, <1>4, <1>5, <1>6, <1>7
  <2>. QED
    BY <2>1 DEF readVars, Read!vars, Read!fixed, connVars, Conn!vars, scanVars, Scan!vars
<1>. QED
  BY <1>1, <1>7

\* Next to the other components, every request that was queued is answered, in
\* hand or still queued, in order, and its callback runs once (http.cpp).
THEOREM RequestsAnsweredInOrder == AllSpec => []RequestsInOrder
<1>1. Spec => []RequestsInOrder
  BY HttpAssumptions, ClientInOrder
<1>. QED
  BY <1>1, StepOfOne, PTL DEF AllSpec, Spec

\* Next to the other components, the HTTP thread does not sleep on a request whose
\* caller has signalled it (http.cpp).
THEOREM ThreadIsWoken == AllSpec => []RequestWakesThread
<1>1. Spec => []RequestWakesThread
  BY HttpAssumptions, ClientWakesThread
<1>. QED
  BY <1>1, StepOfOne, PTL DEF AllSpec, Spec

\* Of the reads of a response: only a whole one is parsed (ReadBlocking and Read of
\* http.cpp).
THEOREM OnlyWholeIsParsed == AllSpec => []ReadParsesOnlyWhole
<1>. DEFINE Inv == which = "read" => ReadInv
<1>1. AllInit => Inv
  BY StepOfOne, HttpAssumptions, ReadInitInv
<1>2. Inv /\ [AllNext]_allVars => Inv'
  BY StepOfOne, HttpAssumptions, ReadNextInv
<1>3. Inv => ReadParsesOnlyWhole
  BY DEF ReadParsesOnlyWhole, Read!ReadParsesOnlyWhole, ReadInv
<1>. HIDE DEF Inv
<1>. QED
  BY <1>1, <1>2, <1>3, PTL DEF AllSpec

\* Of a request on its connection, for any number of addresses: however it ends, Close
\* was called once and nothing is left open, and each socket was closed once but for the
\* last one of a request that no address took, which is closed twice; while it is written
\* and read the one open socket is its own, and the server has it whole before its
\* response is read (ProcessRequest, Connect, Write and Close of http.cpp,
\* mbedtls_net_connect and mbedtls_net_free of net_sockets.c).
THEOREM ClosedOnEveryWayOut == AllSpec => []ConnectionLeftClosed
<1>. DEFINE Inv == which = "connection" => ConnInv
<1>1. AllInit => Inv
  BY StepOfOne, HttpAssumptions, ConnInitInv
<1>2. Inv /\ [AllNext]_allVars => Inv'
  BY StepOfOne, HttpAssumptions, ConnNextInv
<1>3. ConnInv => Conn!OneIsOpen
  BY DEF ConnInv, Conn!TypeOK, SocketsKept, Tried, Conn!OneIsOpen
<1>4. Inv => ConnectionLeftClosed
  BY <1>3 DEF ConnectionLeftClosed, Conn!ConnectionLeftClosed, ConnInv
<1>. HIDE DEF Inv
<1>. QED
  BY <1>1, <1>2, <1>4, PTL DEF AllSpec

\* Of the Consume methods of strings.h, on any text whose line ends are told: a call
\* moves forward, by the piece it returns and what it skips; and a line is what comes
\* before one line end.
THEOREM ScanTakesLines == AllSpec => ScanLinesAreLines
<1>. DEFINE Inv == which = "scan" => ScanInv
            Moves == Scan!EnterLine \/ Follows
            Takes == Scan!ConsumeLine => LineTaken
<1>1. AllInit => Inv
  BY StepOfOne, HttpAssumptions, ScanInitInv
<1>2. Inv /\ [AllNext]_allVars => Inv' /\ [Moves]_(Scan!vars) /\ [Takes]_(Scan!vars)
  <2>1. SUFFICES ASSUME Inv, [AllNext]_allVars
                 PROVE  Inv' /\ (UNCHANGED Scan!vars \/ (Moves /\ Takes))
    OBVIOUS
  <2>2. CASE Scan!Next /\ which = "scan"
    BY <2>1, <2>2, HttpAssumptions, ScanStep
  <2>3. CASE UNCHANGED Scan!vars
    <3>1. UNCHANGED which
      BY <2>1, StepOfOne
    <3>. QED
      BY <2>1, <2>3, <3>1, ScanStays
  <2>. QED
    BY <2>1, <2>2, <2>3, StepOfOne
<1>3. Inv => (which = "scan" => Scan!TypeOK)
  BY HttpAssumptions, ScanTypes
<1>4. [Moves]_(Scan!vars) => [Scan!EnterLine \/
         (/\ cData' >= cData /\ Scan!End' = Scan!End /\ cLength' >= 0
          /\ cPiece'.length >= 0
          /\ cPiece'.at >= cData /\ cPiece'.at + cPiece'.length <= cData')]_(Scan!vars)
  BY DEF Follows
<1>5. [Takes]_(Scan!vars) => [Scan!ConsumeLine =>
         /\ \A i \in cData..cData + cPiece'.length - 1 : ~ Scan!IsNewline(Scan!CharAt(i))
         /\ \A i \in cData + cPiece'.length..cData' - 1 : Scan!IsNewline(Scan!CharAt(i))
         /\ Scan!Cardinality({i \in cData..cData' - 1 : Scan!CharAt(i) = "\n"}) <= 1
         /\ cLength > 0 => cLength' < cLength]_(Scan!vars)
  BY DEF LineTaken
<1>. HIDE DEF Inv, Moves, Takes
<1>. QED
  BY <1>1, <1>2, <1>3, <1>4, <1>5, PTL
  DEF AllSpec, ScanLinesAreLines, Scan!PiecesFollow, Scan!LinesAreLines

=============================================================================
