------------------------------ MODULE HttpClient ------------------------------
(***************************************************************************)
(* The HTTP client of http.cpp: callers queue requests, one thread sends   *)
(* them and queues the responses, and the main thread runs the callbacks   *)
(* when it calls ProcessResponses.                                         *)
(*                                                                         *)
(* The two SyncQueues are sequences and the Semaphore is a number: that is *)
(* what SyncQueue is shown to implement in FifoQueue, and Semaphore in     *)
(* CountingSemaphore.  What goes over the network is abstracted to whether *)
(* the request was answered or failed.                                     *)
(***************************************************************************)
EXTENDS Integers, FiniteSets, Sequences

CONSTANTS
  Clients,       (* the threads that call Get and Post                      *)
  Main,          (* the one that also calls the rest                        *)
  MaxRequests,   (* BOUND: requests made in all                             *)
  MaxInits       (* BOUND: times the client is initialized                  *)

HttpAssumption ==
  /\ Main \in Clients
  /\ MaxRequests \in Nat /\ MaxInits \in Nat

VARIABLES
  initialized, threadRunning,
  semaphore,              (* permits of requestSemaphore                    *)
  requestQueue,           (* queued requests                                *)
  responseQueue,          (* queued responses                               *)
  nextRequestId,
  worker,                 (* where the HTTP thread is                       *)
  current,                (* the request it is working on                   *)
  pc,                     (* where each caller is                           *)
  request,                (* the request a caller is building               *)
  inCallback,             (* the main thread is inside a callback           *)
  inits                   (* how often the client was initialized           *)

(* Auxiliary, read by no action: since the last Init, the requests that    *)
(* were queued and those whose callback ran, in order.                     *)
VARIABLES accepted, delivered

vars == <<initialized, threadRunning, semaphore, requestQueue, responseQueue,
          nextRequestId, worker, current, pc, request, inCallback, inits,
          accepted, delivered>>

clientVars == <<initialized, inits>>
workerVars == <<worker, current>>
callVars   == <<pc, request, inCallback>>
queueVars  == <<requestQueue, responseQueue, accepted, delivered>>

NoRequest == [id |-> 0, from |-> Main]

Init ==
  /\ initialized = FALSE /\ threadRunning = FALSE
  /\ semaphore = 0
  /\ requestQueue = <<>> /\ responseQueue = <<>>
  /\ nextRequestId = 1
  /\ worker = "none"
  /\ current = NoRequest
  /\ pc = [c \in Clients |-> "idle"]
  /\ request = [c \in Clients |-> NoRequest]
  /\ inCallback = FALSE
  /\ inits = 0
  /\ accepted = <<>> /\ delivered = <<>>

Goto(c, from, to) ==
  /\ pc[c] = from
  /\ pc' = [pc EXCEPT ![c] = to]

---------------------------------------------------------------------------
(* Http::Init: nothing if it was done already, or else fresh queues, a     *)
(* fresh semaphore, and a thread.  threadRunning is left as it is.  No     *)
(* other thread is in the middle of a call by then.                        *)
HttpInit ==
  /\ \A c \in Clients : pc[c] = "idle"
  /\ ~ initialized
  /\ inits < MaxInits
  /\ inits' = inits + 1
  /\ initialized' = TRUE
  /\ requestQueue' = <<>> /\ responseQueue' = <<>>
  /\ accepted' = <<>> /\ delivered' = <<>>
  /\ semaphore' = 0
  /\ worker' = "starting"
  /\ UNCHANGED <<threadRunning, nextRequestId, current, callVars>>

(* Http::Shutdown: tell the thread to stop, wake it, wait for its end.     *)
ShutdownStore ==
  /\ initialized
  /\ Goto(Main, "idle", "shutdown_signal")
  /\ threadRunning' = FALSE
  /\ UNCHANGED <<clientVars, semaphore, queueVars, nextRequestId,
                 workerVars, request, inCallback>>

(* Mutated: the thread is not woken. *)
ShutdownSilent ==
  /\ Goto(Main, "shutdown_signal", "join")
  /\ UNCHANGED <<clientVars, threadRunning, semaphore, queueVars, nextRequestId,
                 workerVars, request, inCallback>>

ShutdownSignal ==
  /\ Goto(Main, "shutdown_signal", "join")
  /\ semaphore' = semaphore + 1
  /\ UNCHANGED <<clientVars, threadRunning, queueVars, nextRequestId,
                 workerVars, request, inCallback>>

ShutdownJoin ==
  /\ worker = "exited"
  /\ Goto(Main, "join", "idle")
  /\ initialized' = FALSE
  /\ UNCHANGED <<inits, threadRunning, semaphore, queueVars, nextRequestId,
                 workerVars, request, inCallback>>

---------------------------------------------------------------------------
(* Get and Post: AddRequest takes the next id, queues the request and      *)
(* signals the thread.  The id is a plain variable that every caller reads *)
(* and writes back.  The main thread may make requests inside a callback.  *)
Requesting == {c \in Clients : pc[c] \in {"write_id", "push"}}

ReadId(c) ==
  /\ initialized
  /\ nextRequestId <= MaxRequests
  /\ Len(accepted) + Cardinality(Requesting) < MaxRequests
  /\ Goto(c, "idle", "write_id") \/ Goto(c, "callback", "write_id")
  /\ request' = [request EXCEPT ![c] = [id |-> nextRequestId, from |-> c]]
  /\ UNCHANGED <<clientVars, threadRunning, semaphore, queueVars, nextRequestId,
                 workerVars, inCallback>>

WriteId(c) ==
  /\ Goto(c, "write_id", "push")
  /\ nextRequestId' = request[c].id + 1
  /\ UNCHANGED <<clientVars, threadRunning, semaphore, queueVars, workerVars, request, inCallback>>

PushRequest(c) ==
  /\ Goto(c, "push", "signal")
  /\ requestQueue' = Append(requestQueue, request[c])
  /\ accepted' = Append(accepted, request[c])
  /\ UNCHANGED <<clientVars, threadRunning, semaphore, responseQueue, delivered,
                 nextRequestId, workerVars, request, inCallback>>

(* Mutated: the thread is not woken. *)
SignalRequestSilent(c) ==
  /\ Goto(c, "signal", IF c = Main /\ inCallback THEN "callback" ELSE "idle")
  /\ request' = [request EXCEPT ![c] = NoRequest]
  /\ UNCHANGED <<clientVars, threadRunning, semaphore, queueVars, nextRequestId,
                 workerVars, inCallback>>

SignalRequest(c) ==
  /\ Goto(c, "signal", IF c = Main /\ inCallback THEN "callback" ELSE "idle")
  /\ semaphore' = semaphore + 1
  /\ request' = [request EXCEPT ![c] = NoRequest]
  /\ UNCHANGED <<clientVars, threadRunning, queueVars, nextRequestId,
                 workerVars, inCallback>>

---------------------------------------------------------------------------
(* ProcessResponses, on the main thread: a callback for every response     *)
(* there is, until the queue is found empty.                               *)
CallProcessResponses ==
  /\ inits > 0
  /\ Goto(Main, "idle", "drain")
  /\ UNCHANGED <<clientVars, threadRunning, semaphore, queueVars, nextRequestId,
                 workerVars, request, inCallback>>

PopResponse ==
  /\ responseQueue # <<>>
  /\ responseQueue' = Tail(responseQueue)
  /\ delivered' = Append(delivered, Head(responseQueue).request)
  /\ Goto(Main, "drain", "callback")
  /\ inCallback' = TRUE
  /\ UNCHANGED <<clientVars, threadRunning, semaphore, requestQueue, accepted,
                 nextRequestId, workerVars, request>>

CallbackReturns ==
  /\ Goto(Main, "callback", "drain")
  /\ inCallback' = FALSE
  /\ UNCHANGED <<clientVars, threadRunning, semaphore, queueVars, nextRequestId,
                 workerVars, request>>

NoMoreResponses ==
  /\ responseQueue = <<>>
  /\ Goto(Main, "drain", "idle")
  /\ UNCHANGED <<clientVars, threadRunning, semaphore, queueVars, nextRequestId,
                 workerVars, request, inCallback>>

---------------------------------------------------------------------------
(* ThreadMain.                                                             *)
WorkerGoto(from, to) ==
  /\ worker = from
  /\ worker' = to

otherVars == <<clientVars, nextRequestId, callVars>>

ThreadStart ==
  /\ WorkerGoto("starting", "check")
  /\ threadRunning' = TRUE
  /\ UNCHANGED <<otherVars, semaphore, queueVars, current>>

ThreadCheck ==
  /\ WorkerGoto("check", IF threadRunning THEN "wait" ELSE "exited")
  /\ UNCHANGED <<otherVars, threadRunning, semaphore, queueVars, current>>

ThreadWait ==
  /\ semaphore > 0
  /\ semaphore' = semaphore - 1
  /\ WorkerGoto("wait", "pop")
  /\ UNCHANGED <<otherVars, threadRunning, queueVars, current>>

ThreadPop ==
  /\ \/ /\ requestQueue # <<>>
        /\ requestQueue' = Tail(requestQueue)
        /\ current' = Head(requestQueue)
        /\ WorkerGoto("pop", "process")
     \/ /\ requestQueue = <<>>
        /\ WorkerGoto("pop", "check")
        /\ UNCHANGED <<requestQueue, current>>
  /\ UNCHANGED <<otherVars, threadRunning, semaphore, responseQueue, accepted, delivered>>

(* Mutated: a request that fails leaves no response. *)
ProcessRequestDropsErrors(errored) ==
  /\ WorkerGoto("process", "pop")
  /\ responseQueue' = IF errored THEN responseQueue
                      ELSE Append(responseQueue, [request |-> current, errored |-> errored])
  /\ current' = NoRequest
  /\ UNCHANGED <<otherVars, threadRunning, semaphore, requestQueue, accepted, delivered>>

(* ProcessRequest takes its time, closes the connection whatever happens,  *)
(* and leaves a response for the request, answered or errored: connecting, *)
(* writing, reading and parsing can each fail.  (A build with assertions   *)
(* stops at the one for a response that cannot be parsed.)                 *)
ProcessRequest(errored) ==
  /\ WorkerGoto("process", "pop")
  /\ responseQueue' = Append(responseQueue, [request |-> current, errored |-> errored])
  /\ current' = NoRequest
  /\ UNCHANGED <<otherVars, threadRunning, semaphore, requestQueue, accepted, delivered>>

---------------------------------------------------------------------------
Thread == \/ ThreadStart \/ ThreadCheck \/ ThreadWait \/ ThreadPop
          \/ \E errored \in BOOLEAN : ProcessRequest(errored)

Shutdown == ShutdownSignal \/ ShutdownJoin

Next ==
  \/ HttpInit \/ ShutdownStore \/ Shutdown
  \/ \E c \in Clients : ReadId(c) \/ WriteId(c) \/ PushRequest(c) \/ SignalRequest(c)
  \/ CallProcessResponses \/ PopResponse \/ CallbackReturns \/ NoMoreResponses
  \/ Thread

Spec == Init /\ [][Next]_vars

(* The operating system schedules the HTTP thread, and any call that has   *)
(* begun goes on.  Nobody is obliged to begin one: not a shutdown, not a   *)
(* call of ProcessResponses.                                               *)
Fairness ==
  /\ WF_vars(Thread) /\ WF_vars(Shutdown)
  /\ WF_vars(PopResponse \/ CallbackReturns \/ NoMoreResponses)
  /\ \A c \in Clients : WF_vars(WriteId(c) \/ PushRequest(c) \/ SignalRequest(c))

FairSpec == Spec /\ Fairness

---------------------------------------------------------------------------
Requests  == [id : Nat, from : Clients]
Responses == [request : Requests, errored : BOOLEAN]

(* Types of the variables.                                                 *)
TypeOK ==
  /\ initialized \in BOOLEAN /\ threadRunning \in BOOLEAN
  /\ semaphore \in Nat
  /\ requestQueue \in Seq(Requests) /\ responseQueue \in Seq(Responses)
  /\ nextRequestId \in Nat \ {0}
  /\ worker \in {"none", "starting", "check", "wait", "pop", "process", "exited"}
  /\ current \in Requests
  /\ pc \in [Clients -> {"idle", "write_id", "push", "signal",
                         "shutdown_signal", "join", "drain", "callback"}]
  /\ inCallback \in BOOLEAN
  /\ request \in [Clients -> Requests]
  /\ inits \in Nat
  /\ accepted \in Seq(Requests) /\ delivered \in Seq(Requests)

Answered == delivered \o [n \in DOMAIN responseQueue |-> responseQueue[n].request]
InHand   == IF worker = "process" THEN <<current>> ELSE <<>>

(* Every request that was queued is, until the next Init, in exactly one   *)
(* place, and the order never changes: callbacks run once per request and  *)
(* in the order of the requests, and a request that fails has its callback *)
(* run as well (http.cpp:702-745, 855-874).                                *)
InOrder == accepted = Answered \o InHand \o requestQueue

RequestsInOrder == TypeOK /\ InOrder

(* No wake-up is lost: when requests are queued and the thread is about to *)
(* sleep, or sleeps, there is a permit for it or a caller about to give it *)
(* one, although one pass of the thread may take many requests and leave   *)
(* permits behind.                                                         *)
NoLostWakeup ==
  requestQueue # <<>> /\ worker \in {"starting", "check", "wait"} =>
    semaphore > 0 \/ \E c \in Clients : pc[c] = "signal"

RequestWakesThread == NoLostWakeup

(* "Enqueue to the http thread and return immediately" (http.cpp:810): the *)
(* thread answers, or reports the failure of, whatever was queued, unless  *)
(* the client is shut down meanwhile.                                      *)
Stopping == ~ initialized \/ pc[Main] \in {"shutdown_signal", "join"}

AllAnswered ==
  \A n \in 1..MaxRequests : Len(accepted) >= n ~> (Len(Answered) >= n \/ Stopping)

(* Shutdown returns, provided that the thread had got to its loop by the   *)
(* time it was told to stop.                                               *)
ShutdownReturns ==
  (pc[Main] = "join" /\ ~ threadRunning /\ worker # "starting") ~> (pc[Main] = "idle")

(* The tests' main function (test.cpp:834-841) initializes the client,     *)
(* runs the tests (those of the client not, when offline), shuts it down   *)
(* and returns their result: it counts on Shutdown to return.              *)
ShutdownAlwaysReturns == (pc[Main] = "join") ~> (pc[Main] = "idle")

=============================================================================
