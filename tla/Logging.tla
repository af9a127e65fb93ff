------------------------------- MODULE Logging -------------------------------
(***************************************************************************)
(* The log of logging.cpp.  A thread that logs takes a range of characters *)
(* from msgBuffer and an entry from entryQueue, fills in both, and signals *)
(* entrySemaphore; the logging thread waits for the semaphore, pops an     *)
(* entry, hands it to the endpoints and zeroes its characters.  Both       *)
(* buffers are SyncRingBuffers, whose index operations take effect at the  *)
(* step that exchanges the word (RingIndex), and the semaphore is one that *)
(* does not lose permits (MCSemaphore).  A message is the pair of who      *)
(* logged it and its number; each of its characters is the message itself. *)
(***************************************************************************)
EXTENDS Integers, FiniteSets, SequencesExt

CONSTANTS
  Producers,     (* threads that log                                        *)
  Lens,          (* lengths of messages, not counting the terminator        *)
  TextCapacity, EntryCapacity,
  Zero,          (* the null character, and an entry that has been cleared  *)
  Unwritten,     (* what memory holds before anything is stored in it       *)
  MaxLogs,       (* BOUND: messages each producer logs                      *)
  MaxBacklog     (* BOUND: messages begun and not yet printed               *)

PowerOfTwo(n) == n \in Nat \ {0} /\ \E k \in 0..n : n = 2^k

ASSUME LoggingAssumption ==
  /\ IsFiniteSet(Producers)
  /\ PowerOfTwo(TextCapacity) /\ PowerOfTwo(EntryCapacity)
  /\ Lens \subseteq 1..TextCapacity-2
  /\ MaxLogs \in Nat /\ MaxBacklog \in Nat

VARIABLES
  thread,        (* whether state->thread is not null                       *)
  main,          (* where Init or Shutdown is                               *)
  worker,        (* where LoggingThread is                                  *)
  permits,       (* of entrySemaphore                                       *)
  textWord, msgBuffer, entryWord, entryQueue,
  pc, logged,    (* of each producer: where it is, and how many it has begun*)
  text, slot,    (* the range and the entry it was given                    *)
  taken, entry,  (* the slot the worker has popped, and its copy of it      *)
  delivered      (* ghost: the messages endpoints were called with          *)

(* Auxiliary, read by no action: whether two threads have ever been        *)
(* logging at the same time.                                               *)
VARIABLE overlapped

init == <<thread, main>>
prod == <<pc, logged, text, slot, overlapped>>
cons == <<worker, taken, entry, delivered>>
ring == <<textWord, msgBuffer, entryWord, entryQueue>>
vars == <<init, permits, ring, prod, cons>>

Text    == INSTANCE RingIndex WITH Capacity <- TextCapacity
Entries == INSTANCE RingIndex WITH Capacity <- EntryCapacity

Messages == Producers \X (1..MaxLogs)
Entry    == [msg : Text!Indices, msgLen : Lens, of : Messages]
Chars(e) == e.msg..e.msg+e.msgLen-1

Init ==
  /\ thread = FALSE /\ main = "create"
  /\ worker = "none" /\ taken = 0 /\ entry = Unwritten /\ delivered = <<>>
  /\ permits = 0
  /\ textWord = Text!NothingIn /\ msgBuffer = [i \in Text!Indices |-> Unwritten]
  /\ entryWord = Entries!NothingIn /\ entryQueue = [i \in Entries!Indices |-> Unwritten]
  /\ pc = [p \in Producers |-> "idle"]
  /\ logged = [p \in Producers |-> 0]
  /\ text = [p \in Producers |-> [msg |-> 0, msgLen |-> 0]]
  /\ slot = [p \in Producers |-> 0]
  /\ overlapped = FALSE

---------------------------------------------------------------------------
(* The main thread: Init makes the thread and then stores its handle, and  *)
(* Shutdown clears the handle, wakes the thread and waits for it.          *)

MainStep(from, to) == main = from /\ main' = to

CreateThread ==
  /\ MainStep("create", "store")
  /\ worker' = "check"
  /\ UNCHANGED <<thread, permits, ring, prod, taken, entry, delivered>>

StoreThread ==
  /\ MainStep("store", "running")
  /\ thread' = TRUE
  /\ UNCHANGED <<permits, ring, prod, cons>>

ClearThread ==
  /\ MainStep("running", "signal")
  /\ thread' = FALSE
  /\ UNCHANGED <<permits, ring, prod, cons>>

(* Mutated: the thread is not woken. *)
SignalStopSilent ==
  /\ MainStep("signal", "join")
  /\ UNCHANGED <<thread, permits, ring, prod, cons>>

SignalStop ==
  /\ MainStep("signal", "join")
  /\ permits' = permits + 1
  /\ UNCHANGED <<thread, ring, prod, cons>>

JoinThread ==
  /\ MainStep("join", "done")
  /\ worker = "exited"
  /\ UNCHANGED <<thread, permits, ring, prod, cons>>

---------------------------------------------------------------------------
(* LogInternalVA.  Other threads log once Init is over, and do not stop    *)
(* for Shutdown.  A message below its channel's volume changes nothing.    *)

ProducerStep(p, from, to) ==
  /\ pc[p] = from
  /\ pc' = [pc EXCEPT ![p] = to]

Message(p) == <<p, logged[p]>>

(* The messages begun and not yet printed and cleared: those that have no  *)
(* entry yet, those queued, and the one the worker has taken.              *)
At(places) == {p \in Producers : pc[p] \in places}
Backlog ==
  Cardinality(At({"entry"})) + entryWord.count
    + (IF worker \in {"copy", "deliver", "zero"} THEN 1 ELSE 0)

(* One more character is taken for the terminator. *)
ClaimText(p, len) ==
  LET n == len + 1 IN
  /\ main \notin {"create", "store"}
  /\ logged[p] < MaxLogs /\ Backlog < MaxBacklog
  /\ ProducerStep(p, "idle", "entry")
  /\ logged' = [logged EXCEPT ![p] = @ + 1]
  /\ textWord' = Text!RangePushed(textWord, n)
  /\ text' = [text EXCEPT ![p] = [msg |-> Text!RangeSlot(textWord, n), msgLen |-> len]]
  /\ overlapped' = (overlapped \/ \E q \in Producers : pc[q] # "idle")
  /\ UNCHANGED <<init, permits, msgBuffer, entryWord, entryQueue, slot, cons>>

ClaimEntry(p) ==
  /\ ProducerStep(p, "entry", "clear")
  /\ entryWord' = Entries!Pushed(entryWord)
  /\ slot' = [slot EXCEPT ![p] = entryWord.onePastHeadIndex]
  /\ UNCHANGED <<init, permits, textWord, msgBuffer, entryQueue, logged, text, overlapped, cons>>

ClearEntry(p) ==
  /\ ProducerStep(p, "clear", "fill")
  /\ entryQueue' = [entryQueue EXCEPT ![slot[p]] = Zero]
  /\ UNCHANGED <<init, permits, textWord, msgBuffer, entryWord, logged, text, slot, overlapped, cons>>

FillEntry(p) ==
  /\ ProducerStep(p, "fill", "write")
  /\ entryQueue' = [entryQueue EXCEPT ![slot[p]] =
                      [msg |-> text[p].msg, msgLen |-> text[p].msgLen, of |-> Message(p)]]
  /\ UNCHANGED <<init, permits, textWord, msgBuffer, entryWord, logged, text, slot, overlapped, cons>>

WriteText(p) ==
  /\ ProducerStep(p, "write", "signal")
  /\ msgBuffer' = [i \in Text!Indices |->
                     IF i \in Chars(text[p]) THEN Message(p)
                     ELSE IF i = text[p].msg + text[p].msgLen THEN Zero ELSE msgBuffer[i]]
  /\ UNCHANGED <<init, permits, textWord, entryWord, entryQueue, logged, text, slot, overlapped, cons>>

(* Mutated: no permit for the entry, or two. *)
SignalEntrySilent(p) ==
  /\ ProducerStep(p, "signal", "idle")
  /\ UNCHANGED <<init, permits, ring, logged, text, slot, overlapped, cons>>

SignalEntryTwice(p) ==
  /\ ProducerStep(p, "signal", "idle")
  /\ permits' = permits + 2
  /\ UNCHANGED <<init, ring, logged, text, slot, overlapped, cons>>

SignalEntry(p) ==
  /\ ProducerStep(p, "signal", "idle")
  /\ permits' = permits + 1
  /\ UNCHANGED <<init, ring, logged, text, slot, overlapped, cons>>

---------------------------------------------------------------------------
(* LoggingThread. *)

WorkerStep(from, to) == worker = from /\ worker' = to

CheckThread ==
  /\ WorkerStep("check", IF thread THEN "wait" ELSE "exited")
  /\ UNCHANGED <<init, permits, ring, prod, taken, entry, delivered>>

WaitEntry ==
  /\ WorkerStep("wait", "pop")
  /\ permits > 0
  /\ permits' = permits - 1
  /\ UNCHANGED <<init, ring, prod, taken, entry, delivered>>

(* Its index is taken first, and the entry copied from there: nobody       *)
(* stores in that slot meanwhile unless the backlog exceeds the capacity.  *)
PopIndex ==
  /\ WorkerStep("pop", IF entryWord.count > 0 THEN "copy" ELSE "check")
  /\ entryWord' = Entries!TailPopped(entryWord)
  /\ taken' = IF entryWord.count > 0 THEN Entries!TailSlot(entryWord) ELSE taken
  /\ UNCHANGED <<init, permits, textWord, msgBuffer, entryQueue, prod, entry, delivered>>

CopyEntry ==
  /\ WorkerStep("copy", "deliver")
  /\ entry' = entryQueue[taken]
  /\ UNCHANGED <<init, permits, ring, prod, taken, delivered>>

(* The endpoints are given the entry and read its message.  What they make *)
(* of an entry that has not been filled in is left open.                   *)
Deliver ==
  /\ WorkerStep("deliver", "zero")
  /\ delivered' = Append(delivered,
                     IF entry \in Entry
                     THEN [of |-> entry.of, chars |-> {msgBuffer[i] : i \in Chars(entry)}]
                     ELSE [of |-> entry, chars |-> {}])
  /\ UNCHANGED <<init, permits, ring, prod, taken, entry>>

ZeroText ==
  /\ WorkerStep("zero", "reclaim")
  /\ msgBuffer' = [i \in Text!Indices |->
                     IF entry \in Entry /\ i \in Chars(entry) THEN Zero ELSE msgBuffer[i]]
  /\ UNCHANGED <<init, permits, textWord, entryWord, entryQueue, prod, taken, entry, delivered>>

(* Characters that are zero are popped for as long as the buffer is not    *)
(* Empty(), which is to say, as Empty() is, when there are none in it.     *)
Reclaim ==
  /\ worker = "reclaim"
  /\ IF Text!EmptyAnswers(textWord) \/ msgBuffer[Text!TailSlot(textWord)] # Zero
     THEN worker' = "check" /\ UNCHANGED textWord
     ELSE textWord' = Text!TailPopped(textWord) /\ UNCHANGED worker
  /\ UNCHANGED <<init, permits, msgBuffer, entryWord, entryQueue, prod, taken, entry, delivered>>

Main == CreateThread \/ StoreThread \/ ClearThread \/ SignalStop \/ JoinThread

Log(p) ==
  \/ \E len \in Lens : ClaimText(p, len)
  \/ ClaimEntry(p) \/ ClearEntry(p) \/ FillEntry(p) \/ WriteText(p) \/ SignalEntry(p)

Worker ==
  CheckThread \/ WaitEntry \/ PopIndex \/ CopyEntry \/ Deliver \/ ZeroText \/ Reclaim

Next == Main \/ Worker \/ \E p \in Producers : Log(p)

Spec == Init /\ [][Next]_vars

(* Threads that can take a step take it, but nobody has to log or to stop: *)
(* only what has begun goes on.                                            *)
Fairness ==
  /\ WF_vars(CreateThread \/ StoreThread \/ SignalStop \/ JoinThread)
  /\ WF_vars(Worker)
  /\ \A p \in Producers : WF_vars(pc[p] # "idle" /\ Log(p))

FairSpec == Spec /\ Fairness

---------------------------------------------------------------------------
(* Types of the variables; no message, with its terminator, runs past the  *)
(* end of the text buffer.                                                 *)
TypeOK ==
  /\ thread \in BOOLEAN
  /\ main \in {"create", "store", "running", "signal", "join", "done"}
  /\ worker \in {"none", "check", "wait", "pop", "copy", "deliver", "zero", "reclaim", "exited"}
  /\ permits \in Nat
  /\ textWord \in Text!Words /\ entryWord \in Entries!Words
  /\ msgBuffer \in [Text!Indices -> Messages \cup {Zero, Unwritten}]
  /\ entryQueue \in [Entries!Indices -> Entry \cup {Zero, Unwritten}]
  /\ pc \in [Producers -> {"idle", "entry", "clear", "fill", "write", "signal"}]
  /\ logged \in [Producers -> 0..MaxLogs]
  /\ slot \in [Producers -> Entries!Indices]
  /\ \A p \in Producers : text[p].msg..text[p].msg+text[p].msgLen \subseteq Text!Indices
  /\ taken \in Entries!Indices /\ overlapped \in BOOLEAN
  /\ entry \in Entry \cup {Zero, Unwritten}

(* How many of the first n of a list are messages of p. *)
Number(list, p, n) == Cardinality({i \in 1..n : list[i].of \in {p} \X (1..MaxLogs)})

(* As long as no two threads log at the same time, what endpoints print is *)
(* what was logged: each message once, in the order in which it was        *)
(* logged, and whole, neither overwritten by a later message nor wiped     *)
(* with an earlier one.  This is so until Shutdown signals: its permit may *)
(* then let the thread pop an entry that a logger is still filling in.     *)
PrintedAsLogged ==
  /\ TypeOK
  /\ ~ overlapped /\ main \notin {"join", "done"} =>
     \A i \in DOMAIN delivered :
       \E p \in Producers :
         /\ delivered[i].of = <<p, Number(delivered, p, i)>>
         /\ delivered[i].chars = {delivered[i].of}

(* Every permit stands for an entry, until Shutdown adds one that does     *)
(* not: the entries in the queue are those signalled, the one the thread   *)
(* is about to pop, and those whose loggers have not signalled yet.  So    *)
(* "the only situation where this will fail is when the application is     *)
(* shutting down" (logging.cpp:96): the thread is not woken to find the    *)
(* queue empty before that.                                                *)
PermitsMatchEntries ==
  /\ main \in {"create", "store", "running", "signal"} =>
       entryWord.count = permits + (IF worker = "pop" THEN 1 ELSE 0)
                         + Cardinality(At({"clear", "fill", "write", "signal"}))
  /\ worker = "pop" /\ thread => entryWord.count > 0

(* "Can be used as a fixed-capacity thread-safe queue." (datatypes.h:2173) *)
(* The entry that the logging thread takes from the queue is one that was  *)
(* filled in and whose logger has signalled it.                            *)
Signalled(m) == pc[m[1]] = "idle" \/ logged[m[1]] > m[2]

TakesWholeEntries ==
  worker = "deliver" /\ thread => entry \in Entry /\ Signalled(entry.of)

(* Shutdown returns: the thread is not left asleep, whatever it was doing. *)
ShutdownReturns == main = "signal" ~> main = "done"

Logged(m)  == \E p \in Producers : p = m[1] /\ (logged[p] > m[2] \/ (logged[p] = m[2] /\ pc[p] = "idle"))
Printed(m) == \E i \in DOMAIN delivered : delivered[i].of = m

(* A message that has been logged is printed, unless Shutdown comes first  *)
(* or the thread found no handle when it started, or threads have logged   *)
(* at the same time.                                                       *)
LoggedIsPrinted ==
  \A m \in Messages :
    Logged(m) ~> Printed(m) \/ overlapped \/ main \in {"signal", "join", "done"} \/ worker = "exited"

=============================================================================
