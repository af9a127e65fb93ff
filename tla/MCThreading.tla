---------------------------- MODULE MCThreading -----------------------------
(***************************************************************************)
(* The locks, semaphores, ring buffer, thread table and file operations    *)
(* of threading.h, datatypes.h and win32_platform.cpp, one at a time.      *)
(* The constants and variables of RecursiveBenaphore keep their names.     *)
(***************************************************************************)
EXTENDS RecursiveBenaphore

CONSTANTS
  Components,  \* the components a run looks at
  t1, t2, t3, t4, a, b, h1, h2, j1, j2,
  Amounts, SemaphoreMax, PreshingMax,
  BenaphoreThreads,
  RingThreads, RingItems, RingCapacity, RangeLens, Unwritten, NoItem, NoSlot,
  Handles, Jobs, TableCapacity, NoHandle, NoJob, Garbage,
  Callers, Bytes, ChunkLists, NoFile, Null

VARIABLES
  which,  \* the component that runs
  sCount, sPc,
  pSignalCount, pSemaphore, pPc, pOldCount, pToRelease,
  bContention, bSemaphore, bPc,
  gIndexData, gBuffer, gPc, gOp, gArg, gLen, gCurData, gSlot, gOut,
  tLiveThreads, tThreadCount, tState, tInfo, tJob, tRan, tJoining, tOvertaken, tMissed,
  fFile, fPc, fChunks, fI, fError, fSize, fData, fBegun

Threads2 == {t1, t2}
Threads4 == {t1, t2, t3, t4}
Handles2 == {h1, h2}

\* Chunks of no, one and two bytes; two writes differ in every byte they share.
SomeChunks == {<<>>, <<<<a>>, <<b, a>>>>, <<<<b>>, <<>>, <<b>>>>}

Sem == INSTANCE Semaphore WITH
  Threads <- Threads, Amounts <- Amounts, MaxCount <- SemaphoreMax,
  count <- sCount, pc <- sPc

Pre == INSTANCE PreshingSemaphore WITH
  Threads <- Threads, Amounts <- Amounts, MaxCount <- PreshingMax,
  signalCount <- pSignalCount, semaphore <- pSemaphore, pc <- pPc,
  oldCount <- pOldCount, toRelease <- pToRelease

Ben == INSTANCE Benaphore WITH
  Threads <- BenaphoreThreads, contention <- bContention,
  semaphore <- bSemaphore, pc <- bPc

Ring == INSTANCE SyncRingBuffer WITH
  Threads <- RingThreads, Items <- RingItems, Capacity <- RingCapacity,
  Operations <- {"push", "range", "pop", "pop_head"},
  indexData <- gIndexData, buffer <- gBuffer, pc <- gPc, op <- gOp,
  arg <- gArg, len <- gLen, curData <- gCurData, slot <- gSlot, out <- gOut

Table == INSTANCE ThreadTable WITH
  Capacity <- TableCapacity,
  liveThreads <- tLiveThreads, threadCount <- tThreadCount, state <- tState,
  info <- tInfo, job <- tJob, ran <- tRan, joining <- tJoining,
  overtaken <- tOvertaken, missed <- tMissed

File == INSTANCE FileIO WITH
  file <- fFile, pc <- fPc, chunks <- fChunks, i <- fI, error <- fError,
  size <- fSize, data <- fData, begun <- fBegun

semVars == <<sCount, sPc>>
preVars == <<pSignalCount, pSemaphore, pPc, pOldCount, pToRelease>>
benVars == <<bContention, bSemaphore, bPc>>
ringVars == <<gIndexData, gBuffer, gPc, gOp, gArg, gLen, gCurData, gSlot,
              gOut>>
tableVars == <<tLiveThreads, tThreadCount, tState, tInfo, tJob, tRan,
               tJoining, tOvertaken, tMissed>>
fileVars == <<fFile, fPc, fChunks, fI, fError, fSize, fData, fBegun>>
allVars == <<which, semVars, preVars, benVars, vars, ringVars, tableVars, fileVars>>

\* One component runs; the others stay as they are.
AllInit ==
  /\ which \in Components
  /\ Sem!Init
  /\ Pre!Init
  /\ Ben!Init
  /\ Init
  /\ Ring!Init
  /\ Table!Init
  /\ File!Init

OnlySem ==
  /\ which = "semaphore"
  /\ UNCHANGED <<which, preVars, benVars, vars, ringVars,
                 tableVars, fileVars>>
RunSem == OnlySem /\ Sem!Next

OnlyPre ==
  /\ which = "preshing"
  /\ UNCHANGED <<which, semVars, benVars, vars, ringVars,
                 tableVars, fileVars>>
RunPre == OnlyPre /\ Pre!Next

OnlyBen ==
  /\ which = "benaphore"
  /\ UNCHANGED <<which, semVars, preVars, vars, ringVars,
                 tableVars, fileVars>>
RunBen == OnlyBen /\ Ben!Next

OnlyRec ==
  /\ which = "recursive"
  /\ UNCHANGED <<which, semVars, preVars, benVars, ringVars,
                 tableVars, fileVars>>
RunRec == OnlyRec /\ Next

OnlyRing ==
  /\ which = "ring"
  /\ UNCHANGED <<which, semVars, preVars, benVars, vars,
                 tableVars, fileVars>>
RunRing == OnlyRing /\ Ring!Next

OnlyTable ==
  /\ which = "table"
  /\ UNCHANGED <<which, semVars, preVars, benVars, vars,
                 ringVars, fileVars>>
RunTable == OnlyTable /\ Table!Next

OnlyFile ==
  /\ which = "file"
  /\ UNCHANGED <<which, semVars, preVars, benVars, vars,
                 ringVars, tableVars>>
RunFile == OnlyFile /\ File!Next

AllNext == RunSem \/ RunPre \/ RunBen \/ RunRec \/ RunRing \/ RunTable
           \/ RunFile

AllSpec == AllInit /\ [][AllNext]_allVars

\* What the fairness of each component is about: the operating system schedules
\* a thread that is inside a call, and does not let it sleep on a semaphore that
\* has a permit.
Scheduled(t) ==
  \/ OnlyPre /\ t \in Threads /\ (Pre!SemaphoreSignal(t) \/ Pre!SemaphoreWait(t))
  \/ OnlyBen /\ t \in BenaphoreThreads /\ (Ben!SemaphoreSignal(t) \/ Ben!SemaphoreWait(t))
  \/ OnlyRec /\ t \in Threads /\ InCall(t)
  \/ OnlyFile /\ t \in Callers /\ File!Step(t)

AllFairSpec == AllSpec /\ \A t \in Threads \cup BenaphoreThreads \cup Callers : WF_allVars(Scheduled(t))

-----------------------------------------------------------------------------
\* What the constants have to be.
ASSUME ThreadingAssumptions ==
  /\ Sem!SemaphoreAssumption /\ Pre!PreshingAssumption /\ Ben!BenaphoreAssumption
  /\ RecursiveAssumption /\ Ring!CapacityAssumption /\ Ring!RingAssumption
  /\ Table!TableAssumption /\ File!FileAssumption

\* A thread sleeps on the condition variable of a Semaphore only while every
\* permit has a thread of its own on its way to it (threading.h Signal, Wait).
SemaphoreNoLostWakeup == Sem!SemaphoreNoLostWakeup

\* The negative count of a PreshingSemaphore is its sleepers without a permit,
\* and every other sleeper has one on the way, whatever the interleaving.
PreshingSleepersAccountedFor == Pre!PreshingSleepersAccountedFor

\* Two threads are never inside a Benaphore at once, and the one permit that
\* lets them in is neither lost nor doubled.
BenaphoreOneBaton == Ben!BenaphoreOneBaton

\* A Semaphore, its timed wait and TryWait included, is a counting semaphore, and
\* so are the two counts of a PreshingSemaphore together.
SemaphoresImplementPermits == Sem!ImplementsPermits /\ Pre!ImplementsPermits

\* A Benaphore is a lock, and a RecursiveBenaphore is one that its holder may take
\* again; TryLock fails only when the lock is taken or being given.
BenaphoresImplementLocks == Ben!ImplementsLock /\ ImplementsLock

\* Neither kind of benaphore stays free while a thread waits for it, a sleeper of a
\* PreshingSemaphore for which there are permits wakes up, and every handle of a file
\* that was opened is closed, so that the file is not kept from others.
WaitersWake == Pre!SleepersWake /\ Ben!HandOver /\ HandOver /\ File!HandlesAreClosed

\* Threads that push and pop a SyncRingBuffer get its slots in order, even when
\* the index word they compare has gone round and come back.
RingSlotsInOrder == []Ring!TypeOK /\ Ring!SlotsInOrder

\* The thread table counts the threads there are and the joins that missed, and
\* finds each thread whose entry no later one was given, although JoinThread fills
\* the entry it frees from the wrong place; and such a thread, when it first runs
\* before it is joined, runs what it was created for.
TableStartsRight == [](Table!TypeOK /\ Table!CountRight) /\ Table!StartsRight

\* A file is never made of chunks of two calls and has no gap, what ReadEntireFile
\* returns is no mixture of two contents, and WriteFileChunks returns true only when
\* all of the chunks are in the file.
FilesAreWhole ==
  [](File!TypeOK /\ File!OneWritesChunks /\ File!ReadIsCurrent) /\ File!SuccessIsWhole

\* A thread runs the function it was created for (test.cpp:374).
RunsItsJob == Table!RunsItsJob

=============================================================================
