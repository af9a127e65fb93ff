----------------------------- MODULE ThreadTable -----------------------------
(***************************************************************************)
(* Threads of the Win32 platform layer: CreateThread records what a thread *)
(* is to run in the next entry of liveThreads and passes the thread a      *)
(* pointer to that entry; the thread reads it when it first runs.          *)
(* JoinThread takes the entry out of the table before it waits for the     *)
(* thread to end.                                                          *)
(*                                                                         *)
(* One thread creates and joins all the others, in any order: the table    *)
(* has no lock.                                                            *)
(***************************************************************************)
EXTENDS Integers, FiniteSets

CONSTANTS
  Handles,     (* thread handles; one that was closed may be used again     *)
  Jobs,        (* functions, each with its argument, that threads run       *)
  Capacity,    (* entries of liveThreads: 16 in the code                    *)
  NoHandle, NoJob, Garbage

TableAssumption ==
  /\ IsFiniteSet(Handles) /\ NoHandle \notin Handles
  /\ NoJob \notin Jobs /\ Garbage \notin Jobs
  /\ Capacity \in Nat \ {0}

VARIABLES
  liveThreads, threadCount,
  state,       (* every handle: none, created, running, exited              *)
  info,        (* the entry a thread was given a pointer to                 *)
  job,         (* what the thread was created to run                        *)
  ran,         (* what it did run                                           *)
  joining,     (* the handle that JoinThread waits for                      *)
  overtaken,   (* auxiliary: threads to be joined whose entry was given to  *)
               (* one created later                                         *)
  missed       (* auxiliary: how many joins found no entry                  *)

vars == <<liveThreads, threadCount, state, info, job, ran, joining, overtaken, missed>>

Entries == 0..Capacity-1
Cleared == [handle |-> NoHandle, job |-> NoJob]

(* platformState starts zeroed. *)
Init ==
  /\ liveThreads = [i \in Entries |-> Cleared]
  /\ threadCount = 0
  /\ state = [h \in Handles |-> "none"]
  /\ info = [h \in Handles |-> 0]
  /\ job = [h \in Handles |-> NoJob] /\ ran = [h \in Handles |-> NoJob]
  /\ joining = NoHandle
  /\ overtaken = {} /\ missed = 0

Live == {h \in Handles : state[h] # "none" /\ h # joining}

(* The assertion lets no thread be created when the table is full.  The    *)
(* entry it takes may be that of a thread created after one that has been  *)
(* joined.                                                                 *)
CreateThread(h, j) ==
  /\ joining = NoHandle
  /\ threadCount < Capacity
  /\ state[h] = "none"
  /\ liveThreads' = [liveThreads EXCEPT ![threadCount] = [handle |-> h, job |-> j]]
  /\ info' = [info EXCEPT ![h] = threadCount]
  /\ threadCount' = threadCount + 1
  /\ state' = [state EXCEPT ![h] = "created"]
  /\ job' = [job EXCEPT ![h] = j]
  /\ overtaken' = overtaken \cup {g \in Live : info[g] = threadCount}
  /\ UNCHANGED <<ran, joining, missed>>

(* WorkerThreadProc reads its entry, whatever that holds by now. *)
ThreadStarts(h) ==
  /\ state[h] = "created"
  /\ state' = [state EXCEPT ![h] = "running"]
  /\ ran' = [ran EXCEPT ![h] = liveThreads[info[h]].job]
  /\ UNCHANGED <<liveThreads, threadCount, info, job, joining, overtaken, missed>>

ThreadExits(h) ==
  /\ state[h] = "running"
  /\ state' = [state EXCEPT ![h] = "exited"]
  /\ UNCHANGED <<liveThreads, threadCount, info, job, ran, joining, overtaken, missed>>

(* JoinThread: the first entry with this handle is overwritten by the one  *)
(* at threadCount, which is past the last in use (past the end of the      *)
(* table when that is full), and the count goes down; without such an      *)
(* entry it is only logged.                                                *)
EntryOf(h) == {i \in Entries : liveThreads[i].handle = h /\
                               \A k \in Entries : k < i => liveThreads[k].handle # h}

(* Mutated: the last entry is taken out, whosever it is. *)
JoinThreadPopsLast(h) ==
  /\ joining = NoHandle
  /\ state[h] # "none"
  /\ joining' = h
  /\ liveThreads' = [liveThreads EXCEPT ![threadCount - 1] = Cleared]
  /\ threadCount' = threadCount - 1
  /\ UNCHANGED <<state, info, job, ran, overtaken, missed>>

JoinThread(h) ==
  /\ joining = NoHandle
  /\ state[h] # "none"
  /\ joining' = h
  /\ \/ \E i \in EntryOf(h) :
          /\ liveThreads' = [liveThreads EXCEPT ![i] =
                               IF threadCount < Capacity THEN liveThreads[threadCount]
                               ELSE [handle |-> NoHandle, job |-> Garbage]]
          /\ threadCount' = threadCount - 1
          /\ UNCHANGED missed
     \/ /\ EntryOf(h) = {}
        /\ missed' = missed + 1
        /\ UNCHANGED <<liveThreads, threadCount>>
  /\ UNCHANGED <<state, info, job, ran, overtaken>>

(* The wait is over; the handle is closed. *)
JoinReturns(h) ==
  /\ joining = h
  /\ state[h] = "exited"
  /\ state' = [state EXCEPT ![h] = "none"]
  /\ joining' = NoHandle
  /\ ran' = [ran EXCEPT ![h] = NoJob]
  /\ job' = [job EXCEPT ![h] = NoJob]
  /\ info' = [info EXCEPT ![h] = 0]
  /\ overtaken' = overtaken \ {h}
  /\ UNCHANGED <<liveThreads, threadCount, missed>>

Next ==
  \E h \in Handles :
    \/ \E j \in Jobs : CreateThread(h, j)
    \/ ThreadStarts(h) \/ ThreadExits(h)
    \/ JoinThread(h) \/ JoinReturns(h)

Spec == Init /\ [][Next]_vars

---------------------------------------------------------------------------
(* Types of the variables.                                                 *)
TypeOK ==
  /\ liveThreads \in [Entries -> [handle : Handles \cup {NoHandle},
                                  job : Jobs \cup {NoJob, Garbage}]]
  /\ threadCount \in 0..Capacity
  /\ state \in [Handles -> {"none", "created", "running", "exited"}]
  /\ info \in [Handles -> Entries]
  /\ job \in [Handles -> Jobs \cup {NoJob}]
  /\ ran \in [Handles -> Jobs \cup {NoJob, Garbage}]
  /\ joining \in Handles \cup {NoHandle}
  /\ overtaken \subseteq Handles /\ missed \in Nat

(* JoinThread fills the entry it frees from the wrong place                *)
(* (win32_platform.cpp:382), and so does not keep the entries in use       *)
(* together.  Even so, the count is that of the threads still to be joined *)
(* and of the joins that found no entry, which only happens to threads     *)
(* whose entry CreateThread gave to another one: stale entries never hide  *)
(* a thread that still has its own.                                        *)
CountRight ==
  /\ threadCount = Cardinality(Live) + missed
  /\ \A h \in Live \ overtaken : EntryOf(h) # {}

(* A thread that runs for the first time before it is joined, and before   *)
(* its entry is given to another one, runs what it was created for,        *)
(* whatever was created and joined by then.                                *)
StartsRight ==
  [][\A h \in Handles \ overtaken :
       state[h] = "created" /\ state'[h] = "running" /\ h # joining => ran'[h] = job[h]]_vars

(* A thread runs what it was created for.  "ASSERT_EQ( value, threadCount  *)
(* * iterationCount )" (test.cpp:374) has it that every thread that was    *)
(* created and joined has run the test's function.                         *)
RunsItsJob ==
  \A h \in Handles : state[h] \in {"running", "exited"} => ran[h] = job[h]

=============================================================================
