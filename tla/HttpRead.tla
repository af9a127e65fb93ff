------------------------------- MODULE HttpRead -------------------------------
(***************************************************************************)
(* How the HTTP client reads a response: ReadBlocking calls Read until the *)
(* response is complete or an error was recorded.  Each Read asks the      *)
(* transport for as much as fits in the last buffer, then looks at all     *)
(* that has arrived so far.                                                *)
(*                                                                         *)
(* The response is a number of units: HeaderUnits for the header with its  *)
(* empty line, and BodyUnits for the body.  Its header declares where it   *)
(* ends, by Content-Length or with a last chunk, or else it ends with the  *)
(* connection.  The server may close early.                                *)
(***************************************************************************)
EXTENDS Integers

CONSTANTS
  HeaderUnits, BodyUnits,
  BufferSize          (* units that fit in one buffer                       *)

ReadAssumption ==
  HeaderUnits \in Nat \ {0} /\ BodyUnits \in Nat /\ BufferSize \in Nat \ {0}

VARIABLES
  https, declared, sends, (* the request and the server's answer: fixed     *)
  closed,        (* the server has closed the connection                    *)
  notified,      (* Read was told that it did so gracefully                 *)
  buffers, last, (* how many buffers there are, and what the last one holds *)
  error,         (* whether response->error is other than zero              *)
  state          (* ReadBlocking is reading, or has returned to be parsed   *)

fixed == <<https, declared, sends>>
vars  == <<fixed, closed, notified, buffers, last, error, state>>

Total == HeaderUnits + BodyUnits

Init ==
  /\ https \in BOOLEAN
  /\ declared \in BOOLEAN
  /\ sends \in 0..Total
  /\ closed = FALSE /\ notified = FALSE
  /\ buffers = 0 /\ last = 0
  /\ error = FALSE
  /\ state = "reading"

Received == IF buffers = 0 THEN 0 ELSE (buffers - 1) * BufferSize + last

(* Mutated: a full buffer is read into. *)
NeverNeedsBuffer == buffers = 0

(* A buffer that is full stays as it is, and a new one is read into. *)
NeedsBuffer == buffers = 0 \/ last = BufferSize
Room        == IF NeedsBuffer THEN BufferSize ELSE BufferSize - last

(* Mutated: the header is enough. *)
CompleteWithHeader(n) == n >= HeaderUnits /\ declared

(* The end that the header declares has been received. *)
Complete(n) == n >= HeaderUnits /\ declared /\ n >= Total

(* The rest of Read, after n more units have come and with error e, and    *)
(* what ReadBlocking makes of its answer.                                  *)
Finish(n, e) ==
  /\ buffers' = buffers + (IF NeedsBuffer THEN 1 ELSE 0)
  /\ last' = (IF NeedsBuffer THEN 0 ELSE last) + n
  /\ error' = e
  /\ state' = IF ~ e /\ Complete(Received + n) THEN "parse"
              ELSE IF e THEN "failed" ELSE "reading"
  /\ UNCHANGED <<fixed, closed>>

(* What the transport may answer to a Read: some data, ...                 *)
ReadData ==
  /\ state = "reading"
  /\ \E n \in 1..Room : Received + n <= sends /\ Finish(n, error)
  /\ UNCHANGED notified

(* ... none as yet, ...                                                    *)
ReadNothingYet ==
  /\ state = "reading"
  /\ Received < sends \/ ~ closed
  /\ Finish(0, error)
  /\ UNCHANGED notified

(* ... a graceful end of the TLS session, which is not an error, ...       *)
ReadCloseNotify ==
  /\ state = "reading" /\ https
  /\ closed /\ Received = sends /\ ~ notified
  /\ notified' = TRUE
  /\ Finish(0, error)

(* ... zero at the end of the connection, which is recorded as the error   *)
(* it is not, ...                                                          *)
ReadEnd ==
  /\ state = "reading"
  /\ closed /\ Received = sends
  /\ Finish(0, FALSE)
  /\ UNCHANGED notified

(* ... or a negative error: a reset, or 5 seconds without data.            *)
ReadError ==
  /\ state = "reading"
  /\ Finish(0, TRUE)
  /\ UNCHANGED notified

Read == ReadData \/ ReadNothingYet \/ ReadCloseNotify \/ ReadEnd \/ ReadError

(* The server closes, once it has sent what it will send. *)
PeerCloses ==
  /\ ~ closed
  /\ closed' = TRUE
  /\ UNCHANGED <<fixed, notified, buffers, last, error, state>>

Next == Read \/ PeerCloses

Spec == Init /\ [][Next]_vars

(* What has been sent arrives, the server closes in the end, and then the  *)
(* transport says so.  No error need ever occur.                           *)
Fairness ==
  /\ WF_vars(ReadData) /\ WF_vars(PeerCloses)
  /\ WF_vars(ReadCloseNotify) /\ WF_vars(ReadEnd)

FairSpec == Spec /\ Fairness

---------------------------------------------------------------------------
(* Types of the variables; no buffer is filled past its end. *)
TypeOK ==
  /\ https \in BOOLEAN /\ declared \in BOOLEAN /\ sends \in 0..Total
  /\ closed \in BOOLEAN /\ notified \in BOOLEAN /\ error \in BOOLEAN
  /\ buffers \in Nat /\ last \in 0..BufferSize
  /\ state \in {"reading", "parse", "failed"}

(* A response that was cut short, by an error or by the server, is never   *)
(* taken for a whole one, however it was split into reads and buffers.     *)
ParsesOnlyWhole == state = "parse" => Received = Total /\ declared /\ ~ error

ReadParsesOnlyWhole == TypeOK /\ ParsesOnlyWhole

(* A response that arrives whole, and says where it ends, is recognized    *)
(* without waiting for the server to close.                                *)
WholeIsRecognized == (declared /\ sends = Total /\ state = "reading") ~> (state # "reading")

(* "Connection closed gracefully / Stop reading and move on to parsing"    *)
(* (http.cpp:432-433): ReadBlocking ends when the server has closed.       *)
EndsWithConnection == closed ~> (state # "reading")

=============================================================================
