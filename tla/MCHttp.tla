------------------------------- MODULE MCHttp -------------------------------
(***************************************************************************)
(* The HTTP client of http.cpp: its threads, and for one request its       *)
(* connection, the reads of its response, the chunks of its body, and the  *)
(* Consume methods of String that the headers and chunks are read with.    *)
(* The client's own constants and variables keep their names.              *)
(***************************************************************************)
EXTENDS HttpClient, SequencesExt

CONSTANTS
  Components,                          \* the components a run looks at
  HeaderUnits, BodyUnits, BufferSize,  \* of a response, and of what holds it
  RequestSize,                         \* of a request
  HandshakeSteps,                      \* BOUND: handshake calls to repeat
  MaxAddresses,                        \* BOUND: addresses of a host
  Buffers, Tokens, Counts              \* what is scanned, and for what

VARIABLES
  which,  \* the component that runs
  rHttps, rDeclared, rSends, rClosed, rNotified, rBuffers, rLast, rError,
  rState,
  kChunks, kSent, kReceived, kBody, kState,
  cBuffer, cData, cLength, cPiece,
  nHttps, nFd, nAddresses, nSockets, nTls, nPc, nSlen, nWire, nWaits, nResponse, nCloses

\* Responses of no, one or two chunks, of characters that are also the digits and line
\* ends of the encoding, and of null characters.
Chunk1 == UNION {[1..n -> {"1", "\n", "\r", "null"}]: n \in 1..2}
SomeContents == {<<>>} \cup {<<c>>: c \in Chunk1} \cup {<<c, d>>: c \in Chunk1, d \in Chunk1}

\* Sizes in base two: one digit, and more than one.
SizeDigits(n) ==
  CASE n = 0 -> <<"0">> [] n = 1 -> <<"1">> [] n = 2 -> <<"1", "0">> [] OTHER -> <<"1", "1">>

\* Texts of either line end, white space, words and a token in every order.  What
\* comes before them is not known, so they do not begin with "\n".
Lexemes == {<<"a">>, <<" ">>, <<":">>, <<"\n">>, <<"\r", "\n">>}
ScanTexts ==
  {FlattenSeq(l): l \in {l \in BoundedSeq(Lexemes, 4):
     /\ l = <<>> \/ l[1] # <<"\n">>
     /\ \A i \in 2..Len(l): l[i] = <<"\r", "\n">> => l[i - 1] # <<"\n">>}}

Read == INSTANCE HttpRead WITH
  https <- rHttps, declared <- rDeclared, sends <- rSends, closed <- rClosed,
  notified <- rNotified, buffers <- rBuffers, last <- rLast,
  error <- rError, state <- rState

Chunk == INSTANCE HttpChunks WITH
  Contents <- SomeContents, Digits <- SizeDigits, chunks <- kChunks,
  sent <- kSent, received <- kReceived, body <- kBody, state <- kState

Scan == INSTANCE TextScan WITH
  buffer <- cBuffer, data <- cData, length <- cLength, piece <- cPiece

Conn == INSTANCE HttpConnection WITH
  https <- nHttps, fd <- nFd, addresses <- nAddresses, sockets <- nSockets, tls <- nTls, pc <- nPc, slen <- nSlen,
  wire <- nWire, waits <- nWaits,
  response <- nResponse, closes <- nCloses

readVars == <<rHttps, rDeclared, rSends, rClosed, rNotified, rBuffers,
              rLast, rError, rState>>
chunkVars == <<kChunks, kSent, kReceived, kBody, kState>>
scanVars == <<cBuffer, cData, cLength, cPiece>>
connVars == <<nHttps, nFd, nAddresses, nSockets, nTls, nPc, nSlen, nWire, nWaits, nResponse,
              nCloses>>
allVars == <<which, vars, readVars, chunkVars, connVars, scanVars>>

\* One component runs; the others stay as they are.
AllInit ==
  /\ which \in Components
  /\ Init
  /\ IF which = "read" THEN Read!Init ELSE
       /\ rHttps = FALSE /\ rDeclared = FALSE /\ rSends = 0
       /\ rClosed = FALSE /\ rNotified = FALSE /\ rBuffers = 0 /\ rLast = 0
       /\ rError = FALSE /\ rState = "none"
  /\ IF which = "chunks" THEN Chunk!Init ELSE
       /\ kChunks = <<>> /\ kSent = <<>> /\ kReceived = 0 /\ kBody = <<>>
       /\ kState = "none"
  /\ IF which = "scan" THEN Scan!Init ELSE
       /\ cBuffer = <<>> /\ cData = 0 /\ cLength = 0
       /\ cPiece = [at |-> 0, length |-> 0, line |-> FALSE]
  /\ IF which = "connection" THEN Conn!Init ELSE
       /\ nHttps = FALSE /\ nFd = "zero" /\ nAddresses = 0 /\ nSockets = <<>> /\ nTls = "none" /\ nPc = "none"
       /\ nSlen = 0 /\ nWire = <<>> /\ nWaits = 0 /\ nResponse = FALSE
       /\ nCloses = <<>>

OnlyClient ==
  /\ which = "client"
  /\ UNCHANGED <<which, readVars, chunkVars, connVars, scanVars>>
RunClient == OnlyClient /\ Next

OnlyRead ==
  /\ which = "read"
  /\ UNCHANGED <<which, vars, chunkVars, connVars, scanVars>>
RunRead == OnlyRead /\ Read!Next

OnlyChunk ==
  /\ which = "chunks"
  /\ UNCHANGED <<which, vars, readVars, connVars, scanVars>>
RunChunk == OnlyChunk /\ Chunk!Next

OnlyConn ==
  /\ which = "connection"
  /\ UNCHANGED <<which, vars, readVars, chunkVars, scanVars>>
RunConn == OnlyConn /\ Conn!Next

OnlyScan ==
  /\ which = "scan"
  /\ UNCHANGED <<which, vars, readVars, chunkVars, connVars>>
RunScan == OnlyScan /\ Scan!Next

AllNext == RunClient \/ RunRead \/ RunChunk \/ RunConn \/ RunScan

AllSpec == AllInit /\ [][AllNext]_allVars

\* The fairness of each component: the threads are scheduled, and the server
\* answers and closes the connection in the end.
ThreadRuns ==
  \/ OnlyClient /\ Thread
  \/ OnlyRead /\ Read!ReadData
  \/ OnlyConn /\ (Conn!ConnectStep \/ Conn!NoAddressLeft)
StopRuns ==
  \/ OnlyClient /\ Shutdown
  \/ OnlyRead /\ Read!PeerCloses
  \/ OnlyConn /\ Conn!WriteSome
CallbacksRun ==
  \/ OnlyClient /\ (PopResponse \/ CallbackReturns \/ NoMoreResponses)
  \/ OnlyRead /\ Read!ReadCloseNotify
  \/ OnlyConn /\ (Conn!ReadReturns \/ Conn!ReadFails)
CallEnds(c) ==
  \/ OnlyClient /\ (WriteId(c) \/ PushRequest(c) \/ SignalRequest(c))
  \/ OnlyRead /\ Read!ReadEnd
  \/ OnlyConn /\ (Conn!ParseFails \/ Conn!ParseReturns)

AllFairSpec ==
  /\ AllSpec
  /\ WF_allVars(ThreadRuns) /\ WF_allVars(StopRuns) /\ WF_allVars(CallbacksRun)
  /\ \A c \in Clients: WF_allVars(CallEnds(c))

-----------------------------------------------------------------------------
\* What the constants have to be.
ASSUME HttpAssumptions ==
  /\ HttpAssumption /\ Read!ReadAssumption /\ Conn!ConnectionAssumption
  /\ Scan!ScanAssumption

\* Every request is answered unless the client is shut down.
RequestsAllAnswered == AllAnswered

\* A response that was cut short is never taken for a whole one.
ReadParsesOnlyWhole == which = "read" => Read!ReadParsesOnlyWhole

\* A whole response is recognized without waiting for the server to close, and
\* a request whose server answers comes to its end.
ReadWholeIsRecognized == Read!WholeIsRecognized /\ (which = "connection" => Conn!RequestEnds)

\* "Connection closed gracefully / Stop reading and move on to parsing"
\* (http.cpp:432-433): reading ends when the server has closed.
EndsWithConnection == Read!EndsWithConnection

\* A chunked body is put together from its chunks, and nothing else, however it
\* was split into reads; not before the last chunk has come, and in the read that
\* brings its end.  (A null character at its very end is lost, a body without a chunk
\* always fails, and of one with a line end behind a null character nothing is said.)
ChunkedBodyIsWhole ==
  which = "chunks" => Chunk!TypeOK /\ Chunk!BodyIsWhole /\ Chunk!WholeBodyRecognized

\* The Consume functions only move forward and give the pieces they passed, and
\* a program that reads line by line gets every line, without its end.
ScanLinesAreLines ==
  [](which = "scan" => Scan!TypeOK) /\ Scan!PiecesFollow /\ Scan!LinesAreLines

\* However a request ends, nothing of its connection is left open, with all that was
\* opened on the way, and what was closed is closed but once, except for the last
\* socket of a connect that failed at every address; the server gets the request once
\* and in order, before its response is read.
ConnectionLeftClosed == which = "connection" => Conn!ConnectionLeftClosed

=============================================================================
