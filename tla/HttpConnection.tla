---------------------------- MODULE HttpConnection ----------------------------
(***************************************************************************)
(* One request on its connection: InitRequest on the thread that makes it, *)
(* then on the HTTP thread ProcessRequest, which connects, writes, reads   *)
(* (HttpRead.tla) and parses, and closes the connection on every way out.  *)
(* Of mbedtls, what its socket module does with the descriptor is modelled *)
(* (net_sockets.c); what its other calls answer is chosen.                 *)
(***************************************************************************)
EXTENDS Integers, Sequences

CONSTANTS
  RequestSize,   \* units of the request text
  HandshakeSteps, \* BOUND: handshake calls that want to be repeated
  MaxAddresses   \* BOUND: addresses a host has

ConnectionAssumption ==
  RequestSize \in Nat /\ HandshakeSteps \in Nat /\ MaxAddresses \in Nat

VARIABLES
  https,      \* Request::https
  fd,         \* the descriptor: "zero" as allocated, "none" (-1), or "socket",
              \* the number of the last of sockets, open or not
  addresses,  \* addresses of the host that have not failed yet
  sockets,    \* auxiliary: how often each socket of the request was closed
  tls,        \* the TLS contexts: "none", "init", "setup" or "freed"
  pc,         \* the next call of ProcessRequest
  slen,       \* Write's count of what was sent
  wire,       \* what the server got
  waits,      \* handshake calls that were repeated
  response,   \* Response::errored, and what ProcessRequest returned
  closes      \* auxiliary: calls of Close, and what each found to close

vars == <<https, fd, addresses, sockets, tls, pc, slen, wire, waits, response, closes>>

ConnectSteps == <<"resolve", "net_connect", "set_nonblock", "config_defaults", "drbg_seed",
                  "ssl_setup", "set_hostname", "handshake">>
NoResponse == [errored |-> FALSE, result |-> FALSE]

\* InitRequest, of a request that is all zeroes: without TLS the socket stays so.
Init ==
  /\ https \in BOOLEAN
  /\ fd = IF https THEN "none" ELSE "zero"
  /\ tls = IF https THEN "init" ELSE "none"
  /\ pc = "resolve" /\ addresses = 0 /\ sockets = <<>>
  /\ slen = 0 /\ wire = <<>> /\ waits = 0
  /\ response = NoResponse /\ closes = <<>>

\* mbedtls_net_free: whatever number is there is closed, if there is one.
NetFree ==
  /\ sockets' = IF fd = "socket" THEN [sockets EXCEPT ![Len(sockets)] = @ + 1] ELSE sockets
  /\ fd' = "none"

\* Mutated: the socket is closed only after a success.
CloseKeepingSocket(error) ==
  /\ tls' = IF https THEN "freed" ELSE tls
  /\ IF error THEN UNCHANGED <<fd, sockets>> ELSE NetFree
  /\ closes' = Append(closes, fd)
  /\ response' = [errored |-> error, result |-> ~error]
  /\ pc' = "done"
  /\ UNCHANGED <<https, addresses, slen, wire, waits>>

\* Close, and what ProcessRequest returns.
Close(error) ==
  /\ tls' = IF https THEN "freed" ELSE tls
  /\ NetFree
  /\ closes' = Append(closes, fd)
  /\ response' = [errored |-> error, result |-> ~error]
  /\ pc' = "done"
  /\ UNCHANGED <<https, addresses, slen, wire, waits>>

After(step) ==
  LET i == CHOOSE i \in DOMAIN ConnectSteps: ConnectSteps[i] = step
  IN IF i = Len(ConnectSteps) \/ (~https /\ step = "set_nonblock") THEN "write"
     ELSE ConnectSteps[i + 1]

\* Connect: each call may fail, and the handshake may want to be repeated.
\* mbedtls_net_connect resolves the host and tries its addresses in turn.
ConnectStep ==
  /\ pc \in {ConnectSteps[i]: i \in DOMAIN ConnectSteps}
  /\ pc = "net_connect" => addresses > 0
  /\ IF pc = "resolve" THEN addresses' \in 1..MaxAddresses ELSE UNCHANGED addresses
  /\ IF pc = "net_connect" THEN fd' = "socket" /\ sockets' = Append(sockets, 0)
     ELSE UNCHANGED <<fd, sockets>>
  /\ tls' = IF pc = "ssl_setup" THEN "setup" ELSE tls
  /\ pc' = After(pc)
  /\ UNCHANGED <<https, slen, wire, waits, response, closes>>

\* There is no socket for an address, or it cannot be connected: then the socket is
\* closed, and fd keeps its number.
AddressFails ==
  /\ pc = "net_connect" /\ addresses > 0
  /\ addresses' = addresses - 1
  /\ \/ fd' = "none" /\ UNCHANGED sockets
     \/ fd' = "socket" /\ sockets' = Append(sockets, 1)
  /\ UNCHANGED <<https, tls, pc, slen, wire, waits, response, closes>>

HandshakeWants ==
  /\ pc = "handshake" /\ waits < HandshakeSteps
  /\ waits' = waits + 1
  /\ UNCHANGED <<https, fd, addresses, sockets, tls, pc, slen, wire, response, closes>>

NoAddressLeft == pc = "net_connect" /\ addresses = 0 /\ Close(TRUE)

\* The other calls fail by themselves.
ConnectFails ==
  /\ pc \in {ConnectSteps[i]: i \in DOMAIN ConnectSteps} \ {"net_connect"}
  /\ Close(TRUE)

\* Where the next write starts.
WriteFrom == slen

\* Write: what is left is sent as far as the socket takes it.  (Zero ends Write as
\* if all was sent; the transport answers it only when asked to send nothing.)
WriteSome ==
  /\ pc = "write"
  /\ \E n \in 1..RequestSize - slen:
       /\ wire' = wire \o [i \in 1..n |-> WriteFrom + i]
       /\ slen' = slen + n
       /\ pc' = IF slen + n >= RequestSize THEN "read" ELSE "write"
  /\ UNCHANGED <<https, fd, addresses, sockets, tls, waits, response, closes>>

WriteWants == pc = "write" /\ UNCHANGED vars
WriteFails == pc = "write" /\ Close(TRUE)

\* ReadBlocking returns a whole response, or an error.
ReadReturns ==
  /\ pc = "read"
  /\ pc' = "parse"
  /\ UNCHANGED <<https, fd, addresses, sockets, tls, slen, wire, waits, response, closes>>
ReadFails == pc = "read" /\ Close(TRUE)

\* ParseResponse: after a bad status line ProcessRequest asserts, but only once
\* it has closed the connection.
ParseFails == pc = "parse" /\ Close(TRUE)
ParseReturns == pc = "parse" /\ Close(FALSE)

Next ==
  \/ ConnectStep \/ AddressFails \/ HandshakeWants \/ NoAddressLeft \/ ConnectFails
  \/ WriteSome \/ WriteWants \/ WriteFails
  \/ ReadReturns \/ ReadFails \/ ParseFails \/ ParseReturns

Spec == Init /\ [][Next]_vars
Fairness ==
  /\ WF_vars(ConnectStep \/ NoAddressLeft) /\ WF_vars(WriteSome)
  /\ WF_vars(ReadReturns \/ ReadFails) /\ WF_vars(ParseFails \/ ParseReturns)

FairSpec == Spec /\ Fairness

----------------------------------------------------------------------------
TypeOK ==
  /\ fd \in {"zero", "none", "socket"} /\ addresses \in 0..MaxAddresses
  /\ sockets \in Seq(Nat)
  /\ tls \in {"none", "init", "setup", "freed"}
  /\ slen \in 0..RequestSize /\ waits \in 0..HandshakeSteps

\* However a request ends, nothing that it opened is left open: Close is called once,
\* frees what TLS there is, and the response is marked as the result says.  Each
\* socket is closed once, except for one case: mbedtls_net_connect keeps the number of
\* the last one it closed when every address has failed, and Close closes that again,
\* whoever has the number by then.
LeftClosed ==
  /\ Len(closes) = (IF pc = "done" THEN 1 ELSE 0)
  /\ pc = "done" => /\ fd = "none" /\ (https <=> tls = "freed")
                    /\ response.result = ~response.errored
                    /\ \A i \in DOMAIN sockets:
                         \/ sockets[i] = 1
                         \/ sockets[i] = 2 /\ i = Len(sockets) /\ addresses = 0

\* While a request is written and its response read, its socket is the one that
\* connected, and all the others are closed.
OneIsOpen ==
  pc \in {"write", "read", "parse"} =>
    /\ fd = "socket" /\ sockets # <<>>
    /\ \A i \in DOMAIN sockets: sockets[i] = (IF i = Len(sockets) THEN 0 ELSE 1)

\* The server gets the request in one piece and in order, and it has all of it
\* before the client starts to read.
SentWhole ==
  /\ wire = [i \in 1..slen |-> i]
  /\ pc \in {"read", "parse"} => slen = RequestSize

\* What a request leaves behind, however it ends.
ConnectionLeftClosed == TypeOK /\ LeftClosed /\ OneIsOpen /\ SentWhole

\* Every request comes to its end, if the server answers.
RequestEnds == <>(pc = "done")

\* Refuted where no address can be connected: a socket is closed but once.
ClosesEachOnce == \A i \in DOMAIN sockets: sockets[i] <= 1

\* Refuted where a request without TLS fails to resolve its host: what is closed is
\* not descriptor zero.
ClosesItsSocket == \A i \in DOMAIN closes: closes[i] # "zero"

=============================================================================
