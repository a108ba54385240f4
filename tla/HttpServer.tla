----------------------------- MODULE HttpServer -----------------------------
(***************************************************************************)
(* The C++ server (nonode/server.cpp): one thread runs the completion      *)
(* handlers of asio's operations, which accept connections, read requests, *)
(* hand them to the dispatcher and write replies, until a signal comes.    *)
(*                                                                         *)
(* An operation is waiting until the kernel completes it; then its handler *)
(* is queued with the outcome and runs later.  In between the thread may   *)
(* run other handlers, among them the one that closes everything, which    *)
(* changes the outcome of waiting operations only.                         *)
(***************************************************************************)
EXTENDS HttpParser

CONSTANTS Client,      \* whoever connects to the server, once each
          Requests,    \* what each client may send
          ChunkSizes,  \* symbols of a client that may arrive together, if not all
          None

\* What a client sends, and what it means by it.
RequestType ==
    [input : Seq(Symbol), uri : Uri, body : Seq(Symbol),
     wellFormed : BOOLEAN,
     isJson : BOOLEAN]      \* is the body what the dispatcher expects?

ASSUME HttpServerAssumption ==
    /\ Requests \in [Client -> SUBSET RequestType]
    /\ ChunkSizes \in [Client -> SUBSET (Nat \ {0})]
    /\ None \notin Client

VARIABLES
    request,       \* what each client sends
    client,        \* "absent", "connected", "answered" or "left" (or stalled)
    acceptorOpen,  \* acceptor_.is_open()
    accept,        \* outcome of the accept operation
    socket,        \* socket_, the client that was accepted last
    signals,       \* outcome of the operation that waits for a signal
    connections,   \* connection_manager::connections_
    isOpen,        \* socket_ of each connection
    op,            \* its operation, "read", "write" or "none"
    outcome,       \* of that operation
    taken,         \* symbols read by the handlers run so far
    parser,        \* request_parser_ and request_
    reply,         \* reply_: "none", "ok" or "bad_request"
    handled,       \* history: what the dispatcher was asked
    run            \* "running", "returned" or "thrown"

clientVars == <<request, client>>
serverVars == <<acceptorOpen, accept, socket, signals>>
socketVars == <<connections, isOpen, op, outcome>>
dataVars == <<taken, parser, reply, handled>>
vars == <<clientVars, serverVars, socketVars, dataVars, run>>

Outcome == {"waiting", "ok", "error", "aborted"}

\* Only what was accepted becomes a connection, and outcomes are asio's.
TypeOK ==
    /\ client \in [Client -> {"absent", "connected", "answered", "left"}]
    /\ acceptorOpen \in BOOLEAN
    /\ accept \in Outcome \cup {"none"}
    /\ socket \in Client \cup {None}
    /\ signals \in {"waiting", "ok", "none"}
    /\ connections \subseteq Client
    /\ isOpen \in [Client -> BOOLEAN]
    /\ op \in [Client -> {"none", "read", "write"}]
    /\ outcome \in [Client -> Outcome]
    /\ reply \in [Client -> {"none", "ok", "bad_request"}]
    /\ run \in {"running", "returned", "thrown"}

Init ==
    /\ request \in {f \in [Client -> UNION {Requests[c] : c \in Client}] :
                      \A c \in Client : f[c] \in Requests[c]}
    /\ client = [c \in Client |-> "absent"]
    /\ acceptorOpen = TRUE
    /\ accept = "waiting"
    /\ socket = None
    /\ signals = "waiting"
    /\ connections = {}
    /\ isOpen = [c \in Client |-> FALSE]
    /\ op = [c \in Client |-> "none"]
    /\ outcome = [c \in Client |-> "waiting"]
    /\ taken = [c \in Client |-> 0]
    /\ parser = [c \in Client |-> Fresh]
    /\ reply = [c \in Client |-> "none"]
    /\ handled = [c \in Client |-> None]
    /\ run = "running"

-----------------------------------------------------------------------------
(* The kernel, the clients and asio *)

AcceptClient(c) ==
    /\ accept = "waiting"
    /\ client[c] = "absent"
    /\ client' = [client EXCEPT ![c] = "connected"]
    /\ accept' = "ok"
    /\ socket' = c
    /\ UNCHANGED <<request, acceptorOpen, signals, socketVars, dataVars, run>>

FailAccept ==
    /\ accept = "waiting"
    /\ accept' = "error"
    /\ UNCHANGED <<clientVars, acceptorOpen, socket, signals, socketVars,
                   dataVars, run>>

Waits(c, kind) == op[c] = kind /\ outcome[c] = "waiting"

left(c) == Len(request[c].input) - taken[c]

ReceiveChunk(c) ==
    /\ Waits(c, "read")
    /\ client[c] \in {"connected", "left"}
    /\ left(c) > 0
    /\ outcome' = [outcome EXCEPT ![c] = "ok"]
    /\ UNCHANGED <<clientVars, serverVars, connections, isOpen, op, dataVars,
                   run>>

SendReply(c) ==
    /\ Waits(c, "write")
    /\ client[c] = "connected"
    /\ client' = [client EXCEPT ![c] = "answered"]
    /\ outcome' = [outcome EXCEPT ![c] = "ok"]
    /\ UNCHANGED <<request, serverVars, connections, isOpen, op, dataVars, run>>

\* A client goes away, or stops to send or to receive for good.
Leave(c) ==
    /\ client[c] = "connected"
    /\ client' = [client EXCEPT ![c] = "left"]
    /\ UNCHANGED <<request, serverVars, socketVars, dataVars, run>>

NoticeLoss(c) ==
    /\ client[c] = "left"
    /\ Waits(c, "read") \/ Waits(c, "write")
    /\ outcome' = [outcome EXCEPT ![c] = "error"]
    /\ UNCHANGED <<clientVars, serverVars, connections, isOpen, op, dataVars,
                   run>>

RaiseSignal ==
    /\ signals = "waiting"
    /\ signals' = "ok"
    /\ UNCHANGED <<clientVars, acceptorOpen, accept, socket, socketVars,
                   dataVars, run>>

\* The outcome of an operation that is started: on a closed socket it fails.
Started(open) == IF open THEN "waiting" ELSE "error"

\* close() cancels what is still waiting; what has been completed stays so.
Cancelled(result) == IF result = "waiting" THEN "aborted" ELSE result

-----------------------------------------------------------------------------
(* connection *)

DoRead(c) ==
    /\ op' = [op EXCEPT ![c] = "read"]
    /\ outcome' = [outcome EXCEPT ![c] = Started(isOpen[c])]

DoWrite(c, status) ==
    /\ reply' = [reply EXCEPT ![c] = status]
    /\ op' = [op EXCEPT ![c] = "write"]
    /\ outcome' = [outcome EXCEPT ![c] = Started(isOpen[c])]

\* connection_manager::stop, when the connection's handler is its last
MutantStop(c) ==
    /\ connections' = connections \ {c}
    /\ op' = [op EXCEPT ![c] = "none"]
    /\ UNCHANGED <<isOpen, outcome>>
Stop(c) ==
    /\ connections' = connections \ {c}
    /\ isOpen' = [isOpen EXCEPT ![c] = FALSE]
    /\ op' = [op EXCEPT ![c] = "none"]
    /\ UNCHANGED outcome

\* Dispatcher::move and start throw when the body is not the JSON they expect.
Throws(c, uri, body) ==
    /\ uri \in {"/move", "/start"}
    /\ ~(request[c].isJson /\ body = request[c].body)

Parsed(c, n) ==
    Parse(parser[c], SubSeq(request[c].input, taken[c] + 1, taken[c] + n))

\* The completion handler of do_read when n symbols have come.
HandleSymbols(c, n) ==
    LET p == Parsed(c, n) IN
    /\ op[c] = "read" /\ outcome[c] = "ok"
    /\ parser' = [parser EXCEPT ![c] = p]
    /\ taken' = [taken EXCEPT ![c] = @ + n]
    /\ \/ /\ p.result = "good"
          /\ handled' = [handled EXCEPT ![c] = <<p.uri, p.body>>]
          /\ \/ /\ Throws(c, p.uri, p.body)
                /\ run' = "thrown"
                /\ UNCHANGED <<reply, op, outcome>>
             \/ /\ ~Throws(c, p.uri, p.body)
                /\ DoWrite(c, "ok")
                /\ UNCHANGED run
       \/ /\ p.result = "bad"
          /\ DoWrite(c, "bad_request")
          /\ UNCHANGED <<handled, run>>
       \/ /\ p.result = "indeterminate"
          /\ DoRead(c)
          /\ UNCHANGED <<reply, handled, run>>
    /\ UNCHANGED <<clientVars, serverVars, connections, isOpen>>

HandleChunk(c) ==
    \E n \in {k \in ChunkSizes[c] : k < left(c)} \cup {left(c)} : HandleSymbols(c, n)

\* ... and when none will come
HandleReadError(c) ==
    /\ op[c] = "read" /\ outcome[c] = "error"
    /\ Stop(c)
    /\ UNCHANGED <<clientVars, serverVars, dataVars, run>>

HandleWritten(c) ==
    /\ op[c] = "write" /\ outcome[c] \in {"ok", "error"}
    /\ Stop(c)
    /\ UNCHANGED <<clientVars, serverVars, dataVars, run>>

HandleAborted(c) ==
    /\ op[c] # "none" /\ outcome[c] = "aborted"
    /\ op' = [op EXCEPT ![c] = "none"]
    /\ UNCHANGED <<clientVars, serverVars, connections, isOpen, outcome,
                   dataVars, run>>

-----------------------------------------------------------------------------
(* server *)

\* do_accept after the handler has started the connection, if there is one
StartConnection(c) ==
    /\ connections' = connections \cup {c}
    /\ isOpen' = [isOpen EXCEPT ![c] = TRUE]
    /\ op' = [op EXCEPT ![c] = "read"]
    /\ outcome' = [outcome EXCEPT ![c] = "waiting"]

\* if (!ec)
Succeeded == accept = "ok"

MutantGoesOn == TRUE
GoesOn == acceptorOpen

HandleAccept ==
    /\ accept \in {"ok", "error", "aborted"}
    /\ IF GoesOn
       THEN /\ accept' = Started(acceptorOpen)
            /\ IF Succeeded THEN StartConnection(socket)
               ELSE UNCHANGED socketVars
       ELSE accept' = "none" /\ UNCHANGED socketVars
    /\ UNCHANGED <<clientVars, acceptorOpen, socket, signals, dataVars, run>>

\* The handler of do_await_stop: acceptor_.close() and stop_all().
HandleSignal ==
    /\ signals = "ok"
    /\ signals' = "none"
    /\ acceptorOpen' = FALSE
    /\ accept' = Cancelled(accept)
    /\ isOpen' = [c \in Client |-> isOpen[c] /\ c \notin connections]
    /\ outcome' = [c \in Client |-> IF c \in connections
                                    THEN Cancelled(outcome[c]) ELSE outcome[c]]
    /\ connections' = {}
    /\ UNCHANGED <<clientVars, socket, op, dataVars, run>>

\* io_service::run returns when no operation is left.
Return ==
    /\ accept = "none" /\ signals = "none"
    /\ \A c \in Client : op[c] = "none"
    /\ run' = "returned"
    /\ UNCHANGED <<clientVars, serverVars, socketVars, dataVars>>

-----------------------------------------------------------------------------
Handle(c) == HandleChunk(c) \/ HandleReadError(c) \/ HandleWritten(c) \/ HandleAborted(c)

Outside(c) == ReceiveChunk(c) \/ SendReply(c) \/ Leave(c) \/ NoticeLoss(c)

Next ==
    /\ run = "running"
    /\ \/ \E c \in Client : AcceptClient(c) \/ Outside(c) \/ Handle(c)
       \/ FailAccept \/ RaiseSignal
       \/ HandleAccept \/ HandleSignal \/ Return

(* Handlers run in the order in which their operations were completed, so  *)
(* each of them does in the end.  A client that neither leaves nor stalls  *)
(* goes on sending and receives.                                           *)
Fairness ==
    /\ WF_vars(run = "running" /\ HandleAccept)
    /\ WF_vars(run = "running" /\ (HandleSignal \/ Return))
    /\ \A c \in Client :
          /\ WF_vars(run = "running" /\ Handle(c))
          /\ WF_vars(run = "running" /\ (ReceiveChunk(c) \/ SendReply(c)))

Spec == Init /\ [][Next]_vars /\ Fairness

-----------------------------------------------------------------------------
(* Properties *)

\* braces opened and not closed in a body
depth(body) ==
    Cardinality({i \in DOMAIN body : body[i] = Opening})
        - Cardinality({i \in DOMAIN body : body[i] = Closing})

\* Bodies whose braces, also those in strings, close with the last character
\* and not before: others the parser does not recognise.
Balanced(body) ==
    /\ depth(body) = 0
    /\ \A n \in 1 .. Len(body) - 1 : depth(SubSeq(body, 1, n)) > 0

recognised(c) ==
    Balanced(request[c].body) /\ (request[c].body = <<>> => "GET" = request[c].input[1])

\* However a request is cut into chunks, and whatever follows it, what the
\* dispatcher is asked is what the client has sent, all of it; and a request
\* that is answered with an error is not well formed.
WholeRequest ==
    \A c \in Client :
        /\ handled[c] # None /\ recognised(c) =>
              handled[c] = <<request[c].uri, request[c].body>>
        /\ reply[c] = "bad_request" => ~request[c].wellFormed
        /\ reply[c] = "ok" => request[c].wellFormed

\* server.cpp:915-918, "there is always at least one asynchronous operation
\* outstanding: the asynchronous accept": as long as the acceptor is open; and
\* a socket is open only as long as it is in connections_ and something is
\* going on with it, so that a stop reaches it and nothing is left open.
NothingIsLeftOpen ==
    run = "running" =>
        /\ acceptorOpen => accept # "none"
        /\ acceptorOpen <=> signals # "none"
        /\ \A c \in Client : isOpen[c] =>
              c \in connections /\ op[c] # "none" /\ outcome[c] # "aborted"
        /\ \A c \in Client : Waits(c, "read") \/ Waits(c, "write") => isOpen[c]
        /\ connections # {} => acceptorOpen

\* The inductive invariant of NothingIsLeftOpen
AcceptedKnown == accept = "ok" => socket \in Client
IInv == TypeOK /\ AcceptedKnown /\ NothingIsLeftOpen

\* A client that sends a request the parser recognises, or a malformed one,
\* and stays is answered, unless the server ends.
RequestsAnswered ==
    \A c \in Client :
        (c \in connections /\ (recognised(c) \/ ~request[c].wellFormed))
            ~> (client[c] \in {"answered", "left"} \/ signals # "waiting"
                   \/ run # "running")

\* server.cpp:949-951, "Once all operations have finished the io_service::run()
\* call will exit": it does, whatever the clients do.
StopTerminates == signals = "ok" ~> run # "running"
=============================================================================
