-------------------------- MODULE HttpServer_proofs --------------------------
(***************************************************************************)
(* What the handlers and the parser of server.cpp keep, for any number of  *)
(* clients, whatever they send and in whatever chunks it comes.            *)
(***************************************************************************)
EXTENDS HttpServer, Induction, FiniteSetTheorems

\* The server starts with an open acceptor that waits.
LEMMA InitIInv == Init => IInv
BY HttpServerAssumption
   DEF Init, IInv, TypeOK, Outcome, AcceptedKnown, NothingIsLeftOpen, Waits

\* What clients and the kernel do completes operations of open sockets only.
LEMMA OutsideStep ==
    ASSUME IInv, run = "running",
           \/ \E c \in Client : AcceptClient(c) \/ Outside(c)
           \/ FailAccept \/ RaiseSignal
    PROVE  IInv'
<1> USE DEF IInv, TypeOK, Outcome, AcceptedKnown, NothingIsLeftOpen, Waits,
            socketVars, serverVars, dataVars, clientVars
<1>1. ASSUME NEW c \in Client, AcceptClient(c) PROVE IInv'
    BY <1>1 DEF AcceptClient
<1>2. ASSUME NEW c \in Client, ReceiveChunk(c) PROVE IInv'
    BY <1>2 DEF ReceiveChunk
<1>3. ASSUME NEW c \in Client, SendReply(c) PROVE IInv'
    BY <1>3 DEF SendReply
<1>4. ASSUME NEW c \in Client, Leave(c) PROVE IInv'
    BY <1>4 DEF Leave
<1>5. ASSUME NEW c \in Client, NoticeLoss(c) PROVE IInv'
    BY <1>5 DEF NoticeLoss
<1>6. CASE FailAccept
    BY <1>6 DEF FailAccept
<1>7. CASE RaiseSignal
    BY <1>7 DEF RaiseSignal
<1> QED
    BY <1>1, <1>2, <1>3, <1>4, <1>5, <1>6, <1>7 DEF Outside

\* A connection's handler starts its next operation, which fails at once if
\* the socket was closed in between, or closes the socket.
LEMMA HandleStep ==
    ASSUME IInv, run = "running", NEW c \in Client, Handle(c)
    PROVE  IInv'
<1> USE DEF IInv, TypeOK, Outcome, AcceptedKnown, NothingIsLeftOpen, Waits,
            socketVars, serverVars, dataVars, clientVars
<1>1. ASSUME NEW n, HandleSymbols(c, n) PROVE IInv'
    <2>1. UNCHANGED <<client, acceptorOpen, accept, socket, signals,
                      connections, isOpen>>
        BY <1>1 DEF HandleSymbols
    <2>2. CASE run' = "thrown" /\ UNCHANGED <<reply, op, outcome>>
        BY <2>1, <2>2
    <2>3. ASSUME NEW status \in {"ok", "bad_request"}, DoWrite(c, status),
                 UNCHANGED run
          PROVE  IInv'
        BY <2>1, <2>3 DEF DoWrite, Started
    <2>4. CASE DoRead(c) /\ UNCHANGED <<reply, run>>
        BY <2>1, <2>4 DEF DoRead, Started
    <2> QED
        BY <1>1, <2>2, <2>3, <2>4 DEF HandleSymbols
<1>2. CASE HandleReadError(c)
    BY <1>2 DEF HandleReadError, Stop
<1>3. CASE HandleWritten(c)
    BY <1>3 DEF HandleWritten, Stop
<1>4. CASE HandleAborted(c)
    BY <1>4 DEF HandleAborted
<1> QED
    BY <1>1, <1>2, <1>3, <1>4 DEF Handle, HandleChunk

\* The handlers of the acceptor and of the signal keep the two in step, and
\* closing everything closes every socket that is open.
LEMMA ServerStep ==
    ASSUME IInv, run = "running", HandleAccept \/ HandleSignal \/ Return
    PROVE  IInv'
<1> USE DEF IInv, TypeOK, Outcome, AcceptedKnown, NothingIsLeftOpen, Waits,
            socketVars, serverVars, dataVars, clientVars
<1>1. CASE HandleAccept
    <2>1. UNCHANGED <<client, acceptorOpen, socket, signals, reply, run>>
        BY <1>1 DEF HandleAccept
    <2>2. CASE GoesOn /\ Succeeded
        <3>1. StartConnection(socket) /\ accept' = "waiting" /\ socket \in Client
            BY <1>1, <2>2 DEF HandleAccept, GoesOn, Succeeded, Started
        <3> QED
            BY <2>1, <2>2, <3>1 DEF StartConnection, GoesOn
    <2>3. CASE GoesOn /\ ~Succeeded
        BY <1>1, <2>1, <2>3 DEF HandleAccept, GoesOn, Succeeded, Started
    <2>4. CASE ~GoesOn
        BY <1>1, <2>1, <2>4 DEF HandleAccept, GoesOn
    <2> QED
        BY <2>2, <2>3, <2>4
<1>2. CASE HandleSignal
    <2>1. /\ acceptorOpen' = FALSE /\ signals' = "none" /\ connections' = {}
          /\ accept' = Cancelled(accept)
          /\ isOpen' = [c \in Client |-> FALSE]
          /\ outcome' = [c \in Client |-> IF c \in connections
                                          THEN Cancelled(outcome[c])
                                          ELSE outcome[c]]
          /\ UNCHANGED <<client, socket, op, reply, run>>
        BY <1>2 DEF HandleSignal
    <2>2. TypeOK' /\ AcceptedKnown'
        BY <2>1 DEF Cancelled
    <2>3. \A c \in Client : ~(Waits(c, "read") \/ Waits(c, "write"))'
        BY <2>1 DEF Cancelled
    <2> QED
        BY <2>1, <2>2, <2>3
<1>3. CASE Return
    BY <1>3 DEF Return
<1> QED
    BY <1>1, <1>2, <1>3

\* No step of the server leaves the invariant.
LEMMA Inductive == IInv /\ [Next]_vars => IInv'
<1> SUFFICES ASSUME IInv, [Next]_vars PROVE IInv'
    OBVIOUS
<1>1. CASE Next
    BY <1>1, OutsideStep, HandleStep, ServerStep DEF Next
<1>2. CASE UNCHANGED vars
    BY <1>2 DEF vars, clientVars, serverVars, socketVars, dataVars, IInv, TypeOK,
                AcceptedKnown, NothingIsLeftOpen, Waits
<1> QED
    BY <1>1, <1>2

\* The acceptor, the sockets and their operations keep their types.
THEOREM TypeCorrect == Spec => []TypeOK
<1>1. Spec => []IInv
    BY InitIInv, Inductive, PTL DEF Spec
<1>2. IInv => TypeOK
    BY DEF IInv
<1> QED
    BY <1>1, <1>2, PTL

\* For any clients and requests, in any order of the handlers: a socket is
\* open only while it is in connections_ and an operation on it is under way,
\* and after the signal there is none.
THEOREM NothingLeftOpen == Spec => []NothingIsLeftOpen
<1>1. Spec => []IInv
    BY InitIInv, Inductive, PTL DEF Spec
<1>2. IInv => NothingIsLeftOpen
    BY DEF IInv
<1> QED
    BY <1>1, <1>2, PTL

-----------------------------------------------------------------------------
(* the parser *)

\* What a symbol adds to the depth.
Weight(s) == IF s = Opening THEN 1 ELSE IF s = Closing THEN -1 ELSE 0

\* Every arc leads to a state, and only words to the method.
LEMMA ArcsLead ==
    \A a \in Arcs : a[1] \in State /\ a[3] \in State /\ (a[3] = "method" => a[2] = Word)
BY DEF Arcs, State

\* Every symbol that the parser takes leaves it in one of its states.
LEMMA ParserType ==
    ASSUME NEW p \in Parser, NEW s \in Symbol
    PROVE  ParseNext[<<p, s>>] \in Parser
<1>1. ParseNext[<<p, s>>] = IF p.result = "indeterminate" THEN Consume(p, s) ELSE p
  BY DEF ParseNext
<1>2. /\ p.state \in State /\ p.braceStack \in Int /\ p.method \in Word \cup {""}
      /\ p.uri \in Symbol \cup {""} /\ p.hasHeaders \in BOOLEAN /\ p.body \in Seq(Symbol)
      /\ p.result \in {"indeterminate", "good", "bad"}
      /\ p = [state |-> p.state, braceStack |-> p.braceStack, method |-> p.method,
              uri |-> p.uri, hasHeaders |-> p.hasHeaders, body |-> p.body,
              result |-> p.result]
  <2> HIDE DEF State, Symbol, Word
  <2> QED BY DEF Parser
<1>3. ConsumeBody(p, s) \in Parser
  <2> DEFINE stack == p.braceStack + Weight(s)
             body == Append(p.body, s)
             r == IF stack = 0 THEN "good" ELSE "indeterminate"
  <2> HIDE DEF State, Symbol, Word
  <2>1. p.body \in Seq(Symbol) /\ p.braceStack \in Int
    BY <1>2
  <2>2. body \in Seq(Symbol) /\ r \in {"indeterminate", "good", "bad"}
    <3> HIDE DEF Parser
    <3> QED BY <2>1
  <2>3. stack \in Int
    <3> HIDE DEF Parser
    <3>1. Weight(s) \in Int
      BY DEF Weight
    <3> QED BY <2>1, <3>1
  <2>4. ConsumeBody(p, s) = [p EXCEPT !.braceStack = stack, !.body = body, !.result = r]
    BY DEF ConsumeBody, Weight
  <2> HIDE DEF stack, body, r
  <2> QED BY <1>2, <2>2, <2>3, <2>4 DEF Parser
<1>4. ConsumeHead(p, s) \in Parser
  <2>1. CASE NextStates(p, s) = {}
    <3> HIDE DEF State, Symbol, Word
    <3> QED BY <1>2, <2>1 DEF ConsumeHead, Parser
  <2>2. CASE NextStates(p, s) # {}
    <3> DEFINE to == CHOOSE t \in NextStates(p, s) : TRUE
    <3>1. to \in NextStates(p, s)
      BY <2>2
    <3>2. to \in State /\ (to = "method" => s \in Word)
      <4>1. to \in Follow[p.state][s]
        BY <3>1 DEF NextStates
      <4>2. to \in {arc[3] : arc \in {a \in Arcs : a[1] = p.state /\ s \in a[2]}}
        <5> HIDE DEF to, Arcs, State, Symbol
        <5> QED BY <1>2, <4>1 DEF Follow
      <4>3. PICK a \in Arcs : s \in a[2] /\ to = a[3]
        <5> HIDE DEF to, Arcs, State, Symbol
        <5> QED BY <4>2
      <4> HIDE DEF to
      <4> QED BY <4>3, ArcsLead
    <3>3. ConsumeHead(p, s) =
            [p EXCEPT
               !.state = to,
               !.method = IF to = "method" THEN Append1(p.method, s) ELSE p.method,
               !.uri = IF to = "uri" /\ s # "SP" THEN Append1(p.uri, s) ELSE p.uri,
               !.hasHeaders = p.hasHeaders \/ to = "header_name",
               !.result = IF to = "expecting_body" /\ p.method = "GET"
                          THEN "good" ELSE "indeterminate"]
      BY <2>2 DEF ConsumeHead
    <3> HIDE DEF to
    <3>4. "text" \in Word /\ "text" \in Symbol
      BY DEF Word, Symbol
    <3>5. /\ to = "method" => Append1(p.method, s) \in Word
          /\ Append1(p.uri, s) \in Symbol
      BY <3>2, <3>4 DEF Append1
    <3> DEFINE m == IF to = "method" THEN Append1(p.method, s) ELSE p.method
               u == IF to = "uri" /\ s # "SP" THEN Append1(p.uri, s) ELSE p.uri
               h == p.hasHeaders \/ to = "header_name"
               r == IF to = "expecting_body" /\ p.method = "GET"
                    THEN "good" ELSE "indeterminate"
    <3>6. /\ m \in Word \cup {""} /\ u \in Symbol \cup {""} /\ h \in BOOLEAN
          /\ r \in {"indeterminate", "good", "bad"}
      BY <1>2, <3>5
    <3>7. ConsumeHead(p, s) = [p EXCEPT !.state = to, !.method = m, !.uri = u,
                                        !.hasHeaders = h, !.result = r]
      BY <3>3
    <3> HIDE DEF m, u, h, r, State, Symbol, Word
    <3> QED BY <1>2, <3>2, <3>6, <3>7 DEF Parser
  <2> QED BY <2>1, <2>2
<1> QED BY <1>1, <1>3, <1>4 DEF Consume

\* So is the parser of a new connection.
LEMMA FreshType == Fresh \in Parser
<1>1. "method_start" \in State
  BY DEF State, Arcs
<1>2. <<>> \in Seq(Symbol)
  OBVIOUS
<1> HIDE DEF State, Symbol, Word
<1> QED BY <1>1, <1>2 DEF Fresh, Parser

\* What the parser has come to after each of n symbols of an input.
ParsedSoFar(g, n, p, input) ==
    /\ n \in Nat
    /\ p \in Parser
    /\ input \in [1 .. n -> Symbol]
    /\ g \in [0 .. n -> Parser]
    /\ g[0] = p
    /\ \A k \in 1 .. n : g[k] = ParseNext[<<g[k - 1], input[k]>>]

\* The loop of parse goes from the first symbol to the last.
LEMMA ParseRuns ==
    ASSUME NEW p \in Parser, NEW n \in Nat, NEW input \in [1 .. n -> Symbol]
    PROVE  \E g : ParsedSoFar(g, n, p, input) /\ Parse(p, input) = g[n]
<1> HIDE DEF Parser, Symbol, ParseNext
<1>1. \A k \in 1 .. n : input[k] \in Symbol
  OBVIOUS
<1> DEFINE step == [k \in 1 .. n |-> [q \in Parser |-> ParseNext[<<q, input[k]>>]]]
           IsFold(g) == g = [s \in SUBSET (1 .. n) |-> IF s = {} THEN p
                    ELSE ParseNext[<<g[s \ {Max(s)}], input[Max(s)]>>]]
           it == CHOOSE g : IsFold(g)
<1>2. PICK f \in [SUBSET (1 .. n) -> Parser] : Folding(f, n, p, step)
  <2>1. step \in [1 .. n -> [Parser -> Parser]]
    BY <1>1, ParserType
  <2> HIDE DEF step
  <2> QED BY <2>1, FoldExists
<1>3. ASSUME NEW s \in SUBSET (1 .. n), s # {}
      PROVE  /\ step[Max(s)][f[s \ {Max(s)}]]
                  = ParseNext[<<f[s \ {Max(s)}], input[Max(s)]>>]
  <2>1. Max(s) \in 1 .. n /\ f[s \ {Max(s)}] \in Parser
    BY <1>3, MaxIsIn
  <2> QED BY <2>1
<1>4. IsFold(it)
  <2>1. IsFold(f)
    <3> HIDE DEF step
    <3> QED BY <1>2, <1>3 DEF Folding
  <2> HIDE DEF IsFold
  <2> QED BY <2>1
<1>5. Parse(p, input) = it[1 .. n]
  <2>1. DOMAIN input = 1 .. n
    OBVIOUS
  <2> QED BY <2>1 DEF Parse, FoldLeft, MapThenFoldSet
<1>6. it[1 .. 0] = p
  <2>1. 1 .. 0 = {}
    OBVIOUS
  <2> QED BY <1>4, <2>1
<1>7. ASSUME NEW k \in 1 .. n
      PROVE  it[1 .. k] = ParseNext[<<it[1 .. (k - 1)], input[k]>>]
  <2>1. /\ 1 .. k \in SUBSET (1 .. n) /\ 1 .. k # {} /\ Max(1 .. k) = k
        /\ (1 .. k) \ {Max(1 .. k)} = 1 .. (k - 1)
    BY Segments
  <2> QED BY <1>4, <2>1
<1> HIDE DEF it, step, IsFold
<1> DEFINE T == {k \in 0 .. n : it[1 .. k] \in Parser}
<1>8. \A k \in 0 .. n : k \in T
  <2>1. 0 \in T
    BY <1>6
  <2>2. ASSUME NEW k \in 1 .. n, k - 1 \in T PROVE k \in T
    <3>1. it[1 .. (k - 1)] \in Parser /\ input[k] \in Symbol
      BY <1>1, <2>2
    <3>2. it[1 .. k] \in Parser
      BY <1>7, <3>1, ParserType
    <3> QED BY <3>2
  <2> HIDE DEF T
  <2> QED BY <2>1, <2>2, BoundedInduction
<1> DEFINE g == [k \in 0 .. n |-> it[1 .. k]]
<1>9. \A k \in 1 .. n : g[k] = ParseNext[<<g[k - 1], input[k]>>]
  <2>1. \A k \in 1 .. n : k \in 0 .. n /\ k - 1 \in 0 .. n
    OBVIOUS
  <2> QED BY <1>7, <2>1
<1>10. g \in [0 .. n -> Parser] /\ g[0] = p /\ g[n] = it[1 .. n]
  BY <1>6, <1>8
<1> HIDE DEF g
<1> QED BY <1>5, <1>9, <1>10 DEF ParsedSoFar

\* Wherever the input is cut, the parser goes on from where it was.
LEMMA PartsParse ==
    ASSUME NEW g, NEW n, NEW p, NEW input, ParsedSoFar(g, n, p, input),
           NEW t \in 0 .. n, NEW end \in t .. n
    PROVE  Parse(g[t], SubSeq(input, t + 1, end)) = g[end]
<1> DEFINE part == SubSeq(input, t + 1, end)
<1>0. n \in Nat /\ p \in Parser /\ input \in [1 .. n -> Symbol]
  BY DEF ParsedSoFar
<1> USE <1>0
<1> HIDE DEF Parser, Symbol, ParseNext
<1> PICK m \in Nat : end = t + m
  <2>1. end - t \in Nat /\ end = t + (end - t)
    OBVIOUS
  <2> QED BY <2>1
<1>1. /\ part \in [1 .. m -> Symbol]
      /\ \A k \in 1 .. m : part[k] = input[t + k]
  <2>1. end - (t + 1) + 1 = m /\ \A k \in 1 .. m : (t + 1) + k - 1 = t + k
    OBVIOUS
  <2>2. part = [k \in 1 .. m |-> input[t + k]]
    BY <2>1 DEF SubSeq
  <2>3. \A k \in 1 .. m : input[t + k] \in Symbol
    OBVIOUS
  <2> HIDE DEF part
  <2> QED BY <2>2, <2>3
<1> HIDE DEF part
<1>2. m \in Nat /\ g[t] \in Parser /\ t \in Nat
  BY DEF ParsedSoFar
<1>3. PICK h : ParsedSoFar(h, m, g[t], part) /\ Parse(g[t], part) = h[m]
  BY <1>1, <1>2, ParseRuns
<1> DEFINE T == {k \in 0 .. m : h[k] = g[t + k]}
<1>4. 0 \in T
  BY <1>2, <1>3 DEF ParsedSoFar
<1>5. ASSUME NEW k \in 1 .. m, k - 1 \in T PROVE k \in T
  <2>1. /\ h[k] = ParseNext[<<h[k - 1], part[k]>>]
        /\ h[k - 1] = g[t + (k - 1)] /\ part[k] = input[t + k]
    BY <1>1, <1>3, <1>5 DEF ParsedSoFar
  <2>2. t + k \in 1 .. n /\ (t + k) - 1 = t + (k - 1)
    BY <1>2
  <2>3. g[t + k] = ParseNext[<<g[t + (k - 1)], input[t + k]>>]
    BY <2>2 DEF ParsedSoFar
  <2> QED BY <2>1, <2>3
<1>6. \A k \in 0 .. m : k \in T
  <2> HIDE DEF T
  <2> QED BY <1>2, <1>4, <1>5, BoundedInduction
<1>7. m \in 0 .. m
  BY <1>2
<1> QED BY <1>3, <1>6, <1>7 DEF part

\* A verdict once reached is the verdict on the whole input.
LEMMA VerdictStays ==
    ASSUME NEW g, NEW n, NEW p, NEW input, ParsedSoFar(g, n, p, input),
           NEW t \in 0 .. n, g[t].result # "indeterminate"
    PROVE  g[n] = g[t]
<1> DEFINE T == {k \in 0 .. n - t : g[t + k] = g[t]}
<1>0. n \in Nat /\ p \in Parser /\ input \in [1 .. n -> Symbol]
  BY DEF ParsedSoFar
<1> USE <1>0
<1> HIDE DEF Parser, Symbol
<1>1. \A k \in 0 .. n : g[k] \in Parser
  BY DEF ParsedSoFar
<1>2. n - t \in Nat /\ t \in Nat
  OBVIOUS
<1>3. 0 \in T
  BY <1>2
<1>4. ASSUME NEW k \in 1 .. n - t, k - 1 \in T PROVE k \in T
  <2>1. t + k \in 1 .. n /\ (t + k) - 1 = t + (k - 1)
    BY <1>2
  <2>2. g[t + k] = ParseNext[<<g[t + (k - 1)], input[t + k]>>]
    BY <2>1 DEF ParsedSoFar
  <2>3. g[t] \in Parser /\ input[t + k] \in Symbol
    BY <1>1, <2>1
  <2>4. ParseNext[<<g[t], input[t + k]>>] = g[t]
    BY <2>3 DEF ParseNext
  <2> QED BY <1>4, <2>2, <2>4
<1>5. \A k \in 0 .. n - t : k \in T
  <2> HIDE DEF T
  <2> QED BY <1>2, <1>3, <1>4, BoundedInduction
<1>6. n - t \in 0 .. n - t /\ t + (n - t) = n
  BY <1>2
<1> QED BY <1>5, <1>6

-----------------------------------------------------------------------------
(* requests, in whatever chunks they come *)

\* What the parser makes of all that a client sends, in one piece.
Whole(c) == Parse(Fresh, request[c].input)

\* A connection's parser is as far as the symbols taken lead it, and what has
\* been handled or answered follows from a verdict on the whole input.
ParsedInv(c) ==
    /\ taken[c] \in 0 .. Len(request[c].input)
    /\ parser[c] = Parse(Fresh, SubSeq(request[c].input, 1, taken[c]))
    /\ handled[c] # None =>
          Whole(c).result = "good" /\ handled[c] = <<Whole(c).uri, Whole(c).body>>
    /\ reply[c] = "bad_request" => Whole(c).result = "bad"
    /\ reply[c] = "ok" => Whole(c).result = "good"

RequestInv ==
    /\ request \in [Client -> RequestType]
    /\ \A c \in Client : request[c] \in Requests[c]
    /\ taken \in [Client -> Nat]
    /\ DOMAIN parser = Client
    /\ DOMAIN handled = Client
    /\ DOMAIN reply = Client
    /\ \A c \in Client : ParsedInv(c)

\* What the parser knows after t symbols, whatever chunks they came in.
LEMMA OneChunk ==
    ASSUME NEW input \in Seq(Symbol), NEW t \in 0 .. Len(input),
           NEW m \in 0 .. Len(input) - t
    PROVE  LET before == Parse(Fresh, SubSeq(input, 1, t))
               after == Parse(before, SubSeq(input, t + 1, t + m))
           IN /\ after = Parse(Fresh, SubSeq(input, 1, t + m))
              /\ after \in Parser
              /\ after.result # "indeterminate" => after = Parse(Fresh, input)
<1> PICK n \in Nat : n = Len(input)
  OBVIOUS
<1> HIDE DEF Parser, Symbol
<1>1. input \in [1 .. n -> Symbol]
  OBVIOUS
<1>2. PICK g : ParsedSoFar(g, n, Fresh, input) /\ Parse(Fresh, input) = g[n]
  BY <1>1, FreshType, ParseRuns
<1>3. g[0] = Fresh /\ \A k \in 0 .. n : g[k] \in Parser
  BY <1>2 DEF ParsedSoFar
<1>4. ASSUME NEW k \in 0 .. n
      PROVE  Parse(Fresh, SubSeq(input, 1, k)) = g[k]
  <2>1. 0 \in 0 .. n /\ k \in 0 .. n /\ 0 + 1 = 1
    OBVIOUS
  <2>2. Parse(g[0], SubSeq(input, 0 + 1, k)) = g[k]
    BY <1>2, <2>1, PartsParse
  <2> QED BY <1>3, <2>1, <2>2
<1>5. t \in 0 .. n /\ t + m \in 0 .. n /\ t + m \in t .. n
  OBVIOUS
<1>6. Parse(g[t], SubSeq(input, t + 1, t + m)) = g[t + m]
  BY <1>2, <1>5, PartsParse
<1>7. g[t + m].result # "indeterminate" => g[n] = g[t + m]
  BY <1>2, <1>5, VerdictStays
<1> QED BY <1>2, <1>3, <1>4, <1>5, <1>6, <1>7

\* Nothing has been read yet.
LEMMA InitRequestInv == Init => RequestInv
<1> SUFFICES ASSUME Init PROVE RequestInv
  OBVIOUS
<1>1. /\ request \in [Client -> RequestType]
      /\ \A c \in Client : request[c] \in Requests[c]
  BY HttpServerAssumption DEF Init
<1>2. /\ taken \in [Client -> Nat] /\ DOMAIN parser = Client
      /\ DOMAIN handled = Client /\ DOMAIN reply = Client
  BY DEF Init
<1>3. ASSUME NEW c \in Client PROVE ParsedInv(c)
  <2>1. request[c].input \in Seq(Symbol)
    BY <1>1 DEF RequestType
  <2> PICK n \in Nat : n = Len(request[c].input)
    BY <2>1
  <2>2. SubSeq(request[c].input, 1, 0) = <<>>
    BY <2>1
  <2>3. Parse(Fresh, <<>>) = Fresh
    <3>1. PICK g : ParsedSoFar(g, 0, Fresh, <<>>) /\ Parse(Fresh, <<>>) = g[0]
      <4>1. <<>> \in [1 .. 0 -> Symbol]
        OBVIOUS
      <4> QED BY <4>1, FreshType, ParseRuns
    <3> QED BY <3>1 DEF ParsedSoFar
  <2>4. taken[c] = 0 /\ parser[c] = Fresh /\ handled[c] = None /\ reply[c] = "none"
    BY DEF Init
  <2>5. taken[c] \in 0 .. Len(request[c].input)
    BY <2>4
  <2>6. parser[c] = Parse(Fresh, SubSeq(request[c].input, 1, taken[c]))
    BY <2>2, <2>3, <2>4
  <2>7. reply[c] # "bad_request" /\ reply[c] # "ok"
    BY <2>4
  <2> QED BY <2>4, <2>5, <2>6, <2>7 DEF ParsedInv
<1> QED BY <1>1, <1>2, <1>3 DEF RequestInv

\* A handler that has read some symbols parses on, and hands on or answers only
\* what the whole input says.
LEMMA SymbolsStep ==
    ASSUME RequestInv, NEW c \in Client,
           NEW m \in 0 .. Len(request[c].input) - taken[c], HandleSymbols(c, m)
    PROVE  RequestInv'
<1> DEFINE input == request[c].input
           p == Parsed(c, m)
<1>1. /\ request' = request
      /\ parser' = [parser EXCEPT ![c] = p]
      /\ taken' = [taken EXCEPT ![c] = @ + m]
      /\ \/ /\ p.result = "good"
            /\ handled' = [handled EXCEPT ![c] = <<p.uri, p.body>>]
            /\ reply' = reply \/ reply' = [reply EXCEPT ![c] = "ok"]
         \/ /\ p.result = "bad" /\ handled' = handled
            /\ reply' = [reply EXCEPT ![c] = "bad_request"]
         \/ handled' = handled /\ reply' = reply
  <2> HIDE DEF p
  <2> QED BY DEF HandleSymbols, DoWrite, clientVars, p
<1>2. /\ request \in [Client -> RequestType] /\ taken \in [Client -> Nat]
      /\ DOMAIN parser = Client /\ DOMAIN handled = Client /\ DOMAIN reply = Client
      /\ \A d \in Client : request[d] \in Requests[d]
      /\ \A d \in Client : ParsedInv(d)
  BY DEF RequestInv
<1>3. input \in Seq(Symbol) /\ taken[c] \in 0 .. Len(input)
  BY <1>2 DEF RequestType, ParsedInv
<1>4. /\ p = Parse(Fresh, SubSeq(input, 1, taken[c] + m))
      /\ p.result # "indeterminate" => p = Whole(c)
  <2>1. p = Parse(Parse(Fresh, SubSeq(input, 1, taken[c])),
                  SubSeq(input, taken[c] + 1, taken[c] + m))
    BY <1>2 DEF Parsed, ParsedInv
  <2> HIDE DEF p, input
  <2>2. /\ p = Parse(Fresh, SubSeq(input, 1, taken[c] + m))
        /\ p.result # "indeterminate" => p = Parse(Fresh, input)
    BY <1>3, <2>1, OneChunk DEF input
  <2> QED BY <2>2 DEF Whole, input
<1>5. taken[c] + m \in 0 .. Len(input)
  <2> PICK n \in Nat : n = Len(input)
    BY <1>3
  <2> QED BY <1>3
<1> HIDE DEF p, input
<1>6. ParsedInv(c)'
  <2>1. /\ taken'[c] = taken[c] + m /\ parser'[c] = p /\ request'[c].input = input
        /\ Whole(c)' = Whole(c)
    BY <1>1, <1>2 DEF input, Whole
  <2>2. handled'[c] # None => /\ Whole(c).result = "good"
                              /\ handled'[c] = <<Whole(c).uri, Whole(c).body>>
    BY <1>1, <1>2, <1>4 DEF ParsedInv
  <2>3. /\ reply'[c] = "bad_request" => Whole(c).result = "bad"
        /\ reply'[c] = "ok" => Whole(c).result = "good"
    BY <1>1, <1>2, <1>4 DEF ParsedInv
  <2> QED BY <1>4, <1>5, <2>1, <2>2, <2>3 DEF ParsedInv
<1>7. ASSUME NEW d \in Client, d # c PROVE ParsedInv(d)'
  <2>1. /\ taken'[d] = taken[d] /\ parser'[d] = parser[d] /\ request'[d] = request[d]
        /\ handled'[d] = handled[d] /\ reply'[d] = reply[d]
        /\ Whole(d)' = Whole(d)
    BY <1>1, <1>2, <1>7 DEF Whole
  <2> QED BY <1>2, <2>1 DEF ParsedInv
<1>8. taken' \in [Client -> Nat]
  <2>1. taken[c] + m \in Nat
    BY <1>5
  <2> QED BY <1>1, <1>2, <2>1
<1> QED BY <1>1, <1>2, <1>6, <1>7, <1>8 DEF RequestInv

\* No other step looks at the request.
LEMMA RequestStep == RequestInv /\ [Next]_vars => RequestInv'
<1> SUFFICES ASSUME RequestInv, [Next]_vars PROVE RequestInv'
  OBVIOUS
<1>1. CASE UNCHANGED <<request, dataVars>>
  <2>1. \A c \in Client : ParsedInv(c)' <=> ParsedInv(c)
    BY <1>1 DEF ParsedInv, Whole, dataVars
  <2> QED BY <1>1, <2>1 DEF RequestInv, dataVars
<1>2. ASSUME NEW c \in Client, HandleChunk(c) PROVE RequestInv'
  <2>1. PICK m \in {k \in ChunkSizes[c] : k < left(c)} \cup {left(c)} :
           HandleSymbols(c, m)
    BY <1>2 DEF HandleChunk
  <2>2. m \in 0 .. Len(request[c].input) - taken[c]
    <3>1. request[c].input \in Seq(Symbol) /\ taken[c] \in 0 .. Len(request[c].input)
      BY DEF RequestInv, RequestType, ParsedInv
    <3> PICK n \in Nat : n = Len(request[c].input)
      BY <3>1
    <3>2. left(c) \in 0 .. n - taken[c] /\ left(c) = n - taken[c]
      BY <3>1 DEF left
    <3>3. \A k \in ChunkSizes[c] : k \in Nat
      BY HttpServerAssumption
    <3> QED BY <3>1, <3>2, <3>3
  <2> QED BY <2>1, <2>2, SymbolsStep
<1>3. CASE Next
  <2>1. \/ \E c \in Client : HandleChunk(c)
        \/ UNCHANGED <<request, dataVars>>
    BY <1>3 DEF Next, AcceptClient, Outside, ReceiveChunk, SendReply, Leave, NoticeLoss,
                Handle, HandleReadError, HandleWritten, HandleAborted, FailAccept,
                RaiseSignal, HandleAccept, HandleSignal, Return, clientVars, dataVars
  <2> QED BY <1>1, <1>2, <2>1
<1> QED BY <1>1, <1>3 DEF vars, clientVars

\* However a client's symbols are cut into reads, and whatever other handlers
\* run in between, a connection's parser is where it would be had they come at
\* once, and its answer is the verdict on all of them (server.cpp, do_read).
THEOREM ChunksDoNotMatter == Spec => []RequestInv
BY InitRequestInv, RequestStep, PTL DEF Spec

\* The parser makes of a request that comes in one piece what the client means.
Understood(r) ==
    LET p == Parse(Fresh, r.input)
    IN /\ /\ p.result = "good"
          /\ Balanced(r.body)
          /\ r.body = <<>> => "GET" = r.input[1]
          => p.uri = r.uri /\ p.body = r.body
       /\ p.result = "bad" => ~r.wellFormed
       /\ p.result = "good" => r.wellFormed

\* So requests that are understood when they come in one piece are understood
\* in any pieces: the dispatcher is asked all of what the client has sent, and
\* only malformed requests are answered with an error.
THEOREM WholeRequests ==
    ASSUME \A c \in Client : \A r \in Requests[c] : Understood(r)
    PROVE  Spec => []WholeRequest
<1>1. RequestInv => WholeRequest
  BY DEF RequestInv, ParsedInv, WholeRequest, Understood, Whole, recognised
<1> QED BY <1>1, ChunksDoNotMatter, PTL

-----------------------------------------------------------------------------
(* the end of a body *)

\* Braces open or close.
LEMMA BracesDiffer == Opening # Closing
BY Zenon DEF Opening, Closing

\* How many of the first k symbols are s.
Occurs(s, body, k) == Cardinality({i \in 1 .. k : body[i] = s})

\* They can be counted symbol by symbol.
LEMMA CountOne ==
    ASSUME NEW n \in Nat, NEW body \in [1 .. n -> Symbol], NEW k \in 1 .. n, NEW s
    PROVE  /\ Occurs(s, body, 0) = 0
           /\ Occurs(s, body, k - 1) \in Nat
           /\ body[k] = s => Occurs(s, body, k) = Occurs(s, body, k - 1) + 1
           /\ body[k] # s => Occurs(s, body, k) = Occurs(s, body, k - 1)
<1> DEFINE places(j) == {i \in 1 .. j : body[i] = s}
<1>1. places(0) = {}
  OBVIOUS
<1>2. IsFiniteSet(places(k - 1)) /\ k \notin places(k - 1)
  <2>1. IsFiniteSet(1 .. (k - 1))
    BY FS_Interval
  <2>2. places(k - 1) \subseteq 1 .. (k - 1)
    OBVIOUS
  <2>3. k \notin places(k - 1)
    OBVIOUS
  <2> HIDE DEF places
  <2> QED BY <2>1, <2>2, <2>3, FS_Subset
<1>3. places(k) = IF body[k] = s THEN places(k - 1) \cup {k} ELSE places(k - 1)
  <2>1. 1 .. k = (1 .. (k - 1)) \cup {k}
    OBVIOUS
  <2> QED BY <2>1
<1> HIDE DEF places
<1>4. Cardinality(places(0)) = 0 /\ Cardinality(places(k - 1)) \in Nat
  BY <1>1, <1>2, FS_EmptySet, FS_CardinalityType
<1>5. CASE body[k] = s
  <2>1. Cardinality(places(k)) = Cardinality(places(k - 1)) + 1
    BY <1>2, <1>3, <1>5, FS_AddElement
  <2> QED BY <1>4, <1>5, <2>1 DEF Occurs, places
<1>6. CASE body[k] # s
  <2>1. places(k) = places(k - 1)
    BY <1>3, <1>6
  <2> QED BY <1>4, <1>6, <2>1 DEF Occurs, places
<1> QED BY <1>5, <1>6

\* The depth changes by one at a brace.
LEMMA DepthOne ==
    ASSUME NEW n \in Nat, NEW body \in [1 .. n -> Symbol], NEW k \in 1 .. n
    PROVE  /\ depth(SubSeq(body, 1, 0)) = 0
           /\ depth(SubSeq(body, 1, k - 1)) \in Int
           /\ depth(SubSeq(body, 1, k)) =
                depth(SubSeq(body, 1, k - 1)) + Weight(body[k])
<1>1. ASSUME NEW j \in 0 .. n
      PROVE  depth(SubSeq(body, 1, j)) = Occurs(Opening, body, j) - Occurs(Closing, body, j)
  <2>1. SubSeq(body, 1, j) = [i \in 1 .. j |-> body[i]]
    BY DEF SubSeq
  <2>2. \A s : {i \in DOMAIN SubSeq(body, 1, j) : SubSeq(body, 1, j)[i] = s}
                 = {i \in 1 .. j : body[i] = s}
    BY <2>1
  <2> QED BY <2>2 DEF depth, Occurs
<1>2. /\ Occurs(Opening, body, 0) = 0 /\ Occurs(Opening, body, k - 1) \in Nat
      /\ body[k] = Opening => Occurs(Opening, body, k) = Occurs(Opening, body, k - 1) + 1
      /\ body[k] # Opening => Occurs(Opening, body, k) = Occurs(Opening, body, k - 1)
  BY CountOne
<1>3. /\ Occurs(Closing, body, 0) = 0 /\ Occurs(Closing, body, k - 1) \in Nat
      /\ body[k] = Closing => Occurs(Closing, body, k) = Occurs(Closing, body, k - 1) + 1
      /\ body[k] # Closing => Occurs(Closing, body, k) = Occurs(Closing, body, k - 1)
  BY CountOne
<1>4. 0 \in 0 .. n /\ k \in 0 .. n /\ k - 1 \in 0 .. n
  OBVIOUS
<1>5. /\ depth(SubSeq(body, 1, 0)) = Occurs(Opening, body, 0) - Occurs(Closing, body, 0)
      /\ depth(SubSeq(body, 1, k)) = Occurs(Opening, body, k) - Occurs(Closing, body, k)
      /\ depth(SubSeq(body, 1, k - 1)) = Occurs(Opening, body, k - 1) - Occurs(Closing, body, k - 1)
  BY <1>1, <1>4
<1>6. /\ body[k] = Opening => Weight(body[k]) = 1 /\ body[k] # Closing
      /\ body[k] = Closing => Weight(body[k]) = -1 /\ body[k] # Opening
      /\ body[k] # Opening /\ body[k] # Closing => Weight(body[k]) = 0
  BY BracesDiffer DEF Weight
<1>7. /\ depth(SubSeq(body, 1, 0)) = 0
      /\ depth(SubSeq(body, 1, k - 1)) \in Int
  BY <1>2, <1>3, <1>5
<1>8. Occurs(Opening, body, k) - Occurs(Closing, body, k)
         = (Occurs(Opening, body, k - 1) - Occurs(Closing, body, k - 1))
             + Weight(body[k])
  <2>1. CASE body[k] = Opening
    BY <1>2, <1>3, <1>6, <2>1
  <2>2. CASE body[k] = Closing
    BY <1>2, <1>3, <1>6, <2>2
  <2>3. CASE body[k] # Opening /\ body[k] # Closing
    BY <1>2, <1>3, <1>6, <2>3
  <2> QED BY <2>1, <2>2, <2>3
<1> QED BY <1>5, <1>7, <1>8

\* A body whose braces close with its last character and not before is read
\* to its end and not further, whatever follows it (server.cpp, parse).
THEOREM BodiesAreWhole ==
    ASSUME NEW p \in Parser, p.state = "expecting_body", p.result = "indeterminate",
           p.braceStack = 0, p.body = <<>>,
           NEW body \in Seq(Symbol), body # <<>>, Balanced(body)
    PROVE  LET q == Parse(p, body)
           IN q.result = "good" /\ q.body = body /\ q.uri = p.uri
<1> PICK n \in Nat : n = Len(body)
  OBVIOUS
<1>1. body \in [1 .. n -> Symbol] /\ n \in 1 .. n
  OBVIOUS
<1> DEFINE sofar(k) == SubSeq(body, 1, k)
<1>2. /\ depth(body) = 0 /\ \A k \in 1 .. n - 1 : depth(sofar(k)) > 0
      /\ sofar(n) = body /\ sofar(0) = <<>>
      /\ \A k \in 1 .. n : sofar(k) = Append(sofar(k - 1), body[k])
  <2>1. depth(body) = 0 /\ \A k \in 1 .. n - 1 : depth(sofar(k)) > 0
    BY DEF Balanced
  <2>2. sofar(n) = body /\ sofar(0) = <<>>
    OBVIOUS
  <2>3. ASSUME NEW k \in 1 .. n PROVE sofar(k) = Append(sofar(k - 1), body[k])
    OBVIOUS
  <2> QED BY <2>1, <2>2, <2>3
<1>3. /\ depth(sofar(0)) = 0
      /\ \A k \in 1 .. n :
            depth(sofar(k)) = depth(sofar(k - 1)) + Weight(body[k])
  BY <1>1, DepthOne
<1>4. PICK g : ParsedSoFar(g, n, p, body) /\ Parse(p, body) = g[n]
  BY <1>1, ParseRuns
<1> HIDE DEF sofar, Parser, Symbol
<1> DEFINE verdict(k) == IF depth(sofar(k)) = 0 THEN "good" ELSE "indeterminate"
           after(k) == [p EXCEPT !.braceStack = depth(sofar(k)), !.body = sofar(k),
                                 !.result = verdict(k)]
           T == {k \in 0 .. n : k # 0 => g[k] = after(k)}
<1>5. ASSUME NEW k \in 1 .. n, k - 1 \in T PROVE k \in T
  <2>1. g[k] = ParseNext[<<g[k - 1], body[k]>>] /\ g[k - 1] \in Parser /\ body[k] \in Symbol
    BY <1>1, <1>4 DEF ParsedSoFar
  <2>2. g[k - 1] = [p EXCEPT !.braceStack = depth(sofar(k - 1)), !.body = sofar(k - 1)]
    <3>1. CASE k = 1
      <4>1. g[0] = p /\ k - 1 = 0
        BY <1>4, <3>1 DEF ParsedSoFar
      <4> QED BY <1>2, <1>3, <4>1 DEF Parser
    <3>2. CASE k # 1
      <4>1. g[k - 1] = after(k - 1) /\ k - 1 \in 1 .. n - 1
        BY <1>5, <3>2
      <4>2. verdict(k - 1) = p.result
        BY <1>2, <4>1
      <4> QED BY <4>1, <4>2 DEF Parser
    <3> QED BY <3>1, <3>2
  <2>3. /\ g[k - 1].state = "expecting_body" /\ g[k - 1].result = "indeterminate"
        /\ g[k - 1].braceStack = depth(sofar(k - 1)) /\ g[k - 1].body = sofar(k - 1)
    BY <2>2 DEF Parser
  <2>4. g[k] = ConsumeBody(g[k - 1], body[k])
    BY <2>1, <2>3 DEF ParseNext, Consume
  <2>5. g[k] = [g[k - 1] EXCEPT !.braceStack = depth(sofar(k)), !.body = sofar(k),
                                !.result = verdict(k)]
    <3>1. g[k] = LET stack == g[k - 1].braceStack + Weight(body[k])
                 IN [g[k - 1] EXCEPT !.braceStack = stack,
                        !.body = Append(g[k - 1].body, body[k]),
                        !.result = IF stack = 0 THEN "good" ELSE "indeterminate"]
      BY <2>4 DEF ConsumeBody, Weight
    <3> QED BY <1>2, <1>3, <2>3, <3>1
  <2>6. g[k] = after(k)
    <3>1. p = [state |-> p.state, braceStack |-> p.braceStack, method |-> p.method,
              uri |-> p.uri, hasHeaders |-> p.hasHeaders, body |-> p.body,
              result |-> p.result]
      BY DEF Parser
    <3> HIDE DEF verdict
    <3> QED BY <2>2, <2>5, <3>1
  <2> QED BY <2>6
<1>6. n \in T
  <2>1. 0 \in T
    OBVIOUS
  <2>2. n \in 0 .. n
    OBVIOUS
  <2> HIDE DEF T
  <2> QED BY <1>5, <2>1, <2>2, BoundedInduction
<1>7. g[n] = after(n) /\ verdict(n) = "good"
  BY <1>1, <1>2, <1>6
<1>8. p = [state |-> p.state, braceStack |-> p.braceStack, method |-> p.method,
           uri |-> p.uri, hasHeaders |-> p.hasHeaders, body |-> p.body,
           result |-> p.result]
  BY DEF Parser
<1>9. g[n].result = verdict(n) /\ g[n].body = sofar(n) /\ g[n].uri = p.uri
  <2> HIDE DEF verdict
  <2> QED BY <1>7, <1>8
<1> HIDE DEF verdict, after, T
<1> QED BY <1>2, <1>4, <1>7, <1>9
=============================================================================
