----------------------------- MODULE HttpParser -----------------------------
(***************************************************************************)
(* request_parser of nonode/server.cpp, which reads a request character by *)
(* character.  A symbol of the input stands for the characters of a word:  *)
(* "version" for HTTP/1.0 and the like, "text" for a word that is compared *)
(* with nothing; SP, CR, LF and punctuation stand for themselves.          *)
(***************************************************************************)
EXTENDS Integers, FiniteSets, SequencesExt

Uri == {"/move", "/start", "/other"}
Word == {"GET", "POST", "text"}
Ctl == {"CR", "LF", "ctl"}                     \* is_ctl
Opening == "{"
Closing == "}"
Special == {"SP", ":", Opening, Closing}       \* is_tspecial
Symbol == Uri \cup Word \cup Ctl \cup Special \cup {"version"}

\* Where a symbol leads from a state; from every other symbol the request is
\* bad.  The states for the letters and digits of the version are one.
Arcs ==
    {<<"method_start", Word, "method">>,
     <<"method", Word, "method">>,
     <<"method", {"SP"}, "uri">>,
     <<"uri", Symbol \ ({"SP"} \cup Ctl), "uri">>,
     <<"uri", {"SP"}, "http_version">>,
     <<"http_version", {"version"}, "http_version_minor">>,
     <<"http_version_minor", {"CR"}, "expecting_newline_1">>,
     <<"expecting_newline_1", {"LF"}, "header_line_start">>,
     <<"header_line_start", Word, "header_name">>,
     <<"header_line_start", {"SP"}, "header_lws">>,
     <<"header_line_start", {"CR"}, "expecting_newline_3">>,
     <<"header_name", Word, "header_name">>,
     <<"header_name", {":"}, "space_before_header_value">>,
     <<"space_before_header_value", {"SP"}, "header_value">>,
     <<"header_lws", {"SP"}, "header_lws">>,
     <<"header_lws", Symbol \ ({"SP"} \cup Ctl), "header_value">>,
     <<"header_lws", {"CR"}, "expecting_newline_2">>,
     <<"header_value", Symbol \ Ctl, "header_value">>,
     <<"header_value", {"CR"}, "expecting_newline_2">>,
     <<"expecting_newline_2", {"LF"}, "header_line_start">>,
     <<"expecting_newline_3", {"LF"}, "expecting_body">>}

\* What a connection keeps between two reads: state_ and braceStack_, the
\* request as far as it is looked at, and the last result.
Fresh == [state |-> "method_start", braceStack |-> 0, method |-> "", uri |-> "",
          hasHeaders |-> FALSE, body |-> <<>>, result |-> "indeterminate"]

State == {arc[1] : arc \in Arcs} \cup {"expecting_body"}

Follow ==
    [st \in State |-> [s \in Symbol |->
        {arc[3] : arc \in {a \in Arcs : a[1] = st /\ s \in a[2]}}]]

\* The state that a symbol leads to, if any: the continuation of a header line
\* needs a header.
NextStates(p, s) ==
    IF p.state = "header_line_start" /\ s = "SP" /\ ~p.hasHeaders THEN {}
    ELSE Follow[p.state][s]

Append1(word, s) == IF word = "" THEN s ELSE "text"

ConsumeHead(p, s) ==
    IF NextStates(p, s) = {} THEN [p EXCEPT !.result = "bad"]
    ELSE LET to == CHOOSE t \in NextStates(p, s) : TRUE
         IN [p EXCEPT
               !.state = to,
               !.method = IF to = "method" THEN Append1(@, s) ELSE @,
               !.uri = IF to = "uri" /\ s # "SP" THEN Append1(@, s) ELSE @,
               !.hasHeaders = @ \/ to = "header_name",
               !.result = IF to = "expecting_body" /\ p.method = "GET"
                          THEN "good" ELSE "indeterminate"]

\* The end of the body is found by counting braces.
MutantConsumeBody(p, s) ==
    [p EXCEPT !.body = Append(@, s),
              !.result = IF s = Closing THEN "good" ELSE "indeterminate"]
MutantOnlyOpening(p, s) ==
    LET stack == p.braceStack + (IF s = Opening THEN 1 ELSE 0)
    IN [p EXCEPT !.braceStack = stack,
                 !.body = Append(@, s),
                 !.result = IF stack = 0 THEN "good" ELSE "indeterminate"]
ConsumeBody(p, s) ==
    LET stack == p.braceStack + (IF s = Opening THEN 1 ELSE IF s = Closing THEN -1 ELSE 0)
    IN [p EXCEPT !.braceStack = stack,
                 !.body = Append(@, s),
                 !.result = IF stack = 0 THEN "good" ELSE "indeterminate"]

Consume(p, s) ==
    IF p.state = "expecting_body" THEN ConsumeBody(p, s) ELSE ConsumeHead(p, s)

\* One character of parse: what follows the end of a request is not looked at.
\* (A function, since TLC evaluates the arguments of functions only once.)
Parser ==
    [state : State, braceStack : Int, method : Word \cup {""},
     uri : Symbol \cup {""}, hasHeaders : BOOLEAN, body : Seq(Symbol),
     result : {"indeterminate", "good", "bad"}]

ParseNext ==
    [x \in Parser \X Symbol |->
        IF x[1].result = "indeterminate" THEN Consume(x[1], x[2]) ELSE x[1]]

Parse(p, input) == FoldLeft(LAMBDA q, s : ParseNext[<<q, s>>], p, input)
=============================================================================
