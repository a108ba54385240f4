---------------------------- MODULE MCHttpServer ----------------------------
(***************************************************************************)
(* Requests as the game sends them, and as it does not.                    *)
(***************************************************************************)
EXTENDS HttpServer, TLC

CONSTANTS c1, c2

MCChunkSizes == (c1 :> {9} @@ c2 :> {})

Eol == <<"CR", "LF">>
RequestHead(method, uri, headers) ==
    <<method, "SP", uri, "SP", "version">> \o Eol \o headers \o Eol
Header == <<"text", ":", "SP", "text">> \o Eol

R(input, uri, body, wellFormed, isJson) ==
    [input |-> input, uri |-> uri, body |-> body,
     wellFormed |-> wellFormed, isJson |-> isJson]

Nested == <<"{", "text", "{", "}", "}">>
BraceInString == <<"{", "text", "}", "text", "}">>

Move == R(RequestHead("POST", "/move", Header) \o Nested, "/move", Nested, TRUE, TRUE)

MCRequests ==
    (c1 :> {Move,
            R(RequestHead("POST", "/start", <<>>) \o BraceInString, "/start",
              BraceInString, TRUE, TRUE),
            R(RequestHead("GET", "/other", Header \o <<"SP", "text">> \o Eol)
                \o <<"text">>, "/other", <<>>, TRUE, FALSE),
            R(RequestHead("POST", "/start", <<"SP", "text">>) \o Nested, "/start",
              Nested, FALSE, TRUE)} @@
     c2 :> {Move})
=============================================================================
