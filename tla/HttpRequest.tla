---------------------------- MODULE HttpRequest -----------------------------
(***************************************************************************)
(* What the handler of a request sees of it, and what becomes of the       *)
(* connection: the accessors of src/src/http.h, the answer of the REST     *)
(* service (src/src/RestApi.cpp), the choice between keeping and closing,  *)
(* and the next message on a connection that was kept.                     *)
(*                                                                         *)
(* A client sends a message once the one before it was answered.  What the *)
(* server has not read of a message by then is still in the socket and     *)
(* stands in front of the next one.                                        *)
(***************************************************************************)
EXTENDS HttpParser

CONSTANTS
    Connection, Close,  \* the header and the value that close a connection
    Control,            \* the target the REST service knows, "/control"
    MaxRequests         \* bound: messages on a connection

ASSUME TextAssumption == {Connection, Close, Control} \subseteq Text
ASSUME RequestsAssumption == MaxRequests \in Nat

VARIABLES
    keep,       \* HTTP_KEEP_ALIVE of flags, and HTTP_FLG_STREAMED: one bit
    automatic,  \* HTTP_AUTOMATIC of flags
    reply,      \* what was answered: none, control, empty, bad
    left,       \* what was in the socket when the message began (ghost)
    whole,      \* the answer came once the handler was told of the end (ghost)
    turn        \* messages so far

session == <<keep, automatic, reply, left, whole, turn>>

-----------------------------------------------------------------------------
(* The accessors.                                                          *)

\* The text of a token; there is none behind NULL.
TextOf(token) == SubSeq(stream.buf, token.index + 1, token.index + token.len)
NULL == <<>>

Last(type) == tokens # <<>> /\ tokens[Len(tokens)].type = type
Least(S) == CHOOSE i \in S : \A j \in S : i <= j

http_get_token_string(type) ==
    LET found == {i \in DOMAIN tokens : tokens[i].type = type} IN
    IF found = {} THEN NULL ELSE TextOf(tokens[Least(found)])

http_request_method == http_get_token_string("METHOD")
http_request_target == http_get_token_string("TARGET")
http_request_body == http_get_token_string("BODY")

\* Mutant: case counts.
hs_case_insensitive_cmp_Exact(a, b, len) == \A i \in 1..len : a[i] = b[i]

hs_case_insensitive_cmp(a, b, len) == \A i \in 1..len : Low(a[i]) = Low(b[i])

Named(key, name) ==
    Len(name) = Len(key) /\ hs_case_insensitive_cmp(name, key, Len(key))

http_request_header(key) ==
    LET found == {i \in DOMAIN tokens : /\ tokens[i].type = "HEADER_KEY"
                                        /\ Named(key, TextOf(tokens[i]))} IN
    IF found = {} THEN NULL ELSE TextOf(tokens[Least(found) + 1])

\* What hs_assign_iteration_headers gives at place i and, two further on, at
\* each call of http_request_iterate_headers after that; behind the last token
\* it is no header of the request.
Beyond == <<NULL, NULL>>
hs_assign_iteration_headers[i \in Nat] ==
    CASE i \in DOMAIN tokens /\ tokens[i].type = "BODY" -> <<>>
      [] i >= Len(tokens) /\ ~Last("BODY") -> <<Beyond>>
      [] OTHER -> <<<<TextOf(tokens[i]), TextOf(tokens[i + 1])>>>>
                  \o hs_assign_iteration_headers[i + 2]

http_request_iterate_headers ==
    LET keys == {i \in DOMAIN tokens : tokens[i].type = "HEADER_KEY"} IN
    IF keys = {} THEN <<>> ELSE hs_assign_iteration_headers[Least(keys)]

\* http_request_has_flag(request, HTTP_FLG_STREAMED)
http_request_has_flag == keep

request_target_is(target) == http_request_target = target

-----------------------------------------------------------------------------
(* The session.                                                            *)

\* The handler runs: the request is complete, or a part of its body is there.
Handling ==
    \/ pc = "done" /\ ~Last("ERROR")
    \/ pc = "read" /\ Last("BODY_STREAM")

\* Mutant: nothing is flagged.
Parse_Unflagged == Next /\ UNCHANGED session

\* The parser and the token loop, which flags a streamed request.
Parse ==
    /\ Next
    /\ keep' = IF tokens' # tokens /\ tokens'[Len(tokens')].type = "BODY_STREAM"
               THEN TRUE ELSE keep
    /\ UNCHANGED <<automatic, reply, left, whole, turn>>

\* HTTP_KEEP_ALIVE or HTTP_CLOSE; handle_request gives HTTP_AUTOMATIC, which
\* changes nothing.
http_request_connection(directive) ==
    /\ Handling /\ automatic
    /\ automatic' = FALSE /\ keep' = (directive = "keep")
    /\ UNCHANGED <<vars, reply, left, whole, turn>>

\* Mutant: the version is not looked at.
hs_auto_detect_keep_alive_Any ==
    http_request_header(Connection) = NULL \/ ~Named(Close, http_request_header(Connection))

hs_auto_detect_keep_alive ==
    LET version == http_get_token_string("VERSION")
        directive == http_request_header(Connection)
    IN  CASE version = NULL -> keep
          [] version # NULL /\ directive = NULL -> version[Len(version)] = 49
          [] OTHER -> ~Named(Close, directive)

\* hs_error_response, or the handler answers: at the end of the request or,
\* as handle_request does, as soon as it is called.
http_respond ==
    /\ pc = "done" \/ Handling
    /\ reply' = CASE Last("ERROR") -> "bad"
                  [] ~Last("ERROR") /\ request_target_is(Control) -> "control"
                  [] OTHER -> "empty"
    /\ keep' = IF automatic THEN hs_auto_detect_keep_alive ELSE keep
    /\ whole' = (pc = "done" /\ ~Last("ERROR"))
    /\ pc' = "answered"
    /\ UNCHANGED <<msg, sent, parser, stream, tokens, body, automatic, left, turn>>

Rest == SubSeq(msg.bytes, sent + 1, Len(msg.bytes))

\* Mutant: the stream keeps what it holds.
NewStream_Kept == [stream EXCEPT !.index = Length(stream), !.token = NoToken]

NewStream == [buf |-> <<>>, index |-> 0, anchor |-> 0, token |-> NoToken,
              consumed |-> FALSE]

\* The response is written, hs_init_session makes the session anew, and the
\* client's next message arrives behind what is left of this one.
hs_init_session(m) ==
    /\ pc = "answered" /\ keep /\ turn < MaxRequests
    /\ msg' = [m EXCEPT !.bytes = Rest \o @]
    /\ left' = Rest
    /\ sent' = 0 /\ tokens' = <<>> /\ body' = <<>>
    /\ parser' = Start /\ stream' = NewStream /\ pc' = "wait"
    /\ keep' = FALSE /\ automatic' = TRUE /\ reply' = "none"
    /\ whole' = FALSE /\ turn' = turn + 1

InitSession ==
    /\ Init
    /\ keep = FALSE /\ automatic = TRUE /\ reply = "none"
    /\ left = <<>> /\ whole = FALSE /\ turn = 1

NextSession ==
    \/ Parse \/ http_respond
    \/ \E directive \in {"keep", "close"} : http_request_connection(directive)
    \/ \E m \in Messages : hs_init_session(m)

SpecSession == InitSession /\ [][NextSession]_<<vars, session>>

-----------------------------------------------------------------------------
(* Properties.                                                             *)

\* A message that nothing stands in front of.
Clean == left = <<>>

\* Each message of a connection is read as it was sent, the ones behind the
\* first as well, and complete with its last character, unless a part of the
\* one before stood in front of it.
EachIsRead == Clean => ReadsTheMessage /\ LastCharCompletes

\* A message shorter than the buffer is never given up for want of space.
ShortIsRead == pc = "closed" => Len(msg.bytes) >= MaxRequestBufSize

\* A handler that waits for the end of the body leaves at most one character
\* of the message in the socket, the last: http_parse tells of the chunk that
\* ends a body when it meets the CR behind it.
LeftIsLineEnd == Clean /\ whole => Rest \in {<<>>, <<LF>>}

KeysOf(m) == {i \in DOMAIN m.tokens : m.tokens[i].type = "HEADER_KEY"}
PairsOf(m) ==
    LET texts == SelectSeq(m.tokens, LAMBDA t : t.type \in {"HEADER_KEY", "HEADER_VAL"})
    IN  [i \in 1..Len(texts) \div 2 |-> <<texts[2 * i - 1].text, texts[2 * i].text>>]

Lower(text) == [i \in DOMAIN text |-> Low(text[i])]

\* The value of the first header of a message that has a name.
ValueIn(m, key) ==
    LET found == {i \in KeysOf(m) : Lower(m.tokens[i].text) = Lower(key)} IN
    IF found = {} THEN NULL ELSE m.tokens[Least(found) + 1].text

\* The handler finds the headers of the message under their names, whatever
\* the case, and no others.  Iterating over the headers of a request whose
\* body is in the buffer gives them in their order and then ends: it stops at
\* the BODY token, which a streamed request does not have.
HeadersFound ==
    Clean /\ Handling =>
        /\ \A key \in {Connection, ContentLength, TransferEncoding}
                       \cup {msg.tokens[i].text : i \in KeysOf(msg)} :
              http_request_header(key) = ValueIn(msg, key)
        /\ Last("BODY") => http_request_iterate_headers = PairsOf(msg)

\* A handler that has not called http_request_connection is told that the
\* request is streamed exactly when it is: the flag shares its bit with
\* HTTP_KEEP_ALIVE.
StreamedIsFlagged ==
    Handling /\ automatic =>
        (http_request_has_flag <=> \E i \in DOMAIN tokens : tokens[i].type = "BODY_STREAM")

\* A request is answered by its target, and the connection is then closed or
\* kept as its Connection header or else its version asks.
AnswersAsAsked ==
    Clean /\ pc = "answered" /\ reply # "bad" =>
        /\ (reply = "control") = (\E i \in DOMAIN msg.tokens :
                msg.tokens[i] = [type |-> "TARGET", text |-> Control])
        /\ automatic =>
              keep = IF ValueIn(msg, Connection) # NULL
                     THEN Lower(ValueIn(msg, Connection)) # Lower(Close)
                     ELSE \E i \in DOMAIN msg.tokens :
                             /\ msg.tokens[i].type = "VERSION"
                             /\ msg.tokens[i].text[Len(msg.tokens[i].text)] = 49

-----------------------------------------------------------------------------
(* What the documentation says and the code does not do.                   *)

\* "If the body of the request + headers cannot fit in this size the request
\* body will be streamed in": once its headers fit, no request is given up for
\* want of space.
BodyFindsRoom ==
    pc = "closed" => parser.state \notin {"HN", "BD", "CS", "CE", "CR", "CN", "CB", "CD", "C1", "C2"}
=============================================================================
