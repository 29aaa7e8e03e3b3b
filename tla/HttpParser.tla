----------------------------- MODULE HttpParser -----------------------------
(***************************************************************************)
(* The request parser of src/src/http.h and the stream it reads from, with *)
(* the token loop of the session and a handler that reads a streamed body  *)
(* chunk by chunk, as the interface asks it to.                            *)
(*                                                                         *)
(* The parser is resumable: a request arrives in any number of reads and   *)
(* http_parse goes on where it stopped.  One step is one iteration of its  *)
(* loop.  A character is its code, and an index counts from 0 as in the    *)
(* source.                                                                 *)
(***************************************************************************)
EXTENDS Integers, Sequences

CONSTANTS
    TransferEncoding, ContentLength, Chunked,   \* what HS_MATCH compares with
    MaxRequestBufSize,  \* HTTP_MAX_REQUEST_BUF_SIZE
    MaxHeaderCount,     \* HTTP_MAX_HEADER_COUNT
    MaxTokenLength,     \* HTTP_MAX_TOKEN_LENGTH
    Messages            \* what a client sends, with what it means (Message)

Char == 0..127
Text == Seq(Char)

TokenType == {"NONE", "METHOD", "TARGET", "VERSION", "HEADER_KEY", "HEADER_VAL",
              "CHUNK_BODY", "BODY", "BODY_STREAM", "REQ_END", "ERROR"}

\* bytes   the characters sent
\* tokens  the tokens they consist of, each with its text, chunks left out
\* body    the body, when it is streamed
Message == [bytes : Text, tokens : Seq([type : TokenType, text : Text]),
            body : Text]

ASSUME MatchAssumption ==
    /\ {TransferEncoding, ContentLength, Chunked} \subseteq Text \ {<<>>}
    /\ TransferEncoding[1] # ContentLength[1]
ASSUME LimitAssumption ==
    {MaxRequestBufSize, MaxHeaderCount, MaxTokenLength} \subseteq Nat \ {0}
ASSUME MessageAssumption == \A m \in Messages : m \in Message

VARIABLES
    msg,        \* the message the client sends
    sent,       \* how much of it was read
    parser,     \* http_parser_t
    stream,     \* hs_stream_t; buf ends at length
    tokens,     \* http_request_t.tokens, without the chunks already read
    body,       \* the chunks the handler has read
    pc          \* read, call, scan; wait; done, answered, closed

vars == <<msg, sent, parser, stream, tokens, body, pc>>

-----------------------------------------------------------------------------
(* Tables.                                                                 *)

SPC == 32
TAB == 9
LF == 10
CR == 13
COLON == 58
SEMICOLON == 59

DIGIT == 48..57
UPPER == 65..90
HEX == (65..70) \cup (97..102)
ALPHA == (71..90) \cup (103..122)
VCHAR == {34, 40, 41, 47, 91, 92, 93, 123, 125} \cup (60..64)
TCHAR == (33..126) \ (DIGIT \cup HEX \cup ALPHA \cup VCHAR \cup {COLON, SEMICOLON})
Any == Char

\* hs_transitions, without the entries BR: from, characters, to.
WORD == HEX \cup ALPHA \cup TCHAR
GRAPH == 33..126
Moves ==
    {<<"ST", WORD, "MT">>,
     <<"MT", {SPC}, "MS">>, <<"MT", DIGIT \cup WORD, "MT">>,
     <<"MS", DIGIT \cup WORD \cup VCHAR, "TR">>,
     <<"TR", {SPC}, "TS">>, <<"TR", GRAPH, "TR">>,
     <<"TS", DIGIT \cup WORD \cup VCHAR, "VN">>,
     <<"VN", {CR}, "RR">>, <<"VN", DIGIT \cup WORD \cup VCHAR, "VN">>,
     <<"RR", {LF}, "RN">>,
     <<"RN", DIGIT \cup WORD, "HK">>,
     <<"HK", {COLON}, "HS">>, <<"HK", DIGIT \cup WORD, "HK">>,
     <<"HS", {SPC, LF, CR, TAB}, "HS">>, <<"HS", GRAPH, "HV">>,
     <<"HV", {CR}, "HR">>, <<"HV", {SPC, TAB} \cup GRAPH, "HV">>,
     <<"HR", {LF}, "HE">>,
     <<"HE", {CR}, "ER">>, <<"HE", DIGIT \cup WORD, "HK">>,
     <<"ER", {LF}, "HN">>,
     <<"HN", Any, "BD">>, <<"BD", Any, "BD">>,
     <<"CS", {CR}, "CR">>, <<"CS", {SEMICOLON}, "CE">>,
     <<"CS", DIGIT \cup HEX, "CS">>,
     <<"CB", Any, "CB">>,
     <<"CE", {CR}, "CR">>, <<"CE", {TAB} \cup GRAPH, "CE">>,
     <<"CR", {LF}, "CN">>,
     <<"CN", Any, "CB">>,
     <<"CD", {CR}, "C1">>, <<"C1", {LF}, "C2">>,
     <<"C2", DIGIT \cup HEX, "CS">>}

hs_state == {m[1] : m \in Moves} \cup {"BR"}

hs_transitions ==
    [from \in hs_state \ {"BR"} |-> [c \in Char |->
        LET to == {m \in Moves : m[1] = from /\ c \in m[2]} IN
        IF to = {} THEN "BR" ELSE (CHOOSE m \in to : TRUE)[3]]]

\* hs_meta_transitions, one row per meta state.  The columns are the events
\* in the order of hs_meta_type; body events share the first three.
hs_meta_transitions ==
    [WFK |-> <<"WFK", "WFK", "WFK", "ANY", "END", "ERR">>,
     ANY |-> <<"MTE", "MCL", "WFK", "ERR", "END", "ERR">>,
     MTE |-> <<"MTE", "WFK", "MCK", "ERR", "ERR", "ERR">>,
     MCL |-> <<"WFK", "MCL", "CLV", "ERR", "ERR", "ERR">>,
     CLV |-> <<"ERR", "ERR", "ERR", "SML", "ERR", "ERR">>,
     MCK |-> <<"WFK", "ERR", "ERR", "CHK", "ERR", "ERR">>,
     SML |-> <<"SML", "SML", "SML", "SML", "BDY", "BIG">>,
     CHK |-> <<"CHK", "CHK", "CHK", "CHK", "ZER", "ERR">>,
     BIG |-> <<"BIG", "BIG", "BIG", "BIG", "STR", "ERR">>,
     ZER |-> <<"CSZ", "LST", "ERR", "ERR", "ERR", "ERR">>,
     CSZ |-> <<"CSZ", "CBD", "ERR", "ERR", "ERR", "ERR">>,
     CBD |-> <<"CBD", "CBD", "ZER", "ERR", "ERR", "ERR">>,
     LST |-> <<"LST", "END", "END", "ERR", "ERR", "ERR">>,
     STR |-> <<"SEN", "ERR", "ERR", "ERR", "ERR", "ERR">>,
     SEN |-> <<"END", "ERR", "ERR", "ERR", "ERR", "ERR">>,
     BDY |-> <<"END", "ERR", "ERR", "ERR", "ERR", "ERR">>,
     END |-> <<"WFK", "ERR", "ERR", "ERR", "ERR", "ERR">>]

NOT_CONTENT_LEN == 1
NOT_CHUNKED == 1
NON_ZERO == 1
NEXT == 1
NOT_TRANSFER_ENC == 2
END_CHK_SIZE == 2
END_KEY == 3
END_CHUNK == 3
END_VALUE == 4
END_HEADERS == 5
LARGE_BODY == 6

\* hs_token_start_states, without the states that start none.
hs_token_start_states ==
    [MT |-> "METHOD", TR |-> "TARGET", VN |-> "VERSION", HK |-> "HEADER_KEY",
     HV |-> "HEADER_VAL", BD |-> "BODY", CB |-> "CHUNK_BODY"]
-----------------------------------------------------------------------------
(* The stream.                                                             *)

NoToken == [index |-> 0, len |-> 0, type |-> "NONE"]
Length(s) == Len(s.buf)

\* The cursor moves over n characters, which the token grows by.
Advanced(s, n) ==
    [s EXCEPT !.consumed = TRUE, !.index = @ + n,
              !.token.len = IF s.token.type = "NONE" THEN 0 ELSE @ + n]

\* Mutant: a character that a jump went over is consumed again.
hs_stream_consume_Always(s) == Advanced(s, 1)

hs_stream_consume(s) == IF s.consumed THEN s ELSE Advanced(s, 1)

hs_stream_begin_token(s, type) ==
    [s EXCEPT !.token.index = s.index, !.token.type = type]

hs_stream_emit(s) == [s EXCEPT !.token = NoToken]

hs_stream_can_contain(s, size) == MaxRequestBufSize - s.index + 1 >= size

\* Mutant: what is kept moves to the start of the buffer.
hs_stream_shift_ToStart(s) ==
    IF s.token.index = s.anchor THEN s
    ELSE [s EXCEPT
            !.buf = SubSeq(s.buf, s.token.index + 1, s.token.index + s.token.len),
            !.token.index = 0, !.index = s.token.len]

\* The token in progress moves down to the anchor, the start of the body;
\* what lies between is given up.
hs_stream_shift(s) ==
    IF s.token.index = s.anchor THEN s
    ELSE [s EXCEPT
            !.buf = SubSeq(s.buf, 1, s.anchor)
                    \o SubSeq(s.buf, s.token.index + 1,
                              s.token.index + s.token.len),
            !.token.index = s.anchor,
            !.index = s.anchor + s.token.len]

-----------------------------------------------------------------------------
(* The parser.  A result is a parser, a stream and the token emitted.      *)

hs_trigger_meta(p, event) ==
    [p EXCEPT !.meta = hs_meta_transitions[p.meta][event]]

Trigger(r, event) == [r EXCEPT !.p = hs_trigger_meta(r.p, event)]
Emit(r) == [r EXCEPT !.tok = r.s.token, !.s = hs_stream_emit(r.s)]

\* Mutant: the key ends with every space behind it.
KeyEnds_Again(from, to) == to = "HS"

KeyEnds(from, to) == from # to /\ to = "HS"

\* What every transition does before the switch on the new state.
Entering(r, from, to) ==
    LET s1 == IF from = "HN" THEN [r.s EXCEPT !.anchor = r.s.index] ELSE r.s
        s2 == IF to \in DOMAIN hs_token_start_states
              THEN hs_stream_begin_token(s1, hs_token_start_states[to]) ELSE s1
        p1 == [r.p EXCEPT !.match_index = 0,
                          !.header_count = IF to = "HK" THEN @ + 1 ELSE @]
        e  == [r EXCEPT !.s = s2, !.p = p1]
    IN  CASE KeyEnds(from, to) -> Emit(Trigger(e, END_KEY))
          [] ~KeyEnds(from, to) /\ from = to -> [r EXCEPT !.s = s1]
          [] from # to /\ from = "CS" -> Trigger(e, END_CHK_SIZE)
          [] from # to /\ to = "HK" /\ p1.header_count > MaxHeaderCount ->
                 [e EXCEPT !.tok.type = "ERROR"]
          [] OTHER -> e

Low(c) == IF c \in UPPER THEN c + 32 ELSE c

\* HS_MATCH: beyond the end of str the character of the last comparison is
\* compared once more.
MatchChar(str, i, m) == IF i < Len(str) THEN str[i + 1] ELSE m
HS_MATCH(p, c, m, event) == IF Low(c) # m THEN hs_trigger_meta(p, event) ELSE p

HeaderKey(r, c) ==
    LET te == MatchChar(TransferEncoding, r.p.match_index, 0)
        cl == MatchChar(ContentLength, r.p.match_index, te)
        p1 == HS_MATCH(r.p, c, te, NOT_TRANSFER_ENC)
        p2 == HS_MATCH(p1, c, cl, NOT_CONTENT_LEN)
    IN  [r EXCEPT !.p = [p2 EXCEPT !.match_index = @ + 1]]

HeaderVal(r, c) ==
    LET ck == MatchChar(Chunked, r.p.match_index, 0)
        p1 == HS_MATCH(r.p, c, ck, NOT_CHUNKED)
    IN  CASE r.p.meta = "MCK" -> [r EXCEPT !.p = [p1 EXCEPT !.match_index = @ + 1]]
          [] r.p.meta = "CLV" ->
                 [r EXCEPT !.p.content_length = 10 * @ + (c - 48)]
          [] OTHER -> r

\* The body is too large for the buffer.
Large(r) ==
    r.p.meta = "SML" /\ ~hs_stream_can_contain(r.s, r.p.content_length)

\* The end of the headers decides what body follows.
EndOfHeaders(r) ==
    LET p1 == IF Large(r) THEN hs_trigger_meta(r.p, LARGE_BODY) ELSE r.p
        p2 == hs_trigger_meta(p1, END_HEADERS)
        p3 == IF p2.content_length = 0 /\ p2.meta = "BDY"
              THEN [p2 EXCEPT !.meta = "END"] ELSE p2
    IN  [r EXCEPT !.p = p3,
                  !.tok.type = CASE p3.meta = "END" -> "BODY"
                                 [] p1.meta \in {"BIG", "CHK"} -> "BODY_STREAM"
                                 [] OTHER -> @]

HexValue(c) ==
    CASE c \in 65..70 -> c - 55 [] c \in 97..102 -> c - 87 [] OTHER -> c - 48

ChunkSize(r, c) ==
    LET p1 == IF c # 48 THEN hs_trigger_meta(r.p, NON_ZERO) ELSE r.p IN
    [r EXCEPT !.p = IF c \in DIGIT \cup HEX
                    THEN [p1 EXCEPT !.content_length = 16 * @ + HexValue(c)]
                    ELSE p1]

BodyEnds(left, rest) == left <= rest

\* hs_stream_jump to the end of the body or chunk, or hs_stream_jumpall over
\* what there is of it.
BodyData(r, to) ==
    LET s1 == IF r.p.meta = "STR"
              THEN hs_stream_begin_token(r.s, "CHUNK_BODY") ELSE r.s
        left == r.p.content_length - r.p.body_consumed
        rest == Length(s1) - s1.index
    IN  IF BodyEnds(left, rest)
        THEN LET e == Trigger(Emit([r EXCEPT !.s = Advanced(s1, left)]), NEXT) IN
             [e EXCEPT !.p = [e.p EXCEPT !.content_length = 0, !.body_consumed = 0,
                                         !.state = IF to = "CB" THEN "CD" ELSE to]]
        ELSE LET e == [r EXCEPT !.s = Advanced(s1, rest),
                                !.p.body_consumed = @ + rest] IN
             IF r.p.meta = "STR"
             THEN [Emit(e) EXCEPT !.s = hs_stream_shift(@)] ELSE e

hs_transition_action(p, s, c, from, to) ==
    LET r == Entering([p |-> p, s |-> s, tok |-> NoToken], from, to) IN
    CASE to \in {"MS", "TS"} -> Emit(r)
      [] to \in {"RR", "HR"} -> Emit(Trigger(r, END_VALUE))
      [] to = "HK" -> HeaderKey(r, c)
      [] to = "HV" -> HeaderVal(r, c)
      [] to = "HN" -> EndOfHeaders(r)
      [] to = "CS" -> ChunkSize(r, c)
      [] to \in {"CB", "BD"} -> BodyData(r, to)
      [] to = "C2" -> Trigger(r, END_CHUNK)
      [] to = "BR" -> [r EXCEPT !.tok.type = "ERROR"]
      [] OTHER -> r

Start == [state |-> "ST", meta |-> "WFK", content_length |-> 0,
          body_consumed |-> 0, match_index |-> 0, header_count |-> 0]

\* Mutant: the empty chunk is told of once its size is read.
hs_meta_emit_Last(p, s) ==
    LET type == CASE p.meta \in {"SEN", "LST"} -> "CHUNK_BODY"
                  [] p.meta = "END" -> "REQ_END" [] OTHER -> "NONE"
    IN  [p |-> IF type = "NONE" THEN p ELSE hs_trigger_meta(p, NEXT), s |-> s,
         tok |-> [NoToken EXCEPT !.type = type]]

hs_meta_emit(p, s) ==
    CASE p.meta = "SEN" -> [p |-> hs_trigger_meta(p, NEXT), s |-> s,
                            tok |-> [NoToken EXCEPT !.type = "CHUNK_BODY"]]
      [] p.meta = "END" -> [p |-> Start, s |-> s,
                            tok |-> [NoToken EXCEPT !.type = "REQ_END"]]
      [] OTHER -> [p |-> p, s |-> s, tok |-> NoToken]

-----------------------------------------------------------------------------
(* The session: the token loop of hs_read_and_process_request, and a       *)
(* handler that answers a request once its body was read.                  *)

\* The token loop takes the token of r; chunk_cb reads a chunk while it is in
\* the buffer.
Deliver(r) ==
    /\ parser' = r.p /\ stream' = r.s
    /\ tokens' = IF r.tok.type \in {"NONE", "CHUNK_BODY"} THEN tokens
                 ELSE Append(tokens, r.tok)
    /\ body' = IF r.tok.type = "CHUNK_BODY"
               THEN body \o SubSeq(stream.buf, r.tok.index + 1,
                                   r.tok.index + r.tok.len)
               ELSE body
    /\ pc' = CASE r.tok.type = "NONE" -> "wait"
               [] r.tok.type \in {"ERROR", "BODY"} -> "done"
               [] r.tok.type = "CHUNK_BODY" /\ r.tok.len = 0 -> "done"
               [] r.tok.type = "CHUNK_BODY" /\ r.tok.len > 0 -> "read"
               [] r.tok.type = "BODY_STREAM" -> "read"
               [] OTHER -> "call"
    /\ UNCHANGED <<msg, sent>>

\* http_parse is called.
CallParse ==
    /\ pc = "call"
    /\ LET r == hs_meta_emit(parser, stream) IN
       \/ r.tok.type # "NONE" /\ Deliver(r)
       \/ /\ r.tok.type = "NONE"
          /\ pc' = "scan"
          /\ UNCHANGED <<msg, sent, parser, stream, tokens, body>>

\* The stream the action starts from: hs_token_start_states has no entry for
\* BR, and what is read behind its end may begin a token of any type.
Started(s, to) ==
    IF to = "BR"
    THEN {s} \cup {hs_stream_begin_token(s, type) : type \in TokenType} ELSE {s}

\* The state character c leads to.
NextState(p, c) ==
    LET to == hs_transitions[p.state][c] IN
    IF p.meta = "ZER" /\ p.state = "HN" /\ to = "BD" THEN "CS" ELSE to

\* The loop of http_parse, one character.
Scan ==
    /\ pc = "scan" /\ stream.index < Length(stream)
    /\ LET c == stream.buf[stream.index + 1]
           to == NextState(parser, c)
       IN \E s \in Started([stream EXCEPT !.consumed = FALSE], to) :
           LET a == hs_transition_action([parser EXCEPT !.state = to], s,
                                         c, parser.state, to)
               r == [a EXCEPT !.s = hs_stream_consume(@)]
           IN  \/ r.tok.type # "NONE" /\ Deliver(r)
               \/ /\ r.tok.type = "NONE"
                  /\ parser' = r.p /\ stream' = r.s
                  /\ UNCHANGED <<msg, sent, tokens, body, pc>>

\* The buffer is used up: what http_parse does after its loop.
ScanEnds ==
    /\ pc = "scan" /\ stream.index >= Length(stream)
    /\ LET s == IF parser.state = "CB" THEN hs_stream_shift(stream) ELSE stream
           r == hs_meta_emit(parser, [s EXCEPT !.consumed = FALSE])
           long == /\ s.token.type \notin {"CHUNK_BODY", "BODY"}
                   /\ s.token.len > MaxTokenLength
       IN  Deliver(IF long THEN [r EXCEPT !.tok.type = "ERROR"] ELSE r)

\* hs_stream_read_socket when the parser has not used up the buffer.
Unread ==
    /\ pc = "read" /\ stream.index < Length(stream)
    /\ pc' = "call"
    /\ UNCHANGED <<msg, sent, parser, stream, tokens, body>>

\* hs_stream_read_socket gets n more characters, or none yet.
Read(n) ==
    /\ pc \in {"read", "wait"} /\ stream.index >= Length(stream)
    /\ Length(stream) < MaxRequestBufSize
    /\ n <= MaxRequestBufSize - Length(stream)
    /\ n <= Len(msg.bytes) - sent
    /\ pc = "wait" => n > 0
    /\ sent' = sent + n
    /\ stream' = [stream EXCEPT !.buf = @ \o SubSeq(msg.bytes, sent + 1, sent + n)]
    /\ pc' = "call"
    /\ UNCHANGED <<msg, parser, tokens, body>>

\* There is no space to read into: read() returns 0 and the session ends.
ReadFull ==
    /\ \/ pc = "read"
       \/ pc = "wait" /\ sent < Len(msg.bytes)
    /\ stream.index >= Length(stream)
    /\ Length(stream) >= MaxRequestBufSize
    /\ pc' = "closed"
    /\ UNCHANGED <<msg, sent, parser, stream, tokens, body>>

Init ==
    /\ msg \in Messages /\ sent = 0
    /\ parser = Start
    /\ stream = [buf |-> <<>>, index |-> 0, anchor |-> 0, token |-> NoToken,
                 consumed |-> FALSE]
    /\ tokens = <<>> /\ body = <<>> /\ pc = "wait"

Next ==
    \/ CallParse \/ Scan \/ ScanEnds \/ Unread \/ ReadFull
    \/ \E n \in 0..MaxRequestBufSize : Read(n)

Spec == Init /\ [][Next]_vars

-----------------------------------------------------------------------------
(* Properties.                                                             *)

\* Every variable stays in its type; in particular the cursor never leaves
\* the buffer.
TypeOK ==
    /\ sent \in 0..Len(msg.bytes)
    /\ parser.state \in hs_state
    /\ parser.meta \in DOMAIN hs_meta_transitions \cup {"ERR"}
    /\ stream.index \in 0..Length(stream) /\ stream.anchor \in Nat
    /\ stream.token.index \in Nat /\ stream.token.len \in Nat
    /\ Length(stream) <= MaxRequestBufSize
    /\ pc \in {"read", "call", "scan", "wait", "done", "answered", "closed"}

Resolved ==
    [i \in DOMAIN tokens |->
        [type |-> tokens[i].type,
         text |-> SubSeq(stream.buf, tokens[i].index + 1,
                         tokens[i].index + tokens[i].len)]]

PrefixOf(s, t) == Len(s) <= Len(t) /\ s = SubSeq(t, 1, Len(s))

\* However the network cuts a message into reads, the tokens are those of the
\* message, their texts stay in place in the buffer while chunks are moved
\* over each other behind them, and the handler reads the body that was sent.
ReadsTheMessage ==
    /\ \A i \in DOMAIN tokens : tokens[i].index + tokens[i].len <= Length(stream)
    /\ PrefixOf(Resolved, msg.tokens) /\ PrefixOf(body, msg.body)
    /\ pc = "done" => Resolved = msg.tokens /\ body = msg.body

\* The parser waits for input only while there is some to come: the last
\* character of a message completes it.
LastCharCompletes == pc = "wait" => sent < Len(msg.bytes)

\* A parser that goes on is in a state that hs_transitions and
\* hs_meta_transitions have a row for: the row after the last one, where BR
\* and M_ERR would be, is never looked up.
TablesInBounds ==
    pc \notin {"done", "answered"} => parser.state # "BR" /\ parser.meta # "ERR"
=============================================================================
