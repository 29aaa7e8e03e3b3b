---------------------------- MODULE MCHttpRequest ---------------------------
(***************************************************************************)
(* HttpRequest for TLC: messages written as requests, with the tokens each  *)
(* of them consists of.  The names that are matched are shortened, one of  *)
(* them longer than the other: HS_MATCH runs past the end of the shorter.  *)
(***************************************************************************)
EXTENDS HttpRequest

MCTransferEncoding == <<116, 120, 101>>     \* "txe"
MCContentLength == <<99, 108>>              \* "cl"
MCChunked == <<99, 107>>                    \* "ck"
MCConnection == <<99, 110>>                 \* "cn"
MCClose == <<99>>                           \* "c"
MCControl == <<47, 99>>                     \* "/c"

Crlf == <<CR, LF>>
Token(type, text) == [type |-> type, text |-> text]

\* A header with what stands between its colon and its value.
Header(key, gap, val) ==
    [bytes |-> key \o <<COLON>> \o gap \o val \o Crlf,
     tokens |-> <<Token("HEADER_KEY", key), Token("HEADER_VAL", val)>>]

RequestLine(target, version) ==
    [bytes |-> <<71, SPC>> \o target \o <<SPC, version>> \o Crlf,
     tokens |-> <<Token("METHOD", <<71>>), Token("TARGET", target),
                  Token("VERSION", <<version>>)>>]
Line == RequestLine(<<47>>, 49)                            \* "G / 1"
OldLine == RequestLine(MCControl, 48)                      \* "G /c 0"

Plain == Header(<<120>>, <<SPC, TAB>>, <<121, SPC, 59>>)   \* "x: \ty ;"
Length0 == Header(MCContentLength, <<>>, <<48>>)           \* "cl:0"
Length3 == Header(<<67, 108>>, <<SPC>>, <<51>>)            \* "Cl: 3"
Length31 == Header(MCContentLength, <<>>, <<51, 49>>)      \* "cl:31"
LikeLength == Header(<<99, 120>>, <<>>, <<57>>)            \* "cx:9"
Chunking == Header(<<84, 88, 101>>, <<>>, <<67, 107>>)     \* "TXe:Ck"
NotChunking == Header(MCTransferEncoding, <<>>, <<99>>)    \* "txe:c"

Closing == Header(<<67, 110>>, <<>>, <<67>>)               \* "Cn:C"
Keeping == Header(MCConnection, <<>>, <<99, 107>>)         \* "cn:ck"

\* A message of the request line, the headers, what follows them and the
\* tokens and the body it means.
MsgOf(line, h1, h2, rest, last, text) ==
    [bytes |-> line.bytes \o h1.bytes \o h2.bytes \o Crlf \o rest,
     tokens |-> line.tokens \o h1.tokens \o h2.tokens \o <<last>>,
     body |-> text]
Msg(h1, h2, rest, last, text) == MsgOf(Line, h1, h2, rest, last, text)

Nothing == [bytes |-> <<>>, tokens |-> <<>>]
Streamed == Token("BODY_STREAM", <<>>)
Whole(text) == Token("BODY", text)

Abc == <<97, 98, 99>>
\* "2;e" CRLF "ab" CRLF "1" CRLF "c" CRLF "0" CRLF CRLF
TwoChunks == <<50, 59, 101>> \o Crlf \o <<97, 98>> \o Crlf
             \o <<49>> \o Crlf \o <<99>> \o Crlf \o <<48>> \o Crlf \o Crlf
\* "A" CRLF ten characters CRLF "0" CRLF CRLF
OneChunk == <<65>> \o Crlf \o [i \in 1..10 |-> 97 + i] \o Crlf \o <<48>>
            \o Crlf \o Crlf
Long == [i \in 1..31 |-> 64 + i]

Rejected(bytes, toks) ==
    [bytes |-> bytes, tokens |-> toks \o <<Token("ERROR", <<>>)>>, body |-> <<>>]

\* Messages that fit or are streamed.
MCMessages ==
    {MsgOf(OldLine, Plain, Nothing, <<>>, Whole(<<>>), <<>>),
     MsgOf(OldLine, Keeping, Closing, <<>>, Whole(<<>>), <<>>),
     Msg(Closing, Keeping, <<>>, Whole(<<>>), <<>>),
     Msg(Plain, Nothing, <<>>, Whole(<<>>), <<>>),
     Msg(LikeLength, Plain, <<>>, Whole(<<>>), <<>>),
     Msg(Length0, Plain, <<>>, Whole(<<>>), <<>>),
     Msg(Length3, Plain, Abc, Whole(Abc), <<>>),
     Msg(Plain, Length3, Abc, Whole(Abc), <<>>),
     Msg(Plain, Chunking, TwoChunks, Streamed, Abc),
     Msg(Chunking, Nothing, OneChunk, Streamed, [i \in 1..10 |-> 97 + i]),
     Msg(Length31, Plain, Long, Streamed, Long),
     Rejected(Line.bytes \o <<CR>>, Line.tokens),
     Rejected(<<71, SPC, SPC>>, <<Token("METHOD", <<71>>)>>),
     Rejected(Line.bytes \o Plain.bytes \o Plain.bytes \o <<120>>,
              Line.tokens \o Plain.tokens \o Plain.tokens)}

\* A body one character longer than the space behind the headers, and a
\* chunked one.
MCEdgeMessages ==
    {Msg(Length3, Nothing, Abc, Whole(Abc), <<>>),
     Msg(Chunking, Nothing, TwoChunks, Streamed, Abc)}
=============================================================================
