------------------------- MODULE HttpRequestProofs --------------------------
(***************************************************************************)
(* Theorems about HttpParser and HttpRequest, for every set of messages,   *)
(* every cut of a message into reads and every limit.                      *)
(***************************************************************************)
EXTENDS HttpRequest, TLAPS, SequenceTheorems

-----------------------------------------------------------------------------
(* The inductive invariant.                                                *)

http_token_t == [index : Nat, len : Nat, type : TokenType]
hs_stream_t == [buf : Text, index : Nat, anchor : Nat, token : http_token_t,
                consumed : BOOLEAN]
http_parser_t == [state : hs_state, meta : DOMAIN hs_meta_transitions,
                  content_length : Int, body_consumed : Int, match_index : Int,
                  header_count : Int]

\* The environment: what a client sends for the value of a content length is
\* digits.  http_parse computes with any other character as if it were one, and
\* the length may then be negative.
Numeric ==
    pc = "scan" /\ stream.index < Length(stream) =>
        LET c == stream.buf[stream.index + 1]
            to == NextState(parser, c)
        IN  parser.meta = "CLV" /\ to = "HV" => c \in DIGIT

\* The buffer is never larger than it may be, and the cursor stays in it.
InBuffer(s) == s.index <= Length(s) /\ Length(s) <= MaxRequestBufSize

\* The meta state fits the state.
MetaOK(p) ==
    \/ p.state \in {"ST", "MT", "MS", "TR", "TS", "VN"} /\ p.meta = "WFK"
    \/ p.state \in {"RR", "RN"} /\ p.meta = "ANY"
    \/ p.state = "HK" /\ p.meta \in {"MTE", "MCL", "WFK", "SML", "CHK"}
    \/ p.state \in {"HS", "HV"} /\ p.meta \in {"MCK", "CLV", "WFK", "SML", "CHK"}
    \/ p.state \in {"HR", "HE", "ER"} /\ p.meta \in {"CHK", "SML", "ANY"}
    \/ p.state = "HN" /\ p.meta \in {"STR", "BDY", "ZER"}
    \/ p.state = "BD" /\ p.meta \in {"BDY", "STR", "SEN"}
    \/ p.state = "CS" /\ p.meta \in {"ZER", "CSZ"}
    \/ p.state \in {"CE", "CR", "CN"} /\ p.meta \in {"LST", "CBD"}
    \/ p.state \in {"CB", "CD", "C1"} /\ p.meta = "CBD"
    \/ p.state = "C2" /\ p.meta = "ZER"

\* No more of a body or chunk was read than there is of it, and its length is
\* known only from the header or the chunk size on.
CountOK(p) ==
    /\ p.content_length \in Nat /\ p.body_consumed \in Nat
    /\ p.body_consumed <= p.content_length
    /\ p.meta \in {"WFK", "ANY", "MTE", "MCL", "MCK", "CHK", "ZER", "LST"}
          => p.content_length = 0
    /\ p.state \notin {"BD", "CB"} => p.body_consumed = 0
    /\ p.state \in {"HN", "BD"} /\ p.meta \in {"STR", "BDY"}
          => p.body_consumed < p.content_length
    /\ p.state \in {"CD", "C1"} => p.content_length = 0

\* The token in progress fits the state.
TokenOK(p, s) ==
    /\ p.state \notin {"MT", "TR", "VN", "HK", "HV", "BD", "CB"}
          => s.token.type = "NONE"
    /\ p.state = "BD" /\ p.meta # "BDY" => s.token.type = "NONE"
    /\ p.state = "BD" /\ p.meta = "BDY" => s.token.type = "BODY"
    /\ p.state = "CB" => s.token.type = "CHUNK_BODY"

\* The token in progress ends at or before the cursor and begins behind the
\* anchor.
StreamOK(s) ==
    /\ s.anchor <= s.index
    /\ s.token.index + s.token.len <= s.index
    /\ s.token.type = "NONE" => s.token.len = 0
    /\ s.token.type # "NONE" => s.anchor <= s.token.index

\* How much of the buffer is never written again: what was parsed, and once
\* the body began what stands in front of it.
BodyStates == {"BD", "CS", "CE", "CR", "CN", "CB", "CD", "C1", "C2"}
Fixed(p, s) == IF p.state \in BodyStates THEN s.anchor ELSE s.index

GoesOn(p, s) == MetaOK(p) /\ CountOK(p) /\ TokenOK(p, s) /\ StreamOK(s)

PInv ==
    /\ msg.bytes \in Text /\ sent \in 0..Len(msg.bytes)
    /\ parser \in http_parser_t /\ stream \in hs_stream_t
    /\ InBuffer(stream) /\ Length(stream) <= sent
    /\ pc \in {"read", "call", "scan", "wait", "done", "answered", "closed"}
    /\ pc \notin {"done", "answered"} => GoesOn(parser, stream)
    /\ parser.meta = "SEN" => pc \notin {"scan", "wait"}
    /\ ShortIsRead

-----------------------------------------------------------------------------
(* The tables.                                                             *)

\* The states that begin a token, and of which type.
LEMMA StartStates ==
    /\ DOMAIN hs_token_start_states = {"MT", "TR", "VN", "HK", "HV", "BD", "CB"}
    /\ hs_token_start_states["BD"] = "BODY"
    /\ hs_token_start_states["CB"] = "CHUNK_BODY"
    /\ \A t \in DOMAIN hs_token_start_states :
          hs_token_start_states[t] \in TokenType \ {"NONE"}
  BY DEF hs_token_start_states, TokenType

\* A transition that hs_transitions has is one of Moves.
LEMMA MoveOf ==
    ASSUME NEW from \in hs_state \ {"BR"}, NEW c \in Char
    PROVE  \/ hs_transitions[from][c] = "BR"
           \/ \E m \in Moves : /\ m[1] = from /\ c \in m[2]
                              /\ m[3] = hs_transitions[from][c]
<1> DEFINE to == {m \in Moves : m[1] = from /\ c \in m[2]}
<1>1. hs_transitions[from][c] = IF to = {} THEN "BR" ELSE (CHOOSE m \in to : TRUE)[3]
  BY DEF hs_transitions
<1>2. CASE to = {}
  BY <1>1, <1>2
<1>3. CASE to # {}
  <2>1. (CHOOSE m \in to : TRUE) \in to
    BY <1>3, Zenon
  <2> QED
    BY <1>1, <1>3, <2>1
<1> QED
  BY <1>2, <1>3

\* The states a state leads to.
Leads(from, to) ==
    \/ from \in {"ST", "MT"} /\ to = "MT"
    \/ from = "MT" /\ to = "MS"
    \/ from \in {"MS", "TR"} /\ to = "TR"
    \/ from = "TR" /\ to = "TS"
    \/ from \in {"TS", "VN"} /\ to = "VN"
    \/ from = "VN" /\ to = "RR"
    \/ from = "RR" /\ to = "RN"
    \/ from \in {"RN", "HE", "HK"} /\ to = "HK"
    \/ from \in {"HK", "HS"} /\ to = "HS"
    \/ from \in {"HS", "HV"} /\ to = "HV"
    \/ from = "HV" /\ to = "HR"
    \/ from = "HR" /\ to = "HE"
    \/ from = "HE" /\ to = "ER"
    \/ from = "ER" /\ to = "HN"
    \/ from \in {"HN", "BD"} /\ to = "BD"
    \/ from \in {"HN", "C2", "CS"} /\ to = "CS"
    \/ from \in {"CS", "CE"} /\ to \in {"CR", "CE"}
    \/ from = "CR" /\ to = "CN"
    \/ from \in {"CN", "CB"} /\ to = "CB"
    \/ from = "CD" /\ to = "C1"
    \/ from = "C1" /\ to = "C2"

\* A character leads from one state to the next or is rejected, and where
\* the first chunk's size is expected it is read as one.
LEMMA NextStates ==
    ASSUME NEW p \in http_parser_t, p.state # "BR", NEW c \in Char
    PROVE  /\ NextState(p, c) \in hs_state
           /\ \/ NextState(p, c) = "BR"
              \/ /\ Leads(p.state, NextState(p, c))
                 /\ p.state = "HN" /\ p.meta = "ZER" => NextState(p, c) = "CS"
                 /\ p.state = "HN" /\ p.meta # "ZER" => NextState(p, c) = "BD"
<1> DEFINE to == hs_transitions[p.state][c]
<1>1. p.state \in hs_state \ {"BR"}
  BY DEF http_parser_t
<1>2. to = "BR" \/ \E m \in Moves : m[1] = p.state /\ c \in m[2] /\ m[3] = to
  BY <1>1, MoveOf
<1>3. ASSUME NEW m \in Moves
      PROVE  /\ Leads(m[1], m[3]) /\ (m[1] = "HN" => m[3] = "BD")
             /\ m[3] # "BR"
             /\ m[3] \in hs_state
  BY DEF Moves, Leads, hs_state
<1>4. "BR" \in hs_state /\ "CS" \in hs_state
  BY DEF hs_state, Moves
<1>5. CASE to = "BR"
  BY <1>4, <1>5 DEF NextState
<1>6. CASE to # "BR"
  <2>1. /\ Leads(p.state, to) /\ to \in hs_state
        /\ p.state = "HN" => to = "BD"
    BY <1>2, <1>3, <1>6
  <2>2. CASE p.meta = "ZER" /\ p.state = "HN" /\ to = "BD"
    BY <1>4, <2>2 DEF NextState, Leads
  <2>3. CASE ~(p.meta = "ZER" /\ p.state = "HN" /\ to = "BD")
    <3>1. NextState(p, c) = to
      BY <2>3, Zenon DEF NextState
    <3> QED
      BY <2>1, <2>3, <3>1
  <2> QED
    BY <2>2, <2>3
<1> QED
  BY <1>5, <1>6

-----------------------------------------------------------------------------
(* The stream.                                                             *)

\* The types of the fields of a stream.
LEMMA StreamFields ==
    ASSUME NEW s \in hs_stream_t
    PROVE  /\ s.buf \in Seq(Char) /\ s.index \in Nat /\ s.anchor \in Nat
           /\ s.token \in http_token_t /\ s.consumed \in BOOLEAN
           /\ s.token.index \in Nat /\ s.token.len \in Nat
           /\ s.token.type \in TokenType /\ Length(s) \in Nat
  BY DEF hs_stream_t, http_token_t, Text, Length

\* The end of the token that is none.
LEMMA NoTokenType ==
    /\ NoToken \in http_token_t /\ NoToken.index = 0 /\ NoToken.len = 0
    /\ NoToken.type = "NONE"
    /\ \A type \in TokenType :
          /\ [NoToken EXCEPT !.type = type] \in http_token_t
          /\ [NoToken EXCEPT !.type = type].index = 0
          /\ [NoToken EXCEPT !.type = type].len = 0
          /\ [NoToken EXCEPT !.type = type].type = type
  BY DEF NoToken, http_token_t, TokenType

\* The cursor and the token in progress move on together.
LEMMA AdvancedOK ==
    ASSUME NEW s \in hs_stream_t, NEW n \in Nat
    PROVE  /\ Advanced(s, n) \in hs_stream_t
           /\ Advanced(s, n).buf = s.buf /\ Advanced(s, n).anchor = s.anchor
           /\ Advanced(s, n).index = s.index + n /\ Advanced(s, n).consumed
           /\ Advanced(s, n).token.type = s.token.type
           /\ Advanced(s, n).token.index = s.token.index
           /\ Advanced(s, n).token.len =
                 IF s.token.type = "NONE" THEN 0 ELSE s.token.len + n
           /\ StreamOK(s) => StreamOK(Advanced(s, n))
<1> DEFINE i == s.index + n
           l == IF s.token.type = "NONE" THEN 0 ELSE s.token.len + n
           t == [s.token EXCEPT !.len = l]
           x == [s EXCEPT !.consumed = TRUE, !.index = i, !.token = t]
<1>1. i \in Nat /\ l \in Nat
  BY StreamFields
<1>2. Advanced(s, n) = x
  BY DEF Advanced, hs_stream_t
<1> HIDE DEF i, l
<1>3. t \in http_token_t /\ t.type = s.token.type /\ t.index = s.token.index /\ t.len = l
  BY <1>1, StreamFields DEF http_token_t
<1> HIDE DEF t
<1>4. /\ x \in hs_stream_t /\ x.buf = s.buf /\ x.anchor = s.anchor
      /\ x.index = i /\ x.consumed /\ x.token = t
  BY <1>1, <1>3 DEF hs_stream_t
<1> HIDE DEF x
<1>5. StreamOK(s) => StreamOK(x)
  <2> SUFFICES ASSUME StreamOK(s) PROVE StreamOK(x)
    OBVIOUS
  <2>1. s.index \in Nat /\ s.anchor \in Nat /\ s.token.index \in Nat /\ s.token.len \in Nat
    BY StreamFields
  <2>2. s.anchor <= i /\ s.token.index + l <= i
    BY <2>1 DEF StreamOK, i, l
  <2> QED
    BY <1>3, <1>4, <2>2 DEF StreamOK, l
<1> QED
  BY <1>2, <1>3, <1>4, <1>5 DEF i, l

\* A token begins at the cursor.
LEMMA BegunOK ==
    ASSUME NEW s \in hs_stream_t, NEW type \in TokenType
    PROVE  /\ hs_stream_begin_token(s, type) \in hs_stream_t
           /\ hs_stream_begin_token(s, type).buf = s.buf
           /\ hs_stream_begin_token(s, type).anchor = s.anchor
           /\ hs_stream_begin_token(s, type).index = s.index
           /\ hs_stream_begin_token(s, type).consumed = s.consumed
           /\ hs_stream_begin_token(s, type).token.type = type
           /\ hs_stream_begin_token(s, type).token.index = s.index
           /\ hs_stream_begin_token(s, type).token.len = s.token.len
           /\ s.anchor <= s.index /\ s.token.len = 0
                 => StreamOK(hs_stream_begin_token(s, type))
<1> DEFINE t == [s.token EXCEPT !.index = s.index, !.type = type]
           x == [s EXCEPT !.token = t]
<1>1. hs_stream_begin_token(s, type) = x
  BY DEF hs_stream_begin_token, hs_stream_t
<1>2. t \in http_token_t /\ t.type = type /\ t.index = s.index /\ t.len = s.token.len
  BY StreamFields DEF http_token_t
<1> HIDE DEF t
<1>3. /\ x \in hs_stream_t /\ x.buf = s.buf /\ x.anchor = s.anchor
      /\ x.index = s.index /\ x.consumed = s.consumed /\ x.token = t
  BY <1>2 DEF hs_stream_t
<1> HIDE DEF x
<1>4. s.anchor <= s.index /\ s.token.len = 0 => StreamOK(x)
  BY <1>2, <1>3, StreamFields DEF StreamOK
<1> QED
  BY <1>1, <1>2, <1>3, <1>4

\* A token is handed out and none is in progress.
LEMMA EmittedOK ==
    ASSUME NEW s \in hs_stream_t
    PROVE  /\ hs_stream_emit(s) \in hs_stream_t
           /\ hs_stream_emit(s).buf = s.buf /\ hs_stream_emit(s).anchor = s.anchor
           /\ hs_stream_emit(s).index = s.index
           /\ hs_stream_emit(s).consumed = s.consumed
           /\ hs_stream_emit(s).token = NoToken
           /\ s.anchor <= s.index => StreamOK(hs_stream_emit(s))
<1> DEFINE x == hs_stream_emit(s)
<1>1. /\ x \in hs_stream_t /\ x.buf = s.buf /\ x.anchor = s.anchor
      /\ x.index = s.index /\ x.consumed = s.consumed /\ x.token = NoToken
  BY NoTokenType DEF hs_stream_t, hs_stream_emit
<1> HIDE DEF x
<1>2. s.anchor <= s.index => StreamOK(x)
  BY <1>1, NoTokenType, StreamFields DEF StreamOK
<1> QED
  BY <1>1, <1>2 DEF x

\* What hs_stream_shift keeps: everything before the anchor, and the token in
\* progress behind it.
LEMMA ShiftedOK ==
    ASSUME NEW s \in hs_stream_t, s.anchor <= s.index, s.index <= Length(s),
           s.token.index + s.token.len <= s.index,
           s.token.type = "NONE" => s.token.index = 0 /\ s.token.len = 0,
           s.token.type # "NONE" => s.anchor <= s.token.index
    PROVE  /\ hs_stream_shift(s) \in hs_stream_t /\ StreamOK(hs_stream_shift(s))
           /\ hs_stream_shift(s).index <= Length(hs_stream_shift(s))
           /\ Length(hs_stream_shift(s)) <= Length(s)
           /\ hs_stream_shift(s).anchor = s.anchor
           /\ hs_stream_shift(s).consumed = s.consumed
           /\ hs_stream_shift(s).token.type = s.token.type
           /\ \A k \in 1..s.anchor : hs_stream_shift(s).buf[k] = s.buf[k]
<1> DEFINE a == s.anchor
           i == s.token.index
           l == s.token.len
           head == SubSeq(s.buf, 1, a)
           tail == SubSeq(s.buf, i + 1, i + l)
           buf == head \o tail
           t == [s.token EXCEPT !.index = a]
           x == [s EXCEPT !.buf = buf, !.token = t, !.index = a + l]
<1>1. /\ a \in Nat /\ i \in Nat /\ l \in Nat /\ a <= Len(s.buf)
      /\ i + l <= Len(s.buf) /\ s.buf \in Seq(Char)
  <2>1. /\ a \in Nat /\ i \in Nat /\ l \in Nat /\ s.buf \in Seq(Char)
        /\ s.index \in Nat
    BY StreamFields
  <2>2. s.index <= Len(s.buf) /\ Len(s.buf) \in Nat
    BY <2>1 DEF Length
  <2>3. a <= s.index /\ i + l <= s.index
    OBVIOUS
  <2> HIDE DEF a, i, l
  <2> QED
    BY <2>1, <2>2, <2>3
<1>2. CASE i = a
  <2>1. hs_stream_shift(s) = s
    BY <1>2 DEF hs_stream_shift
  <2> QED
    BY <2>1, StreamFields DEF StreamOK
<1>3. CASE i # a
  <2>1. hs_stream_shift(s) = x
    BY <1>3, StreamFields DEF hs_stream_shift, hs_stream_t
  <2>2. head \in Seq(Char) /\ Len(head) = a /\ \A k \in 1..a : head[k] = s.buf[k]
    <3> HIDE DEF a
    <3> QED
      BY <1>1, SubSeqProperties
  <2>3. tail \in Seq(Char) /\ Len(tail) = l
    <3> HIDE DEF i, l
    <3>1. i + l - (i + 1) + 1 = l
      BY <1>1
    <3> QED
      BY <1>1, <3>1, SubSeqProperties
  <2> HIDE DEF head, tail
  <2>4. buf \in Seq(Char) /\ Len(buf) = a + l /\ \A k \in 1..a : buf[k] = s.buf[k]
    <3>1. /\ buf \in Seq(Char) /\ Len(buf) = Len(head) + Len(tail)
          /\ \A k \in 1..Len(head) + Len(tail) :
                buf[k] = IF k <= Len(head) THEN head[k] ELSE tail[k - Len(head)]
      BY <2>2, <2>3, ConcatProperties
    <3> HIDE DEF a, l, buf
    <3> QED
      BY <1>1, <2>2, <2>3, <3>1
  <2> HIDE DEF buf
  <2>5. t \in http_token_t /\ t.type = s.token.type /\ t.index = a /\ t.len = l
    BY <1>1, StreamFields DEF http_token_t
  <2> HIDE DEF t
  <2>6. a + l \in Nat
    BY <1>1
  <2>7. /\ x \in hs_stream_t /\ x.buf = buf /\ x.anchor = a /\ x.index = a + l
        /\ x.consumed = s.consumed /\ x.token = t
    BY <2>4, <2>5, <2>6 DEF hs_stream_t, Text
  <2> HIDE DEF x
  <2>8. a + l <= Len(s.buf)
    <3>1. CASE s.token.type = "NONE"
      BY <1>1, <3>1
    <3>2. CASE s.token.type # "NONE"
      BY <1>1, <3>2
    <3> QED
      BY <3>1, <3>2
  <2>9. StreamOK(x)
    BY <1>1, <2>5, <2>7 DEF StreamOK
  <2> HIDE DEF a, l
  <2> QED
    BY <1>1, <2>1, <2>4, <2>5, <2>6, <2>7, <2>8, <2>9 DEF Length, a
<1> QED
  BY <1>2, <1>3

-----------------------------------------------------------------------------
(* The parser: what a transition does before the switch.                   *)

Result(p, s, tok) == [p |-> p, s |-> s, tok |-> tok]
Zeroed(p, to) ==
    [p EXCEPT !.match_index = 0,
              !.header_count = IF to = "HK" THEN p.header_count + 1 ELSE p.header_count]
Anchored(s, from) == IF from = "HN" THEN [s EXCEPT !.anchor = s.index] ELSE s
Begun(s, to) ==
    IF to \in DOMAIN hs_token_start_states
    THEN hs_stream_begin_token(s, hs_token_start_states[to]) ELSE s

\* A result with a part replaced.
LEMMA ResultFields ==
    ASSUME NEW p, NEW s, NEW tok
    PROVE  /\ Result(p, s, tok).p = p /\ Result(p, s, tok).s = s
           /\ Result(p, s, tok).tok = tok
           /\ \A x : /\ [Result(p, s, tok) EXCEPT !.p = x] = Result(x, s, tok)
                    /\ [Result(p, s, tok) EXCEPT !.s = x] = Result(p, x, tok)
                    /\ [Result(p, s, tok) EXCEPT !.tok = x] = Result(p, s, x)
  BY DEF Result

\* What handing out a token and an event of the meta state do to a result.
LEMMA ResultSteps ==
    ASSUME NEW p, NEW s, NEW tok
    PROVE  /\ Emit(Result(p, s, tok)) = Result(p, hs_stream_emit(s), s.token)
           /\ \A event : Trigger(Result(p, s, tok), event)
                        = Result(hs_trigger_meta(p, event), s, tok)
<1> DEFINE r == Result(p, s, tok)
<1>1. r.p = p /\ r.s = s
  BY ResultFields
<1>2. Emit(r) = [r EXCEPT !.tok = s.token, !.s = hs_stream_emit(s)]
  BY <1>1, Zenon DEF Emit
<1>3. \A event : Trigger(r, event) = [r EXCEPT !.p = hs_trigger_meta(p, event)]
  BY <1>1, Zenon DEF Trigger
<1>4. ASSUME NEW x, NEW y PROVE [r EXCEPT !.tok = x, !.s = y] = Result(p, y, x)
  <2>1. [r EXCEPT !.tok = x, !.s = y] = [[r EXCEPT !.tok = x] EXCEPT !.s = y]
    <3> HIDE DEF r
    <3> QED
      OBVIOUS
  <2>2. [r EXCEPT !.tok = x] = Result(p, s, x)
    BY ResultFields
  <2>3. [Result(p, s, x) EXCEPT !.s = y] = Result(p, y, x)
    BY ResultFields
  <2> HIDE DEF r
  <2> QED
    BY <2>1, <2>2, <2>3
<1>5. ASSUME NEW y PROVE [r EXCEPT !.p = y] = Result(y, s, tok)
  BY ResultFields
<1> QED
  BY <1>2, <1>3, <1>4, <1>5

\* Entering, case by case.
LEMMA EnteringForms ==
    ASSUME NEW p, NEW s, NEW from, NEW to
    PROVE  /\ from = to /\ from # "HN"
                 => Entering(Result(p, s, NoToken), from, to) = Result(p, s, NoToken)
           /\ from = "HK" /\ to = "HS"
                 => Entering(Result(p, s, NoToken), from, to)
                    = Result(hs_trigger_meta(Zeroed(p, to), END_KEY),
                             hs_stream_emit(s), s.token)
           /\ from # to /\ to \notin {"HS", "HK"} /\ from = "CS"
                 => Entering(Result(p, s, NoToken), from, to)
                    = Result(hs_trigger_meta(Zeroed(p, to), END_CHK_SIZE),
                             Begun(s, to), NoToken)
           /\ from # to /\ to # "HS" /\ from # "CS"
              /\ ~(to = "HK" /\ Zeroed(p, to).header_count > MaxHeaderCount)
                 => Entering(Result(p, s, NoToken), from, to)
                    = Result(Zeroed(p, to), Begun(Anchored(s, from), to), NoToken)
           /\ from # to /\ to = "HK" /\ from # "CS"
              /\ Zeroed(p, to).header_count > MaxHeaderCount
                 => Entering(Result(p, s, NoToken), from, to)
                    = Result(Zeroed(p, to), Begun(Anchored(s, from), to),
                             [NoToken EXCEPT !.type = "ERROR"])
<1> DEFINE r == Result(p, s, NoToken)
           s1 == Anchored(s, from)
           s2 == Begun(s1, to)
           p1 == Zeroed(p, to)
           e == [r EXCEPT !.s = s2, !.p = p1]
<1>1. r.p = p /\ r.s = s /\ r.tok = NoToken
  BY DEF Result
<1>2. e = Result(p1, s2, NoToken)
  <2> HIDE DEF s2, p1
  <2>1. [r EXCEPT !.s = s2] = Result(p, s2, NoToken)
    BY ResultFields
  <2>2. [Result(p, s2, NoToken) EXCEPT !.p = p1] = Result(p1, s2, NoToken)
    BY ResultFields
  <2> HIDE DEF r
  <2>3. e = [[r EXCEPT !.s = s2] EXCEPT !.p = p1]
    OBVIOUS
  <2> QED
    BY <2>1, <2>2, <2>3
<1>3. Entering(r, from, to) =
        CASE KeyEnds(from, to) -> Emit(Trigger(e, END_KEY))
          [] ~KeyEnds(from, to) /\ from = to -> [r EXCEPT !.s = s1]
          [] from # to /\ from = "CS" -> Trigger(e, END_CHK_SIZE)
          [] from # to /\ to = "HK" /\ p1.header_count > MaxHeaderCount ->
                 [e EXCEPT !.tok.type = "ERROR"]
          [] OTHER -> e
  <2>1. s1 = IF from = "HN" THEN [r.s EXCEPT !.anchor = r.s.index] ELSE r.s
    BY <1>1 DEF Anchored
  <2>2. s2 = IF to \in DOMAIN hs_token_start_states
             THEN hs_stream_begin_token(s1, hs_token_start_states[to]) ELSE s1
    BY DEF Begun
  <2>3. p1 = [r.p EXCEPT !.match_index = 0,
                         !.header_count = IF to = "HK" THEN @ + 1 ELSE @]
    BY <1>1 DEF Zeroed
  <2> HIDE DEF r, s1, s2, p1
  <2> QED
    BY <2>1, <2>2, <2>3, Zenon DEF Entering
<1>4. from = to /\ from # "HN" => Entering(r, from, to) = r
  <2> SUFFICES ASSUME from = to, from # "HN" PROVE Entering(r, from, to) = r
    OBVIOUS
  <2>1. ~KeyEnds(from, to)
    BY DEF KeyEnds
  <2>2. [r EXCEPT !.s = s1] = r
    BY DEF Result, Anchored
  <2> HIDE DEF r, s1, s2, p1, e
  <2> QED
    BY <1>3, <2>1, <2>2, Zenon
<1> HIDE DEF p1, r, s1, s2, e
<1>5. ASSUME from = "HK", to = "HS"
      PROVE  Entering(r, from, to)
             = Result(hs_trigger_meta(p1, END_KEY), hs_stream_emit(s), s.token)
  <2>1. KeyEnds(from, to)
    BY <1>5 DEF KeyEnds
  <2>2. s2 = s
    BY <1>5, StartStates DEF s2, s1, Begun, Anchored
  <2>3. Entering(r, from, to) = Emit(Trigger(e, END_KEY))
    <3>1. from # to /\ from # "CS" /\ to # "HK"
      BY <1>5
    <3> QED
      BY <1>3, <2>1, <3>1, Zenon
  <2> QED
    BY <1>2, <2>2, <2>3 DEF Emit, Trigger, Result
<1>6. ASSUME from # to, to \notin {"HS", "HK"}, from = "CS"
      PROVE  Entering(r, from, to)
             = Result(hs_trigger_meta(p1, END_CHK_SIZE), Begun(s, to), NoToken)
  <2>1. ~KeyEnds(from, to)
    BY <1>6 DEF KeyEnds
  <2>2. s2 = Begun(s, to)
    BY <1>6 DEF s2, s1, Anchored
  <2>3. Entering(r, from, to) = Trigger(e, END_CHK_SIZE)
    <3>1. to # "HK"
      BY <1>6
    <3> QED
      BY <1>3, <1>6, <2>1, <3>1, Zenon
  <2> QED
    BY <1>2, <2>2, <2>3 DEF Trigger, Result
<1>7. ASSUME from # to, to # "HS", from # "CS",
             ~(to = "HK" /\ p1.header_count > MaxHeaderCount)
      PROVE  Entering(r, from, to) = e
  <2>1. ~KeyEnds(from, to)
    BY <1>7 DEF KeyEnds
  <2> QED
    BY <1>3, <1>7, <2>1, Zenon
<1>8. ASSUME from # to, to = "HK", from # "CS", p1.header_count > MaxHeaderCount
      PROVE  Entering(r, from, to)
             = Result(p1, s2, [NoToken EXCEPT !.type = "ERROR"])
  <2>1. ~KeyEnds(from, to)
    BY <1>8 DEF KeyEnds
  <2>2. Entering(r, from, to) = [e EXCEPT !.tok.type = "ERROR"]
    BY <1>3, <1>8, <2>1, Zenon
  <2> QED
    BY <1>2, <2>2 DEF Result
<1> QED
  BY <1>2, <1>4, <1>5, <1>6, <1>7, <1>8 DEF p1, r, s1, s2

\* hs_transition_action, case by case: the switch on the new state.
LEMMA ActionForms ==
    ASSUME NEW p, NEW s, NEW c, NEW from, NEW to,
           NEW r, r = Entering(Result(p, s, NoToken), from, to)
    PROVE  /\ to \in {"MS", "TS"} => hs_transition_action(p, s, c, from, to) = Emit(r)
           /\ to \in {"RR", "HR"} =>
                 hs_transition_action(p, s, c, from, to) = Emit(Trigger(r, END_VALUE))
           /\ to = "HK" => hs_transition_action(p, s, c, from, to) = HeaderKey(r, c)
           /\ to = "HV" => hs_transition_action(p, s, c, from, to) = HeaderVal(r, c)
           /\ to = "HN" => hs_transition_action(p, s, c, from, to) = EndOfHeaders(r)
           /\ to = "CS" => hs_transition_action(p, s, c, from, to) = ChunkSize(r, c)
           /\ to \in {"CB", "BD"} =>
                 hs_transition_action(p, s, c, from, to) = BodyData(r, to)
           /\ to = "C2" =>
                 hs_transition_action(p, s, c, from, to) = Trigger(r, END_CHUNK)
           /\ to = "BR" =>
                 hs_transition_action(p, s, c, from, to) = [r EXCEPT !.tok.type = "ERROR"]
           /\ to \in {"MT", "TR", "VN", "RN", "HS", "HE", "ER", "CE", "CR", "CN", "CD", "C1"}
                 => hs_transition_action(p, s, c, from, to) = r
<1> DEFINE x == hs_transition_action(p, s, c, from, to)
<1>1. x = CASE to \in {"MS", "TS"} -> Emit(r)
            [] to \in {"RR", "HR"} -> Emit(Trigger(r, END_VALUE))
            [] to = "HK" -> HeaderKey(r, c)
            [] to = "HV" -> HeaderVal(r, c)
            [] to = "HN" -> EndOfHeaders(r)
            [] to = "CS" -> ChunkSize(r, c)
            [] to \in {"CB", "BD"} -> BodyData(r, to)
            [] to = "C2" -> Trigger(r, END_CHUNK)
            [] to = "BR" -> [r EXCEPT !.tok.type = "ERROR"]
            [] OTHER -> r
  BY Zenon DEF hs_transition_action, Result
<1> DEFINE e1 == Emit(r)
           e2 == Emit(Trigger(r, END_VALUE))
           e3 == HeaderKey(r, c)
           e4 == HeaderVal(r, c)
           e5 == EndOfHeaders(r)
           e6 == ChunkSize(r, c)
           e7 == BodyData(r, to)
           e8 == Trigger(r, END_CHUNK)
           e9 == [r EXCEPT !.tok.type = "ERROR"]
<1>2. x = CASE to \in {"MS", "TS"} -> e1
            [] to \in {"RR", "HR"} -> e2
            [] to = "HK" -> e3
            [] to = "HV" -> e4
            [] to = "HN" -> e5
            [] to = "CS" -> e6
            [] to \in {"CB", "BD"} -> e7
            [] to = "C2" -> e8
            [] to = "BR" -> e9
            [] OTHER -> r
  BY <1>1
<1> HIDE DEF x, e1, e2, e3, e4, e5, e6, e7, e8, e9
<1>3. /\ to \in {"MS", "TS"} => x = e1
      /\ to \in {"RR", "HR"} => x = e2
      /\ to = "HK" => x = e3
      /\ to = "HV" => x = e4
      /\ to = "HN" => x = e5
      /\ to = "CS" => x = e6
      /\ to \in {"CB", "BD"} => x = e7
      /\ to = "C2" => x = e8
      /\ to = "BR" => x = e9
      /\ to \in {"MT", "TR", "VN", "RN", "HS", "HE", "ER", "CE", "CR", "CN", "CD", "C1"}
            => x = r
  BY <1>2
<1> QED
  BY <1>3 DEF x, e1, e2, e3, e4, e5, e6, e7, e8, e9

-----------------------------------------------------------------------------
(* One iteration of the loop of http_parse.                                *)

\* x is p, but for its state, its meta state and what it counts of names and
\* headers.
Like(p, x, state, meta) ==
    /\ x \in http_parser_t /\ x.state = state /\ x.meta = meta
    /\ x.content_length = p.content_length /\ x.body_consumed = p.body_consumed

LEMMA SameParser ==
    ASSUME NEW p \in http_parser_t, NEW to \in hs_state
    PROVE  /\ Like(p, [p EXCEPT !.state = to], to, p.meta)
           /\ Like(p, Zeroed([p EXCEPT !.state = to], to), to, p.meta)
           /\ Zeroed([p EXCEPT !.state = to], to).match_index = 0
<1> DEFINE q == [p EXCEPT !.state = to]
           n == IF to = "HK" THEN q.header_count + 1 ELSE q.header_count
           x == [q EXCEPT !.match_index = 0, !.header_count = n]
<1>1. /\ Like(p, q, to, p.meta) /\ q \in http_parser_t
  BY DEF Like, http_parser_t
<1>2. n \in Int
  <2>1. q.header_count \in Int
    BY <1>1 DEF http_parser_t
  <2> QED
    BY <2>1
<1>3. Zeroed(q, to) = x
  BY DEF Zeroed
<1> HIDE DEF q, n
<1> DEFINE y == [q EXCEPT !.match_index = 0]
<1>4. /\ x \in http_parser_t /\ x.state = q.state /\ x.meta = q.meta
      /\ x.content_length = q.content_length /\ x.body_consumed = q.body_consumed
      /\ x.match_index = 0
  <2>1. /\ y \in http_parser_t /\ y.state = q.state /\ y.meta = q.meta
        /\ y.content_length = q.content_length /\ y.body_consumed = q.body_consumed
        /\ y.match_index = 0
    BY <1>1 DEF http_parser_t
  <2>2. x = [y EXCEPT !.header_count = n]
    OBVIOUS
  <2> HIDE DEF y
  <2> QED
    BY <1>2, <2>1, <2>2 DEF http_parser_t
<1> QED
  BY <1>1, <1>3, <1>4 DEF Like, q

LEMMA Triggered ==
    ASSUME NEW p \in http_parser_t, NEW event,
           NEW m \in DOMAIN hs_meta_transitions, m = hs_meta_transitions[p.meta][event]
    PROVE  Like(p, hs_trigger_meta(p, event), p.state, m)
  BY DEF Like, http_parser_t, hs_trigger_meta

\* What http_parse may go on with: a character of the buffer is to be parsed.
Ready(p, s) ==
    /\ p \in http_parser_t /\ s \in hs_stream_t /\ s.consumed = FALSE
    /\ InBuffer(s) /\ s.index < Length(s)
    /\ GoesOn(p, s) /\ p.meta # "SEN"

\* x is s, but for the token in progress, which is of a type.
LikeStream(s, x, type) ==
    /\ x \in hs_stream_t /\ x.buf = s.buf /\ x.index = s.index
    /\ x.consumed = s.consumed /\ StreamOK(x) /\ x.token.type = type
    /\ s.anchor <= x.anchor

\* A token that ends the reading of a request.
Ends(tok) ==
    \/ tok.type \in {"ERROR", "BODY"}
    \/ tok.type = "CHUNK_BODY" /\ tok.len = 0

\* What an action gives that leaves the consuming of its character to the
\* loop.
Before(p, s, r) ==
    /\ r = Result(r.p, r.s, r.tok)
    /\ r.p \in http_parser_t /\ r.s \in hs_stream_t /\ r.tok \in http_token_t
    /\ r.s.buf = s.buf /\ r.s.index = s.index /\ r.s.consumed = FALSE
    /\ r.p.meta # "SEN" \/ Ends(r.tok)
    /\ \/ Ends(r.tok)
       \/ /\ GoesOn(r.p, r.s) /\ Fixed(p, s) <= Fixed(r.p, r.s)
          /\ r.tok.type = "NONE" \/ r.tok.index + r.tok.len <= Fixed(r.p, r.s)

LEMMA Gives ==
    ASSUME NEW p, NEW s, Ready(p, s),
           NEW p1 \in http_parser_t, NEW s1, NEW type, LikeStream(s, s1, type),
           NEW tok \in http_token_t,
           Ends(tok) \/ (p1.meta # "SEN" /\ GoesOn(p1, s1)),
           Ends(tok) \/ Leads(p.state, p1.state),
           \/ tok.type = "NONE" \/ Ends(tok)
           \/ tok.index + tok.len <= s.index /\ p1.state \notin BodyStates,
           p.state = "HN" => s.index <= s1.anchor
    PROVE  Before(p, s, Result(p1, s1, tok))
<1> DEFINE r == Result(p1, s1, tok)
<1>1. r.p = p1 /\ r.s = s1 /\ r.tok = tok
  BY ResultFields
<1>2. /\ s1 \in hs_stream_t /\ s1.buf = s.buf /\ s1.index = s.index
      /\ s1.consumed = FALSE /\ s.anchor <= s1.anchor /\ s.index \in Nat
      /\ s.anchor \in Nat /\ s1.anchor \in Nat /\ s.anchor <= s.index
  BY StreamFields DEF LikeStream, Ready, GoesOn, StreamOK
<1>3. Leads(p.state, p1.state) => Fixed(p, s) <= Fixed(p1, s1)
  <2>1. CASE p1.state \in BodyStates
    <3>1. Leads(p.state, p1.state) => p.state \in BodyStates \cup {"HN"}
      BY <2>1 DEF Leads, BodyStates
    <3> QED
      BY <1>2, <2>1, <3>1 DEF Fixed, BodyStates
  <2>2. CASE p1.state \notin BodyStates
    BY <1>2, <2>2 DEF Fixed
  <2> QED
    BY <2>1, <2>2
<1>4. \/ tok.type = "NONE" \/ Ends(tok)
      \/ tok.index + tok.len <= Fixed(p1, s1)
  BY <1>2 DEF Fixed
<1>5. r = Result(r.p, r.s, r.tok)
  BY <1>1
<1> HIDE DEF r
<1> QED
  BY <1>1, <1>2, <1>3, <1>4, <1>5 DEF Before, r

LEMMA TableNames ==
    /\ DOMAIN hs_meta_transitions =
          {"WFK", "ANY", "MTE", "MCL", "CLV", "MCK", "SML", "CHK", "BIG", "ZER",
           "CSZ", "CBD", "LST", "STR", "SEN", "BDY", "END"}
    /\ hs_state = {"ST", "MT", "MS", "TR", "TS", "VN", "RR", "RN", "HK", "HS",
                   "HV", "HR", "HE", "ER", "HN", "BD", "CS", "CE", "CR", "CN",
                   "CB", "CD", "C1", "C2", "BR"}
  BY DEF hs_meta_transitions, hs_state, Moves

\* The stream after a token was begun, after it was handed out, and after
\* the anchor was set.
LEMMA BegunLike ==
    ASSUME NEW s \in hs_stream_t, StreamOK(s), s.token.type = "NONE", NEW to
    PROVE  /\ to \notin DOMAIN hs_token_start_states => LikeStream(s, Begun(s, to), "NONE")
           /\ to \in DOMAIN hs_token_start_states
                 => LikeStream(s, Begun(s, to), hs_token_start_states[to])
           /\ Begun(s, to).token.len = 0 /\ Begun(s, to).anchor = s.anchor
<1>1. s.token.len = 0 /\ s.anchor <= s.index /\ s.anchor <= s.anchor
  BY StreamFields DEF StreamOK
<1>2. CASE to \notin DOMAIN hs_token_start_states
  <2>1. Begun(s, to) = s
    BY <1>2 DEF Begun
  <2> QED
    BY <1>1, <1>2, <2>1 DEF LikeStream
<1>3. CASE to \in DOMAIN hs_token_start_states
  <2>1. Begun(s, to) = hs_stream_begin_token(s, hs_token_start_states[to])
    BY <1>3 DEF Begun
  <2>2. hs_token_start_states[to] \in TokenType
    BY <1>3, StartStates
  <2> QED
    BY <1>1, <1>3, <2>1, <2>2, BegunOK DEF LikeStream
<1> QED
  BY <1>2, <1>3

LEMMA EmittedLike ==
    ASSUME NEW s \in hs_stream_t, StreamOK(s)
    PROVE  LikeStream(s, hs_stream_emit(s), "NONE")
<1>1. s.anchor <= s.anchor
  BY StreamFields
<1> QED
  BY <1>1, EmittedOK, NoTokenType DEF LikeStream, StreamOK

LEMMA SameLike ==
    ASSUME NEW s \in hs_stream_t, StreamOK(s)
    PROVE  LikeStream(s, s, s.token.type)
<1>1. s.anchor <= s.anchor
  BY StreamFields
<1> QED
  BY <1>1 DEF LikeStream

LEMMA AnchoredLike ==
    ASSUME NEW s \in hs_stream_t, StreamOK(s), s.token.type = "NONE", NEW from
    PROVE  /\ LikeStream(s, Anchored(s, from), "NONE")
           /\ from = "HN" => Anchored(s, from).anchor = s.index
<1> DEFINE x == [s EXCEPT !.anchor = s.index]
<1>1. /\ x \in hs_stream_t /\ x.buf = s.buf /\ x.index = s.index
      /\ x.consumed = s.consumed /\ x.token = s.token /\ x.anchor = s.index
  BY DEF hs_stream_t
<1> HIDE DEF x
<1>2. StreamOK(x) /\ s.anchor <= x.anchor /\ s.anchor <= s.anchor
  BY <1>1, StreamFields DEF StreamOK
<1> QED
  BY <1>1, <1>2 DEF Anchored, LikeStream, x

\* The words of the request line and the line ends, which change no meta state.
LEMMA WordMoves ==
    ASSUME NEW p, NEW s, Ready(p, s), NEW c \in Char,
           NEW to \in {"MT", "TR", "VN", "RN", "HE", "ER", "C1", "CN"},
           Leads(p.state, to)
    PROVE  Before(p, s, hs_transition_action([p EXCEPT !.state = to], s, c, p.state, to))
<1> DEFINE q == [p EXCEPT !.state = to]
           r == Entering(Result(q, s, NoToken), p.state, to)
<1>0. p \in http_parser_t /\ s \in hs_stream_t /\ to \in hs_state
  BY TableNames DEF Ready
<1>1. hs_transition_action(q, s, c, p.state, to) = r
  BY ActionForms
<1>2. NoToken \in http_token_t
  BY NoTokenType
<1>3. p.state # "HN"
  BY DEF Leads
<1>4. CASE p.state = to
  <2>1. r = Result(q, s, NoToken)
    BY <1>4, EnteringForms
  <2>2. Like(p, q, to, p.meta)
    BY <1>0, SameParser
  <2> HIDE DEF q, r
  <2>3. GoesOn(q, s) /\ q.meta # "SEN"
    BY <1>4, <2>2 DEF Ready, GoesOn, Like, MetaOK, CountOK, TokenOK
  <2>4. LikeStream(s, s, s.token.type)
    BY <1>0, SameLike DEF Ready, GoesOn
  <2>5. q \in http_parser_t /\ q.state = to /\ NoToken.type = "NONE"
    BY <2>2, NoTokenType DEF Like
  <2>6. Before(p, s, Result(q, s, NoToken))
    BY <1>0, <1>2, <1>3, <2>3, <2>4, <2>5, Gives
  <2> QED
    BY <1>1, <2>1, <2>6 DEF q
<1>5. CASE p.state # to
  <2> DEFINE p1 == Zeroed(q, to)
             s1 == Begun(s, to)
  <2>1. p.state \notin {"HN", "CS"} /\ s.token.type = "NONE"
    BY <1>5 DEF Ready, GoesOn, TokenOK, Leads
  <2>2. r = Result(p1, s1, NoToken)
    <3>1. Anchored(s, p.state) = s
      BY <2>1 DEF Anchored
    <3>2. to # "HS" /\ to # "HK" /\ p.state # "CS"
      BY <2>1
    <3> HIDE DEF q
    <3> QED
      BY <1>5, <3>1, <3>2, EnteringForms
  <2>3. Like(p, p1, to, p.meta)
    BY <1>0, SameParser
  <2>4. \E type : LikeStream(s, s1, type) /\ (to \notin {"MT", "TR", "VN"} => type = "NONE")
    BY <1>0, <2>1, BegunLike, StartStates DEF Ready, GoesOn
  <2> HIDE DEF q, r, p1, s1
  <2>5. GoesOn(p1, s1) /\ p1.meta # "SEN"
    BY <1>5, <2>3, <2>4 DEF Ready, GoesOn, Like, LikeStream, MetaOK, CountOK, TokenOK, Leads
  <2>6. p1 \in http_parser_t /\ p1.state = to /\ NoToken.type = "NONE"
    BY <2>3, NoTokenType DEF Like
  <2>7. Before(p, s, Result(p1, s1, NoToken))
    BY <1>0, <1>2, <1>3, <2>4, <2>5, <2>6, Gives
  <2> QED
    BY <1>1, <2>2, <2>7 DEF q
<1> QED
  BY <1>4, <1>5

\* The end of a word, and of the request line.
LEMMA EndOfWord ==
    ASSUME NEW p, NEW s, Ready(p, s), NEW c \in Char,
           NEW to \in {"MS", "TS", "RR", "HR"}, Leads(p.state, to)
    PROVE  Before(p, s, hs_transition_action([p EXCEPT !.state = to], s, c, p.state, to))
<1> DEFINE q == [p EXCEPT !.state = to]
           r == Entering(Result(q, s, NoToken), p.state, to)
           p1 == Zeroed(q, to)
           m == IF to \in {"MS", "TS"} THEN p.meta ELSE hs_meta_transitions[p.meta][END_VALUE]
           p2 == IF to \in {"MS", "TS"} THEN p1 ELSE hs_trigger_meta(p1, END_VALUE)
           s1 == hs_stream_emit(s)
<1>1. /\ p \in http_parser_t /\ s \in hs_stream_t /\ to \in hs_state
      /\ s.token \in http_token_t
  BY TableNames, StreamFields DEF Ready
<1>2. p.state \notin {"HN", "CS", to}
  BY DEF Leads
<1>3. r = Result(p1, s, NoToken)
  <2>1. Anchored(s, p.state) = s /\ Begun(s, to) = s
    BY <1>2, StartStates DEF Anchored, Begun
  <2>2. to # "HS" /\ to # "HK" /\ p.state # "CS" /\ p.state # to
    BY <1>2
  <2> HIDE DEF q
  <2> QED
    BY <2>1, <2>2, EnteringForms
<1>4. Like(p, p1, to, p.meta)
  BY <1>1, SameParser
<1>5. LikeStream(s, s1, "NONE")
  BY <1>1, EmittedLike DEF Ready, GoesOn
<1>6. hs_transition_action(q, s, c, p.state, to) = Result(p2, s1, s.token)
  <2>1. CASE to \in {"MS", "TS"}
    <3>1. hs_transition_action(q, s, c, p.state, to) = Emit(r)
      BY <2>1, ActionForms
    <3> HIDE DEF q, p1, r
    <3> QED
      BY <1>3, <2>1, <3>1, ResultSteps
  <2>2. CASE to \in {"RR", "HR"}
    <3>1. hs_transition_action(q, s, c, p.state, to) = Emit(Trigger(r, END_VALUE))
      BY <2>2, ActionForms
    <3> HIDE DEF q, p1, r
    <3> QED
      BY <1>3, <2>2, <3>1, ResultSteps
  <2> QED
    BY <2>1, <2>2
<1> HIDE DEF q, r, p1, s1
<1>7. /\ m \in DOMAIN hs_meta_transitions
      /\ Like(p, p2, to, m)
      /\ p2 \in http_parser_t /\ GoesOn(p2, s1) /\ p2.meta # "SEN"
  <2>1. CASE to \in {"MS", "TS"}
    <3>1. m = p.meta /\ m = "WFK" /\ p2 = p1
      BY <2>1 DEF Ready, GoesOn, MetaOK, Leads
    <3> HIDE DEF m, p2
    <3> QED
      BY <1>4, <1>5, <2>1, <3>1, TableNames
      DEF Ready, GoesOn, Like, LikeStream, MetaOK, CountOK, TokenOK, Leads
  <2>2. CASE to = "RR"
    <3>1. p.meta = "WFK"
      BY <2>2 DEF Ready, GoesOn, MetaOK, Leads
    <3>2. m = "ANY"
      BY <2>2, <3>1 DEF hs_meta_transitions, END_VALUE
    <3>3. Like(p1, p2, to, m)
      BY <1>4, <2>2, <3>2, TableNames, Triggered DEF Like
    <3> HIDE DEF m, p2
    <3> QED
      BY <1>4, <1>5, <2>2, <3>1, <3>2, <3>3, TableNames
      DEF Ready, GoesOn, Like, LikeStream, MetaOK, CountOK, TokenOK, Leads
  <2>3. CASE to = "HR"
    <3>1. p.meta \in {"MCK", "CLV", "WFK", "SML", "CHK"}
      BY <2>3 DEF Ready, GoesOn, MetaOK, Leads
    <3>2. m = CASE p.meta = "MCK" -> "CHK" [] p.meta = "CLV" -> "SML"
                [] p.meta = "WFK" -> "ANY" [] OTHER -> p.meta
      BY <2>3, <3>1 DEF hs_meta_transitions, END_VALUE
    <3>3. Like(p1, p2, to, m)
      BY <1>4, <2>3, <3>1, <3>2, TableNames, Triggered DEF Like
    <3> HIDE DEF m, p2
    <3> QED
      BY <1>4, <1>5, <2>3, <3>1, <3>2, <3>3, TableNames
      DEF Ready, GoesOn, Like, LikeStream, MetaOK, CountOK, TokenOK, Leads
  <2> QED
    BY <2>1, <2>2, <2>3
<1>8. s.token.index + s.token.len <= s.index /\ to \notin BodyStates
  BY DEF Ready, GoesOn, StreamOK, BodyStates
<1> QED
  <2> HIDE DEF m, p2
  <2>1. p2 \in http_parser_t /\ p2.state = to /\ p.state # "HN"
    BY <1>7 DEF Like, Leads
  <2>2. Before(p, s, Result(p2, s1, s.token))
    BY <1>1, <1>5, <1>7, <1>8, <2>1, Gives
  <2> QED
    BY <1>2, <1>6, <2>2 DEF q

\* The end of a key, and the spaces behind it.
LEMMA EndOfKey ==
    ASSUME NEW p, NEW s, Ready(p, s), NEW c \in Char, Leads(p.state, "HS")
    PROVE  Before(p, s, hs_transition_action([p EXCEPT !.state = "HS"], s, c, p.state, "HS"))
<1> DEFINE q == [p EXCEPT !.state = "HS"]
           r == Entering(Result(q, s, NoToken), p.state, "HS")
<1>1. /\ p \in http_parser_t /\ s \in hs_stream_t /\ "HS" \in hs_state
      /\ s.token \in http_token_t /\ NoToken \in http_token_t
  BY TableNames, StreamFields, NoTokenType DEF Ready
<1>2. hs_transition_action(q, s, c, p.state, "HS") = r
  BY ActionForms
<1>3. CASE p.state = "HS"
  <2>1. r = Result(q, s, NoToken)
    BY <1>3, EnteringForms
  <2>2. Like(p, q, "HS", p.meta)
    BY <1>1, SameParser
  <2> HIDE DEF q, r
  <2>3. GoesOn(q, s) /\ q.meta # "SEN"
    BY <1>3, <2>2 DEF Ready, GoesOn, Like, MetaOK, CountOK, TokenOK
  <2>4. LikeStream(s, s, s.token.type)
    BY <1>1, SameLike DEF Ready, GoesOn
  <2>5. q \in http_parser_t /\ q.state = "HS" /\ NoToken.type = "NONE" /\ p.state # "HN"
    BY <1>3, <2>2, NoTokenType DEF Like
  <2>6. Before(p, s, Result(q, s, NoToken))
    BY <1>1, <2>3, <2>4, <2>5, Gives
  <2> QED
    BY <1>2, <2>1, <2>6 DEF q
<1>4. CASE p.state = "HK"
  <2> DEFINE p1 == Zeroed(q, "HS")
             p2 == hs_trigger_meta(p1, END_KEY)
             s1 == hs_stream_emit(s)
             m == hs_meta_transitions[p.meta][END_KEY]
  <2>1. r = Result(p2, s1, s.token)
    <3> HIDE DEF q
    <3> QED
      BY <1>4, EnteringForms
  <2>2. Like(p, p1, "HS", p.meta)
    BY <1>1, SameParser
  <2>3. LikeStream(s, s1, "NONE")
    BY <1>1, EmittedLike DEF Ready, GoesOn
  <2> HIDE DEF q, r, p1, s1
  <2>4. p.meta \in {"MTE", "MCL", "WFK", "SML", "CHK"}
    BY <1>4 DEF Ready, GoesOn, MetaOK
  <2>5. m = CASE p.meta = "MTE" -> "MCK" [] p.meta = "MCL" -> "CLV" [] OTHER -> p.meta
    BY <2>4 DEF hs_meta_transitions, END_KEY
  <2>6. Like(p1, p2, "HS", m)
    BY <2>2, <2>4, <2>5, TableNames, Triggered DEF Like
  <2> HIDE DEF m, p2
  <2>7. p2 \in http_parser_t /\ GoesOn(p2, s1) /\ p2.meta # "SEN"
    BY <1>4, <2>2, <2>3, <2>4, <2>5, <2>6
    DEF Ready, GoesOn, Like, LikeStream, MetaOK, CountOK, TokenOK
  <2> QED
    <3>1. s.token.index + s.token.len <= s.index /\ "HS" \notin BodyStates
      BY DEF Ready, GoesOn, StreamOK, BodyStates
    <3>2. p2.state = "HS" /\ p.state # "HN"
      BY <1>4, <2>6 DEF Like
    <3>3. Before(p, s, Result(p2, s1, s.token))
      BY <1>1, <2>3, <2>7, <3>1, <3>2, Gives
    <3> QED
      BY <1>2, <2>1, <3>3 DEF q
<1> QED
  BY <1>3, <1>4 DEF Leads

\* A character of a header name: after the first one the name is no longer
\* any name.
LEMMA KeyMoves ==
    ASSUME NEW p, NEW s, Ready(p, s), NEW c \in Char, Leads(p.state, "HK")
    PROVE  Before(p, s, hs_transition_action([p EXCEPT !.state = "HK"], s, c, p.state, "HK"))
<1> DEFINE q == [p EXCEPT !.state = "HK"]
           r == Entering(Result(q, s, NoToken), p.state, "HK")
<1>1. /\ p \in http_parser_t /\ s \in hs_stream_t /\ "HK" \in hs_state
      /\ NoToken \in http_token_t /\ s.consumed = FALSE
  BY TableNames, NoTokenType DEF Ready
<1>2. hs_transition_action(q, s, c, p.state, "HK") = HeaderKey(r, c)
  BY ActionForms
<1>3. PICK p1, s1, tok, type :
          /\ r = Result(p1, s1, tok) /\ Like(p, p1, "HK", p.meta)
          /\ LikeStream(s, s1, type) /\ tok \in http_token_t
          /\ tok.type = "ERROR" \/ tok = NoToken
          /\ p.state # "HK" => p1.match_index = 0
  <2>1. CASE p.state = "HK"
    <3>1. r = Result(q, s, NoToken)
      BY <2>1, EnteringForms
    <3>2. Like(p, q, "HK", p.meta)
      BY <1>1, SameParser
    <3>3. LikeStream(s, s, s.token.type)
      BY <1>1, SameLike DEF Ready, GoesOn
    <3> HIDE DEF q, r
    <3> QED
      BY <1>1, <2>1, <3>1, <3>2, <3>3
  <2>2. CASE p.state # "HK"
    <3> DEFINE z == Zeroed(q, "HK")
               b == Begun(s, "HK")
               err == [NoToken EXCEPT !.type = "ERROR"]
    <3>1. p.state \in {"RN", "HE"} /\ s.token.type = "NONE"
      BY <2>2 DEF Ready, GoesOn, TokenOK, Leads
    <3>2. r = Result(z, b, NoToken) \/ r = Result(z, b, err)
      <4>1. Anchored(s, p.state) = s
        BY <3>1 DEF Anchored
      <4>2. "HK" # "HS" /\ p.state # "CS"
        BY <3>1
      <4> HIDE DEF q
      <4> QED
        BY <2>2, <4>1, <4>2, EnteringForms
    <3>3. Like(p, z, "HK", p.meta) /\ z.match_index = 0
      BY <1>1, SameParser
    <3>4. LikeStream(s, b, hs_token_start_states["HK"])
      BY <1>1, <3>1, BegunLike, StartStates DEF Ready, GoesOn
    <3>5. err \in http_token_t /\ err.type = "ERROR"
      BY NoTokenType DEF TokenType
    <3> HIDE DEF q, r, z, b, err
    <3> QED
      BY <1>1, <3>2, <3>3, <3>4, <3>5
  <2> QED
    BY <2>1, <2>2
<1> HIDE DEF q, r
<1> DEFINE te == MatchChar(TransferEncoding, p1.match_index, 0)
           cl == MatchChar(ContentLength, p1.match_index, te)
           p2 == HS_MATCH(p1, c, te, NOT_TRANSFER_ENC)
           p3 == HS_MATCH(p2, c, cl, NOT_CONTENT_LEN)
           p4 == [p3 EXCEPT !.match_index = p3.match_index + 1]
<1>4. HeaderKey(r, c) = Result(p4, s1, tok)
  <2>1. r.p = p1 /\ [r EXCEPT !.p = p4] = Result(p4, s1, tok)
    <3> HIDE DEF p4
    <3> QED
      BY <1>3, ResultFields
  <2>2. HeaderKey(r, c) = [r EXCEPT !.p = p4]
    BY <2>1 DEF HeaderKey
  <2> QED
    BY <2>1, <2>2
<1>5. /\ p.meta \in {"MTE", "MCL", "WFK", "SML", "CHK", "ANY"}
      /\ p.meta = "ANY" => te # cl
  <2>1. /\ p.meta \in {"MTE", "MCL", "WFK", "SML", "CHK", "ANY"}
        /\ p.meta = "ANY" => p.state # "HK"
    BY DEF Ready, GoesOn, MetaOK, Leads
  <2>2. ASSUME p.meta = "ANY" PROVE te # cl
    <3>1. p1.match_index = 0
      BY <1>3, <2>1, <2>2
    <3>2. /\ TransferEncoding \in Seq(Char) /\ ContentLength \in Seq(Char)
          /\ TransferEncoding # <<>> /\ ContentLength # <<>>
          /\ TransferEncoding[1] # ContentLength[1]
      BY MatchAssumption DEF Text
    <3>3. 0 < Len(TransferEncoding) /\ 0 < Len(ContentLength)
      BY <3>2
    <3>4. te = TransferEncoding[1] /\ cl = ContentLength[1]
      BY <3>1, <3>3 DEF MatchChar
    <3> QED
      BY <3>2, <3>4
  <2> QED
    BY <2>1, <2>2
<1> HIDE DEF te, cl
<1>6. \E m \in {"MTE", "MCL", "WFK", "SML", "CHK"} :
          /\ Like(p, p3, "HK", m)
          /\ m \in {"MTE", "MCL", "WFK", "CHK"} => p.content_length = 0
  <2>0. p1 \in http_parser_t /\ p1.meta = p.meta
    BY <1>3 DEF Like
  <2>1. \E m \in {"MTE", "MCL", "WFK", "SML", "CHK", "ANY"} :
          /\ Like(p, p2, "HK", m)
          /\ m = "ANY" => Low(c) = te /\ te # cl
          /\ m \in {"MTE", "MCL", "WFK", "CHK", "ANY"} => p.content_length = 0
    <3>1. p.meta \in {"MTE", "MCL", "WFK", "CHK", "ANY"} => p.content_length = 0
      BY DEF Ready, GoesOn, CountOK
    <3>2. CASE Low(c) = te
      <4>1. p2 = p1
        BY <3>2 DEF HS_MATCH
      <4> HIDE DEF p2
      <4> QED
        BY <1>3, <1>5, <3>1, <3>2, <4>1
    <3>3. CASE Low(c) # te
      <4> DEFINE m == hs_meta_transitions[p1.meta][NOT_TRANSFER_ENC]
      <4>1. p2 = hs_trigger_meta(p1, NOT_TRANSFER_ENC)
        BY <3>3 DEF HS_MATCH
      <4>2. m = CASE p.meta = "MTE" -> "WFK" [] p.meta = "ANY" -> "MCL" [] OTHER -> p.meta
        BY <1>5, <2>0 DEF hs_meta_transitions, NOT_TRANSFER_ENC
      <4>3. Like(p1, p2, p1.state, m)
        BY <1>5, <2>0, <4>1, <4>2, TableNames, Triggered
      <4> HIDE DEF p2, m
      <4> QED
        BY <1>3, <1>5, <3>1, <4>2, <4>3 DEF Like
    <3> QED
      BY <3>2, <3>3
  <2> HIDE DEF p2
  <2>2. PICK m \in {"MTE", "MCL", "WFK", "SML", "CHK", "ANY"} :
          /\ Like(p, p2, "HK", m)
          /\ m = "ANY" => Low(c) = te /\ te # cl
          /\ m \in {"MTE", "MCL", "WFK", "CHK", "ANY"} => p.content_length = 0
    BY <2>1
  <2>3. CASE Low(c) = cl
    <3>1. p3 = p2
      BY <2>3 DEF HS_MATCH
    <3> HIDE DEF p3
    <3> QED
      BY <2>2, <2>3, <3>1
  <2>4. CASE Low(c) # cl
    <3> DEFINE n == hs_meta_transitions[p2.meta][NOT_CONTENT_LEN]
    <3>0. p2 \in http_parser_t /\ p2.meta = m
      BY <2>2 DEF Like
    <3>1. p3 = hs_trigger_meta(p2, NOT_CONTENT_LEN)
      BY <2>4 DEF HS_MATCH
    <3>2. n = CASE m = "MCL" -> "WFK" [] m = "ANY" -> "MTE" [] OTHER -> m
      BY <2>2, <3>0 DEF hs_meta_transitions, NOT_CONTENT_LEN
    <3>3. Like(p2, p3, p2.state, n)
      BY <2>2, <3>0, <3>1, <3>2, TableNames, Triggered
    <3> HIDE DEF p3, n
    <3> QED
      BY <2>2, <3>2, <3>3 DEF Like
  <2> QED
    BY <2>3, <2>4
<1> HIDE DEF p3
<1>7. PICK m \in {"MTE", "MCL", "WFK", "SML", "CHK"} :
          /\ Like(p, p3, "HK", m)
          /\ m \in {"MTE", "MCL", "WFK", "CHK"} => p.content_length = 0
  BY <1>6
<1>8. Like(p, p4, "HK", m)
  <2>1. p3 \in http_parser_t /\ p3.match_index + 1 \in Int
    BY <1>7 DEF Like, http_parser_t
  <2> QED
    BY <1>7, <2>1 DEF Like, http_parser_t
<1> HIDE DEF p4
<1>9. /\ p4 \in http_parser_t
      /\ Ends(tok) \/ (p4.meta # "SEN" /\ GoesOn(p4, s1))
  <2>1. p.body_consumed = 0
    BY DEF Ready, GoesOn, CountOK, Leads
  <2> QED
    BY <1>3, <1>7, <1>8, <2>1
    DEF Ready, GoesOn, Like, LikeStream, MetaOK, CountOK, TokenOK
<1> QED
  <2>1. p4.state = "HK" /\ p.state # "HN"
    BY <1>8 DEF Like, Leads
  <2>2. tok.type = "NONE" \/ Ends(tok)
    BY <1>3, NoTokenType DEF Ends
  <2>3. Before(p, s, Result(p4, s1, tok))
    BY <1>1, <1>3, <1>9, <2>1, <2>2, Gives
  <2> QED
    BY <1>2, <1>4, <2>3 DEF q

\* A character of a header value; of a content length it is a digit.
LEMMA ValueMoves ==
    ASSUME NEW p, NEW s, Ready(p, s), NEW c \in Char, Leads(p.state, "HV"),
           p.meta = "CLV" => c \in DIGIT
    PROVE  Before(p, s, hs_transition_action([p EXCEPT !.state = "HV"], s, c, p.state, "HV"))
<1> DEFINE q == [p EXCEPT !.state = "HV"]
           r == Entering(Result(q, s, NoToken), p.state, "HV")
<1>1. /\ p \in http_parser_t /\ s \in hs_stream_t /\ "HV" \in hs_state
      /\ NoToken \in http_token_t /\ s.consumed = FALSE
  BY TableNames, NoTokenType DEF Ready
<1>2. hs_transition_action(q, s, c, p.state, "HV") = HeaderVal(r, c)
  BY ActionForms
<1>3. PICK p1, s1, type :
          /\ r = Result(p1, s1, NoToken) /\ Like(p, p1, "HV", p.meta)
          /\ LikeStream(s, s1, type)
  <2>1. CASE p.state = "HV"
    <3>1. r = Result(q, s, NoToken)
      BY <2>1, EnteringForms
    <3>2. Like(p, q, "HV", p.meta)
      BY <1>1, SameParser
    <3>3. LikeStream(s, s, s.token.type)
      BY <1>1, SameLike DEF Ready, GoesOn
    <3> HIDE DEF q, r
    <3> QED
      BY <3>1, <3>2, <3>3
  <2>2. CASE p.state # "HV"
    <3> DEFINE z == Zeroed(q, "HV")
               b == Begun(s, "HV")
    <3>1. p.state = "HS" /\ s.token.type = "NONE"
      BY <2>2 DEF Ready, GoesOn, TokenOK, Leads
    <3>2. r = Result(z, b, NoToken)
      <4>1. Anchored(s, p.state) = s
        BY <3>1 DEF Anchored
      <4>2. "HV" # "HS" /\ "HV" # "HK" /\ p.state # "CS"
        BY <3>1
      <4> HIDE DEF q
      <4> QED
        BY <2>2, <4>1, <4>2, EnteringForms
    <3>3. Like(p, z, "HV", p.meta)
      BY <1>1, SameParser
    <3>4. LikeStream(s, b, hs_token_start_states["HV"])
      BY <1>1, <3>1, BegunLike, StartStates DEF Ready, GoesOn
    <3> HIDE DEF q, r, z, b
    <3> QED
      BY <3>2, <3>3, <3>4
  <2> QED
    BY <2>1, <2>2
<1> HIDE DEF q, r
<1>4. /\ p1 \in http_parser_t /\ p1.meta = p.meta /\ p1.state = "HV"
      /\ p1.content_length = p.content_length /\ p1.body_consumed = 0
      /\ p.content_length \in Nat /\ p1.match_index \in Int
      /\ p.meta \in {"MCK", "CLV", "WFK", "SML", "CHK"}
      /\ p.meta \in {"MCK", "WFK", "CHK"} => p.content_length = 0
      /\ r.p = p1
  BY <1>3, ResultFields
  DEF Ready, GoesOn, Like, CountOK, MetaOK, Leads, http_parser_t
<1>5. \E p2 \in http_parser_t :
          /\ HeaderVal(r, c) = Result(p2, s1, NoToken)
          /\ p2.state = "HV" /\ p2.meta \in {"MCK", "CLV", "WFK", "SML", "CHK"}
          /\ p2.content_length \in Nat /\ p2.body_consumed = 0
          /\ p2.meta \in {"MCK", "WFK", "CHK"} => p2.content_length = 0
  <2>1. CASE p.meta = "MCK"
    <3> DEFINE ck == MatchChar(Chunked, p1.match_index, 0)
               p2 == HS_MATCH(p1, c, ck, NOT_CHUNKED)
               p3 == [p2 EXCEPT !.match_index = p2.match_index + 1]
    <3>1. HeaderVal(r, c) = [r EXCEPT !.p = p3]
      <4>1. HeaderVal(r, c)
            = CASE p1.meta = "MCK" -> [r EXCEPT !.p = p3]
                [] p1.meta = "CLV" -> [r EXCEPT !.p.content_length = 10 * @ + (c - 48)]
                [] OTHER -> r
        BY <1>4, Zenon DEF HeaderVal
      <4>2. p1.meta = "MCK" /\ p1.meta # "CLV"
        BY <1>4, <2>1
      <4> HIDE DEF p3
      <4> QED
        BY <4>1, <4>2, Zenon
    <3>2. [r EXCEPT !.p = p3] = Result(p3, s1, NoToken)
      <4> HIDE DEF p3
      <4> QED
        BY <1>3, ResultFields
    <3>3. \E m \in {"MCK", "WFK"} : Like(p1, p2, "HV", m)
      <4>1. CASE Low(c) = ck
        <5>1. p2 = p1
          BY <4>1 DEF HS_MATCH
        <5> HIDE DEF p2
        <5> QED
          BY <1>4, <2>1, <5>1 DEF Like
      <4>2. CASE Low(c) # ck
        <5>1. p2 = hs_trigger_meta(p1, NOT_CHUNKED)
          BY <4>2 DEF HS_MATCH
        <5>2. hs_meta_transitions[p1.meta][NOT_CHUNKED] = "WFK"
          BY <1>4, <2>1 DEF hs_meta_transitions, NOT_CHUNKED
        <5> HIDE DEF p2
        <5> QED
          BY <1>4, <5>1, <5>2, Triggered, TableNames
      <4> QED
        BY <4>1, <4>2
    <3> HIDE DEF p2
    <3>4. \E m \in {"MCK", "WFK"} : Like(p1, p3, "HV", m)
      <4>1. PICK m \in {"MCK", "WFK"} : Like(p1, p2, "HV", m)
        BY <3>3
      <4>2. p2 \in http_parser_t /\ p2.match_index + 1 \in Int
        BY <4>1 DEF Like, http_parser_t
      <4> QED
        BY <4>1, <4>2 DEF Like, http_parser_t
    <3> HIDE DEF p3
    <3> QED
      BY <1>4, <2>1, <3>1, <3>2, <3>4 DEF Like
  <2>2. CASE p.meta = "CLV"
    <3> DEFINE n == 10 * p1.content_length + (c - 48)
               p2 == [p1 EXCEPT !.content_length = n]
    <3>1. n \in Nat
      BY <1>4, <2>2 DEF DIGIT
    <3>2. p2 = [p1 EXCEPT !.content_length = 10 * @ + (c - 48)]
      OBVIOUS
    <3>3. HeaderVal(r, c) = [r EXCEPT !.p = p2]
      <4>1. HeaderVal(r, c) = [r EXCEPT !.p.content_length = 10 * @ + (c - 48)]
        <5>1. p1.meta # "MCK"
          BY <1>4, <2>2
        <5> QED
          BY <1>4, <2>2, <5>1, Zenon DEF HeaderVal
      <4>2. [r EXCEPT !.p.content_length = 10 * @ + (c - 48)]
            = [r EXCEPT !.p = [r.p EXCEPT !.content_length = 10 * @ + (c - 48)]]
        OBVIOUS
      <4> QED
        BY <1>4, <4>1, <4>2
    <3> HIDE DEF n
    <3>4. /\ p2 \in http_parser_t /\ p2.state = "HV" /\ p2.meta = "CLV"
          /\ p2.content_length = n /\ p2.body_consumed = 0
      BY <1>4, <2>2, <3>1 DEF http_parser_t
    <3> HIDE DEF p2
    <3>5. [r EXCEPT !.p = p2] = Result(p2, s1, NoToken)
      BY <1>3, ResultFields
    <3> QED
      BY <3>1, <3>3, <3>4, <3>5
  <2>3. CASE p.meta \notin {"MCK", "CLV"}
    <3>1. HeaderVal(r, c) = r
      <4>1. p1.meta # "MCK" /\ p1.meta # "CLV"
        BY <1>4, <2>3
      <4> QED
        BY <1>4, <4>1, Zenon DEF HeaderVal
    <3> QED
      BY <1>3, <1>4, <2>3, <3>1
  <2> QED
    BY <2>1, <2>2, <2>3
<1>6. PICK p2 \in http_parser_t :
          /\ HeaderVal(r, c) = Result(p2, s1, NoToken)
          /\ p2.state = "HV" /\ p2.meta \in {"MCK", "CLV", "WFK", "SML", "CHK"}
          /\ p2.content_length \in Nat /\ p2.body_consumed = 0
          /\ p2.meta \in {"MCK", "WFK", "CHK"} => p2.content_length = 0
  BY <1>5
<1>7. p2.meta # "SEN" /\ GoesOn(p2, s1)
  BY <1>3, <1>6 DEF GoesOn, LikeStream, MetaOK, CountOK, TokenOK
<1> QED
  <2>1. p.state # "HN"
    BY DEF Leads
  <2>2. Before(p, s, Result(p2, s1, NoToken))
    BY <1>1, <1>3, <1>6, <1>7, <2>1, NoTokenType, Gives
  <2> QED
    BY <1>2, <1>6, <2>2 DEF q

\* The end of the headers.
LEMMA HeadersEnd ==
    ASSUME NEW p, NEW s, Ready(p, s), NEW c \in Char, Leads(p.state, "HN")
    PROVE  Before(p, s, hs_transition_action([p EXCEPT !.state = "HN"], s, c, p.state, "HN"))
<1> DEFINE q == [p EXCEPT !.state = "HN"]
           r == Entering(Result(q, s, NoToken), p.state, "HN")
           p0 == Zeroed(q, "HN")
<1>1. /\ p \in http_parser_t /\ s \in hs_stream_t /\ "HN" \in hs_state
      /\ s.consumed = FALSE /\ p.state = "ER" /\ s.token.type = "NONE"
  BY TableNames DEF Ready, Leads, GoesOn, TokenOK
<1>2. hs_transition_action(q, s, c, p.state, "HN") = EndOfHeaders(r)
  BY ActionForms
<1>3. r = Result(p0, s, NoToken)
  <2>1. Anchored(s, p.state) = s /\ Begun(s, "HN") = s
    BY <1>1, StartStates DEF Anchored, Begun
  <2>2. "HN" # "HS" /\ "HN" # "HK" /\ p.state # "CS" /\ p.state # "HN"
    BY <1>1
  <2> HIDE DEF q
  <2> QED
    BY <2>1, <2>2, EnteringForms
<1>4. Like(p, p0, "HN", p.meta)
  BY <1>1, SameParser
<1> HIDE DEF q, r, p0
<1>5. /\ p0 \in http_parser_t /\ p0.meta = p.meta /\ p0.state = "HN"
      /\ p0.content_length \in Nat /\ p0.body_consumed = 0
      /\ p.meta \in {"CHK", "SML", "ANY"}
      /\ p.meta # "SML" => p0.content_length = 0
      /\ r.p = p0 /\ r.s = s /\ r.tok = NoToken
  BY <1>1, <1>3, <1>4, ResultFields DEF Ready, GoesOn, Like, CountOK, MetaOK
<1> DEFINE p1 == IF Large(r) THEN hs_trigger_meta(p0, LARGE_BODY) ELSE p0
           p2 == hs_trigger_meta(p1, END_HEADERS)
           p3 == IF p2.content_length = 0 /\ p2.meta = "BDY"
                 THEN [p2 EXCEPT !.meta = "END"] ELSE p2
           type == CASE p3.meta = "END" -> "BODY"
                     [] p1.meta \in {"BIG", "CHK"} -> "BODY_STREAM"
                     [] OTHER -> "NONE"
           tok == [NoToken EXCEPT !.type = type]
<1>6. EndOfHeaders(r) = Result(p3, s, tok)
  <2>1. EndOfHeaders(r) = [r EXCEPT !.p = p3,
                                    !.tok.type = CASE p3.meta = "END" -> "BODY"
                                 [] p1.meta \in {"BIG", "CHK"} -> "BODY_STREAM"
                                 [] OTHER -> @]
    BY <1>5, Zenon DEF EndOfHeaders
  <2>2. NoToken.type = "NONE"
    BY NoTokenType
  <2> DEFINE b1 == p3.meta = "END"
             b2 == p1.meta \in {"BIG", "CHK"}
  <2>3. ASSUME NEW x, NEW y
        PROVE  [r EXCEPT !.p = x, !.tok.type = y] = Result(x, s, [NoToken EXCEPT !.type = y])
    <3>1. [r EXCEPT !.p = x, !.tok.type = y]
          = [[r EXCEPT !.p = x] EXCEPT !.tok = [r.tok EXCEPT !.type = y]]
      BY <1>3 DEF Result
    <3>2. [r EXCEPT !.p = x] = Result(x, s, NoToken)
      BY <1>3, ResultFields
    <3>3. ASSUME NEW z PROVE [Result(x, s, NoToken) EXCEPT !.tok = z] = Result(x, s, z)
      BY ResultFields
    <3> QED
      BY <1>5, <3>1, <3>2, <3>3
  <2>4. EndOfHeaders(r) = [r EXCEPT !.p = p3, !.tok.type = type]
    <3> HIDE DEF p3, p1
    <3> QED
      BY <1>5, <2>1, <2>2
  <2> HIDE DEF p3, p1, type
  <2> QED
    BY <2>3, <2>4
<1>7. /\ p1 \in http_parser_t /\ p1.state = "HN" /\ p1.body_consumed = 0
      /\ p1.content_length = p0.content_length
      /\ p1.meta \in {"CHK", "SML", "ANY", "BIG"}
      /\ p1.meta = "BIG" => p0.content_length > 0
      /\ p1.meta \in {"CHK", "ANY"} => p0.content_length = 0
  <2>1. CASE Large(r)
    <3>1. p0.meta = "SML" /\ ~(MaxRequestBufSize - s.index + 1 >= p0.content_length)
      BY <1>5, <2>1 DEF Large, hs_stream_can_contain
    <3>2. p0.content_length > 0
      <4>1. /\ s.index \in Nat /\ Length(s) \in Nat /\ MaxRequestBufSize \in Nat
            /\ s.index <= Length(s) /\ Length(s) <= MaxRequestBufSize
        BY <1>1, StreamFields, LimitAssumption DEF Ready, InBuffer
      <4> QED
        BY <1>5, <3>1, <4>1
    <3>3. hs_meta_transitions[p0.meta][LARGE_BODY] = "BIG"
      BY <3>1 DEF hs_meta_transitions, LARGE_BODY
    <3>4. Like(p0, p1, "HN", "BIG")
      BY <1>5, <2>1, <3>3, Triggered, TableNames
    <3> HIDE DEF p1
    <3> QED
      BY <1>5, <3>2, <3>4 DEF Like
  <2>2. CASE ~Large(r)
    BY <1>5, <2>2
  <2> QED
    BY <2>1, <2>2
<1>8. /\ p2 \in http_parser_t /\ p2.state = "HN" /\ p2.body_consumed = 0
      /\ p2.content_length = p0.content_length
      /\ p2.meta = CASE p1.meta = "CHK" -> "ZER" [] p1.meta = "SML" -> "BDY"
                     [] p1.meta = "BIG" -> "STR" [] OTHER -> "END"
  <2> DEFINE m == hs_meta_transitions[p1.meta][END_HEADERS]
  <2> HIDE DEF p1
  <2>1. m = CASE p1.meta = "CHK" -> "ZER" [] p1.meta = "SML" -> "BDY"
              [] p1.meta = "BIG" -> "STR" [] OTHER -> "END"
    BY <1>7 DEF hs_meta_transitions, END_HEADERS
  <2>2. Like(p1, p2, "HN", m)
    BY <1>7, <2>1, Triggered, TableNames
  <2> HIDE DEF m, p2
  <2> QED
    BY <1>7, <2>1, <2>2 DEF Like
<1> HIDE DEF p1, p2
<1>9. /\ p3 \in http_parser_t /\ p3.state = "HN" /\ p3.body_consumed = 0
      /\ p3.content_length = p0.content_length
      /\ p3.meta = IF p0.content_length = 0 /\ p2.meta = "BDY" THEN "END" ELSE p2.meta
  BY <1>8, TableNames DEF http_parser_t
<1> HIDE DEF p3
<1>10. type \in TokenType /\ (p3.meta = "END" => type = "BODY")
  <2>1. p3.meta = "END" => p1.meta \notin {"BIG", "CHK"}
    BY <1>7, <1>8, <1>9
  <2> QED
    BY <2>1 DEF TokenType
<1> HIDE DEF type
<1>11. /\ tok \in http_token_t /\ tok.type = type /\ tok.index + tok.len <= s.index
       /\ "HN" \notin BodyStates
  <2>1. /\ tok \in http_token_t /\ tok.type = type /\ tok.index = 0 /\ tok.len = 0
        /\ s.index \in Nat
    BY <1>1, <1>10, NoTokenType, StreamFields
  <2> HIDE DEF tok
  <2> QED
    BY <2>1 DEF BodyStates
<1> HIDE DEF tok
<1>12. Ends(tok) \/ (p3.meta # "SEN" /\ GoesOn(p3, s))
  <2>1. CASE p3.meta = "END"
    BY <1>10, <1>11, <2>1 DEF Ends
  <2>2. CASE p3.meta # "END"
    <3>1. /\ p3.meta \in {"ZER", "BDY", "STR"}
          /\ p3.meta = "ZER" => p0.content_length = 0
          /\ p3.meta \in {"BDY", "STR"} => p0.content_length > 0
      BY <1>5, <1>7, <1>8, <1>9, <2>2
    <3> QED
      BY <1>1, <1>5, <1>9, <3>1 DEF Ready, GoesOn, MetaOK, CountOK, TokenOK
  <2> QED
    BY <2>1, <2>2
<1>13. LikeStream(s, s, "NONE")
  BY <1>1, SameLike DEF Ready, GoesOn
<1> QED
  <2>1. p.state # "HN"
    BY <1>1
  <2>2. Before(p, s, Result(p3, s, tok))
    BY <1>1, <1>9, <1>11, <1>12, <1>13, <2>1, Gives
  <2> QED
    BY <1>2, <1>6, <2>2 DEF q

\* A digit of a chunk size.
LEMMA SizeMoves ==
    ASSUME NEW p, NEW s, Ready(p, s), NEW c \in Char,
           Leads(p.state, "CS"), p.state = "HN" => p.meta = "ZER"
    PROVE  Before(p, s, hs_transition_action([p EXCEPT !.state = "CS"], s, c, p.state, "CS"))
<1> DEFINE q == [p EXCEPT !.state = "CS"]
           r == Entering(Result(q, s, NoToken), p.state, "CS")
<1>1. /\ p \in http_parser_t /\ s \in hs_stream_t /\ "CS" \in hs_state
      /\ NoToken \in http_token_t /\ s.consumed = FALSE
      /\ s.token.type = "NONE" /\ StreamOK(s)
  BY TableNames, NoTokenType DEF Ready, GoesOn, TokenOK, Leads
<1>2. hs_transition_action(q, s, c, p.state, "CS") = ChunkSize(r, c)
  BY ActionForms
<1>3. PICK p1, s1 :
          /\ r = Result(p1, s1, NoToken) /\ Like(p, p1, "CS", p.meta)
          /\ LikeStream(s, s1, "NONE")
          /\ p.state = "HN" => s1.anchor = s.index
  <2>1. CASE p.state = "CS"
    <3>1. r = Result(q, s, NoToken)
      BY <2>1, EnteringForms
    <3>2. Like(p, q, "CS", p.meta)
      BY <1>1, SameParser
    <3>3. LikeStream(s, s, "NONE")
      BY <1>1, SameLike DEF Ready, GoesOn
    <3> HIDE DEF q, r
    <3> QED
      BY <2>1, <3>1, <3>2, <3>3
  <2>2. CASE p.state # "CS"
    <3> DEFINE z == Zeroed(q, "CS")
               a == Anchored(s, p.state)
    <3>1. r = Result(z, a, NoToken)
      <4>1. Begun(a, "CS") = a
        BY StartStates DEF Begun
      <4>2. "CS" # "HS" /\ "CS" # "HK"
        OBVIOUS
      <4> HIDE DEF q
      <4> QED
        BY <2>2, <4>1, <4>2, EnteringForms
    <3>2. Like(p, z, "CS", p.meta)
      BY <1>1, SameParser
    <3>3. LikeStream(s, a, "NONE") /\ (p.state = "HN" => a.anchor = s.index)
      BY <1>1, AnchoredLike
    <3> HIDE DEF q, r, z, a
    <3> QED
      BY <3>1, <3>2, <3>3
  <2> QED
    BY <2>1, <2>2
<1> HIDE DEF q, r
<1>4. /\ p1 \in http_parser_t /\ p1.meta = p.meta /\ p1.state = "CS"
      /\ p1.content_length \in Nat /\ p1.body_consumed = 0
      /\ p.meta \in {"ZER", "CSZ"} /\ (p.meta = "ZER" => p1.content_length = 0)
      /\ r.p = p1
  BY <1>3, ResultFields DEF Ready, GoesOn, Like, CountOK, MetaOK, Leads
<1> DEFINE p2 == IF c # 48 THEN hs_trigger_meta(p1, NON_ZERO) ELSE p1
           n == IF c \in DIGIT \cup HEX THEN 16 * p2.content_length + HexValue(c)
                ELSE p2.content_length
           p3 == IF c \in DIGIT \cup HEX THEN [p2 EXCEPT !.content_length = n] ELSE p2
<1>5. ChunkSize(r, c) = Result(p3, s1, NoToken)
  <2>1. ChunkSize(r, c) = [r EXCEPT !.p = p3]
    BY <1>4 DEF ChunkSize
  <2> HIDE DEF p3
  <2> QED
    BY <1>3, <2>1, ResultFields
<1>6. /\ p2 \in http_parser_t /\ p2.state = "CS" /\ p2.body_consumed = 0
      /\ p2.content_length = p1.content_length
      /\ p2.meta = IF c # 48 THEN "CSZ" ELSE p.meta
  <2>1. CASE c # 48
    <3>1. hs_meta_transitions[p1.meta][NON_ZERO] = "CSZ"
      BY <1>4 DEF hs_meta_transitions, NON_ZERO
    <3>2. Like(p1, p2, "CS", "CSZ")
      BY <1>4, <2>1, <3>1, Triggered, TableNames
    <3> HIDE DEF p2
    <3> QED
      BY <1>4, <2>1, <3>2 DEF Like
  <2>2. CASE c = 48
    BY <1>4, <2>2
  <2> QED
    BY <2>1, <2>2
<1> HIDE DEF p2
<1>7. /\ c \in DIGIT \cup HEX => HexValue(c) \in Nat
      /\ c = 48 => c \in DIGIT \cup HEX /\ HexValue(c) = 0
  BY DEF HexValue, DIGIT, HEX
<1>8. n \in Nat /\ (c = 48 /\ p.meta = "ZER" => n = 0)
  <2> DEFINE h == HexValue(c)
             D == DIGIT \cup HEX
  <2> HIDE DEF h, D
  <2>1. (c \in D => h \in Nat) /\ (c = 48 => c \in D /\ h = 0)
    BY <1>7 DEF h, D
  <2>2. n = IF c \in D THEN 16 * p2.content_length + h ELSE p2.content_length
    BY DEF h, D
  <2> HIDE DEF n
  <2> QED
    BY <1>4, <1>6, <2>1, <2>2
<1> HIDE DEF n
<1>9. /\ p3 \in http_parser_t /\ p3.state = "CS" /\ p3.body_consumed = 0
      /\ p3.content_length = n /\ p3.meta = p2.meta
  <2>1. CASE c \in DIGIT \cup HEX
    BY <1>6, <1>8, <2>1 DEF http_parser_t
  <2>2. CASE c \notin DIGIT \cup HEX
    BY <1>6, <2>2 DEF n
  <2> QED
    BY <2>1, <2>2
<1> HIDE DEF p3
<1>10. p3.meta # "SEN" /\ GoesOn(p3, s1)
  BY <1>3, <1>4, <1>6, <1>8, <1>9 DEF GoesOn, LikeStream, MetaOK, CountOK, TokenOK
<1> QED
  <2>1. p.state = "HN" => s.index <= s1.anchor
    BY <1>1, <1>3, StreamFields
  <2>2. Before(p, s, Result(p3, s1, NoToken))
    BY <1>1, <1>3, <1>9, <1>10, <2>1, NoTokenType, Gives
  <2> QED
    BY <1>2, <1>5, <2>2 DEF q

\* The end of a chunk size: the size was zero or not.
LEMMA SizeEnds ==
    ASSUME NEW p, NEW s, Ready(p, s), NEW c \in Char, NEW to \in {"CR", "CE"},
           Leads(p.state, to)
    PROVE  Before(p, s, hs_transition_action([p EXCEPT !.state = to], s, c, p.state, to))
<1> DEFINE q == [p EXCEPT !.state = to]
           r == Entering(Result(q, s, NoToken), p.state, to)
           z == Zeroed(q, to)
<1>1. /\ p \in http_parser_t /\ s \in hs_stream_t /\ to \in hs_state
      /\ NoToken \in http_token_t /\ s.consumed = FALSE
      /\ s.token.type = "NONE" /\ StreamOK(s)
  BY TableNames, NoTokenType DEF Ready, GoesOn, TokenOK, Leads
<1>2. hs_transition_action(q, s, c, p.state, to) = r
  BY ActionForms
<1>3. LikeStream(s, s, "NONE")
  BY <1>1, SameLike DEF Ready, GoesOn
<1>4. Like(p, q, to, p.meta) /\ Like(p, z, to, p.meta)
  BY <1>1, SameParser
<1>5. Begun(s, to) = s /\ to \notin {"HS", "HK"}
  BY StartStates DEF Begun
<1> HIDE DEF q
<1>6. CASE p.state = "CS"
  <2> DEFINE p1 == hs_trigger_meta(z, END_CHK_SIZE)
             m == hs_meta_transitions[p.meta][END_CHK_SIZE]
  <2>1. r = Result(p1, s, NoToken)
    BY <1>5, <1>6, EnteringForms
  <2>2. p.meta \in {"ZER", "CSZ"}
    BY <1>6 DEF Ready, GoesOn, MetaOK
  <2>3. m = IF p.meta = "ZER" THEN "LST" ELSE "CBD"
    BY <2>2 DEF hs_meta_transitions, END_CHK_SIZE
  <2> HIDE DEF z, r
  <2>4. Like(z, p1, to, m)
    BY <1>4, <2>3, Triggered, TableNames DEF Like
  <2> HIDE DEF m, p1
  <2>5. p1 \in http_parser_t /\ p1.meta # "SEN" /\ GoesOn(p1, s)
    BY <1>1, <1>4, <1>6, <2>2, <2>3, <2>4
    DEF Ready, GoesOn, Like, MetaOK, CountOK, TokenOK
  <2>6. p1.state = to /\ p.state # "HN" /\ NoToken.type = "NONE"
    BY <1>6, <2>4, NoTokenType DEF Like
  <2>7. Before(p, s, Result(p1, s, NoToken))
    BY <1>1, <1>3, <2>5, <2>6, Gives
  <2> QED
    BY <1>2, <2>1, <2>7 DEF q
<1>7. CASE p.state = "CE" /\ to = "CE"
  <2>1. r = Result(q, s, NoToken)
    BY <1>7, EnteringForms
  <2> HIDE DEF r
  <2>2. q \in http_parser_t /\ q.meta # "SEN" /\ GoesOn(q, s)
    BY <1>1, <1>4, <1>7 DEF Ready, GoesOn, Like, MetaOK, CountOK, TokenOK
  <2> QED
    <3>1. q.state = to /\ p.state # "HN" /\ NoToken.type = "NONE"
      BY <1>4, <1>7, NoTokenType DEF Like
    <3>2. Before(p, s, Result(q, s, NoToken))
      BY <1>1, <1>3, <2>2, <3>1, Gives
    <3> QED
      BY <1>2, <2>1, <3>2 DEF q
<1>8. CASE p.state = "CE" /\ to = "CR"
  <2>1. Anchored(s, p.state) = s /\ to # "HS" /\ to # "HK" /\ p.state # "CS"
        /\ p.state # to
    BY <1>8 DEF Anchored
  <2>2. r = Result(z, s, NoToken)
    BY <1>5, <2>1, EnteringForms
  <2> HIDE DEF r, z
  <2>3. z \in http_parser_t /\ z.meta # "SEN" /\ GoesOn(z, s)
    BY <1>1, <1>4, <1>8 DEF Ready, GoesOn, Like, MetaOK, CountOK, TokenOK
  <2>4. z.state = to /\ p.state # "HN" /\ NoToken.type = "NONE"
    BY <1>4, <1>8, NoTokenType DEF Like
  <2>5. Before(p, s, Result(z, s, NoToken))
    BY <1>1, <1>3, <2>3, <2>4, Gives
  <2> QED
    BY <1>2, <2>2, <2>5 DEF q
<1> QED
  BY <1>6, <1>7, <1>8 DEF Leads

\* The line end behind a chunk.
LEMMA ChunkEnds ==
    ASSUME NEW p, NEW s, Ready(p, s), NEW c \in Char, Leads(p.state, "C2")
    PROVE  Before(p, s, hs_transition_action([p EXCEPT !.state = "C2"], s, c, p.state, "C2"))
<1> DEFINE q == [p EXCEPT !.state = "C2"]
           r == Entering(Result(q, s, NoToken), p.state, "C2")
           z == Zeroed(q, "C2")
           p1 == hs_trigger_meta(z, END_CHUNK)
<1>1. /\ p \in http_parser_t /\ s \in hs_stream_t /\ "C2" \in hs_state
      /\ NoToken \in http_token_t /\ s.consumed = FALSE
      /\ s.token.type = "NONE" /\ StreamOK(s) /\ p.state = "C1" /\ p.meta = "CBD"
      /\ p.content_length = 0 /\ p.body_consumed = 0
  BY TableNames, NoTokenType DEF Ready, GoesOn, TokenOK, MetaOK, CountOK, Leads
<1>2. hs_transition_action(q, s, c, p.state, "C2") = Trigger(r, END_CHUNK)
  BY ActionForms
<1>3. r = Result(z, s, NoToken)
  <2>1. Anchored(s, p.state) = s /\ Begun(s, "C2") = s
    BY <1>1, StartStates DEF Anchored, Begun
  <2>2. "C2" # "HS" /\ "C2" # "HK" /\ p.state # "CS" /\ p.state # "C2"
    BY <1>1
  <2> HIDE DEF q
  <2> QED
    BY <2>1, <2>2, EnteringForms
<1>4. Like(p, z, "C2", p.meta)
  BY <1>1, SameParser
<1> HIDE DEF q, r, z
<1>5. Trigger(r, END_CHUNK) = Result(p1, s, NoToken)
  BY <1>3, ResultSteps
<1>6. hs_meta_transitions["CBD"][END_CHUNK] = "ZER"
  BY DEF hs_meta_transitions, END_CHUNK
<1>7. Like(z, p1, "C2", "ZER")
  BY <1>1, <1>4, <1>6, Triggered, TableNames DEF Like
<1> HIDE DEF p1
<1>8. p1 \in http_parser_t /\ p1.meta # "SEN" /\ GoesOn(p1, s)
  BY <1>1, <1>4, <1>7 DEF GoesOn, Like, MetaOK, CountOK, TokenOK
<1>9. LikeStream(s, s, "NONE")
  BY <1>1, SameLike DEF Ready, GoesOn
<1>10. Before(p, s, Result(p1, s, NoToken))
  <2>1. p1.state = "C2" /\ p.state # "HN" /\ NoToken.type = "NONE"
    BY <1>1, <1>7, NoTokenType DEF Like
  <2> QED
    BY <1>1, <1>8, <1>9, <2>1, Gives
<1> QED
  BY <1>2, <1>5, <1>10 DEF q

\* A character that is rejected, in whatever state, with whatever token begun.
LEMMA Rejected ==
    ASSUME NEW p, NEW s, Ready(p, s), NEW c \in Char,
           NEW s0 \in Started(s, "BR"), p.state # "BR"
    PROVE  Before(p, s, hs_transition_action([p EXCEPT !.state = "BR"], s0, c, p.state, "BR"))
<1> DEFINE q == [p EXCEPT !.state = "BR"]
           r == Entering(Result(q, s0, NoToken), p.state, "BR")
           z == Zeroed(q, "BR")
           err == [NoToken EXCEPT !.type = "ERROR"]
<1>1. /\ p \in http_parser_t /\ s \in hs_stream_t /\ "BR" \in hs_state
      /\ s.consumed = FALSE
  BY TableNames DEF Ready
<1>2. /\ s0 \in hs_stream_t /\ s0.buf = s.buf /\ s0.index = s.index
      /\ s0.consumed = FALSE
  BY <1>1, BegunOK DEF Started
<1>3. hs_transition_action(q, s0, c, p.state, "BR") = [r EXCEPT !.tok.type = "ERROR"]
  BY ActionForms
<1>4. Like(p, z, "BR", p.meta)
  BY <1>1, SameParser
<1>5. PICK p1, s1 : /\ r = Result(p1, s1, NoToken)
                    /\ p1 \in http_parser_t /\ s1 \in hs_stream_t /\ s1.buf = s.buf
                    /\ s1.index = s.index /\ s1.consumed = FALSE
  <2>1. CASE p.state = "CS"
    <3> DEFINE p1 == hs_trigger_meta(z, END_CHK_SIZE)
               m == hs_meta_transitions[p.meta][END_CHK_SIZE]
    <3>1. Begun(s0, "BR") = s0 /\ "BR" \notin {"HS", "HK"}
      BY StartStates DEF Begun
    <3>2. r = Result(p1, s0, NoToken)
      <4> HIDE DEF q
      <4> QED
        BY <2>1, <3>1, EnteringForms
    <3>3. p.meta \in {"ZER", "CSZ"}
      BY <2>1 DEF Ready, GoesOn, MetaOK
    <3>4. m \in {"LST", "CBD"}
      BY <3>3 DEF hs_meta_transitions, END_CHK_SIZE
    <3> HIDE DEF z, r
    <3>5. Like(z, p1, "BR", m)
      BY <1>4, <3>4, Triggered, TableNames DEF Like
    <3> HIDE DEF p1
    <3> QED
      BY <1>2, <3>2, <3>5 DEF Like
  <2>2. CASE p.state # "CS"
    <3> DEFINE a == Anchored(s0, p.state)
    <3>1. Begun(a, "BR") = a /\ "BR" # "HS" /\ "BR" # "HK"
      BY StartStates DEF Begun
    <3>2. r = Result(z, a, NoToken)
      <4> HIDE DEF q
      <4> QED
        BY <2>2, <3>1, EnteringForms
    <3>3. /\ a \in hs_stream_t /\ a.buf = s.buf /\ a.index = s.index
          /\ a.consumed = FALSE
      <4> DEFINE x == [s0 EXCEPT !.anchor = s0.index]
      <4>1. /\ x \in hs_stream_t /\ x.buf = s.buf /\ x.index = s.index
            /\ x.consumed = FALSE
        BY <1>2 DEF hs_stream_t
      <4> QED
        BY <1>2, <4>1 DEF Anchored
    <3> HIDE DEF z, r, a
    <3> QED
      BY <1>4, <3>2, <3>3 DEF Like
  <2> QED
    BY <2>1, <2>2
<1>6. err \in http_token_t /\ err.type = "ERROR"
  BY NoTokenType DEF TokenType
<1>7. [r EXCEPT !.tok.type = "ERROR"] = Result(p1, s1, err)
  BY <1>5 DEF Result
<1> HIDE DEF q, r, err
<1>8. Before(p, s, Result(p1, s1, err))
  BY <1>5, <1>6, ResultFields DEF Before, Ends
<1> QED
  BY <1>3, <1>7, <1>8 DEF q

\* What an iteration of the loop gives.
After(p, s, r) ==
    /\ r.p \in http_parser_t /\ r.s \in hs_stream_t /\ r.tok \in http_token_t
    /\ InBuffer(r.s) /\ Length(r.s) <= Length(s)
    /\ Fixed(p, s) <= Length(r.s)
    /\ \A k \in 1..Fixed(p, s) : r.s.buf[k] = s.buf[k]
    /\ \/ Ends(r.tok)
       \/ /\ GoesOn(r.p, r.s) /\ Fixed(p, s) <= Fixed(r.p, r.s)
          /\ \/ r.tok.type \in {"NONE", "CHUNK_BODY"}
             \/ r.tok.index + r.tok.len <= Fixed(r.p, r.s)
    /\ r.p.meta = "SEN" => Ends(r.tok) \/ (r.tok.type = "CHUNK_BODY" /\ r.tok.len > 0)

\* What is fixed lies before the cursor.
LEMMA FixedBehind ==
    ASSUME NEW p, NEW s \in hs_stream_t, StreamOK(s)
    PROVE  Fixed(p, s) \in Nat /\ Fixed(p, s) <= s.index
  BY StreamFields DEF Fixed, StreamOK

\* The loop consumes the character that the action did not.
LEMMA Consumes ==
    ASSUME NEW p, NEW s, Ready(p, s), NEW p1, NEW s1, NEW tok,
           Before(p, s, Result(p1, s1, tok))
    PROVE  After(p, s, Result(p1, hs_stream_consume(s1), tok))
<1> DEFINE x == Advanced(s1, 1)
<1>1. /\ p1 \in http_parser_t /\ s1 \in hs_stream_t /\ tok \in http_token_t
      /\ s1.buf = s.buf /\ s1.index = s.index /\ s1.consumed = FALSE
      /\ p1.meta # "SEN" \/ Ends(tok)
      /\ \/ Ends(tok)
         \/ /\ GoesOn(p1, s1) /\ Fixed(p, s) <= Fixed(p1, s1)
            /\ tok.type = "NONE" \/ tok.index + tok.len <= Fixed(p1, s1)
  <2> DEFINE r == Result(p1, s1, tok)
  <2>1. r.p = p1 /\ r.s = s1 /\ r.tok = tok
    BY ResultFields
  <2>2. Before(p, s, r)
    OBVIOUS
  <2> HIDE DEF r
  <2> QED
    BY <2>1, <2>2 DEF Before
<1>2. hs_stream_consume(s1) = x
  BY <1>1 DEF hs_stream_consume
<1>3. /\ x \in hs_stream_t /\ x.buf = s.buf /\ x.index = s.index + 1
      /\ x.token.type = s1.token.type /\ (StreamOK(s1) => StreamOK(x))
      /\ x.anchor = s1.anchor
  BY <1>1, AdvancedOK
<1> HIDE DEF x
<1>4. InBuffer(x) /\ Length(x) <= Length(s) /\ Fixed(p, s) <= Length(x)
  <2>1. Length(x) = Length(s) /\ Length(s) \in Nat /\ s.index \in Nat
    BY <1>3, StreamFields DEF Length, Ready
  <2>2. Fixed(p, s) \in Nat /\ Fixed(p, s) <= s.index
    BY FixedBehind DEF Ready, GoesOn
  <2> QED
    BY <1>3, <2>1, <2>2 DEF Ready, InBuffer
<1>5. GoesOn(p1, s1) => GoesOn(p1, x)
  BY <1>3 DEF GoesOn, TokenOK
<1>6. GoesOn(p1, s1) => /\ Fixed(p1, s1) <= Fixed(p1, x) /\ Fixed(p1, s1) \in Nat
                        /\ Fixed(p1, x) \in Nat
  BY <1>1, <1>3, StreamFields DEF Fixed
<1>7. \/ Ends(tok)
      \/ /\ GoesOn(p1, x) /\ Fixed(p, s) <= Fixed(p1, x)
         /\ \/ tok.type \in {"NONE", "CHUNK_BODY"}
            \/ tok.index + tok.len <= Fixed(p1, x)
  <2>1. Fixed(p, s) \in Nat /\ tok.index \in Nat /\ tok.len \in Nat
    BY <1>1, FixedBehind DEF Ready, GoesOn, http_token_t
  <2> QED
    BY <1>1, <1>5, <1>6, <2>1
<1> DEFINE r == Result(p1, x, tok)
<1>8. r.p = p1 /\ r.s = x /\ r.tok = tok
  BY ResultFields
<1> HIDE DEF r
<1>9. After(p, s, r)
  BY <1>1, <1>3, <1>4, <1>7, <1>8 DEF After
<1> QED
  BY <1>2, <1>9 DEF r

\* What an action gives that has consumed all it wants.
Jumped(p, s, a) ==
    \E p1, s1, tok : /\ a = Result(p1, s1, tok) /\ s1.consumed = TRUE
                     /\ After(p, s, Result(p1, s1, tok))

\* The characters of a body or a chunk, as many as there are, in one go.
LEMMA BodyMoves ==
    ASSUME NEW p, NEW s, Ready(p, s), NEW c \in Char, NEW to \in {"BD", "CB"},
           Leads(p.state, to), p.state = "HN" => p.meta # "ZER"
    PROVE  Jumped(p, s, hs_transition_action([p EXCEPT !.state = to], s, c, p.state, to))
<1> DEFINE q == [p EXCEPT !.state = to]
           r == Entering(Result(q, s, NoToken), p.state, to)
<1>1. /\ p \in http_parser_t /\ s \in hs_stream_t /\ to \in hs_state
      /\ NoToken \in http_token_t /\ s.consumed = FALSE /\ StreamOK(s)
      /\ to \in DOMAIN hs_token_start_states
  BY TableNames, NoTokenType, StartStates DEF Ready, GoesOn
<1>2. hs_transition_action(q, s, c, p.state, to) = BodyData(r, to)
  BY ActionForms
<1>3. /\ p.meta \in {"BDY", "STR", "CBD", "LST"}
      /\ to = "BD" <=> p.meta \in {"BDY", "STR"}
      /\ p.content_length \in Nat /\ p.body_consumed \in Nat
      /\ p.body_consumed <= p.content_length
      /\ p.meta \in {"BDY", "STR"} => p.body_consumed < p.content_length
      /\ p.meta = "LST" => p.content_length = 0
  BY DEF Ready, GoesOn, MetaOK, CountOK, Leads
<1>4. PICK p1, s0, type :
          /\ r = Result(p1, s0, NoToken) /\ Like(p, p1, to, p.meta)
          /\ LikeStream(s, s0, type)
          /\ to = "CB" => type = "CHUNK_BODY"
          /\ p.meta = "BDY" => type = "BODY"
          /\ p.meta \in {"STR", "LST"} => s0.token.len = 0
          /\ Fixed(p, s) <= s0.anchor
  <2>1. CASE p.state = to
    <3>1. r = Result(q, s, NoToken)
      BY <2>1, EnteringForms
    <3>2. Like(p, q, to, p.meta)
      BY <1>1, SameParser
    <3>3. LikeStream(s, s, s.token.type)
      BY <1>1, SameLike DEF Ready, GoesOn
    <3>4. /\ to = "CB" => s.token.type = "CHUNK_BODY"
          /\ p.meta = "BDY" => s.token.type = "BODY"
          /\ p.meta \in {"STR", "LST"} => s.token.len = 0
          /\ Fixed(p, s) <= s.anchor
      BY <1>1, <1>3, <2>1, StreamFields
      DEF Ready, GoesOn, TokenOK, StreamOK, MetaOK, Fixed, BodyStates
    <3> HIDE DEF q, r
    <3> QED
      BY <3>1, <3>2, <3>3, <3>4
  <2>2. CASE p.state # to
    <3> DEFINE z == Zeroed(q, to)
               a == Anchored(s, p.state)
               b == Begun(a, to)
    <3>1. p.state \in {"HN", "CN"} /\ s.token.type = "NONE"
      BY <2>2 DEF Ready, GoesOn, TokenOK, Leads
    <3>2. r = Result(z, b, NoToken)
      <4>1. to # "HS" /\ to # "HK" /\ p.state # "CS"
        BY <3>1
      <4> HIDE DEF q
      <4> QED
        BY <2>2, <4>1, EnteringForms
    <3>3. Like(p, z, to, p.meta)
      BY <1>1, SameParser
    <3>4. LikeStream(s, a, "NONE") /\ (p.state = "HN" => a.anchor = s.index)
      BY <1>1, <3>1, AnchoredLike
    <3> HIDE DEF q, r, z, a
    <3>5. /\ LikeStream(a, b, hs_token_start_states[to]) /\ b.token.len = 0
          /\ b.anchor = a.anchor
      BY <1>1, <3>4, BegunLike DEF LikeStream
    <3>6. /\ to = "CB" => hs_token_start_states[to] = "CHUNK_BODY"
          /\ p.meta = "BDY" => hs_token_start_states[to] = "BODY"
      BY <1>3, StartStates
    <3> HIDE DEF b
    <3>7. LikeStream(s, b, hs_token_start_states[to])
      BY <3>4, <3>5 DEF LikeStream
    <3>8. Fixed(p, s) <= b.anchor
      <4>1. s.index \in Nat /\ s.anchor \in Nat /\ s.anchor <= a.anchor
        BY <1>1, <3>4, StreamFields DEF LikeStream
      <4> QED
        BY <3>1, <3>4, <3>5, <4>1 DEF Fixed, BodyStates
    <3> QED
      BY <3>2, <3>3, <3>5, <3>6, <3>7, <3>8
  <2> QED
    BY <2>1, <2>2
<1> HIDE DEF q, r
<1>5. /\ p1 \in http_parser_t /\ p1.state = to /\ p1.meta = p.meta
      /\ p1.content_length = p.content_length /\ p1.body_consumed = p.body_consumed
      /\ r.p = p1 /\ r.s = s0
  BY <1>4, ResultFields DEF Like
<1> DEFINE s1 == IF r.p.meta = "STR"
                 THEN hs_stream_begin_token(r.s, "CHUNK_BODY") ELSE r.s
           kind == IF p.meta = "BDY" THEN "BODY" ELSE "CHUNK_BODY"
           togo == r.p.content_length - r.p.body_consumed
           rest == Length(s1) - s1.index
<1>6. /\ LikeStream(s, s1, kind) /\ s1.anchor = s0.anchor
      /\ p.meta \in {"STR", "LST"} => s1.token.len = 0
  <2>1. s0 \in hs_stream_t /\ "CHUNK_BODY" \in TokenType /\ s0.anchor <= s0.index
    BY <1>4 DEF LikeStream, TokenType, StreamOK
  <2>2. CASE p.meta = "STR"
    <3>1. s1 = hs_stream_begin_token(s0, "CHUNK_BODY") /\ kind = "CHUNK_BODY"
      BY <1>5, <2>2
    <3> HIDE DEF s1, kind
    <3> QED
      BY <1>4, <2>1, <2>2, <3>1, BegunOK DEF LikeStream
  <2>3. CASE p.meta # "STR"
    <3>1. s1 = s0 /\ type = kind
      BY <1>3, <1>4, <1>5, <2>3
    <3> HIDE DEF s1, kind
    <3> QED
      BY <1>4, <2>3, <3>1
  <2> QED
    BY <2>2, <2>3
<1>7. /\ togo <= rest => BodyData(r, to)
         = LET e == Trigger(Emit([r EXCEPT !.s = Advanced(s1, togo)]), NEXT) IN
           [e EXCEPT !.p = [e.p EXCEPT !.content_length = 0, !.body_consumed = 0,
                                       !.state = IF to = "CB" THEN "CD" ELSE to]]
      /\ ~(togo <= rest) /\ r.p.meta = "STR" => BodyData(r, to)
         = [Emit([r EXCEPT !.s = Advanced(s1, rest), !.p.body_consumed = @ + rest])
              EXCEPT !.s = hs_stream_shift(@)]
      /\ ~(togo <= rest) /\ r.p.meta # "STR" => BodyData(r, to)
         = [r EXCEPT !.s = Advanced(s1, rest), !.p.body_consumed = @ + rest]
  <2> QED
    BY Zenon DEF BodyData, BodyEnds
<1>8. /\ togo \in Nat /\ rest \in Nat /\ rest > 0
      /\ p.meta \in {"BDY", "STR"} => togo > 0
      /\ p.meta = "LST" => togo = 0
      /\ s1.index + rest = Length(s) /\ Length(s1) = Length(s) /\ s1.index \in Nat
      /\ Length(s) \in Nat /\ s1 \in hs_stream_t /\ StreamOK(s1)
      /\ Length(s) <= MaxRequestBufSize
  <2> HIDE DEF s1
  <2>1. Length(s1) = Length(s) /\ Length(s) \in Nat /\ s1.index \in Nat
        /\ s1.index = s.index /\ s1 \in hs_stream_t /\ StreamOK(s1)
    BY <1>1, <1>6, StreamFields DEF LikeStream, Length
  <2>2. s.index < Length(s) /\ Length(s) <= MaxRequestBufSize
    BY DEF Ready, InBuffer
  <2> QED
    BY <1>3, <1>5, <2>1, <2>2
<1> HIDE DEF s1, togo, rest, kind
<1>9. ASSUME NEW n \in Nat, n <= rest
      PROVE  /\ Advanced(s1, n) \in hs_stream_t /\ StreamOK(Advanced(s1, n))
             /\ InBuffer(Advanced(s1, n)) /\ Length(Advanced(s1, n)) = Length(s)
             /\ Advanced(s1, n).consumed = TRUE
             /\ Advanced(s1, n).token \in http_token_t
             /\ Advanced(s1, n).token.type = kind
             /\ p.meta \in {"STR", "LST"} => Advanced(s1, n).token.len = n
             /\ Advanced(s1, n).buf = s.buf /\ Fixed(p, s) <= Advanced(s1, n).anchor
  <2> DEFINE x == Advanced(s1, n)
  <2>1. /\ x \in hs_stream_t /\ x.buf = s1.buf /\ x.index = s1.index + n
        /\ x.consumed /\ x.token.type = kind /\ StreamOK(x)
        /\ x.token.len = s1.token.len + n
        /\ x.buf = s.buf /\ Fixed(p, s) <= x.anchor
    BY <1>4, <1>6, <1>8, AdvancedOK DEF LikeStream, kind
  <2> HIDE DEF x
  <2>2. x.token \in http_token_t /\ x.consumed \in BOOLEAN
    BY <2>1, StreamFields
  <2>3. Length(x) = Length(s)
    BY <1>8, <2>1 DEF Length
  <2>4. InBuffer(x)
    BY <1>8, <1>9, <2>1, <2>3 DEF InBuffer
  <2> QED
    BY <1>6, <2>1, <2>2, <2>3, <2>4 DEF x
<1>10. Fixed(p, s) \in Nat /\ Fixed(p, s) <= Length(s)
  <2>1. Fixed(p, s) \in Nat /\ Fixed(p, s) <= s.index
    BY <1>1, FixedBehind
  <2>2. s.index \in Nat /\ Length(s) \in Nat /\ s.index <= Length(s)
    BY <1>1, StreamFields DEF Ready, InBuffer
  <2> QED
    BY <2>1, <2>2
<1>11. CASE togo <= rest
  <2> DEFINE A == Advanced(s1, togo)
             p2 == hs_trigger_meta(p1, NEXT)
             m == hs_meta_transitions[p.meta][NEXT]
             st == IF to = "CB" THEN "CD" ELSE to
             p3 == [p2 EXCEPT !.content_length = 0, !.body_consumed = 0, !.state = st]
             s3 == hs_stream_emit(A)
  <2>1. BodyData(r, to) = Result(p3, s3, A.token)
    <3> DEFINE e == Trigger(Emit([r EXCEPT !.s = A]), NEXT)
    <3>1. [r EXCEPT !.s = A] = Result(p1, A, NoToken)
      <4> HIDE DEF A
      <4> QED
        BY <1>4, ResultFields
    <3>2. e = Result(p2, s3, A.token)
      <4>1. Emit(Result(p1, A, NoToken)) = Result(p1, s3, A.token)
        BY ResultSteps
      <4>2. Trigger(Result(p1, s3, A.token), NEXT) = Result(p2, s3, A.token)
        BY ResultSteps
      <4> QED
        BY <3>1, <4>1, <4>2
    <3> DEFINE f(x) == [x EXCEPT !.content_length = 0, !.body_consumed = 0, !.state = st]
    <3>3. BodyData(r, to) = [e EXCEPT !.p = f(e.p)]
      BY <1>7, <1>11, Zenon
    <3> HIDE DEF e, p2, s3
    <3>4. e.p = p2
      BY <3>2, ResultFields
    <3>5. p3 = f(p2)
      OBVIOUS
    <3>6. BodyData(r, to) = [e EXCEPT !.p = p3]
      <4> HIDE DEF p3, f
      <4> QED
        BY <3>3, <3>4, <3>5
    <3> HIDE DEF p3
    <3> QED
      BY <3>2, <3>6, ResultFields
  <2>2. m = CASE p.meta = "BDY" -> "END" [] p.meta = "STR" -> "SEN" [] OTHER -> p.meta
    BY <1>3 DEF hs_meta_transitions, NEXT
  <2>3. Like(p1, p2, to, m)
    BY <1>3, <1>5, <2>2, Triggered, TableNames
  <2> HIDE DEF p2, m
  <2>4. /\ p3 \in http_parser_t /\ p3.state = IF to = "CB" THEN "CD" ELSE "BD"
        /\ p3.meta = m /\ p3.content_length = 0 /\ p3.body_consumed = 0
    <3> DEFINE y1 == [p2 EXCEPT !.content_length = 0]
               y2 == [y1 EXCEPT !.body_consumed = 0]
               y3 == [y2 EXCEPT !.state = st]
    <3>1. p2 \in http_parser_t /\ p2.meta = m /\ p2.state = to
      BY <2>3 DEF Like
    <3>2. st \in hs_state /\ st = IF to = "CB" THEN "CD" ELSE "BD"
      BY <3>1, TableNames
    <3> HIDE DEF st
    <3>3. p3 = y3
      OBVIOUS
    <3>4. y1 \in http_parser_t /\ y1.content_length = 0 /\ y1.meta = m
      BY <3>1 DEF http_parser_t
    <3> HIDE DEF y1
    <3>5. /\ y2 \in http_parser_t /\ y2.content_length = 0 /\ y2.meta = m
          /\ y2.body_consumed = 0
      BY <3>4 DEF http_parser_t
    <3> HIDE DEF y2
    <3>6. /\ y3 \in http_parser_t /\ y3.content_length = 0 /\ y3.meta = m
          /\ y3.body_consumed = 0 /\ y3.state = st
      BY <3>2, <3>5 DEF http_parser_t
    <3> QED
      BY <3>2, <3>3, <3>6
  <2> HIDE DEF p3
  <2>5. /\ A \in hs_stream_t /\ StreamOK(A) /\ InBuffer(A) /\ Length(A) = Length(s)
        /\ A.consumed = TRUE /\ A.token \in http_token_t /\ A.token.type = kind
        /\ p.meta \in {"STR", "LST"} => A.token.len = togo
        /\ A.buf = s.buf /\ Fixed(p, s) <= A.anchor
    BY <1>8, <1>9, <1>11
  <2> HIDE DEF A
  <2>6. /\ s3 \in hs_stream_t /\ s3.buf = A.buf /\ s3.index = A.index
        /\ s3.consumed = TRUE /\ s3.token.type = "NONE" /\ StreamOK(s3)
        /\ s3.anchor = A.anchor
    BY <2>5, EmittedOK, NoTokenType DEF StreamOK
  <2> HIDE DEF s3
  <2>7. InBuffer(s3) /\ Length(s3) <= Length(s)
    BY <1>8, <2>5, <2>6 DEF InBuffer, Length
  <2>8. /\ Ends(A.token) \/ GoesOn(p3, s3)
        /\ m = "SEN" => A.token.type = "CHUNK_BODY" /\ A.token.len > 0
    <3>1. CASE p.meta = "BDY"
      BY <2>2, <2>5, <3>1 DEF Ends, kind
    <3>2. CASE p.meta = "LST"
      BY <1>8, <2>2, <2>5, <3>2 DEF Ends, kind
    <3>3. CASE p.meta = "STR"
      <4>1. m = "SEN" /\ to = "BD" /\ A.token.type = "CHUNK_BODY" /\ A.token.len > 0
        BY <1>3, <1>8, <2>2, <2>5, <3>3 DEF kind
      <4> QED
        BY <2>4, <2>6, <4>1 DEF GoesOn, MetaOK, CountOK, TokenOK
    <3>4. CASE p.meta = "CBD"
      <4>1. m = "CBD" /\ to = "CB"
        BY <1>3, <2>2, <3>4
      <4> QED
        BY <2>4, <2>6, <4>1 DEF GoesOn, MetaOK, CountOK, TokenOK
    <3> QED
      BY <1>3, <3>1, <3>2, <3>3, <3>4
  <2>9. Fixed(p, s) <= Fixed(p3, s3) /\ Fixed(p, s) <= Length(s3)
    <3>1. p3.state \in BodyStates
      BY <2>4 DEF BodyStates
    <3> QED
      BY <2>5, <2>6, <2>7, <3>1, <1>10 DEF Fixed, Length
  <2>10. A.token.type \in {"NONE", "CHUNK_BODY"} \/ Ends(A.token)
    BY <2>5 DEF Ends, kind
  <2> DEFINE x == Result(p3, s3, A.token)
  <2>11. x.p = p3 /\ x.s = s3 /\ x.tok = A.token
    BY ResultFields
  <2> HIDE DEF x
  <2>12. After(p, s, x)
    BY <2>4, <2>5, <2>6, <2>7, <2>8, <2>9, <2>10, <2>11 DEF After
  <2> QED
    BY <1>2, <2>1, <2>6, <2>12 DEF q, x, Jumped
<1>12. CASE ~(togo <= rest)
  <2> DEFINE A == Advanced(s1, rest)
             n == p1.body_consumed + rest
             p2 == [p1 EXCEPT !.body_consumed = n]
             e == [r EXCEPT !.s = A, !.p.body_consumed = @ + rest]
             s2 == hs_stream_emit(A)
             s3 == hs_stream_shift(s2)
  <2>1. e = Result(p2, A, NoToken)
    <3> HIDE DEF A
    <3>1. e = [[r EXCEPT !.s = A] EXCEPT !.p = p2]
      BY <1>4, <1>5 DEF Result
    <3>2. [r EXCEPT !.s = A] = Result(p1, A, NoToken)
      BY <1>4, ResultFields
    <3> HIDE DEF p2, e
    <3>3. [Result(p1, A, NoToken) EXCEPT !.p = p2] = Result(p2, A, NoToken)
      BY ResultFields
    <3> QED
      BY <3>1, <3>2, <3>3
  <2>2. BodyData(r, to) = IF p.meta = "STR"
                          THEN [Emit(e) EXCEPT !.s = hs_stream_shift(@)] ELSE e
    BY <1>5, <1>7, <1>12, Zenon
  <2> HIDE DEF e
  <2>3. n \in Nat /\ n < p.content_length /\ p.meta # "LST"
    BY <1>3, <1>5, <1>8, <1>12 DEF togo
  <2> HIDE DEF n
  <2>4. /\ p2 \in http_parser_t /\ p2.state = to /\ p2.meta = p.meta
        /\ p2.content_length = p.content_length /\ p2.body_consumed = n
    BY <1>5, <2>3 DEF http_parser_t
  <2> HIDE DEF p2
  <2>5. /\ A \in hs_stream_t /\ StreamOK(A) /\ InBuffer(A) /\ Length(A) = Length(s)
        /\ A.consumed = TRUE /\ A.token \in http_token_t /\ A.token.type = kind
        /\ p.meta = "STR" => A.token.len = rest
        /\ A.buf = s.buf /\ Fixed(p, s) <= A.anchor
    <3>1. rest <= rest
      BY <1>8
    <3> QED
      BY <1>8, <1>9, <3>1
  <2> HIDE DEF A
  <2>6. CASE p.meta = "STR"
    <3>1. BodyData(r, to) = Result(p2, s3, A.token)
      <4>1. Emit(e) = Result(p2, s2, A.token)
        BY <2>1, ResultSteps
      <4>2. BodyData(r, to) = [Emit(e) EXCEPT !.s = hs_stream_shift(@)]
        BY <2>2, <2>6
      <4> HIDE DEF s2
      <4>3. Emit(e).s = s2
        BY <4>1, ResultFields
      <4>4. BodyData(r, to) = [Emit(e) EXCEPT !.s = s3]
        BY <4>2, <4>3
      <4> HIDE DEF s3
      <4> QED
        BY <4>1, <4>4, ResultFields
    <3>2. /\ s2 \in hs_stream_t /\ s2.buf = A.buf /\ s2.index = A.index
          /\ s2.consumed = TRUE /\ s2.token = NoToken /\ StreamOK(s2)
          /\ s2.anchor = A.anchor
      BY <2>5, EmittedOK DEF StreamOK
    <3> HIDE DEF s2
    <3>3. s2.index <= Length(s2) /\ Length(s2) = Length(s)
      BY <2>5, <3>2 DEF InBuffer, Length
    <3>4. /\ s3 \in hs_stream_t /\ StreamOK(s3) /\ s3.index <= Length(s3)
          /\ Length(s3) <= Length(s2) /\ s3.consumed = TRUE /\ s3.token.type = "NONE"
          /\ s3.anchor = s2.anchor /\ \A k \in 1..s2.anchor : s3.buf[k] = s2.buf[k]
      <4>1. /\ s2.anchor <= s2.index /\ s2.token.index = 0 /\ s2.token.len = 0
            /\ s2.token.type = "NONE" /\ s2.index \in Nat
        BY <3>2, NoTokenType, StreamFields DEF StreamOK
      <4>2. s2.token.index + s2.token.len <= s2.index
        BY <4>1
      <4> QED
        BY <3>2, <3>3, <4>1, <4>2, ShiftedOK
    <3> HIDE DEF s3
    <3>5. InBuffer(s3) /\ Length(s3) <= Length(s)
      <4>1. Length(s3) \in Nat /\ MaxRequestBufSize \in Nat
        BY <3>4, StreamFields, LimitAssumption
      <4> QED
        BY <1>8, <3>3, <3>4, <4>1 DEF InBuffer
    <3>6. GoesOn(p2, s3)
      <4>1. to = "BD"
        BY <1>3, <2>6
      <4> QED
        BY <1>3, <2>3, <2>4, <2>6, <3>4, <4>1 DEF GoesOn, MetaOK, CountOK, TokenOK
    <3>7. Fixed(p, s) <= Fixed(p2, s3) /\ Fixed(p, s) <= Length(s3)
      <4>1. p2.state \in BodyStates
        BY <2>4 DEF BodyStates
      <4>2. /\ s3.anchor \in Nat /\ s3.index \in Nat /\ Length(s3) \in Nat
            /\ s3.anchor <= s3.index /\ s3.index <= Length(s3)
            /\ Fixed(p, s) <= s3.anchor
        BY <2>5, <3>2, <3>4, StreamFields DEF StreamOK
      <4> QED
        BY <1>10, <4>1, <4>2 DEF Fixed
    <3>8. \A k \in 1..Fixed(p, s) : s3.buf[k] = s.buf[k]
      <4>1. s2.anchor \in Nat /\ Fixed(p, s) <= s2.anchor
        BY <2>5, <3>2, StreamFields
      <4>2. \A k \in 1..Fixed(p, s) : k \in 1..s2.anchor
        BY <1>10, <4>1
      <4> QED
        BY <2>5, <3>2, <3>4, <4>2
    <3> DEFINE x == Result(p2, s3, A.token)
    <3>9. x.p = p2 /\ x.s = s3 /\ x.tok = A.token
      BY ResultFields
    <3>10. A.token.type = "CHUNK_BODY"
      BY <2>5, <2>6 DEF kind
    <3> HIDE DEF x
    <3>11. After(p, s, x)
      BY <2>4, <2>5, <2>6, <3>4, <3>5, <3>6, <3>7, <3>8, <3>9, <3>10 DEF After
    <3> QED
      BY <1>2, <3>1, <3>4, <3>11 DEF q, x, Jumped
  <2>7. CASE p.meta # "STR"
    <3>1. BodyData(r, to) = Result(p2, A, NoToken)
      BY <2>1, <2>2, <2>7
    <3>2. GoesOn(p2, A)
      <4>1. p.meta \in {"BDY", "CBD"} /\ (to = "BD" <=> p.meta = "BDY")
        BY <1>3, <2>3, <2>7
      <4> QED
        BY <1>3, <2>3, <2>4, <2>5, <4>1 DEF GoesOn, MetaOK, CountOK, TokenOK, kind
    <3>3. p2.meta # "SEN"
      BY <1>3, <2>4
    <3>4. Length(A) <= Length(s)
      BY <1>8, <2>5
    <3>5. Fixed(p, s) <= Fixed(p2, A) /\ Fixed(p, s) <= Length(A)
      <4>1. p2.state \in BodyStates
        BY <2>4 DEF BodyStates
      <4> QED
        BY <1>10, <2>5, <4>1 DEF Fixed
    <3> DEFINE x == Result(p2, A, NoToken)
    <3>6. x.p = p2 /\ x.s = A /\ x.tok = NoToken
      BY ResultFields
    <3> HIDE DEF x
    <3>7. After(p, s, x)
      BY <1>1, <2>4, <2>5, <3>2, <3>3, <3>4, <3>5, <3>6, NoTokenType DEF After
    <3> QED
      BY <1>2, <2>5, <3>1, <3>7 DEF q, x, Jumped
  <2> QED
    BY <2>6, <2>7
<1> QED
  BY <1>11, <1>12

\* One character: the parser goes on in a state it has a row for, with the
\* cursor in the buffer, or the request ends.
LEMMA Iterates ==
    ASSUME NEW p, NEW s, Ready(p, s), NEW c \in Char,
           NEW to, to = NextState(p, c), NEW s0 \in Started(s, to),
           p.meta = "CLV" /\ to = "HV" => c \in DIGIT,
           NEW a, a = hs_transition_action([p EXCEPT !.state = to], s0, c, p.state, to)
    PROVE  After(p, s, [a EXCEPT !.s = hs_stream_consume(@)])
<1>1. p \in http_parser_t /\ p.state # "BR"
  BY DEF Ready, GoesOn, MetaOK
<1>2. /\ to \in hs_state
      /\ \/ to = "BR"
         \/ /\ Leads(p.state, to)
            /\ p.state = "HN" /\ p.meta = "ZER" => to = "CS"
            /\ p.state = "HN" /\ p.meta # "ZER" => to = "BD"
  BY <1>1, NextStates
<1>3. ASSUME Before(p, s, a)
      PROVE  After(p, s, [a EXCEPT !.s = hs_stream_consume(@)])
  <2>1. a = Result(a.p, a.s, a.tok)
    BY <1>3 DEF Before
  <2>2. [a EXCEPT !.s = hs_stream_consume(@)]
        = Result(a.p, hs_stream_consume(a.s), a.tok)
    BY <2>1, ResultFields
  <2>3. Before(p, s, Result(a.p, a.s, a.tok))
    BY <1>3, <2>1
  <2> QED
    BY <2>2, <2>3, Consumes
<1>4. CASE to = "BR"
  BY <1>1, <1>3, <1>4, Rejected
<1>5. CASE to # "BR"
  <2>1. s0 = s /\ Leads(p.state, to)
    BY <1>2, <1>5 DEF Started
  <2>2. CASE to \in {"MT", "TR", "VN", "RN", "HE", "ER", "C1", "CN"}
    BY <1>3, <2>1, <2>2, WordMoves
  <2>3. CASE to \in {"MS", "TS", "RR", "HR"}
    BY <1>3, <2>1, <2>3, EndOfWord
  <2>4. CASE to = "HS"
    BY <1>3, <2>1, <2>4, EndOfKey
  <2>5. CASE to = "HK"
    BY <1>3, <2>1, <2>5, KeyMoves
  <2>6. CASE to = "HV"
    BY <1>3, <2>1, <2>6, ValueMoves
  <2>7. CASE to = "HN"
    BY <1>3, <2>1, <2>7, HeadersEnd
  <2>8. CASE to = "CS"
    <3>1. p.state = "HN" => p.meta = "ZER"
      BY <1>2, <1>5, <2>8
    <3> QED
      BY <1>3, <2>1, <2>8, <3>1, SizeMoves
  <2>9. CASE to \in {"CR", "CE"}
    BY <1>3, <2>1, <2>9, SizeEnds
  <2>10. CASE to = "C2"
    BY <1>3, <2>1, <2>10, ChunkEnds
  <2>11. CASE to \in {"BD", "CB"}
    <3>1. p.state = "HN" => p.meta # "ZER"
      BY <1>2, <1>5, <2>11
    <3>2. PICK p1, s1, tok : /\ a = Result(p1, s1, tok) /\ s1.consumed = TRUE
                             /\ After(p, s, Result(p1, s1, tok))
      <4>1. Jumped(p, s, a)
        BY <2>1, <2>11, <3>1, BodyMoves
      <4> QED
        BY <4>1 DEF Jumped
    <3>3. hs_stream_consume(s1) = s1
      BY <3>2 DEF hs_stream_consume
    <3>4. [a EXCEPT !.s = hs_stream_consume(@)] = a
      <4>1. a.s = s1
        BY <3>2, ResultFields
      <4>2. [Result(p1, s1, tok) EXCEPT !.s = s1] = Result(p1, s1, tok)
        BY ResultFields
      <4> QED
        BY <3>2, <3>3, <4>1, <4>2
    <3> QED
      BY <3>2, <3>4
  <2> QED
    BY <2>1, <2>2, <2>3, <2>4, <2>5, <2>6, <2>7, <2>8, <2>9, <2>10, <2>11 DEF Leads
<1> QED
  BY <1>4, <1>5

-----------------------------------------------------------------------------
(* The session: the invariant is inductive.                                *)

\* What hs_meta_emit gives outside the end of a request.
LEMMA MetaEmits ==
    ASSUME NEW p \in http_parser_t, NEW s, MetaOK(p)
    PROVE  /\ p.meta = "SEN" =>
                 hs_meta_emit(p, s) = Result(hs_trigger_meta(p, NEXT), s,
                                             [NoToken EXCEPT !.type = "CHUNK_BODY"])
           /\ p.meta # "SEN" => hs_meta_emit(p, s) = Result(p, s, NoToken)
<1>1. p.meta # "END"
  BY DEF MetaOK
<1>2. ASSUME p.meta = "SEN"
      PROVE  hs_meta_emit(p, s) = Result(hs_trigger_meta(p, NEXT), s,
                                         [NoToken EXCEPT !.type = "CHUNK_BODY"])
  BY <1>1, <1>2, Zenon DEF hs_meta_emit, Result
<1>3. ASSUME p.meta # "SEN"
      PROVE  hs_meta_emit(p, s) = Result(p, s, NoToken)
  BY <1>1, <1>3, Zenon DEF hs_meta_emit, Result
<1> QED
  BY <1>2, <1>3

\* What an iteration or a call gives the token loop: the buffer is as it was
\* in front of the body, and a token to be stored lies there.
Gotten(p1, s1, tok) ==
    /\ InBuffer(s1) /\ Length(s1) <= sent
    /\ Fixed(parser, stream) <= Length(s1)
    /\ \A k \in 1..Fixed(parser, stream) : s1.buf[k] = stream.buf[k]
    /\ \/ Ends(tok)
       \/ /\ GoesOn(p1, s1) /\ Fixed(parser, stream) <= Fixed(p1, s1)
          /\ \/ tok.type \in {"NONE", "CHUNK_BODY"}
             \/ tok.index + tok.len <= Fixed(p1, s1)
    /\ p1.meta = "SEN" => Ends(tok) \/ tok.type = "CHUNK_BODY"

\* The token loop takes what an iteration or a call gave.
LEMMA Delivers ==
    ASSUME PInv, NEW p1 \in http_parser_t, NEW s1 \in hs_stream_t,
           NEW tok \in http_token_t, Gotten(p1, s1, tok),
           Deliver(Result(p1, s1, tok))
    PROVE  PInv'
<1> DEFINE r == Result(p1, s1, tok)
<1>1. r.p = p1 /\ r.s = s1 /\ r.tok = tok
  BY ResultFields
<1>2. Deliver(r)
  OBVIOUS
<1> HIDE DEF r
<1>3. parser' = p1 /\ stream' = s1 /\ msg' = msg /\ sent' = sent
  BY <1>1, <1>2 DEF Deliver
<1>4. pc' = CASE tok.type = "NONE" -> "wait"
               [] tok.type \in {"ERROR", "BODY"} -> "done"
               [] tok.type = "CHUNK_BODY" /\ tok.len = 0 -> "done"
               [] tok.type = "CHUNK_BODY" /\ tok.len > 0 -> "read"
               [] tok.type = "BODY_STREAM" -> "read"
               [] OTHER -> "call"
  BY <1>1, <1>2, Zenon DEF Deliver
<1>5. tok.len \in Nat /\ (tok.len = 0 => ~(tok.len > 0))
  BY DEF http_token_t
<1>6. /\ pc' \in {"wait", "done", "read", "call"}
      /\ Ends(tok) => pc' = "done"
      /\ tok.type = "CHUNK_BODY" => pc' # "wait"
  BY <1>4, <1>5 DEF Ends
<1>7. /\ msg'.bytes \in Text /\ sent' \in 0..Len(msg'.bytes)
  BY <1>3 DEF PInv
<1> QED
  BY <1>3, <1>6, <1>7 DEF PInv, ShortIsRead, Gotten

LEMMA PInvInit == InitSession => PInv
<1> SUFFICES ASSUME InitSession PROVE PInv
  OBVIOUS
<1>1. msg.bytes \in Text /\ sent = 0
  BY MessageAssumption DEF InitSession, Init, Message
<1>2. sent \in 0..Len(msg.bytes)
  BY <1>1 DEF Text
<1>3. /\ parser = Start /\ parser \in http_parser_t /\ parser.state = "ST"
      /\ parser.meta = "WFK" /\ parser.content_length = 0 /\ parser.body_consumed = 0
  <2>1. parser = Start
    BY DEF InitSession, Init
  <2> QED
    BY <2>1, TableNames DEF Start, http_parser_t
<1>4. /\ stream \in hs_stream_t /\ stream.index = 0 /\ stream.anchor = 0
      /\ stream.token = NoToken /\ stream.buf = <<>>
  BY NoTokenType DEF InitSession, Init, hs_stream_t, Text
<1>5. Length(stream) = 0
  BY <1>4 DEF Length
<1>6. InBuffer(stream) /\ Length(stream) <= sent
  BY <1>1, <1>4, <1>5, LimitAssumption DEF InBuffer
<1>7. GoesOn(parser, stream)
  BY <1>3, <1>4, NoTokenType DEF GoesOn, MetaOK, CountOK, TokenOK, StreamOK
<1>8. pc = "wait"
  BY DEF InitSession, Init
<1> QED
  BY <1>1, <1>2, <1>3, <1>4, <1>6, <1>7, <1>8 DEF PInv, ShortIsRead

\* http_parse is called: the end of a streamed body is told of.
CallGives ==
    \/ \E p1 \in http_parser_t, tok \in http_token_t :
           Gotten(p1, stream, tok) /\ Deliver(Result(p1, stream, tok))
    \/ /\ pc' = "scan" /\ parser.meta # "SEN"
       /\ UNCHANGED <<msg, sent, parser, stream, tokens, body>>

LEMMA Called == PInv /\ CallParse => CallGives
<1> SUFFICES ASSUME PInv, CallParse PROVE CallGives
  OBVIOUS
<1> DEFINE r == hs_meta_emit(parser, stream)
<1>1. /\ pc = "call" /\ GoesOn(parser, stream) /\ parser \in http_parser_t
      /\ stream \in hs_stream_t /\ InBuffer(stream) /\ Length(stream) <= sent
      /\ MetaOK(parser)
  BY DEF CallParse, PInv, GoesOn
<1>2. CASE parser.meta = "SEN"
  <2> DEFINE p1 == hs_trigger_meta(parser, NEXT)
             tok == [NoToken EXCEPT !.type = "CHUNK_BODY"]
  <2>1. r = Result(p1, stream, tok)
    BY <1>1, <1>2, MetaEmits
  <2>2. tok \in http_token_t /\ tok.type = "CHUNK_BODY" /\ tok.len = 0
    BY NoTokenType DEF TokenType
  <2>3. hs_meta_transitions["SEN"][NEXT] = "END"
    BY DEF hs_meta_transitions, NEXT
  <2>4. Like(parser, p1, parser.state, "END")
    BY <1>1, <1>2, <2>3, Triggered, TableNames
  <2> HIDE DEF p1, tok
  <2>5. r.tok.type # "NONE"
    BY <2>1, <2>2, ResultFields
  <2>6. Deliver(Result(p1, stream, tok))
    BY <2>1, <2>5 DEF CallParse
  <2>7. Fixed(parser, stream) <= Length(stream)
    <3>1. /\ Fixed(parser, stream) \in Nat /\ Fixed(parser, stream) <= stream.index
          /\ stream.index \in Nat /\ Length(stream) \in Nat
      BY <1>1, FixedBehind, StreamFields DEF GoesOn
    <3> QED
      BY <1>1, <3>1 DEF InBuffer
  <2>8. Gotten(p1, stream, tok)
    BY <1>1, <2>2, <2>4, <2>7 DEF Gotten, Ends, Like
  <2> QED
    BY <2>2, <2>4, <2>6, <2>8 DEF CallGives, Like
<1>3. CASE parser.meta # "SEN"
  <2>1. r = Result(parser, stream, NoToken)
    BY <1>1, <1>3, MetaEmits
  <2>2. r.tok.type = "NONE"
    BY <2>1, ResultFields, NoTokenType
  <2>3. /\ pc' = "scan"
        /\ UNCHANGED <<msg, sent, parser, stream, tokens, body>>
    BY <2>2 DEF CallParse
  <2> QED
    BY <1>3, <2>3 DEF CallGives
<1> QED
  BY <1>2, <1>3

LEMMA CallKeeps == PInv /\ CallParse => PInv'
<1> SUFFICES ASSUME PInv, CallParse PROVE PInv'
  OBVIOUS
<1>1. CASE \E p1 \in http_parser_t, tok \in http_token_t :
              Gotten(p1, stream, tok) /\ Deliver(Result(p1, stream, tok))
  <2>1. stream \in hs_stream_t
    BY DEF PInv
  <2> QED
    BY <1>1, <2>1, Delivers
<1>2. CASE /\ pc' = "scan" /\ parser.meta # "SEN"
           /\ UNCHANGED <<msg, sent, parser, stream, tokens, body>>
  <2>1. pc = "call"
    BY DEF CallParse
  <2> QED
    BY <1>2, <2>1 DEF PInv, ShortIsRead
<1> QED
  BY <1>1, <1>2, Called DEF CallGives

\* A character is parsed.
ScanGives ==
    \E p1 \in http_parser_t, s1 \in hs_stream_t, tok \in http_token_t :
        /\ Gotten(p1, s1, tok)
        /\ \/ tok.type # "NONE" /\ Deliver(Result(p1, s1, tok))
           \/ /\ tok.type = "NONE" /\ parser' = p1 /\ stream' = s1
              /\ UNCHANGED <<msg, sent, tokens, body, pc>>

LEMMA Scanned == PInv /\ Numeric /\ Scan => ScanGives
<1> SUFFICES ASSUME PInv, Numeric, Scan PROVE ScanGives
  OBVIOUS
<1> DEFINE c == stream.buf[stream.index + 1]
           to == NextState(parser, c)
           s == [stream EXCEPT !.consumed = FALSE]
<1>1. /\ pc = "scan" /\ GoesOn(parser, stream) /\ parser \in http_parser_t
      /\ stream \in hs_stream_t /\ InBuffer(stream) /\ Length(stream) <= sent
      /\ stream.index < Length(stream) /\ parser.meta # "SEN" /\ sent \in Nat
  BY DEF Scan, PInv
<1>2. /\ s \in hs_stream_t /\ s.buf = stream.buf /\ s.index = stream.index
      /\ s.anchor = stream.anchor /\ s.token = stream.token /\ s.consumed = FALSE
  BY <1>1 DEF hs_stream_t
<1> HIDE DEF s
<1>3. Ready(parser, s) /\ Length(s) = Length(stream)
  BY <1>1, <1>2 DEF Ready, GoesOn, TokenOK, StreamOK, InBuffer, Length
<1>4. c \in Char
  <2>1. /\ stream.buf \in Seq(Char) /\ stream.index \in Nat
        /\ stream.index < Len(stream.buf)
    BY <1>1, StreamFields DEF Length
  <2>2. stream.index + 1 \in 1..Len(stream.buf)
    BY <2>1
  <2> QED
    BY <2>1, <2>2
<1>5. parser.meta = "CLV" /\ to = "HV" => c \in DIGIT
  BY <1>1 DEF Numeric
<1> DEFINE act(s0) == hs_transition_action([parser EXCEPT !.state = to], s0,
                                           c, parser.state, to)
           res(s0) == [act(s0) EXCEPT !.s = hs_stream_consume(@)]
<1>6. PICK s0 \in Started(s, to) :
         \/ res(s0).tok.type # "NONE" /\ Deliver(res(s0))
         \/ /\ res(s0).tok.type = "NONE"
            /\ parser' = res(s0).p /\ stream' = res(s0).s
            /\ UNCHANGED <<msg, sent, tokens, body, pc>>
  BY DEF Scan, s
<1> DEFINE r == res(s0)
<1> HIDE DEF c, to
<1>7. After(parser, s, r)
  BY <1>3, <1>4, <1>5, <1>6, Iterates DEF to
<1> HIDE DEF act, res
<1>8. PICK p1, s1, tok : p1 = r.p /\ s1 = r.s /\ tok = r.tok
  OBVIOUS
<1>9. \/ tok.type # "NONE" /\ Deliver(r)
      \/ /\ tok.type = "NONE"
         /\ parser' = p1 /\ stream' = s1
         /\ UNCHANGED <<msg, sent, tokens, body, pc>>
  BY <1>6, <1>8
<1> HIDE DEF r
<1>10. /\ p1 \in http_parser_t /\ s1 \in hs_stream_t /\ tok \in http_token_t
       /\ InBuffer(s1) /\ Length(s1) <= Length(s)
       /\ Fixed(parser, s) <= Length(s1)
       /\ \A k \in 1..Fixed(parser, s) : s1.buf[k] = s.buf[k]
       /\ \/ Ends(tok)
          \/ /\ GoesOn(p1, s1) /\ Fixed(parser, s) <= Fixed(p1, s1)
             /\ \/ tok.type \in {"NONE", "CHUNK_BODY"}
                \/ tok.index + tok.len <= Fixed(p1, s1)
       /\ p1.meta = "SEN" => Ends(tok) \/ tok.type = "CHUNK_BODY"
  BY <1>7, <1>8 DEF After
<1>11. Gotten(p1, s1, tok)
  <2>1. Fixed(parser, s) = Fixed(parser, stream)
    BY <1>2 DEF Fixed
  <2>2. Length(s1) \in Nat /\ Length(s) \in Nat
    BY <1>2, <1>10, StreamFields
  <2>3. Length(s1) <= sent
    BY <1>1, <1>3, <1>10, <2>2
  <2> QED
    BY <1>2, <1>10, <2>1, <2>3 DEF Gotten
<1>12. tok.type # "NONE" => Deliver(Result(p1, s1, tok))
  <2>1. ASSUME NEW x, x.p = p1, x.s = s1, x.tok = tok, Deliver(r),
               r.p = p1, r.s = s1, r.tok = tok
        PROVE  Deliver(x)
    BY <2>1 DEF Deliver
  <2> QED
    BY <1>8, <1>9, <2>1, ResultFields
<1> QED
  BY <1>9, <1>10, <1>11, <1>12 DEF ScanGives

LEMMA ScanKeeps == PInv /\ Numeric /\ Scan => PInv'
<1> SUFFICES ASSUME PInv, Numeric, Scan PROVE PInv'
  OBVIOUS
<1>1. PICK p1 \in http_parser_t, s1 \in hs_stream_t, tok \in http_token_t :
         /\ Gotten(p1, s1, tok)
         /\ \/ tok.type # "NONE" /\ Deliver(Result(p1, s1, tok))
            \/ /\ tok.type = "NONE" /\ parser' = p1 /\ stream' = s1
               /\ UNCHANGED <<msg, sent, tokens, body, pc>>
  BY Scanned DEF ScanGives
<1>2. CASE tok.type # "NONE"
  BY <1>1, <1>2, Delivers
<1>3. CASE tok.type = "NONE"
  <2>1. /\ parser' = p1 /\ stream' = s1 /\ msg' = msg /\ sent' = sent
        /\ pc' = "scan"
    BY <1>1, <1>3 DEF Scan
  <2>2. ~Ends(tok) /\ tok.type # "CHUNK_BODY"
    BY <1>3 DEF Ends
  <2> QED
    BY <1>1, <2>1, <2>2 DEF PInv, ShortIsRead, Gotten
<1> QED
  BY <1>2, <1>3

\* The buffer is used up.
ScanEndGives ==
    \E s1 \in hs_stream_t, tok \in http_token_t :
        Gotten(parser, s1, tok) /\ Deliver(Result(parser, s1, tok))

LEMMA ScanEnded == PInv /\ ScanEnds => ScanEndGives
<1> SUFFICES ASSUME PInv, ScanEnds PROVE ScanEndGives
  OBVIOUS
<1> DEFINE s == IF parser.state = "CB" THEN hs_stream_shift(stream) ELSE stream
           x == [s EXCEPT !.consumed = FALSE]
           r == hs_meta_emit(parser, x)
           long == /\ s.token.type \notin {"CHUNK_BODY", "BODY"}
                   /\ s.token.len > MaxTokenLength
           err == [NoToken EXCEPT !.type = "ERROR"]
<1>1. /\ pc = "scan" /\ GoesOn(parser, stream) /\ parser \in http_parser_t
      /\ stream \in hs_stream_t /\ InBuffer(stream) /\ Length(stream) <= sent
      /\ parser.meta # "SEN" /\ sent \in Nat /\ MetaOK(parser)
  BY DEF ScanEnds, PInv, GoesOn
<1>2. /\ s \in hs_stream_t /\ StreamOK(s) /\ s.index <= Length(s)
      /\ Length(s) <= Length(stream) /\ s.token.type = stream.token.type
      /\ s.anchor = stream.anchor /\ (parser.state # "CB" => s = stream)
      /\ \A k \in 1..stream.anchor : s.buf[k] = stream.buf[k]
  <2>1. CASE parser.state = "CB"
    <3>1. s = hs_stream_shift(stream)
      BY <2>1
    <3>2. /\ stream.anchor <= stream.index /\ stream.index <= Length(stream)
          /\ stream.token.index + stream.token.len <= stream.index
          /\ stream.token.type = "CHUNK_BODY" /\ stream.anchor <= stream.token.index
      BY <1>1, <2>1 DEF GoesOn, TokenOK, StreamOK, InBuffer
    <3> HIDE DEF s
    <3> QED
      BY <1>1, <2>1, <3>1, <3>2, ShiftedOK
  <2>2. CASE parser.state # "CB"
    <3>1. s = stream
      BY <2>2
    <3>2. Length(stream) \in Nat
      BY <1>1, StreamFields
    <3> HIDE DEF s
    <3> QED
      BY <1>1, <3>1, <3>2 DEF GoesOn, InBuffer
  <2> QED
    BY <2>1, <2>2
<1>3. Deliver(IF long THEN [r EXCEPT !.tok.type = "ERROR"] ELSE r)
  BY DEF ScanEnds
<1> HIDE DEF s
<1>4. /\ x \in hs_stream_t /\ x.buf = s.buf /\ x.index = s.index
      /\ x.anchor = s.anchor /\ x.token = s.token
  BY <1>2 DEF hs_stream_t
<1> HIDE DEF x
<1>5. InBuffer(x) /\ Length(x) <= sent
  <2>1. /\ Length(s) \in Nat /\ Length(stream) \in Nat /\ MaxRequestBufSize \in Nat
        /\ Length(x) = Length(s)
    BY <1>1, <1>2, <1>4, StreamFields, LimitAssumption DEF Length
  <2> QED
    BY <1>1, <1>2, <1>4, <2>1 DEF InBuffer
<1>6. GoesOn(parser, x)
  BY <1>1, <1>2, <1>4 DEF GoesOn, TokenOK, StreamOK
<1>7. r = Result(parser, x, NoToken)
  BY <1>1, MetaEmits
<1> HIDE DEF r, long
<1>8. PICK tok \in http_token_t :
         (Ends(tok) \/ tok.type = "NONE") /\ Deliver(Result(parser, x, tok))
  <2>1. CASE long
    <3>1. [r EXCEPT !.tok.type = "ERROR"] = Result(parser, x, err)
      BY <1>7 DEF Result
    <3>2. err \in http_token_t /\ err.type = "ERROR"
      BY NoTokenType DEF TokenType
    <3> QED
      BY <1>3, <2>1, <3>1, <3>2 DEF Ends
  <2>2. CASE ~long
    BY <1>3, <1>7, <2>2, NoTokenType
  <2> QED
    BY <2>1, <2>2
<1>9. /\ Fixed(parser, stream) \in Nat /\ Fixed(parser, stream) <= Length(x)
      /\ Fixed(parser, stream) <= Fixed(parser, x)
      /\ \A k \in 1..Fixed(parser, stream) : x.buf[k] = stream.buf[k]
  <2>1. Length(x) = Length(s) /\ Length(s) \in Nat /\ s.index \in Nat /\ s.anchor \in Nat
    BY <1>2, <1>4, StreamFields DEF Length
  <2>2. CASE parser.state = "CB"
    <3>1. Fixed(parser, stream) = s.anchor /\ Fixed(parser, x) = s.anchor
      BY <1>2, <1>4, <2>2 DEF Fixed, BodyStates
    <3> QED
      BY <1>2, <1>4, <2>1, <3>1 DEF StreamOK
  <2>3. CASE parser.state # "CB"
    <3>1. s = stream
      BY <1>2, <2>3
    <3>2. Fixed(parser, x) = Fixed(parser, stream)
      BY <1>4, <3>1 DEF Fixed
    <3>3. Fixed(parser, stream) \in Nat /\ Fixed(parser, stream) <= stream.index
      BY <1>1, FixedBehind DEF GoesOn
    <3> QED
      BY <1>2, <1>4, <2>1, <3>1, <3>2, <3>3
  <2> QED
    BY <2>2, <2>3
<1>10. Gotten(parser, x, tok)
  BY <1>1, <1>5, <1>6, <1>8, <1>9 DEF Gotten
<1> QED
  BY <1>4, <1>8, <1>10 DEF ScanEndGives

LEMMA ScanEndKeeps == PInv /\ ScanEnds => PInv'
<1> SUFFICES ASSUME PInv, ScanEnds PROVE PInv'
  OBVIOUS
<1>1. PICK s1 \in hs_stream_t, tok \in http_token_t :
         Gotten(parser, s1, tok) /\ Deliver(Result(parser, s1, tok))
  BY ScanEnded DEF ScanEndGives
<1>2. parser \in http_parser_t
  BY DEF PInv
<1> QED
  BY <1>1, <1>2, Delivers

LEMMA ReadKeeps ==
    ASSUME PInv, NEW n \in Nat, Read(n)
    PROVE  PInv'
<1> DEFINE more == SubSeq(msg.bytes, sent + 1, sent + n)
           buf == stream.buf \o more
           x == [stream EXCEPT !.buf = buf]
<1>1. /\ GoesOn(parser, stream) /\ parser \in http_parser_t
      /\ stream \in hs_stream_t /\ InBuffer(stream) /\ Length(stream) <= sent
      /\ sent \in Nat /\ msg.bytes \in Seq(Char) /\ sent <= Len(msg.bytes)
      /\ stream.buf \in Seq(Char) /\ stream.index \in Nat
  BY StreamFields DEF Read, PInv, Text
<1>2. /\ n <= MaxRequestBufSize - Length(stream) /\ n <= Len(msg.bytes) - sent
      /\ sent' = sent + n /\ stream' = x /\ pc' = "call" /\ msg' = msg
      /\ parser' = parser
  BY DEF Read
<1>3. more \in Seq(Char) /\ Len(more) = n
  <2> DEFINE b == msg.bytes
             i == sent + 1
             j == sent + n
             L == Len(b)
  <2>1. /\ b \in Seq(Char) /\ i \in Nat \ {0} /\ j \in Nat /\ j <= Len(b)
        /\ n = IF i <= j THEN j - i + 1 ELSE 0
    <3>1. b \in Seq(Char) /\ L \in Nat /\ sent \in Nat /\ n <= L - sent
      BY <1>1, <1>2
    <3>2. j <= L
      <4> HIDE DEF L
      <4> QED
        BY <3>1
    <3> QED
      BY <3>1, <3>2
  <2>2. more = SubSeq(b, i, j)
    OBVIOUS
  <2> HIDE DEF b, i, j, more
  <2> QED
    BY <2>1, <2>2, SubSeqProperties
<1> HIDE DEF more
<1>4. buf \in Seq(Char) /\ Len(buf) = Len(stream.buf) + n
  BY <1>1, <1>3, ConcatProperties
<1> HIDE DEF buf
<1>5. /\ x \in hs_stream_t /\ x.buf = buf /\ x.index = stream.index
      /\ x.anchor = stream.anchor /\ x.token = stream.token
  BY <1>1, <1>4 DEF hs_stream_t, Text
<1> HIDE DEF x
<1>6. Length(x) = Length(stream) + n /\ Length(stream) \in Nat /\ MaxRequestBufSize \in Nat
  BY <1>1, <1>4, <1>5, StreamFields, LimitAssumption DEF Length
<1>7. InBuffer(x) /\ Length(x) <= sent'
  BY <1>1, <1>2, <1>5, <1>6 DEF InBuffer
<1>8. GoesOn(parser, x)
  BY <1>1, <1>5 DEF GoesOn, TokenOK, StreamOK
<1>9. msg'.bytes \in Text /\ sent' \in 0..Len(msg'.bytes)
  <2>1. Len(msg.bytes) \in Nat
    BY <1>1
  <2> QED
    BY <1>1, <1>2, <2>1 DEF Text
<1> QED
  BY <1>1, <1>2, <1>5, <1>7, <1>8, <1>9 DEF PInv, ShortIsRead

LEMMA NextKeeps == PInv /\ Numeric /\ Next => PInv'
<1> SUFFICES ASSUME PInv, Numeric, Next PROVE PInv'
  OBVIOUS
<1>1. CASE CallParse
  BY <1>1, CallKeeps
<1>2. CASE Scan
  BY <1>2, ScanKeeps
<1>3. CASE ScanEnds
  BY <1>3, ScanEndKeeps
<1>4. CASE Unread
  <2>1. /\ pc = "read" /\ pc' = "call"
        /\ UNCHANGED <<msg, sent, parser, stream>>
    BY <1>4 DEF Unread
  <2> QED
    BY <2>1 DEF PInv, ShortIsRead
<1>5. CASE ReadFull
  <2>1. /\ pc \in {"read", "wait"} /\ pc' = "closed"
        /\ Length(stream) >= MaxRequestBufSize
        /\ UNCHANGED <<msg, sent, parser, stream>>
    BY <1>5 DEF ReadFull
  <2>2. Len(msg.bytes) >= MaxRequestBufSize
    <3>1. /\ Length(stream) \in Nat /\ MaxRequestBufSize \in Nat /\ sent \in Nat
          /\ Length(stream) <= sent /\ sent <= Len(msg.bytes) /\ Len(msg.bytes) \in Nat
      BY StreamFields, LimitAssumption DEF PInv, Text
    <3> QED
      BY <2>1, <3>1
  <2> QED
    BY <2>1, <2>2 DEF PInv, ShortIsRead
<1>6. CASE \E n \in 0..MaxRequestBufSize : Read(n)
  <2>1. 0..MaxRequestBufSize \subseteq Nat
    BY LimitAssumption
  <2> QED
    BY <1>6, <2>1, ReadKeeps
<1> QED
  BY <1>1, <1>2, <1>3, <1>4, <1>5, <1>6 DEF Next

LEMMA NewKeeps ==
    ASSUME PInv, NEW m \in Messages, hs_init_session(m)
    PROVE  PInv'
<1>1. m \in Message /\ m.bytes \in Seq(Char)
  BY MessageAssumption DEF Message, Text
<1>2. Rest \in Seq(Char)
  <2>1. /\ msg.bytes \in Seq(Char) /\ sent \in Nat /\ Len(msg.bytes) \in Nat
        /\ sent <= Len(msg.bytes)
    BY DEF PInv, Text
  <2> DEFINE b == msg.bytes
  <2> HIDE DEF b
  <2>2. b \in Seq(Char) /\ sent + 1 \in 1..Len(b) + 1 /\ Len(b) \in (sent + 1) - 1..Len(b)
    BY <2>1 DEF b
  <2>3. SubSeq(b, sent + 1, Len(b)) \in Seq(Char)
    BY <2>2, SubSeqProperties
  <2> QED
    BY <2>3 DEF Rest, b
<1>3. Rest \o m.bytes \in Text
  BY <1>1, <1>2, ConcatProperties DEF Text
<1> DEFINE b == Rest \o m.bytes
<1> HIDE DEF b
<1>4. msg' = [m EXCEPT !.bytes = b]
  BY DEF hs_init_session, b
<1>5. msg'.bytes = b /\ b \in Text
  BY <1>1, <1>3, <1>4 DEF Message, b
<1>6. /\ sent' = 0 /\ parser' = Start /\ stream' = NewStream /\ pc' = "wait"
  BY DEF hs_init_session
<1>7. sent' \in 0..Len(msg'.bytes)
  BY <1>5, <1>6 DEF Text
<1> DEFINE p == Start
           s == NewStream
<1>8. /\ p \in http_parser_t /\ p.state = "ST"
      /\ p.meta = "WFK" /\ p.content_length = 0 /\ p.body_consumed = 0
  BY TableNames DEF Start, http_parser_t
<1>9. /\ s \in hs_stream_t /\ s.index = 0 /\ s.anchor = 0
      /\ s.token = NoToken /\ s.buf = <<>>
  BY NoTokenType DEF NewStream, hs_stream_t, Text
<1> HIDE DEF p, s
<1>10. Length(s) = 0
  BY <1>9 DEF Length
<1>11. InBuffer(s) /\ Length(s) <= 0
  BY <1>9, <1>10, LimitAssumption DEF InBuffer
<1>12. GoesOn(p, s)
  BY <1>8, <1>9, NoTokenType DEF GoesOn, MetaOK, CountOK, TokenOK, StreamOK
<1>13. parser' = p /\ stream' = s
  BY <1>6 DEF p, s
<1> QED
  BY <1>5, <1>6, <1>7, <1>8, <1>9, <1>11, <1>12, <1>13 DEF PInv, ShortIsRead

\* The invariant is inductive.
LEMMA PInvKept == PInv /\ Numeric /\ [NextSession]_<<vars, session>> => PInv'
<1> SUFFICES ASSUME PInv, Numeric, [NextSession]_<<vars, session>> PROVE PInv'
  OBVIOUS
<1>1. CASE Parse
  BY <1>1, NextKeeps DEF Parse
<1>2. CASE http_respond
  <2>1. /\ pc' = "answered" /\ UNCHANGED <<msg, sent, parser, stream>>
    BY <1>2 DEF http_respond
  <2>2. parser.meta = "SEN" => pc' \notin {"scan", "wait"}
    BY <2>1
  <2> QED
    BY <2>1, <2>2 DEF PInv, ShortIsRead
<1>3. CASE \E directive \in {"keep", "close"} : http_request_connection(directive)
  BY <1>3 DEF http_request_connection, vars, PInv, ShortIsRead
<1>4. CASE \E m \in Messages : hs_init_session(m)
  BY <1>4, NewKeeps
<1>5. CASE UNCHANGED <<vars, session>>
  BY <1>5 DEF vars, PInv, ShortIsRead
<1> QED
  BY <1>1, <1>2, <1>3, <1>4, <1>5 DEF NextSession

\* The parser never leaves its types, however a message is cut into reads:
\* the cursor of hs_stream_t stays in the buffer and the buffer in its limit.
THEOREM ParserTyped == SpecSession /\ []Numeric => []TypeOK
<1>1. PInv => TypeOK
  <2> SUFFICES ASSUME PInv PROVE TypeOK
    OBVIOUS
  <2>1. parser.state \in hs_state /\ parser.meta \in DOMAIN hs_meta_transitions
    BY DEF PInv, http_parser_t
  <2>2. /\ stream.index \in Nat /\ Length(stream) \in Nat /\ stream.anchor \in Nat
        /\ stream.token.index \in Nat /\ stream.token.len \in Nat
    BY StreamFields DEF PInv
  <2>3. stream.index \in 0..Length(stream) /\ Length(stream) <= MaxRequestBufSize
    BY <2>2 DEF PInv, InBuffer
  <2> QED
    BY <2>1, <2>2, <2>3 DEF PInv, TypeOK
<1> QED
  BY PInvInit, PInvKept, <1>1, PTL DEF SpecSession

\* http_parse never looks up a row that its tables do not have: a parser that
\* goes on is neither in BR nor in M_ERR.
THEOREM TablesNeverOverrun == SpecSession /\ []Numeric => []TablesInBounds
<1>1. PInv => TablesInBounds
  <2> SUFFICES ASSUME PInv PROVE TablesInBounds
    OBVIOUS
  <2>1. parser.meta # "ERR"
    BY TableNames DEF PInv, http_parser_t
  <2>2. pc \notin {"done", "answered"} => parser.state # "BR"
    BY DEF PInv, GoesOn, MetaOK
  <2> QED
    BY <2>1, <2>2 DEF TablesInBounds
<1> QED
  BY PInvInit, PInvKept, <1>1, PTL DEF SpecSession

\* A message shorter than the buffer never makes hs_stream_read_socket find it
\* full.
THEOREM ShortNeverGivenUp == SpecSession /\ []Numeric => []ShortIsRead
<1>1. PInv => ShortIsRead
  BY DEF PInv
<1> QED
  BY PInvInit, PInvKept, <1>1, PTL DEF SpecSession

-----------------------------------------------------------------------------
(* The texts of the tokens stay in place.                                  *)

\* While a request is read, its tokens lie in front of what may still be moved.
Placed ==
    /\ tokens \in Seq(http_token_t)
    /\ pc \notin {"done", "answered"} =>
          \A i \in DOMAIN tokens :
              tokens[i].index + tokens[i].len <= Fixed(parser, stream)

\* What a step does to the buffer and the tokens.
InPlace ==
    /\ Fixed(parser, stream) <= Length(stream')
    /\ \A k \in 1..Fixed(parser, stream) : stream'.buf[k] = stream.buf[k]
    /\ pc' = "done" \/ Fixed(parser, stream) <= Fixed(parser', stream')
    /\ \/ tokens' = tokens
       \/ \E tok \in http_token_t :
             /\ tokens' = Append(tokens, tok)
             /\ \/ pc' = "done"
                \/ tok.index + tok.len <= Fixed(parser', stream')

LEMMA DeliversInPlace ==
    ASSUME NEW p1 \in http_parser_t, NEW s1 \in hs_stream_t,
           NEW tok \in http_token_t, Gotten(p1, s1, tok),
           Deliver(Result(p1, s1, tok))
    PROVE  InPlace
<1> DEFINE r == Result(p1, s1, tok)
<1>1. r.p = p1 /\ r.s = s1 /\ r.tok = tok
  BY ResultFields
<1>2. Deliver(r)
  OBVIOUS
<1> HIDE DEF r
<1>3. /\ parser' = p1 /\ stream' = s1
      /\ tokens' = IF tok.type \in {"NONE", "CHUNK_BODY"} THEN tokens
                   ELSE Append(tokens, tok)
  BY <1>1, <1>2 DEF Deliver
<1>4. pc' = CASE tok.type = "NONE" -> "wait"
               [] tok.type \in {"ERROR", "BODY"} -> "done"
               [] tok.type = "CHUNK_BODY" /\ tok.len = 0 -> "done"
               [] tok.type = "CHUNK_BODY" /\ tok.len > 0 -> "read"
               [] tok.type = "BODY_STREAM" -> "read"
               [] OTHER -> "call"
  BY <1>1, <1>2, Zenon DEF Deliver
<1>5. tok.len \in Nat /\ (tok.len = 0 => ~(tok.len > 0))
  BY DEF http_token_t
<1>6. Ends(tok) => pc' = "done"
  BY <1>4, <1>5 DEF Ends
<1>7. CASE Ends(tok)
  BY <1>3, <1>6, <1>7 DEF Gotten, InPlace
<1>8. CASE ~Ends(tok)
  BY <1>3, <1>8 DEF Gotten, InPlace
<1> QED
  BY <1>7, <1>8

\* A step that leaves parser, stream and tokens alone.
LEMMA NothingMoves ==
    ASSUME PInv, pc \notin {"done", "answered"}, UNCHANGED <<parser, stream, tokens>>
    PROVE  InPlace
<1>1. /\ Fixed(parser, stream) \in Nat /\ Fixed(parser, stream) <= stream.index
      /\ stream.index \in Nat /\ Length(stream) \in Nat /\ stream.index <= Length(stream)
  BY FixedBehind, StreamFields DEF PInv, GoesOn, InBuffer
<1>2. Fixed(parser', stream') = Fixed(parser, stream)
  BY DEF Fixed
<1> QED
  BY <1>1, <1>2 DEF InPlace, Length

LEMMA ReadInPlace ==
    ASSUME PInv, NEW n \in Nat, Read(n)
    PROVE  InPlace
<1> DEFINE more == SubSeq(msg.bytes, sent + 1, sent + n)
           buf == stream.buf \o more
           x == [stream EXCEPT !.buf = buf]
           l == Len(stream.buf)
<1>1. /\ stream \in hs_stream_t /\ stream.buf \in Seq(Char) /\ stream.index \in Nat
      /\ stream.index <= l /\ l \in Nat /\ StreamOK(stream)
      /\ sent \in Nat /\ msg.bytes \in Seq(Char) /\ sent <= Len(msg.bytes)
  BY StreamFields DEF Read, PInv, Text, GoesOn, InBuffer, Length
<1>2. /\ stream' = x /\ parser' = parser /\ tokens' = tokens
      /\ n <= Len(msg.bytes) - sent
  BY DEF Read
<1>3. more \in Seq(Char)
  <2> DEFINE b == msg.bytes
             L == Len(b)
             i == sent + 1
             j == sent + n
  <2>1. b \in Seq(Char) /\ L \in Nat /\ n <= L - sent
    BY <1>1, <1>2
  <2>2. more = SubSeq(b, i, j) /\ L = Len(b)
    OBVIOUS
  <2> HIDE DEF b, L, more
  <2>3. i \in Nat \ {0} /\ j \in Nat /\ j <= Len(b)
    BY <1>1, <2>1, <2>2
  <2> HIDE DEF i, j
  <2> QED
    BY <2>1, <2>2, <2>3, SubSeqProperties
<1> HIDE DEF more
<1>4. /\ buf \in Seq(Char) /\ Len(buf) \in Nat /\ l <= Len(buf)
      /\ \A k \in 1..l : buf[k] = stream.buf[k]
  <2>1. /\ buf \in Seq(Char) /\ Len(buf) = l + Len(more)
        /\ \A k \in 1..l + Len(more) :
              buf[k] = IF k <= l THEN stream.buf[k] ELSE more[k - l]
    BY <1>1, <1>3, ConcatProperties
  <2>2. Len(more) \in Nat
    BY <1>3
  <2> HIDE DEF buf, l
  <2> QED
    BY <1>1, <2>1, <2>2
<1> HIDE DEF buf
<1>5. x.buf = buf /\ x.index = stream.index /\ x.anchor = stream.anchor
  BY <1>1 DEF hs_stream_t
<1> HIDE DEF x, l
<1>6. /\ Fixed(parser, stream) \in Nat /\ Fixed(parser, stream) <= stream.index
      /\ Fixed(parser, x) = Fixed(parser, stream)
  BY <1>1, <1>5, FixedBehind DEF Fixed
<1>7. Fixed(parser, stream) <= l
  BY <1>1, <1>6
<1>8. Fixed(parser, stream) <= Len(buf) /\ Length(x) = Len(buf)
  BY <1>1, <1>4, <1>5, <1>6, <1>7 DEF Length
<1>9. \A k \in 1..Fixed(parser, stream) : x.buf[k] = stream.buf[k]
  BY <1>1, <1>4, <1>5, <1>6, <1>7
<1> QED
  BY <1>2, <1>6, <1>8, <1>9 DEF InPlace

\* No step of the parser or of the receive loop moves what is in place.
LEMMA StepsInPlace ==
    PInv /\ Numeric /\ Next => pc \notin {"done", "answered"} /\ InPlace
<1> SUFFICES ASSUME PInv, Numeric, Next
             PROVE  pc \notin {"done", "answered"} /\ InPlace
  OBVIOUS
<1>0. parser \in http_parser_t /\ stream \in hs_stream_t
  BY DEF PInv
<1>1. CASE CallParse
  <2>1. pc \notin {"done", "answered"}
    BY <1>1 DEF CallParse
  <2>2. CASE \E p1 \in http_parser_t, tok \in http_token_t :
                Gotten(p1, stream, tok) /\ Deliver(Result(p1, stream, tok))
    BY <1>0, <2>1, <2>2, DeliversInPlace
  <2>3. CASE UNCHANGED <<msg, sent, parser, stream, tokens, body>>
    BY <2>1, <2>3, NothingMoves
  <2> QED
    BY <1>1, <2>2, <2>3, Called DEF CallGives
<1>2. CASE Scan
  <2>1. pc \notin {"done", "answered"}
    BY <1>2 DEF Scan
  <2>2. PICK p1 \in http_parser_t, s1 \in hs_stream_t, tok \in http_token_t :
           /\ Gotten(p1, s1, tok)
           /\ \/ tok.type # "NONE" /\ Deliver(Result(p1, s1, tok))
              \/ /\ tok.type = "NONE" /\ parser' = p1 /\ stream' = s1
                 /\ UNCHANGED <<msg, sent, tokens, body, pc>>
    BY <1>2, Scanned DEF ScanGives
  <2>3. CASE tok.type # "NONE"
    BY <2>1, <2>2, <2>3, DeliversInPlace
  <2>4. CASE tok.type = "NONE"
    <3>1. parser' = p1 /\ stream' = s1 /\ tokens' = tokens /\ ~Ends(tok)
      BY <2>2, <2>4 DEF Ends
    <3> QED
      BY <2>1, <2>2, <3>1 DEF Gotten, InPlace
  <2> QED
    BY <2>3, <2>4
<1>3. CASE ScanEnds
  <2>1. pc \notin {"done", "answered"}
    BY <1>3 DEF ScanEnds
  <2>2. PICK s1 \in hs_stream_t, tok \in http_token_t :
           Gotten(parser, s1, tok) /\ Deliver(Result(parser, s1, tok))
    BY <1>3, ScanEnded DEF ScanEndGives
  <2> QED
    BY <1>0, <2>1, <2>2, DeliversInPlace
<1>4. CASE Unread
  BY <1>4, NothingMoves DEF Unread
<1>5. CASE ReadFull
  BY <1>5, NothingMoves DEF ReadFull
<1>6. CASE \E n \in 0..MaxRequestBufSize : Read(n)
  <2>1. PICK n \in 0..MaxRequestBufSize : Read(n)
    BY <1>6
  <2>2. n \in Nat /\ pc \notin {"done", "answered"}
    BY <2>1, LimitAssumption DEF Read
  <2> QED
    BY <2>1, <2>2, ReadInPlace
<1> QED
  BY <1>1, <1>2, <1>3, <1>4, <1>5, <1>6 DEF Next

LEMMA ParsePlaces == PInv /\ Numeric /\ Placed /\ Parse => Placed'
<1> SUFFICES ASSUME PInv, Numeric, Placed, Parse PROVE Placed'
  OBVIOUS
<1>1. pc \notin {"done", "answered"} /\ InPlace
  BY StepsInPlace DEF Parse
<1>2. /\ tokens \in Seq(http_token_t)
      /\ \A i \in DOMAIN tokens :
            tokens[i].index + tokens[i].len <= Fixed(parser, stream)
  BY <1>1 DEF Placed
<1>3. ASSUME pc' \notin {"done", "answered"}
      PROVE  /\ Fixed(parser, stream) <= Fixed(parser', stream')
             /\ Fixed(parser, stream) \in Nat /\ Fixed(parser', stream') \in Nat
  <2>1. Fixed(parser, stream) <= Fixed(parser', stream')
    BY <1>1, <1>3 DEF InPlace
  <2>2. stream \in hs_stream_t /\ StreamOK(stream)
    BY <1>1 DEF PInv, GoesOn
  <2>3. stream' \in hs_stream_t /\ StreamOK(stream')
    <3>1. PInv'
      BY NextKeeps DEF Parse
    <3> QED
      BY <1>3, <3>1 DEF PInv, GoesOn
  <2>4. Fixed(parser, stream) \in Nat
    BY <2>2, FixedBehind
  <2>5. Fixed(parser', stream') \in Nat
    BY <2>3, FixedBehind
  <2> QED
    BY <2>1, <2>4, <2>5
<1>4. \A i \in DOMAIN tokens : tokens[i].index + tokens[i].len \in Nat
  <2> TAKE i \in DOMAIN tokens
  <2>1. tokens[i] \in http_token_t
    BY <1>2
  <2> QED
    BY <2>1 DEF http_token_t
<1>5. ASSUME pc' \notin {"done", "answered"}, NEW i \in DOMAIN tokens
      PROVE  tokens[i].index + tokens[i].len <= Fixed(parser', stream')
  <2>1. tokens[i].index + tokens[i].len \in Nat
    BY <1>4
  <2>2. tokens[i].index + tokens[i].len <= Fixed(parser, stream)
    BY <1>2
  <2> DEFINE e == tokens[i].index + tokens[i].len
  <2> HIDE DEF e
  <2>3. e \in Nat /\ e <= Fixed(parser, stream)
    BY <2>1, <2>2 DEF e
  <2>4. e <= Fixed(parser', stream')
    BY <1>3, <1>5, <2>3
  <2> QED
    BY <2>4 DEF e
<1>6. CASE tokens' = tokens
  BY <1>2, <1>5, <1>6 DEF Placed
<1>7. CASE tokens' # tokens
  <2>1. PICK tok \in http_token_t :
           /\ tokens' = Append(tokens, tok)
           /\ pc' = "done" \/ tok.index + tok.len <= Fixed(parser', stream')
    BY <1>1, <1>7 DEF InPlace
  <2> DEFINE n == Len(tokens)
  <2>2. n \in Nat /\ DOMAIN tokens = 1..n
    BY <1>2
  <2>3. /\ tokens' \in Seq(http_token_t) /\ Len(tokens') = n + 1
        /\ \A i \in 1..n : tokens'[i] = tokens[i]
        /\ tokens'[n + 1] = tok
    BY <1>2, <2>1, AppendProperties
  <2>4. DOMAIN tokens' = 1..n + 1
    BY <2>2, <2>3
  <2> HIDE DEF n
  <2>5. ASSUME pc' \notin {"done", "answered"}, NEW i \in DOMAIN tokens'
        PROVE  tokens'[i].index + tokens'[i].len <= Fixed(parser', stream')
    <3>1. i \in 1..n \/ i = n + 1
      BY <2>2, <2>4
    <3>2. CASE i \in 1..n
      BY <1>5, <2>2, <2>3, <2>5, <3>2
    <3>3. CASE i = n + 1
      BY <2>1, <2>3, <2>5, <3>3
    <3> QED
      BY <3>1, <3>2, <3>3
  <2> QED
    BY <2>3, <2>5 DEF Placed
<1> QED
  BY <1>6, <1>7

LEMMA PlacedKept ==
    PInv /\ Numeric /\ Placed /\ [NextSession]_<<vars, session>> => Placed'
<1> SUFFICES ASSUME PInv, Numeric, Placed, [NextSession]_<<vars, session>>
             PROVE  Placed'
  OBVIOUS
<1>1. CASE Parse
  BY <1>1, ParsePlaces
<1>2. CASE http_respond
  BY <1>2 DEF http_respond, Placed
<1>3. CASE \E directive \in {"keep", "close"} : http_request_connection(directive)
  BY <1>3 DEF http_request_connection, vars, Placed
<1>4. CASE \E m \in Messages : hs_init_session(m)
  <2>1. tokens' = <<>>
    BY <1>4 DEF hs_init_session
  <2> QED
    BY <2>1 DEF Placed
<1>5. CASE UNCHANGED <<vars, session>>
  BY <1>5 DEF vars, Placed
<1> QED
  BY <1>1, <1>2, <1>3, <1>4, <1>5 DEF NextSession

\* A step of http_parse, of the receive loop or of the handler that reads a
\* streamed body leaves every token stored so far in the list, and its text
\* in the buffer as the accessors find it.
TextsStay ==
    Parse => \A i \in DOMAIN tokens :
                /\ i \in DOMAIN tokens' /\ tokens'[i] = tokens[i]
                /\ SubSeq(stream'.buf, tokens[i].index + 1,
                          tokens[i].index + tokens[i].len) = TextOf(tokens[i])

LEMMA ParseStays == PInv /\ Numeric /\ Placed => TextsStay
<1> SUFFICES ASSUME PInv, Numeric, Placed, Parse, NEW i \in DOMAIN tokens
             PROVE  /\ i \in DOMAIN tokens' /\ tokens'[i] = tokens[i]
                    /\ SubSeq(stream'.buf, tokens[i].index + 1,
                              tokens[i].index + tokens[i].len) = TextOf(tokens[i])
  BY DEF TextsStay
<1>1. pc \notin {"done", "answered"} /\ InPlace
  BY StepsInPlace DEF Parse
<1>2. tokens \in Seq(http_token_t)
  BY DEF Placed
<1>3. i \in DOMAIN tokens' /\ tokens'[i] = tokens[i]
  <2>1. CASE tokens' = tokens
    BY <2>1
  <2>2. CASE tokens' # tokens
    <3>1. PICK tok \in http_token_t : tokens' = Append(tokens, tok)
      BY <1>1, <2>2 DEF InPlace
    <3>2. Len(tokens) \in Nat /\ i \in 1..Len(tokens)
      BY <1>2
    <3>3. /\ tokens' \in Seq(http_token_t) /\ Len(tokens') = Len(tokens) + 1
          /\ \A j \in 1..Len(tokens) : tokens'[j] = tokens[j]
      BY <1>2, <3>1, AppendProperties
    <3>4. DOMAIN tokens' = 1..Len(tokens) + 1
      BY <3>2, <3>3
    <3> QED
      BY <3>2, <3>3, <3>4
  <2> QED
    BY <2>1, <2>2
<1> DEFINE t == tokens[i]
           a == t.index
           e == t.index + t.len
           f == Fixed(parser, stream)
           b == stream.buf
           d == stream'.buf
<1>4. a \in Nat /\ e \in Nat /\ t.len \in Nat /\ e <= f
  <2>1. t \in http_token_t
    BY <1>2
  <2> QED
    BY <1>1, <2>1 DEF http_token_t, Placed
<1>5. b \in Seq(Char) /\ d \in Seq(Char) /\ Len(b) \in Nat /\ Len(d) \in Nat
  <2>1. PInv'
    BY NextKeeps DEF Parse
  <2>2. stream \in hs_stream_t /\ stream' \in hs_stream_t
    BY <2>1 DEF PInv
  <2> QED
    BY <2>2, StreamFields
<1>6. f \in Nat /\ f <= Len(b)
  <2>1. /\ stream \in hs_stream_t /\ StreamOK(stream) /\ stream.index <= Len(b)
        /\ stream.index \in Nat
    BY <1>1, StreamFields DEF PInv, GoesOn, InBuffer, Length
  <2>2. f \in Nat /\ f <= stream.index
    BY <2>1, FixedBehind
  <2> QED
    BY <1>5, <2>1, <2>2
<1>7. f <= Len(d) /\ \A k \in 1..f : d[k] = b[k]
  BY <1>1 DEF InPlace, Length
<1>8. e = a + t.len
  OBVIOUS
<1> DEFINE l == t.len
           x == SubSeq(b, a + 1, e)
           y == SubSeq(d, a + 1, e)
<1>9. l \in Nat /\ e = a + l
  BY <1>4
<1>10. TextOf(t) = x
  BY DEF TextOf
<1> HIDE DEF t, a, e, f, b, d, l
<1>11. /\ x \in Seq(Char) /\ Len(x) = l
       /\ \A k \in 1..l : x[k] = b[a + k]
  BY <1>4, <1>5, <1>6, <1>9, SubSeqProperties
<1>12. /\ y \in Seq(Char) /\ Len(y) = l
       /\ \A k \in 1..l : y[k] = d[a + k]
  BY <1>4, <1>5, <1>6, <1>7, <1>9, SubSeqProperties
<1> HIDE DEF x, y
<1>13. \A k \in 1..l : x[k] = y[k]
  <2> TAKE k \in 1..l
  <2>1. a + k \in 1..f
    BY <1>4, <1>6, <1>9
  <2> QED
    BY <1>7, <1>11, <1>12, <2>1
<1>14. x = y
  BY <1>11, <1>12, <1>13, SeqEqual
<1> QED
  BY <1>3, <1>10, <1>14 DEF t, a, e, b, d, x, y

\* The text of a token is never disturbed while its request is read: however
\* the message is cut and however often hs_stream_shift moves chunks down over
\* each other, method, target and headers stay where the accessors look.
THEOREM TextsInPlace ==
    SpecSession /\ []Numeric => [][TextsStay]_<<vars, session>>
<1>1. InitSession => Placed
  <2> SUFFICES ASSUME InitSession PROVE Placed
    OBVIOUS
  <2>1. tokens = <<>>
    BY DEF InitSession, Init
  <2> QED
    BY <2>1 DEF Placed
<1>2. PInv /\ Numeric /\ Placed /\ [NextSession]_<<vars, session>>
         => [TextsStay]_<<vars, session>>
  BY ParseStays
<1> QED
  BY PInvInit, PInvKept, PlacedKept, <1>1, <1>2, PTL DEF SpecSession

-----------------------------------------------------------------------------
(* The flag of a streamed request, whatever the client sends.              *)

HasStream == \E i \in DOMAIN tokens : tokens[i].type = "BODY_STREAM"

FlagInv ==
    /\ \E S : tokens \in Seq(S)
    /\ pc # "answered" /\ automatic => (keep <=> HasStream)

\* A step of the parser or of the token loop adds at most one token.
LEMMA TokensGrow ==
    Next => pc # "answered" /\ (tokens' = tokens \/ \E tok : tokens' = Append(tokens, tok))
<1> SUFFICES ASSUME Next
             PROVE  /\ pc # "answered"
                    /\ tokens' = tokens \/ \E tok : tokens' = Append(tokens, tok)
  OBVIOUS
<1>1. ASSUME NEW r, Deliver(r)
      PROVE  tokens' = tokens \/ \E tok : tokens' = Append(tokens, tok)
  <2>1. tokens' = IF r.tok.type \in {"NONE", "CHUNK_BODY"} THEN tokens
                  ELSE Append(tokens, r.tok)
    BY <1>1 DEF Deliver
  <2> QED
    BY <2>1
<1>2. CASE CallParse
  BY <1>1, <1>2 DEF CallParse
<1>3. CASE Scan
  <2>1. pc = "scan" /\ (tokens' = tokens \/ \E r : Deliver(r))
    BY <1>3 DEF Scan
  <2> QED
    BY <1>1, <2>1
<1>4. CASE ScanEnds
  <2>1. pc = "scan" /\ \E r : Deliver(r)
    BY <1>4 DEF ScanEnds
  <2> QED
    BY <1>1, <2>1
<1>5. CASE Unread
  BY <1>5 DEF Unread
<1>6. CASE ReadFull
  BY <1>6 DEF ReadFull
<1>7. CASE \E n \in 0..MaxRequestBufSize : Read(n)
  BY <1>7 DEF Read
<1> QED
  BY <1>2, <1>3, <1>4, <1>5, <1>6, <1>7 DEF Next

LEMMA ParseFlags == FlagInv /\ Parse => FlagInv'
<1> SUFFICES ASSUME FlagInv, Parse PROVE FlagInv'
  OBVIOUS
<1>1. /\ pc # "answered" /\ automatic' = automatic
      /\ tokens' = tokens \/ \E tok : tokens' = Append(tokens, tok)
      /\ keep' = IF tokens' # tokens /\ tokens'[Len(tokens')].type = "BODY_STREAM"
                 THEN TRUE ELSE keep
  BY TokensGrow DEF Parse
<1>2. PICK S : tokens \in Seq(S)
  BY DEF FlagInv
<1>3. CASE tokens' = tokens
  <2>1. keep' = keep
    BY <1>1, <1>3
  <2> QED
    BY <1>1, <1>3, <2>1 DEF FlagInv, HasStream
<1>4. CASE tokens' # tokens
  <2>1. PICK tok : tokens' = Append(tokens, tok)
    BY <1>1, <1>4
  <2> DEFINE T == S \cup {tok}
             n == Len(tokens)
  <2>2. tokens \in Seq(T) /\ tok \in T /\ n \in Nat /\ DOMAIN tokens = 1..n
    BY <1>2
  <2> HIDE DEF T
  <2>3. /\ tokens' \in Seq(T) /\ Len(tokens') = n + 1
        /\ \A i \in 1..n : tokens'[i] = tokens[i]
        /\ tokens'[n + 1] = tok
    BY <2>1, <2>2, AppendProperties
  <2>4. DOMAIN tokens' = 1..n + 1
    BY <2>2, <2>3
  <2>5. keep' = IF tok.type = "BODY_STREAM" THEN TRUE ELSE keep
    BY <1>1, <1>4, <2>3
  <2> HIDE DEF n
  <2>6. HasStream' <=> HasStream \/ tok.type = "BODY_STREAM"
    <3>1. \A i \in 1..n + 1 : i \in 1..n \/ i = n + 1
      BY <2>2
    <3>2. \A i \in 1..n : i \in 1..n + 1
      BY <2>2
    <3>3. n + 1 \in 1..n + 1
      BY <2>2
    <3> QED
      BY <2>2, <2>3, <2>4, <3>1, <3>2, <3>3 DEF HasStream
  <2>7. automatic' => (keep' <=> HasStream')
    BY <1>1, <2>5, <2>6 DEF FlagInv
  <2> QED
    BY <2>3, <2>7 DEF FlagInv
<1> QED
  BY <1>3, <1>4

\* A handler that has not called http_request_connection is told that the
\* request is streamed exactly when it is, on every connection, with whatever
\* messages: the bit that http_request_has_flag reads is HTTP_KEEP_ALIVE's
\* too, and only hs_auto_detect_keep_alive and the handler set that one.
THEOREM FlagTold == SpecSession => []StreamedIsFlagged
<1>1. InitSession => FlagInv
  <2> SUFFICES ASSUME InitSession PROVE FlagInv
    OBVIOUS
  <2>1. tokens = <<>> /\ keep = FALSE
    BY DEF InitSession, Init
  <2>2. tokens \in Seq({}) /\ ~HasStream
    BY <2>1 DEF HasStream
  <2> QED
    BY <2>1, <2>2 DEF FlagInv
<1>2. FlagInv /\ [NextSession]_<<vars, session>> => FlagInv'
  <2> SUFFICES ASSUME FlagInv, [NextSession]_<<vars, session>> PROVE FlagInv'
    OBVIOUS
  <2>1. CASE Parse
    BY <2>1, ParseFlags
  <2>2. CASE http_respond
    BY <2>2 DEF http_respond, FlagInv, HasStream
  <2>3. CASE \E directive \in {"keep", "close"} : http_request_connection(directive)
    BY <2>3 DEF http_request_connection, vars, FlagInv, HasStream
  <2>4. CASE \E m \in Messages : hs_init_session(m)
    <3>1. tokens' = <<>> /\ keep' = FALSE
      BY <2>4 DEF hs_init_session
    <3>2. tokens' \in Seq({}) /\ ~HasStream'
      BY <3>1 DEF HasStream
    <3> QED
      BY <3>1, <3>2 DEF FlagInv
  <2>5. CASE UNCHANGED <<vars, session>>
    BY <2>5 DEF vars, session, FlagInv, HasStream
  <2> QED
    BY <2>1, <2>2, <2>3, <2>4, <2>5 DEF NextSession
<1>3. FlagInv => StreamedIsFlagged
  BY DEF FlagInv, StreamedIsFlagged, Handling, HasStream, http_request_has_flag
<1> QED
  BY <1>1, <1>2, <1>3, PTL DEF SpecSession
=============================================================================
