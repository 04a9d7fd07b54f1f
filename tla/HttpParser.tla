----------------------------- MODULE HttpParser -----------------------------
(***************************************************************************)
(* http_parser_execute: where messages, their header blocks and bodies     *)
(* begin and end.                                                          *)
(*                                                                         *)
(* One action per state of the parser; a token is one round of the loop,   *)
(* or several if the code says REEXECUTE.  Input is any sequence of tokens, *)
(* cut anywhere into buffers; callbacks may pause the parser or fail, but  *)
(* for those that report header data, which return 0.  Not modelled:       *)
(* HTTP_BOTH.                                                              *)
(***************************************************************************)
EXTENDS HttpStartLine, FiniteSets

CONSTANTS Types,      \* subset of {"HTTP_REQUEST", "HTTP_RESPONSE"}
          Codes,      \* the status codes that occur, leading zeros apart
          Digits,     \* the digits that occur, a subset of 0..15
          MaxBuffer,  \* bound: tokens in one buffer
          Outcomes    \* what a callback may do: subset of
                      \* {"OK", "PAUSED", "CB_FAILED"}

ASSUME ParserAssumption ==
    /\ Codes \subseteq 0..999
    /\ Types \subseteq {"HTTP_REQUEST", "HTTP_RESPONSE"}
    /\ Digits \subseteq 0..15
    /\ MaxBuffer \in Nat \ {0}
    /\ Outcomes \subseteq {"OK", "PAUSED", "CB_FAILED"}

VARIABLES
    p,      \* the struct http_parser
    call,   \* "idle", or "running": inside http_parser_execute; "done": no
            \* call follows, the stream has ended or changed its protocol
    left,   \* tokens of the buffer behind the current one
    ch,     \* the current token, or None
    unread, \* the token a call returned without consuming, or None
    mark,   \* bytes between url_mark, status_mark or body_mark and the
            \* current one, or NoMark if none of them is set
    due,    \* bytes of a URL or reason phrase seen, of a body announced or,
            \* if it has no length, seen, and not yet reported
    word,   \* the letters of the method read so far
    exact,  \* the number whose digits are being read, or 0
    phase,  \* the last event of the current message
    event,  \* the event the last step reported, or "none"
    kept    \* http_should_keep_alive when the last message was complete

vars == <<p, call, left, ch, unread, mark, due, word, exact, phase, event, kept>>

None == Token("none")
NoMark == -1

(* nread: 0, 1 or 2 for "more".  A token stands for any number of bytes, so *)
(* the limit on the header's size may be met at any time after the first.   *)
States ==
    UrlStates \cup DOMAIN After \cup
    {"s_dead", "s_start_req", "s_req_method", "s_req_spaces_before_url",
     "s_req_http_start", "s_req_http_end", "s_req_line_almost_done",
     "s_start_res", "s_res_http_end", "s_res_first_status_code",
     "s_res_status_code", "s_res_status_start", "s_res_status",
     "s_res_line_almost_done", "s_header_field_start",
     "s_header_value_discard_ws", "s_header_value_discard_ws_almost_done",
     "s_header_value_discard_lws", "s_header_value_start", "s_header_value",
     "s_header_value_lws", "s_header_almost_done", "s_headers_almost_done",
     "s_headers_done", "s_body_identity", "s_body_identity_eof",
     "s_message_done", "s_chunk_size_start", "s_chunk_size",
     "s_chunk_parameters", "s_chunk_size_almost_done", "s_chunk_data",
     "s_chunk_data_almost_done", "s_chunk_data_done"}

(* What the code can grow to before its fourth digit is refused.            *)
MaxStatus == 9999

Parser == [type : Types, state : States, header : HeaderStates,
           flags : SUBSET Flags, length : 0..MaxLength, nread : 0..2,
           method : Methods \cup {"other"}, index : Nat, http11 : BOOLEAN,
           status : 0..MaxStatus, upgrade : BOOLEAN, errno : Errnos]

(* The states PARSING_HEADER excludes.                                      *)
BodyStates == {"s_chunk_data", "s_chunk_data_almost_done", "s_chunk_data_done",
               "s_body_identity", "s_body_identity_eof", "s_message_done"}

DigitTokens == {Digit(v) : v \in Digits}
NameTokens == {Name(n) : n \in Names}

LetterTokens == {Letter(l) : l \in Letters}

(* The digits that continue one of the codes, after zeros if any, or make   *)
(* the number too large.                                                    *)
CodeDigits(n) ==
    {Digit(v) : v \in {w \in 0..9 : \/ n * 10 + w > 999
                                   \/ n * 10 + w = 0
                                   \/ \E k \in Codes :
                                        n * 10 + w \in {k, k \div 10, k \div 100}}}

(* The tokens worth telling apart in a state; others go the way of Junk.    *)
Offered(state) ==
    LET digit == {"s_req_http_major", "s_res_http_major",
                  "s_req_http_minor", "s_res_http_minor"} IN
    CASE state = "s_start_req" -> LetterTokens \cup {CR, LF, Junk}
      [] state = "s_req_method" -> LetterTokens \cup {SP, Junk}
      [] state \in UrlStates \cup {"s_req_spaces_before_url"} ->
            UrlTokens \cup {SP, CR, LF, Junk}
      [] state \in {"s_req_http_start", "s_start_res"} ->
            {Letter("H"), SP, CR, LF, Junk}
      [] state \in digit -> DigitTokens \cup {Junk}
      [] state \in DOMAIN After \ digit -> {Ttp, Dot, Junk}
      [] state = "s_res_http_end" -> {SP, Junk}
      [] state = "s_res_first_status_code" -> CodeDigits(0) \cup {SP, Junk}
      [] state = "s_res_status_code" ->
            CodeDigits(p.status) \cup {Junk}
              \cup IF p.status \in Codes THEN {SP, CR, LF} ELSE {}
      [] state \in {"s_res_status_start", "s_res_status"} -> {Alpha, CR, LF}
      [] state = "s_header_field_start" -> NameTokens \cup {CR, LF, Junk}
      [] state \in {"s_header_value_discard_ws", "s_header_value"} ->
            {SP, CR, LF, Junk}
              \cup IF p.header \in {"h_general", "h_upgrade"} THEN {Token("other")}
                   ELSE WordTokens \cup DigitTokens \cup {Comma, Semicolon}
      [] state \in {"s_header_value_lws", "s_header_value_discard_lws"} ->
            NameTokens \cup {SP, CR, LF, Junk}
      [] state \in {"s_chunk_size_start", "s_chunk_size", "s_chunk_parameters"} ->
            DigitTokens \cup {SP, Semicolon, CR, Junk}
      [] state \in {"s_body_identity", "s_body_identity_eof", "s_chunk_data"} ->
            {Byte}
      [] OTHER -> {CR, LF, Junk}

-----------------------------------------------------------------------------
(* http_message_needs_eof                                                   *)
NeedsEof(q) ==
    /\ q.type = "HTTP_RESPONSE"
    /\ q.status \div 100 # 1 /\ q.status \notin {204, 304}
    /\ q.flags \cap {"F_SKIPBODY", "F_CHUNKED"} = {}
    /\ q.length = MaxLength

(* http_should_keep_alive                                                   *)
KeepAlive(q) ==
    /\ IF q.http11 THEN "F_CONNECTION_CLOSE" \notin q.flags
                   ELSE "F_CONNECTION_KEEP_ALIVE" \in q.flags
    /\ ~NeedsEof(q)

StartState(q) == IF q.type = "HTTP_REQUEST" THEN "s_start_req" ELSE "s_start_res"

NewMessage(q) == InState(q, IF KeepAlive(q) THEN StartState(q) ELSE "s_dead")

(* http_parser_init; memset leaves zeros, and every message sets the length.*)
Init ==
    /\ \E type \in Types :
          p = [type |-> type,
               state |-> IF type = "HTTP_REQUEST" THEN "s_start_req" ELSE "s_start_res",
               header |-> "h_general", flags |-> {}, length |-> 0, nread |-> 0,
               method |-> "DELETE", index |-> 0, http11 |-> FALSE, status |-> 0,
               upgrade |-> FALSE, errno |-> "OK"]
    /\ call = "idle" /\ left = 0 /\ ch = None /\ unread = None
    /\ mark = NoMark /\ due = 0 /\ word = <<>> /\ exact = 0
    /\ phase = "complete" /\ event = "none" /\ kept = TRUE

(* parser->nread = 0: the size of the next part counts from here.           *)
Recount_Forgotten(q) == q

Recount(q) == [q EXCEPT !.nread = 0]

-----------------------------------------------------------------------------
(* What ends a round of the loop.                                           *)
At(state) == call = "running" /\ ch # None /\ p.state = state

Consume(q) == p' = q /\ ch' = None /\ UNCHANGED <<call, unread>>

Reexecute(q) == p' = q /\ UNCHANGED <<call, ch, unread>>

(* goto error                                                               *)
Error(q) == p' = q /\ call' = "idle" /\ ch' = None /\ UNCHANGED unread

Fails(errno) == Error(Erroneous(p, errno))

Result(q) == IF q.errno = "OK" THEN Consume(q) ELSE Error(q)

(* CALLBACK_NOTIFY and CALLBACK_DATA: return if the callback paused the     *)
(* parser or failed, with or without the current token.                     *)
CallsBack(q) ==
    \E r \in Outcomes :
        /\ p' = Erroneous(q, r)
        /\ call' = IF r = "OK" THEN call ELSE "idle"
        /\ ch' = None
        /\ UNCHANGED unread

CallsBackNoAdvance_Consumes(q) == CallsBack(q)

CallsBackNoAdvance_StateLate(q) ==
    \E r \in Outcomes :
        IF r = "OK" THEN p' = q /\ UNCHANGED <<call, ch, unread>>
        ELSE /\ p' = Erroneous(InState(q, p.state), r)
             /\ call' = "idle" /\ ch' = None /\ unread' = ch

CallsBackNoAdvance(q) ==
    \E r \in Outcomes :
        /\ p' = Erroneous(q, r)
        /\ IF r = "OK" THEN UNCHANGED <<call, ch, unread>>
           ELSE call' = "idle" /\ ch' = None /\ unread' = ch

(* ... and RETURN.                                                          *)
CallsBackAndReturns(q) ==
    \E r \in Outcomes :
        /\ p' = Erroneous(q, r)
        /\ call' = "done"
        /\ ch' = None
        /\ UNCHANGED unread

(* CALLBACK_DATA: if something is marked.                                   *)
Held == IF mark = NoMark THEN 0 ELSE mark

CallsBackData(q) ==
    /\ IF mark = NoMark THEN Consume(q) ELSE CallsBack(q)
    /\ mark' = NoMark
    /\ due' = due - Held

NoData == UNCHANGED <<left, mark, due, word, exact>>
NoNumber == UNCHANGED <<left, word, exact>>
NoEvent == event' = "none" /\ UNCHANGED <<phase, kept>>

Reports(e) == event' = e /\ phase' = e

(* on_message_complete                                                      *)
Completes(q) == Reports("complete") /\ kept' = KeepAlive(q)

-----------------------------------------------------------------------------
(* http_parser_execute with a buffer of one token or more.                  *)
Execute ==
    /\ call = "idle" /\ p.errno = "OK"
    /\ call' = "running"
    /\ \E len \in 1..MaxBuffer : left' = len
    /\ mark' = IF p.state \in MarkedStates THEN 0 ELSE NoMark
    /\ UNCHANGED <<p, ch, unread, due, word, exact>> /\ NoEvent

(* With an empty one: the end of the stream.                                *)
ExecuteEof ==
    /\ call = "idle" /\ p.errno = "OK" /\ unread = None
    /\ call' = "done"
    /\ CASE p.state = "s_body_identity_eof" ->
              \E r \in Outcomes : p' = Erroneous(p, r) /\ Completes(p)
         [] p.state \in {"s_dead", "s_start_req", "s_start_res"} ->
              UNCHANGED p /\ NoEvent
         [] OTHER -> p' = Erroneous(p, "INVALID_EOF_STATE") /\ NoEvent
    /\ UNCHANGED <<ch, unread>> /\ NoData

(* http_parser_pause(parser, 0)                                             *)
Unpause ==
    /\ call = "idle" /\ p.errno = "PAUSED"
    /\ p' = Erroneous(p, "OK")
    /\ UNCHANGED <<call, ch, unread>> /\ NoData /\ NoEvent

(* The head of the loop, with COUNT_HEADER_SIZE.                            *)
Load ==
    /\ call = "running" /\ ch = None /\ left > 0
    /\ left' = left - 1
    /\ LET n == IF p.nread = 2 THEN 2 ELSE p.nread + 1
           q == IF p.state \in BodyStates THEN p ELSE [p EXCEPT !.nread = n] IN
       \/ /\ \E t \in IF unread = None THEN Offered(p.state) ELSE {unread} :
                ch' = t
          /\ p' = q /\ unread' = None
          /\ UNCHANGED call
       \/ /\ p.state \notin BodyStates /\ n = 2
          /\ Error(Erroneous(q, "HEADER_OVERFLOW"))
    /\ UNCHANGED <<mark, due, word, exact>> /\ NoEvent

(* The end of the buffer: what is marked is reported.                       *)
Flush_Forgets ==
    /\ call = "running" /\ ch = None /\ left = 0
    /\ mark' = NoMark /\ call' = "idle"
    /\ UNCHANGED <<p, ch, unread, left, due, word, exact>> /\ NoEvent

Flush ==
    /\ call = "running" /\ ch = None /\ left = 0
    /\ \E r \in IF mark = NoMark THEN {"OK"} ELSE Outcomes : p' = Erroneous(p, r)
    /\ due' = due - Held
    /\ mark' = NoMark
    /\ call' = "idle"
    /\ UNCHANGED <<ch, unread>> /\ NoNumber /\ NoEvent

-----------------------------------------------------------------------------
Dead ==
    /\ At("s_dead")
    /\ IF ch \in {CR, LF} THEN Consume(p) ELSE Fails("CLOSED_CONNECTION")
    /\ NoData /\ NoEvent

(* A message begins, with its flags and length reset.                       *)
Fresh == [p EXCEPT !.flags = {}, !.length = MaxLength]

Begins(t) == t.t = "letter" /\ t.l \in DOMAIN Guess

StartReq ==
    /\ At("s_start_req")
    /\ \/ ch \in {CR, LF} /\ Consume(p) /\ NoEvent /\ UNCHANGED word
       \/ /\ ch \notin {CR, LF} /\ ~Begins(ch)
          /\ Error(Erroneous(Fresh, "INVALID_METHOD"))
          /\ NoEvent /\ UNCHANGED word
       \/ /\ Begins(ch)
          /\ CallsBack([Fresh EXCEPT !.method = Guess[ch.l], !.index = 1,
                                    !.state = "s_req_method"])
          /\ word' = <<ch.l>>
          /\ Reports("begun") /\ UNCHANGED kept
    /\ UNCHANGED <<left, mark, due, exact>>

(* What comes after the method depends on whether it is CONNECT; the others *)
(* are not told apart.                                                      *)
ReqMethod ==
    /\ At("s_req_method")
    /\ LET here == CharAt(p.method, p.index)
           more == IF ch.t # "letter" THEN {}
                   ELSE IF ch.l = here THEN {p.method}
                   ELSE Corrected(p.method, p.index, ch.l) IN
       \/ /\ ch = SP /\ here = ""
          /\ Consume([p EXCEPT !.state = "s_req_spaces_before_url", !.index = 0,
                               !.method = IF @ = "CONNECT" THEN @ ELSE "other"])
          /\ word' = <<>>
       \/ \E m \in more :
             /\ Consume([p EXCEPT !.method = m, !.index = @ + 1])
             /\ word' = Append(word, ch.l)
       \/ /\ more = {} /\ ~(ch = SP /\ here = "")
          /\ Fails("INVALID_METHOD") /\ UNCHANGED word
    /\ UNCHANGED <<left, mark, due, exact>> /\ NoEvent

(* One more character of a URL.                                             *)
UrlChar(s, n) ==
    IF s = "s_dead"
    THEN Error(Erroneous(InState(p, s), "INVALID_URL")) /\ UNCHANGED <<mark, due>>
    ELSE Consume(InState(p, s)) /\ mark' = n /\ due' = due + 1

Further == IF mark = NoMark THEN NoMark ELSE mark + 1

ReqSpacesBeforeUrl ==
    /\ At("s_req_spaces_before_url")
    /\ IF ch = SP THEN Consume(p) /\ UNCHANGED <<mark, due>>
       ELSE UrlChar(parse_url_char(IF p.method = "CONNECT" THEN "s_req_server_start"
                                   ELSE p.state, ch),
                    Held + 1)
    /\ NoNumber /\ NoEvent

(* A line without a version is HTTP/0.9.                                    *)
Url ==
    /\ p.state \in UrlStates /\ At(p.state)
    /\ LET older == [p EXCEPT !.http11 = FALSE] IN
       IF ch \in {SP, CR, LF} /\ p.state \in Unfinished
       THEN Fails("INVALID_URL") /\ UNCHANGED <<mark, due>>
       ELSE
         CASE ch = SP -> CallsBackData(InState(p, "s_req_http_start"))
         [] ch = CR -> CallsBackData(InState(older, "s_req_line_almost_done"))
         [] ch = LF -> CallsBackData(InState(older, "s_header_field_start"))
         [] OTHER   -> UrlChar(parse_url_char(p.state, ch), Further)
    /\ NoNumber /\ NoEvent

ReqHttpStart ==
    /\ At("s_req_http_start")
    /\ CASE ch = SP          -> Consume(p)
         [] ch = Letter("H") -> Consume(InState(p, "s_req_http_H"))
         [] OTHER            -> Fails("INVALID_CONSTANT")
    /\ NoData /\ NoEvent

Http ==
    /\ p.state \in {"s_req_http_H", "s_res_H"} /\ At(p.state)
    /\ IF ch = Ttp THEN Consume(InState(p, After[p.state])) ELSE Fails("STRICT")
    /\ NoData /\ NoEvent

(* http11: both numbers of the version are positive.                        *)
HttpMajor ==
    /\ p.state \in {"s_req_http_major", "s_res_http_major"} /\ At(p.state)
    /\ IF IsDecimal(ch)
       THEN Consume([p EXCEPT !.http11 = ch.v > 0, !.state = After[p.state]])
       ELSE Fails("INVALID_VERSION")
    /\ NoData /\ NoEvent

HttpDot ==
    /\ p.state \in {"s_req_http_dot", "s_res_http_dot"} /\ At(p.state)
    /\ IF ch = Dot THEN Consume(InState(p, After[p.state]))
                   ELSE Fails("INVALID_VERSION")
    /\ NoData /\ NoEvent

HttpMinor ==
    /\ p.state \in {"s_req_http_minor", "s_res_http_minor"} /\ At(p.state)
    /\ IF IsDecimal(ch)
       THEN Consume([p EXCEPT !.http11 = @ /\ ch.v > 0, !.state = After[p.state]])
       ELSE Fails("INVALID_VERSION")
    /\ NoData /\ NoEvent

ReqHttpEnd ==
    /\ At("s_req_http_end")
    /\ CASE ch = CR -> Consume(InState(p, "s_req_line_almost_done"))
         [] ch = LF -> Consume(InState(p, "s_header_field_start"))
         [] OTHER   -> Fails("INVALID_VERSION")
    /\ NoData /\ NoEvent

LineAlmostDone ==
    /\ p.state \in {"s_req_line_almost_done", "s_res_line_almost_done"} /\ At(p.state)
    /\ IF ch = LF THEN Consume(InState(p, "s_header_field_start"))
       ELSE Fails(IF p.state = "s_req_line_almost_done" THEN "LF_EXPECTED" ELSE "STRICT")
    /\ NoData /\ NoEvent

(* A blank line before a response is reported as the beginning of a message *)
(* too, so that a message may be reported to begin more than once.          *)
StartRes ==
    /\ At("s_start_res")
    /\ LET q == IF ch = Letter("H") THEN InState(Fresh, "s_res_H") ELSE Fresh IN
       IF ch \in {Letter("H"), CR, LF}
       THEN CallsBack(q) /\ Reports("begun") /\ UNCHANGED kept
       ELSE Error(Erroneous(q, "INVALID_CONSTANT")) /\ NoEvent
    /\ NoData

ResHttpEnd ==
    /\ At("s_res_http_end")
    /\ IF ch = SP THEN Consume(InState(p, "s_res_first_status_code"))
                  ELSE Fails("INVALID_VERSION")
    /\ NoData /\ NoEvent

ResFirstStatusCode ==
    /\ At("s_res_first_status_code")
    /\ CASE IsDecimal(ch) ->
              Consume([p EXCEPT !.status = ch.v, !.state = "s_res_status_code"])
         [] ch = SP -> Consume(p)
         [] OTHER   -> Fails("INVALID_STATUS")
    /\ NoData /\ NoEvent

ResStatusCode ==
    /\ At("s_res_status_code")
    /\ CASE IsDecimal(ch) ->
              LET n == p.status * 10 + ch.v
                  q == [p EXCEPT !.status = n] IN
              Result(IF n > 999 THEN Erroneous(q, "INVALID_STATUS") ELSE q)
         [] ch = SP -> Consume(InState(p, "s_res_status_start"))
         [] ch \in {CR, LF} -> Reexecute(InState(p, "s_res_status_start"))
         [] OTHER   -> Fails("INVALID_STATUS")
    /\ NoData /\ NoEvent

ResStatusStart ==
    /\ At("s_res_status_start")
    /\ LET q == InState(p, "s_res_status") IN
       IF ch \in {CR, LF}
       THEN Reexecute(q) /\ mark' = Held /\ UNCHANGED due
       ELSE Consume(q) /\ mark' = Held + 1 /\ due' = due + 1
    /\ NoNumber /\ NoEvent

ResStatus ==
    /\ At("s_res_status")
    /\ CASE ch = CR -> CallsBackData(InState(p, "s_res_line_almost_done"))
         [] ch = LF -> CallsBackData(InState(p, "s_header_field_start"))
         [] OTHER   -> Consume(p) /\ mark' = Further /\ due' = due + 1
    /\ NoNumber /\ NoEvent

HeaderFieldStart ==
    /\ At("s_header_field_start")
    /\ \/ ch = CR /\ Consume(InState(p, "s_headers_almost_done"))
       \/ ch = LF /\ Reexecute(InState(p, "s_headers_almost_done"))
       \/ ch.t = "name" /\ Consume([p EXCEPT !.header = FieldState[ch.name],
                                            !.state = "s_header_value_discard_ws"])
       \/ ch.t \notin {"CR", "LF", "name"} /\ Fails("INVALID_HEADER_TOKEN")
    /\ NoData /\ NoEvent

(* The first character of a value gives its first digit.                    *)
ReadsFirst(q) ==
    exact' = IF q.errno = "OK" /\ p.header = "h_content_length" THEN ch.v ELSE exact

HeaderValueDiscardWs ==
    /\ At("s_header_value_discard_ws")
    /\ CASE ch = SP -> Consume(p) /\ UNCHANGED exact
         [] ch = CR -> /\ Consume(InState(p, "s_header_value_discard_ws_almost_done"))
                       /\ UNCHANGED exact
         [] ch = LF -> /\ Consume(InState(p, "s_header_value_discard_lws"))
                       /\ UNCHANGED exact
         [] OTHER   -> Result(ValueStart(p, ch)) /\ ReadsFirst(ValueStart(p, ch))
    /\ UNCHANGED <<left, mark, due, word>> /\ NoEvent

HeaderValueStart ==
    /\ At("s_header_value_start")
    /\ Result(ValueStart(p, ch))
    /\ NoData /\ NoEvent

HeaderValueDiscardWsAlmostDone ==
    /\ At("s_header_value_discard_ws_almost_done")
    /\ IF ch = LF THEN Consume(InState(p, "s_header_value_discard_lws"))
                  ELSE Fails("STRICT")
    /\ NoData /\ NoEvent

HeaderValueDiscardLws ==
    /\ At("s_header_value_discard_lws")
    /\ IF ch = SP THEN Consume(InState(p, "s_header_value_discard_ws"))
       ELSE Reexecute(InState(WithFlag(p), "s_header_field_start"))
    /\ NoData /\ NoEvent

(* Junk: a character no header may have, or a run with one in it.  Of a     *)
(* value of no interest only the first character a buffer has is checked;   *)
(* memchr skips the others.                                                 *)
HeaderValue ==
    /\ At("s_header_value")
    /\ CASE ch = CR -> Consume(InState(p, "s_header_almost_done")) /\ UNCHANGED exact
         [] ch = LF -> Reexecute(InState(p, "s_header_almost_done")) /\ UNCHANGED exact
         [] ch = Junk -> /\ \/ Fails("INVALID_HEADER_TOKEN")
                            \/ p.header = "h_general" /\ Consume(p)
                         /\ UNCHANGED exact
         [] OTHER ->
              LET q == Value(p, ch) IN
              /\ Result(q)
              /\ exact' = IF q.errno = "OK" /\ p.header = "h_content_length"
                             /\ IsDecimal(ch)
                          THEN exact * 10 + ch.v ELSE exact
    /\ UNCHANGED <<left, mark, due, word>> /\ NoEvent

HeaderAlmostDone ==
    /\ At("s_header_almost_done")
    /\ IF ch = LF THEN Consume(InState(p, "s_header_value_lws"))
                  ELSE Fails("LF_EXPECTED")
    /\ NoData /\ NoEvent

HeaderValueLws ==
    /\ At("s_header_value_lws")
    /\ IF ch = SP THEN Reexecute(InState(p, "s_header_value_start"))
       ELSE Reexecute(InState(WithFlag(p), "s_header_field_start"))
    /\ NoData /\ NoEvent

-----------------------------------------------------------------------------
(* parser->upgrade as on_headers_complete sees it.                          *)
Upgrades(q) ==
    IF {"F_UPGRADE", "F_CONNECTION_UPGRADE"} \subseteq q.flags
    THEN q.type = "HTTP_REQUEST" \/ q.status = 101
    ELSE q.method = "CONNECT"

(* on_headers_complete may say that there is no body (1), or that the rest  *)
(* is another protocol as well (2).                                         *)
HeadersComplete(q) ==
    \E upgrade \in {q.upgrade, TRUE} :
       LET skip == [q EXCEPT !.flags = @ \cup {"F_SKIPBODY"}, !.upgrade = upgrade] IN
       \E answer \in {q, skip} : CallsBackNoAdvance(answer)

HeadersAlmostDone_AllowsBoth ==
    /\ At("s_headers_almost_done")
    /\ \/ ch = LF /\ "F_TRAILING" \in p.flags
          /\ CallsBackNoAdvance(InState(p, "s_message_done")) /\ NoEvent
       \/ ch = LF /\ "F_TRAILING" \notin p.flags
          /\ HeadersComplete([p EXCEPT !.state = "s_headers_done",
                                       !.upgrade = Upgrades(p)])
          /\ Reports("headers") /\ UNCHANGED kept
       \/ ch # LF /\ Fails("STRICT") /\ NoEvent
    /\ NoData

HeadersAlmostDone ==
    /\ At("s_headers_almost_done")
    /\ \/ ch # LF /\ Fails("STRICT") /\ NoEvent
       \/ /\ ch = LF /\ "F_TRAILING" \in p.flags
          /\ CallsBackNoAdvance(InState(p, "s_message_done")) /\ NoEvent
       \/ /\ ch = LF /\ "F_TRAILING" \notin p.flags
          /\ {"F_CHUNKED", "F_CONTENTLENGTH"} \subseteq p.flags
          /\ Fails("UNEXPECTED_CONTENT_LENGTH") /\ NoEvent
       \/ /\ ch = LF /\ "F_TRAILING" \notin p.flags
          /\ ~({"F_CHUNKED", "F_CONTENTLENGTH"} \subseteq p.flags)
          /\ HeadersComplete([p EXCEPT !.state = "s_headers_done",
                                       !.upgrade = Upgrades(p)])
          /\ Reports("headers") /\ UNCHANGED kept
    /\ NoData

HasBody(q) == "F_CHUNKED" \in q.flags \/ q.length \notin {0, MaxLength}

(* The message ends with its headers.                                       *)
EndsAtOnce(q) ==
    \/ "F_SKIPBODY" \in q.flags
    \/ /\ "F_CHUNKED" \notin q.flags
       /\ q.length = 0 \/ (q.length = MaxLength /\ ~NeedsEof(q))

HeadersDone ==
    /\ At("s_headers_done")
    /\ LET q == Recount(p) IN
       \/ ch # LF /\ Fails("STRICT") /\ NoEvent /\ UNCHANGED due
       \/ /\ ch = LF
          /\ p.upgrade /\ (p.method = "CONNECT" \/ "F_SKIPBODY" \in p.flags \/ ~HasBody(p))
          /\ CallsBackAndReturns(NewMessage(q)) /\ Completes(q) /\ UNCHANGED due
       \/ /\ ch = LF
          /\ ~(p.upgrade /\ (p.method = "CONNECT" \/ "F_SKIPBODY" \in p.flags \/ ~HasBody(p)))
          /\ \/ /\ EndsAtOnce(q)
                /\ CallsBack(NewMessage(q)) /\ Completes(q) /\ UNCHANGED due
             \/ /\ ~EndsAtOnce(q)
                /\ Consume(InState(q,
                      IF "F_CHUNKED" \in q.flags THEN "s_chunk_size_start"
                      ELSE IF q.length # MaxLength THEN "s_body_identity"
                      ELSE "s_body_identity_eof"))
                /\ due' = IF "F_CHUNKED" \notin q.flags /\ q.length # MaxLength
                          THEN due + exact ELSE due
                /\ NoEvent
    /\ exact' = 0
    /\ UNCHANGED <<left, mark, word>>

-----------------------------------------------------------------------------
Smaller(a, b) == IF a < b THEN a ELSE b

(* to_read: what the buffer has of a body or chunk.                         *)
ToRead_Whole == p.length

ToRead == Smaller(p.length, left + 1)

(* The last byte is seen again by s_message_done, also when on_body paused. *)
BodyIdentity ==
    /\ At("s_body_identity")
    /\ left' = left - (ToRead - 1)
    /\ LET q == [p EXCEPT !.length = @ - ToRead] IN
       IF q.length > 0
       THEN /\ Consume(q)
            /\ mark' = Held + ToRead
            /\ UNCHANGED due
       ELSE /\ CallsBackNoAdvance(InState(q, "s_message_done"))
            /\ mark' = NoMark
            /\ due' = due - (Held + ToRead)
    /\ UNCHANGED <<word, exact>> /\ NoEvent

BodyIdentityEof ==
    /\ At("s_body_identity_eof")
    /\ left' = 0
    /\ mark' = Held + left + 1
    /\ due' = due + left + 1
    /\ Consume(p)
    /\ UNCHANGED <<word, exact>> /\ NoEvent

MessageDone ==
    /\ At("s_message_done")
    /\ IF p.upgrade THEN CallsBackAndReturns(NewMessage(p))
                    ELSE CallsBack(NewMessage(p))
    /\ Completes(p)
    /\ NoData

ChunkSizeStart ==
    /\ At("s_chunk_size_start")
    /\ IF ch.t = "digit"
       THEN Consume([p EXCEPT !.length = ch.v, !.state = "s_chunk_size"]) /\ exact' = ch.v
       ELSE Fails("INVALID_CHUNK_SIZE") /\ UNCHANGED exact
    /\ UNCHANGED <<left, mark, due, word>> /\ NoEvent

ChunkSize ==
    /\ At("s_chunk_size")
    /\ CASE ch = CR ->
              Consume(InState(p, "s_chunk_size_almost_done")) /\ UNCHANGED exact
         [] ch \in {Semicolon, SP} ->
              Consume(InState(p, "s_chunk_parameters")) /\ UNCHANGED exact
         [] ch.t = "digit" ->
              LET q == AddDigit(p, 16, ch) IN
              Result(q) /\ exact' = IF q.errno = "OK" THEN exact * 16 + ch.v ELSE exact
         [] OTHER -> Fails("INVALID_CHUNK_SIZE") /\ UNCHANGED exact
    /\ UNCHANGED <<left, mark, due, word>> /\ NoEvent

ChunkParameters ==
    /\ At("s_chunk_parameters")
    /\ Consume(IF ch = CR THEN InState(p, "s_chunk_size_almost_done") ELSE p)
    /\ NoData /\ NoEvent

(* The last chunk is followed by trailing headers.                          *)
ChunkSizeAlmostDone ==
    /\ At("s_chunk_size_almost_done")
    /\ IF ch # LF THEN Fails("STRICT") /\ UNCHANGED <<due, exact>>
       ELSE LET q == Recount(p) IN
            /\ CallsBack(IF p.length = 0
                         THEN [q EXCEPT !.flags = @ \cup {"F_TRAILING"},
                                        !.state = "s_header_field_start"]
                         ELSE InState(q, "s_chunk_data"))
            /\ due' = due + exact /\ exact' = 0
    /\ UNCHANGED <<left, mark, word>> /\ NoEvent

ChunkData ==
    /\ At("s_chunk_data")
    /\ left' = left - (ToRead - 1)
    /\ mark' = Held + ToRead
    /\ LET q == [p EXCEPT !.length = @ - ToRead] IN
       Consume(IF q.length = 0 THEN InState(q, "s_chunk_data_almost_done") ELSE q)
    /\ UNCHANGED <<due, word, exact>> /\ NoEvent

(* on_body, if the chunk, or a part of it, is in this buffer.               *)
ChunkDataAlmostDone ==
    /\ At("s_chunk_data_almost_done")
    /\ IF ch = CR THEN CallsBackData(InState(p, "s_chunk_data_done"))
                  ELSE Fails("STRICT") /\ UNCHANGED <<mark, due>>
    /\ NoNumber /\ NoEvent

ChunkDataDone ==
    /\ At("s_chunk_data_done")
    /\ IF ch = LF THEN CallsBack(Recount(InState(p, "s_chunk_size_start")))
                  ELSE Fails("STRICT")
    /\ NoData /\ NoEvent

-----------------------------------------------------------------------------
RequestLine ==
    \/ StartReq \/ ReqMethod \/ ReqSpacesBeforeUrl \/ Url \/ ReqHttpStart
    \/ ReqHttpEnd

StatusLine ==
    \/ StartRes \/ ResHttpEnd \/ ResFirstStatusCode \/ ResStatusCode
    \/ ResStatusStart \/ ResStatus

Header ==
    \/ HeaderFieldStart \/ HeaderValueDiscardWs \/ HeaderValueStart
    \/ HeaderValueDiscardWsAlmostDone \/ HeaderValueDiscardLws \/ HeaderValue
    \/ HeaderAlmostDone \/ HeaderValueLws

Body ==
    \/ BodyIdentity \/ BodyIdentityEof \/ MessageDone \/ ChunkSizeStart
    \/ ChunkSize \/ ChunkParameters \/ ChunkSizeAlmostDone \/ ChunkData
    \/ ChunkDataAlmostDone \/ ChunkDataDone

Next ==
    \/ Execute \/ ExecuteEof \/ Unpause \/ Load \/ Flush
    \/ Dead \/ RequestLine \/ StatusLine \/ Http \/ HttpMajor \/ HttpDot
    \/ HttpMinor \/ LineAlmostDone
    \/ Header \/ HeadersAlmostDone \/ HeadersDone \/ Body

Spec == Init /\ [][Next]_vars

-----------------------------------------------------------------------------
TypeOK ==
    /\ p \in Parser
    /\ call \in {"idle", "running", "done"}
    /\ left \in 0..MaxBuffer
    /\ mark \in Nat \cup {NoMark} /\ due \in Nat /\ exact \in Nat
    /\ word \in Seq(Letters)
    /\ phase \in {"begun", "headers", "complete"}
    /\ event \in {"none", "begun", "headers", "complete"}
    /\ kept \in BOOLEAN

(* The method in force is the one that was spelled, and the parser refuses  *)
(* one at the first letter with which none begins, and not before: guesses  *)
(* and corrections never go astray, nor do they read beyond a method's name.*)
Begun(m, w) == \A i \in 1..Len(w) : CharAt(m, i - 1) = w[i]

BeginsMethod(w) == \E m \in Methods : Begun(m, w)

MethodExact ==
    [][At("s_req_method") /\ ch' = None =>
         IF p'.state # p.state
         THEN p.method \in Methods /\ Begun(p.method, word) /\ Len(word) = Len(Spelling[p.method])
         ELSE IF p'.errno = "OK"
         THEN BeginsMethod(word') /\ p'.index <= Len(Spelling[p'.method])
         ELSE ch.t = "letter" => ~BeginsMethod(Append(word, ch.l))]_vars

(* Every byte of a URL and of a reason phrase is reported: of the ones a    *)
(* call has read before it returns, of all before anything that follows.    *)
LineDelivered ==
    p.errno \in {"OK", "PAUSED"} =>
        /\ p.state \in MarkedStates /\ call = "idle" => due = 0
        /\ p.state \in {"s_req_http_start", "s_req_line_almost_done",
                        "s_res_line_almost_done", "s_header_field_start"} => due = 0

(* The assertions of the code, but for those that a switch has a case for   *)
(* its state (1335, 1492, 1993) and that no two marks are set at the end of *)
(* a buffer (2009).  Those here: the errno between callbacks (78, 103); a   *)
(* length is given and not used up where body bytes are read (1825, 1959);  *)
(* a chunk's size starts the count of header bytes anew (1874); F_CHUNKED   *)
(* in the states of a chunk (1875, 1892, 1927, 1938, 1958, 1977, 1985);     *)
(* nothing of the chunk is left behind its data (1978).                     *)
Assertions ==
    call = "running" /\ ch # None =>
        /\ p.state \in {"s_body_identity", "s_chunk_data"} =>
              p.length \notin {0, MaxLength}
        /\ p.state = "s_chunk_size_start" => p.nread = 1
        /\ p.state \in {"s_chunk_size_start", "s_chunk_size", "s_chunk_parameters",
                        "s_chunk_size_almost_done", "s_chunk_data",
                        "s_chunk_data_almost_done", "s_chunk_data_done"} =>
              "F_CHUNKED" \in p.flags
        /\ p.state = "s_chunk_data_almost_done" => p.length = 0
        /\ p.errno = "OK"

(* While a number is read, content_length is that number: uint64_t never    *)
(* wraps around, and no number is taken for the value that says there is    *)
(* none.                                                                    *)
LengthExact ==
    /\ "F_CONTENTLENGTH" \in p.flags /\ phase = "begun" =>
          p.length = exact /\ exact < MaxLength
    /\ p.state \in {"s_chunk_size", "s_chunk_parameters", "s_chunk_size_almost_done"} =>
          p.length = exact /\ exact < MaxLength

(* When a message is complete on_body has been called with every byte of    *)
(* its body, and between two calls of http_parser_execute with all of those *)
(* read, however the input was cut and the parser was paused.               *)
BodyDelivered ==
    p.errno \in {"OK", "PAUSED"} =>
        /\ phase = "complete" => due = 0
        /\ call = "idle" /\ p.state \in {"s_body_identity", "s_chunk_data"} =>
              due = p.length

(* The byte a message ends with is its own: the line feed of its headers or *)
(* trailer, or the last byte of its body.  What a call returns tells the    *)
(* caller to give that byte again if the callback before paused the parser. *)
EndsWithOwnByte ==
    call = "running" /\ ch # None /\ p.state \in {"s_headers_done", "s_message_done"} =>
        ch = IF p.state = "s_message_done" /\ "F_TRAILING" \notin p.flags
             THEN Byte ELSE LF

(* A message is framed in one way: once its headers are complete and until  *)
(* its trailer, it is not both chunked and of a given length.               *)
FramedOnce ==
    phase = "headers" /\ "F_TRAILING" \notin p.flags =>
        ~({"F_CHUNKED", "F_CONTENTLENGTH"} \subseteq p.flags)

(* on_message_begin, on_headers_complete and on_message_complete come in    *)
(* this order, the last two once for each message.  The first comes once    *)
(* for a request, and for a response once more for every CR or LF before    *)
(* its status line.  After a message that http_should_keep_alive says no to *)
(* none begins.                                                             *)
Follows == {<<"complete", "begun">>, <<"begun", "headers">>, <<"headers", "complete">>}

MessagesInOrder ==
    [][/\ event' # "none" =>
            \/ <<phase, event'>> \in Follows
            \/ /\ phase = "begun" /\ event' = "begun"
               /\ At("s_start_res")
       /\ event' = "begun" /\ phase = "complete" => kept]_vars
=============================================================================
