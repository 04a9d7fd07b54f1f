------------------------- MODULE HttpDeliveryProofs -------------------------
(***************************************************************************)
(* That HttpParser reports every byte of URLs, reason phrases and bodies,  *)
(* for every width of the integer and size of buffer, however the input is *)
(* cut and the parser is paused.                                           *)
(*                                                                         *)
(* The invariant says where what is due stands: between the mark and the   *)
(* current byte, in what content_length has left, or nowhere (Marks); and  *)
(* how a body's length comes about (Announced).  It is also what the type  *)
(* of every variable rests on: what was read and is not yet reported is a  *)
(* number only if no more is reported than is due.                         *)
(*                                                                         *)
(* And that it recognises every method, and nothing else: while a method   *)
(* is read, what was sent of it is what the parser has read of the one in  *)
(* force (Spells), and two methods that begin alike part at a letter with  *)
(* which one corrects the other (Parting).                                 *)
(***************************************************************************)
EXTENDS HttpParserProofs

Live == p.errno \in {"OK", "PAUSED"}

(* The states in which what is marked is all that is due, ...               *)
Spans == MarkedStates \cup {"s_body_identity_eof", "s_chunk_data_almost_done"}

(* ... and those in which content_length is due besides.                    *)
Counts == {"s_body_identity", "s_chunk_data"}

Busy == Spans \cup Counts

Marks ==
    /\ mark \in Nat \cup {NoMark}
    /\ call # "running" => mark = NoMark
    /\ call = "running" /\ p.state \in MarkedStates => mark # NoMark
    /\ p.state \in Spans => due = Held
    /\ p.state \in Counts => due = p.length + Held
    /\ p.state \notin Busy => mark = NoMark /\ due = 0

(* Without a Content-Length there is no length, and a value that is read as *)
(* one has set the flag.                                                    *)
Announced ==
    /\ phase = "begun" /\ "F_CONTENTLENGTH" \notin p.flags => p.length = MaxLength
    /\ p.state = "s_header_value" /\ p.header = "h_content_length" =>
          "F_CONTENTLENGTH" \in p.flags
    /\ p.state = "s_headers_done" =>
          p.length = IF "F_CONTENTLENGTH" \in p.flags THEN exact ELSE MaxLength

DInv == Live => Marks /\ Announced

-----------------------------------------------------------------------------
LEMMA BusyStates ==
    Busy = {"s_req_schema", "s_req_schema_slash", "s_req_schema_slash_slash",
            "s_req_server_start", "s_req_server", "s_req_server_with_at",
            "s_req_path", "s_req_query_string_start", "s_req_query_string",
            "s_req_fragment_start", "s_req_fragment", "s_res_status",
            "s_body_identity_eof", "s_chunk_data_almost_done",
            "s_body_identity", "s_chunk_data"}
BY DEF Busy, Spans, Counts, MarkedStates, UrlStates

(* While the parser runs there is no error, so that all of DInv holds.      *)
LEMMA Running ==
    ASSUME IInv, DInv, call = "running"
    PROVE  Struct(p) /\ p.errno = "OK" /\ Marks /\ Announced
BY DEF IInv, Call, DInv, Live

(* Where the fields go that a round inside a line writes.                   *)
LEMMA StateOf ==
    ASSUME Struct(p), NEW s
    PROVE  /\ \A a, b : [p EXCEPT !.state = s, !.index = a, !.method = b].state = s
           /\ \A b : [p EXCEPT !.http11 = b, !.state = s].state = s
           /\ \A n : [p EXCEPT !.status = n, !.state = s].state = s
           /\ \A h : [p EXCEPT !.header = h, !.state = s].state = s
           /\ \A a, b : [p EXCEPT !.method = b, !.index = a].state = p.state
           /\ \A n : [p EXCEPT !.status = n].state = p.state
           /\ InState(p, s).state = s
BY DEF Struct, InState

(* A call that fails owes nothing.                                          *)
LEMMA FailsDelivers ==
    ASSUME Struct(p), NEW e, e \notin {"OK", "PAUSED"}, NEW q, Struct(q),
           Fails(e) \/ Error(Erroneous(q, e))
    PROVE  DInv'
<1>1. p'.errno = e
  BY ErroneousFields DEF Fails, Error
<1> QED BY <1>1 DEF DInv, Live

(* A round that neither reads a byte of those to be reported nor reports.   *)
LEMMA PlainStep ==
    ASSUME IInv, DInv, call = "running", p.state \notin Busy,
           UNCHANGED <<mark, due>>,
           p'.state \notin Busy, Announced'
    PROVE  DInv'
<1>1. mark = NoMark /\ due = 0
  BY Running DEF Marks
<1>2. Spans \subseteq Busy /\ Counts \subseteq Busy /\ MarkedStates \subseteq Busy
  BY DEF Busy, Spans
<1>3. Marks'
  BY <1>1, <1>2 DEF Marks
<1> QED BY <1>3 DEF DInv

(* What is announced stays so in a round that changes no number and flag.   *)
LEMMA QuietAnnounced ==
    ASSUME IInv, DInv, call = "running",
           Same(p', p), phase' = phase,
           p'.state \notin {"s_header_value", "s_headers_done"}
    PROVE  Announced'
BY Running DEF Announced, Same

Settles ==
    \/ \E e \in Errnos \ {"OK", "PAUSED"} :
          Fails(e) \/ \E q : Struct(q) /\ Error(Erroneous(q, e))
    \/ \E q : /\ Quiet(q) /\ (Consume(q) \/ Reexecute(q))
              /\ q.state \notin Busy \cup {"s_header_value", "s_headers_done"}

LEMMA SettleStep ==
    ASSUME IInv, DInv, call = "running", p.state \notin Busy,
           UNCHANGED <<mark, due, phase>>, Settles
    PROVE  DInv'
<1>1. CASE \E e \in Errnos \ {"OK", "PAUSED"} :
              Fails(e) \/ \E q : Struct(q) /\ Error(Erroneous(q, e))
  BY <1>1, Running, FailsDelivers
<1>2. CASE \E q : /\ Quiet(q) /\ (Consume(q) \/ Reexecute(q))
                  /\ q.state \notin Busy \cup {"s_header_value", "s_headers_done"}
  <2>1. PICK q : /\ Quiet(q) /\ (Consume(q) \/ Reexecute(q))
                 /\ q.state \notin Busy \cup {"s_header_value", "s_headers_done"}
    BY <1>2
  <2>2. p' = q /\ Same(p', p)
    BY <2>1 DEF Quiet, Consume, Reexecute
  <2>3. Announced'
    BY <2>1, <2>2, QuietAnnounced
  <2> QED BY <2>1, <2>2, <2>3, PlainStep
<1> QED BY <1>1, <1>2 DEF Settles

(* The rounds of start lines and headers that settle.                       *)
PlainStates ==
    {"s_req_method", "s_req_spaces_before_url", "s_req_http_start", "s_req_http_H",
     "s_req_http_end", "s_req_line_almost_done", "s_res_http_end",
     "s_res_first_status_code", "s_res_status_code", "s_res_status_start",
     "s_res_line_almost_done", "s_header_field_start", "s_header_value_discard_ws",
     "s_header_value_discard_ws_almost_done", "s_header_value_discard_lws",
     "s_header_value_lws", "s_header_almost_done", "s_headers_almost_done"}
        \cup DOMAIN After

LEMMA PlainStatesApart ==
    /\ PlainStates \subseteq LineStates \ {"s_header_value_start"}
    /\ PlainStates \cap (Busy \cup {"s_header_value", "s_headers_done"}) = {}
    /\ \A s \in DOMAIN After : After[s] \in PlainStates
BY BusyStates DEF PlainStates, LineStates, After

(* The records that leave the parser in a plain state.                      *)
Plain(q, s) == Quiet(q) /\ q.state = s

LEMMA PlainRecords ==
    ASSUME IInv, call = "running", NEW s \in PlainStates
    PROVE  /\ Plain(InState(p, s), s)
           /\ \A a, b : Plain([p EXCEPT !.state = s, !.index = a, !.method = b], s)
           /\ \A b : Plain([p EXCEPT !.http11 = b, !.state = s], s)
           /\ \A n : Plain([p EXCEPT !.status = n, !.state = s], s)
           /\ \A h \in HeaderStates : Plain([p EXCEPT !.header = h, !.state = s], s)
           /\ \A a, b : p.state = s => Plain([p EXCEPT !.method = b, !.index = a], s)
           /\ \A n : p.state = s => Plain([p EXCEPT !.status = n], s)
           /\ p.state = s => Plain(p, s)
<1>1. s \in LineStates \ {"s_header_value_start"} /\ Struct(p)
  BY PlainStatesApart DEF IInv
<1>2. Quiet(InState(p, s)) /\ (p.state = s => Quiet(p))
  BY <1>1, QuietStates
<1>3. /\ InState(p, s).state = s
      /\ \A a, b : [p EXCEPT !.state = s, !.index = a, !.method = b].state = s
      /\ \A b : [p EXCEPT !.http11 = b, !.state = s].state = s
      /\ \A n : [p EXCEPT !.status = n, !.state = s].state = s
      /\ \A h : [p EXCEPT !.header = h, !.state = s].state = s
      /\ \A a, b : [p EXCEPT !.method = b, !.index = a].state = p.state
      /\ \A n : [p EXCEPT !.status = n].state = p.state
  BY <1>1, StateOf
<1>4. /\ \A a, b : Quiet([p EXCEPT !.state = s, !.index = a, !.method = b])
      /\ \A b : Quiet([p EXCEPT !.http11 = b, !.state = s])
      /\ \A n : Quiet([p EXCEPT !.status = n, !.state = s])
      /\ \A h \in HeaderStates : Quiet([p EXCEPT !.header = h, !.state = s])
      /\ \A a, b : p.state = s => Quiet([p EXCEPT !.method = b, !.index = a])
      /\ \A n : p.state = s => Quiet([p EXCEPT !.status = n])
  BY <1>1, QuietChange
<1> QED BY <1>2, <1>3, <1>4, Zenon DEF Plain

LEMMA PlainRounds ==
    ASSUME IInv, DInv,
           \/ ReqMethod \/ ReqHttpStart \/ ReqHttpEnd
           \/ Http \/ HttpMajor \/ HttpDot \/ HttpMinor \/ LineAlmostDone
           \/ ResHttpEnd \/ ResFirstStatusCode \/ ResStatusCode
           \/ HeaderFieldStart \/ HeaderValueDiscardWsAlmostDone \/ HeaderAlmostDone
    PROVE  DInv'
<1>1. ASSUME call = "running", p.state \in PlainStates, UNCHANGED <<mark, due, phase>>,
             NEW s \in PlainStates, NEW q, Plain(q, s), Consume(q) \/ Reexecute(q)
      PROVE  DInv'
  <2>1. Settles
    BY <1>1, PlainStatesApart DEF Settles, Plain
  <2> QED BY <1>1, <2>1, SettleStep, PlainStatesApart
<1>0. ASSUME call = "running",
             NEW e \in Errnos \ {"OK", "PAUSED"}, Fails(e)
      PROVE  DInv'
  BY <1>0, Running, FailsDelivers
<1>2. CASE ReqMethod
  <2>1. /\ call = "running" /\ p.state = "s_req_method"
        /\ UNCHANGED <<mark, due, phase>>
    BY <1>2 DEF ReqMethod, At, NoEvent
  <2>2. {"s_req_method", "s_req_spaces_before_url"} \subseteq PlainStates
    BY DEF PlainStates
  <2>3. \/ \E a, b : Consume([p EXCEPT !.state = "s_req_spaces_before_url",
                                      !.index = a, !.method = b])
        \/ \E a, b : Consume([p EXCEPT !.method = b, !.index = a])
        \/ Fails("INVALID_METHOD")
    BY <1>2 DEF ReqMethod
  <2>4. "INVALID_METHOD" \in Errnos \ {"OK", "PAUSED"}
    BY DEF Errnos
  <2>5. CASE \E a, b : Consume([p EXCEPT !.state = "s_req_spaces_before_url",
                                        !.index = a, !.method = b])
    BY <1>0, <1>1, <2>1, <2>2, <2>5, PlainRecords
  <2>6. CASE \E a, b : Consume([p EXCEPT !.method = b, !.index = a])
    BY <1>0, <1>1, <2>1, <2>2, <2>6, PlainRecords
  <2>7. CASE Fails("INVALID_METHOD")
    BY <1>0, <1>1, <2>1, <2>2, <2>4, <2>7
  <2> QED BY <2>3, <2>5, <2>6, <2>7
<1>3. CASE \/ ReqHttpStart \/ ReqHttpEnd \/ LineAlmostDone \/ ResHttpEnd
           \/ HeaderValueDiscardWsAlmostDone \/ HeaderAlmostDone
  <2>1. /\ call = "running" /\ UNCHANGED <<mark, due, phase>>
        /\ p.state \in PlainStates
    BY <1>3 DEF ReqHttpStart, ReqHttpEnd, LineAlmostDone, ResHttpEnd,
           HeaderValueDiscardWsAlmostDone, HeaderAlmostDone, At, NoEvent, NoData,
           PlainStates
  <2>2. /\ {"s_req_http_H", "s_req_line_almost_done", "s_header_field_start",
            "s_res_first_status_code", "s_header_value_discard_lws",
            "s_header_value_lws"} \subseteq PlainStates
        /\ {"INVALID_CONSTANT", "INVALID_VERSION", "LF_EXPECTED", "STRICT"}
              \subseteq Errnos \ {"OK", "PAUSED"}
    BY DEF PlainStates, After, Errnos
  <2>3. \/ Consume(p)
        \/ \E s \in PlainStates : Consume(InState(p, s))
        \/ \E e \in Errnos \ {"OK", "PAUSED"} : Fails(e)
    BY <1>3, <2>2 DEF ReqHttpStart, ReqHttpEnd, LineAlmostDone, ResHttpEnd,
           HeaderValueDiscardWsAlmostDone, HeaderAlmostDone
  <2> QED BY <1>0, <1>1, <2>1, <2>3, PlainRecords
<1>4. CASE Http \/ HttpMajor \/ HttpDot \/ HttpMinor
  <2>1. /\ call = "running" /\ UNCHANGED <<mark, due, phase>>
        /\ p.state \in DOMAIN After
    BY <1>4 DEF Http, HttpMajor, HttpDot, HttpMinor, At, NoEvent, NoData, After
  <2>2. p.state \in PlainStates /\ After[p.state] \in PlainStates
    BY <2>1, PlainStatesApart DEF PlainStates
  <2>3. {"STRICT", "INVALID_VERSION"} \subseteq Errnos \ {"OK", "PAUSED"}
    BY DEF Errnos
  <2>4. \/ Consume(InState(p, After[p.state]))
        \/ \E b : Consume([p EXCEPT !.http11 = b, !.state = After[p.state]])
        \/ \E e \in Errnos \ {"OK", "PAUSED"} : Fails(e)
    BY <1>4, <2>3 DEF Http, HttpMajor, HttpDot, HttpMinor
  <2> QED BY <1>0, <1>1, <2>1, <2>2, <2>4, PlainRecords
<1>5. CASE ResFirstStatusCode \/ ResStatusCode
  <2>1. /\ call = "running" /\ UNCHANGED <<mark, due, phase>>
        /\ p.state \in {"s_res_first_status_code", "s_res_status_code"}
    BY <1>5 DEF ResFirstStatusCode, ResStatusCode, At, NoEvent, NoData
  <2>2. /\ {"s_res_first_status_code", "s_res_status_code", "s_res_status_start"}
              \subseteq PlainStates
        /\ "INVALID_STATUS" \in Errnos \ {"OK", "PAUSED"}
    BY DEF PlainStates, Errnos
  <2>3. Struct(p)
    BY DEF IInv
  <2>4. CASE ResFirstStatusCode
    <3>1. \/ \E n : Consume([p EXCEPT !.status = n, !.state = "s_res_status_code"])
          \/ Consume(p) \/ Fails("INVALID_STATUS")
      BY <2>4 DEF ResFirstStatusCode
    <3> QED BY <1>0, <1>1, <2>1, <2>2, <3>1, PlainRecords
  <2>5. CASE ResStatusCode
    <3> DEFINE Read(n) == LET q == [p EXCEPT !.status = n] IN
                          Result(IF n > 999 THEN Erroneous(q, "INVALID_STATUS") ELSE q)
    <3>1. \/ \E n : Read(n)
          \/ Consume(InState(p, "s_res_status_start"))
          \/ Reexecute(InState(p, "s_res_status_start"))
          \/ Fails("INVALID_STATUS")
      BY <2>5 DEF ResStatusCode
    <3>2. ASSUME NEW n, Read(n)
          PROVE  DInv'
      <4> DEFINE q == [p EXCEPT !.status = n]
      <4>1. Quiet(q) /\ Plain(q, "s_res_status_code")
        BY <2>1, <2>2, <2>5, PlainRecords DEF ResStatusCode, At, Plain
      <4> HIDE DEF q
      <4>2. CASE n > 999
        <5>1. Result(Erroneous(q, "INVALID_STATUS"))
          BY <3>2, <4>2 DEF q
        <5>2. Erroneous(q, "INVALID_STATUS").errno = "INVALID_STATUS"
          BY <4>1, ErroneousFields DEF Quiet
        <5>3. Error(Erroneous(q, "INVALID_STATUS")) /\ Struct(q)
          BY <4>1, <5>1, <5>2 DEF Result, Quiet
        <5> QED BY <2>3, <5>3, FailsDelivers
      <4>3. CASE ~(n > 999)
        <5>1. Consume(q)
          BY <3>2, <4>1, <4>3 DEF Result, Quiet, q
        <5> QED BY <1>0, <1>1, <2>1, <2>2, <4>1, <5>1
      <4> QED BY <4>2, <4>3
    <3>3. Plain(InState(p, "s_res_status_start"), "s_res_status_start")
      BY <2>1, <2>2, PlainRecords
    <3> HIDE DEF Read
    <3> QED BY <1>0, <1>1, <2>1, <2>2, <3>1, <3>2, <3>3
  <2> QED BY <1>5, <2>4, <2>5
<1>6. CASE HeaderFieldStart
  <2>1. /\ call = "running" /\ UNCHANGED <<mark, due, phase>>
        /\ p.state = "s_header_field_start"
    BY <1>6 DEF HeaderFieldStart, At, NoEvent, NoData
  <2>2. /\ {"s_header_field_start", "s_headers_almost_done", "s_header_value_discard_ws"}
              \subseteq PlainStates
        /\ "INVALID_HEADER_TOKEN" \in Errnos \ {"OK", "PAUSED"}
    BY DEF PlainStates, Errnos
  <2>3. ch.t = "name" => FieldState[ch.name] \in HeaderStates
    BY DEF IInv, TokenOK, FieldState, HeaderStates
  <2>4. \/ Consume(InState(p, "s_headers_almost_done"))
        \/ Reexecute(InState(p, "s_headers_almost_done"))
        \/ \E h \in HeaderStates :
              Consume([p EXCEPT !.header = h, !.state = "s_header_value_discard_ws"])
        \/ Fails("INVALID_HEADER_TOKEN")
    BY <1>6, <2>3 DEF HeaderFieldStart
  <2> QED BY <1>0, <1>1, <2>1, <2>2, <2>4, PlainRecords
<1> QED BY <1>2, <1>3, <1>4, <1>5, <1>6

(* A byte of a URL or of a reason phrase is read ...                        *)
LEMMA SpanStep ==
    ASSUME IInv, DInv, call = "running", call' = call,
           NEW s \in MarkedStates, p' = InState(p, s) \/ (p' = p /\ p.state = s),
           mark' \in Nat, due' = mark', phase' = phase
    PROVE  DInv'
<1>1. Same(p', p) /\ p'.state = s
  BY Running, InStateFields DEF Same
<1>2. s \in Busy /\ s \in Spans /\ s \notin Counts \cup {"s_header_value", "s_headers_done"}
  BY DEF Busy, Spans, Counts, MarkedStates, UrlStates
<1>3. Announced'
  BY <1>1, <1>2, QuietAnnounced
<1>4. Held' = mark' /\ mark' # NoMark
  BY DEF Held, NoMark
<1>5. Marks'
  BY <1>1, <1>2, <1>4 DEF Marks
<1> QED BY <1>3, <1>5 DEF DInv

(* ... and the last one reported.                                           *)
LEMMA ReportStep ==
    ASSUME IInv, DInv, call = "running", p.state \in MarkedStates,
           NEW s \in PlainStates, NEW q, Plain(q, s), CallsBackData(q), phase' = phase
    PROVE  DInv'
<1>1. mark' = NoMark /\ due' = 0
  <2>1. /\ mark \in Nat /\ mark # NoMark /\ due = Held
    BY Running DEF Marks, Spans
  <2> QED BY <2>1 DEF CallsBackData, Held
<1>2. Same(p', p) /\ p'.state = s
  <2>1. CASE Consume(q)
    BY <2>1 DEF Consume, Quiet, Plain
  <2>2. CASE CallsBack(q)
    BY <2>2, CallsBackMoves DEF Quiet, Plain, Same
  <2> QED BY <2>1, <2>2 DEF CallsBackData
<1>3. s \notin Busy \cup {"s_header_value", "s_headers_done"}
  BY PlainStatesApart
<1>4. Announced'
  BY <1>2, <1>3, QuietAnnounced
<1>5. Marks'
  BY <1>1, <1>2, <1>3 DEF Marks, Busy, Spans
<1> QED BY <1>4, <1>5 DEF DInv

LEMMA UrlRounds ==
    ASSUME IInv, DInv, ReqSpacesBeforeUrl \/ Url
    PROVE  DInv'
<1>1. call = "running" /\ phase' = phase
  BY DEF ReqSpacesBeforeUrl, Url, At, NoEvent
<1>2. Struct(p) /\ Marks
  BY <1>1, Running
<1>3. ASSUME NEW s \in UrlStates \cup {"s_dead"}, NEW n \in Nat, UrlChar(s, n),
             due + 1 = n
      PROVE  DInv'
  <2>1. CASE s = "s_dead"
    <3>1. Error(Erroneous(InState(p, s), "INVALID_URL")) /\ Struct(InState(p, s))
      BY <1>2, <1>3, <2>1, InStateFields DEF UrlChar
    <3> QED BY <1>2, <3>1, FailsDelivers
  <2>2. CASE s # "s_dead"
    <3>1. p' = InState(p, s) /\ call' = call /\ mark' = n /\ due' = n
      BY <1>3, <2>2 DEF UrlChar, Consume
    <3>2. s \in MarkedStates
      BY <2>2 DEF MarkedStates
    <3> QED BY <1>1, <1>3, <3>1, <3>2, SpanStep
  <2> QED BY <2>1, <2>2
<1>4. CASE ReqSpacesBeforeUrl
  <2>1. p.state = "s_req_spaces_before_url" /\ p.state \in PlainStates
    BY <1>4 DEF ReqSpacesBeforeUrl, At, PlainStates
  <2>2. mark = NoMark /\ due = 0 /\ Held + 1 = 1
    BY <1>2, <2>1, PlainStatesApart DEF Marks, Held
  <2>3. CASE ch = SP
    <3>1. p' = p /\ UNCHANGED <<mark, due>>
      BY <1>4, <2>3 DEF ReqSpacesBeforeUrl, Consume
    <3>2. Announced'
      BY <1>1, <2>1, <3>1, PlainStatesApart, QuietAnnounced DEF Same
    <3> QED BY <1>1, <2>1, <3>1, <3>2, PlainStatesApart, PlainStep
  <2>4. CASE ch # SP
    <3>1. PICK s : UrlChar(parse_url_char(s, ch), 1)
      BY <1>4, <2>2, <2>4 DEF ReqSpacesBeforeUrl
    <3> QED BY <1>3, <2>2, <3>1, UrlCharStates
  <2> QED BY <2>3, <2>4
<1>5. CASE Url
  <2>1. p.state \in UrlStates /\ p.state \in MarkedStates
    BY <1>5 DEF Url, MarkedStates
  <2>2. mark \in Nat /\ mark # NoMark /\ due = mark /\ Further = mark + 1
    BY <1>1, <1>2, <2>1 DEF Marks, Spans, Held, Further
  <2>3. CASE Fails("INVALID_URL")
    BY <1>2, <2>3, FailsDelivers
  <2>4. ASSUME NEW s \in {"s_req_http_start", "s_req_line_almost_done", "s_header_field_start"},
               NEW q, q = InState(p, s) \/ q = [p EXCEPT !.http11 = FALSE, !.state = s],
               CallsBackData(q)
        PROVE  DInv'
    <3>1. s \in PlainStates
      BY DEF PlainStates
    <3>2. /\ Plain(InState(p, s), s)
          /\ \A b : Plain([p EXCEPT !.http11 = b, !.state = s], s)
      BY <1>1, <3>1, PlainRecords
    <3>3. Plain(q, s)
      BY <2>4, <3>2
    <3> QED BY <1>1, <2>1, <2>4, <3>1, <3>3, ReportStep
  <2>5. CASE UrlChar(parse_url_char(p.state, ch), Further)
    BY <1>3, <2>2, <2>5, UrlCharStates
  <2>6. \/ Fails("INVALID_URL")
        \/ CallsBackData(InState(p, "s_req_http_start"))
        \/ \E s \in {"s_req_line_almost_done", "s_header_field_start"} :
              CallsBackData([p EXCEPT !.http11 = FALSE, !.state = s])
        \/ UrlChar(parse_url_char(p.state, ch), Further)
    BY <1>5 DEF Url, InState
  <2> QED BY <2>3, <2>4, <2>5, <2>6
<1> QED BY <1>4, <1>5

LEMMA ReasonRounds ==
    ASSUME IInv, DInv, ResStatusStart \/ ResStatus
    PROVE  DInv'
<1>1. call = "running" /\ phase' = phase
  BY DEF ResStatusStart, ResStatus, At, NoEvent
<1>2. Struct(p) /\ Marks
  BY <1>1, Running
<1>3. "s_res_status" \in MarkedStates
  BY DEF MarkedStates
<1>4. CASE ResStatusStart
  <2>1. p.state \in PlainStates
    BY <1>4 DEF ResStatusStart, At, PlainStates
  <2>2. due = 0 /\ Held = 0
    BY <1>2, <2>1, PlainStatesApart DEF Marks, Held
  <2>3. /\ p' = InState(p, "s_res_status") /\ call' = call
        /\ mark' \in Nat /\ due' = mark'
    BY <1>4, <2>2 DEF ResStatusStart, Consume, Reexecute
  <2> QED BY <1>1, <1>3, <2>3, SpanStep
<1>5. CASE ResStatus
  <2>1. p.state = "s_res_status"
    BY <1>5 DEF ResStatus, At
  <2>2. mark \in Nat /\ mark # NoMark /\ due = mark
    BY <1>1, <1>2, <1>3, <2>1 DEF Marks, Spans, Held
  <2>3. CASE ch \in {CR, LF}
    <3>1. {"s_res_line_almost_done", "s_header_field_start"} \subseteq PlainStates
      BY DEF PlainStates
    <3>2. \E s \in {"s_res_line_almost_done", "s_header_field_start"} :
              CallsBackData(InState(p, s))
      BY <1>5, <2>3 DEF ResStatus
    <3> QED BY <1>1, <1>3, <2>1, <3>1, <3>2, PlainRecords, ReportStep
  <2>4. CASE ch \notin {CR, LF}
    <3>1. p' = p /\ call' = call /\ mark' = mark + 1 /\ due' = due + 1
      BY <1>5, <2>2, <2>4 DEF ResStatus, Consume, Further
    <3> QED BY <1>1, <1>3, <2>1, <2>2, <3>1, SpanStep
  <2> QED BY <2>3, <2>4
<1> QED BY <1>4, <1>5

(* A value that is read as a Content-Length has set the flag.               *)
LEMMA ValueStartSets ==
    ASSUME NEW q, Struct(q), q.errno = "OK", NEW c
    PROVE  LET r == ValueStart(q, c) IN
           /\ r.errno \in Errnos \ {"PAUSED"}
           /\ r.errno = "OK" /\ (r.header = "h_content_length" \/ q.header = "h_content_length")
                 => "F_CONTENTLENGTH" \in r.flags
<1> DEFINE r == ValueStart(q, c)
           s == InState(q, "s_header_value")
<1>1. Struct(s) /\ s.errno = "OK" /\ s.header = q.header
  BY InStateFields DEF Struct, InState
<1>2. \A h : [s EXCEPT !.header = h].header = h /\ [s EXCEPT !.header = h].errno = "OK"
  <2> HIDE DEF s
  <2> QED BY <1>1 DEF Struct
<1>3. {"OK", "INVALID_CONTENT_LENGTH", "UNEXPECTED_CONTENT_LENGTH"} \subseteq Errnos \ {"PAUSED"}
  BY DEF Errnos
<1>4. CASE q.header = "h_content_length"
  <2>1. \E e \in {"INVALID_CONTENT_LENGTH", "UNEXPECTED_CONTENT_LENGTH"} :
            r = Erroneous(s, e)
        \/ r = [s EXCEPT !.flags = @ \cup {"F_CONTENTLENGTH"}, !.length = c.v]
    BY <1>4 DEF ValueStart
  <2>2. CASE \E e \in {"INVALID_CONTENT_LENGTH", "UNEXPECTED_CONTENT_LENGTH"} :
                 r = Erroneous(s, e)
    <3> HIDE DEF s, r
    <3>1. r.errno \in {"INVALID_CONTENT_LENGTH", "UNEXPECTED_CONTENT_LENGTH"}
      BY <1>1, <2>2, ErroneousFields
    <3> QED BY <1>3, <3>1 DEF r
  <2>3. CASE r = [s EXCEPT !.flags = @ \cup {"F_CONTENTLENGTH"}, !.length = c.v]
    <3> HIDE DEF s, r
    <3>1. r.errno = "OK" /\ r.flags = s.flags \cup {"F_CONTENTLENGTH"}
      BY <1>1, <2>3 DEF Struct
    <3> QED BY <1>3, <3>1 DEF r
  <2> QED BY <2>1, <2>2, <2>3
<1>5. CASE q.header = "h_upgrade"
  <2> DEFINE g == [s EXCEPT !.header = "h_general"]
  <2>1. r = [g EXCEPT !.flags = @ \cup {"F_UPGRADE"}]
    BY <1>5 DEF ValueStart
  <2>2. Struct(g) /\ g.header = "h_general" /\ g.errno = "OK"
    <3>1. "h_general" \in HeaderStates
      BY DEF HeaderStates
    <3> HIDE DEF s
    <3> QED BY <1>1, <1>2, <3>1, SetHeader
  <2> HIDE DEF g, r
  <2>3. r.header = "h_general" /\ r.errno = "OK"
    BY <2>1, <2>2 DEF Struct
  <2> QED BY <1>3, <1>5, <2>3 DEF r
<1>6. CASE q.header \notin {"h_content_length", "h_upgrade"}
  <2>1. ConnectionItem(c) # "h_content_length"
    BY DEF ConnectionItem
  <2>2. r = s \/ \E h : h # "h_content_length" /\ r = [s EXCEPT !.header = h]
    BY <1>6, <2>1 DEF ValueStart
  <2> HIDE DEF s, r
  <2>3. r.header # "h_content_length" /\ r.errno = "OK"
    BY <1>1, <1>2, <1>6, <2>2
  <2> QED BY <1>3, <1>6, <2>3 DEF r
<1> QED BY <1>4, <1>5, <1>6

LEMMA ValueKeeps ==
    ASSUME NEW q, Struct(q), q.errno = "OK", NEW c
    PROVE  LET r == Value(q, c) IN
           /\ r.errno \in Errnos \ {"PAUSED"}
           /\ r.header = "h_content_length" => q.header = "h_content_length"
<1> DEFINE r == Value(q, c)
<1>1. {"OK", "INVALID_CONTENT_LENGTH"} \subseteq Errnos \ {"PAUSED"}
  BY DEF Errnos
<1>2. CASE q.header = "h_content_length"
  <2>1. \/ r = q \/ r = Erroneous(q, "INVALID_CONTENT_LENGTH")
        \/ \E n : r = [q EXCEPT !.length = n]
    BY <1>2 DEF Value, AddDigit
  <2>2. \A n : [q EXCEPT !.length = n].errno = "OK"
    BY SetFields
  <2> HIDE DEF r
  <2>3. r.errno \in {"OK", "INVALID_CONTENT_LENGTH"}
    <3>1. ASSUME NEW n, r = [q EXCEPT !.length = n]
          PROVE  r.errno = "OK"
      BY <2>2, <3>1
    <3> QED BY <2>1, <3>1, ErroneousFields
  <2> QED BY <1>1, <1>2, <2>3 DEF r
<1>3. CASE q.header # "h_content_length"
  <2> DEFINE w == WithFlag(q)
  <2>1. ConnectionItem(c) # "h_content_length"
    BY DEF ConnectionItem
  <2>2. r = q \/ \E h : /\ h # "h_content_length"
                        /\ r = [q EXCEPT !.header = h] \/ r = [w EXCEPT !.header = h]
    <3> HIDE DEF w
    <3>1. CASE q.header \in {"h_matching_connection_token_start",
                             "h_matching_connection_token", "h_transfer_encoding_chunked"}
      BY <2>1, <3>1 DEF Value
    <3>2. CASE q.header \in {"h_connection_keep_alive", "h_connection_close",
                             "h_connection_upgrade"}
      BY <3>2 DEF Value, w
    <3>3. CASE q.header \notin {"h_matching_connection_token_start",
                                "h_matching_connection_token",
                                "h_transfer_encoding_chunked",
                                "h_connection_keep_alive", "h_connection_close",
                                "h_connection_upgrade"}
      BY <1>3, <3>3 DEF Value
    <3> QED BY <3>1, <3>2, <3>3
  <2>3. Struct(w) /\ w.errno = "OK"
    BY WithFlagFields
  <2> HIDE DEF w, r
  <2>4. ASSUME NEW x, Struct(x), x.errno = "OK", NEW h, h # "h_content_length",
               r = [x EXCEPT !.header = h]
        PROVE  r.header # "h_content_length" /\ r.errno = "OK"
    BY <2>4 DEF Struct
  <2>5. r.header # "h_content_length" /\ r.errno = "OK"
    BY <1>3, <2>2, <2>3, <2>4
  <2> QED BY <1>1, <2>5 DEF r
<1> QED BY <1>2, <1>3

LEMMA ValueRounds ==
    ASSUME IInv, DInv, HeaderValueDiscardWs \/ HeaderValueStart \/ HeaderValue
    PROVE  DInv'
<1>1. /\ call = "running" /\ UNCHANGED <<mark, due, phase>>
      /\ p.state \in {"s_header_value_discard_ws", "s_header_value_start",
                      "s_header_value"}
  BY DEF HeaderValueDiscardWs, HeaderValueStart, HeaderValue, At, NoEvent, NoData
<1>2. p.state \notin Busy /\ "s_header_value" \notin Busy
  BY <1>1, BusyStates
<1>3. Struct(p) /\ p.errno = "OK" /\ TokenOK(ch) /\ Announced
  BY <1>1, Running DEF IInv
<1>4. ASSUME NEW q, Result(q), Struct(q), q.state = "s_header_value",
             q.errno \in Errnos \ {"PAUSED"},
             q.errno = "OK" =>
                /\ phase = "begun" /\ "F_CONTENTLENGTH" \notin q.flags => q.length = MaxLength
                /\ q.header = "h_content_length" => "F_CONTENTLENGTH" \in q.flags
      PROVE  DInv'
  <2>1. p' = q
    BY <1>4 DEF Result, Consume, Error
  <2>2. CASE q.errno = "OK"
    <3>1. Announced'
      BY <1>1, <1>4, <2>1, <2>2 DEF Announced
    <3> QED BY <1>1, <1>2, <1>4, <2>1, <3>1, PlainStep
  <2>3. CASE q.errno # "OK"
    BY <1>4, <2>1, <2>3 DEF DInv, Live
  <2> QED BY <2>2, <2>3
<1>5. ASSUME NEW s \in {"s_header_value_discard_ws_almost_done",
                        "s_header_value_discard_lws", "s_header_almost_done"},
             Consume(InState(p, s)) \/ Reexecute(InState(p, s))
      PROVE  DInv'
  <2>1. s \in PlainStates
    BY DEF PlainStates
  <2>2. Plain(InState(p, s), s)
    BY <1>1, <2>1, PlainRecords
  <2>3. Settles
    BY <1>5, <2>1, <2>2, PlainStatesApart DEF Settles, Plain
  <2> QED BY <1>1, <1>2, <2>3, SettleStep
<1>6. ASSUME NEW q, q = ValueStart(p, ch), Result(q)
      PROVE  DInv'
  <2> DEFINE first == q.errno = "OK" /\ p.header = "h_content_length"
  <2>1. /\ Struct(q) /\ q.state = "s_header_value"
        /\ ~first => /\ q.length = p.length
                     /\ "F_CONTENTLENGTH" \in q.flags <=> "F_CONTENTLENGTH" \in p.flags
    BY <1>3, <1>6, ValueStartFields
  <2>2. /\ q.errno \in Errnos \ {"PAUSED"}
        /\ q.errno = "OK" /\ (q.header = "h_content_length" \/ p.header = "h_content_length")
              => "F_CONTENTLENGTH" \in q.flags
    BY <1>3, <1>6, ValueStartSets
  <2>3. q.errno = "OK" /\ phase = "begun" /\ "F_CONTENTLENGTH" \notin q.flags =>
            q.length = MaxLength
    BY <1>3, <2>1, <2>2 DEF Announced
  <2> QED BY <1>4, <1>6, <2>1, <2>2, <2>3
<1>7. CASE HeaderValueDiscardWs
  <2>1. CASE ch = SP
    <3>1. p' = p
      BY <1>7, <2>1 DEF HeaderValueDiscardWs, Consume, CR, LF, SP, Token
    <3>2. p.state \notin {"s_header_value", "s_headers_done"}
      BY <1>7 DEF HeaderValueDiscardWs, At
    <3>3. Announced'
      BY <1>1, <3>1, <3>2, QuietAnnounced DEF Same
    <3> QED BY <1>1, <1>2, <3>1, <3>3, PlainStep
  <2>2. CASE ch \in {CR, LF}
    <3>1. \/ Consume(InState(p, "s_header_value_discard_ws_almost_done"))
          \/ Consume(InState(p, "s_header_value_discard_lws"))
      BY <1>7, <2>2 DEF HeaderValueDiscardWs, CR, LF, SP, Token
    <3> QED BY <1>5, <3>1
  <2>3. CASE ch \notin {SP, CR, LF}
    BY <1>6, <1>7, <2>3 DEF HeaderValueDiscardWs
  <2> QED BY <2>1, <2>2, <2>3
<1>8. CASE HeaderValueStart
  BY <1>6, <1>8 DEF HeaderValueStart
<1>9. CASE HeaderValue
  <2>1. CASE ch \in {CR, LF, Junk}
    <3>1. \/ Consume(InState(p, "s_header_almost_done"))
          \/ Reexecute(InState(p, "s_header_almost_done"))
          \/ Fails("INVALID_HEADER_TOKEN")
          \/ p.header = "h_general" /\ Consume(p)
      BY <1>9, <2>1 DEF HeaderValue, CR, LF, Junk, Token
    <3>2. CASE p.header = "h_general" /\ Consume(p)
      <4>1. p' = p /\ p.state = "s_header_value"
        BY <1>9, <3>2 DEF Consume, HeaderValue, At
      <4>2. Announced'
        BY <1>1, <1>3, <3>2, <4>1 DEF Announced
      <4> QED BY <1>1, <1>2, <4>1, <4>2, PlainStep
    <3> QED BY <1>3, <1>5, <3>1, <3>2, FailsDelivers
  <2>2. CASE ch \notin {CR, LF, Junk}
    <3> DEFINE q == Value(p, ch)
    <3>1. /\ Struct(q) /\ q.state = p.state
          /\ "F_CONTENTLENGTH" \in q.flags <=> "F_CONTENTLENGTH" \in p.flags
          /\ Extends(q, p, ch)
      BY <1>3, ValueFields
    <3>2. /\ q.errno \in Errnos \ {"PAUSED"}
          /\ q.header = "h_content_length" => p.header = "h_content_length"
      BY <1>3, ValueKeeps
    <3>3. Result(q)
      BY <1>9, <2>2 DEF HeaderValue
    <3>4. p.state = "s_header_value"
      BY <1>9 DEF HeaderValue, At
    <3> HIDE DEF q
    <3>5. phase = "begun" /\ "F_CONTENTLENGTH" \notin q.flags => q.length = MaxLength
      BY <1>3, <3>1, <3>4 DEF Announced, Extends
    <3>6. q.header = "h_content_length" => "F_CONTENTLENGTH" \in q.flags
      BY <1>3, <3>1, <3>2, <3>4 DEF Announced
    <3> QED BY <1>4, <3>1, <3>2, <3>3, <3>4, <3>5, <3>6
  <2> QED BY <2>1, <2>2
<1> QED BY <1>7, <1>8, <1>9

LEMMA FoldRounds ==
    ASSUME IInv, DInv, HeaderValueDiscardLws \/ HeaderValueLws
    PROVE  DInv'
<1>1. /\ call = "running" /\ UNCHANGED <<mark, due, phase>>
      /\ p.state \in {"s_header_value_discard_lws", "s_header_value_lws"}
  BY DEF HeaderValueDiscardLws, HeaderValueLws, At, NoEvent, NoData
<1>2. /\ p.state \notin Busy
      /\ {"s_header_value_discard_ws", "s_header_value_start", "s_header_field_start"}
            \cap (Busy \cup {"s_header_value", "s_headers_done"}) = {}
  BY <1>1, BusyStates
<1>3. Struct(p) /\ p.errno = "OK" /\ Announced
  BY <1>1, Running
<1>4. ASSUME NEW s \in {"s_header_value_discard_ws", "s_header_value_start"},
             p' = InState(p, s)
      PROVE  DInv'
  <2>1. Same(p', p) /\ p'.state = s
    BY <1>3, <1>4, InStateFields
  <2>2. Announced'
    BY <1>1, <1>2, <2>1, QuietAnnounced
  <2> QED BY <1>1, <1>2, <2>1, <2>2, PlainStep
<1>5. ASSUME p' = InState(WithFlag(p), "s_header_field_start")
      PROVE  DInv'
  <2> DEFINE g == WithFlag(p)
  <2>1. /\ Struct(g) /\ g.length = p.length
        /\ "F_CONTENTLENGTH" \in g.flags <=> "F_CONTENTLENGTH" \in p.flags
    BY <1>3, WithFlagFields
  <2> HIDE DEF g
  <2>2. Same(p', g) /\ p'.state = "s_header_field_start"
    BY <1>5, <2>1, InStateFields DEF g
  <2>3. Announced'
    BY <1>1, <1>3, <2>1, <2>2 DEF Announced, Same
  <2> QED BY <1>1, <1>2, <2>2, <2>3, PlainStep
<1> QED BY <1>4, <1>5 DEF HeaderValueDiscardLws, HeaderValueLws, Consume, Reexecute

(* Where messages begin and end nothing is due.                             *)
LEMMA StartRounds ==
    ASSUME IInv, DInv, StartReq \/ StartRes \/ Dead
    PROVE  DInv'
<1>1. /\ call = "running" /\ UNCHANGED <<mark, due>>
      /\ p.state \in Starts \cup {"s_dead"}
      /\ StartReq \/ StartRes => p.state \in Starts
  BY DEF StartReq, StartRes, Dead, At, NoData, Starts
<1>2. (Starts \cup {"s_dead", "s_req_method", "s_res_H"})
          \cap (Busy \cup {"s_header_value", "s_headers_done"}) = {}
  BY BusyStates DEF Starts
<1>3. Struct(p) /\ p.errno = "OK" /\ Announced
  BY <1>1, Running
<1>4. ASSUME p' = p, phase' = phase
      PROVE  DInv'
  <2>1. Announced'
    BY <1>1, <1>2, <1>4, QuietAnnounced DEF Same
  <2> QED BY <1>1, <1>2, <1>4, <2>1, PlainStep
<1>5. /\ Struct(Fresh) /\ Fresh.flags = {} /\ Fresh.state = p.state
      /\ Fresh.length = MaxLength
  <2>1. Fresh.length = MaxLength
    BY <1>3 DEF Fresh, Struct
  <2> QED BY <1>3, <2>1, FreshFields
<1>6. ASSUME NEW q, Struct(q), q.length = MaxLength,
             q.state \in Starts \cup {"s_req_method", "s_res_H"}, CallsBack(q)
      PROVE  DInv'
  <2>1. Same(p', q) /\ p'.state = q.state
    BY <1>6, CallsBackMoves
  <2>2. Announced'
    BY <1>2, <1>6, <2>1 DEF Announced, Same
  <2> QED BY <1>1, <1>2, <1>6, <2>1, <2>2, PlainStep
<1>7. CASE StartReq
  <2>1. ASSUME NEW m, CallsBack([Fresh EXCEPT !.method = m, !.index = 1,
                                              !.state = "s_req_method"])
        PROVE  DInv'
    <3> DEFINE a == Fresh
               b == [a EXCEPT !.method = m]
               c == [b EXCEPT !.index = 1]
               q == InState(c, "s_req_method")
    <3>1. [Fresh EXCEPT !.method = m, !.index = 1, !.state = "s_req_method"] = q
      BY DEF InState
    <3>2. Struct(a) /\ a.length = MaxLength
      BY <1>5
    <3> HIDE DEF a
    <3>3. Struct(b) /\ Same(b, a)
      BY <3>2, SetOther
    <3> HIDE DEF b
    <3>4. Struct(c) /\ Same(c, b)
      BY <3>3, SetOther
    <3> HIDE DEF c
    <3>5. Struct(q) /\ Same(q, c) /\ q.state = "s_req_method"
      BY <3>4, InStateFields
    <3> HIDE DEF q
    <3> QED BY <1>6, <2>1, <3>1, <3>2, <3>3, <3>4, <3>5 DEF Same
  <2>2. CASE Error(Erroneous(Fresh, "INVALID_METHOD"))
    BY <1>3, <1>5, <2>2, FailsDelivers
  <2>3. CASE Consume(p) /\ NoEvent
    BY <1>4, <2>3 DEF Consume, NoEvent
  <2> QED BY <1>7, <2>1, <2>2, <2>3 DEF StartReq
<1>8. CASE StartRes
  <2> DEFINE q == IF ch = Letter("H") THEN InState(Fresh, "s_res_H") ELSE Fresh
  <2>1. /\ Struct(q) /\ q.length = MaxLength
        /\ q.state \in Starts \cup {"s_res_H"}
    BY <1>1, <1>5, <1>8, InStateFields DEF Same
  <2>2. CallsBack(q) \/ Error(Erroneous(q, "INVALID_CONSTANT"))
    BY <1>8 DEF StartRes
  <2> HIDE DEF q
  <2> QED BY <1>3, <1>6, <2>1, <2>2, FailsDelivers
<1>9. CASE Dead
  <2>1. (p' = p /\ phase' = phase) \/ Fails("CLOSED_CONNECTION")
    BY <1>9 DEF Dead, Consume, NoEvent
  <2> QED BY <1>3, <1>4, <2>1, FailsDelivers
<1> QED BY <1>7, <1>8, <1>9

LEMMA EndRound ==
    ASSUME IInv, DInv, call = "running", p.state \notin Busy,
           UNCHANGED <<mark, due>>,
           NEW q, Struct(q),
           CallsBack(NewMessage(q)) \/ CallsBackAndReturns(NewMessage(q)),
           Completes(q)
    PROVE  DInv'
<1> DEFINE s == IF KeepAlive(q) THEN StartState(q) ELSE "s_dead"
<1>1. s \in Starts \cup {"s_dead"}
  BY DEF StartState, Starts
<1>2. s \notin Busy \cup {"s_header_value", "s_headers_done"}
  BY <1>1, BusyStates DEF Starts
<1>3. p'.state = s
  <2>1. NewMessage(q) = InState(q, s)
    BY DEF NewMessage
  <2> HIDE DEF s
  <2> QED BY <2>1, InStateFields, CallsBackMoves
<1> HIDE DEF s
<1>4. Announced'
  BY <1>2, <1>3 DEF Announced, Completes, Reports
<1> QED BY <1>2, <1>3, <1>4, PlainStep

(* The length of a body is what is due of it.                               *)
LEMMA HeadersAlmostDoneRound ==
    ASSUME IInv, DInv, HeadersAlmostDone
    PROVE  DInv'
<1>1. /\ call = "running" /\ UNCHANGED <<mark, due, exact>>
      /\ p.state = "s_headers_almost_done"
  BY DEF HeadersAlmostDone, At, NoData
<1>2. {"s_headers_almost_done", "s_headers_done", "s_message_done"} \cap Busy = {}
  BY BusyStates
<1>3. Struct(p) /\ p.errno = "OK" /\ Announced
  BY <1>1, Running
<1>4. CASE Fails("STRICT") \/ Fails("UNEXPECTED_CONTENT_LENGTH")
  BY <1>3, <1>4, FailsDelivers
<1>5. CASE "F_TRAILING" \in p.flags /\ NoEvent
           /\ CallsBackNoAdvance(InState(p, "s_message_done"))
  <2>1. LET q == InState(p, "s_message_done") IN
        Struct(q) /\ Same(q, p) /\ q.errno = "OK" /\ q.state = "s_message_done"
    BY <1>3, InStateFields
  <2>2. Same(p', p) /\ p'.state = "s_message_done"
    BY <1>5, <2>1, NoAdvanceMoves DEF Same
  <2>3. Announced'
    BY <1>1, <1>5, <2>2, QuietAnnounced DEF NoEvent
  <2> QED BY <1>1, <1>2, <2>2, <2>3, PlainStep
<1>6. CASE /\ "F_TRAILING" \notin p.flags
           /\ HeadersComplete([p EXCEPT !.state = "s_headers_done",
                                        !.upgrade = Upgrades(p)])
           /\ phase' = "headers"
  <2>1. phase = "begun"
    <3>1. p.state \notin Starts \cup AfterHeaders \cup {"s_dead"}
      BY <1>1, LineStatesApart DEF LineStates
    <3> QED BY <1>6, <3>1 DEF IInv, Position, AfterHeaders
  <2>2. p.length = IF "F_CONTENTLENGTH" \in p.flags THEN exact ELSE MaxLength
    BY <1>3, <2>1 DEF IInv, Numbers, Counted, Announced
  <2> DEFINE a == InState(p, "s_headers_done")
             u == Upgrades(p)
             b == [a EXCEPT !.upgrade = u]
             Like(x) == /\ Struct(x) /\ x.errno = "OK" /\ x.state = "s_headers_done"
                        /\ x.length = p.length
                        /\ "F_CONTENTLENGTH" \in x.flags <=> "F_CONTENTLENGTH" \in p.flags
  <2>3. HeadersComplete(b)
    BY <1>6 DEF InState
  <2>4. Like(a)
    BY <1>3, InStateFields DEF Same
  <2> HIDE DEF a, u
  <2>5. Like(b)
    BY <2>4 DEF Struct
  <2> HIDE DEF b
  <2>6. PICK x : \E answer \in {b, [b EXCEPT !.flags = @ \cup {"F_SKIPBODY"}, !.upgrade = x]} :
            CallsBackNoAdvance(answer)
    BY <2>3 DEF HeadersComplete
  <2> DEFINE c == [b EXCEPT !.flags = @ \cup {"F_SKIPBODY"}]
             d == [c EXCEPT !.upgrade = x]
  <2>7. [b EXCEPT !.flags = @ \cup {"F_SKIPBODY"}, !.upgrade = x] = d
    OBVIOUS
  <2>8. Like(c)
    <3>1. "F_SKIPBODY" \in Flags
      BY DEF Flags
    <3> QED BY <2>5, <3>1, AddFlag
  <2> HIDE DEF c
  <2>9. Like(d)
    BY <2>8 DEF Struct
  <2> HIDE DEF d
  <2>10. ASSUME NEW q \in {b, d}, CallsBackNoAdvance(q)
         PROVE  DInv'
    <3>1. Like(q)
      BY <2>5, <2>9
    <3>2. Same(p', q) /\ p'.state = "s_headers_done"
      BY <2>10, <3>1, NoAdvanceMoves
    <3>3. Announced'
      BY <1>1, <1>6, <2>2, <3>1, <3>2 DEF Announced, Same
    <3> QED BY <1>1, <1>2, <3>2, <3>3, PlainStep
  <2> QED BY <2>6, <2>7, <2>10
<1> QED BY <1>4, <1>5, <1>6 DEF HeadersAlmostDone, Reports

LEMMA HeadersDoneRound ==
    ASSUME IInv, DInv, HeadersDone
    PROVE  DInv'
<1> DEFINE q == Recount(p)
<1>1. /\ call = "running" /\ p.state = "s_headers_done" /\ mark' = mark /\ exact' = 0
  BY DEF HeadersDone, At
<1>2. p.state \notin Busy
  BY <1>1, BusyStates
<1>3. Struct(p) /\ p.errno = "OK" /\ Marks /\ Announced
  BY <1>1, Running
<1>4. /\ Struct(q) /\ q.flags = p.flags /\ q.length = p.length /\ q.errno = "OK"
  BY <1>3, RecountFields
<1> HIDE DEF q
<1>5. mark = NoMark /\ due = 0
  BY <1>2, <1>3 DEF Marks
<1>6. CASE Fails("STRICT")
  BY <1>3, <1>6, FailsDelivers
<1>7. CASE /\ CallsBack(NewMessage(q)) \/ CallsBackAndReturns(NewMessage(q))
           /\ Completes(q) /\ due' = due
  BY <1>1, <1>2, <1>4, <1>7, EndRound
<1>8. CASE /\ ~EndsAtOnce(q)
           /\ Consume(InState(q,
                 IF "F_CHUNKED" \in q.flags THEN "s_chunk_size_start"
                 ELSE IF q.length # MaxLength THEN "s_body_identity"
                 ELSE "s_body_identity_eof"))
           /\ due' = IF "F_CHUNKED" \notin q.flags /\ q.length # MaxLength
                     THEN due + exact ELSE due
           /\ NoEvent
  <2> DEFINE s == IF "F_CHUNKED" \in q.flags THEN "s_chunk_size_start"
                  ELSE IF q.length # MaxLength THEN "s_body_identity"
                  ELSE "s_body_identity_eof"
  <2>1. Same(p', q) /\ p'.state = s /\ phase' = phase /\ call' = call
    <3>1. p' = InState(q, s) /\ phase' = phase /\ call' = call
      BY <1>8 DEF Consume, NoEvent
    <3> HIDE DEF s
    <3> QED BY <1>4, <3>1, InStateFields
  <2>2. phase # "begun"
    BY <1>1 DEF IInv, Position, AfterHeaders, Ends
  <2>3. Announced'
    BY <2>1, <2>2 DEF Announced
  <2>4. mark' = NoMark /\ Held' = 0
    BY <1>1, <1>5 DEF Held
  <2>5. Marks'
    <3>1. CASE s = "s_chunk_size_start"
      <4>1. due' = 0
        BY <1>5, <1>8, <3>1
      <4>2. s \notin Busy
        BY <3>1, BusyStates
      <4> HIDE DEF s
      <4> QED BY <2>1, <2>4, <4>1, <4>2 DEF Marks, Busy, Spans
    <3>2. CASE s = "s_body_identity"
      <4>1. due' = exact /\ exact = p.length
        <5>1. "F_CHUNKED" \notin q.flags /\ q.length # MaxLength
          BY <3>2
        <5>2. p.length = exact
          BY <1>1, <1>3, <1>4, <5>1 DEF Announced
        <5>3. p.length \in Nat
          BY <1>3 DEF Struct
        <5> QED BY <1>5, <1>8, <5>1, <5>2, <5>3
      <4>2. p'.length \in Nat /\ p'.length = p.length
        BY <1>3, <1>4, <2>1 DEF Struct, Same
      <4>3. s \in Counts /\ s \notin Spans /\ s \notin MarkedStates /\ s \in Busy
        BY <3>2 DEF Counts, Spans, MarkedStates, UrlStates, Busy
      <4> HIDE DEF s
      <4> QED BY <2>1, <2>4, <4>1, <4>2, <4>3 DEF Marks
    <3>3. CASE s = "s_body_identity_eof"
      <4>1. due' = 0
        BY <1>5, <1>8, <3>3
      <4>2. s \in Spans /\ s \notin Counts /\ s \notin MarkedStates /\ s \in Busy
        BY <3>3 DEF Counts, Spans, MarkedStates, UrlStates, Busy
      <4> HIDE DEF s
      <4> QED BY <2>1, <2>4, <4>1, <4>2 DEF Marks
    <3> QED BY <3>1, <3>2, <3>3
  <2> QED BY <2>3, <2>5 DEF DInv
<1> QED BY <1>6, <1>7, <1>8 DEF HeadersDone, q

(* Bodies and chunks: what is read moves from content_length to the mark.   *)
LEMMA ReadBytes ==
    ASSUME IInv, DInv, call = "running", p.state \in Counts
    PROVE  LET q == [p EXCEPT !.length = @ - ToRead] IN
           /\ Struct(q) /\ q.length \in Nat /\ q.errno = "OK"
           /\ q.state = p.state /\ q.flags = p.flags
           /\ Held + ToRead \in Nat
           /\ due = q.length + (Held + ToRead)
           /\ phase = "headers"
<1> DEFINE q == [p EXCEPT !.length = @ - ToRead]
<1>1. Struct(p) /\ p.errno = "OK" /\ Marks /\ left \in Nat
  BY Running DEF IInv
<1>2. p.length \in 1..(MaxLength - 1) /\ due = p.length + Held
  <2>1. p.length \notin {0, MaxLength}
    BY DEF IInv, Numbers, Counts
  <2> QED BY <1>1, <2>1, MaxLengthAssumption DEF Struct, Marks
<1>3. Held \in Nat
  BY <1>1 DEF Marks, Held
<1>4. ToRead \in 1..p.length
  BY <1>1, <1>2 DEF ToRead, Smaller
<1>5. q.length = p.length - ToRead
  BY <1>1 DEF Struct
<1>6. Struct(q) /\ q.errno = "OK" /\ q.state = p.state /\ q.flags = p.flags
  <2>1. p.length \notin {0, MaxLength}
    BY <1>2
  <2> QED BY <1>1, <2>1, ToReadFields
<1>7. phase = "headers"
  BY DEF IInv, Position, Counts, AfterHeaders, ChunkStates, Starts
<1> HIDE DEF q
<1>8. q.length \in Nat /\ Held + ToRead \in Nat /\ due = q.length + (Held + ToRead)
  BY <1>2, <1>3, <1>4, <1>5
<1> QED BY <1>6, <1>7, <1>8 DEF q

(* The parser stays where bytes are read ...                                *)
LEMMA CountStep ==
    ASSUME IInv, DInv, call = "running", call' = call,
           p.state \in Counts,
           p' = [p EXCEPT !.length = @ - ToRead],
           mark' = Held + ToRead, UNCHANGED <<due, phase>>
    PROVE  DInv'
<1>1. /\ p'.length \in Nat /\ p'.state = p.state
      /\ mark' \in Nat /\ due' = p'.length + mark' /\ phase = "headers"
  BY ReadBytes
<1>2. Held' = mark' /\ mark' # NoMark
  BY <1>1 DEF Held, NoMark
<1>3. p'.state \in Counts /\ p'.state \in Busy /\ p'.state \notin Spans \cup MarkedStates
      /\ p'.state \notin {"s_header_value", "s_headers_done"}
  BY <1>1 DEF Counts, Busy, Spans, MarkedStates, UrlStates
<1>4. Marks'
  BY <1>1, <1>2, <1>3 DEF Marks
<1>5. Announced'
  BY <1>1, <1>3 DEF Announced
<1> QED BY <1>4, <1>5 DEF DInv

(* ... or leaves with nothing marked and nothing due.                       *)
LEMMA ClearStep ==
    ASSUME mark' = NoMark, due' = 0, p'.state \notin Busy,
           phase' # "begun", p'.state \notin {"s_header_value", "s_headers_done"}
    PROVE  DInv'
BY DEF DInv, Marks, Announced, Busy, Spans

LEMMA BodyRounds ==
    ASSUME IInv, DInv, BodyIdentity \/ BodyIdentityEof \/ MessageDone
    PROVE  DInv'
<1>1. call = "running"
  BY DEF BodyIdentity, BodyIdentityEof, MessageDone, At
<1>2. Struct(p) /\ p.errno = "OK" /\ Marks /\ left \in Nat
  BY <1>1, Running DEF IInv
<1>3. CASE BodyIdentity
  <2> DEFINE q == [p EXCEPT !.length = @ - ToRead]
             r == InState(q, "s_message_done")
  <2>1. p.state \in Counts /\ phase' = phase
    BY <1>3 DEF BodyIdentity, At, Counts, NoEvent
  <2>2. /\ Struct(q) /\ q.length \in Nat /\ q.errno = "OK"
        /\ Held + ToRead \in Nat /\ due = q.length + (Held + ToRead)
        /\ phase = "headers"
    BY <1>1, <2>1, ReadBytes
  <2>3. CASE q.length > 0
    <3>1. p' = q /\ call' = call /\ mark' = Held + ToRead /\ due' = due
      BY <1>3, <2>3 DEF BodyIdentity, Consume
    <3> QED BY <1>1, <2>1, <3>1, CountStep
  <2>4. CASE ~(q.length > 0)
    <3>1. CallsBackNoAdvance(r) /\ mark' = NoMark /\ due' = due - (Held + ToRead)
      BY <1>3, <2>4 DEF BodyIdentity
    <3> HIDE DEF q
    <3>2. due' = 0
      BY <2>2, <2>4, <3>1
    <3>3. Struct(r) /\ r.errno = "OK" /\ r.state = "s_message_done"
      BY <2>2, InStateFields
    <3> HIDE DEF r
    <3>4. p'.state = "s_message_done"
      BY <3>1, <3>3, NoAdvanceMoves
    <3>5. "s_message_done" \notin Busy
      BY BusyStates
    <3> QED BY <2>1, <2>2, <3>1, <3>2, <3>4, <3>5, ClearStep
  <2> QED BY <2>3, <2>4
<1>4. CASE BodyIdentityEof
  <2>1. /\ p' = p /\ call' = call /\ phase' = phase
        /\ mark' = Held + left + 1 /\ due' = due + left + 1
        /\ p.state = "s_body_identity_eof"
    BY <1>4 DEF BodyIdentityEof, Consume, NoEvent, At
  <2>2. /\ p.state \in Spans /\ p.state \in Busy
        /\ p.state \notin Counts \cup MarkedStates \cup {"s_header_value", "s_headers_done"}
    BY <2>1 DEF Spans, Counts, Busy, MarkedStates, UrlStates
  <2>3. Held \in Nat /\ due = Held
    BY <1>2, <2>2 DEF Marks, Held
  <2>4. mark' \in Nat /\ Held' = mark' /\ due' = mark'
    BY <1>2, <2>1, <2>3 DEF Held, NoMark
  <2>5. Marks'
    BY <1>1, <2>1, <2>2, <2>4 DEF Marks, NoMark
  <2>6. Announced'
    BY <1>1, <2>1, <2>2, QuietAnnounced DEF Same
  <2> QED BY <2>5, <2>6 DEF DInv
<1>5. CASE MessageDone
  <2>1. /\ CallsBack(NewMessage(p)) \/ CallsBackAndReturns(NewMessage(p))
        /\ Completes(p) /\ UNCHANGED <<mark, due>> /\ p.state = "s_message_done"
    BY <1>5 DEF MessageDone, NoData, At
  <2>2. "s_message_done" \notin Busy
    BY BusyStates
  <2> QED BY <1>1, <1>2, <2>1, <2>2, EndRound
<1> QED BY <1>3, <1>4, <1>5

LEMMA ChunkSizeRounds ==
    ASSUME IInv, DInv,
           \/ ChunkSizeStart \/ ChunkSize \/ ChunkParameters \/ ChunkSizeAlmostDone
           \/ ChunkDataDone
    PROVE  DInv'
<1> DEFINE Sizes == {"s_chunk_size_start", "s_chunk_size", "s_chunk_parameters",
                     "s_chunk_size_almost_done", "s_chunk_data_done"}
<1>1. /\ call = "running" /\ mark' = mark /\ phase' = phase
      /\ p.state \in Sizes
  BY DEF ChunkSizeStart, ChunkSize, ChunkParameters, ChunkSizeAlmostDone,
         ChunkDataDone, At, NoEvent, NoData
<1>2. Sizes \cap (Busy \cup {"s_header_value", "s_headers_done"}) = {}
      /\ Sizes \subseteq ChunkStates
  BY BusyStates DEF ChunkStates
<1>3. Struct(p) /\ p.errno = "OK" /\ Marks /\ TokenOK(ch)
  BY <1>1, Running DEF IInv
<1>4. phase = "headers"
  BY <1>1 DEF IInv, Position, AfterHeaders, ChunkStates, Starts
<1>5. mark = NoMark /\ due = 0
  BY <1>1, <1>2, <1>3 DEF Marks
<1>6. ASSUME p'.state \in Sizes, due' = due
      PROVE  DInv'
  BY <1>1, <1>2, <1>4, <1>5, <1>6, ClearStep
<1>7. CASE Fails("STRICT") \/ Fails("INVALID_CHUNK_SIZE")
  BY <1>3, <1>7, FailsDelivers
<1>8. \A s : InState(p, s).state = s
  BY <1>3, InStateFields
<1>9. CASE ChunkSizeStart
  <2>1. CASE ch.t = "digit"
    <3>1. p' = [p EXCEPT !.length = ch.v, !.state = "s_chunk_size"] /\ due' = due
      BY <1>9, <2>1 DEF ChunkSizeStart, Consume
    <3>2. p'.state = "s_chunk_size"
      BY <1>3, <3>1 DEF Struct
    <3> QED BY <1>6, <3>1, <3>2
  <2> QED BY <1>7, <1>9, <2>1 DEF ChunkSizeStart
<1>10. CASE ChunkSize
  <2>1. CASE ch.t = "digit"
    <3>1. Result(AddDigit(p, 16, ch)) /\ due' = due
      BY <1>10, <2>1 DEF ChunkSize, CR, Semicolon, SP, Token
    <3>2. ch.v \in 0..(16 - 1)
      BY <1>3, <2>1 DEF TokenOK
    <3>3. AddDigit(p, 16, ch).state = p.state
      BY <1>3, <3>2, AddDigitFields
    <3>4. p' = AddDigit(p, 16, ch)
      BY <3>1, ResultMoves
    <3> QED BY <1>1, <1>6, <3>1, <3>3, <3>4
  <2>2. CASE ch.t # "digit"
    <3>1. /\ due' = due
          /\ \/ Consume(InState(p, "s_chunk_size_almost_done"))
             \/ Consume(InState(p, "s_chunk_parameters"))
             \/ Fails("INVALID_CHUNK_SIZE")
      BY <1>10, <2>2 DEF ChunkSize
    <3> QED BY <1>6, <1>7, <1>8, <3>1 DEF Consume
  <2> QED BY <2>1, <2>2
<1>11. CASE ChunkParameters
  <2>1. /\ due' = due
        /\ p' = InState(p, "s_chunk_size_almost_done") \/ p' = p
    BY <1>11 DEF ChunkParameters, Consume, NoData
  <2> QED BY <1>1, <1>6, <1>8, <2>1
<1>12. CASE ChunkDataDone
  <2> DEFINE a == InState(p, "s_chunk_size_start")
             q == Recount(a)
  <2>1. due' = due /\ (CallsBack(q) \/ Fails("STRICT"))
    BY <1>12 DEF ChunkDataDone, NoData
  <2>2. Struct(a) /\ a.state = "s_chunk_size_start"
    BY <1>3, InStateFields
  <2> HIDE DEF a
  <2>3. Struct(q) /\ q.state = "s_chunk_size_start"
    BY <2>2, RecountFields
  <2> HIDE DEF q
  <2> QED BY <1>6, <1>7, <2>1, <2>3, CallsBackMoves
<1>13. CASE ChunkSizeAlmostDone
  <2>1. p.length = exact /\ exact \in Nat /\ p.state \in SizeStates
    <3>1. p.state \in SizeStates
      BY <1>13 DEF ChunkSizeAlmostDone, At, SizeStates
    <3> QED BY <1>3, <3>1 DEF IInv, Numbers, Struct
  <2>2. CASE ch # LF
    BY <1>7, <1>13, <2>2 DEF ChunkSizeAlmostDone
  <2>3. CASE ch = LF
    <3> DEFINE a == Recount(p)
               b == [a EXCEPT !.flags = @ \cup {"F_TRAILING"}]
               q == IF p.length = 0 THEN InState(b, "s_header_field_start")
                    ELSE InState(a, "s_chunk_data")
    <3>1. CallsBack(q) /\ due' = due + exact
      BY <1>13, <2>3 DEF ChunkSizeAlmostDone, InState
    <3>2. Struct(a) /\ a.length = p.length
      BY <1>3, RecountFields
    <3> HIDE DEF a
    <3>3. Struct(b)
      <4>1. "F_TRAILING" \in Flags
        BY DEF Flags
      <4> QED BY <3>2, <4>1, AddFlag
    <3> HIDE DEF b
    <3>4. /\ Struct(q)
          /\ q.state = IF p.length = 0 THEN "s_header_field_start" ELSE "s_chunk_data"
          /\ p.length # 0 => q.length = p.length
      BY <3>2, <3>3, InStateFields DEF Same
    <3> HIDE DEF q
    <3>5. Same(p', q) /\ p'.state = q.state
      BY <3>1, <3>4, CallsBackMoves
    <3>6. CASE p.length = 0
      <4>1. p'.state = "s_header_field_start" /\ due' = 0 /\ mark' = NoMark
        BY <1>1, <1>5, <2>1, <3>1, <3>4, <3>5, <3>6
      <4>2. "s_header_field_start" \notin Busy
        BY BusyStates
      <4> QED BY <1>1, <1>4, <4>1, <4>2, ClearStep
    <3>7. CASE p.length # 0
      <4>1. /\ p'.state = "s_chunk_data" /\ p'.length = p.length
            /\ due' = p'.length /\ p'.length \in Nat /\ mark' = NoMark
        BY <1>1, <1>5, <2>1, <3>1, <3>4, <3>5, <3>7 DEF Same
      <4>2. /\ "s_chunk_data" \in Counts /\ "s_chunk_data" \in Busy
            /\ "s_chunk_data" \notin Spans \cup MarkedStates
        BY DEF Counts, Busy, Spans, MarkedStates, UrlStates
      <4>3. Held' = 0
        BY <4>1 DEF Held
      <4>4. Marks'
        BY <4>1, <4>2, <4>3 DEF Marks
      <4>5. Announced'
        BY <1>1, <1>4, <4>1 DEF Announced
      <4> QED BY <4>4, <4>5 DEF DInv
    <3> QED BY <3>6, <3>7
  <2> QED BY <2>2, <2>3
<1> QED BY <1>9, <1>10, <1>11, <1>12, <1>13

LEMMA ChunkDataRounds ==
    ASSUME IInv, DInv, ChunkData \/ ChunkDataAlmostDone
    PROVE  DInv'
<1>1. call = "running" /\ phase' = phase
  BY DEF ChunkData, ChunkDataAlmostDone, At, NoEvent
<1>2. Struct(p) /\ p.errno = "OK" /\ Marks
  BY <1>1, Running
<1>3. CASE ChunkData
  <2> DEFINE q == [p EXCEPT !.length = @ - ToRead]
  <2>1. p.state \in Counts /\ mark' = Held + ToRead /\ due' = due /\ call' = call
    BY <1>3 DEF ChunkData, Consume, At, Counts
  <2>2. p' = IF q.length = 0 THEN InState(q, "s_chunk_data_almost_done") ELSE q
    BY <1>3 DEF ChunkData, Consume
  <2>3. /\ Struct(q) /\ q.length \in Nat
        /\ Held + ToRead \in Nat /\ due = q.length + (Held + ToRead)
        /\ phase = "headers"
    BY <1>1, <2>1, ReadBytes
  <2>4. CASE q.length = 0
    <3> HIDE DEF q
    <3>1. p'.state = "s_chunk_data_almost_done"
      BY <2>2, <2>3, <2>4, InStateFields
    <3>2. mark' \in Nat /\ mark' # NoMark /\ due' = mark'
      BY <2>1, <2>3, <2>4 DEF NoMark
    <3>3. /\ p'.state \in Spans /\ p'.state \in Busy
          /\ p'.state \notin Counts \cup MarkedStates \cup {"s_header_value", "s_headers_done"}
      BY <3>1 DEF Counts, Busy, Spans, MarkedStates, UrlStates
    <3>4. Held' = mark'
      BY <3>2 DEF Held
    <3>5. Marks'
      BY <1>1, <2>1, <3>2, <3>3, <3>4 DEF Marks
    <3>6. Announced'
      BY <1>1, <2>3, <3>3 DEF Announced
    <3> QED BY <3>5, <3>6 DEF DInv
  <2>5. CASE q.length # 0
    BY <1>1, <2>1, <2>2, <2>5, CountStep
  <2> QED BY <2>4, <2>5
<1>4. CASE ChunkDataAlmostDone
  <2>1. p.state = "s_chunk_data_almost_done"
    BY <1>4 DEF ChunkDataAlmostDone, At
  <2>2. due = Held /\ Held \in Nat
    BY <1>2, <2>1 DEF Marks, Spans, Held
  <2>3. phase = "headers"
    BY <2>1 DEF IInv, Position, AfterHeaders, ChunkStates, Starts
  <2>4. CASE Fails("STRICT")
    BY <1>2, <2>4, FailsDelivers
  <2>5. CASE CallsBackData(InState(p, "s_chunk_data_done"))
    <3> DEFINE q == InState(p, "s_chunk_data_done")
    <3>1. Struct(q) /\ q.state = "s_chunk_data_done"
      BY <1>2, InStateFields
    <3> HIDE DEF q
    <3>2. mark' = NoMark /\ due' = 0 /\ (Consume(q) \/ CallsBack(q))
      BY <2>2, <2>5 DEF CallsBackData, q
    <3>3. p'.state = "s_chunk_data_done"
      BY <3>1, <3>2, CallsBackMoves DEF Consume
    <3>4. "s_chunk_data_done" \notin Busy
      BY BusyStates
    <3> QED BY <1>1, <2>3, <3>2, <3>3, <3>4, ClearStep
  <2> QED BY <1>4, <2>4, <2>5 DEF ChunkDataAlmostDone
<1> QED BY <1>3, <1>4

(* A step around the rounds leaves the parser where it is.                  *)
LEMMA StayStep ==
    ASSUME Struct(p), Marks, Announced,
           p'.state = p.state, p'.flags = p.flags, p'.length = p.length,
           p'.header = p.header, UNCHANGED exact,
           phase' = phase \/ phase' = "complete",
           mark' \in Nat \cup {NoMark},
           due' = (due - Held) + Held',
           call' # "running" => mark' = NoMark,
           call' = "running" /\ p.state \in MarkedStates => mark' # NoMark,
           p.state \notin Busy => mark' = NoMark
    PROVE  DInv'
<1>1. Held \in Nat /\ Held' \in Nat /\ p.length \in Nat
  BY MaxLengthAssumption DEF Marks, Held, Struct
<1>2. p.state \in Spans => due' = Held'
  BY <1>1 DEF Marks
<1>3. p.state \in Counts => due' = p'.length + Held'
  <2> SUFFICES ASSUME p.state \in Counts PROVE due' = p'.length + Held'
    OBVIOUS
  <2>1. due = p.length + Held
    BY DEF Marks
  <2> QED BY <1>1, <2>1
<1>4. p.state \notin Busy => due' = 0
  BY DEF Marks, Held
<1>5. Marks'
  BY <1>2, <1>3, <1>4 DEF Marks
<1>6. Announced'
  BY DEF Announced
<1> QED BY <1>5, <1>6 DEF DInv

LEMMA OuterRounds ==
    ASSUME IInv, DInv, Execute \/ ExecuteEof \/ Unpause \/ Load \/ Flush
    PROVE  DInv'
<1>1. Struct(p)
  BY DEF IInv
<1>2. \A e : LET q == Erroneous(p, e) IN
        /\ q.state = p.state /\ q.flags = p.flags /\ q.length = p.length
        /\ q.header = p.header
  BY <1>1 DEF Struct, Erroneous
<1>3. Live
  BY DEF Execute, ExecuteEof, Unpause, Load, Flush, Live, IInv, Call
<1>4. Marks /\ Announced
  BY <1>3 DEF DInv
<1>5. due \in Int /\ Held \in Nat
  <2>1. Held \in Nat /\ p.length \in Nat
    BY <1>1, <1>4, MaxLengthAssumption DEF Marks, Held, Struct
  <2> QED BY <1>4, <2>1 DEF Marks, Busy
<1>6. MarkedStates \subseteq Busy
  BY DEF Busy, Spans
<1>7. CASE Execute
  <2>1. /\ call = "idle" /\ call' = "running"
        /\ mark' = IF p.state \in MarkedStates THEN 0 ELSE NoMark
        /\ UNCHANGED <<p, due, exact, phase>>
    BY <1>7 DEF Execute, NoEvent
  <2>2. Held = 0 /\ Held' = 0 /\ (mark' = 0 => mark' # NoMark)
    BY <1>4, <2>1 DEF Marks, Held, NoMark
  <2>3. due' = (due - Held) + Held'
    BY <1>5, <2>1, <2>2
  <2> QED BY <1>1, <1>4, <1>6, <2>1, <2>2, <2>3, StayStep
<1>8. CASE ExecuteEof \/ Unpause
  <2>1. /\ call = "idle" /\ call' # "running"
        /\ UNCHANGED <<mark, due, exact>> /\ (phase' = phase \/ phase' = "complete")
        /\ p' = p \/ \E e : p' = Erroneous(p, e)
    <3>1. CASE Unpause
      BY <3>1 DEF Unpause, NoData, NoEvent
    <3>2. CASE ExecuteEof /\ p.state = "s_body_identity_eof"
      BY <3>2 DEF ExecuteEof, NoData, Completes, Reports
    <3>3. CASE ExecuteEof /\ p.state # "s_body_identity_eof"
      BY <3>3 DEF ExecuteEof, NoData, NoEvent
    <3> QED BY <1>8, <3>1, <3>2, <3>3
  <2>2. mark = NoMark /\ Held' = Held
    BY <1>4, <2>1 DEF Marks, Held
  <2>3. due' = (due - Held) + Held'
    BY <1>5, <2>1, <2>2
  <2>4. /\ p'.state = p.state /\ p'.flags = p.flags /\ p'.length = p.length
        /\ p'.header = p.header
    BY <1>2, <2>1
  <2> QED BY <1>1, <1>4, <2>1, <2>2, <2>3, <2>4, StayStep
<1>9. CASE Load
  <2> DEFINE n == IF p.nread = 2 THEN 2 ELSE p.nread + 1
             q == IF p.state \in BodyStates THEN p ELSE [p EXCEPT !.nread = n]
  <2>1. /\ call = "running" /\ UNCHANGED <<mark, due, exact, phase>>
        /\ \/ p' = q /\ call' = call
           \/ Error(Erroneous(q, "HEADER_OVERFLOW"))
    BY <1>9 DEF Load, NoEvent
  <2> HIDE DEF n
  <2>2. p.nread \in Nat => n \in Nat
    BY DEF n
  <2>3. /\ Struct(q)
        /\ q.state = p.state /\ q.flags = p.flags /\ q.length = p.length
        /\ q.header = p.header
    BY <1>1, <2>2 DEF Struct
  <2> HIDE DEF q
  <2>4. CASE p' = q /\ call' = call
    <3>1. Held' = Held /\ due' = (due - Held) + Held'
      BY <1>5, <2>1 DEF Held
    <3> QED BY <1>1, <1>4, <2>1, <2>3, <2>4, <3>1, StayStep DEF Marks
  <2>5. CASE Error(Erroneous(q, "HEADER_OVERFLOW"))
    <3>1. p'.errno = "HEADER_OVERFLOW"
      BY <2>3, <2>5, ErroneousFields DEF Error
    <3> QED BY <3>1 DEF DInv, Live
  <2> QED BY <2>1, <2>4, <2>5
<1>10. CASE Flush
  <2>1. /\ call' = "idle" /\ mark' = NoMark /\ due' = due - Held
        /\ UNCHANGED <<exact, phase>> /\ \E e : p' = Erroneous(p, e)
    BY <1>10 DEF Flush, NoNumber, NoEvent
  <2>2. Held' = 0 /\ due' = (due - Held) + Held'
    BY <1>5, <2>1 DEF Held
  <2>3. /\ p'.state = p.state /\ p'.flags = p.flags /\ p'.length = p.length
        /\ p'.header = p.header
    BY <1>2, <2>1
  <2> QED BY <1>1, <1>4, <2>1, <2>2, <2>3, StayStep
<1> QED BY <1>7, <1>8, <1>9, <1>10

-----------------------------------------------------------------------------
LEMMA InitDelivery == Init => DInv
<1> SUFFICES ASSUME Init PROVE DInv
  OBVIOUS
<1>1. /\ call = "idle" /\ mark = NoMark /\ due = 0 /\ phase = "complete"
      /\ p.state \in Starts
  <2>1. PICK type \in Types :
          p = [type |-> type,
               state |-> IF type = "HTTP_REQUEST" THEN "s_start_req" ELSE "s_start_res",
               header |-> "h_general", flags |-> {}, length |-> 0, nread |-> 0,
               method |-> "DELETE", index |-> 0, http11 |-> FALSE, status |-> 0,
               upgrade |-> FALSE, errno |-> "OK"]
    BY DEF Init
  <2>2. p.state \in Starts
    BY <2>1 DEF Starts
  <2> QED BY <2>2 DEF Init
<1>2. p.state \notin Busy \cup {"s_header_value", "s_headers_done"}
  BY <1>1, BusyStates DEF Starts
<1>3. Marks
  BY <1>1, <1>2 DEF Marks, Busy, Spans
<1>4. Announced
  BY <1>1, <1>2 DEF Announced
<1> QED BY <1>3, <1>4 DEF DInv

LEMMA NextDelivery == IInv /\ DInv /\ [Next]_vars => DInv'
<1> SUFFICES ASSUME IInv, DInv, [Next]_vars PROVE DInv'
  OBVIOUS
<1>1. CASE RequestLine
  BY <1>1, StartRounds, PlainRounds, UrlRounds DEF RequestLine
<1>2. CASE StatusLine
  BY <1>2, StartRounds, PlainRounds, ReasonRounds DEF StatusLine
<1>3. CASE Dead \/ Http \/ HttpMajor \/ HttpDot \/ HttpMinor \/ LineAlmostDone
  BY <1>3, StartRounds, PlainRounds
<1>4. CASE Header
  BY <1>4, PlainRounds, ValueRounds, FoldRounds DEF Header
<1>5. CASE HeadersAlmostDone \/ HeadersDone
  BY <1>5, HeadersAlmostDoneRound, HeadersDoneRound
<1>6. CASE Body
  BY <1>6, BodyRounds, ChunkSizeRounds, ChunkDataRounds DEF Body
<1>7. CASE Execute \/ ExecuteEof \/ Unpause \/ Load \/ Flush
  BY <1>7, OuterRounds
<1>8. CASE UNCHANGED vars
  BY <1>8 DEF vars, DInv, Live, Marks, Announced, Held
<1> QED BY <1>1, <1>2, <1>3, <1>4, <1>5, <1>6, <1>7, <1>8 DEF Next

LEMMA Delivery == Spec => [](IInv /\ DInv)
<1>1. IInv /\ DInv /\ [Next]_vars => (IInv /\ DInv)'
  BY NextInv, NextDelivery
<1> QED BY <1>1, InitInv, InitDelivery, PTL DEF Spec

(* on_body is called with every byte of a body before the message is        *)
(* complete, and before a call returns with all of those it has read.       *)
THEOREM ParserBodyDelivered == Spec => []BodyDelivered
<1>1. IInv /\ DInv => BodyDelivered
  <2> SUFFICES ASSUME IInv, Marks, Announced
               PROVE  /\ phase = "complete" => due = 0
                      /\ call = "idle" /\ p.state \in Counts => due = p.length
    BY DEF DInv, Live, BodyDelivered, Counts
  <2>1. ASSUME phase = "complete"
        PROVE  due = 0
    <3>1. CASE p.state \in Starts \cup {"s_dead"}
      <4>1. p.state \notin Busy
        BY <3>1, BusyStates DEF Starts
      <4> QED BY <4>1 DEF Marks
    <3>2. CASE p.state = "s_body_identity_eof" /\ call = "done"
      <4>1. p.state \in Spans /\ mark = NoMark
        BY <3>2 DEF Spans, Marks
      <4> QED BY <4>1 DEF Marks, Held
    <3> QED BY <2>1, <3>1, <3>2 DEF IInv, Position
  <2>2. ASSUME call = "idle", p.state \in Counts
        PROVE  due = p.length
    <3>1. Held = 0 /\ due = p.length + Held
      BY <2>2 DEF Marks, Held
    <3>2. p.length \in Nat
      BY MaxLengthAssumption DEF IInv, Struct
    <3> QED BY <3>1, <3>2
  <2> QED BY <2>1, <2>2
<1> QED BY <1>1, Delivery, PTL

(* Every byte of a URL and of a reason phrase is reported: before a call    *)
(* returns all that it has read, before the line ends all of them.          *)
THEOREM ParserLineDelivered == Spec => []LineDelivered
<1>1. IInv /\ DInv => LineDelivered
  <2> SUFFICES ASSUME Marks
               PROVE  /\ p.state \in MarkedStates /\ call = "idle" => due = 0
                      /\ p.state \in {"s_req_http_start", "s_req_line_almost_done",
                                      "s_res_line_almost_done", "s_header_field_start"}
                           => due = 0
    BY DEF DInv, Live, LineDelivered
  <2>1. p.state \in MarkedStates /\ call = "idle" => due = 0
    BY DEF Marks, Spans, Held
  <2>2. {"s_req_http_start", "s_req_line_almost_done", "s_res_line_almost_done",
         "s_header_field_start"} \cap Busy = {}
    BY BusyStates
  <2> QED BY <2>1, <2>2 DEF Marks
<1> QED BY <1>1, Delivery, PTL
-----------------------------------------------------------------------------
(* The fields that IInv says nothing of.                                    *)
Typed(q) ==
    /\ q.type \in Types /\ q.state \in States /\ q.errno \in Errnos
    /\ q.nread \in 0..2 /\ q.method \in Methods \cup {"other"} /\ q.index \in Nat
    /\ q.http11 \in BOOLEAN /\ q.upgrade \in BOOLEAN
    /\ q.status \in Nat /\ q.status <= 9999

(* What a round leads to: a method is begun in s_start_req only.            *)
Home == IF p.state \in {"s_start_req", "s_req_method"} THEN States
        ELSE States \ {"s_req_method"}

LEMMA HomeStates == Home \subseteq States /\ (p.state \in States => p.state \in Home)
BY DEF Home

(* A struct with all its fields typed, and a status code that fits.         *)
Proper(q) == Struct(q) /\ Typed(q) /\ q.status <= 999 /\ q.state \in Home

-----------------------------------------------------------------------------
(* The two parts of the type of a struct.                                   *)
LEMMA ParserIs ==
    ASSUME NEW q, Struct(q), Typed(q)
    PROVE  q \in Parser
<1>1. MaxStatus \in Nat /\ q.status \in Nat /\ q.status <= MaxStatus
  BY DEF Typed, MaxStatus
<1>2. q.status \in 0..MaxStatus
  BY <1>1
<1> QED BY <1>2 DEF Parser, Struct, Typed

(* One lemma per field that some round writes.                              *)
LEMMA StateProper ==
    ASSUME NEW q, Proper(q), NEW v \in Home
    PROVE  Proper([q EXCEPT !.state = v])
<1> DEFINE r == [q EXCEPT !.state = v]
<1>1. /\ r.type = q.type /\ r.state = v /\ r.header = q.header /\ r.flags = q.flags
      /\ r.length = q.length /\ r.nread = q.nread /\ r.method = q.method /\ r.index = q.index
      /\ r.http11 = q.http11 /\ r.status = q.status /\ r.upgrade = q.upgrade /\ r.errno = q.errno
  BY DEF Proper, Struct
<1>2. Struct(r)
  BY DEF Proper, Struct
<1> HIDE DEF r
<1>3. Typed(r) /\ r.status <= 999 /\ r.state \in Home
  BY <1>1, HomeStates DEF Proper, Typed
<1> QED BY <1>2, <1>3 DEF r, Proper

LEMMA HeaderProper ==
    ASSUME NEW q, Proper(q), NEW v \in HeaderStates
    PROVE  Proper([q EXCEPT !.header = v])
<1> DEFINE r == [q EXCEPT !.header = v]
<1>1. /\ r.type = q.type /\ r.state = q.state /\ r.header = v /\ r.flags = q.flags
      /\ r.length = q.length /\ r.nread = q.nread /\ r.method = q.method /\ r.index = q.index
      /\ r.http11 = q.http11 /\ r.status = q.status /\ r.upgrade = q.upgrade /\ r.errno = q.errno
  BY DEF Proper, Struct
<1>2. Struct(r)
  BY DEF Proper, Struct
<1> HIDE DEF r
<1>3. Typed(r) /\ r.status <= 999 /\ r.state \in Home
  BY <1>1 DEF Proper, Typed
<1> QED BY <1>2, <1>3 DEF r, Proper

LEMMA FlagsProper ==
    ASSUME NEW q, Proper(q), NEW v, v \subseteq Flags
    PROVE  Proper([q EXCEPT !.flags = v])
<1> DEFINE r == [q EXCEPT !.flags = v]
<1>1. /\ r.type = q.type /\ r.state = q.state /\ r.header = q.header /\ r.flags = v
      /\ r.length = q.length /\ r.nread = q.nread /\ r.method = q.method /\ r.index = q.index
      /\ r.http11 = q.http11 /\ r.status = q.status /\ r.upgrade = q.upgrade /\ r.errno = q.errno
  BY DEF Proper, Struct
<1>2. Struct(r)
  BY DEF Proper, Struct
<1> HIDE DEF r
<1>3. Typed(r) /\ r.status <= 999 /\ r.state \in Home
  BY <1>1 DEF Proper, Typed
<1> QED BY <1>2, <1>3 DEF r, Proper

LEMMA LengthProper ==
    ASSUME NEW q, Proper(q), NEW v \in 0..MaxLength
    PROVE  Proper([q EXCEPT !.length = v])
<1> DEFINE r == [q EXCEPT !.length = v]
<1>1. /\ r.type = q.type /\ r.state = q.state /\ r.header = q.header /\ r.flags = q.flags
      /\ r.length = v /\ r.nread = q.nread /\ r.method = q.method /\ r.index = q.index
      /\ r.http11 = q.http11 /\ r.status = q.status /\ r.upgrade = q.upgrade /\ r.errno = q.errno
  BY DEF Proper, Struct
<1>2. Struct(r)
  BY DEF Proper, Struct
<1> HIDE DEF r
<1>3. Typed(r) /\ r.status <= 999 /\ r.state \in Home
  BY <1>1 DEF Proper, Typed
<1> QED BY <1>2, <1>3 DEF r, Proper

LEMMA NreadProper ==
    ASSUME NEW q, Proper(q), NEW v \in 0..2
    PROVE  Proper([q EXCEPT !.nread = v])
<1> DEFINE r == [q EXCEPT !.nread = v]
<1>1. /\ r.type = q.type /\ r.state = q.state /\ r.header = q.header /\ r.flags = q.flags
      /\ r.length = q.length /\ r.nread = v /\ r.method = q.method /\ r.index = q.index
      /\ r.http11 = q.http11 /\ r.status = q.status /\ r.upgrade = q.upgrade /\ r.errno = q.errno
  BY DEF Proper, Struct
<1>2. Struct(r)
  BY DEF Proper, Struct
<1> HIDE DEF r
<1>3. Typed(r) /\ r.status <= 999 /\ r.state \in Home
  BY <1>1 DEF Proper, Typed
<1> QED BY <1>2, <1>3 DEF r, Proper

LEMMA MethodProper ==
    ASSUME NEW q, Proper(q), NEW v \in Methods \cup {"other"}
    PROVE  Proper([q EXCEPT !.method = v])
<1> DEFINE r == [q EXCEPT !.method = v]
<1>1. /\ r.type = q.type /\ r.state = q.state /\ r.header = q.header /\ r.flags = q.flags
      /\ r.length = q.length /\ r.nread = q.nread /\ r.method = v /\ r.index = q.index
      /\ r.http11 = q.http11 /\ r.status = q.status /\ r.upgrade = q.upgrade /\ r.errno = q.errno
  BY DEF Proper, Struct
<1>2. Struct(r)
  BY DEF Proper, Struct
<1> HIDE DEF r
<1>3. Typed(r) /\ r.status <= 999 /\ r.state \in Home
  BY <1>1 DEF Proper, Typed
<1> QED BY <1>2, <1>3 DEF r, Proper

LEMMA IndexProper ==
    ASSUME NEW q, Proper(q), NEW v \in Nat
    PROVE  Proper([q EXCEPT !.index = v])
<1> DEFINE r == [q EXCEPT !.index = v]
<1>1. /\ r.type = q.type /\ r.state = q.state /\ r.header = q.header /\ r.flags = q.flags
      /\ r.length = q.length /\ r.nread = q.nread /\ r.method = q.method /\ r.index = v
      /\ r.http11 = q.http11 /\ r.status = q.status /\ r.upgrade = q.upgrade /\ r.errno = q.errno
  BY DEF Proper, Struct
<1>2. Struct(r)
  BY DEF Proper, Struct
<1> HIDE DEF r
<1>3. Typed(r) /\ r.status <= 999 /\ r.state \in Home
  BY <1>1 DEF Proper, Typed
<1> QED BY <1>2, <1>3 DEF r, Proper

LEMMA Http11Proper ==
    ASSUME NEW q, Proper(q), NEW v \in BOOLEAN
    PROVE  Proper([q EXCEPT !.http11 = v])
<1> DEFINE r == [q EXCEPT !.http11 = v]
<1>1. /\ r.type = q.type /\ r.state = q.state /\ r.header = q.header /\ r.flags = q.flags
      /\ r.length = q.length /\ r.nread = q.nread /\ r.method = q.method /\ r.index = q.index
      /\ r.http11 = v /\ r.status = q.status /\ r.upgrade = q.upgrade /\ r.errno = q.errno
  BY DEF Proper, Struct
<1>2. Struct(r)
  BY DEF Proper, Struct
<1> HIDE DEF r
<1>3. Typed(r) /\ r.status <= 999 /\ r.state \in Home
  BY <1>1 DEF Proper, Typed
<1> QED BY <1>2, <1>3 DEF r, Proper

LEMMA StatusProper ==
    ASSUME NEW q, Proper(q), NEW v \in Nat, v <= 999
    PROVE  Proper([q EXCEPT !.status = v])
<1> DEFINE r == [q EXCEPT !.status = v]
<1>1. /\ r.type = q.type /\ r.state = q.state /\ r.header = q.header /\ r.flags = q.flags
      /\ r.length = q.length /\ r.nread = q.nread /\ r.method = q.method /\ r.index = q.index
      /\ r.http11 = q.http11 /\ r.status = v /\ r.upgrade = q.upgrade /\ r.errno = q.errno
  BY DEF Proper, Struct
<1>2. Struct(r)
  BY DEF Proper, Struct
<1> HIDE DEF r
<1>3. Typed(r) /\ r.status <= 999 /\ r.state \in Home
  BY <1>1 DEF Proper, Typed
<1> QED BY <1>2, <1>3 DEF r, Proper

LEMMA UpgradeProper ==
    ASSUME NEW q, Proper(q), NEW v \in BOOLEAN
    PROVE  Proper([q EXCEPT !.upgrade = v])
<1> DEFINE r == [q EXCEPT !.upgrade = v]
<1>1. /\ r.type = q.type /\ r.state = q.state /\ r.header = q.header /\ r.flags = q.flags
      /\ r.length = q.length /\ r.nread = q.nread /\ r.method = q.method /\ r.index = q.index
      /\ r.http11 = q.http11 /\ r.status = q.status /\ r.upgrade = v /\ r.errno = q.errno
  BY DEF Proper, Struct
<1>2. Struct(r)
  BY DEF Proper, Struct
<1> HIDE DEF r
<1>3. Typed(r) /\ r.status <= 999 /\ r.state \in Home
  BY <1>1 DEF Proper, Typed
<1> QED BY <1>2, <1>3 DEF r, Proper

LEMMA ErrnoProper ==
    ASSUME NEW q, Proper(q), NEW v \in Errnos
    PROVE  Proper([q EXCEPT !.errno = v])
<1> DEFINE r == [q EXCEPT !.errno = v]
<1>1. /\ r.type = q.type /\ r.state = q.state /\ r.header = q.header /\ r.flags = q.flags
      /\ r.length = q.length /\ r.nread = q.nread /\ r.method = q.method /\ r.index = q.index
      /\ r.http11 = q.http11 /\ r.status = q.status /\ r.upgrade = q.upgrade /\ r.errno = v
  BY DEF Proper, Struct
<1>2. Struct(r)
  BY DEF Proper, Struct
<1> HIDE DEF r
<1>3. Typed(r) /\ r.status <= 999 /\ r.state \in Home
  BY <1>1 DEF Proper, Typed
<1> QED BY <1>2, <1>3 DEF r, Proper

(* What most rounds do to a struct.                                         *)
LEMMA Alters ==
    ASSUME NEW q, Proper(q)
    PROVE  /\ \A s \in Home : Proper(InState(q, s))
           /\ \A e \in Errnos : Proper(Erroneous(q, e))
           /\ Proper(Recount(q)) /\ Proper(WithFlag(q))
           /\ Proper(NewMessage(q))
<1>1. \A s \in Home : Proper(InState(q, s))
  BY StateProper DEF InState
<1>4. \A e \in Errnos : Proper(Erroneous(q, e))
  BY ErrnoProper DEF Erroneous
<1>5. Proper(Recount(q))
  <2> DEFINE v == 0
  <2>1. v \in 0..2 /\ Recount(q) = [q EXCEPT !.nread = v]
    BY DEF Recount
  <2> HIDE DEF v
  <2> QED BY <2>1, NreadProper
<1>2. Proper(WithFlag(q))
  <2>1. q.header \in HeaderStates /\ q.flags \subseteq Flags
    BY DEF Proper, Struct
  <2>2. FlagOf[q.header] \subseteq Flags
    BY <2>1 DEF FlagOf, Flags
  <2>3. q.flags \cup FlagOf[q.header] \subseteq Flags
    BY <2>1, <2>2
  <2> QED BY <2>3, FlagsProper DEF WithFlag
<1>3. Proper(NewMessage(q))
  <2>1. {"s_start_req", "s_start_res", "s_dead"} \subseteq Home
    BY DEF States, Home
  <2> QED BY <1>1, <2>1 DEF NewMessage, StartState
<1> QED BY <1>1, <1>2, <1>3, <1>4, <1>5

(* The digits of a number, and the characters of a header's value.          *)
LEMMA DigitProper ==
    ASSUME NEW q, Proper(q), NEW base \in {10, 16}, NEW d, d.v \in 0..(base - 1),
           q.errno = "OK"
    PROVE  Proper(AddDigit(q, base, d))
<1>1. CASE (MaxLength - base) \div base < q.length
  BY <1>1, Alters DEF AddDigit, Errnos
<1>2. CASE ~((MaxLength - base) \div base < q.length)
  <2> DEFINE n == (q.length * base + d.v) % (MaxLength + 1)
  <2>1. n \in 0..MaxLength
    <3>1. q.length \in 0..MaxLength /\ MaxLength \in Nat
      BY MaxLengthAssumption DEF Proper, Struct
    <3>2. q.length * base + d.v \in Nat
      BY <3>1
    <3> QED BY <3>1, <3>2
  <2>2. AddDigit(q, base, d) = [q EXCEPT !.length = n]
    BY <1>2 DEF AddDigit
  <2> HIDE DEF n
  <2> QED BY <2>1, <2>2, LengthProper
<1> QED BY <1>1, <1>2

LEMMA ValueProper ==
    ASSUME NEW q, Proper(q), q.errno = "OK", NEW c, TokenOK(c)
    PROVE  Proper(Value(q, c)) /\ Proper(ValueStart(q, c))
<1>1. \A h \in HeaderStates : /\ Proper([q EXCEPT !.header = h])
                               /\ Proper([WithFlag(q) EXCEPT !.header = h])
  BY HeaderProper, Alters
<1>2. /\ ConnectionItem(c) \in HeaderStates
      /\ {"h_general", "h_matching_connection_token_start", "h_matching_connection_token",
          "h_transfer_encoding_chunked"} \subseteq HeaderStates
      /\ {"INVALID_CONTENT_LENGTH", "UNEXPECTED_CONTENT_LENGTH"} \subseteq Errnos
      /\ {"F_UPGRADE", "F_CONTENTLENGTH"} \subseteq Flags
      /\ "s_header_value" \in Home
  BY ConnectionItemType DEF HeaderStates, Errnos, Flags, States, Home
<1>3. Proper(Value(q, c))
  <2>1. CASE q.header = "h_content_length"
    <3>1. IsDecimal(c) => Proper(AddDigit(q, 10, c))
      BY DigitProper DEF IsDecimal, TokenOK
    <3>2. \/ Value(q, c) = q
          \/ Value(q, c) = Erroneous(q, "INVALID_CONTENT_LENGTH")
          \/ IsDecimal(c) /\ Value(q, c) = AddDigit(q, 10, c)
      BY <2>1 DEF Value
    <3> QED BY <1>2, <3>1, <3>2, Alters
  <2>2. CASE q.header = "h_matching_connection_token_start"
    BY <1>1, <1>2, <2>2 DEF Value
  <2>3. CASE q.header = "h_matching_connection_token"
    BY <1>1, <1>2, <2>3 DEF Value
  <2>4. CASE q.header = "h_transfer_encoding_chunked"
    BY <1>1, <1>2, <2>4 DEF Value
  <2>5. CASE q.header \in {"h_connection_keep_alive", "h_connection_close",
                           "h_connection_upgrade"}
    BY <1>1, <1>2, <2>5 DEF Value
  <2>6. CASE q.header \notin {"h_content_length", "h_matching_connection_token_start",
                              "h_matching_connection_token", "h_matching_connection_word",
                              "h_transfer_encoding_chunked",
                              "h_connection_keep_alive", "h_connection_close",
                              "h_connection_upgrade"}
    BY <2>6 DEF Value
  <2>7. CASE q.header = "h_matching_connection_word"
    BY <1>1, <1>2, <2>7 DEF Value
  <2> QED BY <2>1, <2>2, <2>3, <2>4, <2>5, <2>6, <2>7
<1>4. Proper(ValueStart(q, c))
  <2> DEFINE s == InState(q, "s_header_value")
  <2>1. Proper(s)
    BY <1>2, Alters
  <2>2. \A h \in HeaderStates : Proper([s EXCEPT !.header = h])
    <3> HIDE DEF s
    <3> QED BY <2>1, HeaderProper
  <2>3. CASE q.header = "h_upgrade"
    <3> DEFINE g == [s EXCEPT !.header = "h_general"]
    <3>1. ValueStart(q, c) = [g EXCEPT !.flags = @ \cup {"F_UPGRADE"}]
      BY <2>3 DEF ValueStart
    <3>2. Proper(g)
      BY <1>2, <2>2
    <3> HIDE DEF g
    <3>3. g.flags \cup {"F_UPGRADE"} \subseteq Flags
      BY <1>2, <3>2 DEF Proper, Struct
    <3> QED BY <3>1, <3>2, <3>3, FlagsProper
  <2>4. CASE q.header = "h_content_length"
    <3>1. CASE ~IsDecimal(c)
      <4>1. ValueStart(q, c) = Erroneous(s, "INVALID_CONTENT_LENGTH")
        BY <2>4, <3>1 DEF ValueStart
      <4> HIDE DEF s
      <4> QED BY <1>2, <2>1, <4>1, Alters
    <3>2. CASE IsDecimal(c) /\ "F_CONTENTLENGTH" \in q.flags
      <4>1. ValueStart(q, c) = Erroneous(s, "UNEXPECTED_CONTENT_LENGTH")
        BY <2>4, <3>2 DEF ValueStart
      <4> HIDE DEF s
      <4> QED BY <1>2, <2>1, <4>1, Alters
    <3>3. CASE IsDecimal(c) /\ "F_CONTENTLENGTH" \notin q.flags
      <4> DEFINE g == [s EXCEPT !.flags = s.flags \cup {"F_CONTENTLENGTH"}]
      <4>1. ValueStart(q, c) = [g EXCEPT !.length = c.v]
        BY <2>4, <3>3 DEF ValueStart
      <4>2. s.flags \cup {"F_CONTENTLENGTH"} \subseteq Flags
        <5> HIDE DEF s
        <5> QED BY <1>2, <2>1 DEF Proper, Struct
      <4>3. Proper(g)
        <5> HIDE DEF s
        <5> QED BY <2>1, <4>2, FlagsProper
      <4>4. c.v \in 0..MaxLength
        BY <3>3, MaxLengthAssumption DEF IsDecimal, TokenOK
      <4> HIDE DEF g
      <4> QED BY <4>1, <4>3, <4>4, LengthProper
    <3> QED BY <3>1, <3>2, <3>3
  <2>5. CASE q.header \notin {"h_upgrade", "h_content_length"}
    <3>1. ValueStart(q, c) = s \/ \E h \in HeaderStates : ValueStart(q, c) = [s EXCEPT !.header = h]
      BY <1>2, <2>5 DEF ValueStart
    <3> HIDE DEF s
    <3> QED BY <2>1, <2>2, <3>1
  <2> QED BY <2>3, <2>4, <2>5
<1> QED BY <1>3, <1>4

-----------------------------------------------------------------------------
Calls == {"idle", "running", "done"}

Events == {"none", "begun", "headers", "complete"}

(* An error may leave a number of four digits behind.                       *)
Fields ==
    /\ Typed(p) /\ (Live => p.status <= 999)
    /\ call \in Calls
    /\ exact \in Nat /\ word \in Seq(Letters)
    /\ phase \in {"begun", "headers", "complete"} /\ kept \in BOOLEAN
    /\ event \in Events

(* What a round leaves.                                                     *)
Round == Proper(p') /\ call' \in Calls

(* The ways in which a round ends.                                          *)
Finishes(q) ==
    \/ Consume(q) \/ Reexecute(q) \/ Result(q) \/ Error(q)
    \/ CallsBack(q) \/ CallsBackNoAdvance(q) \/ CallsBackAndReturns(q)
    \/ CallsBackData(q)
    \/ \E e \in Errnos : Error(Erroneous(q, e))

(* However a round ends with a proper struct, it leaves one.                 *)
LEMMA RoundEnds ==
    ASSUME call = "running", NEW q, Proper(q), Finishes(q)
    PROVE  Round
<1>1. \A r \in Outcomes : Proper(Erroneous(q, r))
  <2>1. Outcomes \subseteq Errnos
    BY ParserAssumption DEF Errnos
  <2> QED BY <2>1, Alters
<1>2. CASE Consume(q) \/ Reexecute(q)
  BY <1>2 DEF Consume, Reexecute, Round, Calls
<1>3. \A r : Proper(r) /\ Error(r) => Round
  BY DEF Error, Round, Calls
<1>4. CASE Error(q) \/ Result(q) \/ \E e \in Errnos : Error(Erroneous(q, e))
  BY <1>2, <1>3, <1>4, Alters DEF Result
<1>5. CASE CallsBack(q)
  BY <1>1, <1>5 DEF CallsBack, Round, Calls
<1>6. CASE CallsBackNoAdvance(q)
  BY <1>1, <1>6 DEF CallsBackNoAdvance, Round, Calls
<1>7. CASE CallsBackAndReturns(q)
  BY <1>1, <1>7 DEF CallsBackAndReturns, Round, Calls
<1>8. CASE CallsBackData(q)
  BY <1>2, <1>5, <1>8 DEF CallsBackData
<1> QED BY <1>2, <1>4, <1>5, <1>6, <1>7, <1>8 DEF Finishes

LEMMA RunningProper ==
    ASSUME IInv, Fields, call = "running"
    PROVE  Proper(p) /\ p.errno = "OK" /\ TokenOK(ch)
BY HomeStates DEF IInv, Call, Fields, Live, Proper, Typed

(* A round that fails, or leaves the struct as it is but for its state.     *)
Simple ==
    \/ \E e \in Errnos : Fails(e)
    \/ \E q : /\ q = p \/ \E s \in Home : q = InState(p, s)
              /\ Finishes(q)

LEMMA SimpleRound ==
    ASSUME IInv, Fields, call = "running", Simple
    PROVE  Round
<1>1. Proper(p)
  BY RunningProper
<1>2. CASE \E e \in Errnos : Fails(e)
  BY <1>1, <1>2, RoundEnds DEF Fails, Finishes
<1>3. CASE \E q : /\ q = p \/ \E s \in Home : q = InState(p, s)
                  /\ Finishes(q)
  BY <1>1, <1>3, RoundEnds, Alters
<1> QED BY <1>2, <1>3 DEF Simple

LEMMA StatesAre ==
    /\ UrlStates \cup DOMAIN After \subseteq Home
    /\ \A s \in DOMAIN After : After[s] \in Home
BY DEF States, Home, After, UrlStates

(* The rounds that write only the state or the errno.                       *)
LEMMA SimpleRounds ==
    ASSUME IInv, Fields,
           \/ Dead \/ ReqSpacesBeforeUrl \/ ReqHttpStart \/ Http \/ HttpDot
           \/ ReqHttpEnd \/ LineAlmostDone \/ ResHttpEnd \/ ResStatusStart \/ ResStatus
           \/ HeaderValueDiscardWsAlmostDone \/ HeaderAlmostDone
           \/ BodyIdentityEof \/ ChunkParameters \/ ChunkDataAlmostDone
    PROVE  Round
<1>1. {"CLOSED_CONNECTION", "INVALID_URL", "INVALID_CONSTANT", "STRICT",
       "INVALID_VERSION", "LF_EXPECTED"} \subseteq Errnos
  BY DEF Errnos
<1>2. CASE Dead \/ ReqHttpStart \/ ReqHttpEnd \/ LineAlmostDone \/ ResHttpEnd
           \/ HeaderValueDiscardWsAlmostDone \/ HeaderAlmostDone
  <2>1. call = "running"
    BY <1>2 DEF Dead, ReqHttpStart, ReqHttpEnd, LineAlmostDone, ResHttpEnd,
           HeaderValueDiscardWsAlmostDone, HeaderAlmostDone, At
  <2>2. {"s_req_http_H", "s_req_line_almost_done", "s_header_field_start",
         "s_res_first_status_code", "s_header_value_discard_lws",
         "s_header_value_lws"} \subseteq Home
    BY StatesAre DEF States, Home, After
  <2>3. \/ Consume(p)
        \/ \E s \in Home : Consume(InState(p, s))
        \/ \E e \in Errnos : Fails(e)
    BY <1>1, <1>2, <2>2 DEF Dead, ReqHttpStart, ReqHttpEnd, LineAlmostDone, ResHttpEnd,
           HeaderValueDiscardWsAlmostDone, HeaderAlmostDone
  <2>4. Simple
    BY <2>3 DEF Simple, Finishes
  <2> QED BY <2>1, <2>4, SimpleRound
<1>3. CASE Http \/ HttpDot
  <2>1. call = "running" /\ p.state \in DOMAIN After
    BY <1>3 DEF Http, HttpDot, At, After
  <2>2. \/ Consume(InState(p, After[p.state]))
        \/ \E e \in Errnos : Fails(e)
    BY <1>1, <1>3 DEF Http, HttpDot
  <2>3. Simple
    BY <2>1, <2>2, StatesAre DEF Simple, Finishes
  <2> QED BY <2>1, <2>3, SimpleRound
<1>4. CASE ReqSpacesBeforeUrl
  <2>1. call = "running"
    BY <1>4 DEF ReqSpacesBeforeUrl, At
  <2>2. Consume(p) \/ \E s, n : UrlChar(parse_url_char(s, ch), n)
    BY <1>4 DEF ReqSpacesBeforeUrl
  <2>3. \A s, n : UrlChar(parse_url_char(s, ch), n) => Round
    <3> SUFFICES ASSUME NEW s \in Home, NEW n, UrlChar(s, n) PROVE Round
      BY UrlCharStates, StatesAre DEF States, Home
    <3>1. Proper(InState(p, s))
      BY <2>1, RunningProper, Alters
    <3>2. Finishes(InState(p, s))
      BY <1>1 DEF UrlChar, Finishes
    <3> QED BY <2>1, <3>1, <3>2, RoundEnds
  <2> QED BY <2>1, <2>2, <2>3, SimpleRound DEF Simple, Finishes
<1>5. CASE ResStatusStart \/ ResStatus \/ BodyIdentityEof \/ ChunkParameters
           \/ ChunkDataAlmostDone
  <2>1. call = "running"
    BY <1>5 DEF ResStatusStart, ResStatus, BodyIdentityEof, ChunkParameters,
           ChunkDataAlmostDone, At
  <2>2. {"s_res_status", "s_res_line_almost_done", "s_header_field_start",
         "s_chunk_size_almost_done", "s_chunk_data_done"} \subseteq Home
    BY DEF States, Home
  <2>3. \/ Consume(p)
        \/ \E s \in Home : \/ Consume(InState(p, s)) \/ Reexecute(InState(p, s))
                             \/ CallsBackData(InState(p, s))
        \/ \E e \in Errnos : Fails(e)
    BY <1>1, <1>5, <2>2 DEF ResStatusStart, ResStatus, BodyIdentityEof, ChunkParameters,
           ChunkDataAlmostDone
  <2>4. Simple
    BY <2>3 DEF Simple, Finishes
  <2> QED BY <2>1, <2>4, SimpleRound
<1> QED BY <1>2, <1>3, <1>4, <1>5

LEMMA GuessesAre ==
    /\ \A l \in DOMAIN Guess : Guess[l] \in Methods
    /\ \A m, i, l : Corrected(m, i, l) \subseteq Methods
<1>1. \A l \in DOMAIN Guess : Guess[l] \in Methods
  BY DEF Guess, Methods, Spelling
<1>2. \A c \in Corrections : c[4] \in Methods
  BY DEF Corrections, Methods, Spelling
<1>3. \A m, i, l : Corrected(m, i, l) \subseteq Methods
  BY <1>2 DEF Corrected
<1> QED BY <1>1, <1>3

LEMMA FreshProper ==
    ASSUME Proper(p)
    PROVE  Proper(Fresh)
<1> DEFINE f == {}
           n == MaxLength
           g == [p EXCEPT !.flags = f]
<1>1. Fresh = [g EXCEPT !.length = n] /\ f \subseteq Flags /\ n \in 0..MaxLength
  BY MaxLengthAssumption DEF Fresh
<1> HIDE DEF f, n
<1>2. Proper(g)
  BY <1>1, FlagsProper
<1> HIDE DEF g
<1> QED BY <1>1, <1>2, LengthProper

(* The rounds that write more than the state, the errno or a flag.           *)
LEMMA StartsRound ==
    ASSUME IInv, Fields, StartReq \/ StartRes
    PROVE  Round
<1>1. call = "running"
  BY DEF StartReq, StartRes, At
<1>2. Proper(p) /\ Proper(Fresh)
  BY <1>1, RunningProper, FreshProper
<1>3. {"INVALID_METHOD", "INVALID_CONSTANT"} \subseteq Errnos
  BY DEF Errnos
<1>4. CASE StartReq
  <2>1. CASE Consume(p) \/ Error(Erroneous(Fresh, "INVALID_METHOD"))
    BY <1>1, <1>2, <1>3, <2>1, RoundEnds DEF Finishes
  <2>2. CASE /\ Begins(ch)
             /\ CallsBack([Fresh EXCEPT !.method = Guess[ch.l], !.index = 1,
                                    !.state = "s_req_method"])
    <3> DEFINE m == Guess[ch.l]
               s == "s_req_method"
               i == 1
               a == [Fresh EXCEPT !.method = m]
               b == [a EXCEPT !.index = i]
               q == [b EXCEPT !.state = s]
    <3>1. CallsBack(q)
      BY <2>2
    <3>2. m \in Methods \cup {"other"} /\ s \in Home /\ i \in Nat
      BY <1>4, <2>2, GuessesAre DEF StartReq, At, Begins, States, Home
    <3> HIDE DEF m, i, s
    <3>3. Proper(a)
      BY <1>2, <3>2, MethodProper
    <3> HIDE DEF a
    <3>4. Proper(b)
      BY <3>2, <3>3, IndexProper
    <3> HIDE DEF b
    <3>5. Proper(q)
      BY <3>2, <3>4, StateProper
    <3> HIDE DEF q
    <3> QED BY <1>1, <3>1, <3>5, RoundEnds DEF Finishes
  <2> QED BY <1>4, <2>1, <2>2 DEF StartReq
<1>5. CASE StartRes
  <2> DEFINE q == IF ch = Letter("H") THEN InState(Fresh, "s_res_H") ELSE Fresh
  <2>1. Proper(q)
    <3>1. "s_res_H" \in Home
      BY DEF States, Home, After
    <3> QED BY <1>2, <3>1, Alters
  <2>2. CallsBack(q) \/ Error(Erroneous(q, "INVALID_CONSTANT"))
    BY <1>5 DEF StartRes
  <2> HIDE DEF q
  <2> QED BY <1>1, <1>3, <2>1, <2>2, RoundEnds DEF Finishes
<1> QED BY <1>4, <1>5

LEMMA ReqMethodRound ==
    ASSUME IInv, Fields, ReqMethod
    PROVE  Round
<1>1. call = "running"
  BY DEF ReqMethod, At
<1>2. Proper(p)
  BY <1>1, RunningProper
<1>3. CASE Fails("INVALID_METHOD")
  <2>1. Simple
    BY <1>3 DEF Simple, Errnos
  <2> QED BY <1>1, <2>1, SimpleRound
<1>4. ASSUME NEW m \in Methods \cup {"other"}, NEW i \in Nat,
             \/ Consume([p EXCEPT !.method = m, !.index = i])
             \/ Consume([p EXCEPT !.state = "s_req_spaces_before_url", !.index = i,
                                  !.method = m])
      PROVE  Round
  <2> DEFINE s == "s_req_spaces_before_url"
             a == [p EXCEPT !.method = m]
             b == [a EXCEPT !.index = i]
             q == [b EXCEPT !.state = s]
  <2>1. Consume(b) \/ Consume(q)
    <3>1. CASE Consume([p EXCEPT !.method = m, !.index = i])
      BY <3>1
    <3>2. CASE Consume([p EXCEPT !.state = s, !.index = i, !.method = m])
      <4>1. [p EXCEPT !.state = s, !.index = i, !.method = m] = q
        BY <1>2 DEF Proper, Struct
      <4> QED BY <3>2, <4>1
    <3> QED BY <1>4, <3>1, <3>2
  <2>2. s \in Home
    BY DEF States, Home
  <2> HIDE DEF s
  <2>3. Proper(a)
    BY <1>2, MethodProper
  <2> HIDE DEF a
  <2>4. Proper(b)
    BY <2>3, IndexProper
  <2> HIDE DEF b
  <2>5. Proper(q)
    BY <2>2, <2>4, StateProper
  <2> HIDE DEF q
  <2> QED BY <1>1, <2>1, <2>4, <2>5, RoundEnds DEF Finishes
<1>5. p.method \in Methods \cup {"other"} /\ p.index + 1 \in Nat /\ 0 \in Nat
  BY <1>2 DEF Proper, Typed
<1>6. CASE Consume([p EXCEPT !.state = "s_req_spaces_before_url", !.index = 0,
                             !.method = IF @ = "CONNECT" THEN @ ELSE "other"])
  <2> DEFINE m == IF p.method = "CONNECT" THEN p.method ELSE "other"
  <2>1. m \in Methods \cup {"other"}
    BY <1>5
  <2>2. Consume([p EXCEPT !.state = "s_req_spaces_before_url", !.index = 0, !.method = m])
    BY <1>6
  <2> HIDE DEF m
  <2> QED BY <1>4, <1>5, <2>1, <2>2
<1>7. CASE \E m \in Methods \cup {"other"} :
              Consume([p EXCEPT !.method = m, !.index = @ + 1])
  <2>1. PICK m \in Methods \cup {"other"} : Consume([p EXCEPT !.method = m, !.index = @ + 1])
    BY <1>7
  <2>2. [p EXCEPT !.method = m, !.index = @ + 1] = [p EXCEPT !.method = m, !.index = p.index + 1]
    OBVIOUS
  <2>3. Consume([p EXCEPT !.method = m, !.index = p.index + 1])
    BY <2>1, <2>2
  <2> QED BY <1>4, <1>5, <2>3
<1> DEFINE here == CharAt(p.method, p.index)
           more == IF ch.t # "letter" THEN {}
                   ELSE IF ch.l = here THEN {p.method}
                   ELSE Corrected(p.method, p.index, ch.l)
<1>8. more \subseteq Methods \cup {"other"}
  BY <1>5, GuessesAre
<1>9. \/ Consume([p EXCEPT !.state = "s_req_spaces_before_url", !.index = 0,
                           !.method = IF @ = "CONNECT" THEN @ ELSE "other"])
      \/ \E m \in more : Consume([p EXCEPT !.method = m, !.index = @ + 1])
      \/ Fails("INVALID_METHOD")
  BY DEF ReqMethod
<1> HIDE DEF more
<1> QED BY <1>3, <1>6, <1>7, <1>8, <1>9

LEMMA UrlRound ==
    ASSUME IInv, Fields, Url
    PROVE  Round
<1>1. call = "running"
  BY DEF Url, At
<1>2. Proper(p)
  BY <1>1, RunningProper
<1> DEFINE b == FALSE
           older == [p EXCEPT !.http11 = b]
<1>3. Proper(older)
  <2>1. b \in BOOLEAN
    OBVIOUS
  <2> HIDE DEF b
  <2> QED BY <1>2, <2>1, Http11Proper
<1>4. \/ Fails("INVALID_URL")
      \/ CallsBackData(InState(p, "s_req_http_start"))
      \/ \E s \in {"s_req_line_almost_done", "s_header_field_start"} :
            CallsBackData(InState(older, s))
      \/ \E n : UrlChar(parse_url_char(p.state, ch), n)
  BY DEF Url
<1> HIDE DEF b, older
<1>5. /\ {"s_req_http_start", "s_req_line_almost_done", "s_header_field_start"} \subseteq Home
      /\ "INVALID_URL" \in Errnos
      /\ parse_url_char(p.state, ch) \in Home
  BY UrlCharStates, StatesAre DEF States, Home, Errnos
<1>6. CASE Fails("INVALID_URL")
  BY <1>1, <1>5, <1>6, SimpleRound DEF Simple
<1>7. ASSUME NEW q, Proper(q), CallsBackData(q)
      PROVE  Round
  BY <1>1, <1>7, RoundEnds DEF Finishes
<1>8. CASE \E n : UrlChar(parse_url_char(p.state, ch), n)
  <2> DEFINE s == parse_url_char(p.state, ch)
             q == InState(p, s)
  <2>1. Consume(q) \/ Error(Erroneous(q, "INVALID_URL"))
    BY <1>8 DEF UrlChar
  <2>2. Proper(q)
    BY <1>2, <1>5, Alters
  <2> HIDE DEF q
  <2> QED BY <1>1, <1>5, <2>1, <2>2, RoundEnds DEF Finishes
<1>9. /\ Proper(InState(p, "s_req_http_start"))
      /\ \A s \in {"s_req_line_almost_done", "s_header_field_start"} : Proper(InState(older, s))
  BY <1>2, <1>3, <1>5, Alters
<1> QED BY <1>4, <1>6, <1>7, <1>8, <1>9

LEMMA VersionRound ==
    ASSUME IInv, Fields, HttpMajor \/ HttpMinor
    PROVE  Round
<1>1. call = "running" /\ p.state \in DOMAIN After
  BY DEF HttpMajor, HttpMinor, At, After
<1>2. Proper(p)
  BY <1>1, RunningProper
<1>3. CASE Fails("INVALID_VERSION")
  <2>1. Simple
    BY <1>3 DEF Simple, Errnos
  <2> QED BY <1>1, <2>1, SimpleRound
<1>4. ASSUME NEW b \in BOOLEAN, Consume([p EXCEPT !.http11 = b, !.state = After[p.state]])
      PROVE  Round
  <2> DEFINE s == After[p.state]
             a == [p EXCEPT !.http11 = b]
             q == [a EXCEPT !.state = s]
  <2>1. Consume(q) /\ s \in Home
    BY <1>1, <1>4, StatesAre
  <2> HIDE DEF s
  <2>2. Proper(a)
    BY <1>2, Http11Proper
  <2> HIDE DEF a
  <2>3. Proper(q)
    BY <2>1, <2>2, StateProper
  <2> HIDE DEF q
  <2> QED BY <1>1, <2>1, <2>3, RoundEnds DEF Finishes
<1>5. CASE HttpMajor
  <2> DEFINE b == ch.v > 0
  <2>1. b \in BOOLEAN
    OBVIOUS
  <2>2. Consume([p EXCEPT !.http11 = b, !.state = After[p.state]]) \/ Fails("INVALID_VERSION")
    BY <1>5 DEF HttpMajor
  <2> HIDE DEF b
  <2> QED BY <1>3, <1>4, <2>1, <2>2
<1>6. CASE HttpMinor
  <2> DEFINE b == p.http11 /\ ch.v > 0
  <2>1. b \in BOOLEAN
    OBVIOUS
  <2>2. Consume([p EXCEPT !.http11 = b, !.state = After[p.state]]) \/ Fails("INVALID_VERSION")
    BY <1>6 DEF HttpMinor
  <2> HIDE DEF b
  <2> QED BY <1>3, <1>4, <2>1, <2>2
<1> QED BY <1>5, <1>6

(* A code of four digits is an error.                                       *)
LEMMA StatusRound ==
    ASSUME IInv, Fields, ResFirstStatusCode \/ ResStatusCode
    PROVE  /\ Typed(p') /\ (Live' => p'.status <= 999)
           /\ p'.state \in Home /\ call' \in Calls
<1>1. call = "running"
  BY DEF ResFirstStatusCode, ResStatusCode, At
<1>2. Proper(p) /\ TokenOK(ch) /\ p.errno = "OK"
  BY <1>1, RunningProper
<1>3. {"s_res_status_code", "s_res_status_start"} \subseteq Home /\ "INVALID_STATUS" \in Errnos
  BY DEF States, Home, Errnos
<1>4. ASSUME Round
      PROVE  /\ Typed(p') /\ (Live' => p'.status <= 999)
             /\ p'.state \in Home /\ call' \in Calls
  BY <1>4 DEF Round, Proper
<1>5. CASE \/ Consume(p) \/ Fails("INVALID_STATUS")
           \/ Consume(InState(p, "s_res_status_start"))
           \/ Reexecute(InState(p, "s_res_status_start"))
  <2>1. Simple
    BY <1>3, <1>5 DEF Simple, Finishes
  <2> QED BY <1>1, <1>4, <2>1, SimpleRound
<1>6. CASE ResFirstStatusCode
  <2>1. CASE Consume([p EXCEPT !.status = ch.v, !.state = "s_res_status_code"]) /\ IsDecimal(ch)
    <3> DEFINE v == ch.v
               s == "s_res_status_code"
               a == [p EXCEPT !.status = v]
               q == [a EXCEPT !.state = s]
    <3>1. Consume(q) /\ s \in Home
      BY <1>3, <2>1
    <3>2. v \in Nat /\ v <= 999
      BY <1>2, <2>1 DEF IsDecimal, TokenOK
    <3> HIDE DEF s, v
    <3>3. Proper(a)
      BY <1>2, <3>2, StatusProper
    <3> HIDE DEF a
    <3>4. Proper(q)
      BY <3>1, <3>3, StateProper
    <3> HIDE DEF q
    <3> QED BY <1>1, <1>4, <3>1, <3>4, RoundEnds DEF Finishes
  <2> QED BY <1>5, <1>6, <2>1 DEF ResFirstStatusCode
<1>7. CASE ResStatusCode
  <2> DEFINE n == p.status * 10 + ch.v
             q == [p EXCEPT !.status = n]
  <2>1. CASE IsDecimal(ch) /\ Result(IF n > 999 THEN Erroneous(q, "INVALID_STATUS") ELSE q)
    <3>1. n \in Nat /\ n <= 9999
      <4>1. ch.v \in 0..9
        BY <1>2, <2>1 DEF IsDecimal, TokenOK
      <4>2. p.status \in Nat /\ p.status <= 999
        BY <1>2 DEF Proper, Typed
      <4> QED BY <4>1, <4>2
    <3> HIDE DEF n
    <3>2. CASE n > 999
      <4> DEFINE r == Erroneous(q, "INVALID_STATUS")
      <4>1. /\ r.type = p.type /\ r.state = p.state /\ r.errno = "INVALID_STATUS"
            /\ r.nread = p.nread /\ r.method = p.method /\ r.index = p.index
            /\ r.http11 = p.http11 /\ r.upgrade = p.upgrade /\ r.status = n
        BY <1>2 DEF Proper, Struct, Erroneous
      <4>2. Result(r)
        BY <2>1, <3>2
      <4> HIDE DEF r
      <4>3. Error(r)
        BY <4>1, <4>2 DEF Result
      <4>4. p' = r /\ call' \in Calls
        BY <4>3 DEF Error, Calls
      <4>5. Typed(r)
        BY <1>2, <1>3, <3>1, <4>1 DEF Proper, Typed
      <4>6. ~Live'
        BY <4>1, <4>4 DEF Live
      <4>7. p'.state \in Home
        BY <1>2, <4>1, <4>4 DEF Proper
      <4> QED BY <4>4, <4>5, <4>6, <4>7
    <3>3. CASE ~(n > 999)
      <4>1. n \in Nat /\ n <= 999
        BY <3>1, <3>3
      <4> DEFINE r == IF n > 999 THEN Erroneous(q, "INVALID_STATUS") ELSE q
      <4>3. Result(q)
        <5>1. Result(r)
          BY <2>1
        <5>2. r = q
          BY <3>3
        <5> HIDE DEF r, q
        <5> QED BY <5>1, <5>2
      <4>2. Proper(q)
        BY <1>2, <4>1, StatusProper
      <4> HIDE DEF q
      <4> QED BY <1>1, <1>4, <4>2, <4>3, RoundEnds DEF Finishes
    <3> QED BY <3>2, <3>3
  <2> HIDE DEF q, n
  <2> QED BY <1>5, <1>7, <2>1 DEF ResStatusCode, q, n
<1> QED BY <1>6, <1>7

LEMMA HeaderRound ==
    ASSUME IInv, Fields,
           \/ HeaderFieldStart \/ HeaderValueDiscardWs \/ HeaderValueStart
           \/ HeaderValueDiscardLws \/ HeaderValue \/ HeaderValueLws
    PROVE  Round
<1>1. call = "running"
  BY DEF HeaderFieldStart, HeaderValueDiscardWs, HeaderValueStart,
         HeaderValueDiscardLws, HeaderValue, HeaderValueLws, At
<1>2. Proper(p) /\ TokenOK(ch) /\ p.errno = "OK"
  BY <1>1, RunningProper
<1>3. /\ {"s_headers_almost_done", "s_header_value_discard_ws_almost_done",
          "s_header_value_discard_lws", "s_header_value_discard_ws", "s_header_field_start",
          "s_header_almost_done", "s_header_value_start"} \subseteq Home
      /\ "INVALID_HEADER_TOKEN" \in Errnos
  BY DEF States, Home, Errnos
<1>4. Proper(Value(p, ch)) /\ Proper(ValueStart(p, ch)) /\ Proper(WithFlag(p))
  BY <1>2, ValueProper, Alters
<1>5. CASE HeaderFieldStart
  <2>1. CASE /\ ch.t = "name"
             /\ Consume([p EXCEPT !.header = FieldState[ch.name],
                                  !.state = "s_header_value_discard_ws"])
    <3> DEFINE h == FieldState[ch.name]
               s == "s_header_value_discard_ws"
               a == [p EXCEPT !.header = h]
               q == [a EXCEPT !.state = s]
    <3>1. Consume(q) /\ s \in Home
      BY <1>3, <2>1
    <3>2. h \in HeaderStates
      BY <1>2, <2>1 DEF TokenOK, FieldState, HeaderStates
    <3> HIDE DEF h, s
    <3>3. Proper(a)
      BY <1>2, <3>2, HeaderProper
    <3> HIDE DEF a
    <3>4. Proper(q)
      BY <3>1, <3>3, StateProper
    <3> HIDE DEF q
    <3> QED BY <1>1, <3>1, <3>4, RoundEnds DEF Finishes
  <2>2. CASE \/ Consume(InState(p, "s_headers_almost_done"))
             \/ Reexecute(InState(p, "s_headers_almost_done"))
             \/ Fails("INVALID_HEADER_TOKEN")
    <3>1. Simple
      BY <1>3, <2>2 DEF Simple, Finishes
    <3> QED BY <1>1, <3>1, SimpleRound
  <2> QED BY <1>5, <2>1, <2>2 DEF HeaderFieldStart
<1>6. CASE HeaderValueDiscardWs \/ HeaderValueStart \/ HeaderValue
  <2>1. CASE Result(Value(p, ch)) \/ Result(ValueStart(p, ch))
    BY <1>1, <1>4, <2>1, RoundEnds DEF Finishes
  <2>2. CASE \/ Consume(p) \/ Fails("INVALID_HEADER_TOKEN")
             \/ \E s \in Home : Consume(InState(p, s)) \/ Reexecute(InState(p, s))
    <3>1. Simple
      BY <1>3, <2>2 DEF Simple, Finishes
    <3> QED BY <1>1, <3>1, SimpleRound
  <2> QED BY <1>3, <1>6, <2>1, <2>2 DEF HeaderValueDiscardWs, HeaderValueStart, HeaderValue
<1>7. CASE HeaderValueDiscardLws \/ HeaderValueLws
  <2>1. CASE Reexecute(InState(WithFlag(p), "s_header_field_start"))
    <3>1. Proper(InState(WithFlag(p), "s_header_field_start"))
      BY <1>3, <1>4, Alters
    <3> QED BY <1>1, <2>1, <3>1, RoundEnds DEF Finishes
  <2>2. CASE \E s \in Home : Consume(InState(p, s)) \/ Reexecute(InState(p, s))
    <3>1. Simple
      BY <2>2 DEF Simple, Finishes
    <3> QED BY <1>1, <3>1, SimpleRound
  <2> QED BY <1>3, <1>7, <2>1, <2>2 DEF HeaderValueDiscardLws, HeaderValueLws
<1> QED BY <1>5, <1>6, <1>7

LEMMA HeadersRound ==
    ASSUME IInv, Fields, HeadersAlmostDone \/ HeadersDone
    PROVE  Round
<1>1. call = "running"
  BY DEF HeadersAlmostDone, HeadersDone, At
<1>2. Proper(p) /\ Proper(Recount(p))
  BY <1>1, RunningProper, Alters
<1>3. /\ {"s_message_done", "s_headers_done", "s_chunk_size_start", "s_body_identity",
          "s_body_identity_eof"} \subseteq Home
      /\ {"STRICT", "UNEXPECTED_CONTENT_LENGTH"} \subseteq Errnos
      /\ "F_SKIPBODY" \in Flags
  BY DEF States, Home, Errnos, Flags
<1>4. CASE HeadersAlmostDone
  <2>1. CASE Fails("STRICT") \/ Fails("UNEXPECTED_CONTENT_LENGTH")
             \/ CallsBackNoAdvance(InState(p, "s_message_done"))
    <3>1. Simple
      BY <1>3, <2>1 DEF Simple, Finishes
    <3> QED BY <1>1, <3>1, SimpleRound
  <2>2. CASE HeadersComplete([p EXCEPT !.state = "s_headers_done", !.upgrade = Upgrades(p)])
    <3> DEFINE s == "s_headers_done"
               u == Upgrades(p)
               a == [p EXCEPT !.state = s]
               q == [a EXCEPT !.upgrade = u]
    <3>1. HeadersComplete(q) /\ s \in Home
      BY <1>3, <2>2
    <3>2. u \in BOOLEAN
      BY DEF Upgrades
    <3> HIDE DEF s, u
    <3>3. Proper(a)
      BY <1>2, <3>1, StateProper
    <3> HIDE DEF a
    <3>4. Proper(q)
      BY <3>2, <3>3, UpgradeProper
    <3> HIDE DEF q
    <3>5. PICK upgrade \in {q.upgrade, TRUE} :
            LET skip == [q EXCEPT !.flags = @ \cup {"F_SKIPBODY"}, !.upgrade = upgrade] IN
            \E answer \in {q, skip} : CallsBackNoAdvance(answer)
      BY <3>1 DEF HeadersComplete
    <3> DEFINE f == q.flags \cup {"F_SKIPBODY"}
               g == [q EXCEPT !.flags = f]
               skip == [g EXCEPT !.upgrade = upgrade]
    <3>6. CallsBackNoAdvance(q) \/ CallsBackNoAdvance(skip)
      BY <3>5
    <3>7. upgrade \in BOOLEAN
      <4>1. q.upgrade \in BOOLEAN
        BY <3>4 DEF Proper, Typed
      <4> QED BY <3>5, <4>1
    <3>10. f \subseteq Flags
      BY <1>3, <3>4 DEF Proper, Struct
    <3> HIDE DEF f
    <3>8. Proper(g)
      BY <3>4, <3>10, FlagsProper
    <3> HIDE DEF g
    <3>9. Proper(skip)
      BY <3>7, <3>8, UpgradeProper
    <3> HIDE DEF skip
    <3> QED BY <1>1, <3>4, <3>6, <3>9, RoundEnds DEF Finishes
  <2> QED BY <1>4, <2>1, <2>2 DEF HeadersAlmostDone
<1>5. CASE HeadersDone
  <2> DEFINE q == Recount(p)
             s == IF "F_CHUNKED" \in q.flags THEN "s_chunk_size_start"
                  ELSE IF q.length # MaxLength THEN "s_body_identity"
                  ELSE "s_body_identity_eof"
  <2>1. CASE Fails("STRICT")
    BY <1>1, <1>3, <2>1, SimpleRound DEF Simple
  <2>2. CASE CallsBack(NewMessage(q)) \/ CallsBackAndReturns(NewMessage(q)) \/ Consume(InState(q, s))
    <3>1. s \in Home
      BY <1>3
    <3> HIDE DEF s
    <3>2. Proper(NewMessage(q)) /\ Proper(InState(q, s))
      BY <1>2, <3>1, Alters
    <3> HIDE DEF q
    <3> QED BY <1>1, <2>2, <3>2, RoundEnds DEF Finishes
  <2> QED BY <1>5, <2>1, <2>2 DEF HeadersDone
<1> QED BY <1>4, <1>5

(* What a buffer has of a body: at least the byte at hand.                  *)
LEMMA ToReadBounds ==
    ASSUME IInv, call = "running", ch # None, p.state \in Counts
    PROVE  /\ ToRead \in Nat /\ ToRead >= 1
           /\ ToRead <= p.length /\ ToRead <= left + 1
           /\ p.length - ToRead \in 0..MaxLength
<1>1. p.length \in 0..MaxLength /\ p.length # 0 /\ left \in Nat /\ MaxLength \in Nat
  BY MaxLengthAssumption DEF IInv, Numbers, Struct, Counts
<1> DEFINE n == p.length
           m == left
<1>2. n \in 0..MaxLength /\ n # 0 /\ m \in Nat /\ MaxLength \in Nat
  BY <1>1
<1>3. ToRead = IF n < m + 1 THEN n ELSE m + 1
  BY DEF ToRead, Smaller
<1> HIDE DEF n, m
<1>4. /\ ToRead \in Nat /\ ToRead >= 1 /\ ToRead <= n /\ ToRead <= m + 1
      /\ n - ToRead \in 0..MaxLength
  BY <1>2, <1>3
<1> QED BY <1>4 DEF n, m

LEMMA BodyRound ==
    ASSUME IInv, Fields,
           \/ BodyIdentity \/ MessageDone \/ ChunkData \/ ChunkDataDone
           \/ ChunkSizeStart \/ ChunkSize \/ ChunkSizeAlmostDone
    PROVE  Round
<1>1. call = "running" /\ ch # None
  BY DEF BodyIdentity, MessageDone, ChunkData, ChunkDataDone, ChunkSizeStart,
         ChunkSize, ChunkSizeAlmostDone, At
<1>2. Proper(p) /\ Proper(Recount(p)) /\ TokenOK(ch) /\ p.errno = "OK"
  BY <1>1, RunningProper, Alters
<1>3. /\ {"s_message_done", "s_chunk_size", "s_chunk_size_almost_done", "s_chunk_parameters",
          "s_header_field_start", "s_chunk_data", "s_chunk_data_almost_done",
          "s_chunk_size_start"} \subseteq Home
      /\ {"STRICT", "INVALID_CHUNK_SIZE"} \subseteq Errnos
  BY DEF States, Home, Errnos
<1>4. ASSUME Fails("STRICT") \/ Fails("INVALID_CHUNK_SIZE")
             \/ \E s \in Home : Consume(InState(p, s))
      PROVE  Round
  <2>1. Simple
    BY <1>3, <1>4 DEF Simple, Finishes
  <2> QED BY <1>1, <2>1, SimpleRound
<1>5. CASE BodyIdentity \/ ChunkData
  <2> DEFINE n == p.length - ToRead
             q == [p EXCEPT !.length = n]
  <2>1. n \in 0..MaxLength
    <3>1. p.state \in Counts
      BY <1>5 DEF BodyIdentity, ChunkData, At, Counts
    <3> QED BY <1>1, <3>1, ToReadBounds
  <2>2. \/ Consume(q) \/ CallsBackNoAdvance(InState(q, "s_message_done"))
        \/ Consume(InState(q, "s_chunk_data_almost_done"))
    BY <1>5 DEF BodyIdentity, ChunkData
  <2> HIDE DEF n
  <2>3. Proper(q)
    BY <1>2, <2>1, LengthProper
  <2> HIDE DEF q
  <2>4. Proper(InState(q, "s_message_done")) /\ Proper(InState(q, "s_chunk_data_almost_done"))
    BY <1>3, <2>3, Alters
  <2> QED BY <1>1, <2>2, <2>3, <2>4, RoundEnds DEF Finishes
<1>6. CASE MessageDone
  <2>1. Proper(NewMessage(p))
    BY <1>2, Alters
  <2> QED BY <1>1, <1>6, <2>1, RoundEnds DEF MessageDone, Finishes
<1>7. CASE ChunkSizeStart
  <2>1. CASE ch.t = "digit" /\ Consume([p EXCEPT !.length = ch.v, !.state = "s_chunk_size"])
    <3> DEFINE n == ch.v
               s == "s_chunk_size"
               a == [p EXCEPT !.length = n]
               q == [a EXCEPT !.state = s]
    <3>1. Consume(q) /\ s \in Home
      BY <1>3, <2>1
    <3>2. n \in 0..MaxLength
      BY <1>2, <2>1, MaxLengthAssumption DEF TokenOK
    <3> HIDE DEF n, s
    <3>3. Proper(a)
      BY <1>2, <3>2, LengthProper
    <3> HIDE DEF a
    <3>4. Proper(q)
      BY <3>1, <3>3, StateProper
    <3> HIDE DEF q
    <3> QED BY <1>1, <3>1, <3>4, RoundEnds DEF Finishes
  <2> QED BY <1>4, <1>7, <2>1 DEF ChunkSizeStart
<1>8. CASE ChunkSize
  <2>1. CASE ch.t = "digit" /\ Result(AddDigit(p, 16, ch))
    <3>1. Proper(AddDigit(p, 16, ch))
      BY <1>2, <2>1, DigitProper DEF TokenOK
    <3> QED BY <1>1, <2>1, <3>1, RoundEnds DEF Finishes
  <2> QED BY <1>3, <1>4, <1>8, <2>1 DEF ChunkSize
<1>9. CASE ChunkSizeAlmostDone
  <2> DEFINE q == Recount(p)
             s == "s_header_field_start"
             f == q.flags \cup {"F_TRAILING"}
             g == [q EXCEPT !.flags = f]
             r == [g EXCEPT !.state = s]
  <2>1. Fails("STRICT") \/ CallsBack(r) \/ CallsBack(InState(q, "s_chunk_data"))
    BY <1>9 DEF ChunkSizeAlmostDone
  <2>2. f \subseteq Flags
    <3> HIDE DEF q
    <3> QED BY <1>2 DEF Proper, Struct, Flags, q
  <2>3. Proper(InState(q, "s_chunk_data")) /\ Proper(q) /\ s \in Home
    BY <1>2, <1>3, Alters
  <2> HIDE DEF f, s, q
  <2>4. Proper(g)
    BY <2>2, <2>3, FlagsProper
  <2> HIDE DEF g
  <2>5. Proper(r)
    BY <2>3, <2>4, StateProper
  <2> HIDE DEF r
  <2> QED BY <1>1, <1>4, <2>1, <2>3, <2>5, RoundEnds DEF Finishes
<1>10. CASE ChunkDataDone
  <2>1. Proper(Recount(InState(p, "s_chunk_size_start")))
    BY <1>2, <1>3, Alters
  <2>2. Fails("STRICT") \/ CallsBack(Recount(InState(p, "s_chunk_size_start")))
    BY <1>10 DEF ChunkDataDone
  <2> QED BY <1>1, <1>4, <2>1, <2>2, RoundEnds DEF Finishes
<1> QED BY <1>5, <1>6, <1>7, <1>8, <1>9, <1>10

(* What happens outside the rounds.                                         *)
LEMMA OuterFields ==
    ASSUME IInv, Fields, Execute \/ ExecuteEof \/ Unpause \/ Load \/ Flush
    PROVE  Typed(p') /\ (Live' => p'.status <= 999) /\ call' \in Calls
<1>1. call' \in Calls
  BY DEF Execute, ExecuteEof, Unpause, Load, Flush, Error, Fields, Calls
<1>2. Proper(p') => Typed(p') /\ p'.status <= 999
  BY DEF Proper
<1>3. Outcomes \cup {"OK", "INVALID_EOF_STATE", "HEADER_OVERFLOW"} \subseteq Errnos
  BY ParserAssumption DEF Errnos
<1>4. Live => Proper(p)
  BY HomeStates DEF Fields, IInv, Proper, Typed
<1>5. call = "running" => Live
  BY DEF IInv, Call, Live
<1>6. CASE Execute
  BY <1>1, <1>6 DEF Execute, Fields, Live
<1>7. CASE ExecuteEof
  <2>1. Proper(p)
    BY <1>4, <1>7 DEF ExecuteEof, Live
  <2>2. p' = p \/ \E e \in Errnos : p' = Erroneous(p, e)
    <3>1. CASE p.state = "s_body_identity_eof"
      BY <1>3, <1>7, <3>1 DEF ExecuteEof
    <3>2. CASE p.state # "s_body_identity_eof"
      BY <1>3, <1>7, <3>2 DEF ExecuteEof
    <3> QED BY <3>1, <3>2
  <2> QED BY <1>1, <1>2, <2>1, <2>2, Alters
<1>8. CASE Unpause
  <2>1. Proper(p) /\ p' = Erroneous(p, "OK")
    BY <1>4, <1>8 DEF Unpause, Live
  <2> QED BY <1>1, <1>2, <1>3, <2>1, Alters
<1>9. CASE Load
  <2> DEFINE n == IF p.nread = 2 THEN 2 ELSE p.nread + 1
             q == IF p.state \in BodyStates THEN p ELSE [p EXCEPT !.nread = n]
  <2>1. Proper(p)
    BY <1>4, <1>5, <1>9 DEF Load
  <2>2. n \in 0..2
    BY <2>1 DEF Proper, Typed
  <2>3. p' = q \/ p' = Erroneous(q, "HEADER_OVERFLOW")
    BY <1>9 DEF Load, Error
  <2> HIDE DEF n
  <2>4. Proper(q)
    BY <2>1, <2>2, NreadProper
  <2> HIDE DEF q
  <2> QED BY <1>1, <1>2, <1>3, <2>3, <2>4, Alters
<1>10. CASE Flush
  <2>1. Proper(p) /\ \E r \in Outcomes \cup {"OK"} : p' = Erroneous(p, r)
    BY <1>4, <1>5, <1>10 DEF Flush
  <2> QED BY <1>1, <1>2, <1>3, <2>1, Alters
<1> QED BY <1>6, <1>7, <1>8, <1>9, <1>10

LEMMA StructFields ==
    ASSUME IInv, Fields, [Next]_vars
    PROVE  Typed(p') /\ (Live' => p'.status <= 999) /\ call' \in Calls
<1>1. ASSUME Round
      PROVE  Typed(p') /\ (Live' => p'.status <= 999) /\ call' \in Calls
  BY <1>1 DEF Round, Proper
<1>2. CASE RequestLine
  BY <1>1, <1>2, StartsRound, ReqMethodRound, UrlRound, SimpleRounds DEF RequestLine
<1>3. CASE StatusLine
  BY <1>1, <1>3, StartsRound, StatusRound, SimpleRounds DEF StatusLine
<1>4. CASE Dead \/ Http \/ HttpMajor \/ HttpDot \/ HttpMinor \/ LineAlmostDone
  BY <1>1, <1>4, VersionRound, SimpleRounds
<1>5. CASE Header
  BY <1>1, <1>5, HeaderRound, SimpleRounds DEF Header
<1>6. CASE HeadersAlmostDone \/ HeadersDone
  BY <1>1, <1>6, HeadersRound
<1>7. CASE Body
  BY <1>1, <1>7, BodyRound, SimpleRounds DEF Body
<1>8. CASE Execute \/ ExecuteEof \/ Unpause \/ Load \/ Flush
  BY <1>8, OuterFields
<1>9. CASE UNCHANGED vars
  BY <1>9 DEF vars, Fields, Live
<1> QED BY <1>2, <1>3, <1>4, <1>5, <1>6, <1>7, <1>8, <1>9 DEF Next

-----------------------------------------------------------------------------
(* The variables that record what was read and reported.                    *)
LEMMA Spelled ==
    ASSUME NEW S, NEW s \in Seq(S), NEW l \in S
    PROVE  <<>> \in Seq(S) /\ <<l>> \in Seq(S) /\ Append(s, l) \in Seq(S)
OBVIOUS

LEMMA WordType ==
    ASSUME IInv, Fields, [Next]_vars
    PROVE  word' \in Seq(Letters)
<1>1. word \in Seq(Letters) /\ TokenOK(ch)
  BY DEF Fields, IInv
<1>2. CASE StartReq
  <2>1. word' = word \/ (Begins(ch) /\ word' = <<ch.l>>)
    BY <1>2 DEF StartReq
  <2>2. Begins(ch) => ch.l \in Letters
    BY <1>1 DEF Begins, TokenOK
  <2>3. Begins(ch) => <<ch.l>> \in Seq(Letters)
    BY <1>1, <2>2, Spelled
  <2> QED BY <1>1, <2>1, <2>3
<1>3. CASE ReqMethod
  <2>1. word' = <<>> \/ word' = word \/ (ch.t = "letter" /\ word' = Append(word, ch.l))
    BY <1>3 DEF ReqMethod
  <2>2. ch.t = "letter" => ch.l \in Letters
    BY <1>1 DEF TokenOK
  <2>3. ch.t = "letter" => Append(word, ch.l) \in Seq(Letters)
    BY <1>1, <2>2, Spelled
  <2>4. <<>> \in Seq(Letters)
    BY <1>1, Spelled
  <2> QED BY <1>1, <2>1, <2>3, <2>4
<1>4. CASE word' = word
  BY <1>1, <1>4
<1>5. CASE RequestLine
  BY <1>2, <1>3, <1>4, <1>5 DEF RequestLine, ReqSpacesBeforeUrl, Url, ReqHttpStart,
         ReqHttpEnd, NoNumber, NoData
<1>6. CASE StatusLine
  BY <1>4, <1>6 DEF StatusLine, StartRes, ResHttpEnd, ResFirstStatusCode, ResStatusCode,
         ResStatusStart, ResStatus, NoNumber, NoData
<1>7. CASE Dead \/ Http \/ HttpMajor \/ HttpDot \/ HttpMinor \/ LineAlmostDone
  BY <1>4, <1>7 DEF Dead, Http, HttpMajor, HttpDot, HttpMinor, LineAlmostDone, NoData
<1>8. CASE Header
  BY <1>4, <1>8 DEF Header, HeaderFieldStart, HeaderValueDiscardWs, HeaderValueStart,
         HeaderValueDiscardWsAlmostDone, HeaderValueDiscardLws, HeaderValue,
         HeaderAlmostDone, HeaderValueLws, NoData
<1>9. CASE HeadersAlmostDone \/ HeadersDone
  BY <1>4, <1>9 DEF HeadersAlmostDone, HeadersDone, NoData
<1>10. CASE Body
  BY <1>4, <1>10 DEF Body, BodyIdentity, BodyIdentityEof, MessageDone, ChunkSizeStart,
         ChunkSize, ChunkParameters, ChunkSizeAlmostDone, ChunkData, ChunkDataAlmostDone,
         ChunkDataDone, NoNumber, NoData
<1>11. CASE Execute \/ ExecuteEof \/ Unpause \/ Load \/ Flush
  BY <1>4, <1>11 DEF Execute, ExecuteEof, Unpause, Load, Flush, NoNumber, NoData
<1>12. CASE UNCHANGED vars
  BY <1>4, <1>12 DEF vars
<1> QED BY <1>5, <1>6, <1>7, <1>8, <1>9, <1>10, <1>11, <1>12 DEF Next

LEMMA ExactType ==
    ASSUME IInv, Fields, [Next]_vars
    PROVE  exact' \in Nat
<1>1. exact \in Nat /\ TokenOK(ch)
  BY DEF Fields, IInv
<1>2. CASE exact' = exact \/ exact' = 0
  BY <1>1, <1>2
<1>3. ch.t = "digit" => ch.v \in Nat
  BY <1>1 DEF TokenOK
<1>4. CASE ch.t = "digit" /\ \/ exact' = ch.v \/ exact' = exact * 10 + ch.v
                             \/ exact' = exact * 16 + ch.v
  <2> DEFINE d == ch.v
  <2>1. d \in Nat /\ \/ exact' = d \/ exact' = exact * 10 + d \/ exact' = exact * 16 + d
    BY <1>3, <1>4
  <2> HIDE DEF d
  <2> QED BY <1>1, <2>1
<1>5. CASE HeaderValueDiscardWs
  <2> DEFINE q == ValueStart(p, ch)
  <2>1. exact' = exact \/ (q.errno = "OK" /\ p.header = "h_content_length" /\ exact' = ch.v)
    BY <1>5 DEF HeaderValueDiscardWs, ReadsFirst
  <2>2. Struct(p) /\ p.errno = "OK"
    BY <1>5 DEF IInv, Call, HeaderValueDiscardWs, At
  <2>3. q.errno = "OK" /\ p.header = "h_content_length" => IsDecimal(ch)
    BY <1>1, <2>2, ValueStartFields
  <2> HIDE DEF q
  <2> QED BY <1>2, <1>4, <2>1, <2>3 DEF IsDecimal
<1>6. CASE HeaderValue
  <2>1. exact' = exact \/ (IsDecimal(ch) /\ exact' = exact * 10 + ch.v)
    BY <1>6 DEF HeaderValue
  <2> QED BY <1>2, <1>4, <2>1 DEF IsDecimal
<1>7. CASE ChunkSizeStart \/ ChunkSize
  BY <1>2, <1>4, <1>7 DEF ChunkSizeStart, ChunkSize
<1>8. CASE HeadersDone \/ ChunkSizeAlmostDone
  BY <1>2, <1>8 DEF HeadersDone, ChunkSizeAlmostDone
<1>9. CASE RequestLine
  BY <1>2, <1>9 DEF RequestLine, StartReq, ReqMethod, ReqSpacesBeforeUrl, Url,
         ReqHttpStart, ReqHttpEnd, NoNumber, NoData
<1>10. CASE StatusLine
  BY <1>2, <1>10 DEF StatusLine, StartRes, ResHttpEnd, ResFirstStatusCode, ResStatusCode,
         ResStatusStart, ResStatus, NoNumber, NoData
<1>11. CASE Dead \/ Http \/ HttpMajor \/ HttpDot \/ HttpMinor \/ LineAlmostDone
  BY <1>2, <1>11 DEF Dead, Http, HttpMajor, HttpDot, HttpMinor, LineAlmostDone, NoData
<1>12. CASE Header
  BY <1>2, <1>5, <1>6, <1>12 DEF Header, HeaderFieldStart, HeaderValueStart,
         HeaderValueDiscardWsAlmostDone, HeaderValueDiscardLws, HeaderAlmostDone,
         HeaderValueLws, NoData
<1>13. CASE HeadersAlmostDone
  BY <1>2, <1>13 DEF HeadersAlmostDone, NoData
<1>14. CASE Body
  BY <1>2, <1>7, <1>8, <1>14 DEF Body, BodyIdentity, BodyIdentityEof, MessageDone,
         ChunkParameters, ChunkData, ChunkDataAlmostDone, ChunkDataDone, NoNumber, NoData
<1>15. CASE Execute \/ ExecuteEof \/ Unpause \/ Load \/ Flush
  BY <1>2, <1>15 DEF Execute, ExecuteEof, Unpause, Load, Flush, NoNumber, NoData
<1>16. CASE UNCHANGED vars
  BY <1>2, <1>16 DEF vars
<1> QED BY <1>8, <1>9, <1>10, <1>11, <1>12, <1>13, <1>14, <1>15, <1>16 DEF Next

LEMMA KeptType ==
    ASSUME IInv, Fields, [Next]_vars
    PROVE  kept' \in BOOLEAN
<1>1. kept \in BOOLEAN
  BY DEF Fields
<1>2. CASE kept' = kept
  BY <1>1, <1>2
<1>3. ASSUME NEW q, Completes(q)
      PROVE  kept' \in BOOLEAN
  BY <1>3 DEF Completes, KeepAlive
<1>4. CASE RequestLine
  BY <1>2, <1>4 DEF RequestLine, StartReq, ReqMethod, ReqSpacesBeforeUrl, Url,
         ReqHttpStart, ReqHttpEnd, NoEvent
<1>5. CASE StatusLine
  BY <1>2, <1>5 DEF StatusLine, StartRes, ResHttpEnd, ResFirstStatusCode, ResStatusCode,
         ResStatusStart, ResStatus, NoEvent
<1>6. CASE Dead \/ Http \/ HttpMajor \/ HttpDot \/ HttpMinor \/ LineAlmostDone
  BY <1>2, <1>6 DEF Dead, Http, HttpMajor, HttpDot, HttpMinor, LineAlmostDone, NoEvent
<1>7. CASE Header
  BY <1>2, <1>7 DEF Header, HeaderFieldStart, HeaderValueDiscardWs, HeaderValueStart,
         HeaderValueDiscardWsAlmostDone, HeaderValueDiscardLws, HeaderValue,
         HeaderAlmostDone, HeaderValueLws, NoEvent
<1>8. CASE HeadersAlmostDone
  BY <1>2, <1>8 DEF HeadersAlmostDone, NoEvent
<1>9. CASE HeadersDone
  BY <1>2, <1>3, <1>9 DEF HeadersDone, NoEvent
<1>10. CASE Body
  BY <1>2, <1>3, <1>10 DEF Body, BodyIdentity, BodyIdentityEof, MessageDone,
         ChunkSizeStart, ChunkSize, ChunkParameters, ChunkSizeAlmostDone, ChunkData,
         ChunkDataAlmostDone, ChunkDataDone, NoEvent
<1>11. CASE ExecuteEof
  <2>1. kept' = kept \/ Completes(p)
    <3>1. CASE p.state = "s_body_identity_eof"
      BY <1>11, <3>1 DEF ExecuteEof
    <3>2. CASE p.state # "s_body_identity_eof"
      BY <1>11, <3>2 DEF ExecuteEof, NoEvent
    <3> QED BY <3>1, <3>2
  <2> QED BY <1>2, <1>3, <2>1
<1>12. CASE Execute \/ Unpause \/ Load \/ Flush
  BY <1>2, <1>12 DEF Execute, Unpause, Load, Flush, NoEvent
<1>13. CASE UNCHANGED vars
  BY <1>2, <1>13 DEF vars
<1> QED BY <1>4, <1>5, <1>6, <1>7, <1>8, <1>9, <1>10, <1>11, <1>12, <1>13 DEF Next

LEMMA EventType ==
    ASSUME Fields, [Next]_vars
    PROVE  event' \in Events
<1>1. event \in Events
  BY DEF Fields
<1>2. NoEvent => event' \in Events
  BY DEF NoEvent, Events
<1>3. \A e \in {"begun", "headers", "complete"} : Reports(e) => event' \in Events
  BY DEF Reports, Events
<1>4. \A q : Completes(q) => event' \in Events
  BY DEF Completes, Reports, Events
<1>5. CASE RequestLine
  BY <1>2, <1>3, <1>5 DEF RequestLine, StartReq, ReqMethod, ReqSpacesBeforeUrl, Url,
         ReqHttpStart, ReqHttpEnd
<1>6. CASE StatusLine
  BY <1>2, <1>3, <1>6 DEF StatusLine, StartRes, ResHttpEnd, ResFirstStatusCode,
         ResStatusCode, ResStatusStart, ResStatus
<1>7. CASE Dead \/ Http \/ HttpMajor \/ HttpDot \/ HttpMinor \/ LineAlmostDone
  BY <1>2, <1>7 DEF Dead, Http, HttpMajor, HttpDot, HttpMinor, LineAlmostDone
<1>8. CASE Header
  BY <1>2, <1>8 DEF Header, HeaderFieldStart, HeaderValueDiscardWs, HeaderValueStart,
         HeaderValueDiscardWsAlmostDone, HeaderValueDiscardLws, HeaderValue,
         HeaderAlmostDone, HeaderValueLws
<1>9. CASE HeadersAlmostDone
  BY <1>2, <1>3, <1>9 DEF HeadersAlmostDone
<1>10. CASE HeadersDone
  BY <1>2, <1>4, <1>10 DEF HeadersDone
<1>11. CASE Body
  BY <1>2, <1>4, <1>11 DEF Body, BodyIdentity, BodyIdentityEof, MessageDone,
         ChunkSizeStart, ChunkSize, ChunkParameters, ChunkSizeAlmostDone, ChunkData,
         ChunkDataAlmostDone, ChunkDataDone
<1>12. CASE ExecuteEof
  BY <1>2, <1>4, <1>12 DEF ExecuteEof
<1>13. CASE Execute \/ Unpause \/ Load \/ Flush
  BY <1>2, <1>13 DEF Execute, Unpause, Load, Flush
<1>14. CASE UNCHANGED vars
  BY <1>1, <1>14 DEF vars
<1> QED BY <1>5, <1>6, <1>7, <1>8, <1>9, <1>10, <1>11, <1>12, <1>13, <1>14 DEF Next

LEMMA NextFields == IInv /\ Fields /\ [Next]_vars => Fields'
<1> SUFFICES ASSUME IInv, Fields, [Next]_vars PROVE Fields'
  OBVIOUS
<1>1. phase' \in {"begun", "headers", "complete"}
  BY NextInv DEF IInv, Position
<1> QED BY <1>1, StructFields, WordType, ExactType, KeptType, EventType DEF Fields

(* The buffer and the marks.                                                *)
Counters == left \in 0..MaxBuffer /\ mark \in Nat \cup {NoMark} /\ due \in Nat

LEMMA LeftType ==
    ASSUME IInv, Counters, [Next]_vars
    PROVE  left' \in 0..MaxBuffer
<1>1. left \in 0..MaxBuffer /\ MaxBuffer \in Nat
  BY ParserAssumption DEF Counters
<1>2. CASE left' = left
  BY <1>1, <1>2
<1>3. CASE Execute
  BY <1>1, <1>3 DEF Execute
<1>4. CASE Load
  BY <1>1, <1>4 DEF Load
<1>5. CASE BodyIdentity \/ ChunkData
  <2>1. /\ call = "running" /\ ch # None /\ p.state \in Counts
        /\ left' = left - (ToRead - 1)
    BY <1>5 DEF BodyIdentity, ChunkData, At, Counts
  <2>2. ToRead \in Nat /\ ToRead >= 1 /\ ToRead <= left + 1
    BY <2>1, ToReadBounds
  <2> QED BY <1>1, <2>1, <2>2
<1>6. CASE BodyIdentityEof
  BY <1>1, <1>6 DEF BodyIdentityEof
<1>7. CASE RequestLine
  BY <1>2, <1>7 DEF RequestLine, StartReq, ReqMethod, ReqSpacesBeforeUrl, Url,
         ReqHttpStart, ReqHttpEnd, NoNumber, NoData
<1>8. CASE StatusLine
  BY <1>2, <1>8 DEF StatusLine, StartRes, ResHttpEnd, ResFirstStatusCode, ResStatusCode,
         ResStatusStart, ResStatus, NoNumber, NoData
<1>9. CASE Dead \/ Http \/ HttpMajor \/ HttpDot \/ HttpMinor \/ LineAlmostDone
  BY <1>2, <1>9 DEF Dead, Http, HttpMajor, HttpDot, HttpMinor, LineAlmostDone, NoData
<1>10. CASE Header
  BY <1>2, <1>10 DEF Header, HeaderFieldStart, HeaderValueDiscardWs, HeaderValueStart,
         HeaderValueDiscardWsAlmostDone, HeaderValueDiscardLws, HeaderValue,
         HeaderAlmostDone, HeaderValueLws, NoData
<1>11. CASE HeadersAlmostDone \/ HeadersDone
  BY <1>2, <1>11 DEF HeadersAlmostDone, HeadersDone, NoData
<1>12. CASE Body
  BY <1>2, <1>5, <1>6, <1>12 DEF Body, MessageDone, ChunkSizeStart, ChunkSize,
         ChunkParameters, ChunkSizeAlmostDone, ChunkDataAlmostDone, ChunkDataDone,
         NoNumber, NoData
<1>13. CASE ExecuteEof \/ Unpause \/ Flush
  BY <1>2, <1>13 DEF ExecuteEof, Unpause, Flush, NoNumber, NoData
<1>14. CASE UNCHANGED vars
  BY <1>2, <1>14 DEF vars
<1> QED BY <1>3, <1>4, <1>7, <1>8, <1>9, <1>10, <1>11, <1>12, <1>13, <1>14 DEF Next

(* What is reported is due: the parser never reports more than it has read. *)
Tallies == mark' \in Nat \cup {NoMark} /\ due' \in Nat

LEMMA ReportTallies ==
    ASSUME IInv, DInv, Counters, call = "running", p.state \in Spans,
           mark' = NoMark, due' = due - Held
    PROVE  Tallies
<1>1. due = Held /\ due \in Nat
  BY Running DEF Marks, Counters
<1> QED BY <1>1 DEF Tallies

LEMMA LineTallies ==
    ASSUME IInv, DInv, Counters,
           ReqSpacesBeforeUrl \/ Url \/ ResStatusStart \/ ResStatus
    PROVE  Tallies
<1>1. /\ mark \in Nat \cup {NoMark} /\ due \in Nat /\ Held \in Nat
      /\ Further \in Nat \cup {NoMark}
  BY DEF Counters, Held, Further, NoMark
<1>2. CASE UNCHANGED <<mark, due>>
  BY <1>1, <1>2 DEF Tallies
<1>3. \A s, n : n \in Nat \cup {NoMark} /\ UrlChar(s, n) => Tallies
  BY <1>1 DEF UrlChar, Tallies
<1>4. ASSUME p.state \in MarkedStates, call = "running", NEW q, CallsBackData(q)
      PROVE  Tallies
  BY <1>4, ReportTallies DEF CallsBackData, Spans
<1>5. CASE ReqSpacesBeforeUrl
  <2>1. UNCHANGED <<mark, due>> \/ \E s : UrlChar(s, Held + 1)
    BY <1>5 DEF ReqSpacesBeforeUrl
  <2>2. Held + 1 \in Nat
    BY <1>1
  <2> QED BY <1>2, <1>3, <2>1, <2>2
<1>6. CASE Url
  <2>1. p.state \in MarkedStates /\ call = "running"
    BY <1>6 DEF Url, At, MarkedStates
  <2>2. \/ UNCHANGED <<mark, due>> \/ \E q : CallsBackData(q)
        \/ \E s : UrlChar(s, Further)
    BY <1>6 DEF Url
  <2> QED BY <1>1, <1>2, <1>3, <1>4, <2>1, <2>2
<1>7. CASE ResStatusStart
  <2>1. mark' \in {Held, Held + 1} /\ due' \in {due, due + 1}
    BY <1>7 DEF ResStatusStart
  <2> QED BY <1>1, <2>1 DEF Tallies
<1>8. CASE ResStatus
  <2>1. p.state \in MarkedStates /\ call = "running"
    BY <1>8 DEF ResStatus, At, MarkedStates
  <2>2. (mark' = Further /\ due' = due + 1) \/ \E q : CallsBackData(q)
    BY <1>8 DEF ResStatus
  <2> QED BY <1>1, <1>4, <2>1, <2>2 DEF Tallies
<1> QED BY <1>5, <1>6, <1>7, <1>8

LEMMA BodyTallies ==
    ASSUME IInv, DInv, Fields, Counters,
           BodyIdentity \/ BodyIdentityEof \/ ChunkData \/ ChunkDataAlmostDone
    PROVE  Tallies
<1>1. /\ mark \in Nat \cup {NoMark} /\ due \in Nat /\ Held \in Nat /\ left \in Nat
      /\ call = "running" /\ ch # None
  BY DEF Counters, Held, NoMark, IInv, BodyIdentity, BodyIdentityEof, ChunkData,
         ChunkDataAlmostDone, At
<1>2. CASE BodyIdentity \/ ChunkData
  <2>1. p.state \in Counts
    BY <1>2 DEF BodyIdentity, ChunkData, At, Counts
  <2> DEFINE q == [p EXCEPT !.length = @ - ToRead]
             h == Held + ToRead
  <2>2. q.length \in Nat /\ h \in Nat /\ due = q.length + h
    BY <1>1, <2>1, ReadBytes
  <2>3. mark' \in {h, NoMark} /\ due' \in {due, due - h}
    BY <1>2 DEF BodyIdentity, ChunkData
  <2> HIDE DEF q, h
  <2> QED BY <1>1, <2>2, <2>3 DEF Tallies
<1>3. CASE BodyIdentityEof
  BY <1>1, <1>3 DEF BodyIdentityEof, Tallies
<1>4. CASE ChunkDataAlmostDone
  <2>1. p.state \in Spans
    BY <1>4 DEF ChunkDataAlmostDone, At, Spans
  <2>2. UNCHANGED <<mark, due>> \/ (mark' = NoMark /\ due' = due - Held)
    BY <1>4 DEF ChunkDataAlmostDone, CallsBackData
  <2> QED BY <1>1, <2>1, <2>2, ReportTallies DEF Tallies
<1> QED BY <1>2, <1>3, <1>4

LEMMA OuterTallies ==
    ASSUME IInv, DInv, Counters, Execute \/ Flush
    PROVE  Tallies
<1>1. mark \in Nat \cup {NoMark} /\ due \in Nat /\ Held \in Nat
  BY DEF Counters, Held, NoMark
<1>2. CASE Execute
  BY <1>1, <1>2 DEF Execute, Tallies
<1>3. CASE Flush
  <2>1. Marks /\ p.length \in Nat /\ mark' = NoMark /\ due' = due - Held
    BY <1>3, Running, MaxLengthAssumption DEF Flush, Struct
  <2>2. due = Held \/ due = p.length + Held \/ Held = 0
    BY <2>1 DEF Marks, Busy, Held
  <2> DEFINE n == p.length
             h == Held
  <2>3. n \in Nat /\ h \in Nat /\ due \in Nat /\ (due = h \/ due = n + h \/ h = 0)
    BY <1>1, <2>1, <2>2
  <2>4. mark' = NoMark /\ due' = due - h
    BY <2>1
  <2> HIDE DEF n, h
  <2> QED BY <2>3, <2>4 DEF Tallies
<1> QED BY <1>2, <1>3

LEMMA NextCounters == IInv /\ DInv /\ Fields /\ Counters /\ [Next]_vars => Counters'
<1> SUFFICES ASSUME IInv, DInv, Fields, Counters, [Next]_vars PROVE Tallies
  BY LeftType DEF Counters, Tallies
<1>1. ASSUME UNCHANGED <<mark, due>> PROVE Tallies
  BY <1>1 DEF Counters, Tallies
<1>2. CASE RequestLine
  BY <1>1, <1>2, LineTallies DEF RequestLine, StartReq, ReqMethod, ReqHttpStart,
         ReqHttpEnd, NoData
<1>3. CASE StatusLine
  BY <1>1, <1>3, LineTallies DEF StatusLine, StartRes, ResHttpEnd, ResFirstStatusCode,
         ResStatusCode, NoData
<1>4. CASE Dead \/ Http \/ HttpMajor \/ HttpDot \/ HttpMinor \/ LineAlmostDone
  BY <1>1, <1>4 DEF Dead, Http, HttpMajor, HttpDot, HttpMinor, LineAlmostDone, NoData
<1>5. CASE Header
  BY <1>1, <1>5 DEF Header, HeaderFieldStart, HeaderValueDiscardWs, HeaderValueStart,
         HeaderValueDiscardWsAlmostDone, HeaderValueDiscardLws, HeaderValue,
         HeaderAlmostDone, HeaderValueLws, NoData
<1>6. CASE HeadersDone \/ ChunkSizeAlmostDone
  <2>1. mark' = mark /\ due' \in {due, due + exact}
    BY <1>6 DEF HeadersDone, ChunkSizeAlmostDone
  <2> QED BY <2>1 DEF Fields, Counters, Tallies
<1>7. CASE HeadersAlmostDone
  BY <1>1, <1>7 DEF HeadersAlmostDone, NoData
<1>8. CASE Body
  BY <1>1, <1>6, <1>8, BodyTallies DEF Body, MessageDone, ChunkSizeStart, ChunkSize,
         ChunkParameters, ChunkDataDone, NoData
<1>9. CASE Execute \/ ExecuteEof \/ Unpause \/ Load \/ Flush
  BY <1>1, <1>9, OuterTallies DEF ExecuteEof, Unpause, Load, NoData
<1>10. CASE UNCHANGED vars
  BY <1>1, <1>10 DEF vars
<1> QED BY <1>2, <1>3, <1>4, <1>5, <1>6, <1>7, <1>8, <1>9, <1>10 DEF Next

LEMMA InitFields == Init => Fields /\ Counters
<1> SUFFICES ASSUME Init PROVE Fields /\ Counters
  OBVIOUS
<1>1. PICK type \in Types :
        p = [type |-> type,
             state |-> IF type = "HTTP_REQUEST" THEN "s_start_req" ELSE "s_start_res",
             header |-> "h_general", flags |-> {}, length |-> 0, nread |-> 0,
             method |-> "DELETE", index |-> 0, http11 |-> FALSE, status |-> 0,
             upgrade |-> FALSE, errno |-> "OK"]
  BY DEF Init
<1>2. /\ {"s_start_req", "s_start_res"} \subseteq States /\ "DELETE" \in Methods
      /\ "OK" \in Errnos
  BY DEF States, Methods, Spelling, Errnos
<1>3. /\ p.type = type /\ p.state \in {"s_start_req", "s_start_res"} /\ p.errno = "OK"
      /\ p.nread = 0 /\ p.method = "DELETE" /\ p.index = 0
      /\ p.http11 = FALSE /\ p.upgrade = FALSE /\ p.status = 0
  BY <1>1
<1>4. Typed(p) /\ p.status <= 999
  <2>1. p.nread \in 0..2 /\ p.index \in Nat
    BY <1>3
  <2>2. p.status \in Nat /\ p.status <= 999 /\ p.status <= 9999
    BY <1>3
  <2>3. p.state \in States /\ p.errno \in Errnos /\ p.method \in Methods \cup {"other"}
    BY <1>2, <1>3
  <2>4. p.http11 \in BOOLEAN /\ p.upgrade \in BOOLEAN /\ p.type \in Types
    BY <1>3
  <2> QED BY <2>1, <2>2, <2>3, <2>4 DEF Typed
<1>5. /\ call = "idle" /\ left = 0 /\ mark = NoMark /\ due = 0 /\ word = <<>> /\ exact = 0
      /\ phase = "complete" /\ kept = TRUE /\ event = "none"
  BY DEF Init
<1>6. word \in Seq(Letters)
  BY <1>5
<1>7. 0 \in 0..MaxBuffer
  BY ParserAssumption
<1> QED BY <1>4, <1>5, <1>6, <1>7 DEF Fields, Calls, Counters, Events

(* Every variable has its type in every state: the struct's fields are those*)
(* of its declaration, of a buffer no more is read than it holds, and of    *)
(* what was read no more reported than is due.                              *)
THEOREM ParserTypeCorrect == Spec => []TypeOK
<1>1. Init => IInv /\ DInv /\ Fields /\ Counters
  BY InitInv, InitDelivery, InitFields
<1>2. IInv /\ DInv /\ Fields /\ Counters /\ [Next]_vars => (IInv /\ DInv /\ Fields /\ Counters)'
  BY NextInv, NextDelivery, NextFields, NextCounters
<1>3. IInv /\ DInv /\ Fields /\ Counters => TypeOK
  BY ParserIs DEF IInv, Fields, Calls, Events, Counters, TypeOK
<1> QED BY <1>1, <1>2, <1>3, PTL DEF Spec

-----------------------------------------------------------------------------
(* The methods by their first letter, ...                                   *)
Families ==
    [A |-> {"ACL"}, B |-> {"BIND"}, C |-> {"CONNECT", "COPY", "CHECKOUT"},
     D |-> {"DELETE"}, G |-> {"GET"}, H |-> {"HEAD"}, L |-> {"LOCK", "LINK"},
     M |-> {"MKCOL", "MOVE", "MKACTIVITY", "MERGE", "MSEARCH", "MKCALENDAR"},
     N |-> {"NOTIFY"}, O |-> {"OPTIONS"},
     P |-> {"POST", "PUT", "PROPFIND", "PROPPATCH", "PATCH", "PURGE"},
     R |-> {"REBIND", "REPORT"}, S |-> {"SEARCH", "SUBSCRIBE", "SOURCE"},
     T |-> {"TRACE"}, U |-> {"UNLOCK", "UNBIND", "UNSUBSCRIBE", "UNLINK"}]

(* ... the number of letters read when the parser takes one for its method, *)
(* ...                                                                      *)
Entry(m) ==
    IF m \in {"PUT", "MOVE", "PROPFIND", "SEARCH", "CHECKOUT", "MERGE",
               "MSEARCH", "PATCH", "LINK", "SOURCE"}
    THEN 2
    ELSE IF m \in {"COPY", "REBIND", "UNBIND", "MKACTIVITY", "UNSUBSCRIBE", "PURGE"} THEN 3
    ELSE IF m \in {"MKCALENDAR", "UNLINK"} THEN 4
    ELSE IF m \in {"PROPPATCH"} THEN 5
    ELSE 1

(* ... and where two of them part: at a letter with which either corrects   *)
(* the other, or that was read before it is taken.                          *)
Covers(m, n, k) == k < Entry(m) \/ Corrected(m, k, CharAt(n, k)) # {}

Part(m, n, k) ==
    /\ CharAt(m, k) # CharAt(n, k)
    /\ \A j \in 0..(k - 1) : CharAt(m, j) = CharAt(n, j)
    /\ Covers(m, n, k) /\ Covers(n, m, k)

LEMMA MethodsAre ==
    Methods = {"DELETE", "GET", "HEAD", "POST", "PUT", "CONNECT", "OPTIONS",
               "TRACE", "COPY", "LOCK", "MKCOL", "MOVE", "PROPFIND",
               "PROPPATCH", "SEARCH", "UNLOCK", "BIND", "REBIND", "UNBIND",
               "ACL", "REPORT", "MKACTIVITY", "CHECKOUT", "MERGE", "MSEARCH",
               "NOTIFY", "SUBSCRIBE", "UNSUBSCRIBE", "PATCH", "PURGE",
               "MKCALENDAR", "LINK", "UNLINK", "SOURCE"}
BY DEF Methods, Spelling

LEMMA SpelledWithLetters ==
    \A m \in Methods : Spelling[m] \in Seq(Letters)
<1>1. /\ Spelling["DELETE"] \in Seq(Letters)
      /\ Spelling["GET"] \in Seq(Letters)
      /\ Spelling["HEAD"] \in Seq(Letters)
      /\ Spelling["POST"] \in Seq(Letters)
      /\ Spelling["PUT"] \in Seq(Letters)
  BY DEF Spelling, Letters
<1>2. /\ Spelling["CONNECT"] \in Seq(Letters)
      /\ Spelling["OPTIONS"] \in Seq(Letters)
      /\ Spelling["TRACE"] \in Seq(Letters)
      /\ Spelling["COPY"] \in Seq(Letters)
      /\ Spelling["LOCK"] \in Seq(Letters)
  BY DEF Spelling, Letters
<1>3. /\ Spelling["MKCOL"] \in Seq(Letters)
      /\ Spelling["MOVE"] \in Seq(Letters)
      /\ Spelling["PROPFIND"] \in Seq(Letters)
      /\ Spelling["PROPPATCH"] \in Seq(Letters)
      /\ Spelling["SEARCH"] \in Seq(Letters)
  BY DEF Spelling, Letters
<1>4. /\ Spelling["UNLOCK"] \in Seq(Letters)
      /\ Spelling["BIND"] \in Seq(Letters)
      /\ Spelling["REBIND"] \in Seq(Letters)
      /\ Spelling["UNBIND"] \in Seq(Letters)
      /\ Spelling["ACL"] \in Seq(Letters)
  BY DEF Spelling, Letters
<1>5. /\ Spelling["REPORT"] \in Seq(Letters)
      /\ Spelling["MKACTIVITY"] \in Seq(Letters)
      /\ Spelling["CHECKOUT"] \in Seq(Letters)
      /\ Spelling["MERGE"] \in Seq(Letters)
      /\ Spelling["MSEARCH"] \in Seq(Letters)
  BY DEF Spelling, Letters
<1>6. /\ Spelling["NOTIFY"] \in Seq(Letters)
      /\ Spelling["SUBSCRIBE"] \in Seq(Letters)
      /\ Spelling["UNSUBSCRIBE"] \in Seq(Letters)
      /\ Spelling["PATCH"] \in Seq(Letters)
      /\ Spelling["PURGE"] \in Seq(Letters)
  BY DEF Spelling, Letters
<1>7. /\ Spelling["MKCALENDAR"] \in Seq(Letters)
      /\ Spelling["LINK"] \in Seq(Letters)
      /\ Spelling["UNLINK"] \in Seq(Letters)
      /\ Spelling["SOURCE"] \in Seq(Letters)
  BY DEF Spelling, Letters
<1> QED BY <1>1, <1>2, <1>3, <1>4, <1>5, <1>6, <1>7, MethodsAre

LEMMA FirstLetters ==
    /\ \A m \in Methods : \E l \in DOMAIN Families : m \in Families[l]
    /\ \A l \in DOMAIN Families : \A m \in Families[l] : CharAt(m, 0) = l
<1>1. \A m \in Methods : \E l \in DOMAIN Families : m \in Families[l]
  BY MethodsAre DEF Families
<1>2. \A m \in Families["A"] : CharAt(m, 0) = "A"
  BY DEF Families, CharAt, Spelling
<1>3. \A m \in Families["B"] : CharAt(m, 0) = "B"
  BY DEF Families, CharAt, Spelling
<1>4. \A m \in Families["C"] : CharAt(m, 0) = "C"
  BY DEF Families, CharAt, Spelling
<1>5. \A m \in Families["D"] : CharAt(m, 0) = "D"
  BY DEF Families, CharAt, Spelling
<1>6. \A m \in Families["G"] : CharAt(m, 0) = "G"
  BY DEF Families, CharAt, Spelling
<1>7. \A m \in Families["H"] : CharAt(m, 0) = "H"
  BY DEF Families, CharAt, Spelling
<1>8. \A m \in Families["L"] : CharAt(m, 0) = "L"
  BY DEF Families, CharAt, Spelling
<1>9. \A m \in Families["M"] : CharAt(m, 0) = "M"
  <2>1. /\ CharAt("MKCOL", 0) = "M"
        /\ CharAt("MOVE", 0) = "M"
        /\ CharAt("MKACTIVITY", 0) = "M"
        /\ CharAt("MERGE", 0) = "M"
        /\ CharAt("MSEARCH", 0) = "M"
        /\ CharAt("MKCALENDAR", 0) = "M"
    BY DEF CharAt, Spelling
  <2> QED BY <2>1 DEF Families
<1>10. \A m \in Families["N"] : CharAt(m, 0) = "N"
  BY DEF Families, CharAt, Spelling
<1>11. \A m \in Families["O"] : CharAt(m, 0) = "O"
  BY DEF Families, CharAt, Spelling
<1>12. \A m \in Families["P"] : CharAt(m, 0) = "P"
  <2>1. /\ CharAt("POST", 0) = "P"
        /\ CharAt("PUT", 0) = "P"
        /\ CharAt("PROPFIND", 0) = "P"
        /\ CharAt("PROPPATCH", 0) = "P"
        /\ CharAt("PATCH", 0) = "P"
        /\ CharAt("PURGE", 0) = "P"
    BY DEF CharAt, Spelling
  <2> QED BY <2>1 DEF Families
<1>13. \A m \in Families["R"] : CharAt(m, 0) = "R"
  BY DEF Families, CharAt, Spelling
<1>14. \A m \in Families["S"] : CharAt(m, 0) = "S"
  BY DEF Families, CharAt, Spelling
<1>15. \A m \in Families["T"] : CharAt(m, 0) = "T"
  BY DEF Families, CharAt, Spelling
<1>16. \A m \in Families["U"] : CharAt(m, 0) = "U"
  BY DEF Families, CharAt, Spelling
<1>17. DOMAIN Families = {"A", "B", "C", "D", "G", "H", "L", "M", "N", "O", "P", "R", "S", "T", "U"}
  BY DEF Families
<1> QED BY <1>1, <1>2, <1>3, <1>4, <1>5, <1>6, <1>7, <1>8, <1>9, <1>10,
             <1>11, <1>12, <1>13, <1>14, <1>15, <1>16, <1>17

(* A correction continues what was read with the letter that asked for it.  *)
Corrects(m, i, l, n) ==
    /\ n \in Methods /\ i \in Nat /\ CharAt(n, i) = l
    /\ \A j \in 0..(i - 1) : CharAt(n, j) = CharAt(m, j)
    /\ Entry(n) <= i + 1

LEMMA CorrectionsSound ==
    ASSUME NEW m, NEW i, NEW l, NEW n, <<m, i, l, n>> \in Corrections
    PROVE  Corrects(m, i, l, n)
<1>1. Corrects("POST", 1, "U", "PUT")
  BY MethodsAre DEF Corrects, CharAt, Spelling, Entry
<1>2. Corrects("POST", 1, "A", "PATCH")
  BY MethodsAre DEF Corrects, CharAt, Spelling, Entry
<1>3. Corrects("POST", 1, "R", "PROPFIND")
  BY MethodsAre DEF Corrects, CharAt, Spelling, Entry
<1>4. Corrects("PUT", 2, "R", "PURGE")
  BY MethodsAre DEF Corrects, CharAt, Spelling, Entry
<1>5. Corrects("CONNECT", 1, "H", "CHECKOUT")
  BY MethodsAre DEF Corrects, CharAt, Spelling, Entry
<1>6. Corrects("CONNECT", 2, "P", "COPY")
  BY MethodsAre DEF Corrects, CharAt, Spelling, Entry
<1>7. Corrects("MKCOL", 1, "O", "MOVE")
  BY MethodsAre DEF Corrects, CharAt, Spelling, Entry
<1>8. Corrects("MKCOL", 1, "E", "MERGE")
  BY MethodsAre DEF Corrects, CharAt, Spelling, Entry
<1>9. Corrects("MKCOL", 1, "-", "MSEARCH")
  BY MethodsAre DEF Corrects, CharAt, Spelling, Entry
<1>10. Corrects("MKCOL", 2, "A", "MKACTIVITY")
  BY MethodsAre DEF Corrects, CharAt, Spelling, Entry
<1>11. Corrects("MKCOL", 3, "A", "MKCALENDAR")
  BY MethodsAre DEF Corrects, CharAt, Spelling, Entry
<1>12. Corrects("SUBSCRIBE", 1, "E", "SEARCH")
  BY MethodsAre DEF Corrects, CharAt, Spelling, Entry
<1>13. Corrects("SUBSCRIBE", 1, "O", "SOURCE")
  BY MethodsAre DEF Corrects, CharAt, Spelling, Entry
<1>14. Corrects("REPORT", 2, "B", "REBIND")
  BY MethodsAre DEF Corrects, CharAt, Spelling, Entry
<1>15. Corrects("PROPFIND", 4, "P", "PROPPATCH")
  BY MethodsAre DEF Corrects, CharAt, Spelling, Entry
<1>16. Corrects("LOCK", 1, "I", "LINK")
  BY MethodsAre DEF Corrects, CharAt, Spelling, Entry
<1>17. Corrects("UNLOCK", 2, "S", "UNSUBSCRIBE")
  BY MethodsAre DEF Corrects, CharAt, Spelling, Entry
<1>18. Corrects("UNLOCK", 2, "B", "UNBIND")
  BY MethodsAre DEF Corrects, CharAt, Spelling, Entry
<1>19. Corrects("UNLOCK", 3, "I", "UNLINK")
  BY MethodsAre DEF Corrects, CharAt, Spelling, Entry
<1> QED BY <1>1, <1>2, <1>3, <1>4, <1>5, <1>6, <1>7, <1>8, <1>9, <1>10,
             <1>11, <1>12, <1>13, <1>14, <1>15, <1>16, <1>17, <1>18, <1>19
      DEF Corrections

LEMMA GuessesSound ==
    \A l \in DOMAIN Guess : CharAt(Guess[l], 0) = l /\ Entry(Guess[l]) = 1
<1>1. \A l \in DOMAIN Guess : l \in DOMAIN Families /\ Guess[l] \in Families[l]
  BY DEF Guess, Families
<1>2. \A l \in DOMAIN Guess : Entry(Guess[l]) = 1
  BY DEF Guess, Entry
<1> QED BY <1>1, <1>2, FirstLetters

LEMMA Asked ==
    /\ Corrected("POST", 1, "U") # {}
    /\ Corrected("POST", 1, "A") # {}
    /\ Corrected("POST", 1, "R") # {}
    /\ Corrected("PUT", 2, "R") # {}
    /\ Corrected("CONNECT", 1, "H") # {}
    /\ Corrected("CONNECT", 2, "P") # {}
    /\ Corrected("MKCOL", 1, "O") # {}
    /\ Corrected("MKCOL", 1, "E") # {}
    /\ Corrected("MKCOL", 1, "-") # {}
    /\ Corrected("MKCOL", 2, "A") # {}
    /\ Corrected("MKCOL", 3, "A") # {}
    /\ Corrected("SUBSCRIBE", 1, "E") # {}
    /\ Corrected("SUBSCRIBE", 1, "O") # {}
    /\ Corrected("REPORT", 2, "B") # {}
    /\ Corrected("PROPFIND", 4, "P") # {}
    /\ Corrected("LOCK", 1, "I") # {}
    /\ Corrected("UNLOCK", 2, "S") # {}
    /\ Corrected("UNLOCK", 2, "B") # {}
    /\ Corrected("UNLOCK", 3, "I") # {}
<1>1. \A c \in Corrections : Corrected(c[1], c[2], c[3]) # {}
  BY DEF Corrected
<1> QED BY <1>1 DEF Corrections

LEMMA PartingC ==
    ASSUME NEW m \in Families["C"], NEW n \in Families["C"], m # n
    PROVE  \E k \in Nat : Part(m, n, k)
<1>1. Part("CONNECT", "COPY", 2)
  BY Asked DEF Part, Covers, CharAt, Spelling, Entry
<1>2. Part("CONNECT", "CHECKOUT", 1)
  BY Asked DEF Part, Covers, CharAt, Spelling, Entry
<1>3. Part("COPY", "CHECKOUT", 1)
  BY Asked DEF Part, Covers, CharAt, Spelling, Entry
<1>4. \A k : Part(m, n, k) <=> Part(n, m, k)
  BY DEF Part
<1> QED BY <1>1, <1>2, <1>3, <1>4 DEF Families

LEMMA PartingL ==
    ASSUME NEW m \in Families["L"], NEW n \in Families["L"], m # n
    PROVE  \E k \in Nat : Part(m, n, k)
<1>1. Part("LOCK", "LINK", 1)
  BY Asked DEF Part, Covers, CharAt, Spelling, Entry
<1>2. \A k : Part(m, n, k) <=> Part(n, m, k)
  BY DEF Part
<1> QED BY <1>1, <1>2 DEF Families

LEMMA PartingM ==
    ASSUME NEW m \in Families["M"], NEW n \in Families["M"], m # n
    PROVE  \E k \in Nat : Part(m, n, k)
<1>1. Part("MKCOL", "MOVE", 1)
  BY Asked DEF Part, Covers, CharAt, Spelling, Entry
<1>2. Part("MKCOL", "MKACTIVITY", 2)
  BY Asked DEF Part, Covers, CharAt, Spelling, Entry
<1>3. Part("MKCOL", "MERGE", 1)
  BY Asked DEF Part, Covers, CharAt, Spelling, Entry
<1>4. Part("MKCOL", "MSEARCH", 1)
  BY Asked DEF Part, Covers, CharAt, Spelling, Entry
<1>5. Part("MKCOL", "MKCALENDAR", 3)
  BY Asked DEF Part, Covers, CharAt, Spelling, Entry
<1>6. Part("MOVE", "MKACTIVITY", 1)
  BY Asked DEF Part, Covers, CharAt, Spelling, Entry
<1>7. Part("MOVE", "MERGE", 1)
  BY Asked DEF Part, Covers, CharAt, Spelling, Entry
<1>8. Part("MOVE", "MSEARCH", 1)
  BY Asked DEF Part, Covers, CharAt, Spelling, Entry
<1>9. Part("MOVE", "MKCALENDAR", 1)
  BY Asked DEF Part, Covers, CharAt, Spelling, Entry
<1>10. Part("MKACTIVITY", "MERGE", 1)
  BY Asked DEF Part, Covers, CharAt, Spelling, Entry
<1>11. Part("MKACTIVITY", "MSEARCH", 1)
  BY Asked DEF Part, Covers, CharAt, Spelling, Entry
<1>12. Part("MKACTIVITY", "MKCALENDAR", 2)
  BY Asked DEF Part, Covers, CharAt, Spelling, Entry
<1>13. Part("MERGE", "MSEARCH", 1)
  BY Asked DEF Part, Covers, CharAt, Spelling, Entry
<1>14. Part("MERGE", "MKCALENDAR", 1)
  BY Asked DEF Part, Covers, CharAt, Spelling, Entry
<1>15. Part("MSEARCH", "MKCALENDAR", 1)
  BY Asked DEF Part, Covers, CharAt, Spelling, Entry
<1>16. \A k : Part(m, n, k) <=> Part(n, m, k)
  BY DEF Part
<1> QED BY <1>1, <1>2, <1>3, <1>4, <1>5, <1>6, <1>7, <1>8, <1>9, <1>10,
             <1>11, <1>12, <1>13, <1>14, <1>15, <1>16 DEF Families

LEMMA PartingP ==
    ASSUME NEW m \in Families["P"], NEW n \in Families["P"], m # n
    PROVE  \E k \in Nat : Part(m, n, k)
<1>1. Part("POST", "PUT", 1)
  BY Asked DEF Part, Covers, CharAt, Spelling, Entry
<1>2. Part("POST", "PROPFIND", 1)
  BY Asked DEF Part, Covers, CharAt, Spelling, Entry
<1>3. Part("POST", "PROPPATCH", 1)
  BY Asked DEF Part, Covers, CharAt, Spelling, Entry
<1>4. Part("POST", "PATCH", 1)
  BY Asked DEF Part, Covers, CharAt, Spelling, Entry
<1>5. Part("POST", "PURGE", 1)
  BY Asked DEF Part, Covers, CharAt, Spelling, Entry
<1>6. Part("PUT", "PROPFIND", 1)
  BY Asked DEF Part, Covers, CharAt, Spelling, Entry
<1>7. Part("PUT", "PROPPATCH", 1)
  BY Asked DEF Part, Covers, CharAt, Spelling, Entry
<1>8. Part("PUT", "PATCH", 1)
  BY Asked DEF Part, Covers, CharAt, Spelling, Entry
<1>9. Part("PUT", "PURGE", 2)
  BY Asked DEF Part, Covers, CharAt, Spelling, Entry
<1>10. Part("PROPFIND", "PROPPATCH", 4)
  BY Asked DEF Part, Covers, CharAt, Spelling, Entry
<1>11. Part("PROPFIND", "PATCH", 1)
  BY Asked DEF Part, Covers, CharAt, Spelling, Entry
<1>12. Part("PROPFIND", "PURGE", 1)
  BY Asked DEF Part, Covers, CharAt, Spelling, Entry
<1>13. Part("PROPPATCH", "PATCH", 1)
  BY Asked DEF Part, Covers, CharAt, Spelling, Entry
<1>14. Part("PROPPATCH", "PURGE", 1)
  BY Asked DEF Part, Covers, CharAt, Spelling, Entry
<1>15. Part("PATCH", "PURGE", 1)
  BY Asked DEF Part, Covers, CharAt, Spelling, Entry
<1>16. \A k : Part(m, n, k) <=> Part(n, m, k)
  BY DEF Part
<1> QED BY <1>1, <1>2, <1>3, <1>4, <1>5, <1>6, <1>7, <1>8, <1>9, <1>10,
             <1>11, <1>12, <1>13, <1>14, <1>15, <1>16 DEF Families

LEMMA PartingR ==
    ASSUME NEW m \in Families["R"], NEW n \in Families["R"], m # n
    PROVE  \E k \in Nat : Part(m, n, k)
<1>1. Part("REBIND", "REPORT", 2)
  BY Asked DEF Part, Covers, CharAt, Spelling, Entry
<1>2. \A k : Part(m, n, k) <=> Part(n, m, k)
  BY DEF Part
<1> QED BY <1>1, <1>2 DEF Families

LEMMA PartingS ==
    ASSUME NEW m \in Families["S"], NEW n \in Families["S"], m # n
    PROVE  \E k \in Nat : Part(m, n, k)
<1>1. Part("SEARCH", "SUBSCRIBE", 1)
  BY Asked DEF Part, Covers, CharAt, Spelling, Entry
<1>2. Part("SEARCH", "SOURCE", 1)
  BY Asked DEF Part, Covers, CharAt, Spelling, Entry
<1>3. Part("SUBSCRIBE", "SOURCE", 1)
  BY Asked DEF Part, Covers, CharAt, Spelling, Entry
<1>4. \A k : Part(m, n, k) <=> Part(n, m, k)
  BY DEF Part
<1> QED BY <1>1, <1>2, <1>3, <1>4 DEF Families

LEMMA PartingU ==
    ASSUME NEW m \in Families["U"], NEW n \in Families["U"], m # n
    PROVE  \E k \in Nat : Part(m, n, k)
<1>1. Part("UNLOCK", "UNBIND", 2)
  BY Asked DEF Part, Covers, CharAt, Spelling, Entry
<1>2. Part("UNLOCK", "UNSUBSCRIBE", 2)
  BY Asked DEF Part, Covers, CharAt, Spelling, Entry
<1>3. Part("UNLOCK", "UNLINK", 3)
  BY Asked DEF Part, Covers, CharAt, Spelling, Entry
<1>4. Part("UNBIND", "UNSUBSCRIBE", 2)
  BY Asked DEF Part, Covers, CharAt, Spelling, Entry
<1>5. Part("UNBIND", "UNLINK", 2)
  BY Asked DEF Part, Covers, CharAt, Spelling, Entry
<1>6. Part("UNSUBSCRIBE", "UNLINK", 2)
  BY Asked DEF Part, Covers, CharAt, Spelling, Entry
<1>7. \A k : Part(m, n, k) <=> Part(n, m, k)
  BY DEF Part
<1> QED BY <1>1, <1>2, <1>3, <1>4, <1>5, <1>6, <1>7 DEF Families

-----------------------------------------------------------------------------
(* The parser has read w of the method m, and had reason to.                *)
Spelt(m, w) == m \in Methods /\ Begun(m, w) /\ Entry(m) <= Len(w)

(* What matcher[index] holds.                                               *)
LEMMA CharsAre ==
    ASSUME NEW m \in Methods, NEW i \in Nat
    PROVE  /\ Len(Spelling[m]) \in Nat /\ "" \notin Letters
           /\ i < Len(Spelling[m]) <=> CharAt(m, i) \in Letters
           /\ i >= Len(Spelling[m]) <=> CharAt(m, i) = ""
<1> DEFINE s == Spelling[m]
<1>1. s \in Seq(Letters)
  BY SpelledWithLetters
<1>2. CharAt(m, i) = IF i < Len(s) THEN s[i + 1] ELSE ""
  BY DEF CharAt
<1>3. "" \notin Letters
  BY DEF Letters
<1> HIDE DEF s
<1>4. Len(s) \in Nat /\ (i < Len(s) => s[i + 1] \in Letters)
  BY <1>1
<1>5. i < Len(s) => CharAt(m, i) \in Letters
  BY <1>2, <1>4
<1>6. i >= Len(s) <=> ~(i < Len(s))
  <2>1. Len(s) \in Int /\ i \in Int
    BY <1>4
  <2> QED BY <2>1
<1>7. i >= Len(s) => CharAt(m, i) = ""
  BY <1>2, <1>6
<1> QED BY <1>3, <1>4, <1>5, <1>6, <1>7 DEF s

LEMMA BegunAppend ==
    ASSUME NEW m, NEW w \in Seq(Letters), NEW l \in Letters
    PROVE  Begun(m, Append(w, l)) <=> Begun(m, w) /\ CharAt(m, Len(w)) = l
<1> DEFINE v == Append(w, l)
<1>1. Len(w) \in Nat /\ Len(v) = Len(w) + 1 /\ v[Len(w) + 1] = l
  OBVIOUS
<1>2. \A i \in 1..Len(w) : v[i] = w[i]
  OBVIOUS
<1>3. 1..Len(v) = 1..Len(w) \cup {Len(w) + 1} /\ Len(w) + 1 - 1 = Len(w)
  BY <1>1
<1> HIDE DEF v
<1> QED BY <1>1, <1>2, <1>3 DEF Begun, v

LEMMA Continues ==
    ASSUME NEW m, NEW w \in Seq(Letters), NEW l \in Letters,
           Spelt(m, w), CharAt(m, Len(w)) = l
    PROVE  Spelt(m, Append(w, l))
<1>1. Len(Append(w, l)) = Len(w) + 1 /\ Len(w) \in Nat
  OBVIOUS
<1>2. Entry(m) \in Nat
  BY DEF Entry
<1> QED BY <1>1, <1>2, BegunAppend DEF Spelt

(* What was read of a method was read of its correction, too.               *)
LEMMA Recovers ==
    ASSUME NEW m, NEW w \in Seq(Letters), NEW l \in Letters,
           Spelt(m, w), NEW n \in Corrected(m, Len(w), l)
    PROVE  Spelt(n, Append(w, l))
<1>1. PICK c \in Corrections : c[1] = m /\ c[2] = Len(w) /\ c[3] = l /\ c[4] = n
  BY DEF Corrected
<1>2. c = <<m, Len(w), l, n>>
  <2>1. \A d \in Corrections : d = <<d[1], d[2], d[3], d[4]>>
    BY DEF Corrections
  <2> QED BY <1>1, <2>1
<1>3. Corrects(m, Len(w), l, n)
  BY <1>1, <1>2, CorrectionsSound
<1>4. Len(Append(w, l)) = Len(w) + 1 /\ Len(w) \in Nat
  OBVIOUS
<1>5. Begun(n, w)
  <2> SUFFICES ASSUME NEW i \in 1..Len(w) PROVE CharAt(n, i - 1) = w[i]
    BY DEF Begun
  <2>1. i - 1 \in 0..(Len(w) - 1)
    BY <1>4
  <2> QED BY <1>3, <2>1 DEF Corrects, Spelt, Begun
<1> QED BY <1>3, <1>4, <1>5, BegunAppend DEF Corrects, Spelt

(* Two methods that begin alike part where one corrects the other.          *)
LEMMA Parting ==
    ASSUME NEW m \in Methods, NEW n \in Methods, m # n, CharAt(m, 0) = CharAt(n, 0)
    PROVE  \E k \in Nat : Part(m, n, k)
<1>1. PICK l \in DOMAIN Families : m \in Families[l] /\ n \in Families[l]
  BY FirstLetters
<1>2. l \in {"C", "L", "M", "P", "R", "S", "U"}
  BY <1>1 DEF Families
<1> QED BY <1>1, <1>2, PartingC, PartingL, PartingM, PartingP, PartingR, PartingS, PartingU

(* What the parser refuses, no method begins with.                          *)
LEMMA Refuses ==
    ASSUME NEW m, NEW w \in Seq(Letters), NEW l \in Letters,
           Spelt(m, w), w # <<>>, CharAt(m, Len(w)) # l, Corrected(m, Len(w), l) = {}
    PROVE  ~BeginsMethod(Append(w, l))
<1> SUFFICES ASSUME NEW n \in Methods, Begun(n, Append(w, l)) PROVE FALSE
  BY DEF BeginsMethod
<1> DEFINE k == Len(w)
<1>1. k \in Nat /\ k >= 1
  OBVIOUS
<1>2. Begun(n, w) /\ CharAt(n, k) = l
  BY BegunAppend
<1>3. \A j \in 0..(k - 1) : CharAt(m, j) = CharAt(n, j)
  <2> SUFFICES ASSUME NEW j \in 0..(k - 1) PROVE CharAt(m, j) = CharAt(n, j)
    OBVIOUS
  <2>1. j + 1 \in 1..Len(w) /\ j + 1 - 1 = j
    BY <1>1
  <2> QED BY <1>2, <2>1 DEF Spelt, Begun
<1>4. CharAt(m, 0) = CharAt(n, 0)
  BY <1>1, <1>3
<1>5. m \in Methods /\ m # n /\ Entry(m) <= k
  BY <1>2 DEF Spelt
<1>6. PICK i \in Nat : Part(m, n, i)
  BY <1>4, <1>5, Parting
<1>7. i = k
  <2>1. ~(i < k)
    BY <1>1, <1>3, <1>6 DEF Part
  <2>2. ~(k < i)
    <3>1. k < i => k \in 0..(i - 1)
      BY <1>1
    <3> QED BY <1>2, <1>6, <3>1 DEF Part
  <2> QED BY <1>1, <2>1, <2>2
<1>8. Covers(m, n, k)
  BY <1>6, <1>7 DEF Part
<1>9. Entry(m) \in Nat
  BY DEF Entry
<1> QED BY <1>1, <1>2, <1>5, <1>8, <1>9 DEF Covers

-----------------------------------------------------------------------------
(* While a method is read, the parser has read of it what was sent.         *)
Spells ==
    p.state = "s_req_method" =>
        Spelt(p.method, word) /\ p.index = Len(word) /\ word # <<>>

(* The ways on from there: the method ends, goes on, or is refused.         *)
More == IF ch.t # "letter" THEN {}
        ELSE IF ch.l = CharAt(p.method, p.index) THEN {p.method}
        ELSE Corrected(p.method, p.index, ch.l)

MethodEnds ==
    /\ CharAt(p.method, p.index) = "" /\ ch = SP
    /\ p'.state = "s_req_spaces_before_url" /\ p'.errno = "OK"

MethodGoesOn(m) ==
    /\ m \in More
    /\ p'.state = p.state /\ p'.method = m /\ p'.index = p.index + 1
    /\ p'.errno = "OK" /\ word' = Append(word, ch.l)

MethodRefused ==
    /\ More = {} /\ ~(ch = SP /\ CharAt(p.method, p.index) = "")
    /\ p'.state = p.state /\ p'.method = p.method /\ p'.index = p.index
    /\ p'.errno = "INVALID_METHOD" /\ word' = word

LEMMA ReqMethodWays ==
    ASSUME IInv, Fields, ReqMethod
    PROVE  MethodEnds \/ (\E m \in More : MethodGoesOn(m)) \/ MethodRefused
<1>1. p.state = "s_req_method" /\ p.errno = "OK" /\ Struct(p)
  BY RunningProper DEF ReqMethod, At, Proper
<1>2. \/ /\ ch = SP /\ CharAt(p.method, p.index) = ""
         /\ Consume([p EXCEPT !.state = "s_req_spaces_before_url", !.index = 0,
                              !.method = IF @ = "CONNECT" THEN @ ELSE "other"])
      \/ \E m \in More : /\ Consume([p EXCEPT !.method = m, !.index = @ + 1])
                         /\ word' = Append(word, ch.l)
      \/ /\ More = {} /\ ~(ch = SP /\ CharAt(p.method, p.index) = "")
         /\ Fails("INVALID_METHOD") /\ UNCHANGED word
  BY DEF ReqMethod, More
<1>3. ASSUME Consume([p EXCEPT !.state = "s_req_spaces_before_url", !.index = 0,
                               !.method = IF @ = "CONNECT" THEN @ ELSE "other"])
      PROVE  p'.state = "s_req_spaces_before_url" /\ p'.errno = "OK"
  BY <1>1, <1>3 DEF Consume, Struct
<1>4. ASSUME NEW m, Consume([p EXCEPT !.method = m, !.index = @ + 1])
      PROVE  /\ p'.state = p.state /\ p'.method = m /\ p'.index = p.index + 1
             /\ p'.errno = "OK"
  BY <1>1, <1>4 DEF Consume, Struct
<1>5. ASSUME Fails("INVALID_METHOD")
      PROVE  /\ p'.state = p.state /\ p'.method = p.method /\ p'.index = p.index
             /\ p'.errno = "INVALID_METHOD"
  BY <1>1, <1>5 DEF Fails, Error, Erroneous, Struct
<1> QED BY <1>2, <1>3, <1>4, <1>5 DEF MethodEnds, MethodGoesOn, MethodRefused

LEMMA Longer ==
    ASSUME NEW S, NEW w \in Seq(S), NEW l \in S
    PROVE  Len(Append(w, l)) = Len(w) + 1 /\ Append(w, l) # <<>> /\ Len(w) \in Nat
<1>1. Len(Append(w, l)) = Len(w) + 1 /\ Len(w) \in Nat
  OBVIOUS
<1>2. Len(<<>>) = 0
  OBVIOUS
<1> QED BY <1>1, <1>2

LEMMA GoesOnSpelt ==
    ASSUME IInv, Fields, Spells, p.state = "s_req_method",
           NEW m \in More, MethodGoesOn(m)
    PROVE  /\ Spelt(m, word') /\ p'.index = Len(word') /\ word' # <<>>
           /\ p.index < Len(Spelling[m])
<1>1. word \in Seq(Letters) /\ Spelt(p.method, word) /\ p.index = Len(word)
  BY DEF Fields, Spells
<1>2. ch.t = "letter" /\ ch.l \in Letters
  BY DEF More, IInv, TokenOK
<1> DEFINE l == ch.l
<1>3. Spelt(m, Append(word, l))
  <2>1. CASE l = CharAt(p.method, p.index)
    BY <1>1, <1>2, <2>1, Continues DEF More
  <2>2. CASE l # CharAt(p.method, p.index)
    BY <1>1, <1>2, <2>2, Recovers DEF More
  <2> QED BY <2>1, <2>2
<1>4. word' = Append(word, l) /\ p'.index = p.index + 1
  BY DEF MethodGoesOn
<1>5. Len(Append(word, l)) = Len(word) + 1 /\ Append(word, l) # <<>> /\ Len(word) \in Nat
  BY <1>1, <1>2, Longer
<1>6. m \in Methods /\ CharAt(m, p.index) = l
  BY <1>1, <1>2, <1>3, BegunAppend DEF Spelt
<1>7. p.index < Len(Spelling[m])
  BY <1>1, <1>2, <1>5, <1>6, CharsAre
<1> QED BY <1>1, <1>3, <1>4, <1>5, <1>7

LEMMA ReqMethodSpells ==
    ASSUME IInv, Fields, Spells, ReqMethod
    PROVE  Spells'
<1>1. p.state = "s_req_method"
  BY DEF ReqMethod, At
<1>2. CASE MethodEnds
  BY <1>2 DEF MethodEnds, Spells
<1>3. CASE \E m \in More : MethodGoesOn(m)
  <2>1. PICK m \in More : MethodGoesOn(m)
    BY <1>3
  <2>2. p'.method = m
    BY <2>1 DEF MethodGoesOn
  <2> QED BY <1>1, <2>1, <2>2, GoesOnSpelt DEF Spells
<1>4. CASE MethodRefused
  BY <1>1, <1>4 DEF MethodRefused, Spells
<1> QED BY <1>2, <1>3, <1>4, ReqMethodWays

LEMMA StartReqSpells ==
    ASSUME IInv, Fields, StartReq
    PROVE  Spells'
<1>1. p.state = "s_start_req" /\ Struct(p) /\ TokenOK(ch)
  BY RunningProper DEF StartReq, At, Proper
<1>2. CASE Consume(p) \/ Error(Erroneous(Fresh, "INVALID_METHOD"))
  <2>1. p'.state = "s_start_req"
    BY <1>1, <1>2 DEF Consume, Error, Erroneous, Fresh, Struct
  <2> QED BY <2>1 DEF Spells
<1>3. CASE /\ Begins(ch)
           /\ CallsBack([Fresh EXCEPT !.method = Guess[ch.l], !.index = 1,
                                  !.state = "s_req_method"])
           /\ word' = <<ch.l>>
  <2> DEFINE m == Guess[ch.l]
  <2>1. p'.method = m /\ p'.index = 1
    BY <1>1, <1>3 DEF CallsBack, Erroneous, Fresh, Struct
  <2>2. ch.l \in DOMAIN Guess /\ ch.l \in Letters
    BY <1>1, <1>3 DEF Begins, TokenOK
  <2>3. m \in Methods /\ CharAt(m, 0) = ch.l /\ Entry(m) = 1
    BY <2>2, GuessesAre, GuessesSound
  <2> HIDE DEF m
  <2>4. Len(<<ch.l>>) = 1 /\ <<ch.l>>[1] = ch.l /\ <<ch.l>> # <<>>
    OBVIOUS
  <2>5. Spelt(m, <<ch.l>>)
    <3>1. \A i \in 1..1 : i = 1
      OBVIOUS
    <3>2. 1 - 1 = 0
      OBVIOUS
    <3> QED BY <2>3, <2>4, <3>1, <3>2 DEF Spelt, Begun
  <2> QED BY <1>3, <2>1, <2>4, <2>5 DEF Spells
<1> QED BY <1>2, <1>3 DEF StartReq

(* No other round leads to s_req_method.                                    *)
LEMMA RoundSpells ==
    ASSUME p'.state \in Home, p.state \notin {"s_start_req", "s_req_method"}
    PROVE  Spells'
BY DEF Home, Spells

LEMMA OuterSpells ==
    ASSUME IInv, Spells, Execute \/ ExecuteEof \/ Unpause \/ Load \/ Flush
    PROVE  Spells'
<1> DEFINE Kept(q) == q.state = p.state /\ q.method = p.method /\ q.index = p.index
<1>1. Struct(p) /\ word' = word
  BY DEF IInv, Execute, ExecuteEof, Unpause, Load, Flush, NoNumber, NoData
<1>2. /\ \A e : Kept(Erroneous(p, e))
      /\ \A n : Kept([p EXCEPT !.nread = n])
      /\ \A n, e : Kept(Erroneous([p EXCEPT !.nread = n], e))
  BY <1>1 DEF Erroneous, Struct
<1>3. Kept(p')
  <2>1. CASE Execute
    BY <2>1 DEF Execute
  <2>2. CASE ExecuteEof
    BY <1>2, <2>2 DEF ExecuteEof
  <2>3. CASE Unpause
    BY <1>2, <2>3 DEF Unpause
  <2>4. CASE Load
    <3> DEFINE n == IF p.nread = 2 THEN 2 ELSE p.nread + 1
               q == IF p.state \in BodyStates THEN p ELSE [p EXCEPT !.nread = n]
    <3>1. p' = q \/ p' = Erroneous(q, "HEADER_OVERFLOW")
      BY <2>4 DEF Load, Error
    <3> HIDE DEF n
    <3>2. q = p \/ q = [p EXCEPT !.nread = n]
      OBVIOUS
    <3>3. Kept(q) /\ Kept(Erroneous(q, "HEADER_OVERFLOW"))
      <4>1. CASE q = p
        BY <1>2, <4>1
      <4>2. CASE q = [p EXCEPT !.nread = n]
        BY <1>2, <4>2
      <4> QED BY <3>2, <4>1, <4>2
    <3> HIDE DEF q
    <3> QED BY <3>1, <3>3
  <2>5. CASE Flush
    BY <1>2, <2>5 DEF Flush
  <2> QED BY <2>1, <2>2, <2>3, <2>4, <2>5
<1> QED BY <1>1, <1>3 DEF Spells

LEMMA NextSpells == IInv /\ Fields /\ Spells /\ [Next]_vars => Spells'
<1> SUFFICES ASSUME IInv, Fields, Spells, [Next]_vars PROVE Spells'
  OBVIOUS
<1>1. ASSUME Round, p.state \notin {"s_start_req", "s_req_method"} PROVE Spells'
  BY <1>1, RoundSpells DEF Round, Proper
<1>2. CASE RequestLine
  <2>1. ASSUME ReqSpacesBeforeUrl \/ Url \/ ReqHttpStart \/ ReqHttpEnd
        PROVE  p.state \notin {"s_start_req", "s_req_method"}
    BY <2>1 DEF ReqSpacesBeforeUrl, Url, ReqHttpStart, ReqHttpEnd, At, UrlStates
  <2> QED BY <1>1, <1>2, <2>1, StartReqSpells, ReqMethodSpells, UrlRound, SimpleRounds
          DEF RequestLine
<1>3. CASE StatusLine
  <2>1. p.state \notin {"s_start_req", "s_req_method"}
    BY <1>3 DEF StatusLine, StartRes, ResHttpEnd, ResFirstStatusCode, ResStatusCode,
           ResStatusStart, ResStatus, At
  <2> QED BY <1>1, <1>3, <2>1, StartsRound, StatusRound, SimpleRounds, RoundSpells
          DEF StatusLine
<1>4. CASE Dead \/ Http \/ HttpMajor \/ HttpDot \/ HttpMinor \/ LineAlmostDone
  <2>1. p.state \notin {"s_start_req", "s_req_method"}
    BY <1>4 DEF Dead, Http, HttpMajor, HttpDot, HttpMinor, LineAlmostDone, At
  <2> QED BY <1>1, <1>4, <2>1, VersionRound, SimpleRounds
<1>5. CASE Header
  <2>1. p.state \notin {"s_start_req", "s_req_method"}
    BY <1>5 DEF Header, HeaderFieldStart, HeaderValueDiscardWs, HeaderValueStart,
           HeaderValueDiscardWsAlmostDone, HeaderValueDiscardLws, HeaderValue,
           HeaderAlmostDone, HeaderValueLws, At
  <2> QED BY <1>1, <1>5, <2>1, HeaderRound, SimpleRounds DEF Header
<1>6. CASE HeadersAlmostDone \/ HeadersDone
  <2>1. p.state \notin {"s_start_req", "s_req_method"}
    BY <1>6 DEF HeadersAlmostDone, HeadersDone, At
  <2> QED BY <1>1, <1>6, <2>1, HeadersRound
<1>7. CASE Body
  <2>1. p.state \notin {"s_start_req", "s_req_method"}
    BY <1>7 DEF Body, BodyIdentity, BodyIdentityEof, MessageDone, ChunkSizeStart,
           ChunkSize, ChunkParameters, ChunkSizeAlmostDone, ChunkData,
           ChunkDataAlmostDone, ChunkDataDone, At
  <2> QED BY <1>1, <1>7, <2>1, BodyRound, SimpleRounds DEF Body
<1>8. CASE Execute \/ ExecuteEof \/ Unpause \/ Load \/ Flush
  BY <1>8, OuterSpells
<1>9. CASE UNCHANGED vars
  BY <1>9 DEF vars, Spells
<1> QED BY <1>2, <1>3, <1>4, <1>5, <1>6, <1>7, <1>8, <1>9 DEF Next

(* Which steps read a method, and what they may do.                         *)
LEMMA OnlyReqMethod ==
    ASSUME [Next]_vars, At("s_req_method"), ch' = None
    PROVE  ReqMethod
<1>1. call = "running" /\ ch # None /\ p.state = "s_req_method"
  BY DEF At
<1>2. ~(Execute \/ ExecuteEof \/ Unpause \/ Load \/ Flush) /\ ~(UNCHANGED vars)
  BY <1>1 DEF Execute, ExecuteEof, Unpause, Load, Flush, vars
<1>3. ~(Dead \/ Http \/ HttpMajor \/ HttpDot \/ HttpMinor \/ LineAlmostDone)
  BY <1>1 DEF Dead, Http, HttpMajor, HttpDot, HttpMinor, LineAlmostDone, At
<1>4. ~StatusLine
  BY <1>1 DEF StatusLine, StartRes, ResHttpEnd, ResFirstStatusCode, ResStatusCode,
         ResStatusStart, ResStatus, At
<1>5. ~Header
  BY <1>1 DEF Header, HeaderFieldStart, HeaderValueDiscardWs, HeaderValueStart,
         HeaderValueDiscardWsAlmostDone, HeaderValueDiscardLws, HeaderValue,
         HeaderAlmostDone, HeaderValueLws, At
<1>6. ~Body /\ ~(HeadersAlmostDone \/ HeadersDone)
  BY <1>1 DEF Body, BodyIdentity, BodyIdentityEof, MessageDone, ChunkSizeStart, ChunkSize,
         ChunkParameters, ChunkSizeAlmostDone, ChunkData, ChunkDataAlmostDone,
         ChunkDataDone, HeadersAlmostDone, HeadersDone, At
<1>7. ~(StartReq \/ ReqSpacesBeforeUrl \/ Url \/ ReqHttpStart \/ ReqHttpEnd)
  BY <1>1 DEF StartReq, ReqSpacesBeforeUrl, Url, ReqHttpStart, ReqHttpEnd, At, UrlStates
<1> QED BY <1>2, <1>3, <1>4, <1>5, <1>6, <1>7 DEF Next, RequestLine

LEMMA EndsSpelt ==
    ASSUME IInv, Fields, Spells, p.state = "s_req_method", MethodEnds
    PROVE  /\ p.method \in Methods /\ Begun(p.method, word)
           /\ Len(word) = Len(Spelling[p.method])
<1> DEFINE m == p.method
           k == Len(word)
<1>1. word \in Seq(Letters) /\ word # <<>> /\ Spelt(m, word) /\ p.index = k
  BY DEF Fields, Spells
<1>2. k \in Nat /\ k >= 1 /\ word[k] \in Letters
  BY <1>1
<1>3. m \in Methods /\ CharAt(m, k) = ""
  BY <1>1 DEF Spelt, MethodEnds
<1>4. k \in 1..Len(word) /\ k - 1 \in Nat
  BY <1>2
<1>5. CharAt(m, k - 1) \in Letters
  BY <1>1, <1>2, <1>4 DEF Spelt, Begun
<1> HIDE DEF m, k
<1>6. Len(Spelling[m]) \in Nat /\ k >= Len(Spelling[m])
  BY <1>2, <1>3, CharsAre
<1>7. k - 1 < Len(Spelling[m])
  BY <1>3, <1>4, <1>5, CharsAre
<1>8. k = Len(Spelling[m])
  BY <1>2, <1>6, <1>7
<1> QED BY <1>1, <1>8 DEF Spelt, m, k

(* One step of the method: what MethodExact says of it.                     *)
LEMMA MethodStep ==
    ASSUME IInv, Fields, Spells, p.state = "s_req_method", ReqMethod
    PROVE  IF p'.state # p.state
           THEN /\ p.method \in Methods /\ Begun(p.method, word)
                /\ Len(word) = Len(Spelling[p.method])
           ELSE IF p'.errno = "OK"
           THEN BeginsMethod(word') /\ p'.index <= Len(Spelling[p'.method])
           ELSE ch.t = "letter" => ~BeginsMethod(Append(word, ch.l))
<1>1. CASE MethodEnds
  BY <1>1, EndsSpelt DEF MethodEnds
<1>2. CASE \E m \in More : MethodGoesOn(m)
  <2>1. PICK m \in More : MethodGoesOn(m)
    BY <1>2
  <2>2. /\ Spelt(m, word') /\ p.index < Len(Spelling[m])
        /\ p'.method = m /\ p'.index = p.index + 1 /\ p'.errno = "OK"
        /\ p'.state = p.state
    BY <2>1, GoesOnSpelt DEF MethodGoesOn
  <2>3. BeginsMethod(word') /\ m \in Methods
    BY <2>2 DEF Spelt, BeginsMethod
  <2>4. p.index \in Nat /\ Len(Spelling[m]) \in Nat
    <3>1. p.index \in Nat
      BY DEF Fields, Typed
    <3> QED BY <2>3, <3>1, CharsAre
  <2>5. p.index + 1 <= Len(Spelling[m])
    BY <2>2, <2>4
  <2> QED BY <2>2, <2>3, <2>5
<1>3. CASE MethodRefused
  <2>1. p'.state = p.state /\ p'.errno = "INVALID_METHOD" /\ More = {}
    BY <1>3 DEF MethodRefused
  <2>2. ASSUME ch.t = "letter" PROVE ~BeginsMethod(Append(word, ch.l))
    <3>1. /\ word \in Seq(Letters) /\ word # <<>> /\ ch.l \in Letters
          /\ Spelt(p.method, word) /\ p.index = Len(word)
      BY <2>2 DEF Fields, Spells, IInv, TokenOK
    <3>2. /\ CharAt(p.method, p.index) # ch.l
          /\ Corrected(p.method, p.index, ch.l) = {}
      BY <2>1, <2>2 DEF More
    <3> QED BY <3>1, <3>2, Refuses
  <2> QED BY <2>1, <2>2
<1> QED BY <1>1, <1>2, <1>3, ReqMethodWays

(* A parser takes the method that was spelled, and refuses what is none at  *)
(* its first wrong letter: the guesses and corrections of the code lose no  *)
(* method and read no letter beyond a name.                                 *)
THEOREM ParserMethodExact == Spec => MethodExact
<1> DEFINE Inv == IInv /\ DInv /\ Fields /\ Counters /\ Spells
<1>1. Init => Inv
  <2>1. Init => p.state # "s_req_method"
    BY DEF Init
  <2> QED BY <2>1, InitInv, InitDelivery, InitFields DEF Spells
<1>2. Inv /\ [Next]_vars => Inv'
  BY NextInv, NextDelivery, NextFields, NextCounters, NextSpells
<1>3. Inv /\ [Next]_vars =>
        [At("s_req_method") /\ ch' = None =>
           IF p'.state # p.state
           THEN p.method \in Methods /\ Begun(p.method, word) /\ Len(word) = Len(Spelling[p.method])
           ELSE IF p'.errno = "OK"
           THEN BeginsMethod(word') /\ p'.index <= Len(Spelling[p'.method])
           ELSE ch.t = "letter" => ~BeginsMethod(Append(word, ch.l))]_vars
  BY OnlyReqMethod, MethodStep DEF At
<1> QED BY <1>1, <1>2, <1>3, PTL DEF Spec, MethodExact
=============================================================================
