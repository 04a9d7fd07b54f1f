-------------------------- MODULE HttpParserProofs --------------------------
(***************************************************************************)
(* Theorems about HttpParser, for every width of the integer, all digits,  *)
(* status codes and sizes of buffers, and anything callbacks may do.       *)
(*                                                                         *)
(* The invariant relates the parser's state to what has been reported of   *)
(* the current message (Position), to content_length (Numbers), and to the *)
(* token at hand (Call).                                                   *)
(***************************************************************************)
EXTENDS HttpParser, TLAPS

(* q is a struct whose flags and numbers have their types.                  *)
Struct(q) ==
    /\ q = [type |-> q.type, state |-> q.state, header |-> q.header,
            flags |-> q.flags, length |-> q.length, nread |-> q.nread,
            method |-> q.method, index |-> q.index, http11 |-> q.http11,
            status |-> q.status, upgrade |-> q.upgrade, errno |-> q.errno]
    /\ q.header \in HeaderStates
    /\ q.flags \subseteq Flags
    /\ q.length \in 0..MaxLength
    /\ q.nread \in Nat

(* The fields that the invariant is about, but for the state and errno.     *)
Same(a, b) == a.flags = b.flags /\ a.length = b.length /\ a.nread = b.nread

Starts == {"s_start_req", "s_start_res"}

ChunkStates == {"s_chunk_size_start", "s_chunk_size", "s_chunk_parameters",
                "s_chunk_size_almost_done", "s_chunk_data",
                "s_chunk_data_almost_done", "s_chunk_data_done"}

SizeStates == {"s_chunk_size", "s_chunk_parameters", "s_chunk_size_almost_done"}

Ends == {"s_headers_done", "s_message_done"}

AfterHeaders == ChunkStates \cup Ends \cup {"s_body_identity", "s_body_identity_eof"}

TokenOK(t) ==
    /\ t.t = "digit" => t.v \in 0..15
    /\ t.t = "name" => t.name \in Names
    /\ t.t = "letter" => t.l \in Letters

-----------------------------------------------------------------------------
LEMMA InStateFields ==
    ASSUME NEW q, Struct(q), NEW s
    PROVE  /\ Struct(InState(q, s))
           /\ InState(q, s).state = s
           /\ InState(q, s).errno = q.errno
           /\ Same(InState(q, s), q)
BY DEF Struct, InState, Same

LEMMA ErroneousFields ==
    ASSUME NEW q, Struct(q), NEW e
    PROVE  /\ Struct(Erroneous(q, e))
           /\ Erroneous(q, e).state = q.state
           /\ Erroneous(q, e).errno = e
           /\ Same(Erroneous(q, e), q)
BY DEF Struct, Erroneous, Same

LEMMA RecountFields ==
    ASSUME NEW q, Struct(q)
    PROVE  /\ Struct(Recount(q))
           /\ Recount(q).state = q.state
           /\ Recount(q).errno = q.errno
           /\ Recount(q).flags = q.flags /\ Recount(q).length = q.length
           /\ Recount(q).nread = 0
BY DEF Struct, Recount

(* A header that ends leaves no flag that frames a message but F_CHUNKED.   *)
LEMMA WithFlagFields ==
    ASSUME NEW q, Struct(q)
    PROVE  /\ Struct(WithFlag(q))
           /\ WithFlag(q).state = q.state
           /\ WithFlag(q).errno = q.errno
           /\ WithFlag(q).length = q.length /\ WithFlag(q).nread = q.nread
           /\ q.flags \subseteq WithFlag(q).flags
           /\ \A f \in {"F_TRAILING", "F_CONTENTLENGTH"} :
                 f \in WithFlag(q).flags <=> f \in q.flags
<1> DEFINE fs == FlagOf[q.header]
<1>1. fs \in SUBSET Flags /\ "F_TRAILING" \notin fs /\ "F_CONTENTLENGTH" \notin fs
  BY DEF Struct, FlagOf, HeaderStates, Flags
<1>2. WithFlag(q) = [q EXCEPT !.flags = @ \cup fs]
  BY DEF WithFlag
<1> HIDE DEF fs
<1> QED BY <1>1, <1>2 DEF Struct

(* The parser struct's two fields that a digit writes.                      *)
LEMMA SetFields ==
    ASSUME NEW q, Struct(q)
    PROVE  /\ \A n : [q EXCEPT !.length = n].length = n
           /\ \A n : [q EXCEPT !.length = n].errno = q.errno
           /\ \A n : [q EXCEPT !.length = n].state = q.state
           /\ \A n : [q EXCEPT !.length = n].flags = q.flags
           /\ \A n : [q EXCEPT !.length = n].nread = q.nread
           /\ \A n \in 0..MaxLength : Struct([q EXCEPT !.length = n])
BY DEF Struct

(* A digit that is accepted extends content_length exactly: no wrap-around, *)
(* and never the value that stands for "no length given".  This is the      *)
(* conservative limit of s_header_value and s_chunk_size, for both bases.   *)
THEOREM DigitExact ==
    ASSUME NEW q, Struct(q), NEW base \in {10, 16}, NEW d,
           d.v \in 0..(base - 1),
           AddDigit(q, base, d).errno = "OK"
    PROVE  /\ AddDigit(q, base, d).length = q.length * base + d.v
           /\ AddDigit(q, base, d).length < MaxLength
<1> DEFINE n == q.length
           v == d.v
           next == n * base + v
<1>1. /\ MaxLength \in Nat /\ MaxLength >= 16
      /\ n \in 0..MaxLength
      /\ v \in 0..(base - 1)
  BY MaxLengthAssumption DEF Struct
<1>2. ~((MaxLength - base) \div base < n)
  <2>1. SUFFICES ASSUME (MaxLength - base) \div base < n
                 PROVE  FALSE
    OBVIOUS
  <2>2. AddDigit(q, base, d) = Erroneous(q, "INVALID_CONTENT_LENGTH")
    BY <2>1 DEF AddDigit
  <2> QED BY <2>2, ErroneousFields
<1>3. next \in Nat /\ next < MaxLength
  <2> HIDE DEF n, v
  <2>1. CASE base = 10
    BY <1>1, <1>2, <2>1
  <2>2. CASE base = 16
    BY <1>1, <1>2, <2>2
  <2> QED BY <2>1, <2>2
<1>4. next % (MaxLength + 1) = next
  <2> DEFINE m == MaxLength + 1
  <2>1. next \in Nat /\ m \in Nat \ {0} /\ next < m
    BY <1>1, <1>3
  <2> HIDE DEF next, m
  <2>2. next % m = next
    BY <2>1
  <2> QED BY <2>2 DEF m
<1>5. AddDigit(q, base, d) = [q EXCEPT !.length = next % (MaxLength + 1)]
  BY <1>2 DEF AddDigit
<1>6. AddDigit(q, base, d).length = next % (MaxLength + 1)
  BY <1>5, SetFields
<1> QED BY <1>3, <1>4, <1>6

(* What a digit leaves of the struct, accepted or not.                      *)
LEMMA AddDigitFields ==
    ASSUME NEW q, Struct(q), NEW base \in {10, 16}, NEW d,
           d.v \in 0..(base - 1), q.errno = "OK"
    PROVE  LET r == AddDigit(q, base, d) IN
           /\ Struct(r)
           /\ r.state = q.state /\ r.flags = q.flags /\ r.nread = q.nread
           /\ r.errno = "OK" => /\ r.length = q.length * base + d.v
                                /\ r.length < MaxLength
           /\ r.errno # "OK" => r.length = q.length
<1> DEFINE r == AddDigit(q, base, d)
           e == Erroneous(q, "INVALID_CONTENT_LENGTH")
           n == (q.length * base + d.v) % (MaxLength + 1)
           s == [q EXCEPT !.length = n]
<1>1. /\ Struct(e) /\ e.state = q.state /\ e.flags = q.flags /\ e.nread = q.nread
      /\ e.errno = "INVALID_CONTENT_LENGTH" /\ e.length = q.length
  BY ErroneousFields DEF Same
<1>2. n \in 0..MaxLength
  <2>1. q.length \in 0..MaxLength /\ MaxLength \in Nat
    BY MaxLengthAssumption DEF Struct
  <2>2. q.length * base + d.v \in Nat
    BY <2>1
  <2> QED BY <2>1, <2>2
<1>3. /\ Struct(s) /\ s.state = q.state /\ s.flags = q.flags /\ s.nread = q.nread
      /\ s.errno = q.errno
  BY <1>2, SetFields
<1>4. r = e \/ r = s
  BY DEF AddDigit
<1>5. r.errno = "OK" => /\ r.length = q.length * base + d.v
                        /\ r.length < MaxLength
  BY DigitExact
<1> HIDE DEF r, e, s
<1> QED BY <1>1, <1>3, <1>4, <1>5 DEF r

(* The same of the header's kind and of flags.                              *)
LEMMA SetHeader ==
    ASSUME NEW q, Struct(q), NEW h \in HeaderStates
    PROVE  LET r == [q EXCEPT !.header = h] IN
           /\ Struct(r) /\ Same(r, q)
           /\ r.state = q.state /\ r.errno = q.errno
BY DEF Struct, Same

LEMMA AddFlag ==
    ASSUME NEW q, Struct(q), NEW f \in Flags
    PROVE  LET r == [q EXCEPT !.flags = @ \cup {f}] IN
           /\ Struct(r)
           /\ r.state = q.state /\ r.errno = q.errno
           /\ r.length = q.length /\ r.nread = q.nread
           /\ r.flags = q.flags \cup {f}
BY DEF Struct

(* A header's value extends content_length by a digit, or leaves it alone,  *)
(* and never touches the flags but for those of WithFlag.                   *)
Extends(r, q, c) ==
    IF r.errno = "OK" /\ q.header = "h_content_length" /\ IsDecimal(c)
    THEN r.length = q.length * 10 + c.v /\ r.length < MaxLength
    ELSE r.length = q.length

LEMMA ConnectionItemType ==
    ASSUME NEW c PROVE ConnectionItem(c) \in HeaderStates
BY DEF ConnectionItem, HeaderStates

LEMMA ValueFields ==
    ASSUME NEW q, Struct(q), q.errno = "OK", NEW c, TokenOK(c)
    PROVE  LET r == Value(q, c) IN
           /\ Struct(r)
           /\ r.state = q.state /\ r.nread = q.nread
           /\ \A f \in {"F_TRAILING", "F_CONTENTLENGTH"} : f \in r.flags <=> f \in q.flags
           /\ Extends(r, q, c)
<1> DEFINE r == Value(q, c)
           Good(x) == /\ Struct(x)
                      /\ x.state = q.state /\ x.nread = q.nread
                      /\ \A f \in {"F_TRAILING", "F_CONTENTLENGTH"} :
                            f \in x.flags <=> f \in q.flags
<1>1. CASE q.header = "h_content_length"
  <2>1. CASE c = SP
    <3>1. r = q /\ ~IsDecimal(c)
      BY <1>1, <2>1 DEF Value, SP, Token, IsDecimal
    <3> QED BY <3>1 DEF Extends
  <2>2. CASE c # SP /\ ~IsDecimal(c)
    <3>1. r = Erroneous(q, "INVALID_CONTENT_LENGTH")
      BY <1>1, <2>2 DEF Value
    <3> QED BY <2>2, <3>1, ErroneousFields DEF Extends, Same
  <2>3. CASE c # SP /\ IsDecimal(c)
    <3>1. r = AddDigit(q, 10, c)
      BY <1>1, <2>3 DEF Value
    <3>2. c.v \in 0..(10 - 1)
      BY <2>3 DEF IsDecimal, TokenOK
    <3> QED BY <1>1, <2>3, <3>1, <3>2, AddDigitFields DEF Extends
  <2> QED BY <2>1, <2>2, <2>3
<1>2. CASE q.header # "h_content_length"
  <2>1. \A h \in HeaderStates : /\ Good([q EXCEPT !.header = h])
                                 /\ [q EXCEPT !.header = h].length = q.length
    BY SetHeader DEF Same
  <2>2. \A h \in HeaderStates :
            /\ Good([WithFlag(q) EXCEPT !.header = h])
            /\ [WithFlag(q) EXCEPT !.header = h].length = q.length
    <3>1. /\ Good(WithFlag(q)) /\ WithFlag(q).length = q.length
      BY WithFlagFields
    <3> HIDE DEF Good
    <3>2. SUFFICES ASSUME NEW h \in HeaderStates
                   PROVE  /\ Good([WithFlag(q) EXCEPT !.header = h])
                          /\ [WithFlag(q) EXCEPT !.header = h].length = q.length
      OBVIOUS
    <3> QED BY <3>1, SetHeader DEF Good, Same
  <2>3. /\ ConnectionItem(c) \in HeaderStates /\ "h_general" \in HeaderStates
        /\ "h_matching_connection_token_start" \in HeaderStates
        /\ "h_matching_connection_token" \in HeaderStates
    BY ConnectionItemType DEF HeaderStates
  <2>4. \/ r = q
        \/ \E h \in HeaderStates : \/ r = [q EXCEPT !.header = h]
                                   \/ r = [WithFlag(q) EXCEPT !.header = h]
    <3>1. CASE q.header = "h_matching_connection_token_start"
      BY <1>2, <2>3, <3>1 DEF Value
    <3>2. CASE q.header = "h_matching_connection_token"
      BY <1>2, <2>3, <3>2 DEF Value
    <3>3. CASE q.header = "h_transfer_encoding_chunked"
      BY <1>2, <2>3, <3>3 DEF Value
    <3>4. CASE q.header \in {"h_connection_keep_alive", "h_connection_close",
                             "h_connection_upgrade"}
      BY <1>2, <2>3, <3>4 DEF Value
    <3>5. CASE q.header = "h_matching_connection_word"
      BY <1>2, <2>3, <3>5 DEF Value
    <3>6. CASE q.header \notin {"h_matching_connection_token_start",
                                "h_matching_connection_token",
                                "h_matching_connection_word",
                                "h_transfer_encoding_chunked",
                                "h_connection_keep_alive", "h_connection_close",
                                "h_connection_upgrade"}
      BY <1>2, <3>6 DEF Value
    <3> QED BY <3>1, <3>2, <3>3, <3>4, <3>5, <3>6
  <2>5. Good(q)
    OBVIOUS
  <2>6. Good(r) /\ r.length = q.length
    <3> HIDE DEF Good, r
    <3> QED BY <2>1, <2>2, <2>4, <2>5
  <2> QED BY <1>2, <2>6 DEF Extends
<1> QED BY <1>1, <1>2

(* A value's first character: the first digit of a Content-Length, or one   *)
(* that leaves content_length alone.                                        *)
LEMMA ValueStartFields ==
    ASSUME NEW q, Struct(q), q.errno = "OK", NEW c, TokenOK(c)
    PROVE  LET r == ValueStart(q, c)
               first == r.errno = "OK" /\ q.header = "h_content_length" IN
           /\ Struct(r)
           /\ r.state = "s_header_value" /\ r.nread = q.nread
           /\ "F_TRAILING" \in r.flags <=> "F_TRAILING" \in q.flags
           /\ first => IsDecimal(c) /\ r.length = c.v /\ c.v \in 0..9
           /\ ~first => /\ r.length = q.length
                        /\ "F_CONTENTLENGTH" \in r.flags <=> "F_CONTENTLENGTH" \in q.flags
<1> DEFINE r == ValueStart(q, c)
           s == InState(q, "s_header_value")
           Good(x) == /\ Struct(x)
                      /\ x.state = "s_header_value" /\ x.nread = q.nread
                      /\ "F_TRAILING" \in x.flags <=> "F_TRAILING" \in q.flags
           Still(x) == /\ x.length = q.length
                       /\ "F_CONTENTLENGTH" \in x.flags <=> "F_CONTENTLENGTH" \in q.flags
<1>1. Good(s) /\ Still(s) /\ s.errno = "OK"
  BY InStateFields DEF Same
<1>2. \A h \in HeaderStates : /\ Good([s EXCEPT !.header = h])
                               /\ Still([s EXCEPT !.header = h])
  <2> HIDE DEF s
  <2> QED BY <1>1, SetHeader DEF Same
<1>3. /\ ConnectionItem(c) \in HeaderStates /\ "h_general" \in HeaderStates
      /\ "h_transfer_encoding_chunked" \in HeaderStates
  BY ConnectionItemType DEF HeaderStates
<1>4. CASE q.header = "h_content_length"
  <2>1. CASE ~IsDecimal(c)
    <3>1. r = Erroneous(s, "INVALID_CONTENT_LENGTH")
      BY <1>4, <2>1 DEF ValueStart
    <3> HIDE DEF s, r
    <3> QED BY <1>1, <3>1, ErroneousFields DEF Same, r
  <2>2. CASE IsDecimal(c) /\ "F_CONTENTLENGTH" \in q.flags
    <3>1. r = Erroneous(s, "UNEXPECTED_CONTENT_LENGTH")
      BY <1>4, <2>2 DEF ValueStart
    <3> HIDE DEF s, r
    <3> QED BY <1>1, <3>1, ErroneousFields DEF Same, r
  <2>3. CASE IsDecimal(c) /\ "F_CONTENTLENGTH" \notin q.flags
    <3>1. r = [s EXCEPT !.flags = @ \cup {"F_CONTENTLENGTH"}, !.length = c.v]
      BY <1>4, <2>3 DEF ValueStart
    <3>2. c.v \in 0..9 /\ c.v \in 0..MaxLength
      BY <2>3, MaxLengthAssumption DEF IsDecimal, TokenOK
    <3>3. "F_CONTENTLENGTH" \in Flags
      BY DEF Flags
    <3> HIDE DEF s
    <3>4. /\ Struct(r) /\ r.length = c.v /\ r.errno = "OK"
          /\ r.state = s.state /\ r.nread = s.nread
          /\ r.flags = s.flags \cup {"F_CONTENTLENGTH"}
      BY <1>1, <3>1, <3>2, <3>3 DEF Struct
    <3> QED BY <1>1, <1>4, <2>3, <3>2, <3>4
  <2> QED BY <2>1, <2>2, <2>3
<1>5. CASE q.header = "h_upgrade"
  <2> DEFINE g == [s EXCEPT !.header = "h_general"]
  <2>1. r = [g EXCEPT !.flags = @ \cup {"F_UPGRADE"}]
    BY <1>5 DEF ValueStart
  <2>2. "F_UPGRADE" \in Flags
    BY DEF Flags
  <2>3. Good(g) /\ Still(g)
    BY <1>2, <1>3
  <2> HIDE DEF g, r
  <2>4. Good(r) /\ Still(r)
    BY <2>1, <2>2, <2>3, AddFlag
  <2> QED BY <1>5, <2>4 DEF r
<1>6. CASE q.header \notin {"h_content_length", "h_upgrade"}
  <2>1. r = s \/ \E h \in HeaderStates : r = [s EXCEPT !.header = h]
    BY <1>3, <1>6 DEF ValueStart
  <2>2. Good(r) /\ Still(r)
    <3> HIDE DEF r, s, Good, Still
    <3> QED BY <1>1, <1>2, <2>1
  <2> QED BY <1>6, <2>2
<1> QED BY <1>4, <1>5, <1>6

-----------------------------------------------------------------------------
(* What has been reported of the message, given where the parser is in it.  *)
Position ==
    /\ phase \in {"begun", "headers", "complete"}
    /\ p.state \in AfterHeaders \/ "F_TRAILING" \in p.flags => phase # "begun"
    /\ phase = "headers" => p.state \in AfterHeaders \/ "F_TRAILING" \in p.flags
    /\ phase = "complete" =>
          p.state \in Starts \cup {"s_dead"}
             \/ (p.state = "s_body_identity_eof" /\ call = "done")
    /\ p.state \in Starts => phase # "headers" /\ (phase = "complete" => kept)
    /\ p.state = "s_start_req" => phase = "complete"
    /\ p.state \in {"s_headers_done", "s_body_identity"} => "F_TRAILING" \notin p.flags

(* content_length is the number in the input for as long as that counts.    *)
Counted == "F_CONTENTLENGTH" \in p.flags /\ phase = "begun" =>
               p.length = exact /\ exact < MaxLength

Numbers ==
    /\ Counted
    /\ p.state \in SizeStates => p.length = exact /\ exact < MaxLength
    /\ p.state \in {"s_body_identity", "s_chunk_data"} => p.length \notin {0, MaxLength}
    /\ p.state = "s_chunk_data_almost_done" => p.length = 0
    /\ p.state \in ChunkStates => "F_CHUNKED" \in p.flags
    /\ FramedOnce

(* The byte that a message ends with, given to the parser or due again.     *)
Own == IF p.state = "s_message_done" /\ "F_TRAILING" \notin p.flags THEN Byte ELSE LF

Call ==
    /\ call = "running" => p.errno = "OK"
    /\ ch # None => call = "running" /\ unread = None
    /\ p.state = "s_header_value_start" => ch = SP
    /\ p.state = "s_chunk_size_start" /\ p.errno \in {"OK", "PAUSED"} =>
          p.nread = IF ch = None THEN 0 ELSE 1
    /\ p.state \in Ends =>
          /\ ch # None => ch = Own
          /\ ch = None /\ p.errno \in {"OK", "PAUSED"} => unread = Own
    /\ p.state \notin Ends => unread = None
    /\ p.state = "s_body_identity" /\ ch # None => ch = Byte

IInv ==
    /\ Struct(p) /\ left \in Nat
    /\ TokenOK(ch) /\ TokenOK(unread)
    /\ Position /\ Numbers /\ Call

(* How a round of the loop ends that does not give the token back: the      *)
(* token is consumed or stays, or the call returns.                         *)
Moves ==
    /\ unread' = unread
    /\ \/ ch' = None /\ call' \in {"idle", "done"}
       \/ ch' \in {None, ch} /\ call' = call /\ p'.errno = "OK"

LEMMA ConsumeMoves ==
    ASSUME NEW q, q.errno = "OK", Consume(q)
    PROVE  Moves /\ p' = q /\ ch' = None
BY DEF Consume, Moves

LEMMA ReexecuteMoves ==
    ASSUME NEW q, q.errno = "OK", Reexecute(q)
    PROVE  Moves /\ p' = q /\ ch' = ch
BY DEF Reexecute, Moves

LEMMA ErrorMoves ==
    ASSUME NEW q, Error(q)
    PROVE  Moves /\ p' = q /\ ch' = None
BY DEF Error, Moves

LEMMA ResultMoves ==
    ASSUME NEW q, Result(q)
    PROVE  Moves /\ p' = q /\ ch' = None
BY ConsumeMoves, ErrorMoves DEF Result

LEMMA FailsMoves ==
    ASSUME Struct(p), NEW e, Fails(e)
    PROVE  /\ Moves /\ ch' = None
           /\ Struct(p') /\ Same(p', p) /\ p'.state = p.state /\ p'.errno = e
BY ErrorMoves, ErroneousFields DEF Fails

LEMMA CallsBackMoves ==
    ASSUME NEW q, Struct(q), CallsBack(q) \/ CallsBackAndReturns(q)
    PROVE  /\ Moves /\ ch' = None
           /\ Struct(p') /\ Same(p', q) /\ p'.state = q.state
<1>1. ASSUME NEW r \in Outcomes, p' = Erroneous(q, r)
      PROVE  Struct(p') /\ Same(p', q) /\ p'.state = q.state /\ p'.errno = r
  BY <1>1, ErroneousFields
<1>2. CASE CallsBack(q)
  BY <1>1, <1>2 DEF CallsBack, Moves
<1>3. CASE CallsBackAndReturns(q)
  BY <1>1, <1>3 DEF CallsBackAndReturns, Moves
<1> QED BY <1>2, <1>3

(* A round inside the start line or the header block, with no event.        *)
LEMMA LineStep ==
    ASSUME IInv,
           call = "running", ch # None,
           p.state \notin Starts \cup AfterHeaders \cup {"s_dead"},
           Moves, Struct(p'), left' = left, Counted',
           "F_TRAILING" \in p'.flags <=> "F_TRAILING" \in p.flags,
           p'.state \notin Starts \cup AfterHeaders,
           p'.state = "s_header_value_start" => ch' = SP,
           UNCHANGED <<phase, kept>>
    PROVE  IInv'
<1>1. Position'
  BY DEF IInv, Position, AfterHeaders, Starts, Ends
<1>2. Numbers'
  <2>1. FramedOnce'
    BY DEF IInv, Position, FramedOnce
  <2> QED BY <2>1 DEF Numbers, AfterHeaders, SizeStates, ChunkStates
<1>3. TokenOK(ch') /\ TokenOK(unread')
  BY DEF IInv, Moves, TokenOK, None, Token
<1>4. Call'
  BY DEF IInv, Call, Moves, AfterHeaders, Ends, ChunkStates
<1> QED BY <1>1, <1>2, <1>3, <1>4 DEF IInv

(* The same when no flag and no number changes.                             *)
LEMMA QuietStep ==
    ASSUME IInv,
           call = "running", ch # None,
           p.state \notin Starts \cup AfterHeaders \cup {"s_dead"},
           Moves, Struct(p'), Same(p', p), left' = left,
           p'.state \notin Starts \cup AfterHeaders \cup {"s_header_value_start"},
           UNCHANGED <<exact, phase, kept>>
    PROVE  IInv'
<1>1. Counted'
  BY DEF IInv, Numbers, Counted, Same
<1> QED BY <1>1, LineStep DEF Same

(* A struct that a round inside the start line may leave.                   *)
Quiet(q) ==
    /\ Struct(q) /\ Same(q, p) /\ q.errno = "OK"
    /\ q.state \notin Starts \cup AfterHeaders \cup {"s_header_value_start"}

LEMMA QuietMoves ==
    ASSUME IInv,
           call = "running", ch # None,
           p.state \notin Starts \cup AfterHeaders \cup {"s_dead"},
           NEW q, Quiet(q),
           \/ Consume(q) \/ Reexecute(q) \/ CallsBack(q) \/ CallsBackData(q)
           \/ \E e : Error(Erroneous(q, e)),
           left' = left, UNCHANGED <<exact, phase, kept>>
    PROVE  IInv'
<1>1. CASE Consume(q) \/ Reexecute(q)
  BY <1>1, ConsumeMoves, ReexecuteMoves, QuietStep DEF Quiet
<1>2. CASE CallsBack(q)
  <2>1. Moves /\ Struct(p') /\ Same(p', q) /\ p'.state = q.state
    BY <1>2, CallsBackMoves DEF Quiet
  <2> QED BY <2>1, QuietStep DEF Quiet, Same
<1>3. CASE CallsBackData(q)
  BY <1>1, <1>2, <1>3 DEF CallsBackData
<1>4. ASSUME NEW e, Error(Erroneous(q, e))
      PROVE  IInv'
  <2>1. /\ Moves /\ Struct(p') /\ Same(p', q) /\ p'.state = q.state
    BY <1>4, ErrorMoves, ErroneousFields DEF Quiet
  <2> QED BY <2>1, QuietStep DEF Quiet, Same
<1> QED BY <1>1, <1>2, <1>3, <1>4

(* The states that the rounds of start lines and header blocks lead to.     *)
LineStates ==
    UrlStates \cup DOMAIN After \cup
    {"s_req_method", "s_req_spaces_before_url",
     "s_req_http_start", "s_req_http_end", "s_req_line_almost_done",
     "s_res_http_end", "s_res_first_status_code",
     "s_res_status_code", "s_res_status_start", "s_res_status",
     "s_res_line_almost_done", "s_header_field_start",
     "s_header_value_discard_ws", "s_header_value_discard_ws_almost_done",
     "s_header_value_discard_lws", "s_header_value_start", "s_header_value",
     "s_header_value_lws", "s_header_almost_done", "s_headers_almost_done"}

LEMMA LineStatesApart ==
    /\ LineStates \cap (Starts \cup AfterHeaders \cup {"s_dead"}) = {}
    /\ "s_header_value_start" \notin UrlStates \cup DOMAIN After
    /\ UrlStates \subseteq LineStates /\ DOMAIN After \subseteq LineStates
BY DEF LineStates, Starts, AfterHeaders, ChunkStates, Ends, UrlStates, After

LEMMA AfterStates ==
    ASSUME NEW s \in DOMAIN After
    PROVE  After[s] \in LineStates \ {"s_header_value_start"}
BY DEF After, LineStates

(* A character of a URL leads into a URL, or nowhere.                       *)
LEMMA UrlCharStates ==
    ASSUME NEW s, NEW c
    PROVE  parse_url_char(s, c) \in UrlStates \cup {"s_dead"}
<1> DEFINE r == parse_url_char(s, c)
<1> USE DEF parse_url_char, UrlStates
<1>1. CASE s \in {"s_req_spaces_before_url", "s_req_schema", "s_req_schema_slash",
                  "s_req_schema_slash_slash"}
  BY <1>1
<1>2. CASE s \in {"s_req_server_start", "s_req_server", "s_req_server_with_at"}
  BY <1>2
<1>3. CASE s \in {"s_req_path", "s_req_query_string_start", "s_req_query_string"}
  BY <1>3
<1>4. CASE s \in {"s_req_fragment_start", "s_req_fragment"}
  BY <1>4
<1>5. CASE s \notin {"s_req_spaces_before_url", "s_req_schema", "s_req_schema_slash",
                     "s_req_schema_slash_slash", "s_req_server_start", "s_req_server",
                     "s_req_server_with_at", "s_req_path", "s_req_query_string_start",
                     "s_req_query_string", "s_req_fragment_start", "s_req_fragment"}
  BY <1>5
<1> QED BY <1>1, <1>2, <1>3, <1>4, <1>5

(* Records that are quiet because of the state they are in.                 *)
LEMMA QuietStates ==
    ASSUME IInv, call = "running"
    PROVE  /\ \A s \in (LineStates \cup {"s_dead"}) \ {"s_header_value_start"} :
                 Quiet(InState(p, s))
           /\ p.state \in LineStates \ {"s_header_value_start"} => Quiet(p)
<1>1. p.errno = "OK" /\ Struct(p)
  BY DEF IInv, Call
<1>2. "s_dead" \notin Starts \cup AfterHeaders
  BY DEF Starts, AfterHeaders, ChunkStates, Ends
<1> QED BY <1>1, <1>2, InStateFields, LineStatesApart DEF Quiet, Same

(* A field that the invariant does not see.                                 *)
LEMMA SetOther ==
    ASSUME NEW q, Struct(q), NEW n
    PROVE  \A r \in {[q EXCEPT !.method = n], [q EXCEPT !.index = n],
                     [q EXCEPT !.http11 = n], [q EXCEPT !.status = n]} :
               Struct(r) /\ Same(r, q) /\ r.state = q.state /\ r.errno = q.errno
<1>1. LET r == [q EXCEPT !.method = n] IN
      Struct(r) /\ Same(r, q) /\ r.state = q.state /\ r.errno = q.errno
  BY DEF Struct, Same
<1>2. LET r == [q EXCEPT !.index = n] IN
      Struct(r) /\ Same(r, q) /\ r.state = q.state /\ r.errno = q.errno
  BY DEF Struct, Same
<1>3. LET r == [q EXCEPT !.http11 = n] IN
      Struct(r) /\ Same(r, q) /\ r.state = q.state /\ r.errno = q.errno
  BY DEF Struct, Same
<1>4. LET r == [q EXCEPT !.status = n] IN
      Struct(r) /\ Same(r, q) /\ r.state = q.state /\ r.errno = q.errno
  BY DEF Struct, Same
<1> QED BY <1>1, <1>2, <1>3, <1>4

(* ... and with other fields that the invariant does not see.               *)
LEMMA QuietChange ==
    ASSUME IInv, call = "running",
           NEW s \in LineStates \ {"s_header_value_start"}
    PROVE  /\ \A a, b : Quiet([p EXCEPT !.state = s, !.index = a, !.method = b])
           /\ \A b : Quiet([p EXCEPT !.http11 = b, !.state = s])
           /\ \A n : Quiet([p EXCEPT !.status = n, !.state = s])
           /\ \A h \in HeaderStates : Quiet([p EXCEPT !.header = h, !.state = s])
           /\ \A a, b : p.state = s => Quiet([p EXCEPT !.method = b, !.index = a])
           /\ \A n : p.state = s => Quiet([p EXCEPT !.status = n])
<1>1. p.errno = "OK" /\ Struct(p)
  BY DEF IInv, Call
<1>2. s \notin Starts \cup AfterHeaders \cup {"s_header_value_start"}
  BY LineStatesApart
<1>3. \A a, b : Quiet([p EXCEPT !.state = s, !.index = a, !.method = b])
  <2> SUFFICES ASSUME NEW a, NEW b
               PROVE  Quiet([p EXCEPT !.state = s, !.index = a, !.method = b])
    OBVIOUS
  <2> DEFINE g == InState(p, s)
             i == [g EXCEPT !.index = a]
             r == [i EXCEPT !.method = b]
  <2>1. [p EXCEPT !.state = s, !.index = a, !.method = b] = r
    BY DEF InState
  <2>2. Struct(g) /\ Same(g, p) /\ g.errno = "OK" /\ g.state = s
    BY <1>1, InStateFields
  <2>3. Struct(i) /\ Same(i, g) /\ i.errno = g.errno /\ i.state = g.state
    <3> HIDE DEF g
    <3> QED BY <2>2, SetOther
  <2>4. Struct(r) /\ Same(r, i) /\ r.errno = i.errno /\ r.state = i.state
    <3> HIDE DEF i
    <3> QED BY <2>3, SetOther
  <2> HIDE DEF g, i, r
  <2> QED BY <1>2, <2>1, <2>2, <2>3, <2>4 DEF Quiet, Same
<1>4. \A b : Quiet([p EXCEPT !.http11 = b, !.state = s])
  <2> SUFFICES ASSUME NEW b PROVE Quiet([p EXCEPT !.http11 = b, !.state = s])
    OBVIOUS
  <2> DEFINE g == [p EXCEPT !.http11 = b]
  <2>1. [p EXCEPT !.http11 = b, !.state = s] = InState(g, s)
    BY DEF InState
  <2>2. Struct(g) /\ Same(g, p) /\ g.errno = "OK" /\ g.state = p.state
    BY <1>1, SetOther
  <2> HIDE DEF g
  <2>3. LET r == InState(g, s) IN Struct(r) /\ Same(r, g) /\ r.errno = g.errno /\ r.state = s
    BY <2>2, InStateFields
  <2> QED BY <1>2, <2>1, <2>2, <2>3 DEF Quiet, Same
<1>5. \A n : Quiet([p EXCEPT !.status = n, !.state = s])
  <2> SUFFICES ASSUME NEW n PROVE Quiet([p EXCEPT !.status = n, !.state = s])
    OBVIOUS
  <2> DEFINE g == [p EXCEPT !.status = n]
  <2>1. [p EXCEPT !.status = n, !.state = s] = InState(g, s)
    BY DEF InState
  <2>2. Struct(g) /\ Same(g, p) /\ g.errno = "OK" /\ g.state = p.state
    BY <1>1, SetOther
  <2> HIDE DEF g
  <2>3. LET r == InState(g, s) IN Struct(r) /\ Same(r, g) /\ r.errno = g.errno /\ r.state = s
    BY <2>2, InStateFields
  <2> QED BY <1>2, <2>1, <2>2, <2>3 DEF Quiet, Same
<1>6. \A h \in HeaderStates : Quiet([p EXCEPT !.header = h, !.state = s])
  <2> SUFFICES ASSUME NEW h \in HeaderStates PROVE Quiet([p EXCEPT !.header = h, !.state = s])
    OBVIOUS
  <2> DEFINE g == [p EXCEPT !.header = h]
  <2>1. [p EXCEPT !.header = h, !.state = s] = InState(g, s)
    BY DEF InState
  <2>2. Struct(g) /\ Same(g, p) /\ g.errno = "OK" /\ g.state = p.state
    BY <1>1, SetHeader
  <2> HIDE DEF g
  <2>3. LET r == InState(g, s) IN Struct(r) /\ Same(r, g) /\ r.errno = g.errno /\ r.state = s
    BY <2>2, InStateFields
  <2> QED BY <1>2, <2>1, <2>2, <2>3 DEF Quiet, Same
<1>7. \A a, b : p.state = s => Quiet([p EXCEPT !.method = b, !.index = a])
  <2> SUFFICES ASSUME NEW a, NEW b, p.state = s
               PROVE  Quiet([p EXCEPT !.method = b, !.index = a])
    OBVIOUS
  <2> DEFINE g == [p EXCEPT !.method = b]
             r == [g EXCEPT !.index = a]
  <2>1. [p EXCEPT !.method = b, !.index = a] = r
    OBVIOUS
  <2>2. Struct(g) /\ Same(g, p) /\ g.errno = "OK" /\ g.state = s
    BY <1>1, SetOther
  <2>3. Struct(r) /\ Same(r, g) /\ r.errno = g.errno /\ r.state = g.state
    <3> HIDE DEF g
    <3> QED BY <2>2, SetOther
  <2> HIDE DEF g, r
  <2> QED BY <1>2, <2>1, <2>2, <2>3 DEF Quiet, Same
<1>8. \A n : p.state = s => Quiet([p EXCEPT !.status = n])
  BY <1>1, <1>2, SetOther DEF Quiet
<1> QED BY <1>3, <1>4, <1>5, <1>6, <1>7, <1>8

-----------------------------------------------------------------------------
(* One lemma per kind of step.                                              *)

LEMMA RequestLineQuiet ==
    ASSUME IInv,
           \/ ReqMethod \/ ReqSpacesBeforeUrl \/ Url \/ ReqHttpStart \/ ReqHttpEnd
    PROVE  IInv'
<1>1. Struct(p)
  BY DEF IInv
<1>2. CASE ReqMethod
  <2>1. /\ call = "running" /\ ch # None /\ p.state = "s_req_method"
        /\ left' = left /\ UNCHANGED <<exact, phase, kept>>
    BY <1>2 DEF ReqMethod, At, NoEvent
  <2>2. "s_req_method" \in LineStates \ {"s_header_value_start"}
        /\ "s_req_spaces_before_url" \in LineStates \ {"s_header_value_start"}
    BY DEF LineStates
  <2>3. Quiet(p)
    BY <2>1, <2>2, QuietStates
  <2>4. \E q : Quiet(q) /\ (Consume(q) \/ \E e : Error(Erroneous(q, e)))
    <3>1. CASE \E a, b : Consume([p EXCEPT !.state = "s_req_spaces_before_url",
                                          !.index = a, !.method = b])
      BY <2>1, <2>2, <3>1, QuietChange
    <3>2. CASE \E a, b : Consume([p EXCEPT !.method = b, !.index = a])
      BY <2>1, <2>2, <3>2, QuietChange
    <3>3. CASE Fails("INVALID_METHOD")
      BY <2>3, <3>3 DEF Fails
    <3> QED BY <1>2, <3>1, <3>2, <3>3 DEF ReqMethod
  <2> QED BY <2>1, <2>2, <2>4, QuietMoves, LineStatesApart
<1>3. CASE ReqSpacesBeforeUrl
  <2>1. /\ call = "running" /\ ch # None /\ p.state = "s_req_spaces_before_url"
        /\ left' = left /\ UNCHANGED <<exact, phase, kept>>
    BY <1>3 DEF ReqSpacesBeforeUrl, At, NoEvent, NoNumber
  <2>2. "s_req_spaces_before_url" \in LineStates \ {"s_header_value_start"}
    BY DEF LineStates
  <2>3. ASSUME NEW s \in UrlStates \cup {"s_dead"}, NEW n, UrlChar(s, n)
        PROVE  \E q : Quiet(q) /\ (Consume(q) \/ \E e : Error(Erroneous(q, e)))
    BY <2>1, <2>3, QuietStates, LineStatesApart DEF UrlChar
  <2>4. \E q : Quiet(q) /\ (Consume(q) \/ \E e : Error(Erroneous(q, e)))
    <3>1. CASE Consume(p)
      BY <2>1, <2>2, <3>1, QuietStates
    <3>2. CASE \E s, n : UrlChar(parse_url_char(s, ch), n)
      BY <2>3, <3>2, UrlCharStates
    <3> QED BY <1>3, <3>1, <3>2 DEF ReqSpacesBeforeUrl
  <2> QED BY <2>1, <2>2, <2>4, QuietMoves, LineStatesApart
<1>4. CASE Url
  <2>1. /\ call = "running" /\ ch # None /\ p.state \in UrlStates
        /\ left' = left /\ UNCHANGED <<exact, phase, kept>>
    BY <1>4 DEF Url, At, NoEvent, NoNumber
  <2>2. p.state \in LineStates \ {"s_header_value_start"}
    BY <2>1, LineStatesApart
  <2>3. ASSUME NEW s \in UrlStates \cup {"s_dead"}, NEW n, UrlChar(s, n)
        PROVE  \E q : Quiet(q) /\ (Consume(q) \/ \E e : Error(Erroneous(q, e)))
    BY <2>1, <2>3, QuietStates, LineStatesApart DEF UrlChar
  <2>4. \E q : Quiet(q) /\ \/ Consume(q) \/ CallsBackData(q)
                           \/ \E e : Error(Erroneous(q, e))
    <3> DEFINE older == [p EXCEPT !.http11 = FALSE]
    <3>1. CASE Fails("INVALID_URL")
      BY <2>1, <2>2, <3>1, QuietStates DEF Fails
    <3>2. CASE CallsBackData(InState(p, "s_req_http_start"))
      BY <2>1, <3>2, QuietStates DEF LineStates
    <3>3. ASSUME NEW s \in {"s_req_line_almost_done", "s_header_field_start"},
                 CallsBackData(InState(older, s))
          PROVE  \E q : Quiet(q) /\ CallsBackData(q)
      <4>1. s \in LineStates \ {"s_header_value_start"}
        BY DEF LineStates
      <4>2. Quiet([p EXCEPT !.http11 = FALSE, !.state = s])
        BY <2>1, <4>1, QuietChange
      <4> QED BY <3>3, <4>2 DEF InState
    <3>4. CASE \E s, n : UrlChar(parse_url_char(s, ch), n)
      BY <2>3, <3>4, UrlCharStates
    <3> QED BY <1>4, <3>1, <3>2, <3>3, <3>4 DEF Url
  <2> QED BY <2>1, <2>2, <2>4, QuietMoves, LineStatesApart
<1>5. CASE ReqHttpStart
  <2>1. /\ call = "running" /\ ch # None /\ p.state = "s_req_http_start"
        /\ left' = left /\ UNCHANGED <<exact, phase, kept>>
    BY <1>5 DEF ReqHttpStart, At, NoEvent, NoData
  <2>2. "s_req_http_start" \in LineStates \ {"s_header_value_start"}
        /\ "s_req_http_H" \in LineStates \ {"s_header_value_start"}
    BY DEF LineStates, After
  <2>3. Quiet(p) /\ Quiet(InState(p, "s_req_http_H"))
    BY <2>1, <2>2, QuietStates
  <2>4. Consume(p) \/ Consume(InState(p, "s_req_http_H")) \/ Fails("INVALID_CONSTANT")
    BY <1>5 DEF ReqHttpStart
  <2> QED BY <2>1, <2>2, <2>3, <2>4, QuietMoves, LineStatesApart DEF Fails
<1>6. CASE ReqHttpEnd
  <2>1. /\ call = "running" /\ ch # None /\ p.state = "s_req_http_end"
        /\ left' = left /\ UNCHANGED <<exact, phase, kept>>
    BY <1>6 DEF ReqHttpEnd, At, NoEvent, NoData
  <2>2. /\ "s_req_http_end" \in LineStates \ {"s_header_value_start"}
        /\ "s_req_line_almost_done" \in LineStates \ {"s_header_value_start"}
        /\ "s_header_field_start" \in LineStates \ {"s_header_value_start"}
    BY DEF LineStates
  <2>3. Quiet(p) /\ Quiet(InState(p, "s_req_line_almost_done"))
        /\ Quiet(InState(p, "s_header_field_start"))
    BY <2>1, <2>2, QuietStates
  <2>4. \/ Consume(InState(p, "s_req_line_almost_done"))
        \/ Consume(InState(p, "s_header_field_start")) \/ Fails("INVALID_VERSION")
    BY <1>6 DEF ReqHttpEnd
  <2> QED BY <2>1, <2>2, <2>3, <2>4, QuietMoves, LineStatesApart DEF Fails
<1> QED BY <1>2, <1>3, <1>4, <1>5, <1>6

LEMMA VersionQuiet ==
    ASSUME IInv, Http \/ HttpMajor \/ HttpDot \/ HttpMinor \/ LineAlmostDone
    PROVE  IInv'
<1>1. CASE Http \/ HttpMajor \/ HttpDot \/ HttpMinor
  <2>1. /\ call = "running" /\ ch # None /\ p.state \in DOMAIN After
        /\ left' = left /\ UNCHANGED <<exact, phase, kept>>
    BY <1>1 DEF Http, HttpMajor, HttpDot, HttpMinor, At, NoEvent, NoData, After
  <2>2. /\ p.state \in LineStates \ {"s_header_value_start"}
        /\ After[p.state] \in LineStates \ {"s_header_value_start"}
    BY <2>1, LineStatesApart, AfterStates
  <2>3. \/ Consume(InState(p, After[p.state]))
        \/ \E b : Consume([p EXCEPT !.http11 = b, !.state = After[p.state]])
        \/ \E e : Fails(e)
    BY <1>1 DEF Http, HttpMajor, HttpDot, HttpMinor
  <2>4. Quiet(p) /\ Quiet(InState(p, After[p.state]))
    BY <2>1, <2>2, QuietStates
  <2>5. \A b : Quiet([p EXCEPT !.http11 = b, !.state = After[p.state]])
    BY <2>1, <2>2, QuietChange
  <2>6. \E q : Quiet(q) /\ (Consume(q) \/ \E e : Error(Erroneous(q, e)))
    BY <2>3, <2>4, <2>5 DEF Fails
  <2> QED BY <2>1, <2>2, <2>6, QuietMoves, LineStatesApart
<1>2. CASE LineAlmostDone
  <2>1. /\ call = "running" /\ ch # None
        /\ p.state \in {"s_req_line_almost_done", "s_res_line_almost_done"}
        /\ left' = left /\ UNCHANGED <<exact, phase, kept>>
    BY <1>2 DEF LineAlmostDone, At, NoEvent, NoData
  <2>2. /\ p.state \in LineStates \ {"s_header_value_start"}
        /\ "s_header_field_start" \in LineStates \ {"s_header_value_start"}
    BY <2>1 DEF LineStates
  <2>3. Quiet(p) /\ Quiet(InState(p, "s_header_field_start"))
    BY <2>1, <2>2, QuietStates
  <2>4. Consume(InState(p, "s_header_field_start")) \/ \E e : Fails(e)
    BY <1>2 DEF LineAlmostDone
  <2> QED BY <2>1, <2>2, <2>3, <2>4, QuietMoves, LineStatesApart DEF Fails
<1> QED BY <1>1, <1>2

LEMMA StatusLineQuiet ==
    ASSUME IInv,
           \/ ResHttpEnd \/ ResFirstStatusCode \/ ResStatusCode
           \/ ResStatusStart \/ ResStatus
    PROVE  IInv'
<1>1. /\ call = "running" /\ ch # None
      /\ p.state \in {"s_res_http_end", "s_res_first_status_code", "s_res_status_code",
                      "s_res_status_start", "s_res_status"}
      /\ left' = left /\ UNCHANGED <<exact, phase, kept>>
  BY DEF ResHttpEnd, ResFirstStatusCode, ResStatusCode, ResStatusStart, ResStatus,
         At, NoEvent, NoData, NoNumber
<1>2. /\ p.state \in LineStates \ {"s_header_value_start"}
      /\ {"s_res_first_status_code", "s_res_status_code", "s_res_status_start",
          "s_res_status", "s_res_line_almost_done", "s_header_field_start"}
            \subseteq LineStates \ {"s_header_value_start"}
  BY <1>1 DEF LineStates
<1>3. /\ Quiet(p)
      /\ \A s \in {"s_res_first_status_code", "s_res_status_start", "s_res_status",
                   "s_res_line_almost_done", "s_header_field_start"} :
            Quiet(InState(p, s))
  BY <1>1, <1>2, QuietStates
<1>4. \A n : /\ Quiet([p EXCEPT !.status = n, !.state = "s_res_status_code"])
             /\ Quiet([p EXCEPT !.status = n])
  BY <1>1, <1>2, QuietChange
<1>5. \E q : Quiet(q) /\ \/ Consume(q) \/ Reexecute(q) \/ CallsBackData(q)
                         \/ \E e : Error(Erroneous(q, e))
  <2>1. CASE ResHttpEnd
    BY <1>3, <2>1 DEF ResHttpEnd, Fails
  <2>2. CASE ResFirstStatusCode
    BY <1>3, <1>4, <2>2 DEF ResFirstStatusCode, Fails
  <2>3. CASE ResStatusCode
    <3>1. CASE \E n : Result(IF n > 999 THEN Erroneous([p EXCEPT !.status = n], "INVALID_STATUS")
                                       ELSE [p EXCEPT !.status = n])
      <4>1. PICK n : Result(IF n > 999 THEN Erroneous([p EXCEPT !.status = n], "INVALID_STATUS")
                                      ELSE [p EXCEPT !.status = n])
        BY <3>1
      <4> DEFINE q == [p EXCEPT !.status = n]
      <4>2. Quiet(q)
        BY <1>4
      <4> HIDE DEF q
      <4>3. CASE n > 999
        <5>1. Result(Erroneous(q, "INVALID_STATUS"))
          BY <4>1, <4>3 DEF q
        <5>2. Erroneous(q, "INVALID_STATUS").errno = "INVALID_STATUS"
          BY <4>2, ErroneousFields DEF Quiet
        <5> QED BY <4>2, <5>1, <5>2 DEF Result
      <4>4. CASE ~(n > 999)
        BY <4>1, <4>2, <4>4 DEF Result, Quiet, q
      <4> QED BY <4>3, <4>4
    <3>2. CASE ~\E n : Result(IF n > 999 THEN Erroneous([p EXCEPT !.status = n], "INVALID_STATUS")
                                        ELSE [p EXCEPT !.status = n])
      BY <1>3, <2>3, <3>2 DEF ResStatusCode, Fails
    <3> QED BY <3>1, <3>2
  <2>4. CASE ResStatusStart
    BY <1>3, <2>4 DEF ResStatusStart
  <2>5. CASE ResStatus
    BY <1>3, <2>5 DEF ResStatus
  <2> QED BY <2>1, <2>2, <2>3, <2>4, <2>5
<1> QED BY <1>1, <1>2, <1>5, QuietMoves, LineStatesApart

LEMMA HeaderQuiet ==
    ASSUME IInv,
           HeaderFieldStart \/ HeaderValueDiscardWsAlmostDone \/ HeaderAlmostDone
    PROVE  IInv'
<1>1. /\ call = "running" /\ ch # None
      /\ p.state \in {"s_header_field_start", "s_header_value_discard_ws_almost_done",
                      "s_header_almost_done"}
      /\ left' = left /\ UNCHANGED <<exact, phase, kept>>
  BY DEF HeaderFieldStart, HeaderValueDiscardWsAlmostDone, HeaderAlmostDone,
         At, NoEvent, NoData
<1>2. /\ p.state \in LineStates \ {"s_header_value_start"}
      /\ {"s_headers_almost_done", "s_header_value_discard_lws", "s_header_value_lws",
          "s_header_value_discard_ws"}
            \subseteq LineStates \ {"s_header_value_start"}
  BY <1>1 DEF LineStates
<1>3. /\ Quiet(p)
      /\ \A s \in {"s_headers_almost_done", "s_header_value_discard_lws",
                   "s_header_value_lws"} : Quiet(InState(p, s))
  BY <1>1, <1>2, QuietStates
<1>4. \A h \in HeaderStates :
          Quiet([p EXCEPT !.header = h, !.state = "s_header_value_discard_ws"])
  BY <1>1, <1>2, QuietChange
<1>5. \E q : Quiet(q) /\ \/ Consume(q) \/ Reexecute(q)
                         \/ \E e : Error(Erroneous(q, e))
  <2>1. CASE HeaderFieldStart
    <3>1. ch.t = "name" => FieldState[ch.name] \in HeaderStates
      BY DEF IInv, TokenOK, FieldState, HeaderStates
    <3> QED BY <1>3, <1>4, <2>1, <3>1 DEF HeaderFieldStart, Fails
  <2>2. CASE HeaderValueDiscardWsAlmostDone
    BY <1>3, <2>2 DEF HeaderValueDiscardWsAlmostDone, Fails
  <2>3. CASE HeaderAlmostDone
    BY <1>3, <2>3 DEF HeaderAlmostDone, Fails
  <2> QED BY <2>1, <2>2, <2>3
<1> QED BY <1>1, <1>2, <1>5, QuietMoves, LineStatesApart

LEMMA HeaderValueStep ==
    ASSUME IInv, HeaderValueDiscardWs \/ HeaderValueStart \/ HeaderValue
    PROVE  IInv'
<1>1. /\ call = "running" /\ ch # None
      /\ p.state \in {"s_header_value_discard_ws", "s_header_value_start",
                      "s_header_value"}
      /\ left' = left /\ UNCHANGED <<phase, kept>>
  BY DEF HeaderValueDiscardWs, HeaderValueStart, HeaderValue, At, NoEvent, NoData
<1>2. /\ p.state \in LineStates
      /\ {"s_header_value", "s_header_value_discard_ws_almost_done",
          "s_header_value_discard_lws", "s_header_almost_done"}
            \subseteq LineStates \ {"s_header_value_start"}
  BY <1>1 DEF LineStates
<1>3. Struct(p) /\ p.errno = "OK" /\ TokenOK(ch)
  BY <1>1 DEF IInv, Call
<1>4. \A s \in {"s_header_value_discard_ws_almost_done", "s_header_value_discard_lws",
                "s_header_almost_done"} : Quiet(InState(p, s))
  BY <1>1, <1>2, QuietStates
<1>5. ASSUME NEW q, Quiet(q),
             Consume(q) \/ Reexecute(q) \/ \E e : Error(Erroneous(q, e)),
             exact' = exact
      PROVE  IInv'
  BY <1>1, <1>2, <1>5, QuietMoves, LineStatesApart
<1>6. ASSUME NEW q, Result(q), Struct(q), q.state = "s_header_value",
             "F_TRAILING" \in q.flags <=> "F_TRAILING" \in p.flags,
             "F_CONTENTLENGTH" \in q.flags /\ phase = "begun" =>
                 q.length = exact' /\ exact' < MaxLength
      PROVE  IInv'
  <2>1. Moves /\ p' = q /\ ch' = None
    BY <1>6, ResultMoves
  <2>2. Counted'
    BY <1>1, <1>6, <2>1 DEF Counted
  <2>3. "s_header_value" \notin Starts \cup AfterHeaders
    BY <1>2, LineStatesApart
  <2> QED BY <1>1, <1>2, <1>6, <2>1, <2>2, <2>3, LineStatesApart, LineStep
<1>7. CASE HeaderValueDiscardWs
  <2>1. CASE ch \in {SP, CR, LF}
    <3>1. Quiet(p)
      BY <1>1, <1>2, <1>7, QuietStates DEF HeaderValueDiscardWs, At
    <3>2. /\ exact' = exact
          /\ \/ Consume(p)
             \/ Consume(InState(p, "s_header_value_discard_ws_almost_done"))
             \/ Consume(InState(p, "s_header_value_discard_lws"))
      BY <1>7, <2>1 DEF HeaderValueDiscardWs
    <3> QED BY <1>4, <1>5, <3>1, <3>2
  <2>2. CASE ch \notin {SP, CR, LF}
    <3> DEFINE q == ValueStart(p, ch)
               first == q.errno = "OK" /\ p.header = "h_content_length"
    <3>1. /\ Struct(q) /\ q.state = "s_header_value"
          /\ "F_TRAILING" \in q.flags <=> "F_TRAILING" \in p.flags
          /\ first => IsDecimal(ch) /\ q.length = ch.v /\ ch.v \in 0..9
          /\ ~first => /\ q.length = p.length
                       /\ "F_CONTENTLENGTH" \in q.flags <=> "F_CONTENTLENGTH" \in p.flags
      BY <1>3, ValueStartFields
    <3>2. Result(q) /\ exact' = IF first THEN ch.v ELSE exact
      BY <1>7, <2>2 DEF HeaderValueDiscardWs, ReadsFirst
    <3> HIDE DEF q
    <3>3. "F_CONTENTLENGTH" \in q.flags /\ phase = "begun" =>
              q.length = exact' /\ exact' < MaxLength
      <4>1. CASE first
        BY <3>1, <3>2, <4>1, MaxLengthAssumption
      <4>2. CASE ~first
        BY <3>1, <3>2, <4>2 DEF IInv, Numbers, Counted
      <4> QED BY <4>1, <4>2
    <3> QED BY <1>6, <3>1, <3>2, <3>3
  <2> QED BY <2>1, <2>2
<1>8. CASE HeaderValueStart
  <2> DEFINE q == ValueStart(p, ch)
  <2>1. ch = SP /\ ~IsDecimal(ch)
    BY <1>1, <1>8 DEF HeaderValueStart, At, IInv, Call, IsDecimal, SP, Token
  <2>2. /\ Struct(q) /\ q.state = "s_header_value"
        /\ "F_TRAILING" \in q.flags <=> "F_TRAILING" \in p.flags
        /\ q.length = p.length
        /\ "F_CONTENTLENGTH" \in q.flags <=> "F_CONTENTLENGTH" \in p.flags
    BY <1>3, <2>1, ValueStartFields
  <2>3. Result(q) /\ exact' = exact
    BY <1>8 DEF HeaderValueStart, NoData
  <2> HIDE DEF q
  <2>4. "F_CONTENTLENGTH" \in q.flags /\ phase = "begun" =>
            q.length = exact' /\ exact' < MaxLength
    BY <2>2, <2>3 DEF IInv, Numbers, Counted
  <2> QED BY <1>6, <2>2, <2>3, <2>4
<1>9. CASE HeaderValue
  <2>1. CASE ch \in {CR, LF, Junk}
    <3>1. Quiet(p)
      BY <1>1, <1>2, <1>9, QuietStates DEF HeaderValue, At
    <3>2. /\ exact' = exact
          /\ \/ Consume(InState(p, "s_header_almost_done"))
             \/ Reexecute(InState(p, "s_header_almost_done"))
             \/ Error(Erroneous(p, "INVALID_HEADER_TOKEN"))
             \/ Consume(p)
      BY <1>9, <2>1 DEF HeaderValue, Fails
    <3> QED BY <1>4, <1>5, <3>1, <3>2
  <2>2. CASE ch \notin {CR, LF, Junk}
    <3> DEFINE q == Value(p, ch)
               digit == q.errno = "OK" /\ p.header = "h_content_length" /\ IsDecimal(ch)
    <3>1. /\ Struct(q) /\ q.state = p.state
          /\ \A f \in {"F_TRAILING", "F_CONTENTLENGTH"} : f \in q.flags <=> f \in p.flags
          /\ Extends(q, p, ch)
      BY <1>3, ValueFields
    <3>2. Result(q) /\ exact' = IF digit THEN exact * 10 + ch.v ELSE exact
      BY <1>9, <2>2 DEF HeaderValue
    <3>3. IF digit THEN q.length = p.length * 10 + ch.v /\ q.length < MaxLength
                   ELSE q.length = p.length
      BY <3>1 DEF Extends
    <3>4. p.state = "s_header_value"
      BY <1>9 DEF HeaderValue, At
    <3> HIDE DEF q, digit
    <3>5. "F_CONTENTLENGTH" \in q.flags /\ phase = "begun" =>
              q.length = exact' /\ exact' < MaxLength
      <4>1. SUFFICES ASSUME "F_CONTENTLENGTH" \in q.flags /\ phase = "begun"
                     PROVE  q.length = exact' /\ exact' < MaxLength
        OBVIOUS
      <4>2. p.length = exact /\ exact < MaxLength
        BY <3>1, <4>1 DEF IInv, Numbers, Counted
      <4> QED BY <3>2, <3>3, <4>2
    <3> QED BY <1>6, <3>1, <3>2, <3>4, <3>5
  <2> QED BY <2>1, <2>2
<1> QED BY <1>7, <1>8, <1>9

LEMMA HeaderFoldStep ==
    ASSUME IInv, HeaderValueDiscardLws \/ HeaderValueLws
    PROVE  IInv'
<1>1. /\ call = "running" /\ ch # None
      /\ p.state \in {"s_header_value_discard_lws", "s_header_value_lws"}
      /\ left' = left /\ UNCHANGED <<exact, phase, kept>>
  BY DEF HeaderValueDiscardLws, HeaderValueLws, At, NoEvent, NoData
<1>2. /\ p.state \in LineStates
      /\ "s_header_value_discard_ws" \in LineStates \ {"s_header_value_start"}
      /\ "s_header_value_start" \in LineStates /\ "s_header_field_start" \in LineStates
  BY <1>1 DEF LineStates
<1>3. Struct(p) /\ p.errno = "OK"
  BY <1>1 DEF IInv, Call
<1>4. CASE Consume(InState(p, "s_header_value_discard_ws"))
  <2>1. Quiet(InState(p, "s_header_value_discard_ws"))
    BY <1>1, <1>2, QuietStates
  <2> QED BY <1>1, <1>2, <1>4, <2>1, QuietMoves, LineStatesApart
<1>5. CASE ch = SP /\ Reexecute(InState(p, "s_header_value_start"))
  <2>1. LET q == InState(p, "s_header_value_start") IN
        /\ Struct(q) /\ Same(q, p) /\ q.errno = "OK"
        /\ q.state = "s_header_value_start"
    BY <1>3, InStateFields
  <2>2. /\ Moves /\ ch' = ch /\ Struct(p') /\ Same(p', p)
        /\ p'.state = "s_header_value_start"
    BY <1>5, <2>1, ReexecuteMoves
  <2>3. Counted'
    BY <1>1, <2>2 DEF IInv, Numbers, Counted, Same
  <2> QED BY <1>1, <1>2, <1>5, <2>2, <2>3, LineStep, LineStatesApart DEF Same
<1>6. CASE Reexecute(InState(WithFlag(p), "s_header_field_start"))
  <2> DEFINE g == WithFlag(p)
             q == InState(g, "s_header_field_start")
  <2>1. /\ Struct(g) /\ g.errno = p.errno /\ g.length = p.length
        /\ \A f \in {"F_TRAILING", "F_CONTENTLENGTH"} : f \in g.flags <=> f \in p.flags
    BY <1>3, WithFlagFields
  <2> HIDE DEF g
  <2>2. Struct(q) /\ q.state = "s_header_field_start" /\ q.errno = g.errno /\ Same(q, g)
    BY <2>1, InStateFields
  <2> HIDE DEF q
  <2>3. Moves /\ p' = q
    BY <1>3, <1>6, <2>1, <2>2, ReexecuteMoves DEF q, g
  <2>4. Counted'
    BY <1>1, <2>1, <2>2, <2>3 DEF IInv, Numbers, Counted, Same
  <2>5. p'.state = "s_header_field_start" /\ "F_TRAILING" \in p'.flags <=> "F_TRAILING" \in p.flags
    BY <2>1, <2>2, <2>3 DEF Same
  <2> QED BY <1>1, <1>2, <2>2, <2>3, <2>4, <2>5, LineStep, LineStatesApart
<1> QED BY <1>4, <1>5, <1>6 DEF HeaderValueDiscardLws, HeaderValueLws

(* A message's beginning.                                                   *)
LEMMA FreshFields ==
    ASSUME Struct(p)
    PROVE  /\ Struct(Fresh) /\ Fresh.flags = {}
           /\ Fresh.state = p.state /\ Fresh.errno = p.errno
<1> DEFINE a == [p EXCEPT !.flags = {}]
<1>1. Fresh = [a EXCEPT !.length = MaxLength] /\ MaxLength \in 0..MaxLength
  BY MaxLengthAssumption DEF Fresh
<1>2. Struct(a) /\ a.flags = {} /\ a.state = p.state /\ a.errno = p.errno
  BY DEF Struct
<1> HIDE DEF a
<1> QED BY <1>1, <1>2, SetFields

LEMMA BeginStep ==
    ASSUME IInv,
           call = "running", ch # None, p.state \in Starts,
           Moves, Struct(p'), left' = left, exact' = exact,
           p'.state \in Starts \cup {"s_req_method", "s_res_H"},
           p' = p \/ p'.flags = {},
           \/ phase' = "begun" /\ p'.flags = {} /\ p'.state # "s_start_req"
           \/ p'.state = p.state /\ UNCHANGED <<phase, kept>>
    PROVE  IInv'
<1>1. Position'
  BY DEF IInv, Position, Starts, AfterHeaders, ChunkStates, Ends
<1>2. Numbers'
  <2>1. FramedOnce'
    BY DEF IInv, Position, FramedOnce
  <2>2. Counted'
    BY DEF IInv, Position, Numbers, Counted
  <2> QED BY <2>1, <2>2 DEF Numbers, Starts, SizeStates, ChunkStates
<1>3. TokenOK(ch') /\ TokenOK(unread')
  BY DEF IInv, Moves, TokenOK, None, Token
<1>4. Call'
  BY DEF IInv, Call, Moves, Starts, Ends
<1> QED BY <1>1, <1>2, <1>3, <1>4 DEF IInv

LEMMA StartStep ==
    ASSUME IInv, StartReq \/ StartRes
    PROVE  IInv'
<1>1. /\ call = "running" /\ ch # None /\ p.state \in Starts
      /\ left' = left /\ exact' = exact
  BY DEF StartReq, StartRes, At, NoData, Starts
<1>2. Struct(p) /\ p.errno = "OK"
  BY <1>1 DEF IInv, Call
<1>3. ASSUME NEW q, Struct(q), q.flags = {},
             q.state \in {"s_start_res", "s_req_method", "s_res_H"},
             CallsBack(q), phase' = "begun"
      PROVE  IInv'
  <2>1. Moves /\ Struct(p') /\ Same(p', q) /\ p'.state = q.state
    BY <1>3, CallsBackMoves
  <2>2. p'.state \in Starts \cup {"s_req_method", "s_res_H"} /\ p'.state # "s_start_req"
    BY <1>3, <2>1 DEF Starts
  <2> QED BY <1>1, <1>3, <2>1, <2>2, BeginStep DEF Same
<1>4. ASSUME NEW q, Struct(q), q.flags = {}, q.state = p.state, NEW e,
             Error(Erroneous(q, e)), NoEvent
      PROVE  IInv'
  <2>1. Moves /\ Struct(p') /\ Same(p', q) /\ p'.state = q.state
    BY <1>4, ErrorMoves, ErroneousFields
  <2> QED BY <1>1, <1>4, <2>1, BeginStep DEF Same, NoEvent
<1>5. CASE StartReq
  <2>1. CASE Consume(p) /\ NoEvent
    <3>1. Moves /\ p' = p
      BY <1>2, <2>1, ConsumeMoves
    <3> QED BY <1>1, <1>2, <2>1, <3>1, BeginStep DEF NoEvent
  <2>2. CASE Error(Erroneous(Fresh, "INVALID_METHOD")) /\ NoEvent
    BY <1>1, <1>2, <1>4, <2>2, FreshFields
  <2>3. ASSUME NEW m, CallsBack([Fresh EXCEPT !.method = m, !.index = 1,
                                              !.state = "s_req_method"]),
               phase' = "begun"
        PROVE  IInv'
    <3> DEFINE a == Fresh
               b == [a EXCEPT !.method = m]
               c == [b EXCEPT !.index = 1]
               q == InState(c, "s_req_method")
    <3>1. [Fresh EXCEPT !.method = m, !.index = 1, !.state = "s_req_method"] = q
      BY DEF InState
    <3>2. Struct(a) /\ a.flags = {}
      BY <1>2, FreshFields
    <3> HIDE DEF a
    <3>3. Struct(b) /\ Same(b, a)
      BY <3>2, SetOther
    <3> HIDE DEF b
    <3>4. Struct(c) /\ Same(c, b)
      BY <3>3, SetOther
    <3> HIDE DEF c
    <3>5. Struct(q) /\ Same(q, c) /\ q.state = "s_req_method"
      BY <3>4, InStateFields
    <3> HIDE DEF q
    <3> QED BY <1>3, <2>3, <3>1, <3>2, <3>3, <3>4, <3>5 DEF Same
  <2> QED BY <1>5, <2>1, <2>2, <2>3 DEF StartReq, Reports
<1>6. CASE StartRes
  <2> DEFINE q == IF ch = Letter("H") THEN InState(Fresh, "s_res_H") ELSE Fresh
  <2>1. /\ Struct(q) /\ q.flags = {}
        /\ q.state \in {"s_start_res", "s_res_H"}
        /\ ch # Letter("H") => q.state = p.state
    <3>1. p.state = "s_start_res"
      BY <1>6 DEF StartRes, At
    <3> QED BY <1>2, <3>1, FreshFields, InStateFields DEF Same
  <2>2. \/ CallsBack(q) /\ phase' = "begun"
        \/ ch # Letter("H") /\ Error(Erroneous(q, "INVALID_CONSTANT")) /\ NoEvent
    BY <1>6 DEF StartRes, Reports
  <2> HIDE DEF q
  <2> QED BY <1>3, <1>4, <2>1, <2>2
<1> QED BY <1>5, <1>6

(* ... and its end: the parser starts over if the connection stays open.    *)
LEMMA EndStep ==
    ASSUME IInv,
           call = "running", ch # None,
           NEW q, Struct(q),
           CallsBack(NewMessage(q)) \/ CallsBackAndReturns(NewMessage(q)),
           Completes(q), left' = left
    PROVE  IInv'
<1> DEFINE s == IF KeepAlive(q) THEN StartState(q) ELSE "s_dead"
<1>1. /\ Moves /\ ch' = None /\ Struct(p') /\ p'.state = s
  <2>1. NewMessage(q) = InState(q, s)
    BY DEF NewMessage
  <2> HIDE DEF s
  <2>2. Struct(NewMessage(q)) /\ NewMessage(q).state = s
    BY <2>1, InStateFields
  <2> QED BY <2>2, CallsBackMoves
<1>2. /\ s \in Starts \cup {"s_dead"}
      /\ s \in Starts => kept'
  <2>1. StartState(q) \in Starts /\ "s_dead" \notin Starts
    BY DEF StartState, Starts
  <2> QED BY <2>1, Zenon DEF Completes, Reports
<1>3. s \notin AfterHeaders \cup {"s_header_value_start"} /\ phase' = "complete"
  BY <1>2 DEF Starts, AfterHeaders, ChunkStates, Ends, Completes, Reports
<1> HIDE DEF s
<1>4. Position'
  BY <1>1, <1>2, <1>3 DEF Position, AfterHeaders, Ends
<1>5. Numbers'
  BY <1>1, <1>3 DEF Numbers, Counted, FramedOnce, AfterHeaders, ChunkStates, SizeStates
<1>6. TokenOK(ch') /\ TokenOK(unread')
  BY <1>1 DEF IInv, Moves, TokenOK, None, Token
<1>7. Call'
  BY <1>1, <1>3 DEF IInv, Call, Moves, AfterHeaders, ChunkStates
<1> QED BY <1>1, <1>4, <1>5, <1>6, <1>7 DEF IInv

(* A callback that is given the message's last token before it is used.     *)
LEMMA NoAdvanceMoves ==
    ASSUME NEW q, Struct(q), q.errno = "OK", CallsBackNoAdvance(q)
    PROVE  /\ Struct(p') /\ Same(p', q) /\ p'.state = q.state
           /\ \/ p'.errno = "OK" /\ UNCHANGED <<call, ch, unread>>
              \/ call' = "idle" /\ ch' = None /\ unread' = ch
<1>1. PICK r \in Outcomes :
          /\ p' = Erroneous(q, r)
          /\ IF r = "OK" THEN UNCHANGED <<call, ch, unread>>
             ELSE call' = "idle" /\ ch' = None /\ unread' = ch
  BY DEF CallsBackNoAdvance
<1>2. Struct(p') /\ Same(p', q) /\ p'.state = q.state /\ p'.errno = r
  BY <1>1, ErroneousFields
<1> QED BY <1>1, <1>2

LEMMA AtEnd ==
    ASSUME IInv,
           call = "running", ch # None,
           p.state \notin Starts \cup {"s_dead"},
           NEW q, Struct(q), q.errno = "OK", q.state \in Ends,
           CallsBackNoAdvance(q),
           ch = IF q.state = "s_message_done" /\ "F_TRAILING" \notin q.flags
                THEN Byte ELSE LF,
           "F_TRAILING" \in q.flags => q.state = "s_message_done",
           phase' \in {phase, "headers"}, phase' # "begun",
           "F_TRAILING" \notin q.flags =>
               ~({"F_CHUNKED", "F_CONTENTLENGTH"} \subseteq q.flags),
           left' \in Nat
    PROVE  IInv'
<1>1. /\ Struct(p') /\ Same(p', q) /\ p'.state = q.state
      /\ \/ p'.errno = "OK" /\ UNCHANGED <<call, ch, unread>>
         \/ call' = "idle" /\ ch' = None /\ unread' = ch
  BY NoAdvanceMoves
<1>2. unread = None
  BY DEF IInv, Call
<1>3. Position'
  <2>1. phase' = "headers"
    BY DEF IInv, Position
  <2> QED BY <1>1, <2>1 DEF Position, Same, Ends, AfterHeaders, Starts
<1>4. Numbers'
  BY <1>1 DEF Numbers, Counted, FramedOnce, Same, Ends, SizeStates, ChunkStates
<1>5. TokenOK(ch') /\ TokenOK(unread')
  BY <1>1 DEF IInv, TokenOK, None, Token
<1>6. Call'
  <2>1. Own' = ch
    BY <1>1 DEF Own, Same
  <2>2. p'.state \in Ends
    BY <1>1
  <2>3. p'.state \notin {"s_header_value_start", "s_chunk_size_start", "s_body_identity"}
    BY <2>2 DEF Ends
  <2>4. /\ call' = "running" => p'.errno = "OK"
        /\ ch' # None => call' = "running" /\ unread' = None
    BY <1>1, <1>2 DEF IInv, Call
  <2>5. /\ ch' # None => ch' = Own'
        /\ ch' = None => unread' = Own'
    BY <1>1, <2>1
  <2> QED BY <2>2, <2>3, <2>4, <2>5 DEF Call
<1> QED BY <1>1, <1>3, <1>4, <1>5, <1>6 DEF IInv

LEMMA HeadersAlmostDoneStep ==
    ASSUME IInv, HeadersAlmostDone
    PROVE  IInv'
<1>1. /\ call = "running" /\ ch # None /\ p.state = "s_headers_almost_done"
      /\ left' = left /\ exact' = exact
  BY DEF HeadersAlmostDone, At, NoData
<1>2. /\ Struct(p) /\ p.errno = "OK" /\ left \in Nat
  BY <1>1 DEF IInv, Call
<1>3. /\ p.state \in LineStates \ {"s_header_value_start"}
      /\ p.state \notin Starts \cup AfterHeaders \cup {"s_dead"}
  BY <1>1, LineStatesApart DEF LineStates
<1>4. ASSUME NEW e, Fails(e), NoEvent
      PROVE  IInv'
  <2>1. Quiet(p)
    BY <1>1, <1>3, QuietStates
  <2> QED BY <1>1, <1>3, <1>4, <2>1, QuietMoves DEF Fails, NoEvent
<1>5. CASE /\ ch = LF /\ "F_TRAILING" \in p.flags
           /\ CallsBackNoAdvance(InState(p, "s_message_done")) /\ NoEvent
  <2> DEFINE q == InState(p, "s_message_done")
  <2>1. Struct(q) /\ Same(q, p) /\ q.errno = "OK" /\ q.state = "s_message_done"
    BY <1>2, InStateFields
  <2>2. phase' = phase /\ phase # "begun"
    BY <1>5 DEF NoEvent, IInv, Position
  <2> HIDE DEF q
  <2>3. q.state \in Ends
    BY <2>1 DEF Ends
  <2> QED BY <1>1, <1>2, <1>3, <1>5, <2>1, <2>2, <2>3, AtEnd DEF q, Same
<1>6. CASE /\ ch = LF /\ "F_TRAILING" \notin p.flags
           /\ ~({"F_CHUNKED", "F_CONTENTLENGTH"} \subseteq p.flags)
           /\ HeadersComplete([p EXCEPT !.state = "s_headers_done",
                                        !.upgrade = Upgrades(p)])
           /\ phase' = "headers"
  <2> DEFINE a == InState(p, "s_headers_done")
             u == Upgrades(p)
             b == [a EXCEPT !.upgrade = u]
  <2>1. HeadersComplete(b)
    BY <1>6 DEF InState
  <2>2. Struct(a) /\ Same(a, p) /\ a.errno = "OK" /\ a.state = "s_headers_done"
    BY <1>2, InStateFields
  <2> HIDE DEF a, u
  <2>3. \A x : LET r == [a EXCEPT !.upgrade = x] IN
            Struct(r) /\ Same(r, a) /\ r.errno = "OK" /\ r.state = "s_headers_done"
    BY <2>2 DEF Struct, Same
  <2>4. Struct(b) /\ Same(b, a) /\ b.errno = "OK" /\ b.state = "s_headers_done"
    BY <2>3
  <2> HIDE DEF b
  <2>5. PICK x : \E answer \in {b, [b EXCEPT !.flags = @ \cup {"F_SKIPBODY"}, !.upgrade = x]} :
            CallsBackNoAdvance(answer)
    BY <2>1 DEF HeadersComplete
  <2> DEFINE c == [b EXCEPT !.flags = @ \cup {"F_SKIPBODY"}]
             d == [c EXCEPT !.upgrade = x]
  <2>6. [b EXCEPT !.flags = @ \cup {"F_SKIPBODY"}, !.upgrade = x] = d
    OBVIOUS
  <2>7. "F_SKIPBODY" \in Flags
    BY DEF Flags
  <2>8. /\ Struct(c) /\ c.errno = "OK" /\ c.state = "s_headers_done"
        /\ c.flags = b.flags \cup {"F_SKIPBODY"}
    BY <2>4, <2>7, AddFlag
  <2> HIDE DEF c
  <2>9. /\ Struct(d) /\ d.errno = "OK" /\ d.state = "s_headers_done" /\ d.flags = c.flags
    BY <2>8 DEF Struct
  <2> HIDE DEF d
  <2>10. ASSUME NEW q \in {b, d}, CallsBackNoAdvance(q)
         PROVE  IInv'
    <3>1. /\ Struct(q) /\ q.errno = "OK" /\ q.state = "s_headers_done"
          /\ "F_TRAILING" \notin q.flags
          /\ ~({"F_CHUNKED", "F_CONTENTLENGTH"} \subseteq q.flags)
      BY <1>6, <2>2, <2>4, <2>8, <2>9 DEF Same
    <3>2. q.state \in Ends
      BY <3>1 DEF Ends
    <3> QED BY <1>1, <1>2, <1>3, <1>6, <2>10, <3>1, <3>2, AtEnd
  <2> QED BY <2>5, <2>6, <2>10
<1> QED BY <1>4, <1>5, <1>6 DEF HeadersAlmostDone, Reports

LEMMA HeadersDoneStep ==
    ASSUME IInv, HeadersDone
    PROVE  IInv'
<1> DEFINE q == Recount(p)
<1>1. /\ call = "running" /\ ch # None /\ p.state = "s_headers_done"
      /\ left' = left /\ exact' = 0
  BY DEF HeadersDone, At
<1>2. Struct(p) /\ p.errno = "OK" /\ ch = LF /\ unread = None
  BY <1>1 DEF IInv, Call, Own, Ends
<1>3. /\ Struct(q) /\ q.state = p.state /\ q.errno = "OK"
      /\ q.flags = p.flags /\ q.length = p.length /\ q.nread = 0
  BY <1>2, RecountFields
<1>4. /\ phase = "headers" /\ "F_TRAILING" \notin p.flags
      /\ ~({"F_CHUNKED", "F_CONTENTLENGTH"} \subseteq p.flags)
  <2>1. phase = "headers"
    BY <1>1 DEF IInv, Position, AfterHeaders, Ends, Starts
  <2> QED BY <1>1, <2>1 DEF IInv, Position, Numbers, FramedOnce
<1> HIDE DEF q
<1>5. CASE /\ CallsBack(NewMessage(q)) \/ CallsBackAndReturns(NewMessage(q))
           /\ Completes(q)
  BY <1>1, <1>3, <1>5, EndStep
<1>6. CASE /\ ~EndsAtOnce(q)
           /\ Consume(InState(q,
                 IF "F_CHUNKED" \in q.flags THEN "s_chunk_size_start"
                 ELSE IF q.length # MaxLength THEN "s_body_identity"
                 ELSE "s_body_identity_eof"))
           /\ NoEvent
  <2> DEFINE s == IF "F_CHUNKED" \in q.flags THEN "s_chunk_size_start"
                  ELSE IF q.length # MaxLength THEN "s_body_identity"
                  ELSE "s_body_identity_eof"
             r == InState(q, s)
  <2>1. s \in {"s_chunk_size_start", "s_body_identity", "s_body_identity_eof"}
    OBVIOUS
  <2>2. /\ s = "s_chunk_size_start" => "F_CHUNKED" \in q.flags
        /\ s = "s_body_identity" => q.length \notin {0, MaxLength}
    BY <1>6 DEF EndsAtOnce
  <2>3. Struct(r) /\ Same(r, q) /\ r.errno = "OK" /\ r.state = s
    <3> HIDE DEF s
    <3> QED BY <1>3, InStateFields
  <2>4. Moves /\ p' = r /\ ch' = None /\ phase' = phase
    BY <1>6, <2>3, ConsumeMoves DEF NoEvent
  <2> HIDE DEF s, r
  <2>5. s \in AfterHeaders /\ s \notin Starts \cup Ends \cup SizeStates \cup
            {"s_dead", "s_start_req", "s_header_value_start", "s_chunk_data",
             "s_chunk_data_almost_done"}
    BY <2>1 DEF AfterHeaders, ChunkStates, SizeStates, Ends, Starts
  <2>6. Position'
    BY <1>3, <1>4, <2>3, <2>4, <2>5 DEF Position, Same
  <2>7. Numbers'
    <3>1. p'.state \in ChunkStates => p'.state = "s_chunk_size_start"
      BY <2>1, <2>3, <2>4 DEF ChunkStates
    <3> QED BY <1>3, <1>4, <2>2, <2>3, <2>4, <2>5, <3>1
            DEF Numbers, Counted, FramedOnce, Same
  <2>8. TokenOK(ch') /\ TokenOK(unread')
    BY <2>4 DEF IInv, Moves, TokenOK, None, Token
  <2>9. Call'
    BY <1>2, <1>3, <2>3, <2>4, <2>5 DEF Call, Moves, Same
  <2> QED BY <1>1, <2>3, <2>4, <2>6, <2>7, <2>8, <2>9 DEF IInv
<1> QED BY <1>2, <1>5, <1>6 DEF HeadersDone, q

(* The bytes of a body or chunk that the buffer has.                        *)
LEMMA ToReadFields ==
    ASSUME Struct(p), left \in Nat, p.length \notin {0, MaxLength}
    PROVE  /\ left - (ToRead - 1) \in Nat
           /\ LET q == [p EXCEPT !.length = @ - ToRead] IN
              /\ Struct(q) /\ q.length \in 0..(MaxLength - 1)
              /\ q.state = p.state /\ q.errno = p.errno
              /\ q.flags = p.flags /\ q.nread = p.nread
<1> DEFINE n == p.length
           k == ToRead
           m == n - k
<1>1. n \in 1..(MaxLength - 1) /\ MaxLength \in Nat
  BY MaxLengthAssumption DEF Struct
<1>2. k \in 1..n /\ k <= left + 1
  BY <1>1 DEF ToRead, Smaller
<1>3. left - (k - 1) \in Nat /\ m \in 0..(MaxLength - 1) /\ m \in 0..MaxLength
  <2> HIDE DEF n, k
  <2> QED BY <1>1, <1>2
<1>4. [p EXCEPT !.length = @ - ToRead] = [p EXCEPT !.length = m]
  OBVIOUS
<1> HIDE DEF m, k
<1> QED BY <1>3, <1>4, SetFields DEF k

LEMMA BodyStep ==
    ASSUME IInv, BodyIdentity \/ BodyIdentityEof \/ MessageDone
    PROVE  IInv'
<1>1. /\ call = "running" /\ ch # None
      /\ p.state \in {"s_body_identity", "s_body_identity_eof", "s_message_done"}
  BY DEF BodyIdentity, BodyIdentityEof, MessageDone, At
<1>2. Struct(p) /\ p.errno = "OK" /\ unread = None /\ left \in Nat
  BY <1>1 DEF IInv, Call
<1>3. /\ p.state \notin Starts \cup {"s_dead"} /\ p.state \in AfterHeaders
      /\ phase = "headers"
  <2>1. p.state \notin Starts \cup {"s_dead"} /\ p.state \in AfterHeaders
    BY <1>1 DEF Starts, AfterHeaders, Ends
  <2> QED BY <1>1, <2>1 DEF IInv, Position
<1>4. CASE BodyIdentity
  <2> DEFINE q == [p EXCEPT !.length = @ - ToRead]
  <2>1. /\ p.state = "s_body_identity" /\ ch = Byte
        /\ p.length \notin {0, MaxLength}
        /\ "F_TRAILING" \notin p.flags
        /\ ~({"F_CHUNKED", "F_CONTENTLENGTH"} \subseteq p.flags)
    BY <1>1, <1>3, <1>4 DEF BodyIdentity, At, IInv, Position, Numbers, FramedOnce, Call
  <2>2. /\ Struct(q) /\ q.length \in 0..(MaxLength - 1)
        /\ q.state = p.state /\ q.errno = "OK"
        /\ q.flags = p.flags /\ q.nread = p.nread
        /\ left' \in Nat
    BY <1>2, <1>4, <2>1, ToReadFields DEF BodyIdentity
  <2>3. CASE q.length > 0
    <3>1. Consume(q) /\ NoEvent
      BY <1>4, <2>3 DEF BodyIdentity
    <3> HIDE DEF q
    <3>2. /\ Moves /\ p' = q /\ ch' = None /\ UNCHANGED <<phase, kept>>
      BY <2>2, <3>1, ConsumeMoves DEF NoEvent
    <3>3. q.length \notin {0, MaxLength}
      BY <2>2, <2>3, MaxLengthAssumption
    <3>4. p'.state = "s_body_identity"
      BY <2>1, <2>2, <3>2
    <3>5. Position'
      BY <1>3, <2>1, <2>2, <3>2, <3>4 DEF Position
    <3>6. Numbers'
      BY <1>3, <2>1, <2>2, <3>2, <3>3, <3>4
         DEF Numbers, Counted, FramedOnce, ChunkStates, SizeStates
    <3>7. TokenOK(ch') /\ TokenOK(unread')
      BY <3>2 DEF IInv, Moves, TokenOK, None, Token
    <3>8. Call'
      BY <1>2, <2>2, <3>2, <3>4 DEF Call, Moves, Ends
    <3> QED BY <2>2, <3>2, <3>5, <3>6, <3>7, <3>8 DEF IInv
  <2>4. CASE ~(q.length > 0)
    <3> DEFINE r == InState(q, "s_message_done")
    <3>1. CallsBackNoAdvance(r) /\ phase' = phase
      BY <1>4, <2>4 DEF BodyIdentity, NoEvent
    <3> HIDE DEF q
    <3>2. Struct(r) /\ Same(r, q) /\ r.errno = "OK" /\ r.state = "s_message_done"
      BY <2>2, InStateFields
    <3> HIDE DEF r
    <3>3. r.state \in Ends
      BY <3>2 DEF Ends
    <3> QED BY <1>1, <1>3, <2>1, <2>2, <3>1, <3>2, <3>3, AtEnd DEF Same
  <2> QED BY <2>3, <2>4
<1>5. CASE BodyIdentityEof
  <2>1. /\ p' = p /\ ch' = None /\ call' = call /\ unread' = unread
        /\ left' = 0 /\ UNCHANGED <<phase, kept>> /\ p.state = "s_body_identity_eof"
    BY <1>5 DEF BodyIdentityEof, Consume, NoEvent, At
  <2>2. Position'
    BY <2>1 DEF IInv, Position
  <2>3. Numbers'
    BY <1>3, <2>1 DEF IInv, Numbers, Counted, FramedOnce, ChunkStates, SizeStates
  <2>4. Call'
    BY <1>2, <2>1 DEF Call, Ends
  <2> QED BY <1>2, <2>1, <2>2, <2>3, <2>4 DEF IInv, TokenOK, None, Token
<1>6. CASE MessageDone
  <2>1. /\ CallsBack(NewMessage(p)) \/ CallsBackAndReturns(NewMessage(p))
        /\ Completes(p) /\ left' = left
    BY <1>6 DEF MessageDone, NoData
  <2> QED BY <1>1, <1>2, <2>1, EndStep
<1> QED BY <1>4, <1>5, <1>6

(* A round inside a chunk.                                                  *)
LEMMA ChunkStep ==
    ASSUME IInv,
           call = "running", ch # None, p.state \in ChunkStates,
           Moves, Struct(p'), p'.flags = p.flags, p'.state \in ChunkStates,
           p'.state \in SizeStates => p'.length = exact' /\ exact' < MaxLength,
           p'.state = "s_chunk_data" => p'.length \notin {0, MaxLength},
           p'.state = "s_chunk_data_almost_done" => p'.length = 0,
           p'.state = "s_chunk_size_start" /\ p'.errno \in {"OK", "PAUSED"} =>
               p'.nread = 0 /\ ch' = None,
           left' \in Nat, UNCHANGED <<phase, kept>>
    PROVE  IInv'
<1>1. /\ ChunkStates \subseteq AfterHeaders
      /\ ChunkStates \cap (Starts \cup Ends \cup {"s_dead", "s_header_value_start",
            "s_headers_done", "s_body_identity", "s_body_identity_eof"}) = {}
      /\ "s_start_req" \in Starts
  BY DEF ChunkStates, AfterHeaders, Starts, Ends
<1>2. phase = "headers"
  BY <1>1 DEF IInv, Position
<1>3. Position'
  BY <1>1, <1>2 DEF Position
<1>4. Numbers'
  BY <1>1, <1>2 DEF IInv, Numbers, Counted, FramedOnce
<1>5. TokenOK(ch') /\ TokenOK(unread')
  BY DEF IInv, Moves, TokenOK, None, Token
<1>6. Call'
  BY <1>1 DEF IInv, Call, Moves
<1> QED BY <1>3, <1>4, <1>5, <1>6 DEF IInv

LEMMA ChunkSizeStep ==
    ASSUME IInv, ChunkSizeStart \/ ChunkSize \/ ChunkParameters
    PROVE  IInv'
<1>1. /\ call = "running" /\ ch # None
      /\ p.state \in {"s_chunk_size_start", "s_chunk_size", "s_chunk_parameters"}
      /\ left' = left /\ UNCHANGED <<phase, kept>>
  BY DEF ChunkSizeStart, ChunkSize, ChunkParameters, At, NoEvent, NoData
<1>2. Struct(p) /\ p.errno = "OK" /\ left \in Nat /\ TokenOK(ch)
  BY <1>1 DEF IInv, Call
<1>3. /\ p.state \in ChunkStates /\ SizeStates \subseteq ChunkStates
      /\ {"s_chunk_size", "s_chunk_parameters", "s_chunk_size_almost_done"} \subseteq SizeStates
      /\ SizeStates \cap {"s_chunk_size_start", "s_chunk_data", "s_chunk_data_almost_done"} = {}
  BY <1>1 DEF ChunkStates, SizeStates
<1>4. p.state \in SizeStates => p.length = exact /\ exact < MaxLength
  BY DEF IInv, Numbers
<1>5. ASSUME Moves, Struct(p'), p'.flags = p.flags, p'.state \in SizeStates,
             p'.length = exact' /\ exact' < MaxLength
      PROVE  IInv'
  BY <1>1, <1>2, <1>3, <1>5, ChunkStep
<1>6. ASSUME Fails("INVALID_CHUNK_SIZE"), exact' = exact
      PROVE  IInv'
  <2>1. /\ Moves /\ Struct(p') /\ Same(p', p) /\ p'.state = p.state
        /\ p'.errno = "INVALID_CHUNK_SIZE"
    BY <1>2, <1>6, FailsMoves
  <2>2. p.state \notin {"s_chunk_data", "s_chunk_data_almost_done"}
    BY <1>1
  <2> QED BY <1>1, <1>2, <1>3, <1>4, <1>6, <2>1, <2>2, ChunkStep DEF Same
<1>7. ASSUME NEW s \in SizeStates, Consume(InState(p, s)), exact' = exact,
             p.state \in SizeStates
      PROVE  IInv'
  <2> DEFINE q == InState(p, s)
  <2>1. Struct(q) /\ Same(q, p) /\ q.errno = "OK" /\ q.state = s
    BY <1>2, InStateFields
  <2> HIDE DEF q
  <2>2. Moves /\ p' = q
    BY <1>7, <2>1, ConsumeMoves DEF q
  <2> QED BY <1>4, <1>5, <1>7, <2>1, <2>2 DEF Same
<1>8. CASE ChunkSizeStart
  <2>1. CASE ch.t = "digit"
    <3> DEFINE v == ch.v
               a == [p EXCEPT !.length = v]
               q == InState(a, "s_chunk_size")
    <3>1. Consume(q) /\ exact' = v
      BY <1>8, <2>1 DEF ChunkSizeStart, InState
    <3>2. v \in 0..15 /\ v \in 0..MaxLength /\ v < MaxLength
      BY <1>2, <2>1, MaxLengthAssumption DEF TokenOK
    <3> HIDE DEF v
    <3>3. Struct(a) /\ a.length = v /\ a.flags = p.flags /\ a.errno = "OK"
      BY <1>2, <3>2, SetFields
    <3> HIDE DEF a
    <3>4. Struct(q) /\ Same(q, a) /\ q.errno = "OK" /\ q.state = "s_chunk_size"
      BY <3>3, InStateFields
    <3> HIDE DEF q
    <3>5. Moves /\ p' = q
      BY <3>1, <3>4, ConsumeMoves
    <3> QED BY <1>3, <1>5, <3>1, <3>2, <3>3, <3>4, <3>5 DEF Same
  <2> QED BY <1>6, <1>8, <2>1 DEF ChunkSizeStart
<1>9. CASE ChunkSize
  <2>1. p.state = "s_chunk_size" /\ p.state \in SizeStates
    BY <1>9 DEF ChunkSize, At, SizeStates
  <2>2. CASE ch \in {CR, Semicolon, SP}
    <3>1. /\ exact' = exact
          /\ \/ Consume(InState(p, "s_chunk_size_almost_done"))
             \/ Consume(InState(p, "s_chunk_parameters"))
      BY <1>9, <2>2 DEF ChunkSize, CR, Semicolon, SP, Token
    <3> QED BY <1>3, <1>7, <2>1, <3>1
  <2>3. CASE ch \notin {CR, Semicolon, SP} /\ ch.t = "digit"
    <3> DEFINE q == AddDigit(p, 16, ch)
    <3>1. Result(q) /\ exact' = IF q.errno = "OK" THEN exact * 16 + ch.v ELSE exact
      BY <1>9, <2>3 DEF ChunkSize
    <3>2. ch.v \in 0..(16 - 1)
      BY <1>2, <2>3 DEF TokenOK
    <3>3. /\ Struct(q) /\ q.state = p.state /\ q.flags = p.flags
          /\ q.errno = "OK" => /\ q.length = p.length * 16 + ch.v
                               /\ q.length < MaxLength
          /\ q.errno # "OK" => q.length = p.length
      BY <1>2, <3>2, AddDigitFields
    <3> HIDE DEF q
    <3>4. Moves /\ p' = q
      BY <3>1, ResultMoves
    <3>5. q.length = exact' /\ exact' < MaxLength
      BY <1>4, <2>1, <3>1, <3>3
    <3> QED BY <1>5, <2>1, <3>3, <3>4, <3>5
  <2>4. CASE ch \notin {CR, Semicolon, SP} /\ ch.t # "digit"
    BY <1>6, <1>9, <2>4 DEF ChunkSize
  <2> QED BY <2>2, <2>3, <2>4
<1>10. CASE ChunkParameters
  <2>1. p.state = "s_chunk_parameters" /\ p.state \in SizeStates /\ exact' = exact
    BY <1>10 DEF ChunkParameters, At, SizeStates, NoData
  <2>2. CASE Consume(InState(p, "s_chunk_size_almost_done"))
    BY <1>3, <1>7, <2>1, <2>2
  <2>3. CASE Consume(p)
    <3>1. Moves /\ p' = p
      BY <1>2, <2>3, ConsumeMoves
    <3> QED BY <1>2, <1>4, <1>5, <2>1, <3>1
  <2> QED BY <1>10, <2>2, <2>3 DEF ChunkParameters
<1> QED BY <1>8, <1>9, <1>10

LEMMA ChunkSizeAlmostDoneStep ==
    ASSUME IInv, ChunkSizeAlmostDone
    PROVE  IInv'
<1>1. /\ call = "running" /\ ch # None
      /\ p.state = "s_chunk_size_almost_done"
      /\ left' = left /\ UNCHANGED <<phase, kept>>
  BY DEF ChunkSizeAlmostDone, At, NoEvent
<1>2. /\ Struct(p) /\ p.errno = "OK" /\ left \in Nat
      /\ p.length = exact /\ exact < MaxLength
      /\ phase = "headers" /\ "F_CHUNKED" \in p.flags
  BY <1>1 DEF IInv, Call, Numbers, Position, SizeStates, ChunkStates, AfterHeaders, Starts
<1>3. /\ p.state \in ChunkStates
      /\ "s_chunk_data" \in ChunkStates /\ "s_chunk_data" \notin SizeStates
      /\ p.state \notin {"s_chunk_data", "s_chunk_data_almost_done", "s_chunk_size_start"}
  BY <1>1 DEF ChunkStates, SizeStates
<1>4. CASE ch # LF
  <2>1. Fails("STRICT") /\ exact' = exact
    BY <1>4 DEF ChunkSizeAlmostDone
  <2>2. Moves /\ Struct(p') /\ Same(p', p) /\ p'.state = p.state
    BY <1>2, <2>1, FailsMoves
  <2> QED BY <1>1, <1>2, <1>3, <2>1, <2>2, ChunkStep DEF Same
<1>5. CASE ch = LF /\ p.length # 0
  <2> DEFINE a == Recount(p)
             q == InState(a, "s_chunk_data")
  <2>1. CallsBack(q)
    BY <1>5 DEF ChunkSizeAlmostDone
  <2>2. Struct(a) /\ a.length = p.length /\ a.flags = p.flags
    BY <1>2, RecountFields
  <2> HIDE DEF a
  <2>3. Struct(q) /\ Same(q, a) /\ q.state = "s_chunk_data"
    BY <2>2, InStateFields
  <2> HIDE DEF q
  <2>4. Moves /\ Struct(p') /\ Same(p', q) /\ p'.state = q.state
    BY <2>1, <2>3, CallsBackMoves
  <2>5. p.length \notin {0, MaxLength}
    BY <1>2, <1>5, MaxLengthAssumption
  <2> QED BY <1>1, <1>2, <1>3, <2>2, <2>3, <2>4, <2>5, ChunkStep DEF Same
<1>6. CASE ch = LF /\ p.length = 0
  <2> DEFINE a == Recount(p)
             b == [a EXCEPT !.flags = @ \cup {"F_TRAILING"}]
             q == InState(b, "s_header_field_start")
  <2>1. CallsBack(q)
    BY <1>6 DEF ChunkSizeAlmostDone, InState
  <2>2. Struct(a) /\ a.flags = p.flags
    BY <1>2, RecountFields
  <2> HIDE DEF a
  <2>3. "F_TRAILING" \in Flags
    BY DEF Flags
  <2>4. Struct(b) /\ b.flags = a.flags \cup {"F_TRAILING"}
    BY <2>2, <2>3, AddFlag
  <2> HIDE DEF b
  <2>5. Struct(q) /\ Same(q, b) /\ q.state = "s_header_field_start"
    BY <2>4, InStateFields
  <2> HIDE DEF q
  <2>6. /\ Moves /\ ch' = None /\ Struct(p')
        /\ "F_TRAILING" \in p'.flags /\ p'.state = "s_header_field_start"
    BY <2>1, <2>4, <2>5, CallsBackMoves DEF Same
  <2>7. "s_header_field_start" \notin Starts \cup AfterHeaders
    BY LineStatesApart DEF LineStates
  <2>8. Position'
    BY <1>1, <1>2, <2>6, <2>7 DEF Position, AfterHeaders, Ends
  <2>9. Numbers'
    BY <1>1, <1>2, <2>6, <2>7
       DEF Numbers, Counted, FramedOnce, AfterHeaders, ChunkStates, SizeStates
  <2>10. TokenOK(ch') /\ TokenOK(unread')
    BY <2>6 DEF IInv, Moves, TokenOK, None, Token
  <2>11. Call'
    BY <1>1, <2>6, <2>7 DEF IInv, Call, Moves, AfterHeaders, ChunkStates
  <2> QED BY <1>1, <1>2, <2>6, <2>8, <2>9, <2>10, <2>11 DEF IInv
<1> QED BY <1>4, <1>5, <1>6

LEMMA ChunkDataStep ==
    ASSUME IInv, ChunkData \/ ChunkDataAlmostDone \/ ChunkDataDone
    PROVE  IInv'
<1>1. /\ call = "running" /\ ch # None
      /\ p.state \in {"s_chunk_data", "s_chunk_data_almost_done", "s_chunk_data_done"}
      /\ UNCHANGED <<phase, kept>>
  BY DEF ChunkData, ChunkDataAlmostDone, ChunkDataDone, At, NoEvent
<1>2. Struct(p) /\ p.errno = "OK" /\ left \in Nat
  BY <1>1 DEF IInv, Call
<1>3. /\ p.state \in ChunkStates /\ p.state \notin SizeStates
      /\ {"s_chunk_data", "s_chunk_data_almost_done", "s_chunk_data_done",
          "s_chunk_size_start"} \subseteq ChunkStates \ SizeStates
  BY <1>1 DEF ChunkStates, SizeStates
<1>4. /\ p.state = "s_chunk_data" => p.length \notin {0, MaxLength}
      /\ p.state = "s_chunk_data_almost_done" => p.length = 0
  BY DEF IInv, Numbers
<1>5. ASSUME Fails("STRICT"), left' = left
      PROVE  IInv'
  <2>1. Moves /\ Struct(p') /\ Same(p', p) /\ p'.state = p.state /\ p'.errno = "STRICT"
    BY <1>2, <1>5, FailsMoves
  <2> QED BY <1>1, <1>2, <1>3, <1>4, <1>5, <2>1, ChunkStep DEF Same
<1>6. CASE ChunkData
  <2> DEFINE q == [p EXCEPT !.length = @ - ToRead]
             r == InState(q, "s_chunk_data_almost_done")
  <2>1. p.state = "s_chunk_data" /\ Consume(IF q.length = 0 THEN r ELSE q)
    BY <1>6 DEF ChunkData, At
  <2>2. /\ Struct(q) /\ q.length \in 0..(MaxLength - 1)
        /\ q.state = p.state /\ q.errno = "OK" /\ q.flags = p.flags
        /\ left' \in Nat
    BY <1>2, <1>4, <1>6, <2>1, ToReadFields DEF ChunkData
  <2> HIDE DEF q
  <2>3. Struct(r) /\ Same(r, q) /\ r.errno = "OK" /\ r.state = "s_chunk_data_almost_done"
    BY <2>2, InStateFields
  <2> HIDE DEF r
  <2>4. CASE q.length = 0
    <3>1. Moves /\ p' = r
      BY <2>1, <2>3, <2>4, ConsumeMoves
    <3> QED BY <1>1, <1>3, <2>2, <2>3, <2>4, <3>1, ChunkStep DEF Same
  <2>5. CASE q.length # 0
    <3>1. Moves /\ p' = q
      BY <2>1, <2>2, <2>5, ConsumeMoves
    <3>2. q.length \notin {0, MaxLength}
      BY <2>2, <2>5, MaxLengthAssumption
    <3> QED BY <1>1, <1>3, <2>1, <2>2, <3>1, <3>2, ChunkStep
  <2> QED BY <2>4, <2>5
<1>7. CASE ChunkDataAlmostDone
  <2> DEFINE q == InState(p, "s_chunk_data_done")
  <2>1. left' = left
    BY <1>7 DEF ChunkDataAlmostDone, NoNumber
  <2>2. Struct(q) /\ Same(q, p) /\ q.errno = "OK" /\ q.state = "s_chunk_data_done"
    BY <1>2, InStateFields
  <2>3. CASE CallsBackData(q)
    <3> HIDE DEF q
    <3>1. Moves /\ Struct(p') /\ Same(p', q) /\ p'.state = q.state
      <4>1. CASE Consume(q)
        BY <2>2, <4>1, ConsumeMoves DEF Same
      <4>2. CASE CallsBack(q)
        BY <2>2, <4>2, CallsBackMoves
      <4> QED BY <2>3, <4>1, <4>2 DEF CallsBackData
    <3> QED BY <1>1, <1>2, <1>3, <2>1, <2>2, <3>1, ChunkStep DEF Same
  <2> QED BY <1>5, <1>7, <2>1, <2>3 DEF ChunkDataAlmostDone
<1>8. CASE ChunkDataDone
  <2> DEFINE a == InState(p, "s_chunk_size_start")
             q == Recount(a)
  <2>1. left' = left
    BY <1>8 DEF ChunkDataDone, NoData
  <2>2. Struct(a) /\ Same(a, p) /\ a.state = "s_chunk_size_start"
    BY <1>2, InStateFields
  <2>3. CASE CallsBack(q)
    <3> HIDE DEF a
    <3>1. Struct(q) /\ q.flags = a.flags /\ q.nread = 0 /\ q.state = a.state
      BY <2>2, RecountFields
    <3> HIDE DEF q
    <3>2. Moves /\ ch' = None /\ Struct(p') /\ Same(p', q) /\ p'.state = q.state
      BY <2>3, <3>1, CallsBackMoves
    <3> QED BY <1>1, <1>2, <1>3, <2>1, <2>2, <3>1, <3>2, ChunkStep DEF Same
  <2> QED BY <1>5, <1>8, <2>1, <2>3 DEF ChunkDataDone
<1> QED BY <1>6, <1>7, <1>8

(* The input is made of proper tokens.                                      *)
LEMMA OfferedTokens ==
    ASSUME NEW s, NEW t \in Offered(s)
    PROVE  /\ TokenOK(t) /\ t # None
           /\ s = "s_body_identity" => t = Byte
<1> DEFINE Good(x) == TokenOK(x) /\ x # None
           Marks == {SP, CR, LF, Junk, Comma, Semicolon, Dot, Ttp, Byte, Alpha}
           Signs == {Slash, Star, Colon, Question, Hash, AtSign, Bracket, Quote}
<1>1. \A x : x.t \notin {"none", "digit", "name", "letter"} => Good(x)
  BY DEF TokenOK, None, Token
<1>2. \A v \in 0..15 : Good(Digit(v))
  BY DEF TokenOK, None, Token, Digit
<1>3. \A x \in DigitTokens : Good(x)
  BY <1>2, ParserAssumption DEF DigitTokens
<1>4. \A n : \A x \in CodeDigits(n) : Good(x)
  <2>1. \A v \in 0..9 : Good(Digit(v))
    BY <1>2
  <2> HIDE DEF Good
  <2> QED BY <2>1 DEF CodeDigits
<1>5. \A x \in NameTokens : Good(x)
  BY DEF NameTokens, Name, TokenOK, None, Token
<1>6. \A x \in LetterTokens : Good(x)
  BY DEF LetterTokens, Letter, TokenOK, None, Token
<1>7. \A x \in WordTokens : Good(x)
  BY <1>1 DEF WordTokens, Words, Token
<1>8. \A x \in Marks : Good(x)
  BY <1>1 DEF SP, CR, LF, Junk, Comma, Semicolon, Dot, Ttp, Byte, Alpha, Token
<1>9. \A x \in Signs : Good(x)
  BY <1>1 DEF Slash, Star, Colon, Question, Hash, AtSign, Bracket, Quote, Token
<1>10. \A x \in UrlTokens : Good(x)
  <2>1. Good(Digit(0))
    BY <1>2
  <2> HIDE DEF Good
  <2> QED BY <1>8, <1>9, <2>1 DEF UrlTokens
<1>11. Good(Letter("H"))
  BY DEF Letter, Letters, TokenOK, None, Token
<1>12. Good(t)
  <2> HIDE DEF Good
  <2>0. Token("other") \in WordTokens
    BY DEF WordTokens, Words
  <2>1. t \in LetterTokens \cup UrlTokens \cup DigitTokens \cup NameTokens \cup WordTokens
              \cup {Letter("H")} \cup Marks \cup CodeDigits(0) \cup CodeDigits(p.status)
    BY <2>0 DEF Offered
  <2> QED BY <1>3, <1>4, <1>5, <1>6, <1>7, <1>8, <1>10, <1>11, <2>1
<1>13. s = "s_body_identity" => t = Byte
  BY DEF Offered, UrlStates, After
<1> QED BY <1>12, <1>13

(* The head of the loop and what surrounds it.                              *)
LEMMA LoadStep ==
    ASSUME IInv, Load
    PROVE  IInv'
<1> DEFINE n == IF p.nread = 2 THEN 2 ELSE p.nread + 1
           q == IF p.state \in BodyStates THEN p ELSE [p EXCEPT !.nread = n]
<1>1. /\ call = "running" /\ ch = None /\ left > 0 /\ left' = left - 1
      /\ exact' = exact /\ UNCHANGED <<phase, kept>>
  BY DEF Load, NoEvent
<1>2. Struct(p) /\ p.errno = "OK" /\ left \in Nat
  BY <1>1 DEF IInv, Call
<1>3. n \in Nat /\ (p.nread = 0 => n = 1)
  BY <1>2 DEF Struct
<1>4. \/ /\ \E t \in IF unread = None THEN Offered(p.state) ELSE {unread} : ch' = t
         /\ p' = q /\ unread' = None /\ call' = call
      \/ /\ p.state \notin BodyStates
         /\ Error(Erroneous(q, "HEADER_OVERFLOW"))
  BY DEF Load
<1> HIDE DEF n
<1>5. /\ Struct(q) /\ q.state = p.state /\ q.errno = "OK"
      /\ q.flags = p.flags /\ q.length = p.length
      /\ p.state = "s_chunk_size_start" => q.nread = n
  <2>1. "s_chunk_size_start" \notin BodyStates
    BY DEF BodyStates
  <2> QED BY <1>2, <1>3, <2>1 DEF Struct
<1> HIDE DEF q
<1>6. ASSUME p'.state = p.state, p'.flags = p.flags, p'.length = p.length, call' = call
      PROVE  Position' /\ Numbers'
  <2>1. Position'
    BY <1>1, <1>6 DEF IInv, Position
  <2>2. Numbers'
    BY <1>1, <1>6 DEF IInv, Numbers, Counted, FramedOnce
  <2> QED BY <2>1, <2>2
<1>7. CASE /\ \E t \in IF unread = None THEN Offered(p.state) ELSE {unread} : ch' = t
           /\ p' = q /\ unread' = None /\ call' = call
  <2>1. /\ TokenOK(ch') /\ ch' # None
        /\ unread = None /\ p.state = "s_body_identity" => ch' = Byte
        /\ unread # None => ch' = unread
    BY <1>7, OfferedTokens DEF IInv
  <2>2. p.state # "s_header_value_start"
    BY <1>1 DEF IInv, Call, None, SP, Token
  <2>3. Own' = Own
    BY <1>5, <1>7 DEF Own
  <2>4. Own # None
    BY DEF Own, Byte, LF, None, Token
  <2>5. p.state \in Ends => unread = Own /\ ch' = Own'
    BY <1>1, <1>2, <2>1, <2>3, <2>4 DEF IInv, Call
  <2>6. p.state \notin Ends => unread = None
    BY DEF IInv, Call
  <2>7. p.state = "s_body_identity" => p.state \notin Ends
    BY DEF Ends
  <2>8. p.state = "s_chunk_size_start" => p'.nread = 1
    BY <1>1, <1>2, <1>3, <1>5, <1>7 DEF IInv, Call
  <2>9. Call'
    BY <1>1, <1>5, <1>7, <2>1, <2>2, <2>5, <2>6, <2>7, <2>8 DEF Call
  <2>10. TokenOK(unread')
    BY <1>7 DEF TokenOK, None, Token
  <2>11. left' \in Nat
    BY <1>1, <1>2
  <2> QED BY <1>5, <1>6, <1>7, <2>1, <2>9, <2>10, <2>11 DEF IInv
<1>8. CASE /\ p.state \notin BodyStates
           /\ Error(Erroneous(q, "HEADER_OVERFLOW"))
  <2>1. /\ Struct(p') /\ p'.state = p.state /\ p'.flags = p.flags
        /\ p'.length = p.length /\ p'.errno = "HEADER_OVERFLOW"
        /\ call' = "idle" /\ ch' = None /\ unread' = unread
    BY <1>5, <1>8, ErroneousFields DEF Error, Same
  <2>2. Position' /\ Numbers'
    <3>1. Position'
      BY <1>1, <2>1 DEF IInv, Position
    <3>2. Numbers'
      BY <1>1, <2>1 DEF IInv, Numbers, Counted, FramedOnce
    <3> QED BY <3>1, <3>2
  <2>3. Call'
    BY <1>1, <2>1 DEF IInv, Call
  <2>4. left' \in Nat /\ TokenOK(ch') /\ TokenOK(unread')
    BY <1>1, <1>2, <2>1 DEF IInv
  <2> QED BY <2>1, <2>2, <2>3, <2>4 DEF IInv
<1> QED BY <1>4, <1>7, <1>8

LEMMA OuterStep ==
    ASSUME IInv, Execute \/ ExecuteEof \/ Unpause \/ Flush \/ Dead
    PROVE  IInv'
<1>1. Struct(p)
  BY DEF IInv
<1>2. \A e : LET q == Erroneous(p, e) IN
        Struct(q) /\ Same(q, p) /\ q.state = p.state /\ q.errno = e
  BY <1>1, ErroneousFields
<1>3. ASSUME Struct(p'), Same(p', p), p'.state = p.state,
             UNCHANGED <<exact, phase, kept>>,
             call' = call \/ phase # "complete" \/ p.state \in Starts \cup {"s_dead"}
      PROVE  Position' /\ Numbers'
  <2>1. Position'
    BY <1>3 DEF IInv, Position, Same
  <2>2. Numbers'
    BY <1>3 DEF IInv, Numbers, Counted, FramedOnce, Same
  <2> QED BY <2>1, <2>2
<1>4. call # "done" => phase # "complete" \/ p.state \in Starts \cup {"s_dead"}
  BY DEF IInv, Position
<1>5. CASE Execute
  <2>1. /\ call = "idle" /\ call' = "running" /\ p.errno = "OK"
        /\ UNCHANGED <<p, ch, unread, exact, phase, kept>>
        /\ left' \in Nat
    BY <1>5, ParserAssumption DEF Execute, NoEvent
  <2>2. Position' /\ Numbers'
    BY <1>1, <1>3, <1>4, <2>1 DEF Same
  <2>3. Call'
    BY <2>1 DEF IInv, Call, Own
  <2> QED BY <1>1, <2>1, <2>2, <2>3 DEF IInv
<1>6. CASE ExecuteEof
  <2>1. /\ call = "idle" /\ p.errno = "OK" /\ unread = None /\ call' = "done"
        /\ UNCHANGED <<ch, unread, left, exact>> /\ ch = None
    BY <1>6 DEF ExecuteEof, NoData, IInv, Call
  <2>2. CASE p.state = "s_body_identity_eof"
    <3>1. PICK r \in Outcomes : p' = Erroneous(p, r) /\ Completes(p)
      BY <1>6, <2>2 DEF ExecuteEof
    <3>2. Struct(p') /\ Same(p', p) /\ p'.state = p.state /\ phase' = "complete"
      BY <1>2, <3>1 DEF Completes, Reports
    <3>3. Position'
      BY <2>1, <2>2, <3>2 DEF Position, Starts
    <3>4. Numbers'
      BY <2>2, <3>2 DEF Numbers, Counted, FramedOnce, ChunkStates, SizeStates
    <3>5. Call'
      BY <2>1, <2>2, <3>2 DEF Call, Ends
    <3> QED BY <2>1, <3>2, <3>3, <3>4, <3>5 DEF IInv
  <2>3. CASE p.state # "s_body_identity_eof"
    <3>1. (p' = p \/ p' = Erroneous(p, "INVALID_EOF_STATE")) /\ UNCHANGED <<phase, kept>>
      BY <1>6, <2>3 DEF ExecuteEof, NoEvent
    <3>2. Struct(p') /\ Same(p', p) /\ p'.state = p.state
      BY <1>1, <1>2, <3>1 DEF Same
    <3>3. Position' /\ Numbers'
      BY <1>3, <1>4, <2>1, <3>1, <3>2
    <3>4. Call'
      BY <1>2, <2>1, <3>1, <3>2 DEF IInv, Call, Same, Own
    <3> QED BY <2>1, <3>2, <3>3, <3>4 DEF IInv
  <2> QED BY <2>2, <2>3
<1>7. CASE Unpause
  <2>1. /\ call = "idle" /\ p.errno = "PAUSED" /\ p' = Erroneous(p, "OK")
        /\ UNCHANGED <<call, ch, unread, left, exact, phase, kept>>
    BY <1>7 DEF Unpause, NoData, NoEvent
  <2>2. Struct(p') /\ Same(p', p) /\ p'.state = p.state /\ p'.errno = "OK"
    BY <1>2, <2>1
  <2>3. Position' /\ Numbers'
    BY <1>3, <2>1, <2>2
  <2>4. Call'
    BY <2>1, <2>2 DEF IInv, Call, Same, Own
  <2> QED BY <2>1, <2>2, <2>3, <2>4 DEF IInv
<1>8. CASE Flush
  <2>1. /\ call = "running" /\ ch = None /\ call' = "idle"
        /\ \E r : p' = Erroneous(p, r)
        /\ UNCHANGED <<ch, unread, left, exact, phase, kept>>
    BY <1>8 DEF Flush, NoNumber, NoEvent
  <2>2. Struct(p') /\ Same(p', p) /\ p'.state = p.state
    BY <1>2, <2>1
  <2>3. Position' /\ Numbers'
    BY <1>3, <1>4, <2>1, <2>2
  <2>4. Call'
    BY <2>1, <2>2 DEF IInv, Call, Same, Own
  <2> QED BY <2>1, <2>2, <2>3, <2>4 DEF IInv
<1>9. CASE Dead
  <2>1. /\ call = "running" /\ ch # None /\ p.state = "s_dead"
        /\ UNCHANGED <<left, exact, phase, kept>>
    BY <1>9 DEF Dead, At, NoData, NoEvent
  <2>2. Moves /\ ch' = None /\ Struct(p') /\ Same(p', p) /\ p'.state = p.state
    <3>1. p.errno = "OK"
      BY <2>1 DEF IInv, Call
    <3> QED BY <1>1, <1>9, <3>1, ConsumeMoves, FailsMoves DEF Dead, Same
  <2>3. Position' /\ Numbers'
    BY <1>3, <2>1, <2>2
  <2>4. TokenOK(ch') /\ TokenOK(unread')
    BY <2>2 DEF IInv, Moves, TokenOK, None, Token
  <2>5. Call'
    BY <2>1, <2>2 DEF IInv, Call, Moves, Ends
  <2> QED BY <2>1, <2>2, <2>3, <2>4, <2>5 DEF IInv
<1> QED BY <1>5, <1>6, <1>7, <1>8, <1>9

-----------------------------------------------------------------------------
LEMMA InitInv == Init => IInv
<1> SUFFICES ASSUME Init PROVE IInv
  OBVIOUS
<1>1. PICK type \in Types :
        p = [type |-> type,
             state |-> IF type = "HTTP_REQUEST" THEN "s_start_req" ELSE "s_start_res",
             header |-> "h_general", flags |-> {}, length |-> 0, nread |-> 0,
             method |-> "DELETE", index |-> 0, http11 |-> FALSE, status |-> 0,
             upgrade |-> FALSE, errno |-> "OK"]
  BY DEF Init
<1>2. /\ call = "idle" /\ left = 0 /\ ch = None /\ unread = None
      /\ phase = "complete" /\ kept
  BY DEF Init
<1>3. p.state \in Starts /\ p.flags = {} /\ p.errno = "OK"
  BY <1>1 DEF Starts
<1>4. Struct(p)
  BY <1>1, MaxLengthAssumption DEF Struct, HeaderStates
<1>5. Position
  BY <1>2, <1>3 DEF Position, Starts, AfterHeaders, ChunkStates, Ends
<1>6. Numbers
  BY <1>2, <1>3 DEF Numbers, Counted, FramedOnce, Starts, ChunkStates, SizeStates
<1>7. Call
  BY <1>2, <1>3 DEF Call, Starts, Ends
<1>8. TokenOK(None)
  BY DEF TokenOK, None, Token
<1> QED BY <1>2, <1>4, <1>5, <1>6, <1>7, <1>8 DEF IInv

LEMMA NextInv == IInv /\ [Next]_vars => IInv'
<1> SUFFICES ASSUME IInv, [Next]_vars PROVE IInv'
  OBVIOUS
<1>1. CASE RequestLine
  BY <1>1, StartStep, RequestLineQuiet DEF RequestLine
<1>2. CASE StatusLine
  BY <1>2, StartStep, StatusLineQuiet DEF StatusLine
<1>3. CASE Http \/ HttpMajor \/ HttpDot \/ HttpMinor \/ LineAlmostDone
  BY <1>3, VersionQuiet
<1>4. CASE Header
  BY <1>4, HeaderQuiet, HeaderValueStep, HeaderFoldStep DEF Header
<1>5. CASE HeadersAlmostDone \/ HeadersDone
  BY <1>5, HeadersAlmostDoneStep, HeadersDoneStep
<1>6. CASE Body
  BY <1>6, BodyStep, ChunkSizeStep, ChunkSizeAlmostDoneStep, ChunkDataStep DEF Body
<1>7. CASE Execute \/ ExecuteEof \/ Unpause \/ Flush \/ Dead
  BY <1>7, OuterStep
<1>8. CASE Load
  BY <1>8, LoadStep
<1>9. CASE UNCHANGED vars
  BY <1>9 DEF vars, IInv, Struct, TokenOK, Position, Numbers, Counted, FramedOnce,
             Call, Own
<1> QED BY <1>1, <1>2, <1>3, <1>4, <1>5, <1>6, <1>7, <1>8, <1>9 DEF Next

THEOREM Invariance == Spec => []IInv
BY InitInv, NextInv, PTL DEF Spec

(* The number that counts is the number in the input: content_length never  *)
(* wraps around and never becomes the value for "no length".                *)
THEOREM ParserLengthExact == Spec => []LengthExact
<1>1. IInv => LengthExact
  BY DEF IInv, Numbers, Counted, LengthExact, SizeStates
<1> QED BY <1>1, Invariance, PTL

(* No message is framed in two ways.                                        *)
THEOREM ParserFramedOnce == Spec => []FramedOnce
<1>1. IInv => FramedOnce
  BY DEF IInv, Numbers
<1> QED BY <1>1, Invariance, PTL

(* The assertions of the code hold, compiled in or not.                     *)
THEOREM ParserAssertions == Spec => []Assertions
<1>1. IInv => Assertions
  BY DEF IInv, Call, Numbers, Assertions, ChunkStates
<1> QED BY <1>1, Invariance, PTL

(* A message ends with its own last byte, wherever a callback paused.       *)
THEOREM ParserEndsWithOwnByte == Spec => []EndsWithOwnByte
<1>1. IInv => EndsWithOwnByte
  BY DEF IInv, Call, Own, Ends, EndsWithOwnByte
<1> QED BY <1>1, Invariance, PTL

(* The steps that report an event of a message.                             *)
LEMMA EventSteps ==
    ASSUME IInv, Next, event' # "none"
    PROVE  /\ \/ <<phase, event'>> \in Follows
              \/ phase = "begun" /\ event' = "begun" /\ At("s_start_res")
           /\ event' = "begun" /\ phase = "complete" => kept
<1>1. \/ ExecuteEof \/ StartReq \/ StartRes \/ HeadersAlmostDone \/ HeadersDone
      \/ MessageDone
  <2>1. CASE RequestLine
    BY <2>1 DEF RequestLine, ReqMethod, ReqSpacesBeforeUrl, Url, ReqHttpStart,
                ReqHttpEnd, NoEvent
  <2>2. CASE StatusLine
    BY <2>2 DEF StatusLine, ResHttpEnd, ResFirstStatusCode, ResStatusCode,
                ResStatusStart, ResStatus, NoEvent
  <2>3. CASE Header
    BY <2>3 DEF Header, HeaderFieldStart, HeaderValueDiscardWs, HeaderValueStart,
                HeaderValueDiscardWsAlmostDone, HeaderValueDiscardLws, HeaderValue,
                HeaderAlmostDone, HeaderValueLws, NoEvent
  <2>4. CASE Body
    BY <2>4 DEF Body, BodyIdentity, BodyIdentityEof, ChunkSizeStart, ChunkSize,
                ChunkParameters, ChunkSizeAlmostDone, ChunkData,
                ChunkDataAlmostDone, ChunkDataDone, NoEvent
  <2>5. CASE Http \/ HttpMajor \/ HttpDot \/ HttpMinor \/ LineAlmostDone
    BY <2>5 DEF Http, HttpMajor, HttpDot, HttpMinor, LineAlmostDone, NoEvent
  <2>6. CASE Execute \/ Unpause \/ Load \/ Flush \/ Dead
    BY <2>6 DEF Execute, Unpause, Load, Flush, Dead, NoEvent
  <2> QED BY <2>1, <2>2, <2>3, <2>4, <2>5, <2>6 DEF Next
<1>2. CASE StartReq
  <2>1. event' = "begun" /\ p.state = "s_start_req"
    BY <1>2 DEF StartReq, At, NoEvent, Reports
  <2>2. phase = "complete" /\ kept
    BY <2>1 DEF IInv, Position, Starts
  <2> QED BY <2>1, <2>2 DEF Follows
<1>3. CASE StartRes
  <2>1. event' = "begun" /\ p.state = "s_start_res" /\ At("s_start_res")
    BY <1>3 DEF StartRes, At, NoEvent, Reports
  <2>2. phase = "begun" \/ (phase = "complete" /\ kept)
    BY <2>1 DEF IInv, Position, Starts
  <2> QED BY <2>1, <2>2 DEF Follows
<1>4. CASE HeadersAlmostDone
  <2>1. event' = "headers" /\ p.state = "s_headers_almost_done" /\ "F_TRAILING" \notin p.flags
    BY <1>4 DEF HeadersAlmostDone, At, NoEvent, Reports
  <2>2. p.state \notin AfterHeaders \cup Starts \cup {"s_dead", "s_body_identity_eof"}
    BY <2>1 DEF AfterHeaders, ChunkStates, Ends, Starts
  <2>3. phase = "begun"
    BY <2>1, <2>2 DEF IInv, Position
  <2> QED BY <2>1, <2>3 DEF Follows
<1>5. CASE ExecuteEof \/ HeadersDone \/ MessageDone
  <2>1. /\ event' = "complete" /\ call # "done"
        /\ p.state \in {"s_body_identity_eof", "s_headers_done", "s_message_done"}
    BY <1>5 DEF ExecuteEof, HeadersDone, MessageDone, Completes, At, NoEvent, Reports
  <2>2. p.state \in AfterHeaders \ (Starts \cup {"s_dead"})
    BY <2>1 DEF AfterHeaders, Ends, Starts
  <2>3. phase = "headers"
    BY <2>1, <2>2 DEF IInv, Position
  <2> QED BY <2>1, <2>3 DEF Follows
<1> QED BY <1>1, <1>2, <1>3, <1>4, <1>5

(* The headers of a message and its end are reported once each and in this  *)
(* order, its beginning before them, once but for blank lines before the    *)
(* status line of a response; and none begins after one that ends the       *)
(* connection.                                                              *)
THEOREM ParserMessagesInOrder == Spec => MessagesInOrder
<1> DEFINE A == /\ event' # "none" =>
                     \/ <<phase, event'>> \in Follows
                     \/ /\ phase = "begun" /\ event' = "begun"
                        /\ At("s_start_res")
                /\ event' = "begun" /\ phase = "complete" => kept
<1>1. IInv /\ [Next]_vars => [A]_vars
  BY EventSteps DEF vars
<1> QED BY <1>1, Invariance, PTL DEF Spec, MessagesInOrder
=============================================================================
