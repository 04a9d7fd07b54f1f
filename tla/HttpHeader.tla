----------------------------- MODULE HttpHeader -----------------------------
(***************************************************************************)
(* http_parser.c: what the parser makes of the lines of a header block.    *)
(*                                                                         *)
(* Input is a sequence of tokens: a header name with its colon, a word of  *)
(* a value, a digit, or a single character.  The parser recognises words   *)
(* letter by letter (index, h_matching_...), which a token abstracts.  The *)
(* operators are pure functions on the parser's struct.                    *)
(***************************************************************************)
EXTENDS Integers

CONSTANT MaxLength   \* ULLONG_MAX, which also stands for "no length given"

ASSUME MaxLengthAssumption == MaxLength \in Nat /\ MaxLength >= 16

Token(t) == [t |-> t]
Digit(v) == [t |-> "digit", v |-> v]
Name(n) == [t |-> "name", name |-> n]

CR == Token("CR")
LF == Token("LF")
SP == Token("SP")
Comma == Token("comma")
Semicolon == Token("semicolon")
Junk == Token("junk")
Byte == Token("byte")

(* "other" is any word or name the parser does not look for.                *)
Names == {"content-length", "transfer-encoding", "connection", "upgrade", "other"}

(* "part" is the beginning of a word that Connection looks for.             *)
Words == {"keep-alive", "close", "upgrade", "chunked", "part", "other"}

WordTokens == {Token(w) : w \in Words}

IsDecimal(ch) == ch.t = "digit" /\ ch.v <= 9

Flags == {"F_CHUNKED", "F_CONNECTION_KEEP_ALIVE", "F_CONNECTION_CLOSE",
          "F_CONNECTION_UPGRADE", "F_TRAILING", "F_UPGRADE", "F_SKIPBODY",
          "F_CONTENTLENGTH"}

(* h_matching_connection_word: the states h_matching_connection_keep_alive, *)
(* _close and _upgrade, in the middle of a word.                            *)
HeaderStates == {"h_general", "h_connection", "h_content_length",
                 "h_transfer_encoding", "h_upgrade",
                 "h_matching_connection_token_start",
                 "h_matching_connection_token", "h_matching_connection_word",
                 "h_transfer_encoding_chunked",
                 "h_connection_keep_alive", "h_connection_close",
                 "h_connection_upgrade"}

Errnos == {"OK", "PAUSED", "CB_FAILED", "INVALID_EOF_STATE", "HEADER_OVERFLOW",
           "CLOSED_CONNECTION", "INVALID_METHOD", "INVALID_URL",
           "INVALID_CONSTANT", "INVALID_VERSION", "INVALID_STATUS",
           "LF_EXPECTED", "INVALID_HEADER_TOKEN", "INVALID_CONTENT_LENGTH",
           "UNEXPECTED_CONTENT_LENGTH", "INVALID_CHUNK_SIZE", "STRICT"}

Erroneous(p, errno) == [p EXCEPT !.errno = errno]

InState(p, state) == [p EXCEPT !.state = state]

-----------------------------------------------------------------------------
(* One more digit of a Content-Length or of a chunk's size, in uint64_t.    *)
AddDigit_NoCheck(p, base, ch) ==
    [p EXCEPT !.length = (@ * base + ch.v) % (MaxLength + 1)]

AddDigit(p, base, ch) ==
    IF (MaxLength - base) \div base < p.length
    THEN Erroneous(p, "INVALID_CONTENT_LENGTH")
    ELSE [p EXCEPT !.length = (@ * base + ch.v) % (MaxLength + 1)]

(* s_header_field, from a name to its colon.                                *)
FieldState == [n \in Names |->
    CASE n = "content-length"    -> "h_content_length"
      [] n = "transfer-encoding" -> "h_transfer_encoding"
      [] n = "connection"        -> "h_connection"
      [] n = "upgrade"           -> "h_upgrade"
      [] OTHER                   -> "h_general"]

(* A word at the beginning of an item of a Connection header.               *)
ConnectionItem(ch) ==
    CASE ch.t = "keep-alive" -> "h_connection_keep_alive"
      [] ch.t = "close"      -> "h_connection_close"
      [] ch.t = "upgrade"    -> "h_connection_upgrade"
      [] ch.t = "part"       -> "h_matching_connection_word"
      [] OTHER               -> "h_matching_connection_token"

(* The flag a header, or an item of Connection, leaves when it ends.        *)
FlagOf == [h \in HeaderStates |->
    CASE h = "h_connection_keep_alive"     -> {"F_CONNECTION_KEEP_ALIVE"}
      [] h = "h_connection_close"          -> {"F_CONNECTION_CLOSE"}
      [] h = "h_connection_upgrade"        -> {"F_CONNECTION_UPGRADE"}
      [] h = "h_transfer_encoding_chunked" -> {"F_CHUNKED"}
      [] OTHER                             -> {}]

WithFlag(p) == [p EXCEPT !.flags = @ \cup FlagOf[p.header]]

(* s_header_value_start: the first character of a value, or the white space *)
(* of a continuation line.                                                  *)
ValueStart(p, ch) ==
    LET q == InState(p, "s_header_value")
        General == [q EXCEPT !.header = "h_general"] IN
    CASE p.header = "h_upgrade" ->
            [General EXCEPT !.flags = @ \cup {"F_UPGRADE"}]
      [] p.header = "h_transfer_encoding" ->
            IF ch.t = "chunked"
            THEN [q EXCEPT !.header = "h_transfer_encoding_chunked"]
            ELSE General
      [] p.header = "h_content_length" ->
            IF ~IsDecimal(ch) THEN Erroneous(q, "INVALID_CONTENT_LENGTH")
            ELSE IF "F_CONTENTLENGTH" \in p.flags
            THEN Erroneous(q, "UNEXPECTED_CONTENT_LENGTH")
            ELSE [q EXCEPT !.flags = @ \cup {"F_CONTENTLENGTH"}, !.length = ch.v]
      [] p.header = "h_connection" ->
            [q EXCEPT !.header = ConnectionItem(ch)]
      [] p.header = "h_matching_connection_token_start" -> q
      [] OTHER -> General

(* s_header_value: a further character that does not end the line.  One     *)
(* that breaks off a word is swallowed with it, be it a comma.              *)
Value(p, ch) ==
    CASE p.header = "h_content_length" ->
            IF ch = SP THEN p
            ELSE IF ~IsDecimal(ch) THEN Erroneous(p, "INVALID_CONTENT_LENGTH")
            ELSE AddDigit(p, 10, ch)
      [] p.header = "h_matching_connection_token_start" ->
            IF ch = SP THEN p
            ELSE [p EXCEPT !.header = IF ch \in {Comma, Semicolon} THEN "h_general"
                                      ELSE ConnectionItem(ch)]
      [] p.header = "h_matching_connection_token" ->
            IF ch = Comma
            THEN [p EXCEPT !.header = "h_matching_connection_token_start"]
            ELSE p
      [] p.header = "h_matching_connection_word" ->
            [p EXCEPT !.header = "h_matching_connection_token"]
      [] p.header = "h_transfer_encoding_chunked" ->
            IF ch = SP THEN p ELSE [p EXCEPT !.header = "h_general"]
      [] p.header \in {"h_connection_keep_alive", "h_connection_close",
                       "h_connection_upgrade"} ->
            IF ch = Comma
            THEN [WithFlag(p) EXCEPT !.header = "h_matching_connection_token_start"]
            ELSE IF ch = SP THEN p
            ELSE [p EXCEPT !.header = "h_matching_connection_token"]
      [] OTHER -> p
=============================================================================
