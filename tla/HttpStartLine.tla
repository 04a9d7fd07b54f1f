--------------------------- MODULE HttpStartLine ---------------------------
(***************************************************************************)
(* http_parser.c: the words of a request or status line.                   *)
(*                                                                         *)
(* Methods are recognised letter by letter, as the code does: a guess made *)
(* at the first letter is corrected at the letter that contradicts it.  In *)
(* a URL a token stands for the characters parse_url_char treats alike.    *)
(***************************************************************************)
EXTENDS HttpHeader, Sequences

Letter(l) == [t |-> "letter", l |-> l]

Dot == Token("dot")
Ttp == Token("TTP/")

(* alpha: a letter; slash to at: the character itself; bracket: of an IPv6  *)
(* address; quote: a character that is good after the host only.  A digit   *)
(* stands for the other characters of a user name.                          *)
Alpha == Token("alpha")
Slash == Token("slash")
Star == Token("star")
Colon == Token("colon")
Question == Token("question")
Hash == Token("hash")
AtSign == Token("at")
Bracket == Token("bracket")
Quote == Token("quote")

UrlTokens == {Alpha, Slash, Star, Colon, Question, Hash, AtSign, Bracket, Quote, Digit(0)}

-----------------------------------------------------------------------------
(* The names of methods, and how they are spelled.                          *)
Spelling ==
    [DELETE |-> <<"D","E","L","E","T","E">>, GET |-> <<"G","E","T">>,
     HEAD |-> <<"H","E","A","D">>, POST |-> <<"P","O","S","T">>,
     PUT |-> <<"P","U","T">>, CONNECT |-> <<"C","O","N","N","E","C","T">>,
     OPTIONS |-> <<"O","P","T","I","O","N","S">>,
     TRACE |-> <<"T","R","A","C","E">>, COPY |-> <<"C","O","P","Y">>,
     LOCK |-> <<"L","O","C","K">>, MKCOL |-> <<"M","K","C","O","L">>,
     MOVE |-> <<"M","O","V","E">>,
     PROPFIND |-> <<"P","R","O","P","F","I","N","D">>,
     PROPPATCH |-> <<"P","R","O","P","P","A","T","C","H">>,
     SEARCH |-> <<"S","E","A","R","C","H">>,
     UNLOCK |-> <<"U","N","L","O","C","K">>, BIND |-> <<"B","I","N","D">>,
     REBIND |-> <<"R","E","B","I","N","D">>,
     UNBIND |-> <<"U","N","B","I","N","D">>, ACL |-> <<"A","C","L">>,
     REPORT |-> <<"R","E","P","O","R","T">>,
     MKACTIVITY |-> <<"M","K","A","C","T","I","V","I","T","Y">>,
     CHECKOUT |-> <<"C","H","E","C","K","O","U","T">>,
     MERGE |-> <<"M","E","R","G","E">>,
     MSEARCH |-> <<"M","-","S","E","A","R","C","H">>,
     NOTIFY |-> <<"N","O","T","I","F","Y">>,
     SUBSCRIBE |-> <<"S","U","B","S","C","R","I","B","E">>,
     UNSUBSCRIBE |-> <<"U","N","S","U","B","S","C","R","I","B","E">>,
     PATCH |-> <<"P","A","T","C","H">>, PURGE |-> <<"P","U","R","G","E">>,
     MKCALENDAR |-> <<"M","K","C","A","L","E","N","D","A","R">>,
     LINK |-> <<"L","I","N","K">>, UNLINK |-> <<"U","N","L","I","N","K">>,
     SOURCE |-> <<"S","O","U","R","C","E">>]

Methods == DOMAIN Spelling

Letters == {"A", "B", "C", "D", "E", "F", "G", "H", "I", "K", "L", "M", "N",
            "O", "P", "R", "S", "T", "U", "V", "Y", "-"}

(* The guess at the first letter.                                           *)
Guess ==
    [A |-> "ACL", B |-> "BIND", C |-> "CONNECT", D |-> "DELETE", G |-> "GET",
     H |-> "HEAD", L |-> "LOCK", M |-> "MKCOL", N |-> "NOTIFY", O |-> "OPTIONS",
     P |-> "POST", R |-> "REPORT", S |-> "SUBSCRIBE", T |-> "TRACE", U |-> "UNLOCK"]

(* <<method, index, letter, the method it is instead>>                      *)
Corrections ==
    {<<"POST", 1, "U", "PUT">>, <<"POST", 1, "A", "PATCH">>,
     <<"POST", 1, "R", "PROPFIND">>, <<"PUT", 2, "R", "PURGE">>,
     <<"CONNECT", 1, "H", "CHECKOUT">>, <<"CONNECT", 2, "P", "COPY">>,
     <<"MKCOL", 1, "O", "MOVE">>, <<"MKCOL", 1, "E", "MERGE">>,
     <<"MKCOL", 1, "-", "MSEARCH">>, <<"MKCOL", 2, "A", "MKACTIVITY">>,
     <<"MKCOL", 3, "A", "MKCALENDAR">>, <<"SUBSCRIBE", 1, "E", "SEARCH">>,
     <<"SUBSCRIBE", 1, "O", "SOURCE">>, <<"REPORT", 2, "B", "REBIND">>,
     <<"PROPFIND", 4, "P", "PROPPATCH">>, <<"LOCK", 1, "I", "LINK">>,
     <<"UNLOCK", 2, "S", "UNSUBSCRIBE">>, <<"UNLOCK", 2, "B", "UNBIND">>,
     <<"UNLOCK", 3, "I", "UNLINK">>}

(* The correction that a letter asks for, if any.                           *)
Corrected_AtAnyIndex(method, index, l) ==
    {c[4] : c \in {d \in Corrections : d[1] = method /\ d[3] = l}}

Corrected(method, index, l) ==
    {c[4] : c \in {d \in Corrections : d[1] = method /\ d[2] = index /\ d[3] = l}}

(* matcher[index], from 0; the empty string is the terminating NUL.         *)
CharAt(method, index) ==
    IF index < Len(Spelling[method]) THEN Spelling[method][index + 1] ELSE ""

-----------------------------------------------------------------------------
(* The states inside a URL.                                                 *)
UrlStates ==
    {"s_req_schema", "s_req_schema_slash", "s_req_schema_slash_slash",
     "s_req_server_start", "s_req_server", "s_req_server_with_at", "s_req_path",
     "s_req_query_string_start", "s_req_query_string",
     "s_req_fragment_start", "s_req_fragment"}

(* The states in which a buffer begins inside a URL or a reason phrase, so  *)
(* that what it has of it is to be reported from its first byte on.         *)
MarkedStates_NoAt ==
    (UrlStates \ {"s_req_server_with_at"}) \cup {"s_res_status"}

MarkedStates == UrlStates \cup {"s_res_status"}

(* Where white space may not end the URL.                                   *)
Unfinished == {"s_req_schema", "s_req_schema_slash", "s_req_schema_slash_slash",
               "s_req_server_start"}

(* The letters of HTTP/ and the version, in requests and responses.         *)
After == [s_req_http_H |-> "s_req_http_major", s_res_H |-> "s_res_http_major",
          s_req_http_major |-> "s_req_http_dot", s_res_http_major |-> "s_res_http_dot",
          s_req_http_dot |-> "s_req_http_minor", s_res_http_dot |-> "s_res_http_minor",
          s_req_http_minor |-> "s_req_http_end", s_res_http_minor |-> "s_res_http_end"]

IsUrlChar(ch) == ch \in UrlTokens \ {Question, Hash}

IsUserInfoChar(ch) == ch \in {Alpha, Star, Colon, Digit(0)}

(* parse_url_char; s_dead says that the character does not fit.             *)
parse_url_char(s, ch) ==
    CASE s = "s_req_spaces_before_url" /\ ch \in {Slash, Star} -> "s_req_path"
      [] s \in {"s_req_spaces_before_url", "s_req_schema"} /\ ch = Alpha ->
            "s_req_schema"
      [] s = "s_req_schema" /\ ch = Colon -> "s_req_schema_slash"
      [] s = "s_req_schema_slash" /\ ch = Slash -> "s_req_schema_slash_slash"
      [] s = "s_req_schema_slash_slash" /\ ch = Slash -> "s_req_server_start"
      [] s \in {"s_req_server_start", "s_req_server", "s_req_server_with_at"} ->
            CASE ch = AtSign -> IF s = "s_req_server_with_at" THEN "s_dead"
                            ELSE "s_req_server_with_at"
              [] ch = Slash    -> "s_req_path"
              [] ch = Question -> "s_req_query_string_start"
              [] IsUserInfoChar(ch) \/ ch = Bracket -> "s_req_server"
              [] OTHER -> "s_dead"
      [] s = "s_req_path" ->
            CASE IsUrlChar(ch) -> s
              [] ch = Question -> "s_req_query_string_start"
              [] ch = Hash     -> "s_req_fragment_start"
              [] OTHER         -> "s_dead"
      [] s \in {"s_req_query_string_start", "s_req_query_string"} ->
            CASE IsUrlChar(ch) \/ ch = Question -> "s_req_query_string"
              [] ch = Hash     -> "s_req_fragment_start"
              [] OTHER         -> "s_dead"
      [] s = "s_req_fragment_start" ->
            CASE IsUrlChar(ch) \/ ch = Question -> "s_req_fragment"
              [] ch = Hash     -> s
              [] OTHER         -> "s_dead"
      [] s = "s_req_fragment" ->
            IF ch \in UrlTokens THEN s ELSE "s_dead"
      [] OTHER -> "s_dead"
=============================================================================
