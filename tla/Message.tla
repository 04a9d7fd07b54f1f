------------------------------ MODULE Message ------------------------------
(***************************************************************************)
(* message.cpp, and clear, end and parse of request.cpp and response.cpp:  *)
(* a message is composed, perhaps rendered before, cleared or built upon   *)
(* one that was received, then rendered and parsed by a peer that uses the *)
(* same library.                                                           *)
(*                                                                         *)
(* Of a rendered message the first read brings the head and any part of    *)
(* the body; RequestParse is about the other cuts and what comes next.     *)
(* Values are numbers: only those of Content-Length matter.                *)
(* Headers that change how the parser frames a message (Transfer-Encoding, *)
(* Connection, Upgrade) are HttpParser's subject and left out here.        *)
(***************************************************************************)
EXTENDS Integers, SequencesExt

CONSTANTS Names,     \* header names the program uses, Content-Length apart
          MaxBody,   \* bound: bytes the program writes into one body
          Nothing    \* no message is under way

ASSUME NamesAssumption == "content-length" \notin Names
ASSUME MaxBodyAssumption == MaxBody \in Nat

VARIABLES
    kind,    \* Requests or Responses are sent
    utf8,    \* ICU's default converter, which operator << uses, is UTF-8
    box,     \* the message the program composes
    wire,    \* the rendered message under way, or Nothing
    got,     \* the peer's object
    accepts  \* the result of the peer's last parse

vars == <<kind, utf8, box, wire, got, accepts>>

(* A key of the table, which tells spellings apart: end() writes            *)
(* "Content-Length", parse makes every name it reads lower-case.            *)
Keys == [name : Names \cup {"content-length"}, lower : BOOLEAN]

ContentLength == [name |-> "content-length", lower |-> FALSE]

LowerCase(k) == [k EXCEPT !.lower = TRUE]

Values == 0..MaxBody

Tables == UNION {[ks -> Values] : ks \in SUBSET Keys}

(* a: an ASCII byte; h, t: the two bytes of another character; r1, r2, r3:  *)
(* those of U+FFFD; s: what a converter puts for a character it does not    *)
(* have.                                                                    *)
Replacement == <<"r1", "r2", "r3">>

Bytes == {"a", "h", "t", "r1", "r2", "r3", "s"}

(* The method and URL, or the status.  Unknown has a number and a name, but *)
(* no peer accepts them.                                                    *)
Starts == {"default", "other", "Unknown"}

Objects == [start : Starts, headers : Tables, body : Seq(Bytes)]

NewObject == [start |-> "default", headers |-> <<>>, body |-> <<>>]

-----------------------------------------------------------------------------
(* unordered_map::emplace: a key that is there keeps its value.             *)
addHeader_Replaces(t, k, v) ==
    [j \in DOMAIN t \cup {k} |-> IF j = k THEN v ELSE t[j]]

addHeader(t, k, v) ==
    [j \in DOMAIN t \cup {k} |-> IF j \in DOMAIN t THEN t[j] ELSE v]

removeHeader(t, k) == [j \in DOMAIN t \ {k} |-> t[j]]

(* The body without the headers.                                            *)
clear(m) == [m EXCEPT !.body = <<>>]

Replaced(b, i) ==
    /\ i \in 1..Len(b) - 2
    /\ b[i] = "r1" /\ b[i + 1] = "r2" /\ b[i + 2] = "r3"

(* A byte that is no part of a whole character.                             *)
Stray(b, i) ==
    \/ b[i] = "h" /\ (i = Len(b) \/ b[i + 1] # "t")
    \/ b[i] = "t" /\ (i = 1 \/ b[i - 1] # "h")
    \/ b[i] = "r1" /\ ~Replaced(b, i)
    \/ b[i] = "r2" /\ ~Replaced(b, i - 1)
    \/ b[i] = "r3" /\ ~Replaced(b, i - 2)

(* A byte that belongs to the character, or the beginning of one, before it.*)
Continues(b, i) ==
    \/ b[i] = "t" /\ ~Stray(b, i)
    \/ b[i] = "r2" /\ i > 1 /\ b[i - 1] = "r1"
    \/ b[i] = "r3" /\ ~Stray(b, i)

(* convertRawToUnicode, then operator << of a UnicodeString.  fromUTF8 puts *)
(* one U+FFFD for a character that is cut off, so that a U+FFFD that is cut *)
(* off becomes whole again.                                                 *)
Converted(b) ==
    FlattenSeq([i \in 1..Len(b) |->
        IF b[i] \in {"a", "s"} \/ (utf8 /\ ~Stray(b, i)) THEN <<b[i]>>
        ELSE IF Continues(b, i) THEN <<>>
        ELSE IF utf8 THEN Replacement ELSE <<"s">>])

(* end(): the object gets the length it is rendered with.                   *)
end_CountsNul(m) ==
    [m EXCEPT !.headers = addHeader(@, ContentLength, Len(m.body) + 1)]

end(m) == [m EXCEPT !.headers = addHeader(@, ContentLength, Len(m.body))]

Lengths(t) == {k \in DOMAIN t : k.name = "content-length"}

(* What parse can leave in an object of the lines of a table, read in the   *)
(* order that the peer's hash gives them.  The library's own callbacks add  *)
(* each one under its lower-case name.                                      *)
WithHeaders(t, lines) ==
    LET names == {LowerCase(k) : k \in DOMAIN lines} IN
    {r \in [DOMAIN t \cup names -> Values] :
        \A k \in DOMAIN r :
            IF k \in DOMAIN t THEN r[k] = t[k]
            ELSE \E j \in DOMAIN lines : LowerCase(j) = k /\ r[k] = lines[j]}

(* http_parser_execute stops at a start line that is none, and at a second  *)
(* Content-Length, when any of the lines before it may have been read.      *)
Rejected(m, o) ==
    IF m.start = "Unknown" THEN {o}
    ELSE {[o EXCEPT !.headers = t] :
             t \in UNION {WithHeaders(o.headers, [k \in ks |-> m.headers[k]]) :
                             ks \in {s \in SUBSET DOMAIN m.headers :
                                        Cardinality(Lengths([k \in s |-> 0])) <= 1}}}

(* Only requests have a callback for what the start line said.              *)
WithStart(m, o) ==
    [o EXCEPT !.start = IF kind = "request" THEN m.start ELSE @]

(* The body is as much as the length says, or what there is.                *)
Taken(m) ==
    LET length == m.headers[CHOOSE k \in Lengths(m.headers) : TRUE] IN
    SubSeq(m.body, 1, IF length < Len(m.body) THEN length ELSE Len(m.body))

Filled(m, o) ==
    {[WithStart(m, o) EXCEPT !.headers = t, !.body = @ \o Converted(Taken(m))] :
        t \in WithHeaders(o.headers, m.headers)}

Readable(m) == m.start # "Unknown" /\ Cardinality(Lengths(m.headers)) = 1

-----------------------------------------------------------------------------
Init ==
    /\ kind \in {"request", "response"}
    /\ utf8 \in BOOLEAN
    /\ box = NewObject
    /\ wire = Nothing
    /\ got = NewObject
    /\ accepts = TRUE

(* Composing commutes with what the peer does, and waits for it here.       *)
Composes(m) ==
    /\ wire = Nothing /\ got = NewObject
    /\ box' = m
    /\ UNCHANGED <<kind, utf8, wire, got, accepts>>

AddHeader(k, v) == Composes([box EXCEPT !.headers = addHeader(@, k, v)])

RemoveHeader(k) == Composes([box EXCEPT !.headers = removeHeader(@, k)])

Clear == Composes(clear(box))

(* getBody() << byte.                                                       *)
Write(b) ==
    /\ Len(box.body) < MaxBody
    /\ Composes([box EXCEPT !.body = Append(@, b)])

SetStart(s) == Composes([box EXCEPT !.start = s])

(* end(), and the bytes handed to the socket; the peer's first read has     *)
(* some of the body's.                                                      *)
End ==
    /\ wire = Nothing /\ got = NewObject
    /\ box' = end(box)
    /\ \E n \in 0..Len(box.body) :
          wire' = [meant |-> box, sent |-> end(box), read |-> n]
    /\ UNCHANGED <<kind, utf8, got, accepts>>

(* Bytes after the body are taken for the start of another message, which   *)
(* they may be or not; none starts with a byte that is not ASCII.           *)
Parse ==
    /\ wire # Nothing
    /\ LET m == [wire.sent EXCEPT !.body = SubSeq(@, 1, wire.read)] IN
       \/ ~Readable(m) /\ got' \in Rejected(m, got) /\ accepts' = FALSE
       \/ /\ Readable(m)
          /\ got' \in Filled(m, got)
          /\ accepts' \in IF Taken(m) = m.body THEN {TRUE}
                          ELSE IF m.body[Len(Taken(m)) + 1] \in {"a", "s"} THEN BOOLEAN
                          ELSE {FALSE}
    /\ wire' = Nothing
    /\ UNCHANGED <<kind, utf8, box>>

(* The peer uses what it received for a message of its own (a handler that  *)
(* gives its Request to makeRequest), and has a new object for the next.    *)
Forward ==
    /\ wire = Nothing
    /\ Len(got.body) <= MaxBody
    /\ box' = got /\ got' = NewObject
    /\ UNCHANGED <<kind, utf8, wire, accepts>>

(* The peer's connection ends and its object with it.                       *)
Discard ==
    /\ wire = Nothing
    /\ got' = NewObject
    /\ UNCHANGED <<kind, utf8, box, wire, accepts>>

(* Bound: two values of the other headers are enough to tell them apart.    *)
Written(k) == IF k.name = "content-length" THEN Values ELSE {0, MaxBody}

Next ==
    \/ \E k \in Keys : RemoveHeader(k) \/ \E v \in Written(k) : AddHeader(k, v)
    \/ \E b \in {"a", "h", "t"} : Write(b)
    \/ \E s \in Starts : SetStart(s)
    \/ Clear \/ End \/ Parse \/ Forward \/ Discard

Spec == Init /\ [][Next]_vars

-----------------------------------------------------------------------------
TypeOK ==
    /\ kind \in {"request", "response"}
    /\ utf8 \in BOOLEAN
    /\ box \in Objects
    /\ wire # Nothing => wire.meant \in Objects /\ wire.sent \in Objects
    /\ got \in Objects
    /\ accepts \in BOOLEAN

(* What the receiver finds under the only spelling it has.                  *)
Found(m, o) ==
    \A k \in DOMAIN m.headers :
        LowerCase(k) \in DOMAIN o.headers
        /\ o.headers[LowerCase(k)] = m.headers[k]

(* All of a body that matters: only the end of a U+FFFD may be missing.     *)
Enough(b, n) ==
    \/ n = Len(b)
    \/ utf8 /\ n \in Len(b) - 2..Len(b) - 1 /\ Replaced(b, Len(b) - 2)

(* When a message arrives as it was meant, and its receiver is told so, of  *)
(* n bytes of its body in the first read: exactly when its start line has a *)
(* name, no two spellings of a header disagree, the body is text in the     *)
(* converter's character set and came in this read, up to a U+FFFD cut off, *)
(* and a Content-Length that was there before it was rendered (set by the   *)
(* program, left by an earlier end() or by clear(), or received) is spelled *)
(* as end() spells it and not too small.                                    *)
Plain(m, n) ==
    /\ m.start # "Unknown"
    /\ \A j, k \in DOMAIN m.headers :
          LowerCase(j) = LowerCase(k) => m.headers[j] = m.headers[k]
    /\ \A i \in 1..Len(m.body) : IF utf8 THEN ~Stray(m.body, i) ELSE m.body[i] \in {"a", "s"}
    /\ Enough(m.body, n)
    /\ \A k \in Lengths(m.headers) : k = ContentLength /\ m.headers[k] >= n

ArrivesIntact ==
    [][wire # Nothing /\ wire' = Nothing /\ got = NewObject =>
         (Plain(wire.meant, wire.read) <=>
             /\ accepts'
             /\ got'.body = wire.meant.body
             /\ kind = "request" => got'.start = wire.meant.start
             /\ Found(wire.sent, got'))]_vars

(* "Parse the buffer representing an HTTP response." (response.h)  The      *)
(* status of the response is part of it.                                    *)
StatusArrives ==
    [][wire # Nothing /\ wire' = Nothing /\ got = NewObject
         /\ Plain(wire.meant, wire.read) =>
         got'.start = wire.meant.start]_vars
=============================================================================
