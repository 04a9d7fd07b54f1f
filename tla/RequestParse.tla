---------------------------- MODULE RequestParse ----------------------------
(***************************************************************************)
(* Request::parse: one read buffer, one fresh http_parser.                 *)
(*                                                                         *)
(* The byte stream of a peer is abstracted to parts: the request line, the *)
(* header block up to and including its blank line, the body, and junk no  *)
(* parser state accepts.  A read delivers any run of parts, so a request   *)
(* may be split over several reads and several requests may share one.     *)
(* Request::parse initialises a new parser for every buffer, hence the     *)
(* first part of a buffer is always parsed from s_start_req; the Request   *)
(* object it fills is the connection's, and is never reset.                *)
(***************************************************************************)
EXTENDS Integers, Sequences

CONSTANTS Ids,   \* identities of the requests a peer sends
          NoId   \* "not from any request": the defaults of a new Request

ASSUME NoIdAssumption == NoId \notin Ids

(* more:  the header block announces a body                                 *)
(* final: the parser takes nothing more after this message in the same      *)
(*        buffer (no keep-alive: s_dead; upgrade: it returns early)         *)
Part == [id : Ids, kind : {"line", "headers", "body", "junk"},
         more : BOOLEAN, final : BOOLEAN]

(* What the handler can tell about a Request: which request on the wire     *)
(* each of its fields came from, and which headers announced a body.        *)
Request == [url : Ids \cup {NoId}, method : Ids \cup {NoId},
            headers : SUBSET Ids, announced : SUBSET Ids, body : SUBSET Ids]

NewRequest == [url |-> NoId, method |-> NoId, headers |-> {},
               announced |-> {}, body |-> {}]

EndsMessage(p) == p.kind = "body" \/ (p.kind = "headers" /\ ~p.more)

(* The parser, having consumed p, accepts q.                                *)
Follows(p, q) ==
    \/ p.kind = "line" /\ q.kind = "headers"
    \/ p.kind = "headers" /\ p.more /\ q.kind = "body"
    \/ EndsMessage(p) /\ ~p.final /\ q.kind = "line"

Accepts(f, i) ==
    IF i = 1 THEN f[1].kind = "line" ELSE Follows(f[i-1], f[i])

(* The parts whose callbacks ran: those before the first one rejected.      *)
Consumed(f) ==
    {i \in 1..Len(f) : \A j \in 1..i : Accepts(f, j)}

(* http_parser_execute consumed the whole buffer.  An empty read and a      *)
(* request cut anywhere both count.                                         *)
Whole(f) == Consumed(f) = 1..Len(f)

(* The verdicts Request::parse may return.  A buffer that is one piece of a *)
(* body is arbitrary bytes, which may or may not look like the beginning of *)
(* a method name.                                                           *)
Verdicts(f) ==
    IF Len(f) = 1 /\ f[1].kind = "body" THEN BOOLEAN ELSE {Whole(f)}

OfKind(f, kind) == {i \in Consumed(f) : f[i].kind = kind}

Latest(S) == {i \in S : \A j \in S : j <= i}

LastId_Unset(f, kind, default) ==
    IF Latest(OfKind(f, kind)) = {} THEN -1
    ELSE f[CHOOSE i \in Latest(OfKind(f, kind)) : TRUE].id

(* The request that the last part of a kind belongs to.                     *)
LastId(f, kind, default) ==
    IF Latest(OfKind(f, kind)) = {} THEN default
    ELSE f[CHOOSE i \in Latest(OfKind(f, kind)) : TRUE].id

(* setUrl and setMethod overwrite, addHeader adds (the first value of a key *)
(* wins), getBody() << appends.                                             *)
Parsed_NoMethod(r, f) ==
    [url       |-> LastId(f, "line", r.url),
     method    |-> r.method,
     headers   |-> r.headers \cup {f[i].id : i \in OfKind(f, "headers")},
     announced |-> r.announced
                    \cup {f[i].id : i \in {j \in OfKind(f, "headers") : f[j].more}},
     body      |-> r.body \cup {f[i].id : i \in OfKind(f, "body")}]

Parsed(r, f) ==
    [url       |-> LastId(f, "line", r.url),
     method    |-> LastId(f, "headers", r.method),
     headers   |-> r.headers \cup {f[i].id : i \in OfKind(f, "headers")},
     announced |-> r.announced
                    \cup {f[i].id : i \in {j \in OfKind(f, "headers") : f[j].more}},
     body      |-> r.body \cup {f[i].id : i \in OfKind(f, "body")}]

(* A buffer that holds exactly one complete request.                        *)
OneRequest(f) ==
    /\ f # <<>>
    /\ Whole(f)
    /\ EndsMessage(f[Len(f)])
    /\ \A i \in 2..Len(f) : f[i].kind # "line"

(* A Request that is exactly what the peer sent as one request: every field *)
(* from the same one, and a body exactly if the headers announced one.      *)
Genuine(r) ==
    /\ r.url \in Ids
    /\ r.method = r.url
    /\ r.headers = {r.url}
    /\ r.body = r.announced
=============================================================================
