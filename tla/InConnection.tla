---------------------------- MODULE InConnection ----------------------------
(***************************************************************************)
(* server-in.cpp: the life of the connections a Server accepts.            *)
(*                                                                         *)
(* One action per libuv callback; callbacks of one loop do not interleave. *)
(* The peer, and which libuv calls fail, are the environment.  All         *)
(* connections live in one process, so a crash ends all of them.           *)
(***************************************************************************)
EXTENDS UvStream, RequestParse

CONSTANTS Conns,      \* the connections peers open
          Scripts,    \* the sequences of parts a peer may send
          MaxBody,    \* bound: bytes one handler call may write to the body
          MaxCalls    \* bound: handler calls on a connection before the
                      \* environment stops producing empty reads

ASSUME ScriptsAssumption == Scripts \subseteq Seq(Part)
ASSUME BoundsAssumption == MaxBody \in Nat /\ MaxCalls \in Nat

VARIABLES
    uv,      \* uv[c]: the tcp handle and the request union of connection c
    wire,    \* wire[c]: what peer c has sent and libuv has not delivered
    ending,  \* ending[c]: what peer c does besides sending
    req,     \* req[c]: conn->req as the parser has filled it so far
    res,     \* res[c]: conn->res: bytes in the body, its Content-Length
    out,     \* out[c]: the last buffer Response::end returned
    base,    \* base[c]: what conn->buffer.base points to
    seen,    \* seen[c]: the Requests the handler was called with, in order
    crash    \* why the process died, or "none"

vars == <<uv, wire, ending, req, res, out, base, seen, crash>>

(* eof: closes its write side after the script; reset: may reset at any     *)
(* time; silent: keeps the connection open.                                 *)
Endings == {"eof", "reset", "silent"}

NoLength == -1

Response == [len : Nat, clen : Nat \cup {NoLength}]

NewResponse == [len |-> 0, clen |-> NoLength]

(* wild: never assigned.  The Connection constructor does not initialise    *)
(* buffer, so its base is whatever the allocation held.                     *)
Bases == {"null", "wild", "live", "freed"}

(* Why the process is no use any more.  After `torn request' it may be      *)
(* alive, in a loop that never gets to another callback.                    *)
Crashes == {"none", "torn request", "double close", "bad free",
            "uncaught exception"}

Up == crash = "none"

-----------------------------------------------------------------------------
Init ==
    /\ uv = [c \in Conns |-> Absent]
    /\ wire \in [Conns -> Scripts]
    /\ ending \in [Conns -> Endings]
    /\ req = [c \in Conns |-> NewRequest]
    /\ res = [c \in Conns |-> NewResponse]
    /\ out = [c \in Conns |-> NewResponse]
    /\ base \in [Conns -> {"null", "wild"}]
    /\ seen = [c \in Conns |-> <<>>]
    /\ crash = "none"

(* in_onConnect with status 0.  If uv_accept fails the handle has no socket *)
(* and uv_shutdown is refused, if uv_read_start fails the handle is open    *)
(* and deaf: either way the callback returns and keeps the Connection.      *)
in_onConnect(c) ==
    /\ Up
    /\ uv[c].handle = "none"
    /\ \/ uv' = [uv EXCEPT ![c] = Shutdown(Overwrite(TcpInit(@)))]
       \/ uv' = [uv EXCEPT ![c] = Attach(TcpInit(@))]
       \/ uv' = [uv EXCEPT ![c] = ReadStart(Attach(TcpInit(@)))]
    /\ UNCHANGED <<wire, ending, req, res, out, base, seen, crash>>

(* httpRequestCallback: any handler that writes n bytes to the body.        *)
Handled(r, n) == [r EXCEPT !.len = @ + n]

(* Response::end: addHeader("Content-Length") keeps a value that is already *)
(* there.                                                                   *)
End_CountsNul(r) == [r EXCEPT !.clen = IF @ = NoLength THEN r.len + 1 ELSE @]

End(r) == [r EXCEPT !.clen = IF @ = NoLength THEN r.len ELSE @]

(* in_onRead, nread >= 0.  The buffer is any run of parts the peer has      *)
(* sent; it is empty when libuv reports EAGAIN.                             *)
Delivers(c, n) ==
    /\ n > 0 \/ Len(seen[c]) < MaxCalls
    /\ wire' = [wire EXCEPT ![c] = SubSeq(@, n + 1, Len(@))]
    /\ req' = [req EXCEPT ![c] = Parsed(@, SubSeq(wire[c], 1, n))]

Rejects_ShutsDown(c) ==
    \E n \in 0..Len(wire[c]) :
        /\ Delivers(c, n)
        /\ FALSE \in Verdicts(SubSeq(wire[c], 1, n))
        /\ uv' = [uv EXCEPT ![c] = Shutdown(@)]
        /\ UNCHANGED <<ending, res, out, base, seen, crash>>

Rejects(c) ==
    \E n \in 0..Len(wire[c]) :
        /\ Delivers(c, n)
        /\ FALSE \in Verdicts(SubSeq(wire[c], 1, n))
        /\ UNCHANGED <<uv, ending, res, out, base, seen, crash>>

(* The response is rendered and handed to uv_write.                         *)
Respond_FreesAtOnce(c, k) ==
    /\ res' = [res EXCEPT ![c] = End(Handled(@, k))]
    /\ out' = [out EXCEPT ![c] = res'[c]]
    /\ base' = [base EXCEPT ![c] = "freed"]
    /\ uv' = [uv EXCEPT ![c] = Write(@)]

Respond(c, k) ==
    /\ res' = [res EXCEPT ![c] = End(Handled(@, k))]
    /\ out' = [out EXCEPT ![c] = res'[c]]
    /\ base' = [base EXCEPT ![c] = "live"]
    /\ uv' = [uv EXCEPT ![c] = Write(@)]

(* The handler returns.                                                     *)
Serves(c) ==
    \E n \in 0..Len(wire[c]), k \in 0..MaxBody :
        /\ Delivers(c, n)
        /\ TRUE \in Verdicts(SubSeq(wire[c], 1, n))
        /\ seen' = [seen EXCEPT ![c] = Append(@, req'[c])]
        /\ Respond(c, k)
        /\ UNCHANGED <<ending, crash>>

(* The handler throws: nothing catches the exception before libuv's C       *)
(* frames.                                                                  *)
Throws(c) ==
    \E n \in 0..Len(wire[c]) :
        /\ Delivers(c, n)
        /\ TRUE \in Verdicts(SubSeq(wire[c], 1, n))
        /\ seen' = [seen EXCEPT ![c] = Append(@, req'[c])]
        /\ crash' = "uncaught exception"
        /\ UNCHANGED <<uv, ending, res, out, base>>

(* nread < 0.  The shutdown request goes into the union without a memset.   *)
(* After a read error libuv may have marked the stream unwritable, in which *)
(* case uv_shutdown refuses and in_onRead does nothing more.                *)
ReadsEof_DoesNothing(c) ==
    /\ ending[c] = "eof" /\ wire[c] = <<>>
    /\ uv' = [uv EXCEPT ![c] = ReadStop(@)]
    /\ UNCHANGED <<wire, ending, req, res, out, base, seen, crash>>

ReadsEof(c) ==
    /\ ending[c] = "eof" /\ wire[c] = <<>>
    /\ uv' = [uv EXCEPT ![c] = Shutdown(ReadStop(@))]
    /\ UNCHANGED <<wire, ending, req, res, out, base, seen, crash>>

ReadsError(c) ==
    /\ ending[c] = "reset"
    /\ \/ uv' = [uv EXCEPT ![c] = Shutdown(ReadStop(@))]
       \/ uv' = [uv EXCEPT ![c] = ReadStop(@)]
    /\ UNCHANGED <<wire, ending, req, res, out, base, seen, crash>>

in_onRead(c) ==
    /\ Up
    /\ ReadReady(uv[c])
    /\ Rejects(c) \/ Serves(c) \/ Throws(c) \/ ReadsEof(c) \/ ReadsError(c)

(* uv_close, with the assertion it makes on the handle.                     *)
CloseHandle(c, s) ==
    IF CanClose(s)
    THEN uv' = [uv EXCEPT ![c] = Close(s)] /\ UNCHANGED crash
    ELSE uv' = [uv EXCEPT ![c] = s] /\ crash' = "double close"

(* Any status: the write may have failed or been cancelled.                 *)
in_onWrite_KeepsAlive(c) ==
    /\ Up
    /\ WriteDone(uv[c]) /\ ~uv[c].torn
    /\ uv' = [uv EXCEPT ![c] = Complete(@, "write")]
    /\ UNCHANGED <<wire, ending, req, res, out, base, seen, crash>>

in_onWrite_ShutsDownFirst(c) ==
    /\ Up
    /\ WriteDone(uv[c]) /\ ~uv[c].torn
    /\ CloseHandle(c, Shutdown(Complete(uv[c], "write")))
    /\ UNCHANGED <<wire, ending, req, res, out, base, seen>>

in_onWrite(c) ==
    /\ Up
    /\ WriteDone(uv[c]) /\ ~uv[c].torn
    /\ CloseHandle(c, Complete(uv[c], "write"))
    /\ UNCHANGED <<wire, ending, req, res, out, base, seen>>

in_onShutdown_Deletes(c) ==
    /\ Up
    /\ ShutdownDone(uv[c]) /\ ~uv[c].torn
    /\ uv' = [uv EXCEPT ![c] = Deleted(Complete(@, "shutdown"))]
    /\ UNCHANGED <<wire, ending, req, res, out, base, seen, crash>>

in_onShutdown(c) ==
    /\ Up
    /\ ShutdownDone(uv[c]) /\ ~uv[c].torn
    /\ CloseHandle(c, Complete(uv[c], "shutdown"))
    /\ UNCHANGED <<wire, ending, req, res, out, base, seen>>

(* delete conn: the destructor frees buffer.base.  Freeing a pointer malloc *)
(* never returned may abort the process or pass unnoticed.                  *)
in_onClose_KeepsBuffer(c) ==
    /\ Up
    /\ CloseDone(uv[c])
    /\ uv' = [uv EXCEPT ![c] = Deleted(@)]
    /\ UNCHANGED <<wire, ending, req, res, out, base, seen, crash>>

in_onClose(c) ==
    /\ Up
    /\ CloseDone(uv[c])
    /\ uv' = [uv EXCEPT ![c] = Deleted(@)]
    /\ IF base[c] = "null"
       THEN UNCHANGED <<base, crash>>
       ELSE /\ base' = [base EXCEPT ![c] = "freed"]
            /\ crash' \in IF base[c] = "live" THEN {crash}
                                              ELSE {crash, "bad free"}
    /\ UNCHANGED <<wire, ending, req, res, out, seen>>

(* A request used for two writes is well formed again: libuv sends its      *)
(* buffer, the last one, and calls it back.  But it was entered twice into  *)
(* libuv's queues, so it is still in one of them, and uv_close cannot get   *)
(* rid of it.                                                               *)
ResentWrite(c) ==
    /\ Up
    /\ WriteDone(uv[c]) /\ uv[c].torn /\ "shutdown" \notin uv[c].pending
    /\ CloseHandle(c, uv[c])
    /\ UNCHANGED <<wire, ending, req, res, out, base, seen>>

(* libuv follows a link or a callback it loads from an overwritten request: *)
(* the loop runs into an address it never stored, or turns round in a queue *)
(* that never ends.  Either way it delivers nothing more.                   *)
TornWrite(c) ==
    /\ Up
    /\ WriteDone(uv[c]) /\ uv[c].torn
    /\ crash' = "torn request"
    /\ UNCHANGED <<uv, wire, ending, req, res, out, base, seen>>

-----------------------------------------------------------------------------
(* What libuv does without the peer: run the callback of a request or of a  *)
(* close.                                                                   *)
Completion(c) ==
    \/ in_onWrite(c) \/ in_onShutdown(c) \/ in_onClose(c)
    \/ ResentWrite(c) \/ TornWrite(c)

Next == \E c \in Conns : in_onConnect(c) \/ in_onRead(c) \/ Completion(c)

(* The loop runs while the process is up: it delivers what a peer sent and  *)
(* completes requests.  (A peer that never reads its response could stall a *)
(* write for ever; its kernel is assumed to give up eventually.)            *)
Spec == /\ Init /\ [][Next]_vars
        /\ \A c \in Conns : WF_vars(Completion(c)) /\ WF_vars(in_onRead(c))

-----------------------------------------------------------------------------
TypeOK ==
    /\ uv \in [Conns -> Stream]
    /\ wire \in [Conns -> Seq(Part)]
    /\ ending \in [Conns -> Endings]
    /\ req \in [Conns -> Request]
    /\ res \in [Conns -> Response]
    /\ out \in [Conns -> Response]
    /\ base \in [Conns -> Bases]
    /\ seen \in [Conns -> Seq(Request)]
    /\ crash \in Crashes

(* A Connection is deleted only when libuv is through with it: no request   *)
(* in its union is outstanding and no read can be delivered, so that no     *)
(* callback is handed a dangling conn pointer.  It is closed in the same    *)
(* quiet, unless its write request was overwritten (and then it is never    *)
(* deleted).                                                                *)
DeletedIsQuiet ==
    \A c \in Conns :
        /\ uv[c].handle \in {"closing", "closed"} =>
               ~uv[c].reading /\ (uv[c].pending = {} \/ uv[c].torn)
        /\ uv[c].handle = "closed" => uv[c].pending = {}

(* in_onWrite and in_onShutdown both call uv_close.  They close one handle  *)
(* twice only when a second read put its response into the write request of *)
(* the first, whose callback libuv then runs twice.                         *)
ClosedOnce ==
    crash = "double close" =>
        \E c \in Conns : /\ uv[c].handle = "closing" /\ uv[c].torn
                         /\ uv[c].pending = {"write"} /\ Len(seen[c]) > 1

(* uv_write keeps a pointer to the data, not a copy: the last response      *)
(* buffer is there as long as libuv has the request.  (The buffers before   *)
(* it are lost when conn->buffer is assigned again; nothing frees them.)    *)
WriteDataAlive ==
    \A c \in Conns : "write" \in uv[c].pending => base[c] = "live"

(* What uv_write sends.  An untorn write answers the only handler call of   *)
(* its connection, and one answer alone has the Content-Length of its body. *)
(* A write torn by a second answer is sent too: the body of every call so   *)
(* far, under a Content-Length that may be short of it and never beyond it. *)
ResponseFramed ==
    \A c \in Conns : Up /\ "write" \in uv[c].pending =>
        /\ ~uv[c].torn => Len(seen[c]) = 1
        /\ Len(seen[c]) = 1 => out[c].clen = out[c].len
        /\ out[c].clen \in 0..out[c].len

(* Once a response is under way its buffer is freed exactly when the        *)
(* connection is deleted, and by nothing else.                              *)
ResponseFreed ==
    \A c \in Conns : seen[c] # <<>> /\ Up =>
        base[c] = IF uv[c].handle = "closed" THEN "freed" ELSE "live"

(* The handler never runs on a connection that is shutting down, closing or *)
(* deleted, whatever reads were on their way.                               *)
NoCallAfterEnd ==
    [][\A c \in Conns : seen'[c] # seen[c] =>
           uv[c].handle = "open" /\ "shutdown" \notin uv[c].pending]_vars

(* When the first thing a peer's connection delivers is one whole request,  *)
(* the handler is called with exactly that request.                         *)
FirstRequestFaithful ==
    [][\A c \in Conns :
         (/\ seen[c] = <<>> /\ seen'[c] # <<>>
          /\ req[c] = NewRequest
          /\ \E n \in 1..Len(wire[c]) :
                /\ wire'[c] = SubSeq(wire[c], n + 1, Len(wire[c]))
                /\ OneRequest(SubSeq(wire[c], 1, n)))
         => Genuine(seen'[c][1])]_vars

(* A connection that got a response is deleted, or the process dies or      *)
(* hangs on an overwritten request: there is no way to be answered and stay *)
(* open on a loop that goes on.                                             *)
AnsweredIsReleased ==
    \A c \in Conns : seen[c] # <<>> ~> (uv[c].handle = "closed" \/ ~Up)

(* A peer that closes its side gets its connection released, answered or    *)
(* not, unless the process dies or hangs on an overwritten request.         *)
EofIsReleased ==
    \A c \in Conns :
        (ending[c] = "eof" /\ uv[c].reading) ~> (uv[c].handle = "closed" \/ ~Up)

(* The loop forgets a connection, open with no request and no read to call  *)
(* it back, only after a reset, or when it never worked: its accept or its  *)
(* first read failed, and it delivered nothing.                             *)
NeverForgotten ==
    \A c \in Conns :
        (Up /\ uv[c].handle = "open" /\ ~uv[c].reading /\ uv[c].pending = {}) =>
            ending[c] = "reset" \/ (seen[c] = <<>> /\ req[c] = NewRequest)

(* Seen from the program, a connection is created, used, closed and deleted *)
(* once each and in that order, however reads, writes and shutdowns of all  *)
(* the connections interleave.                                              *)
Object == INSTANCE ConnectionObject WITH
              life  <- [c \in Conns |-> Life[uv[c].handle]],
              calls <- [c \in Conns |-> Len(seen[c])],
              up    <- Up

ImplementsObject == Object!Spec

(* "Set the function handler that will be called on each valid HTTP         *)
(* request.  Invalid requests will not result in this handler being called."*)
(* (examples/server-basic.cpp)                                              *)
HandlerSeesRequests ==
    \A c \in Conns : \A i \in 1..Len(seen[c]) : Genuine(seen[c][i])

(* "The caller is responsible for freeing the returned buffer" of           *)
(* Response::end: nothing but such a buffer is ever freed.                  *)
FreesOnlyResponses ==
    \A c \in Conns : CloseDone(uv[c]) => base[c] # "wild"
=============================================================================
