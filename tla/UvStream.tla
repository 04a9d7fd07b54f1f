------------------------------ MODULE UvStream ------------------------------
(***************************************************************************)
(* What server-in.cpp and server-out.cpp rely on of a libuv stream handle. *)
(* libuv is an external library; the operators below are pure functions on *)
(* the state of one uv_tcp_t and of the anonymous union that each          *)
(* Connection keeps its requests in.                                       *)
(*                                                                         *)
(* Both Connection structs put uv_connect_t, uv_write_t and uv_shutdown_t  *)
(* in ONE union.  libuv keeps pointers to every request it has not called  *)
(* back, so storing a request, or zeros, into the union while one of these *)
(* pointers is live overwrites a request libuv still owns: `torn'.         *)
(***************************************************************************)
EXTENDS FiniteSets

ReqKinds == {"connect", "write", "shutdown"}

(* handle:   none    no Connection object                                   *)
(*           init    uv_tcp_init ran, no socket yet                         *)
(*           open    a connected socket                                     *)
(*           closing uv_close was called, the close callback is outstanding *)
(*           closed  the close callback ran and deleted the Connection      *)
(* reading:  uv_read_start is in force                                      *)
(* writable: the write side is up, uv_shutdown has not been accepted        *)
(* pending:  requests libuv holds a pointer to                              *)
(* torn:     a pending request was overwritten in the union                 *)
Handles == {"none", "init", "open", "closing", "closed"}

Stream == [handle : Handles, reading : BOOLEAN, writable : BOOLEAN,
           pending : SUBSET ReqKinds, torn : BOOLEAN]

Absent == [handle |-> "none", reading |-> FALSE, writable |-> FALSE,
           pending |-> {}, torn |-> FALSE]

TcpInit(s) == [s EXCEPT !.handle = "init"]

(* A socket is attached: by uv_accept, or by a connect that succeeded.      *)
Attach(s) == [s EXCEPT !.handle = "open", !.writable = TRUE]

ReadStart(s) == [s EXCEPT !.reading = TRUE]

(* libuv stops reading by itself at the end of the stream and after a read  *)
(* error.                                                                   *)
ReadStop(s) == [s EXCEPT !.reading = FALSE]

(* memset of the union, or the first stores of a new request into it.       *)
Overwrite(s) == [s EXCEPT !.torn = @ \/ s.pending # {}]

Submit(s, kind) == [s EXCEPT !.pending = @ \cup {kind}]

Complete(s, kind) == [s EXCEPT !.pending = @ \ {kind}]

(* uv_connect / uv_write into the union.                                    *)
Connect(s) == Submit(Overwrite(s), "connect")
Write(s) == Submit(Overwrite(s), "write")

(* uv_shutdown returns UV_ENOTCONN, before it touches the request, unless   *)
(* the write side of a connected stream is up.                              *)
CanShutdown(s) == s.handle = "open" /\ s.writable

Shutdown(s) ==
    IF CanShutdown(s)
    THEN [Submit(Overwrite(s), "shutdown") EXCEPT !.writable = FALSE]
    ELSE s

(* uv_close stops reading; requests that are still pending are called back  *)
(* with UV_ECANCELED before the close callback.  It asserts that the handle *)
(* is not closing already.                                                  *)
CanClose(s) == s.handle \notin {"closing", "closed"}

Close(s) == [s EXCEPT !.handle = "closing", !.reading = FALSE,
                      !.writable = FALSE]

Deleted(s) == [s EXCEPT !.handle = "closed"]

(* The Connection that embeds the handle, as ConnectionObject sees it.      *)
Life == [none |-> "none", init |-> "live", open |-> "live",
         closing |-> "closing", closed |-> "gone"]

(* When libuv may run which callback.  The write queue is drained before a  *)
(* shutdown completes, and every request before the close callback.         *)
ReadReady(s) == s.handle = "open" /\ s.reading
WriteDone(s) == "write" \in s.pending
ShutdownDone(s) == "shutdown" \in s.pending /\ "write" \notin s.pending
CloseDone(s) == s.handle = "closing" /\ s.pending = {}
=============================================================================
