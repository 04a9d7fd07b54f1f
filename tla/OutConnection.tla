---------------------------- MODULE OutConnection ----------------------------
(***************************************************************************)
(* server-out.cpp: the life of the connections Server::makeRequest opens.  *)
(*                                                                         *)
(* One action per libuv callback, as in InConnection.  The response is     *)
(* abstracted to the reads it arrives in: what the client library tells    *)
(* apart is only whether Response::parse accepted a buffer.                *)
(***************************************************************************)
EXTENDS UvStream, Integers

CONSTANTS Conns,      \* the outgoing requests of the program
          MaxReads,   \* bound: reads the server's answer arrives in
          Failures    \* which libuv calls may fail on this platform

ASSUME OutAssumption == MaxReads \in Nat

(* The calls whose failure server-out.cpp has a branch for.                 *)
Fallible == {"uv_tcp_connect", "connection", "uv_read_start", "uv_write"}

ASSUME FailuresAssumption == Failures \subseteq Fallible

VARIABLES
    uv,      \* uv[c]: the tcp handle and the request union of connection c
    reads,   \* reads[c]: reads out_onRead has been called with
    ended,   \* ended[c]: libuv reported the end of the stream or an error
    base,    \* base[c]: what conn->buffer.base points to
    called,  \* called[c]: how often the response callback was called
    crash    \* why the process died, or "none"

vars == <<uv, reads, ended, base, called, crash>>

Bases == {"null", "wild", "live", "freed"}

Crashes == {"none", "torn request", "double close", "bad free",
            "uncaught exception"}

Up == crash = "none"

-----------------------------------------------------------------------------
Init ==
    /\ uv = [c \in Conns |-> Absent]
    /\ reads = [c \in Conns |-> 0]
    /\ ended = [c \in Conns |-> FALSE]
    /\ base \in [Conns -> {"null", "wild"}]
    /\ called = [c \in Conns |-> 0]
    /\ crash = "none"

(* A connect that is refused outright is logged; its callback never comes.  *)
makeRequest(c) ==
    /\ Up
    /\ uv[c].handle = "none"
    /\ \/ uv' = [uv EXCEPT ![c] = Connect(Overwrite(TcpInit(@)))]
       \/ /\ "uv_tcp_connect" \in Failures
          /\ uv' = [uv EXCEPT ![c] = Overwrite(TcpInit(@))]
    /\ UNCHANGED <<reads, ended, base, called, crash>>

(* status # 0, or uv_read_start fails: logged, the Connection stays.  Else  *)
(* Request::end allocates the buffer, which stays in conn->buffer even if   *)
(* uv_write fails.                                                          *)
out_onConnect(c) ==
    /\ Up
    /\ "connect" \in uv[c].pending
    /\ LET s == Complete(uv[c], "connect") IN
       \/ /\ "connection" \in Failures
          /\ uv' = [uv EXCEPT ![c] = s]
          /\ UNCHANGED base
       \/ /\ "uv_read_start" \in Failures
          /\ uv' = [uv EXCEPT ![c] = Attach(s)]
          /\ UNCHANGED base
       \/ /\ uv' = [uv EXCEPT ![c] = Write(Overwrite(ReadStart(Attach(s))))]
          /\ base' = [base EXCEPT ![c] = "live"]
       \/ /\ "uv_write" \in Failures
          /\ uv' = [uv EXCEPT ![c] = Overwrite(ReadStart(Attach(s)))]
          /\ base' = [base EXCEPT ![c] = "live"]
    /\ UNCHANGED <<reads, ended, called, crash>>

(* out_onWrite frees the request's buffer and forgets it.                   *)
out_onWrite_KeepsPointer(c) ==
    /\ Up
    /\ WriteDone(uv[c]) /\ ~uv[c].torn
    /\ uv' = [uv EXCEPT ![c] = Complete(@, "write")]
    /\ base' = [base EXCEPT ![c] = "freed"]
    /\ UNCHANGED <<reads, ended, called, crash>>

out_onWrite(c) ==
    /\ Up
    /\ WriteDone(uv[c]) /\ ~uv[c].torn
    /\ uv' = [uv EXCEPT ![c] = Complete(@, "write")]
    /\ base' = [base EXCEPT ![c] = "null"]
    /\ UNCHANGED <<reads, ended, called, crash>>

(* The last thing out_onRead does on every path: clear the union, then ask  *)
(* for a shutdown in it.                                                    *)
Finish_Skips(s) == s

Finish_Closes(s) == Close(Overwrite(s))

Finish_ClosesToo(s) == Close(Shutdown(Overwrite(s)))

Finish(s) == Shutdown(Overwrite(s))

(* nread >= 0: the callback runs for every buffer that parses, and may      *)
(* throw.                                                                   *)
Receives_FreesRequest(c) ==
    /\ ~ended[c] /\ reads[c] < MaxReads
    /\ reads' = [reads EXCEPT ![c] = @ + 1]
    /\ called' = [called EXCEPT ![c] = @ + 1]
    /\ uv' = [uv EXCEPT ![c] = Finish(@)]
    /\ base' = [base EXCEPT ![c] = "null"]
    /\ UNCHANGED <<ended, crash>>

Receives(c) ==
    /\ ~ended[c] /\ reads[c] < MaxReads
    /\ reads' = [reads EXCEPT ![c] = @ + 1]
    /\ \/ UNCHANGED <<called, crash>> /\ uv' = [uv EXCEPT ![c] = Finish(@)]
       \/ /\ called' = [called EXCEPT ![c] = @ + 1]
          /\ \/ UNCHANGED crash /\ uv' = [uv EXCEPT ![c] = Finish(@)]
             \/ crash' = "uncaught exception" /\ UNCHANGED uv
    /\ UNCHANGED <<ended, base>>

(* nread < 0.  After an error libuv may have made the stream unwritable.    *)
Ends_CallsBack(c) ==
    /\ ended' = [ended EXCEPT ![c] = TRUE]
    /\ called' = [called EXCEPT ![c] = @ + 1]
    /\ uv' = [uv EXCEPT ![c] = Finish(ReadStop(@))]
    /\ UNCHANGED <<reads, base, crash>>

Ends(c) ==
    /\ ended' = [ended EXCEPT ![c] = TRUE]
    /\ \/ uv' = [uv EXCEPT ![c] = Finish(ReadStop(@))]
       \/ uv' = [uv EXCEPT ![c] = Overwrite(ReadStop(@))]
    /\ UNCHANGED <<reads, base, called, crash>>

out_onRead(c) ==
    /\ Up
    /\ ReadReady(uv[c])
    /\ Receives(c) \/ Ends(c)

CloseHandle(c, s) ==
    IF CanClose(s)
    THEN uv' = [uv EXCEPT ![c] = Close(s)] /\ UNCHANGED crash
    ELSE uv' = [uv EXCEPT ![c] = s] /\ crash' = "double close"

out_onShutdown_Deletes(c) ==
    /\ Up
    /\ ShutdownDone(uv[c]) /\ ~uv[c].torn
    /\ uv' = [uv EXCEPT ![c] = Deleted(Complete(@, "shutdown"))]
    /\ UNCHANGED <<reads, ended, base, called, crash>>

out_onShutdown(c) ==
    /\ Up
    /\ ShutdownDone(uv[c]) /\ ~uv[c].torn
    /\ CloseHandle(c, Complete(uv[c], "shutdown"))
    /\ UNCHANGED <<reads, ended, base, called>>

(* out_onClose frees conn->buffer.base, then deletes the Connection, whose  *)
(* destructor frees it again: harmless only for a null pointer.             *)
out_onClose(c) ==
    /\ Up
    /\ CloseDone(uv[c])
    /\ uv' = [uv EXCEPT ![c] = Deleted(@)]
    /\ IF base[c] = "null"
       THEN UNCHANGED <<base, crash>>
       ELSE /\ base' = [base EXCEPT ![c] = "freed"]
            /\ crash' \in {crash, "bad free"}
    /\ UNCHANGED <<reads, ended, called>>

(* libuv follows a pointer to a write request that was cleared.             *)
TornWrite(c) ==
    /\ Up
    /\ WriteDone(uv[c]) /\ uv[c].torn
    /\ crash' = "torn request"
    /\ UNCHANGED <<uv, reads, ended, base, called>>

(* libuv finishes a shutdown whose request was cleared: the callback it     *)
(* finds there is null, so none is called.                                  *)
LostShutdown(c) ==
    /\ Up
    /\ ShutdownDone(uv[c]) /\ uv[c].torn
    /\ uv' = [uv EXCEPT ![c] = Complete(@, "shutdown")]
    /\ UNCHANGED <<reads, ended, base, called, crash>>

-----------------------------------------------------------------------------
Completion(c) ==
    \/ out_onConnect(c) \/ out_onWrite(c) \/ out_onShutdown(c)
    \/ out_onClose(c) \/ TornWrite(c) \/ LostShutdown(c)

Next == \E c \in Conns : makeRequest(c) \/ out_onRead(c) \/ Completion(c)

(* The loop completes what it was asked for.  Reads are up to the server.   *)
Spec == Init /\ [][Next]_vars /\ \A c \in Conns : WF_vars(Completion(c))

-----------------------------------------------------------------------------
TypeOK ==
    /\ uv \in [Conns -> Stream]
    /\ reads \in [Conns -> 0..MaxReads]
    /\ ended \in [Conns -> BOOLEAN]
    /\ base \in [Conns -> Bases]
    /\ called \in [Conns -> 0..MaxReads]
    /\ crash \in Crashes

(* A Connection is closed and deleted only when libuv is through with it.   *)
DeletedIsQuiet ==
    \A c \in Conns : uv[c].handle \in {"closing", "closed"} =>
        uv[c].pending = {} /\ ~uv[c].reading

(* out_onShutdown is the one place that closes; it does so once.            *)
ClosedOnce == crash # "double close"

(* The request's bytes are there until libuv has written them.              *)
WriteDataAlive ==
    \A c \in Conns : "write" \in uv[c].pending => base[c] = "live"

(* Two callbacks free the request's buffer and so does the destructor.      *)
(* Unless uv_write failed they never free it twice, in whatever order the   *)
(* write, the answer and the end of the stream come.                        *)
BufferFreedOnce == crash # "bad free"

(* Seen from the program, an outgoing connection is created, used, closed   *)
(* and deleted once each and in that order: no response callback once the   *)
(* close has begun, whatever is still on its way.                           *)
Object == INSTANCE ConnectionObject WITH
              life  <- [c \in Conns |-> Life[uv[c].handle]],
              calls <- called,
              up    <- Up

ImplementsObject == Object!Spec

(* Of an answer that arrives in one read after the request is written, the  *)
(* connection is released; more reads can lose the shutdown callback.       *)
OneReadIsReleased ==
    \A c \in Conns :
        (reads[c] = 1 /\ ~uv[c].torn)
            ~> (uv[c].handle = "closed" \/ ~Up \/ uv[c].torn)
=============================================================================
