----------------------------- MODULE ServerLoop -----------------------------
(***************************************************************************)
(* server.cpp: the life of Server objects and of the threads that run,     *)
(* close and destroy them.                                                 *)
(*                                                                         *)
(* Every Server has a libuv loop and one thread that calls run().  close() *)
(* may be called from that thread, inside a request handler, or from any   *)
(* other one; it is not atomic, and nothing locks the loop it touches.     *)
(***************************************************************************)
EXTENDS Integers

CONSTANTS Servers,
          Main,       \* the thread that is no server's
          Closers,    \* Closers[t]: the servers that thread t may close
          MaxCloses   \* bound: close() calls one thread makes

ASSUME MainAssumption == Main \notin Servers
ASSUME ClosersAssumption == Closers \in [Servers \cup {Main} -> SUBSET Servers]
ASSUME MaxClosesAssumption == MaxCloses \in Nat

Threads == Servers \cup {Main}

VARIABLES
    running,  \* running[s]: the atomic flag
    sock,     \* sock[s]: the listening handle of s
    phase,    \* phase[s]: where the thread of s is in run()
    stop,     \* stop[s]: the stop flag of the loop
    asyncs,   \* asyncs[s]: registered async handles whose send is not served
    handles,  \* handles[s]: async handles the loop of s counts as active
    freed,    \* freed[s]: the loop's queues link to a freed async handle
    life,     \* life[s]: whether the destructor of s has begun, or is through
    call,     \* call[t]: the close() call thread t is in
    closes,   \* closes[t]: close() calls thread t has begun
    crash     \* why the process died, or "none"

vars == <<running, sock, phase, stop, asyncs, handles, freed, life, call,
          closes, crash>>

(* none: the memory of tcp is uninitialised; init: uv_tcp_init ran, but the *)
(* socket is not listening.                                                 *)
Socks == {"none", "init", "listening", "closing", "closed"}

(* left: uv_run has returned, running is still set.                         *)
Phases == {"new", "running", "left", "returned"}

(* read: about to read the flag; init: about to call uv_async_init; send    *)
(* and lost: about to call uv_async_send on a handle that the loop does, or *)
(* does not, know; finish: ~Server is past its close().                     *)
Steps == {"idle", "read", "init", "send", "lost", "finish"}

Lives == {"alive", "dying", "destroyed"}

Calls == [of : Servers, at : Steps] \cup [of : Threads, at : {"idle"}]

Crashes == {"none", "double close", "uninitialised handle", "use after free",
            "loop corrupted"}

Up == crash = "none"

InCall(t) == call[t].at # "idle"

-----------------------------------------------------------------------------
(* running is a std::atomic<bool> that no constructor initialises.          *)
Init ==
    /\ running \in [Servers -> BOOLEAN]
    /\ sock = [s \in Servers |-> "none"]
    /\ phase = [s \in Servers |-> "new"]
    /\ stop = [s \in Servers |-> FALSE]
    /\ asyncs = [s \in Servers |-> 0]
    /\ handles = [s \in Servers |-> 0]
    /\ freed = [s \in Servers |-> FALSE]
    /\ life = [s \in Servers |-> "alive"]
    /\ call = [t \in Threads |-> [of |-> t, at |-> "idle"]]
    /\ closes = [t \in Threads |-> 0]
    /\ crash = "none"

(* The handle is initialised first; bind, or listen, may fail after that.   *)
listen(s) ==
    /\ Up /\ ~InCall(Main)
    /\ life[s] = "alive" /\ phase[s] = "new" /\ sock[s] = "none"
    /\ \E result \in {"init", "listening"} : sock' = [sock EXCEPT ![s] = result]
    /\ UNCHANGED <<running, phase, stop, asyncs, handles, freed, life, call, closes,
                   crash>>

(* uv_fileno has a descriptor to share while the other handle listens; of   *)
(* memory that never was a handle it returns an error or any number, which  *)
(* may be that of a descriptor.                                             *)
reuseSocket(s, other) ==
    /\ Up /\ ~InCall(Main)
    /\ life[s] = "alive" /\ phase[s] = "new" /\ sock[s] = "none"
    /\ life[other] = "alive"
    /\ \/ sock' = [sock EXCEPT ![s] = "init"]
       \/ /\ sock[other] \in {"none", "listening"}
          /\ sock' = [sock EXCEPT ![s] = "listening"]
    /\ UNCHANGED <<running, phase, stop, asyncs, handles, freed, life, call, closes,
                   crash>>

(* run() sets the flag and enters the loop; each server is run once.        *)
run(s) ==
    /\ Up
    /\ life[s] = "alive" /\ phase[s] = "new"
    /\ phase' = [phase EXCEPT ![s] = "running"]
    /\ running' = [running EXCEPT ![s] = TRUE]
    /\ UNCHANGED <<sock, stop, asyncs, handles, freed, life, call, closes, crash>>

(* What keeps uv_run going.  The async handles are never uv_closed, so the  *)
(* loop counts each of them for ever.                                       *)
Alive(s) == sock[s] \in {"listening", "closing"} \/ handles[s] > 0

(* The loop ends an iteration by finishing the handles being closed, then   *)
(* looks at the stop flag, which it resets, and at what is left.            *)
(* (Connections and lookups, not modelled here, may hold it longer.)        *)
LeaveLoop(s) ==
    /\ Up
    /\ phase[s] = "running" /\ ~InCall(s)
    /\ stop[s] \/ ~Alive(s)
    /\ phase' = [phase EXCEPT ![s] = "left"]
    /\ sock' = [sock EXCEPT ![s] = IF @ = "closing" THEN "closed" ELSE @]
    /\ stop' = [stop EXCEPT ![s] = FALSE]
    /\ UNCHANGED <<running, asyncs, handles, freed, life, call, closes, crash>>

ReturnFromRun_Closes(s) ==
    /\ Up
    /\ phase[s] = "left"
    /\ phase' = [phase EXCEPT ![s] = "returned"]
    /\ running' = [running EXCEPT ![s] = FALSE]
    /\ crash' = IF sock[s] = "closed" THEN "double close" ELSE crash
    /\ UNCHANGED <<sock, stop, asyncs, handles, freed, life, call, closes>>

ReturnFromRun(s) ==
    /\ Up
    /\ phase[s] = "left"
    /\ phase' = [phase EXCEPT ![s] = "returned"]
    /\ running' = [running EXCEPT ![s] = FALSE]
    /\ UNCHANGED <<sock, stop, asyncs, handles, freed, life, call, closes, crash>>

-----------------------------------------------------------------------------
(* close(), one action per access to shared state.  A server's own thread   *)
(* gets here from a handler, while it is in the loop.                       *)
CallClose(t) ==
    /\ Up /\ ~InCall(t) /\ closes[t] < MaxCloses
    /\ t \in Servers => phase[t] = "running"
    /\ \E s \in Closers[t] :
          /\ life[s] = "alive"
          /\ call' = [call EXCEPT ![t] = [of |-> s, at |-> "read"]]
    /\ closes' = [closes EXCEPT ![t] = @ + 1]
    /\ UNCHANGED <<running, sock, phase, stop, asyncs, handles, freed, life, crash>>

Returns(t) ==
    call' = [call EXCEPT ![t].at =
                 IF life[call[t].of] = "dying" THEN "finish" ELSE "idle"]

ReadRunning(t) ==
    /\ Up /\ call[t].at = "read"
    /\ IF running[call[t].of]
       THEN call' = [call EXCEPT ![t].at = "init"]
       ELSE Returns(t)
    /\ UNCHANGED <<running, sock, phase, stop, asyncs, handles, freed, life, closes,
                   crash>>

(* What following the queue of handles of s to a freed one may do.          *)
FreedLink(s) == IF freed[s] THEN {"use after free"} ELSE {}

(* uv_async_init links the handle into two queues of the loop, without a    *)
(* lock.  If the loop's thread is at work on them the link may be lost or   *)
(* the queues broken; if they still link to a freed handle it writes there. *)
InitAsync(t) ==
    /\ Up /\ call[t].at = "init"
    /\ LET s == call[t].of
           races == t # s /\ phase[s] = "running" IN
       /\ \/ call' = [call EXCEPT ![t].at = "send"]
          \/ races /\ call' = [call EXCEPT ![t].at = "lost"]
       /\ handles' = [handles EXCEPT ![s] = @ + 1]
       /\ crash' \in {crash}
             \cup (IF races THEN {"loop corrupted"} ELSE {})
             \cup FreedLink(s)
    /\ UNCHANGED <<running, sock, phase, stop, asyncs, freed, life, closes>>

SendAsync(t) ==
    /\ Up /\ call[t].at \in {"send", "lost"}
    /\ asyncs' = [asyncs EXCEPT ![call[t].of] =
                      IF call[t].at = "send" THEN @ + 1 ELSE @]
    /\ Returns(t)
    /\ UNCHANGED <<running, sock, phase, stop, handles, freed, life, closes, crash>>

(* The async callback, on the loop's thread: uv_close of the listening      *)
(* handle, uv_stop, and free of the async handle the loop still links to.   *)
(* uv_close aborts on a handle that is closing; on uninitialised memory it  *)
(* may abort or do nothing anyone relies on.  A second handle is linked     *)
(* behind the freed one.                                                    *)
onAsync_Spurious(s) ==
    /\ Up /\ phase[s] = "running" /\ ~InCall(s) /\ handles[s] > 0
    /\ asyncs' = [asyncs EXCEPT ![s] = @ - 1]
    /\ stop' = [stop EXCEPT ![s] = TRUE]
    /\ UNCHANGED <<running, sock, phase, handles, freed, life, call, closes, crash>>

onAsync_OnlyStops(s) ==
    /\ Up /\ phase[s] = "running" /\ ~InCall(s) /\ asyncs[s] > 0
    /\ asyncs' = [asyncs EXCEPT ![s] = @ - 1]
    /\ stop' = [stop EXCEPT ![s] = TRUE]
    /\ freed' = [freed EXCEPT ![s] = TRUE]
    /\ UNCHANGED <<running, sock, phase, handles, life, call, closes, crash>>

onAsync_NoStop(s) ==
    /\ Up /\ phase[s] = "running" /\ ~InCall(s) /\ asyncs[s] > 0
    /\ asyncs' = [asyncs EXCEPT ![s] = @ - 1]
    /\ freed' = [freed EXCEPT ![s] = TRUE]
    /\ sock' = [sock EXCEPT ![s] = "closed"]
    /\ UNCHANGED <<running, phase, stop, handles, life, call, closes, crash>>

onAsync(s) ==
    /\ Up /\ phase[s] = "running" /\ ~InCall(s) /\ asyncs[s] > 0
    /\ asyncs' = [asyncs EXCEPT ![s] = @ - 1]
    /\ stop' = [stop EXCEPT ![s] = TRUE]
    /\ freed' = [freed EXCEPT ![s] = TRUE]
    /\ \/ /\ sock[s] \in {"init", "listening"}
          /\ sock' = [sock EXCEPT ![s] = "closing"]
          /\ UNCHANGED crash
       \/ /\ sock[s] \in {"closing", "closed"}
          /\ crash' \in {"double close"} \cup FreedLink(s)
          /\ UNCHANGED sock
       \/ /\ sock[s] = "none"
          /\ crash' \in {crash, "uninitialised handle"} \cup FreedLink(s)
          /\ UNCHANGED sock
    /\ UNCHANGED <<running, phase, handles, life, call, closes>>

-----------------------------------------------------------------------------
(* ~Server, by the program, which destroys no server that a thread is in    *)
(* run() or close() of.  It calls close() first, whatever the flag holds of *)
(* a server that was never run.                                             *)
Destroy(s) ==
    /\ Up /\ ~InCall(Main)
    /\ life[s] = "alive" /\ phase[s] \in {"new", "returned"}
    /\ \A t \in Threads : InCall(t) => call[t].of # s
    /\ life' = [life EXCEPT ![s] = "dying"]
    /\ call' = [call EXCEPT ![Main] = [of |-> s, at |-> "read"]]
    /\ UNCHANGED <<running, sock, phase, stop, asyncs, handles, freed, closes,
                   crash>>

(* uv_loop_close looks through the handles for one that is left, and gives  *)
(* up, unnoticed, if it finds one.                                          *)
FinishDestroy ==
    /\ Up /\ call[Main].at = "finish"
    /\ life' = [life EXCEPT ![call[Main].of] = "destroyed"]
    /\ call' = [call EXCEPT ![Main].at = "idle"]
    /\ crash' \in {crash} \cup FreedLink(call[Main].of)
    /\ UNCHANGED <<running, sock, phase, stop, asyncs, handles, freed, closes>>

-----------------------------------------------------------------------------
Loop(s) == onAsync(s) \/ LeaveLoop(s) \/ ReturnFromRun(s)

(* The part of it that nothing outside this module can hold up.             *)
Stopping(s) == onAsync(s) \/ (stop[s] /\ LeaveLoop(s)) \/ ReturnFromRun(s)

Closing(t) == ReadRunning(t) \/ InitAsync(t) \/ SendAsync(t)

Next ==
    \/ \E s \in Servers :
          \/ listen(s) \/ run(s) \/ Loop(s) \/ Destroy(s)
          \/ \E other \in Servers \ {s} : reuseSocket(s, other)
    \/ \E t \in Threads : CallClose(t) \/ Closing(t)
    \/ FinishDestroy

(* Threads that are in run(), close() or ~Server keep going; whether the    *)
(* program ever calls listen, run or close is up to it.                     *)
Spec == /\ Init /\ [][Next]_vars
        /\ \A s \in Servers : WF_vars(Stopping(s))
        /\ \A t \in Threads : WF_vars(Closing(t))
        /\ WF_vars(FinishDestroy)

-----------------------------------------------------------------------------
TypeOK ==
    /\ running \in [Servers -> BOOLEAN]
    /\ sock \in [Servers -> Socks]
    /\ phase \in [Servers -> Phases]
    /\ stop \in [Servers -> BOOLEAN]
    /\ asyncs \in [Servers -> Nat]
    /\ handles \in [Servers -> Nat]
    /\ freed \in [Servers -> BOOLEAN]
    /\ life \in [Servers -> Lives]
    /\ call \in [Threads -> Calls]
    /\ closes \in [Threads -> 0..MaxCloses]
    /\ crash \in Crashes

(* run() never returns with the server's listening handle still open: what  *)
(* ends the loop is the callback that closes it, in whatever order threads  *)
(* start, stop and race.                                                    *)
ReturnsClosed ==
    \A s \in Servers : phase[s] \in {"left", "returned"} =>
        sock[s] \notin {"listening", "closing"}

(* Within an iteration the loop serves every close() it was sent, and a     *)
(* server closed once, by its own handler, is uv_closed once.               *)
ClosedOnce == crash # "double close"

(* A close() that found the server running is not lost: run() returns.      *)
CloseTakesEffect ==
    \A s \in Servers :
        (phase[s] # "new" /\ \E t \in Threads : call[t] = [of |-> s, at |-> "init"])
            ~> (phase[s] = "returned" \/ ~Up)

(* The same from any thread and whoever else closes the server: between a   *)
(* close() reading the flag and its handle reaching the loop, the loop may  *)
(* serve another close(), leave, and clear the flag.  However these cross,  *)
(* run() returns; only a close() whose link the race on the queues lost may *)
(* come to nothing.                                                         *)
RacingCloseTakesEffect ==
    \A s \in Servers, t \in Threads :
        (phase[s] # "new" /\ call[t] = [of |-> s, at |-> "init"])
            ~> (phase[s] = "returned" \/ call[t] = [of |-> s, at |-> "lost"] \/ ~Up)

(* "This function blocks until the server has stopped." (server.h)          *)
CloseBlocks ==
    [][\A t \in Threads : InCall(t) /\ ~InCall(t)' /\ call[t].of # t =>
           phase[call[t].of] \notin {"running", "left"}]_vars

(* "a special route that will stop the server if necessary"                 *)
(* (examples/server-multithreaded.cpp): its handler calls close() on every  *)
(* server.                                                                  *)
StopRouteStops ==
    \A s \in Servers :
        (phase[s] = "running" /\ \E t \in Threads : call[t] = [of |-> s, at |-> "read"])
            ~> phase[s] = "returned"
=============================================================================
