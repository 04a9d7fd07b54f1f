------------------------------- MODULE Client -------------------------------
(***************************************************************************)
(* A client program: server.cpp's lookups and run() composed with the      *)
(* connections of OutConnection on one loop.                               *)
(*                                                                         *)
(* The program asks for lookups and requests before run() and inside the   *)
(* callbacks of earlier ones; run() is to return when nothing is left to   *)
(* do, which is what the lookups and every connection together decide.     *)
(* A callback touches other connections than its own, so what it asks for  *)
(* is placed after the library callback that called it.                    *)
(***************************************************************************)
EXTENDS OutConnection

CONSTANT Lookups    \* the names the program looks up

VARIABLES
    lookup,  \* lookup[l]: the DNSLookup object of lookup l
    at       \* who has the thread

cvars == <<uv, reads, ended, base, called, crash, lookup, at>>

(* working: the thread pool has the request; calling: the program's callback *)
(* runs on it; leaked: allocated, and nothing points to it any more.        *)
LookupStates == {"none", "working", "calling", "freed", "leaked"}

(* main: the program, outside run(); loop: uv_run; answer: a response       *)
(* callback; l: the callback of lookup l; gone: the Server is destroyed.    *)
Places == {"main", "loop", "answer", "gone"} \cup Lookups

ASSUME LookupsAssumption ==
    Lookups \cap {"main", "loop", "answer", "gone"} = {}

InProgram == Up /\ at \notin {"loop", "gone"}

InLoop == Up /\ at = "loop"

-----------------------------------------------------------------------------
ClientInit ==
    /\ Init
    /\ lookup = [l \in Lookups |-> "none"]
    /\ at = "main"

Requests(c) ==
    /\ InProgram
    /\ makeRequest(c)
    /\ UNCHANGED <<lookup, at>>

(* A refusal of uv_getaddrinfo is logged; the callback will never come.     *)
makeDNSLookup(l) ==
    /\ InProgram
    /\ lookup[l] = "none"
    /\ \E result \in {"working", "leaked"} :
           lookup' = [lookup EXCEPT ![l] = result]
    /\ UNCHANGED <<vars, at>>

run ==
    /\ Up /\ at = "main"
    /\ at' = "loop"
    /\ UNCHANGED <<vars, lookup>>

(* A lookup that fails is neither reported nor released.                    *)
onAddress(l) ==
    /\ InLoop
    /\ lookup[l] = "working"
    /\ \/ lookup' = [lookup EXCEPT ![l] = "leaked"] /\ UNCHANGED at
       \/ lookup' = [lookup EXCEPT ![l] = "calling"] /\ at' = l
    /\ UNCHANGED vars

(* The lookup's callback returns and the DNSLookup is deleted, or it throws *)
(* through libuv's frames.                                                  *)
AddressHandled_KeepsLookup(l) ==
    /\ Up /\ at = l
    /\ at' = "loop"
    /\ UNCHANGED <<vars, lookup>>

AddressHandled(l) ==
    /\ Up /\ at = l
    /\ \/ /\ lookup' = [lookup EXCEPT ![l] = "freed"]
          /\ at' = "loop"
          /\ UNCHANGED vars
       \/ /\ crash' = "uncaught exception"
          /\ UNCHANGED <<uv, reads, ended, base, called, lookup, at>>

(* One callback of a connection; only out_onRead may call the program.      *)
Completes(c) ==
    /\ InLoop
    /\ Completion(c)
    /\ UNCHANGED <<lookup, at>>

Reads(c) ==
    /\ InLoop
    /\ out_onRead(c)
    /\ at' = IF called' = called \/ crash' # "none" THEN at ELSE "answer"
    /\ UNCHANGED lookup

AnswerHandled ==
    /\ Up /\ at = "answer"
    /\ at' = "loop"
    /\ UNCHANGED <<vars, lookup>>

(* What keeps uv_run going: requests it has not called back, handles that   *)
(* read and handles that close.                                             *)
Busy(c) ==
    uv[c].pending # {} \/ uv[c].reading \/ uv[c].handle = "closing"

Alive == (\E c \in Conns : Busy(c)) \/ (\E l \in Lookups : lookup[l] = "working")

(* A run() that goes on until every connection is deleted.                  *)
ReturnFromRun_WaitsForAll ==
    /\ InLoop
    /\ ~Alive /\ \A c \in Conns : uv[c].handle \in {"none", "closed"}
    /\ at' = "main"
    /\ UNCHANGED <<vars, lookup>>

ReturnFromRun ==
    /\ InLoop
    /\ ~Alive
    /\ at' = "main"
    /\ UNCHANGED <<vars, lookup>>

(* ~Server: close() finds nothing running, and uv_loop_close gives up,      *)
(* unnoticed, if a handle is left.                                          *)
Destroy ==
    /\ Up /\ at = "main"
    /\ at' = "gone"
    /\ UNCHANGED <<vars, lookup>>

-----------------------------------------------------------------------------
Loop ==
    \/ \E c \in Conns : Completes(c) \/ Reads(c)
    \/ \E l \in Lookups : onAddress(l)
    \/ ReturnFromRun

Returning == AnswerHandled \/ \E l \in Lookups : AddressHandled(l)

ClientNext ==
    \/ \E c \in Conns : Requests(c)
    \/ \E l \in Lookups : makeDNSLookup(l)
    \/ Loop \/ Returning \/ run \/ Destroy

(* The loop completes what it was asked for, names are resolved or not, and *)
(* callbacks return.  Reads are up to the servers at the other end.         *)
ClientSpec ==
    /\ ClientInit /\ [][ClientNext]_cvars
    /\ \A c \in Conns : WF_cvars(Completes(c))
    /\ \A l \in Lookups : WF_cvars(onAddress(l))
    /\ WF_cvars(ReturnFromRun)
    /\ WF_cvars(Returning)

-----------------------------------------------------------------------------
(* The connections' types, and those of the lookups and of the thread.      *)
ClientTypeOK ==
    /\ TypeOK
    /\ lookup \in [Lookups -> LookupStates]
    /\ at \in Places

(* "Run the server event loop.  This will block until all events are        *)
(* complete." (examples/client-basic.cpp)  It blocks no longer than that:   *)
(* if no server keeps a connection open for ever, run() returns, though     *)
(* answers may come in pieces and lose the shutdown of their connection.    *)
RunReturns ==
    (\A c \in Conns : []<>(~ReadReady(uv[c])))
        => (at = "loop" ~> (at = "main" \/ ~Up))

(* When run() returns, what it leaves behind for ever is known: a           *)
(* connection that lost its shutdown request to a second read, or one that  *)
(* never received anything, and of which the program heard nothing; and a   *)
(* lookup that failed.  Everything else is deleted and the bytes of every   *)
(* request are freed, in whatever order lookups, answers and writes came.   *)
Abandoned(c) == uv[c].handle \in {"init", "open"}

ReturnReleases ==
    [][at = "loop" /\ at' = "main" =>
         /\ \A c \in Conns :
               /\ Abandoned(c) => uv[c].torn \/ (reads[c] = 0 /\ called[c] = 0)
               /\ base[c] # "live"
         /\ \A l \in Lookups : lookup[l] \in {"none", "freed", "leaked"}]_cvars
=============================================================================
