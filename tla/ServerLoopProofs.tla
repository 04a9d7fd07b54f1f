-------------------------- MODULE ServerLoopProofs --------------------------
(***************************************************************************)
(* Theorems about ServerLoop for any set of servers, any threads that      *)
(* close them and any number of calls, races included.                     *)
(*                                                                         *)
(* The argument: the stop flag of a loop is set only by the callback that  *)
(* also begins to close the listening handle, and a loop that runs dry has *)
(* no such handle; so both ways out of the loop leave it closed.           *)
(***************************************************************************)
EXTENDS ServerLoop, TLAPS

(* A loop told to stop is one that is running and no longer listening.      *)
StopSound ==
    \A s \in Servers : stop[s] =>
        phase[s] = "running" /\ sock[s] \notin {"init", "listening"}

(* listen() and reuseSocket() come before run(): no handle starts listening *)
(* later.  A thread that is in a close() call knows whose.                  *)
CallSound == \A t \in Threads : InCall(t) => call[t].of \in Servers

IInv == TypeOK /\ StopSound /\ CallSound /\ ReturnsClosed

LEMMA InitSafe == Init => IInv
<1> SUFFICES ASSUME Init PROVE IInv
  OBVIOUS
<1>1. TypeOK
  BY MaxClosesAssumption
  DEF Init, TypeOK, Socks, Phases, Calls, Steps, Threads, Crashes, Lives
<1>2. StopSound /\ CallSound /\ ReturnsClosed
  BY DEF Init, StopSound, CallSound, ReturnsClosed, InCall
<1> QED
  BY <1>1, <1>2 DEF IInv

(* The listening handle moves only on the server's own thread and before it *)
(* starts.                                                                  *)
LEMMA StepSafe == IInv /\ [Next]_vars => IInv'
<1> SUFFICES ASSUME IInv, [Next]_vars PROVE IInv'
  OBVIOUS
<1>1. TypeOK /\ StopSound /\ CallSound /\ ReturnsClosed
  BY DEF IInv
<1>2. /\ running \in [Servers -> BOOLEAN] /\ sock \in [Servers -> Socks]
      /\ phase \in [Servers -> Phases] /\ stop \in [Servers -> BOOLEAN]
      /\ call \in [Threads -> Calls]
  BY <1>1 DEF TypeOK
<1>3. CASE UNCHANGED vars
  BY <1>1, <1>3 DEF vars, IInv, TypeOK, StopSound, CallSound, InCall,
     ReturnsClosed
<1>4. ASSUME NEW s \in Servers,
             listen(s) \/ \E other \in Servers \ {s} : reuseSocket(s, other)
      PROVE  IInv'
  <2>1. /\ phase[s] = "new"
        /\ \E result \in {"init", "listening"} : sock' = [sock EXCEPT ![s] = result]
        /\ UNCHANGED <<running, phase, stop, asyncs, handles, freed, life, call, closes, crash>>
    BY <1>4 DEF listen, reuseSocket
  <2>2. ~stop[s]
    BY <1>1, <2>1 DEF StopSound
  <2>3. sock' \in [Servers -> Socks]
    BY <1>2, <2>1 DEF Socks
  <2>4. TypeOK' /\ CallSound'
    BY <1>1, <2>1, <2>3 DEF TypeOK, CallSound, InCall
  <2>5. StopSound' /\ ReturnsClosed'
    BY <1>1, <1>2, <2>1, <2>2 DEF StopSound, ReturnsClosed
  <2> QED
    BY <2>4, <2>5 DEF IInv
<1>5. ASSUME NEW s \in Servers, run(s) PROVE IInv'
  <2>1. /\ phase[s] = "new" /\ phase' = [phase EXCEPT ![s] = "running"]
        /\ running' = [running EXCEPT ![s] = TRUE]
        /\ UNCHANGED <<sock, stop, asyncs, handles, freed, life, call, closes, crash>>
    BY <1>5 DEF run
  <2>2. ~stop[s]
    BY <1>1, <2>1 DEF StopSound
  <2>3. phase' \in [Servers -> Phases] /\ running' \in [Servers -> BOOLEAN]
    BY <1>2, <2>1 DEF Phases
  <2>4. TypeOK' /\ CallSound'
    BY <1>1, <2>1, <2>3 DEF TypeOK, CallSound, InCall
  <2>5. StopSound' /\ ReturnsClosed'
    BY <1>1, <1>2, <2>1, <2>2 DEF StopSound, ReturnsClosed
  <2> QED
    BY <2>4, <2>5 DEF IInv
<1>6. ASSUME NEW s \in Servers, LeaveLoop(s) PROVE IInv'
  <2>1. /\ phase[s] = "running" /\ (stop[s] \/ ~Alive(s))
        /\ phase' = [phase EXCEPT ![s] = "left"]
        /\ sock' = [sock EXCEPT ![s] = IF @ = "closing" THEN "closed" ELSE @]
        /\ stop' = [stop EXCEPT ![s] = FALSE]
        /\ UNCHANGED <<running, asyncs, handles, freed, life, call, closes, crash>>
    BY <1>6 DEF LeaveLoop
  <2>2. sock'[s] \notin {"listening", "closing"}
    BY <1>1, <1>2, <2>1 DEF StopSound, Alive
  <2>3. /\ phase' \in [Servers -> Phases] /\ stop' \in [Servers -> BOOLEAN]
        /\ sock' \in [Servers -> Socks]
    BY <1>2, <2>1 DEF Phases, Socks
  <2>4. TypeOK' /\ CallSound'
    BY <1>1, <2>1, <2>3 DEF TypeOK, CallSound, InCall
  <2>5. StopSound' /\ ReturnsClosed'
    BY <1>1, <1>2, <2>1, <2>2 DEF StopSound, ReturnsClosed
  <2> QED
    BY <2>4, <2>5 DEF IInv
<1>7. ASSUME NEW s \in Servers, ReturnFromRun(s) PROVE IInv'
  <2>1. /\ phase[s] = "left" /\ phase' = [phase EXCEPT ![s] = "returned"]
        /\ running' = [running EXCEPT ![s] = FALSE]
        /\ UNCHANGED <<sock, stop, asyncs, handles, freed, life, call, closes, crash>>
    BY <1>7 DEF ReturnFromRun
  <2>2. ~stop[s] /\ sock[s] \notin {"listening", "closing"}
    BY <1>1, <2>1 DEF StopSound, ReturnsClosed
  <2>3. phase' \in [Servers -> Phases] /\ running' \in [Servers -> BOOLEAN]
    BY <1>2, <2>1 DEF Phases
  <2>4. TypeOK' /\ CallSound'
    BY <1>1, <2>1, <2>3 DEF TypeOK, CallSound, InCall
  <2>5. StopSound' /\ ReturnsClosed'
    BY <1>1, <1>2, <2>1, <2>2 DEF StopSound, ReturnsClosed
  <2> QED
    BY <2>4, <2>5 DEF IInv
<1>8. ASSUME NEW s \in Servers, onAsync(s) PROVE IInv'
  <2>1. /\ phase[s] = "running" /\ asyncs[s] > 0
        /\ asyncs' = [asyncs EXCEPT ![s] = @ - 1]
        /\ stop' = [stop EXCEPT ![s] = TRUE]
        /\ freed' = [freed EXCEPT ![s] = TRUE]
        /\ \/ sock' = [sock EXCEPT ![s] = "closing"]
           \/ sock' = sock /\ sock[s] \in {"closing", "closed", "none"}
        /\ crash' \in {crash, "double close", "uninitialised handle", "use after free"}
        /\ UNCHANGED <<running, phase, handles, life, call, closes>>
    BY <1>8 DEF onAsync, FreedLink
  <2>2. sock'[s] \notin {"init", "listening"}
    BY <1>2, <2>1
  <2>3. /\ stop' \in [Servers -> BOOLEAN] /\ sock' \in [Servers -> Socks]
        /\ asyncs' \in [Servers -> Nat] /\ freed' \in [Servers -> BOOLEAN]
        /\ crash' \in Crashes
    <3>1. asyncs \in [Servers -> Nat] /\ freed \in [Servers -> BOOLEAN] /\ crash \in Crashes
      BY <1>1 DEF TypeOK
    <3>2. asyncs[s] - 1 \in Nat
      <4>1. asyncs[s] \in Nat
        BY <3>1
      <4>2. asyncs[s] > 0
        BY <2>1
      <4> QED
        BY <4>1, <4>2
    <3>3. asyncs' \in [Servers -> Nat]
      BY <2>1, <3>1, <3>2
    <3>4. sock' \in [Servers -> Socks]
      BY <1>2, <2>1 DEF Socks
    <3>5. crash' \in Crashes
      BY <2>1, <3>1 DEF Crashes
    <3> QED
      BY <1>2, <2>1, <3>1, <3>3, <3>4, <3>5
  <2>4. TypeOK' /\ CallSound'
    BY <1>1, <2>1, <2>3 DEF TypeOK, CallSound, InCall
  <2>5. \A d \in Servers \ {s} : stop'[d] = stop[d] /\ sock'[d] = sock[d]
    BY <1>2, <2>1
  <2>6. StopSound' /\ ReturnsClosed'
    BY <1>1, <1>2, <2>1, <2>2, <2>5 DEF StopSound, ReturnsClosed
  <2> QED
    BY <2>4, <2>6 DEF IInv
<1>9. ASSUME NEW t \in Threads, CallClose(t) \/ Closing(t) PROVE IInv'
  <2>1. UNCHANGED <<running, sock, phase, stop>>
    BY <1>9 DEF CallClose, Closing, ReadRunning, InitAsync, SendAsync
  <2>2. StopSound' /\ ReturnsClosed'
    BY <1>1, <2>1 DEF StopSound, ReturnsClosed
  <2>3. CASE CallClose(t)
    <3>1. PICK s \in Closers[t] :
            call' = [call EXCEPT ![t] = [of |-> s, at |-> "read"]]
      BY <2>3 DEF CallClose
    <3>2. s \in Servers
      BY <3>1, ClosersAssumption DEF Threads
    <3>3. call' \in [Threads -> Calls] /\ CallSound'
      BY <1>1, <1>2, <3>1, <3>2 DEF CallSound, InCall, Calls, Steps
    <3>4. closes' \in [Threads -> 0..MaxCloses]
      BY <1>1, <2>3, MaxClosesAssumption DEF CallClose, TypeOK
    <3>5. TypeOK'
      BY <1>1, <2>3, <3>3, <3>4 DEF CallClose, TypeOK
    <3> QED
      BY <2>2, <3>3, <3>5 DEF IInv
  <2>4. CASE Closing(t)
    <3>1. InCall(t)
      BY <2>4 DEF Closing, ReadRunning, InitAsync, SendAsync, InCall
    <3>2. call[t].of \in Servers
      BY <1>1, <3>1 DEF CallSound
    <3>3. PICK at \in Steps : call' = [call EXCEPT ![t].at = at]
      BY <2>4 DEF Closing, ReadRunning, InitAsync, SendAsync, Returns, Steps
    <3>4. [call[t] EXCEPT !.at = at] \in Calls /\ [call[t] EXCEPT !.at = at].of = call[t].of
      BY <1>2, <3>2 DEF Calls, Steps
    <3>5. call' \in [Threads -> Calls] /\ CallSound'
      BY <1>1, <1>2, <3>2, <3>3, <3>4 DEF CallSound, InCall
    <3>6. /\ asyncs' \in [Servers -> Nat] /\ handles' \in [Servers -> Nat]
          /\ crash' \in Crashes
      <4>1. /\ asyncs \in [Servers -> Nat] /\ handles \in [Servers -> Nat]
            /\ crash \in Crashes
        BY <1>1 DEF TypeOK
      <4> DEFINE s == call[t].of
      <4>2. asyncs' \in {asyncs, [asyncs EXCEPT ![s] = asyncs[s]],
                         [asyncs EXCEPT ![s] = asyncs[s] + 1]}
        BY <2>4 DEF Closing, ReadRunning, InitAsync, SendAsync
      <4>3. handles' \in {handles, [handles EXCEPT ![s] = handles[s] + 1]}
        BY <2>4 DEF Closing, ReadRunning, InitAsync, SendAsync
      <4>4. crash' \in {crash, "loop corrupted", "use after free"}
        BY <2>4 DEF Closing, ReadRunning, InitAsync, SendAsync, FreedLink
      <4>5. asyncs[s] + 1 \in Nat /\ handles[s] + 1 \in Nat /\ asyncs[s] \in Nat
        BY <3>2, <4>1
      <4> HIDE DEF s
      <4>6. asyncs' \in [Servers -> Nat]
        BY <4>1, <4>2, <4>5
      <4>7. handles' \in [Servers -> Nat]
        BY <4>1, <4>3, <4>5
      <4>8. crash' \in Crashes
        BY <4>1, <4>4 DEF Crashes
      <4> QED
        BY <4>6, <4>7, <4>8
    <3>7. UNCHANGED <<freed, life, closes>>
      BY <2>4 DEF Closing, ReadRunning, InitAsync, SendAsync
    <3>8. TypeOK'
      BY <1>1, <2>1, <3>5, <3>6, <3>7 DEF TypeOK
    <3> QED
      BY <2>2, <3>5, <3>8 DEF IInv
  <2> QED
    BY <1>9, <2>3, <2>4
<1>10. ASSUME NEW s \in Servers, Destroy(s) PROVE IInv'
  <2>1. /\ life' = [life EXCEPT ![s] = "dying"]
        /\ call' = [call EXCEPT ![Main] = [of |-> s, at |-> "read"]]
        /\ UNCHANGED <<running, sock, phase, stop, asyncs, handles, freed, closes, crash>>
    BY <1>10 DEF Destroy
  <2>2. StopSound' /\ ReturnsClosed'
    BY <1>1, <2>1 DEF StopSound, ReturnsClosed
  <2>3. call' \in [Threads -> Calls] /\ CallSound'
    BY <1>1, <1>2, <2>1 DEF CallSound, InCall, Calls, Steps
  <2>4. life' \in [Servers -> Lives]
    BY <1>1, <2>1 DEF TypeOK, Lives
  <2>5. TypeOK'
    BY <1>1, <2>1, <2>3, <2>4 DEF TypeOK
  <2> QED
    BY <2>2, <2>3, <2>5 DEF IInv
<1>11. ASSUME FinishDestroy PROVE IInv'
  <2> DEFINE s == call[Main].of
  <2>1. /\ call[Main].at = "finish"
        /\ life' = [life EXCEPT ![s] = "destroyed"]
        /\ call' = [call EXCEPT ![Main].at = "idle"]
        /\ crash' \in {crash, "use after free"}
        /\ UNCHANGED <<running, sock, phase, stop, asyncs, handles, freed, closes>>
    BY <1>11 DEF FinishDestroy, FreedLink
  <2>2. s \in Servers
    BY <1>1, <2>1 DEF CallSound, InCall, Threads
  <2>3. StopSound' /\ ReturnsClosed'
    BY <1>1, <2>1 DEF StopSound, ReturnsClosed
  <2>4. [call[Main] EXCEPT !.at = "idle"] \in Calls
    BY <1>2, <2>2 DEF Calls, Steps, Threads
  <2>5. call' \in [Threads -> Calls] /\ CallSound'
    <3> DEFINE idle == [call[Main] EXCEPT !.at = "idle"]
    <3>1. call' = [call EXCEPT ![Main] = idle] /\ idle.at = "idle"
      BY <1>2, <2>1 DEF Calls, Threads
    <3> HIDE DEF idle
    <3>2. call' \in [Threads -> Calls]
      BY <1>2, <2>4, <3>1 DEF idle
    <3>3. CallSound'
      BY <1>1, <1>2, <3>1 DEF CallSound, InCall
    <3> QED
      BY <3>2, <3>3
  <2>6. life' \in [Servers -> Lives] /\ crash' \in Crashes
    BY <1>1, <2>1 DEF TypeOK, Lives, Crashes
  <2>7. TypeOK'
    BY <1>1, <2>1, <2>5, <2>6 DEF TypeOK
  <2> QED
    BY <2>3, <2>5, <2>7 DEF IInv
<1> QED
  BY <1>3, <1>4, <1>5, <1>6, <1>7, <1>8, <1>9, <1>10, <1>11 DEF Next, Loop

(* IInv holds in every reachable state.                                     *)
LEMMA LoopSafe == Spec => []IInv
BY InitSafe, StepSafe, PTL DEF Spec

(* Every variable keeps its type.                                           *)
THEOREM LoopTypeCorrect == Spec => []TypeOK
<1>1. IInv => TypeOK
  BY DEF IInv
<1> QED
  BY <1>1, LoopSafe, PTL

(* run() never returns with its server's listening handle open.             *)
THEOREM LoopReturnsClosed == Spec => []ReturnsClosed
<1>1. IInv => ReturnsClosed
  BY DEF IInv
<1> QED
  BY <1>1, LoopSafe, PTL

-----------------------------------------------------------------------------
(* Servers closed once.  A server that at most one thread may close, once,  *)
(* is sent one async handle: the close() in ~Server comes when no loop runs *)
(* that could serve another.                                                *)

OneCloser ==
    /\ MaxCloses <= 1
    /\ \A t, u \in Threads : Closers[t] \cap Closers[u] # {} => t = u

(* Nobody's close() has reached the loop of s.                              *)
Quiet(s) == asyncs[s] = 0 /\ sock[s] \notin {"closing", "closed"}

Asked(s) == \E t \in Threads : s \in Closers[t] /\ closes[t] > 0

(* While s lives, its one close() is to come, under way, sent or served.    *)
OneSent(s) ==
    /\ ~Asked(s) => Quiet(s)
    /\ asyncs[s] = 0 \/ (asyncs[s] = 1 /\ sock[s] \notin {"closing", "closed"})
    /\ \A t \in Threads : InCall(t) /\ call[t].of = s =>
           s \in Closers[t] /\ closes[t] > 0 /\ Quiet(s)

CloseSound ==
    /\ crash # "double close"
    /\ \A s \in Servers :
          /\ life[s] # "alive" => phase[s] \in {"new", "returned"}
          /\ life[s] = "alive" => OneSent(s)
    /\ \A t \in Threads : call[t].at = "finish" => life[call[t].of] # "alive"

LEMMA InitClose == Init => CloseSound
<1> SUFFICES ASSUME Init PROVE CloseSound
  OBVIOUS
<1>1. \A t \in Threads : ~InCall(t) /\ call[t].at # "finish"
  BY DEF Init, InCall
<1>2. \A s \in Servers : Quiet(s) /\ OneSent(s) /\ life[s] = "alive"
  BY <1>1 DEF Init, Quiet, OneSent
<1> QED
  BY <1>1, <1>2 DEF Init, CloseSound

LEMMA StepClose ==
    ASSUME OneCloser, IInv, CloseSound, [Next]_vars
    PROVE  CloseSound'
<1>1. /\ running \in [Servers -> BOOLEAN] /\ sock \in [Servers -> Socks]
      /\ phase \in [Servers -> Phases] /\ asyncs \in [Servers -> Nat]
      /\ life \in [Servers -> Lives] /\ call \in [Threads -> Calls]
      /\ closes \in [Threads -> 0..MaxCloses] /\ CallSound
  BY DEF IInv, TypeOK
<1>2. /\ crash # "double close"
      /\ \A s \in Servers :
            /\ life[s] # "alive" => phase[s] \in {"new", "returned"}
            /\ life[s] = "alive" => OneSent(s)
      /\ \A t \in Threads : call[t].at = "finish" => life[call[t].of] # "alive"
  BY DEF CloseSound
<1>3. CASE UNCHANGED vars
  BY <1>2, <1>3 DEF vars, CloseSound, OneSent, Quiet, Asked, InCall
<1>4. ASSUME NEW s \in Servers, UNCHANGED <<asyncs, life, call, closes>>,
             crash' # "double close",
             phase' = phase \/ \E p \in {"running", "left", "returned"} :
                                   phase' = [phase EXCEPT ![s] = p] /\ life[s] = "alive",
             sock' = sock \/ \E k \in Socks : sock' = [sock EXCEPT ![s] = k]
                                  /\ (k \in {"closing", "closed"}
                                         => sock[s] \in {"closing", "closed"})
      PROVE  CloseSound'
  <2>1. \A d \in Servers :
            sock'[d] \in {"closing", "closed"} => sock[d] \in {"closing", "closed"}
    BY <1>1, <1>4
  <2>2. \A d \in Servers : life'[d] # "alive" => phase'[d] \in {"new", "returned"}
    BY <1>1, <1>2, <1>4
  <2>3. \A d \in Servers : (Quiet(d) => Quiet(d)') /\ (Asked(d)' <=> Asked(d))
    BY <1>4, <2>1 DEF Quiet, Asked
  <2>4. ASSUME NEW d \in Servers, life'[d] = "alive" PROVE OneSent(d)'
    BY <1>2, <1>4, <2>1, <2>3, <2>4 DEF OneSent, InCall
  <2> QED
    BY <1>2, <1>4, <2>2, <2>4 DEF CloseSound
<1>5. ASSUME NEW s \in Servers,
             listen(s) \/ \E other \in Servers \ {s} : reuseSocket(s, other)
      PROVE  CloseSound'
  <2>1. /\ UNCHANGED <<asyncs, life, call, closes, phase, crash>>
        /\ \E k \in {"init", "listening"} : sock' = [sock EXCEPT ![s] = k]
    BY <1>5 DEF listen, reuseSocket
  <2> QED
    BY <1>2, <1>4, <2>1 DEF Socks
<1>6. ASSUME NEW s \in Servers, run(s) \/ ReturnFromRun(s) PROVE CloseSound'
  <2>1. life[s] = "alive"
    BY <1>2, <1>6 DEF run, ReturnFromRun
  <2> QED
    BY <1>2, <1>4, <1>6, <2>1 DEF run, ReturnFromRun
<1>7. ASSUME NEW s \in Servers, LeaveLoop(s) PROVE CloseSound'
  <2>1. life[s] = "alive"
    BY <1>2, <1>7 DEF LeaveLoop
  <2>2. \E k \in Socks : sock' = [sock EXCEPT ![s] = k]
             /\ (k \in {"closing", "closed"} => sock[s] \in {"closing", "closed"})
    BY <1>1, <1>7 DEF LeaveLoop, Socks
  <2> QED
    BY <1>2, <1>4, <1>7, <2>1, <2>2 DEF LeaveLoop
<1>8. ASSUME NEW s \in Servers, onAsync(s) PROVE CloseSound'
  <2>1. /\ phase[s] = "running" /\ asyncs[s] > 0 /\ ~InCall(s)
        /\ asyncs' = [asyncs EXCEPT ![s] = @ - 1]
        /\ UNCHANGED <<running, phase, handles, life, call, closes>>
    BY <1>8 DEF onAsync
  <2>2. life[s] = "alive" /\ OneSent(s)
    BY <1>2, <2>1
  <2>3. asyncs[s] = 1 /\ sock[s] \notin {"closing", "closed"} /\ ~Quiet(s)
    BY <2>1, <2>2 DEF OneSent, Quiet
  <2>4. Asked(s) /\ \A t \in Threads : ~(InCall(t) /\ call[t].of = s)
    BY <2>2, <2>3 DEF OneSent
  <2>5. /\ crash' # "double close"
        /\ sock' = sock \/ sock' = [sock EXCEPT ![s] = "closing"]
    BY <1>2, <1>8, <2>3 DEF onAsync, FreedLink
  <2>6. asyncs'[s] = 0
    BY <1>1, <2>1, <2>3
  <2>7. \A d \in Servers : Asked(d)' <=> Asked(d)
    BY <2>1 DEF Asked
  <2>8. OneSent(s)'
    BY <2>1, <2>4, <2>6, <2>7 DEF OneSent, InCall
  <2>9. ASSUME NEW d \in Servers, d # s, life[d] = "alive" PROVE OneSent(d)'
    <3>1. asyncs'[d] = asyncs[d] /\ sock'[d] = sock[d]
      BY <1>1, <2>1, <2>5, <2>9
    <3> QED
      BY <1>2, <2>1, <2>7, <2>9, <3>1 DEF OneSent, Quiet, InCall
  <2> QED
    BY <1>2, <2>1, <2>5, <2>8, <2>9 DEF CloseSound
<1>9. ASSUME NEW t \in Threads, CallClose(t) PROVE CloseSound'
  <2>1. PICK s \in Closers[t] : /\ life[s] = "alive"
                                /\ call' = [call EXCEPT ![t] = [of |-> s, at |-> "read"]]
    BY <1>9 DEF CallClose
  <2>2. /\ closes[t] = 0 /\ closes' = [closes EXCEPT ![t] = 1] /\ ~InCall(t)
        /\ UNCHANGED <<sock, phase, asyncs, life, crash>>
    <3>1. closes[t] \in 0..MaxCloses /\ closes[t] < MaxCloses /\ MaxCloses <= 1
          /\ MaxCloses \in Nat
      BY <1>1, <1>9, MaxClosesAssumption DEF CallClose, OneCloser
    <3>2. closes[t] = 0
      BY <3>1
    <3> QED
      BY <1>1, <1>9, <3>2 DEF CallClose
  <2>3. s \in Servers
    BY <2>1, ClosersAssumption DEF Threads
  <2>4. ~Asked(s)
    BY <2>1, <2>2 DEF Asked, OneCloser
  <2>5. Quiet(s) /\ Quiet(s)'
    BY <1>2, <2>1, <2>2, <2>3, <2>4 DEF OneSent, Quiet
  <2>6. \A u \in Threads \ {t} : call'[u] = call[u] /\ closes'[u] = closes[u]
    BY <1>1, <2>1, <2>2
  <2>7. call'[t].of = s /\ call'[t].at = "read" /\ closes'[t] = 1
    BY <1>1, <2>1, <2>2
  <2>8. \A d \in Servers : Asked(d) => Asked(d)'
    BY <2>2, <2>6, <2>7 DEF Asked
  <2>9. ASSUME NEW d \in Servers, life[d] = "alive" PROVE OneSent(d)'
    <3>1. Quiet(d) => Quiet(d)'
      BY <2>2 DEF Quiet
    <3>2. ASSUME NEW u \in Threads, InCall(u)', call'[u].of = d
          PROVE  d \in Closers[u] /\ closes'[u] > 0 /\ Quiet(d)'
      <4>1. CASE u = t
        BY <2>1, <2>5, <2>7, <3>2, <4>1
      <4>2. CASE u # t
        <5>1. InCall(u) /\ call[u].of = d
          BY <2>6, <3>2, <4>2 DEF InCall
        <5> QED
          BY <1>2, <2>6, <2>9, <3>1, <4>2, <5>1 DEF OneSent
      <4> QED
        BY <4>1, <4>2
    <3> QED
      BY <1>2, <2>2, <2>8, <2>9, <3>1, <3>2 DEF OneSent
  <2>10. \A u \in Threads : call'[u].at = "finish" => life[call'[u].of] # "alive"
    BY <1>2, <2>6, <2>7
  <2> QED
    BY <1>2, <2>2, <2>9, <2>10 DEF CloseSound
<1>10. ASSUME NEW t \in Threads, Closing(t) PROVE CloseSound'
  <2>0. InCall(t) /\ call[t].of \in Servers
    BY <1>1, <1>10 DEF Closing, ReadRunning, InitAsync, SendAsync, InCall, CallSound
  <2> PICK s \in Servers : s = call[t].of
    BY <2>0
  <2>1. InCall(t) /\ s = call[t].of
    BY <2>0
  <2>2. /\ UNCHANGED <<sock, phase, life, closes>> /\ crash' # "double close"
        /\ \E a \in Steps :
              /\ call' = [call EXCEPT ![t].at = a]
              /\ a = "finish" => life[s] # "alive"
              /\ \/ asyncs' = asyncs
                 \/ asyncs' = [asyncs EXCEPT ![s] = @ + 1] /\ a \in {"idle", "finish"}
    <3>1. CASE ReadRunning(t)
      BY <1>2, <2>1, <3>1 DEF ReadRunning, Returns, Steps
    <3>2. CASE InitAsync(t)
      BY <1>2, <2>1, <3>2 DEF InitAsync, FreedLink, Steps
    <3>3. CASE SendAsync(t)
      <4>1. asyncs = [asyncs EXCEPT ![s] = asyncs[s]]
        BY <1>1
      <4>2. asyncs' = asyncs \/ asyncs' = [asyncs EXCEPT ![s] = @ + 1]
        BY <2>1, <3>3, <4>1 DEF SendAsync
      <4> QED
        BY <1>2, <2>1, <3>3, <4>2 DEF SendAsync, Returns, Steps
    <3> QED
      BY <1>10, <3>1, <3>2, <3>3 DEF Closing
  <2>3. PICK a \in Steps :
            /\ call' = [call EXCEPT ![t].at = a]
            /\ a = "finish" => life[s] # "alive"
            /\ \/ asyncs' = asyncs
               \/ asyncs' = [asyncs EXCEPT ![s] = @ + 1] /\ a \in {"idle", "finish"}
    BY <2>2
  <2> DEFINE moved == [call[t] EXCEPT !.at = a]
  <2>4. moved.of = s /\ moved.at = a
    BY <1>1, <2>1 DEF Calls
  <2>5. call'[t] = moved /\ \A u \in Threads \ {t} : call'[u] = call[u]
    BY <1>1, <2>3
  <2> HIDE DEF moved
  <2>6. \A d \in Servers : Asked(d)' <=> Asked(d)
    BY <2>2 DEF Asked
  <2>7. ASSUME NEW d \in Servers, life[d] = "alive", d # s PROVE OneSent(d)'
    <3>1. asyncs'[d] = asyncs[d] /\ (Quiet(d)' <=> Quiet(d))
      BY <1>1, <2>2, <2>3, <2>7 DEF Quiet
    <3>2. \A u \in Threads : InCall(u)' /\ call'[u].of = d => InCall(u) /\ call[u].of = d
      BY <2>4, <2>5, <2>7 DEF InCall
    <3> QED
      BY <1>2, <2>2, <2>6, <2>7, <3>1, <3>2 DEF OneSent
  <2>8. ASSUME life[s] = "alive" PROVE OneSent(s)'
    <3>1. s \in Closers[t] /\ closes[t] > 0 /\ Quiet(s)
      BY <1>2, <2>1, <2>8 DEF OneSent
    <3>2. Asked(s)'
      BY <2>2, <3>1 DEF Asked
    <3>3. a # "finish"
      BY <2>3, <2>8
    <3>4. CASE asyncs' = asyncs
      <4>1. Quiet(s)'
        BY <2>2, <3>1, <3>4 DEF Quiet
      <4>2. \A u \in Threads : InCall(u)' /\ call'[u].of = s => InCall(u) /\ call[u].of = s
        BY <2>1, <2>5 DEF InCall
      <4> QED
        BY <1>2, <2>1, <2>2, <2>8, <3>2, <4>1, <4>2 DEF OneSent, Quiet
    <3>5. CASE asyncs' = [asyncs EXCEPT ![s] = @ + 1] /\ a = "idle"
      <4>1. asyncs'[s] = 1 /\ sock'[s] \notin {"closing", "closed"}
        <5>1. asyncs[s] = 0 /\ sock[s] \notin {"closing", "closed"}
          BY <3>1 DEF Quiet
        <5>2. asyncs \in [Servers -> Nat] /\ UNCHANGED sock
          BY <1>1, <2>2
        <5>3. asyncs'[s] = asyncs[s] + 1
          BY <3>5, <5>2
        <5> QED
          BY <5>1, <5>2, <5>3
      <4>2. ASSUME NEW u \in Threads, InCall(u)', call'[u].of = s PROVE FALSE
        <5>1. u # t
          <6>1. call'[t].at = "idle"
            BY <2>4, <2>5, <3>5
          <6>2. call'[u].at # "idle"
            BY <4>2 DEF InCall
          <6> QED
            BY <6>1, <6>2
        <5>2. InCall(u) /\ call[u].of = s
          BY <2>5, <4>2, <5>1 DEF InCall
        <5>3. s \in Closers[u]
          BY <1>2, <2>1, <2>8, <5>2 DEF OneSent
        <5> QED
          BY <3>1, <5>1, <5>3 DEF OneCloser
      <4> QED
        BY <3>2, <4>1, <4>2 DEF OneSent
    <3> QED
      BY <2>3, <3>3, <3>4, <3>5
  <2>9. ASSUME NEW u \in Threads, call'[u].at = "finish" PROVE life'[call'[u].of] # "alive"
    <3>1. CASE u = t
      <4>1. call'[u].of = s /\ a = "finish"
        BY <2>4, <2>5, <2>9, <3>1
      <4> QED
        BY <2>2, <2>3, <4>1
    <3>2. CASE u # t
      <4>1. call'[u] = call[u]
        BY <2>5, <3>2
      <4> QED
        BY <1>2, <2>2, <2>9, <4>1
    <3> QED
      BY <3>1, <3>2
  <2> QED
    BY <1>2, <2>2, <2>7, <2>8, <2>9 DEF CloseSound
<1>11. ASSUME NEW s \in Servers, Destroy(s) PROVE CloseSound'
  <2>1. /\ phase[s] \in {"new", "returned"} /\ ~InCall(Main)
        /\ life' = [life EXCEPT ![s] = "dying"]
        /\ call' = [call EXCEPT ![Main] = [of |-> s, at |-> "read"]]
        /\ UNCHANGED <<sock, phase, asyncs, closes, crash>>
    BY <1>11 DEF Destroy
  <2>2. life'[s] = "dying" /\ \A d \in Servers \ {s} : life'[d] = life[d]
    BY <1>1, <2>1
  <2>3. /\ call'[Main].of = s /\ call'[Main].at = "read"
        /\ \A u \in Threads \ {Main} : call'[u] = call[u]
    BY <1>1, <2>1 DEF Threads
  <2>4. ASSUME NEW d \in Servers, life'[d] = "alive" PROVE OneSent(d)'
    <3>1. d # s /\ OneSent(d)
      BY <1>2, <2>2, <2>4
    <3>2. \A u \in Threads : InCall(u)' /\ call'[u].of = d => InCall(u) /\ call[u].of = d
      BY <2>3, <3>1 DEF InCall
    <3> QED
      BY <2>1, <3>1, <3>2 DEF OneSent, Quiet, Asked
  <2>5. \A u \in Threads : call'[u].at = "finish" => life'[call'[u].of] # "alive"
    <3>1. ASSUME NEW u \in Threads, call'[u].at = "finish" PROVE life'[call'[u].of] # "alive"
      <4>1. call'[u] = call[u] /\ InCall(u)
        BY <2>3, <3>1 DEF InCall
      <4>2. call[u].of \in Servers /\ life[call[u].of] # "alive"
        BY <1>1, <1>2, <3>1, <4>1 DEF CallSound
      <4> QED
        BY <2>2, <4>1, <4>2
    <3> QED
      BY <3>1
  <2>6. \A d \in Servers : life'[d] # "alive" => phase'[d] \in {"new", "returned"}
    BY <1>2, <2>1, <2>2
  <2> QED
    BY <1>2, <2>1, <2>4, <2>5, <2>6 DEF CloseSound
<1>12. ASSUME FinishDestroy PROVE CloseSound'
  <2> DEFINE s == call[Main].of
  <2>1. /\ call[Main].at = "finish"
        /\ life' = [life EXCEPT ![s] = "destroyed"]
        /\ call' = [call EXCEPT ![Main].at = "idle"]
        /\ crash' \in {crash, "use after free"}
        /\ UNCHANGED <<sock, phase, asyncs, closes>>
    BY <1>12 DEF FinishDestroy, FreedLink
  <2>2. s \in Servers /\ life[s] # "alive" /\ Main \in Threads
    BY <1>1, <1>2, <2>1 DEF CallSound, InCall, Threads
  <2>3. life'[s] = "destroyed" /\ \A d \in Servers \ {s} : life'[d] = life[d]
    BY <1>1, <2>1, <2>2
  <2>4. \A u \in Threads : /\ call'[u].at = "idle" \/ call'[u] = call[u]
                           /\ call'[u].at = "idle" \/ u # Main
    BY <1>1, <2>1 DEF Calls
  <2> HIDE DEF s
  <2>5. ASSUME NEW d \in Servers, life'[d] = "alive" PROVE OneSent(d)'
    <3>1. d # s /\ OneSent(d)
      BY <1>2, <2>3, <2>5
    <3> QED
      BY <2>1, <2>4, <3>1 DEF OneSent, Quiet, Asked, InCall
  <2>6. \A u \in Threads : call'[u].at = "finish" => life'[call'[u].of] # "alive"
    <3>1. ASSUME NEW u \in Threads, call'[u].at = "finish" PROVE life'[call'[u].of] # "alive"
      <4>1. call'[u] = call[u] /\ InCall(u)
        BY <2>4, <3>1 DEF InCall
      <4>2. call[u].of \in Servers /\ life[call[u].of] # "alive"
        BY <1>1, <1>2, <3>1, <4>1 DEF CallSound
      <4> QED
        BY <2>3, <4>1, <4>2
    <3> QED
      BY <3>1
  <2>7. \A d \in Servers : life'[d] # "alive" => phase'[d] \in {"new", "returned"}
    BY <1>2, <2>1, <2>2, <2>3
  <2> QED
    BY <1>2, <2>1, <2>5, <2>6, <2>7 DEF CloseSound
<1> QED
  BY <1>3, <1>5, <1>6, <1>7, <1>8, <1>9, <1>10, <1>11, <1>12 DEF Next, Loop

(* However threads race, a server that no two threads may close, and none   *)
(* twice, has its listening handle closed once: neither the close() of its  *)
(* destructor nor one that comes before run() makes it two.                 *)
THEOREM LoopClosedOnce ==
    ASSUME OneCloser
    PROVE  Spec => []ClosedOnce
<1>1. CloseSound => ClosedOnce
  BY DEF CloseSound, ClosedOnce
<1>2. IInv /\ CloseSound /\ [Next]_vars => CloseSound'
  BY StepClose
<1> QED
  BY <1>1, <1>2, InitClose, LoopSafe, PTL DEF Spec
=============================================================================
