---------------------------- MODULE ClientProofs ----------------------------
(***************************************************************************)
(* Theorems about OutConnection and Client for any set of connections and  *)
(* of lookups, any number of reads and any set of failing calls.           *)
(*                                                                         *)
(* The argument about a connection: a union that carries a write and a     *)
(* shutdown is torn, and a torn write never gets a callback, so            *)
(* out_onShutdown closes a handle with nothing else outstanding; and       *)
(* reading starts only when the write is submitted, so whatever leads to a *)
(* close has seen the write finish.                                        *)
(*                                                                         *)
(* The argument about the client: a step of the program is a step of       *)
(* OutConnection or one that leaves the connections alone, save that the   *)
(* callback of a lookup may throw; so what is shown of the connections     *)
(* holds here too.  What run() leaves behind needs two facts more, of      *)
(* which OutConnection says nothing: an open connection that was answered  *)
(* has its shutdown request on the way unless it was torn, and the bytes   *)
(* of a request are kept only while libuv writes them.                     *)
(***************************************************************************)
EXTENDS Client, UvStreamProofs

(* The request was written, or is being shut down behind a write that was.  *)
Spent(s) ==
    \/ s.handle = "closing"
    \/ (s.reading \/ "shutdown" \in s.pending) /\ "write" \notin s.pending

(* The states of a connection's handle, union and buffer between callbacks. *)
Sound(s, b) ==
    /\ s.handle \in {"none", "closing", "closed"} => s.pending = {} /\ ~s.reading
    /\ s.handle = "init" => s.pending \subseteq {"connect"} /\ ~s.reading
    /\ s.handle = "open" => "connect" \notin s.pending
    /\ {"write", "shutdown"} \subseteq s.pending => s.torn
    /\ "write" \in s.pending => b = "live"
    /\ "uv_write" \notin Failures /\ Spent(s) => b = "null"

AllSound == \A c \in Conns : Sound(uv[c], base[c])

CalledOnReads == \A c \in Conns : called[c] <= reads[c]

CrashSound ==
    /\ crash # "double close"
    /\ "uv_write" \notin Failures => crash # "bad free"

IInv == TypeOK /\ CalledOnReads /\ AllSound /\ CrashSound

-----------------------------------------------------------------------------
(* What each callback does to its handle and union.                         *)

LEMMA ConnectStarts ==
    ASSUME NEW s \in Stream, NEW b, Sound(s, b), s.handle = "none"
    PROVE  \A t \in {Connect(Overwrite(TcpInit(s))), Overwrite(TcpInit(s))} :
               t \in Stream /\ Sound(t, b) /\ t.handle = "init"
<1>1. s.pending = {} /\ ~s.reading
  BY DEF Sound
<1>2. /\ Overwrite(TcpInit(s)) \in Stream
      /\ Connect(Overwrite(TcpInit(s))) \in Stream
  BY StreamType, WriteType
<1>3. /\ Overwrite(TcpInit(s)).handle = "init"
      /\ Overwrite(TcpInit(s)).pending = {}
      /\ ~Overwrite(TcpInit(s)).reading
  BY <1>1 DEF Stream, Overwrite, TcpInit
<1>4. /\ Connect(Overwrite(TcpInit(s))).handle = "init"
      /\ Connect(Overwrite(TcpInit(s))).pending = {"connect"}
      /\ ~Connect(Overwrite(TcpInit(s))).reading
  BY <1>1 DEF Stream, Overwrite, TcpInit, Connect, Submit
<1> QED
  BY <1>2, <1>3, <1>4 DEF Sound, Spent

LEMMA ConnectEnds ==
    ASSUME NEW s \in Stream, NEW b, Sound(s, b), "connect" \in s.pending
    PROVE  LET t == Complete(s, "connect") IN
           /\ s.handle = "init"
           /\ t \in Stream /\ t.handle = "init" /\ t.pending = {} /\ ~t.reading
<1>1. s.handle = "init" /\ s.pending = {"connect"} /\ ~s.reading
  BY DEF Sound, Stream, Handles
<1>2. Complete(s, "connect") \in Stream
  BY RequestType DEF ReqKinds
<1> QED
  BY <1>1, <1>2 DEF Stream, Complete

LEMMA WriteStarts ==
    ASSUME NEW t \in Stream, t.pending = {}, ~t.reading, t.handle = "init"
    PROVE  LET r == ReadStart(Attach(t)) IN
           /\ Attach(t) \in Stream /\ Attach(t).handle = "open"
           /\ Attach(t).pending = {} /\ ~Attach(t).reading
           /\ Overwrite(r) \in Stream /\ Overwrite(r).handle = "open"
           /\ Overwrite(r).pending = {}
           /\ Write(Overwrite(r)) \in Stream /\ Write(Overwrite(r)).handle = "open"
           /\ Write(Overwrite(r)).pending = {"write"}
<1> DEFINE r == ReadStart(Attach(t))
<1>1. Attach(t) \in Stream /\ r \in Stream /\ Overwrite(r) \in Stream
  BY StreamType
<1>2. Write(Overwrite(r)) \in Stream
  BY <1>1, WriteType
<1>3. /\ Attach(t).handle = "open" /\ Attach(t).pending = {} /\ ~Attach(t).reading
      /\ r.handle = "open" /\ r.pending = {}
  BY DEF Stream, Attach, ReadStart
<1>4. Overwrite(r).handle = "open" /\ Overwrite(r).pending = {}
  BY <1>1, <1>3 DEF Stream, Overwrite
<1>5. Write(Overwrite(r)).handle = "open" /\ Write(Overwrite(r)).pending = {"write"}
  BY <1>1, <1>4, WriteFields
<1> QED
  BY <1>1, <1>2, <1>3, <1>4, <1>5

(* out_onRead ends in Finish, or, after an error, without the shutdown.     *)
LEMMA FinishKeeps ==
    ASSUME NEW s \in Stream
    PROVE  \A t \in {Finish(s), Overwrite(s)} :
               /\ t \in Stream /\ t.handle = s.handle /\ t.reading = s.reading
               /\ t.pending \subseteq s.pending \cup {"shutdown"}
               /\ s.pending \subseteq t.pending
               /\ s.pending # {} => t.torn
<1> DEFINE o == Overwrite(s)
<1>1. /\ o \in Stream /\ o.handle = s.handle /\ o.reading = s.reading
      /\ o.pending = s.pending
      /\ s.pending # {} => o.torn
  BY StreamType DEF Stream, Overwrite
<1>2. CASE CanShutdown(o)
  <2>1. /\ Shutdown(o) \in Stream /\ Shutdown(o).handle = o.handle
        /\ Shutdown(o).reading = o.reading
        /\ Shutdown(o).pending = o.pending \cup {"shutdown"}
        /\ Shutdown(o).torn = (o.torn \/ o.pending # {})
    BY <1>1, <1>2, ShutdownFields, WriteType
  <2>2. s.pending # {} => Shutdown(o).torn
    BY <1>1, <2>1
  <2> QED
    BY <1>1, <2>1, <2>2 DEF Finish
<1>3. CASE ~CanShutdown(o)
  <2>1. Finish(s) = o
    BY <1>3 DEF Finish, Shutdown
  <2> QED
    BY <1>1, <2>1
<1> QED
  BY <1>2, <1>3

LEMMA ReadSound ==
    ASSUME NEW s \in Stream, NEW b, Sound(s, b), ReadReady(s)
    PROVE  /\ Finish(s) \in Stream /\ Sound(Finish(s), b)
           /\ Finish(s).handle = "open"
<1> DEFINE t == Finish(s)
<1>1. /\ t \in Stream /\ t.handle = s.handle /\ t.reading = s.reading
      /\ t.pending \subseteq s.pending \cup {"shutdown"}
      /\ s.pending \subseteq t.pending
      /\ s.pending # {} => t.torn
  BY FinishKeeps
<1>2. s.handle = "open" /\ s.reading /\ "connect" \notin s.pending
  BY DEF ReadReady, Sound
<1>3. {"write", "shutdown"} \subseteq t.pending => t.torn
  BY <1>1
<1>4. /\ "write" \in t.pending => b = "live"
      /\ "connect" \notin t.pending
  BY <1>1, <1>2 DEF Sound
<1>5. "uv_write" \notin Failures /\ Spent(t) => b = "null"
  BY <1>1, <1>2 DEF Sound, Spent
<1> HIDE DEF t
<1>6. Sound(t, b)
  BY <1>1, <1>2, <1>3, <1>4, <1>5 DEF Sound
<1> QED
  BY <1>1, <1>2, <1>6 DEF t

LEMMA EndSound ==
    ASSUME NEW s \in Stream, NEW b, Sound(s, b), ReadReady(s)
    PROVE  \A t \in {Finish(ReadStop(s)), Overwrite(ReadStop(s))} :
               t \in Stream /\ Sound(t, b) /\ t.handle = "open"
<1> DEFINE o == ReadStop(s)
<1>1. /\ o \in Stream /\ o.handle = "open" /\ ~o.reading
      /\ o.pending = s.pending
  BY StreamType DEF Stream, ReadStop, ReadReady
<1>2. s.handle = "open" /\ s.reading /\ "connect" \notin s.pending
  BY DEF ReadReady, Sound
<1> SUFFICES ASSUME NEW t \in {Finish(o), Overwrite(o)}
             PROVE  t \in Stream /\ Sound(t, b) /\ t.handle = "open"
  OBVIOUS
<1>3. /\ t \in Stream /\ t.handle = "open" /\ t.reading = o.reading
      /\ t.pending \subseteq s.pending \cup {"shutdown"}
      /\ s.pending \subseteq t.pending
      /\ s.pending # {} => t.torn
  BY <1>1, FinishKeeps
<1>4. {"write", "shutdown"} \subseteq t.pending => t.torn
  BY <1>3
<1>5. ("write" \in t.pending => b = "live") /\ "connect" \notin t.pending
  BY <1>2, <1>3 DEF Sound
<1>6. "uv_write" \notin Failures /\ Spent(t) => b = "null"
  BY <1>2, <1>3 DEF Sound, Spent
<1>7. Sound(t, b)
  BY <1>3, <1>4, <1>5, <1>6 DEF Sound
<1> QED
  BY <1>3, <1>7

(* out_onWrite runs on an intact request only: no shutdown is outstanding.  *)
LEMMA WriteEnds ==
    ASSUME NEW s \in Stream, NEW b, Sound(s, b), WriteDone(s), ~s.torn
    PROVE  LET t == Complete(s, "write") IN
           t \in Stream /\ Sound(t, "null") /\ t.handle = s.handle
<1> DEFINE t == Complete(s, "write")
<1>1. t \in Stream
  BY RequestType DEF ReqKinds
<1>2. s.handle = "open" /\ s.pending = {"write"}
  BY DEF WriteDone, Sound, Stream, Handles, ReqKinds
<1>3. t.handle = "open" /\ t.pending = {}
  BY <1>2 DEF Stream, Complete
<1>4. Sound(t, "null")
  BY <1>3 DEF Sound
<1> QED
  BY <1>1, <1>2, <1>3, <1>4

LEMMA ShutdownEnds ==
    ASSUME NEW s \in Stream, NEW b, Sound(s, b), ShutdownDone(s)
    PROVE  LET t == Complete(s, "shutdown") IN
           /\ t \in Stream /\ Sound(t, b) /\ t.handle = "open" /\ CanClose(t)
           /\ Close(t) \in Stream /\ Sound(Close(t), b)
           /\ Close(t).handle = "closing"
<1> DEFINE t == Complete(s, "shutdown")
<1>1. t \in Stream /\ Close(t) \in Stream
  BY RequestType, StreamType DEF ReqKinds
<1>2. s.handle = "open" /\ s.pending = {"shutdown"}
  BY DEF ShutdownDone, Sound, Stream, Handles, ReqKinds
<1>3. t.handle = "open" /\ t.pending = {} /\ t.reading = s.reading
  BY <1>2 DEF Stream, Complete
<1>4. Close(t).handle = "closing" /\ Close(t).pending = {} /\ ~Close(t).reading
  BY <1>1, <1>3 DEF Stream, Close
<1>5. "uv_write" \notin Failures => b = "null"
  BY <1>2 DEF Sound, Spent
<1>6. Sound(t, b) /\ Sound(Close(t), b)
  BY <1>3, <1>4, <1>5 DEF Sound
<1> QED
  BY <1>1, <1>3, <1>4, <1>6 DEF CanClose

LEMMA CloseEnds ==
    ASSUME NEW s \in Stream, NEW b, NEW d, Sound(s, b), CloseDone(s)
    PROVE  /\ Deleted(s) \in Stream /\ Sound(Deleted(s), d)
           /\ Deleted(s).handle = "closed"
           /\ "uv_write" \notin Failures => b = "null"
<1>1. s.handle = "closing" /\ s.pending = {} /\ ~s.reading
  BY DEF CloseDone, Sound
<1>2. /\ Deleted(s) \in Stream /\ Deleted(s).handle = "closed"
      /\ Deleted(s).pending = {} /\ ~Deleted(s).reading
  BY <1>1, StreamType DEF Stream, Deleted
<1> QED
  BY <1>1, <1>2 DEF Sound, Spent

-----------------------------------------------------------------------------
LEMMA InitSafe == Init => IInv
<1> SUFFICES ASSUME Init PROVE IInv
  OBVIOUS
<1>1. TypeOK
  BY AbsentType, OutAssumption DEF Init, TypeOK, Bases, Crashes
<1>2. AllSound
  BY DEF Init, AllSound, Sound, Spent, Absent
<1>3. CalledOnReads /\ CrashSound
  BY DEF Init, CalledOnReads, CrashSound
<1> QED
  BY <1>1, <1>2, <1>3 DEF IInv

(* An action that replaces the stream of c, and the buffer by b.            *)
LEMMA OneMoves ==
    ASSUME TypeOK, AllSound, NEW c \in Conns, NEW t \in Stream, NEW b \in Bases,
           Sound(t, b), uv' = [uv EXCEPT ![c] = t], base' = [base EXCEPT ![c] = b]
    PROVE  /\ uv' \in [Conns -> Stream] /\ base' \in [Conns -> Bases]
           /\ AllSound'
<1>1. uv \in [Conns -> Stream] /\ base \in [Conns -> Bases]
  BY DEF TypeOK
<1> QED
  BY <1>1 DEF AllSound

LEMMA StepSafe == IInv /\ [Next]_vars => IInv'
<1> SUFFICES ASSUME IInv, [Next]_vars PROVE IInv'
  OBVIOUS
<1>1. TypeOK /\ AllSound /\ CalledOnReads /\ CrashSound
  BY DEF IInv
<1>2. /\ uv \in [Conns -> Stream] /\ base \in [Conns -> Bases]
      /\ reads \in [Conns -> 0..MaxReads] /\ called \in [Conns -> 0..MaxReads]
  BY <1>1 DEF TypeOK
<1>3. \A c \in Conns : uv[c] \in Stream /\ Sound(uv[c], base[c]) /\ base[c] \in Bases
  BY <1>1, <1>2 DEF AllSound
<1>4. CASE UNCHANGED vars
  BY <1>1, <1>4 DEF vars, IInv, TypeOK, AllSound, CalledOnReads, CrashSound
<1>5. ASSUME NEW c \in Conns, NEW t \in Stream, NEW b \in Bases, Sound(t, b),
             uv' = [uv EXCEPT ![c] = t], base' = [base EXCEPT ![c] = b],
             UNCHANGED <<reads, ended, called, crash>>
      PROVE  IInv'
  <2>1. /\ uv' \in [Conns -> Stream] /\ base' \in [Conns -> Bases]
        /\ AllSound'
    BY <1>1, <1>5, OneMoves
  <2>2. TypeOK' /\ CalledOnReads' /\ CrashSound'
    BY <1>1, <1>5, <2>1 DEF TypeOK, CalledOnReads, CrashSound
  <2> QED
    BY <2>1, <2>2 DEF IInv
<1>6. ASSUME NEW c \in Conns, makeRequest(c) PROVE IInv'
  <2>1. PICK t \in Stream : uv' = [uv EXCEPT ![c] = t] /\ Sound(t, base[c])
    BY <1>3, <1>6, ConnectStarts DEF makeRequest
  <2>2. base' = [base EXCEPT ![c] = base[c]]
    BY <1>2, <1>6 DEF makeRequest
  <2> QED
    BY <1>3, <1>5, <1>6, <2>1, <2>2 DEF makeRequest
<1>7. ASSUME NEW c \in Conns, out_onConnect(c) PROVE IInv'
  <2> DEFINE s == Complete(uv[c], "connect")
             r == ReadStart(Attach(s))
  <2>1. s \in Stream /\ s.handle = "init" /\ s.pending = {} /\ ~s.reading
    BY <1>3, <1>7, ConnectEnds DEF out_onConnect
  <2>2. /\ Attach(s) \in Stream /\ Attach(s).handle = "open"
        /\ Attach(s).pending = {} /\ ~Attach(s).reading
        /\ Overwrite(r) \in Stream /\ Overwrite(r).handle = "open"
        /\ Overwrite(r).pending = {}
        /\ Write(Overwrite(r)) \in Stream /\ Write(Overwrite(r)).handle = "open"
        /\ Write(Overwrite(r)).pending = {"write"}
    BY <2>1, WriteStarts
  <2>3. UNCHANGED <<reads, ended, called, crash>>
    BY <1>7 DEF out_onConnect
  <2>4. \/ uv' = [uv EXCEPT ![c] = s] /\ UNCHANGED base
        \/ uv' = [uv EXCEPT ![c] = Attach(s)] /\ UNCHANGED base
        \/ uv' = [uv EXCEPT ![c] = Write(Overwrite(r))] /\ base' = [base EXCEPT ![c] = "live"]
        \/ /\ "uv_write" \in Failures
           /\ uv' = [uv EXCEPT ![c] = Overwrite(r)] /\ base' = [base EXCEPT ![c] = "live"]
    BY <1>7 DEF out_onConnect
  <2> HIDE DEF s, r
  <2>5. Sound(s, base[c]) /\ Sound(Attach(s), base[c]) /\ Sound(Write(Overwrite(r)), "live")
    BY <2>1, <2>2 DEF Sound, Spent
  <2>6. "uv_write" \in Failures => Sound(Overwrite(r), "live")
    BY <2>2 DEF Sound
  <2>7. UNCHANGED base => base' = [base EXCEPT ![c] = base[c]]
    BY <1>2
  <2>8. "live" \in Bases
    BY DEF Bases
  <2> QED
    BY <1>3, <1>5, <2>1, <2>2, <2>3, <2>4, <2>5, <2>6, <2>7, <2>8
<1>8. ASSUME NEW c \in Conns, out_onRead(c) PROVE IInv'
  <2>1. ReadReady(uv[c]) /\ base' = [base EXCEPT ![c] = base[c]]
    BY <1>2, <1>8 DEF out_onRead, Receives, Ends
  <2>2. CASE Receives(c)
    <3>1. uv' = [uv EXCEPT ![c] = Finish(uv[c])] \/ uv' = [uv EXCEPT ![c] = uv[c]]
      BY <1>2, <2>2 DEF Receives
    <3>2. /\ uv' \in [Conns -> Stream] /\ base' \in [Conns -> Bases]
          /\ AllSound'
      BY <1>1, <1>3, <2>1, <3>1, ReadSound, OneMoves
    <3>3. /\ reads[c] < MaxReads /\ reads' = [reads EXCEPT ![c] = @ + 1]
          /\ called' = called \/ called' = [called EXCEPT ![c] = @ + 1]
          /\ UNCHANGED ended
          /\ crash' \in {crash, "uncaught exception"}
      BY <2>2 DEF Receives
    <3>4. ASSUME NEW d \in Conns
          PROVE  /\ called'[d] <= reads'[d]
                 /\ called'[d] \in 0..MaxReads /\ reads'[d] \in 0..MaxReads
      <4>1. called[d] \in 0..MaxReads /\ reads[d] \in 0..MaxReads /\ called[d] <= reads[d]
        BY <1>1, <1>2 DEF CalledOnReads
      <4>2. CASE d = c
        <5>1. /\ reads'[d] = reads[d] + 1 /\ reads[d] < MaxReads
              /\ called'[d] = called[d] \/ called'[d] = called[d] + 1
          BY <1>2, <3>3, <4>2
        <5> QED
          BY <4>1, <5>1, OutAssumption
      <4>3. CASE d # c
        <5>1. reads'[d] = reads[d] /\ called'[d] = called[d]
          BY <1>2, <3>3, <4>3
        <5> QED
          BY <4>1, <5>1
      <4> QED
        BY <4>2, <4>3
    <3>5. called' \in [Conns -> 0..MaxReads] /\ reads' \in [Conns -> 0..MaxReads]
      <4>1. /\ called' = [d \in Conns |-> called'[d]]
            /\ reads' = [d \in Conns |-> reads'[d]]
        BY <1>2, <3>3
      <4> QED
        BY <3>4, <4>1
    <3>6. CalledOnReads' /\ CrashSound'
      BY <1>1, <3>3, <3>4 DEF CalledOnReads, CrashSound
    <3>7. TypeOK'
      BY <1>1, <3>2, <3>3, <3>5 DEF TypeOK, Crashes
    <3> QED
      BY <3>2, <3>6, <3>7 DEF IInv
  <2>3. CASE Ends(c)
    <3>1. PICK t \in Stream : uv' = [uv EXCEPT ![c] = t] /\ Sound(t, base[c])
      BY <1>3, <2>1, <2>3, EndSound DEF Ends
    <3>2. /\ uv' \in [Conns -> Stream] /\ base' \in [Conns -> Bases]
          /\ AllSound'
      BY <1>1, <1>3, <2>1, <3>1, OneMoves
    <3>3. /\ ended' \in [Conns -> BOOLEAN]
          /\ UNCHANGED <<reads, called, crash>>
      BY <1>1, <2>3 DEF Ends, TypeOK
    <3> QED
      BY <1>1, <3>2, <3>3 DEF IInv, TypeOK, CalledOnReads, CrashSound
  <2> QED
    BY <1>8, <2>2, <2>3 DEF out_onRead
<1>9. ASSUME NEW c \in Conns, out_onWrite(c) PROVE IInv'
  <2>1. Complete(uv[c], "write") \in Stream /\ Sound(Complete(uv[c], "write"), "null")
    BY <1>3, <1>9, WriteEnds DEF out_onWrite
  <2>2. "null" \in Bases
    BY DEF Bases
  <2> QED
    BY <1>5, <1>9, <2>1, <2>2 DEF out_onWrite
<1>10. ASSUME NEW c \in Conns, out_onShutdown(c) \/ LostShutdown(c) PROVE IInv'
  <2> DEFINE t == Complete(uv[c], "shutdown")
  <2>1. /\ t \in Stream /\ Sound(t, base[c]) /\ CanClose(t)
        /\ Close(t) \in Stream /\ Sound(Close(t), base[c])
    BY <1>3, <1>10, ShutdownEnds DEF out_onShutdown, LostShutdown
  <2>2. uv' = [uv EXCEPT ![c] = t] \/ uv' = [uv EXCEPT ![c] = Close(t)]
    BY <1>10, <2>1 DEF out_onShutdown, LostShutdown, CloseHandle
  <2>3. /\ base' = [base EXCEPT ![c] = base[c]]
        /\ UNCHANGED <<reads, ended, called, crash>>
    BY <1>2, <1>10, <2>1 DEF out_onShutdown, LostShutdown, CloseHandle
  <2> QED
    BY <1>3, <1>5, <2>1, <2>2, <2>3
<1>11. ASSUME NEW c \in Conns, out_onClose(c) PROVE IInv'
  <2>1. CloseDone(uv[c]) /\ uv' = [uv EXCEPT ![c] = Deleted(uv[c])]
    BY <1>11 DEF out_onClose
  <2>2. /\ Deleted(uv[c]) \in Stream
        /\ Sound(Deleted(uv[c]), "freed") /\ Sound(Deleted(uv[c]), base[c])
        /\ "uv_write" \notin Failures => base[c] = "null"
    BY <1>3, <2>1, CloseEnds
  <2>3. base' = [base EXCEPT ![c] = base[c]] \/ base' = [base EXCEPT ![c] = "freed"]
    BY <1>2, <1>11 DEF out_onClose
  <2>4. /\ uv' \in [Conns -> Stream] /\ base' \in [Conns -> Bases]
        /\ AllSound'
    BY <1>1, <1>3, <2>1, <2>2, <2>3, OneMoves DEF Bases
  <2>5. CrashSound' /\ crash' \in Crashes
    BY <1>1, <1>11, <2>2 DEF out_onClose, CrashSound, TypeOK, Crashes
  <2>6. UNCHANGED <<reads, ended, called>>
    BY <1>11 DEF out_onClose
  <2> QED
    BY <1>1, <2>4, <2>5, <2>6 DEF IInv, TypeOK, CalledOnReads
<1>12. ASSUME NEW c \in Conns, TornWrite(c) PROVE IInv'
  BY <1>1, <1>12 DEF TornWrite, IInv, TypeOK, Crashes, AllSound, CalledOnReads, CrashSound
<1> QED
  BY <1>4, <1>6, <1>7, <1>8, <1>9, <1>10, <1>11, <1>12 DEF Next, Completion

(* IInv holds in every reachable state.                                     *)
LEMMA OutSafe == Spec => []IInv
BY InitSafe, StepSafe, PTL DEF Spec

(* Every variable keeps its type; the callback runs at most once per read.  *)
THEOREM OutTypeCorrect == Spec => []TypeOK
<1>1. IInv => TypeOK
  BY DEF IInv
<1> QED
  BY <1>1, OutSafe, PTL

(* An outgoing Connection is closed and deleted only when none of its       *)
(* requests and no read is outstanding.                                     *)
THEOREM OutDeletedIsQuiet == Spec => []DeletedIsQuiet
<1>1. IInv => DeletedIsQuiet
  BY DEF IInv, AllSound, Sound, DeletedIsQuiet
<1> QED
  BY <1>1, OutSafe, PTL

(* The request's buffer outlives the uv_write that points to it.            *)
THEOREM OutWriteDataAlive == Spec => []WriteDataAlive
<1>1. IInv => WriteDataAlive
  BY DEF IInv, AllSound, Sound, WriteDataAlive
<1> QED
  BY <1>1, OutSafe, PTL

(* No handle is closed twice.                                               *)
THEOREM OutClosedOnce == Spec => []ClosedOnce
<1>1. IInv => ClosedOnce
  BY DEF IInv, CrashSound, ClosedOnce
<1> QED
  BY <1>1, OutSafe, PTL

(* Where uv_write does not fail, the three places that free the request's   *)
(* buffer free it once between them.                                        *)
THEOREM OutBufferFreedOnce ==
    ASSUME "uv_write" \notin Failures
    PROVE  Spec => []BufferFreedOnce
<1>1. IInv => BufferFreedOnce
  BY DEF IInv, CrashSound, BufferFreedOnce
<1> QED
  BY <1>1, OutSafe, PTL

-----------------------------------------------------------------------------
(* Refinement.                                                              *)

LEMMA LifeValues ==
    /\ Life["none"] = "none" /\ Life["init"] = "live" /\ Life["open"] = "live"
    /\ Life["closing"] = "closing" /\ Life["closed"] = "gone"
BY DEF Life

LEMMA InitObject == Init => Object!Init
BY LifeValues DEF Init, Absent, Up, Object!Init

LEMMA LifeMoves ==
    ASSUME TypeOK, NEW c \in Conns, NEW t, uv' = [uv EXCEPT ![c] = t],
           NEW h, t.handle = h
    PROVE  [d \in Conns |-> Life[uv[d].handle]]'
             = [[d \in Conns |-> Life[uv[d].handle]] EXCEPT ![c] = Life[h]]
BY DEF TypeOK

LEMMA StepObject == IInv /\ [Next]_vars => [Object!Next]_Object!vars
<1> SUFFICES ASSUME IInv, Next PROVE Object!Next
  BY DEF vars, Up, Object!vars
<1> DEFINE life == [d \in Conns |-> Life[uv[d].handle]]
<1>1. /\ TypeOK /\ Up' \in BOOLEAN
      /\ \A c \in Conns : uv[c] \in Stream /\ Sound(uv[c], base[c])
  BY DEF IInv, TypeOK, Up, AllSound
<1>2. PICK c \in Conns : makeRequest(c) \/ out_onRead(c) \/ Completion(c)
  BY DEF Next
<1>3. Up
  BY <1>2 DEF makeRequest, out_onRead, Completion, out_onConnect, out_onWrite,
     out_onShutdown, out_onClose, TornWrite, LostShutdown
<1>4. ASSUME NEW t, uv' = [uv EXCEPT ![c] = t], Life[t.handle] = Life[uv[c].handle],
             UNCHANGED called
      PROVE  Object!Step(c)
  <2>1. life' = [life EXCEPT ![c] = life[c]]
    BY <1>1, <1>4, LifeMoves
  <2> QED
    BY <1>4, <2>1 DEF Object!Step
<1>5. CASE makeRequest(c)
  <2>1. PICK t : uv' = [uv EXCEPT ![c] = t] /\ t.handle = "init"
    BY <1>1, <1>5, ConnectStarts DEF makeRequest
  <2>2. life' = [life EXCEPT ![c] = "live"]
    <3>1. life' = [life EXCEPT ![c] = Life["init"]]
      BY <1>1, <2>1, LifeMoves
    <3> QED
      BY <3>1, LifeValues
  <2>3. life[c] = "none" /\ UNCHANGED called
    BY <1>5, LifeValues DEF makeRequest
  <2>4. Object!Advance(c, "none", "live")
    BY <2>2, <2>3 DEF Object!Advance
  <2> QED
    BY <1>1, <1>3, <2>4 DEF Object!Next, Object!Step
<1>6. CASE out_onConnect(c)
  <2> DEFINE s == Complete(uv[c], "connect")
             r == ReadStart(Attach(s))
  <2>1. /\ uv[c].handle = "init" /\ s \in Stream /\ s.handle = "init"
        /\ s.pending = {} /\ ~s.reading
    BY <1>1, <1>6, ConnectEnds DEF out_onConnect
  <2>2. /\ Attach(s).handle = "open" /\ Overwrite(r).handle = "open"
        /\ Write(Overwrite(r)).handle = "open"
    BY <2>1, WriteStarts
  <2>3. \E t \in {s, Attach(s), Overwrite(r), Write(Overwrite(r))} :
            uv' = [uv EXCEPT ![c] = t]
    BY <1>6 DEF out_onConnect
  <2> HIDE DEF s, r
  <2>4. PICK t : uv' = [uv EXCEPT ![c] = t] /\ t.handle \in {"init", "open"}
    BY <2>1, <2>2, <2>3
  <2>5. UNCHANGED called
    BY <1>6 DEF out_onConnect
  <2> QED
    BY <1>1, <1>3, <1>4, <2>1, <2>4, <2>5, LifeValues DEF Object!Next
<1>7. CASE out_onRead(c)
  <2>1. ReadReady(uv[c]) /\ uv = [uv EXCEPT ![c] = uv[c]]
    BY <1>1, <1>7 DEF out_onRead, TypeOK
  <2>2. PICK t : uv' = [uv EXCEPT ![c] = t] /\ t.handle = "open"
    <3>1. CASE Receives(c)
      BY <1>1, <2>1, <3>1, ReadSound DEF Receives, ReadReady
    <3>2. CASE Ends(c)
      BY <1>1, <2>1, <3>2, EndSound DEF Ends
    <3> QED
      BY <1>7, <3>1, <3>2 DEF out_onRead
  <2>3. CASE UNCHANGED called
    BY <1>1, <1>3, <1>4, <2>1, <2>2, <2>3 DEF Object!Next, ReadReady
  <2>4. CASE called' = [called EXCEPT ![c] = @ + 1]
    <3>1. life[c] = "live"
      BY <2>1, LifeValues DEF ReadReady
    <3>2. life' = life
      BY <1>1, <2>1, <2>2, LifeMoves DEF ReadReady
    <3>3. Object!Call(c)
      BY <2>4, <3>1, <3>2 DEF Object!Call
    <3> QED
      BY <1>1, <1>3, <3>3 DEF Object!Next, Object!Step
  <2> QED
    BY <1>7, <2>3, <2>4 DEF out_onRead, Receives, Ends
<1>8. CASE out_onWrite(c)
  BY <1>1, <1>3, <1>4, <1>8, WriteEnds DEF out_onWrite, Object!Next
<1>9. CASE LostShutdown(c)
  <2>1. uv[c].handle = "open"
    BY <1>1, <1>9 DEF LostShutdown, Sound, ShutdownDone, Stream, Handles
  <2> QED
    BY <1>1, <1>3, <1>4, <1>9, <2>1, ShutdownEnds DEF LostShutdown, Object!Next
<1>10. CASE out_onShutdown(c)
  <2>1. /\ uv' = [uv EXCEPT ![c] = Close(Complete(uv[c], "shutdown"))]
        /\ Close(Complete(uv[c], "shutdown")).handle = "closing"
    BY <1>1, <1>10, ShutdownEnds DEF out_onShutdown, CloseHandle
  <2>2. uv[c].handle = "open"
    BY <1>1, <1>10 DEF out_onShutdown, Sound, ShutdownDone, Stream, Handles
  <2>3. life' = [life EXCEPT ![c] = "closing"]
    <3>1. life' = [life EXCEPT ![c] = Life["closing"]]
      BY <1>1, <2>1, LifeMoves
    <3> QED
      BY <3>1, LifeValues
  <2>4. life[c] = "live" /\ UNCHANGED called
    BY <1>10, <2>2, LifeValues DEF out_onShutdown
  <2>5. Object!Advance(c, "live", "closing")
    BY <2>3, <2>4 DEF Object!Advance
  <2> QED
    BY <1>1, <1>3, <2>5 DEF Object!Next, Object!Step
<1>11. CASE out_onClose(c)
  <2>1. Deleted(uv[c]).handle = "closed" /\ uv[c].handle = "closing"
    BY <1>1, <1>11, CloseEnds DEF out_onClose, CloseDone
  <2>2. life' = [life EXCEPT ![c] = "gone"]
    <3>1. PICK t : uv' = [uv EXCEPT ![c] = t] /\ t.handle = "closed"
      BY <1>11, <2>1 DEF out_onClose
    <3>2. life' = [life EXCEPT ![c] = Life["closed"]]
      BY <1>1, <3>1, LifeMoves
    <3> QED
      BY <3>2, LifeValues
  <2>3. life[c] = "closing" /\ UNCHANGED called
    BY <1>11, <2>1, LifeValues DEF out_onClose
  <2>4. Object!Advance(c, "closing", "gone")
    BY <2>2, <2>3 DEF Object!Advance
  <2> QED
    BY <1>1, <1>3, <2>4 DEF Object!Next, Object!Step
<1>12. CASE TornWrite(c)
  BY <1>1, <1>3, <1>12 DEF TornWrite, Object!Next, Object!Step
<1> QED
  BY <1>2, <1>5, <1>6, <1>7, <1>8, <1>9, <1>10, <1>11, <1>12 DEF Completion

(* An outgoing connection implements the ConnectionObject too: its callback *)
(* never runs once the close has begun.                                     *)
THEOREM OutImplementsObject == Spec => ImplementsObject
BY InitObject, StepObject, OutSafe, PTL DEF Spec, ImplementsObject, Object!Spec

-----------------------------------------------------------------------------
(* The client: its lookups, its threads and the loop.                       *)

(* An open connection is as good as new, or it is being shut down.          *)
Answered(s, r) ==
    /\ s.handle \in {"none", "init"} => r = 0
    /\ s.handle = "open" /\ ~s.torn => "shutdown" \in s.pending \/ (s.writable /\ r = 0)

AllAnswered == Up => \A c \in Conns : Answered(uv[c], reads[c])

Held == \A c \in Conns : base[c] = "live" => "write" \in uv[c].pending

(* The callback of a lookup runs on the thread that has the loop.           *)
Calling == \A l \in Lookups : lookup[l] = "calling" <=> at = l

Kept == "uv_write" \notin Failures => Held

CInv == ClientTypeOK /\ IInv /\ AllAnswered /\ Kept /\ Calling

-----------------------------------------------------------------------------
(* The steps of the program are those of the connections, or of none.       *)

Thrown ==
    /\ Up /\ crash' = "uncaught exception"
    /\ UNCHANGED <<uv, reads, ended, base, called>>

LEMMA ClientSteps == ClientNext => [Next]_vars \/ Thrown
<1> SUFFICES ASSUME ClientNext PROVE [Next]_vars \/ Thrown
  OBVIOUS
<1>1. ASSUME NEW c \in Conns, Requests(c) \/ Completes(c) \/ Reads(c)
      PROVE  Next
  BY <1>1 DEF Requests, Completes, Reads, Next
<1>2. ASSUME NEW l \in Lookups, makeDNSLookup(l) \/ onAddress(l) \/ AddressHandled(l)
      PROVE  UNCHANGED vars \/ Thrown
  BY <1>2 DEF makeDNSLookup, onAddress, AddressHandled, Thrown, vars
<1>3. CASE run \/ AnswerHandled \/ ReturnFromRun \/ Destroy
  BY <1>3 DEF run, AnswerHandled, ReturnFromRun, Destroy
<1> QED
  BY <1>1, <1>2, <1>3 DEF ClientNext, Loop, Returning

LEMMA ThrownSafe == IInv /\ Thrown => IInv'
BY DEF IInv, Thrown, TypeOK, Crashes, CalledOnReads, AllSound, Sound, Spent, CrashSound

(* IInv is an invariant of the program as well.                             *)
LEMMA ClientStepSafe == IInv /\ [ClientNext]_cvars => IInv'
<1> SUFFICES ASSUME IInv, [ClientNext]_cvars PROVE IInv'
  OBVIOUS
<1>1. [Next]_vars \/ Thrown
  BY ClientSteps DEF cvars, vars
<1> QED
  BY <1>1, StepSafe, ThrownSafe

LEMMA ClientSafe == ClientSpec => []IInv
<1>1. ClientInit => IInv
  BY InitSafe DEF ClientInit
<1> QED
  BY <1>1, ClientStepSafe, PTL DEF ClientSpec

(* What was shown of connections that share the loop with nothing else, of  *)
(* those of a program that looks up names in between.                       *)

(* A Connection is closed and deleted only when libuv is through with it,   *)
(* wherever lookups and callbacks of other connections come in between.     *)
THEOREM ClientDeletedIsQuiet == ClientSpec => []DeletedIsQuiet
<1>1. IInv => DeletedIsQuiet
  BY DEF IInv, AllSound, Sound, DeletedIsQuiet
<1> QED
  BY <1>1, ClientSafe, PTL

(* No handle of the program is closed twice.                                *)
THEOREM ClientClosedOnce == ClientSpec => []ClosedOnce
<1>1. IInv => ClosedOnce
  BY DEF IInv, CrashSound, ClosedOnce
<1> QED
  BY <1>1, ClientSafe, PTL

(* The bytes of every request are there until libuv has written them.       *)
THEOREM ClientWriteDataAlive == ClientSpec => []WriteDataAlive
<1>1. IInv => WriteDataAlive
  BY DEF IInv, AllSound, Sound, WriteDataAlive
<1> QED
  BY <1>1, ClientSafe, PTL

(* Where uv_write does not fail no request's bytes are freed twice.         *)
THEOREM ClientBufferFreedOnce ==
    ASSUME "uv_write" \notin Failures
    PROVE  ClientSpec => []BufferFreedOnce
<1>1. IInv => BufferFreedOnce
  BY DEF IInv, CrashSound, BufferFreedOnce
<1> QED
  BY <1>1, ClientSafe, PTL

-----------------------------------------------------------------------------
(* Types.                                                                   *)

LEMMA LookupStep ==
    ASSUME lookup \in [Lookups -> LookupStates], at \in Places, Calling,
           [ClientNext]_cvars
    PROVE  /\ lookup' \in [Lookups -> LookupStates] /\ at' \in Places
           /\ Calling'
<1>1. CASE UNCHANGED <<lookup, at>>
  BY <1>1 DEF Calling
<1>2. ASSUME UNCHANGED lookup, at' \in {"main", "loop", "answer", "gone"},
             at \notin Lookups
      PROVE  lookup' \in [Lookups -> LookupStates] /\ at' \in Places /\ Calling'
  BY <1>2, LookupsAssumption DEF Calling, Places
<1>3. ASSUME NEW l \in Lookups, makeDNSLookup(l) PROVE Calling'
  BY <1>3 DEF makeDNSLookup, Calling
<1>4. ASSUME NEW l \in Lookups, onAddress(l) PROVE Calling' /\ at' \in Places
  <2>1. at = "loop" /\ lookup[l] = "working"
    BY <1>4 DEF onAddress, InLoop
  <2>2. \A k \in Lookups : k # at /\ lookup[k] # "calling"
    BY <2>1, LookupsAssumption DEF Calling
  <2> QED
    BY <1>4, <2>1, <2>2 DEF onAddress, Calling, Places
<1>5. ASSUME NEW l \in Lookups, AddressHandled(l) PROVE Calling' /\ at' \in Places
  <2>1. at = l /\ \A k \in Lookups : lookup[k] = "calling" <=> k = l
    BY <1>5 DEF AddressHandled, Calling
  <2>2. CASE lookup' = [lookup EXCEPT ![l] = "freed"] /\ at' = "loop"
    <3>1. \A k \in Lookups : lookup'[k] # "calling" /\ at' # k
      BY <2>1, <2>2, LookupsAssumption
    <3> QED
      BY <2>2, <3>1 DEF Calling, Places
  <2>3. CASE UNCHANGED <<lookup, at>>
    BY <2>3 DEF Calling
  <2> QED
    BY <1>5, <2>2, <2>3 DEF AddressHandled
<1>6. ASSUME NEW l \in Lookups, makeDNSLookup(l) \/ onAddress(l) \/ AddressHandled(l)
      PROVE  lookup' \in [Lookups -> LookupStates]
  BY <1>6 DEF makeDNSLookup, onAddress, AddressHandled, LookupStates
<1>7. ASSUME NEW l \in Lookups, makeDNSLookup(l) PROVE at' \in Places
  BY <1>7 DEF makeDNSLookup
<1>8. ASSUME NEW c \in Conns, Reads(c)
      PROVE  lookup' \in [Lookups -> LookupStates] /\ at' \in Places /\ Calling'
  BY <1>1, <1>2, <1>8, LookupsAssumption DEF Reads, InLoop
<1>9. CASE run \/ AnswerHandled \/ ReturnFromRun \/ Destroy
  BY <1>2, <1>9, LookupsAssumption DEF run, AnswerHandled, ReturnFromRun, Destroy, InLoop
<1>10. ASSUME NEW c \in Conns, Requests(c) \/ Completes(c)
       PROVE  UNCHANGED <<lookup, at>>
  BY <1>10 DEF Requests, Completes
<1>11. CASE UNCHANGED cvars
  BY <1>1, <1>11 DEF cvars
<1> QED
  BY <1>1, <1>3, <1>4, <1>5, <1>6, <1>7, <1>8, <1>9, <1>10, <1>11
  DEF ClientNext, Loop, Returning

-----------------------------------------------------------------------------
(* What a connection that was answered is waiting for.                      *)

(* Asking for a shutdown leaves it on the way, or the union torn.           *)
LEMMA FinishAnswers ==
    ASSUME NEW s \in Stream, NEW r \in Nat, s.handle = "open", Answered(s, r)
    PROVE  \A n \in Nat : Answered(Finish(s), n)
<1> DEFINE o == Overwrite(s)
<1>1. /\ o \in Stream /\ o.handle = "open" /\ o.writable = s.writable
      /\ o.pending = s.pending /\ o.torn = (s.torn \/ s.pending # {})
  BY StreamType DEF Stream, Overwrite
<1> HIDE DEF o
<1>2. CASE s.writable
  <2>1. CanShutdown(o)
    BY <1>1, <1>2 DEF CanShutdown
  <2>2. /\ Shutdown(o).handle = "open"
        /\ "shutdown" \in Shutdown(o).pending
    BY <1>1, <2>1, ShutdownFields
  <2> QED
    BY <2>2 DEF Finish, Answered, o
<1>3. CASE ~s.writable
  <2>1. Shutdown(o) = o
    BY <1>1, <1>3 DEF Shutdown, CanShutdown
  <2>2. o.torn
    BY <1>1, <1>3 DEF Answered
  <2> QED
    BY <1>1, <2>1, <2>2 DEF Finish, Answered, o
<1> QED
  BY <1>2, <1>3

(* An end of the stream that asks for nothing tears the union, or finds a   *)
(* connection that is still writable.                                       *)
LEMMA EndAnswers ==
    ASSUME NEW s \in Stream, NEW r \in Nat, s.handle = "open", Answered(s, r)
    PROVE  \A t \in {Finish(ReadStop(s)), Overwrite(ReadStop(s))} : Answered(t, r)
<1> DEFINE o == ReadStop(s)
<1>1. /\ o \in Stream /\ o.handle = "open" /\ o.writable = s.writable
      /\ o.pending = s.pending /\ o.torn = s.torn
  BY StreamType DEF Stream, ReadStop
<1> HIDE DEF o
<1>2. Answered(o, r)
  BY <1>1 DEF Answered
<1>3. Answered(Finish(o), r)
  BY <1>1, <1>2, FinishAnswers
<1>4. /\ Overwrite(o).handle = "open" /\ Overwrite(o).writable = o.writable
      /\ Overwrite(o).pending = o.pending /\ Overwrite(o).torn = (o.torn \/ o.pending # {})
  BY <1>1 DEF Stream, Overwrite
<1>5. Answered(Overwrite(o), r)
  BY <1>1, <1>2, <1>4 DEF Answered
<1> QED
  BY <1>3, <1>5 DEF o

(* One stream moves, and with it what was read.                             *)
LEMMA OneAnswers ==
    ASSUME TypeOK, AllAnswered, Up, NEW c \in Conns, NEW t \in Stream, NEW r,
           uv' = [uv EXCEPT ![c] = t], reads' = [reads EXCEPT ![c] = r],
           Answered(t, r)
    PROVE  AllAnswered'
<1>1. uv \in [Conns -> Stream] /\ reads \in [Conns -> 0..MaxReads]
  BY DEF TypeOK
<1> QED
  BY <1>1 DEF AllAnswered

LEMMA StepAnswers == IInv /\ AllAnswered /\ [Next]_vars => AllAnswered'
<1> SUFFICES ASSUME IInv, AllAnswered, [Next]_vars PROVE AllAnswered'
  OBVIOUS
<1>1. CASE UNCHANGED vars
  BY <1>1 DEF vars, AllAnswered, Up
<1>2. ASSUME NEW c \in Conns, makeRequest(c) \/ out_onRead(c) \/ Completion(c)
      PROVE  AllAnswered'
  <2> DEFINE s == uv[c]
  <2>1. TypeOK /\ s \in Stream /\ Sound(s, base[c]) /\ reads[c] \in Nat
    BY OutAssumption DEF IInv, TypeOK, AllSound
  <2>2. Up
    BY <1>2 DEF makeRequest, out_onRead, Completion, out_onConnect, out_onWrite,
       out_onShutdown, out_onClose, TornWrite, LostShutdown
  <2>3. Answered(s, reads[c]) /\ reads = [reads EXCEPT ![c] = reads[c]]
    BY <2>1, <2>2 DEF AllAnswered, TypeOK
  <2>4. ASSUME NEW t \in Stream, uv' = [uv EXCEPT ![c] = t], UNCHANGED reads,
               Answered(t, reads[c])
        PROVE  AllAnswered'
    BY <2>1, <2>2, <2>3, <2>4, OneAnswers
  <2>5. CASE makeRequest(c)
    <3>1. s.handle = "none" /\ reads[c] = 0 /\ UNCHANGED reads
      BY <2>3, <2>5 DEF makeRequest, Answered
    <3>2. PICK t \in Stream : uv' = [uv EXCEPT ![c] = t] /\ t.handle = "init"
      BY <2>1, <2>5, <3>1, ConnectStarts DEF makeRequest
    <3> QED
      BY <2>4, <3>1, <3>2 DEF Answered
  <2>6. CASE out_onConnect(c)
    <3> DEFINE e == Complete(s, "connect")
               r == ReadStart(Attach(e))
    <3>1. /\ s.handle = "init" /\ e \in Stream /\ e.handle = "init"
          /\ e.pending = {} /\ ~e.reading
      BY <2>1, <2>6, ConnectEnds DEF out_onConnect
    <3>2. reads[c] = 0 /\ UNCHANGED reads
      BY <2>3, <2>6, <3>1 DEF out_onConnect, Answered
    <3>3. /\ Attach(e) \in Stream /\ Attach(e).handle = "open"
          /\ Overwrite(r) \in Stream /\ Overwrite(r).handle = "open"
          /\ Write(Overwrite(r)) \in Stream /\ Write(Overwrite(r)).handle = "open"
      BY <3>1, WriteStarts
    <3>4. Attach(e).writable /\ r \in Stream /\ r.writable
      BY <3>1, StreamType DEF Stream, Attach, ReadStart
    <3>5. Overwrite(r).writable
      BY <3>4 DEF Stream, Overwrite
    <3>6. Write(Overwrite(r)).writable
      BY <3>3, <3>5, WriteFields
    <3>7. \E t \in {e, Attach(e), Overwrite(r), Write(Overwrite(r))} :
              uv' = [uv EXCEPT ![c] = t]
      BY <2>6 DEF out_onConnect
    <3> HIDE DEF e, r
    <3>8. \A t \in {e, Attach(e), Overwrite(r), Write(Overwrite(r))} :
              t \in Stream /\ Answered(t, reads[c])
      BY <3>1, <3>2, <3>3, <3>4, <3>5, <3>6 DEF Answered
    <3> QED
      BY <2>4, <3>2, <3>7, <3>8
  <2>7. CASE out_onRead(c)
    <3>1. s.handle = "open" /\ ReadReady(s)
      BY <2>7 DEF out_onRead, ReadReady
    <3>2. CASE Receives(c)
      <4>1. CASE crash' = "uncaught exception"
        BY <4>1 DEF AllAnswered, Up
      <4>2. CASE crash' = crash
        <5>1. uv' = [uv EXCEPT ![c] = Finish(s)] \/ crash' = "uncaught exception"
          BY <3>2 DEF Receives
        <5>2. uv' = [uv EXCEPT ![c] = Finish(s)]
          BY <2>2, <4>2, <5>1 DEF Up
        <5>3. reads[c] + 1 \in Nat
          BY <2>1
        <5>4. reads' = [reads EXCEPT ![c] = reads[c] + 1]
          BY <3>2 DEF Receives
        <5>5. Finish(s) \in Stream /\ Answered(Finish(s), reads[c] + 1)
          BY <2>1, <2>3, <3>1, <5>3, ReadSound, FinishAnswers
        <5> QED
          BY <2>1, <2>2, <5>2, <5>4, <5>5, OneAnswers
      <4> QED
        BY <3>2, <4>1, <4>2 DEF Receives
    <3>3. CASE Ends(c)
      <4>1. PICK t \in {Finish(ReadStop(s)), Overwrite(ReadStop(s))} :
                uv' = [uv EXCEPT ![c] = t]
        BY <3>3 DEF Ends
      <4>2. t \in Stream /\ Answered(t, reads[c]) /\ UNCHANGED reads
        BY <2>1, <2>3, <3>1, <3>3, EndSound, EndAnswers DEF Ends
      <4> QED
        BY <2>4, <4>1, <4>2
    <3> QED
      BY <2>7, <3>2, <3>3 DEF out_onRead
  <2>8. CASE out_onWrite(c)
    <3> DEFINE t == Complete(s, "write")
    <3>1. t \in Stream /\ s.handle = "open" /\ t.handle = s.handle
      BY <2>1, <2>8, WriteEnds DEF out_onWrite, WriteDone, Sound, Stream, Handles
    <3>2. /\ t.writable = s.writable /\ t.torn = s.torn
          /\ "shutdown" \in s.pending => "shutdown" \in t.pending
      BY <2>1 DEF Stream, Complete
    <3>3. uv' = [uv EXCEPT ![c] = t] /\ UNCHANGED reads
      BY <2>8 DEF out_onWrite
    <3> HIDE DEF t
    <3>4. Answered(t, reads[c])
      BY <2>3, <3>1, <3>2 DEF Answered
    <3> QED
      BY <2>4, <3>1, <3>3, <3>4
  <2>9. CASE out_onShutdown(c)
    <3> DEFINE t == Close(Complete(s, "shutdown"))
    <3>1. t \in Stream /\ t.handle = "closing"
          /\ uv' = [uv EXCEPT ![c] = t] /\ UNCHANGED reads
      BY <2>1, <2>9, ShutdownEnds DEF out_onShutdown, CloseHandle
    <3> QED
      BY <2>4, <3>1 DEF Answered
  <2>10. CASE LostShutdown(c)
    <3> DEFINE t == Complete(s, "shutdown")
    <3>1. t \in Stream /\ t.handle = "open"
          /\ uv' = [uv EXCEPT ![c] = t] /\ UNCHANGED reads
      BY <2>1, <2>10, ShutdownEnds DEF LostShutdown, Sound, ShutdownDone, Stream, Handles
    <3>2. t.torn
      BY <2>1, <2>10 DEF LostShutdown, Stream, Complete
    <3> QED
      BY <2>4, <3>1, <3>2 DEF Answered
  <2>11. CASE out_onClose(c)
    <3>1. Deleted(s) \in Stream /\ Deleted(s).handle = "closed"
          /\ uv' = [uv EXCEPT ![c] = Deleted(s)] /\ UNCHANGED reads
      BY <2>1, <2>11, CloseEnds DEF out_onClose
    <3> QED
      BY <2>4, <3>1 DEF Answered
  <2>12. CASE TornWrite(c)
    BY <2>12 DEF TornWrite, AllAnswered, Up
  <2> QED
    BY <1>2, <2>5, <2>6, <2>7, <2>8, <2>9, <2>10, <2>11, <2>12 DEF Completion
<1> QED
  BY <1>1, <1>2 DEF Next

-----------------------------------------------------------------------------
(* The bytes of a request are kept only while libuv writes them.            *)

LEMMA OneHolds ==
    ASSUME TypeOK, Held, NEW c \in Conns, NEW t \in Stream, NEW b,
           uv' = [uv EXCEPT ![c] = t], base' = [base EXCEPT ![c] = b],
           b = "live" => "write" \in t.pending
    PROVE  Held'
<1>1. uv \in [Conns -> Stream] /\ base \in [Conns -> Bases]
  BY DEF TypeOK
<1> QED
  BY <1>1 DEF Held

LEMMA StepHolds ==
    ASSUME "uv_write" \notin Failures, IInv, Held, [Next]_vars
    PROVE  Held'
<1>1. CASE UNCHANGED vars
  BY <1>1 DEF vars, Held
<1>2. ASSUME NEW c \in Conns, makeRequest(c) \/ out_onRead(c) \/ Completion(c)
      PROVE  Held'
  <2> DEFINE s == uv[c]
  <2>1. TypeOK /\ s \in Stream /\ Sound(s, base[c])
    BY DEF IInv, TypeOK, AllSound
  <2>2. /\ base[c] = "live" => "write" \in s.pending
        /\ base = [base EXCEPT ![c] = base[c]]
    BY <2>1 DEF Held, TypeOK
  <2>3. ASSUME NEW t \in Stream, uv' = [uv EXCEPT ![c] = t], UNCHANGED base,
               "write" \in s.pending => "write" \in t.pending
        PROVE  Held'
    BY <2>1, <2>2, <2>3, OneHolds
  <2>4. CASE makeRequest(c)
    <3>1. "write" \notin s.pending /\ UNCHANGED base
      BY <2>1, <2>4 DEF makeRequest, Sound
    <3>2. PICK t \in Stream : uv' = [uv EXCEPT ![c] = t]
      BY <2>1, <2>4, ConnectStarts DEF makeRequest
    <3> QED
      BY <2>3, <3>1, <3>2
  <2>5. CASE out_onConnect(c)
    <3> DEFINE e == Complete(s, "connect")
               w == Write(Overwrite(ReadStart(Attach(e))))
    <3>1. /\ s.handle = "init" /\ e \in Stream /\ e.handle = "init"
          /\ e.pending = {} /\ ~e.reading
      BY <2>1, <2>5, ConnectEnds DEF out_onConnect
    <3>2. Attach(e) \in Stream /\ w \in Stream /\ w.pending = {"write"}
      BY <3>1, WriteStarts
    <3>3. base[c] # "live"
      BY <2>1, <2>2, <3>1 DEF Sound
    <3>4. \/ uv' = [uv EXCEPT ![c] = e] /\ UNCHANGED base
          \/ uv' = [uv EXCEPT ![c] = Attach(e)] /\ UNCHANGED base
          \/ uv' = [uv EXCEPT ![c] = w] /\ base' = [base EXCEPT ![c] = "live"]
      BY <2>5 DEF out_onConnect
    <3> HIDE DEF e, w
    <3> QED
      BY <2>1, <2>2, <3>1, <3>2, <3>3, <3>4, OneHolds
  <2>6. CASE out_onRead(c)
    <3>1. UNCHANGED base /\ ReadReady(s)
      BY <2>6 DEF out_onRead, Receives, Ends
    <3>2. CASE UNCHANGED uv
      BY <3>1, <3>2 DEF Held
    <3>3. ReadStop(s) \in Stream /\ ReadStop(s).pending = s.pending
      BY <2>1, StreamType DEF Stream, ReadStop
    <3>4. PICK o \in {s, ReadStop(s)} :
              UNCHANGED uv \/ \E t \in {Finish(o), Overwrite(o)} : uv' = [uv EXCEPT ![c] = t]
      BY <2>6 DEF out_onRead, Receives, Ends
    <3>5. o \in Stream /\ o.pending = s.pending
      BY <2>1, <3>3, <3>4
    <3>6. \A t \in {Finish(o), Overwrite(o)} : t \in Stream /\ o.pending \subseteq t.pending
      BY <3>5, FinishKeeps
    <3> QED
      BY <2>3, <3>1, <3>2, <3>4, <3>5, <3>6
  <2>7. CASE out_onWrite(c)
    <3>1. Complete(s, "write") \in Stream
      BY <2>1, <2>7, WriteEnds DEF out_onWrite
    <3> QED
      BY <2>1, <2>7, <3>1, OneHolds DEF out_onWrite
  <2>8. CASE out_onShutdown(c) \/ LostShutdown(c)
    <3> DEFINE t == Complete(s, "shutdown")
    <3>1. /\ t \in Stream /\ CanClose(t) /\ Close(t) \in Stream
          /\ "write" \notin s.pending
      BY <2>1, <2>8, ShutdownEnds DEF out_onShutdown, LostShutdown, ShutdownDone
    <3>2. /\ uv' = [uv EXCEPT ![c] = t] \/ uv' = [uv EXCEPT ![c] = Close(t)]
          /\ UNCHANGED base
      BY <2>8, <3>1 DEF out_onShutdown, LostShutdown, CloseHandle
    <3> QED
      BY <2>3, <3>1, <3>2
  <2>9. CASE out_onClose(c)
    <3>1. /\ Deleted(s) \in Stream /\ base[c] = "null"
          /\ uv' = [uv EXCEPT ![c] = Deleted(s)]
      BY <2>1, <2>9, CloseEnds DEF out_onClose
    <3> QED
      BY <2>1, <2>2, <2>9, <3>1, OneHolds DEF out_onClose
  <2>10. CASE TornWrite(c)
    BY <2>10 DEF TornWrite, Held
  <2> QED
    BY <1>2, <2>4, <2>5, <2>6, <2>7, <2>8, <2>9, <2>10 DEF Completion
<1> QED
  BY <1>1, <1>2 DEF Next

-----------------------------------------------------------------------------
LEMMA ClientInvInit == ClientInit => CInv
<1> SUFFICES ASSUME ClientInit PROVE CInv
  OBVIOUS
<1>1. IInv /\ TypeOK
  BY InitSafe DEF ClientInit, IInv
<1>2. ClientTypeOK /\ Calling
  BY <1>1, LookupsAssumption
  DEF ClientInit, ClientTypeOK, LookupStates, Places, Calling
<1>3. AllAnswered /\ Held
  BY DEF ClientInit, Init, AllAnswered, Answered, Absent, Held
<1> QED
  BY <1>1, <1>2, <1>3 DEF CInv, Kept

LEMMA ClientInvStep == CInv /\ [ClientNext]_cvars => CInv'
<1> SUFFICES ASSUME CInv, [ClientNext]_cvars PROVE CInv'
  OBVIOUS
<1>1. IInv /\ AllAnswered /\ Kept /\ Calling
      /\ lookup \in [Lookups -> LookupStates] /\ at \in Places
  BY DEF CInv, ClientTypeOK
<1>2. IInv' /\ TypeOK'
  BY <1>1, ClientStepSafe DEF IInv
<1>3. [Next]_vars \/ Thrown
  BY ClientSteps DEF cvars, vars
<1>4. AllAnswered'
  <2>1. Thrown => AllAnswered'
    BY DEF Thrown, AllAnswered, Up
  <2> QED
    BY <1>1, <1>3, <2>1, StepAnswers
<1>5. Kept'
  <2>1. Thrown => Kept'
    BY <1>1 DEF Thrown, Kept, Held
  <2> QED
    BY <1>1, <1>3, <2>1, StepHolds DEF Kept
<1>6. ClientTypeOK' /\ Calling'
  BY <1>1, <1>2, LookupStep DEF ClientTypeOK
<1> QED
  BY <1>2, <1>4, <1>5, <1>6 DEF CInv

LEMMA ClientInvHolds == ClientSpec => []CInv
BY ClientInvInit, ClientInvStep, PTL DEF ClientSpec

(* The thread is the program's, the loop's or a callback's, and a lookup is *)
(* in one of the states its object has, next to the connections' types.     *)
THEOREM ClientTypeCorrect == ClientSpec => []ClientTypeOK
<1>1. CInv => ClientTypeOK
  BY DEF CInv
<1> QED
  BY <1>1, ClientInvHolds, PTL

(* What run() leaves behind for ever, where uv_write does not fail: torn    *)
(* connections, connections that never received anything, failed lookups.   *)
(* Everything else is deleted, and the bytes of every request are freed.    *)
THEOREM ClientReturnReleases ==
    ASSUME "uv_write" \notin Failures
    PROVE  ClientSpec => ReturnReleases
<1> DEFINE Left ==
        /\ \A c \in Conns :
              /\ Abandoned(c) => uv[c].torn \/ (reads[c] = 0 /\ called[c] = 0)
              /\ base[c] # "live"
        /\ \A l \in Lookups : lookup[l] \in {"none", "freed", "leaked"}
<1>1. ASSUME CInv, ClientNext, at = "loop", at' = "main" PROVE Left
  <2>1. ReturnFromRun
    <3>1. ASSUME NEW l \in Lookups, AddressHandled(l) \/ onAddress(l) \/ makeDNSLookup(l)
          PROVE  FALSE
      BY <1>1, <3>1, LookupsAssumption
      DEF AddressHandled, onAddress, makeDNSLookup, InProgram
    <3>2. ASSUME NEW c \in Conns, Requests(c) \/ Completes(c) \/ Reads(c)
          PROVE  FALSE
      BY <1>1, <3>2 DEF Requests, Completes, Reads, InProgram
    <3>3. ~run /\ ~Destroy /\ ~AnswerHandled
      BY <1>1 DEF run, Destroy, AnswerHandled
    <3> QED
      BY <1>1, <3>1, <3>2, <3>3 DEF ClientNext, Loop, Returning
  <2>2. /\ Up
        /\ \A c \in Conns : uv[c].pending = {} /\ uv[c].handle # "closing"
        /\ \A l \in Lookups : lookup[l] # "working"
    BY <2>1 DEF ReturnFromRun, InLoop, Alive, Busy
  <2>3. ASSUME NEW c \in Conns
        PROVE  /\ Abandoned(c) => uv[c].torn \/ (reads[c] = 0 /\ called[c] = 0)
               /\ base[c] # "live"
    <3>1. Answered(uv[c], reads[c])
      BY <1>1, <2>2 DEF CInv, AllAnswered
    <3>2. called[c] <= reads[c] /\ called[c] \in Nat /\ reads[c] \in Nat
      BY <1>1, OutAssumption DEF CInv, IInv, TypeOK, CalledOnReads
    <3>3. Abandoned(c) => uv[c].torn \/ reads[c] = 0
      BY <2>2, <3>1 DEF Abandoned, Answered
    <3>4. base[c] # "live"
      BY <1>1, <2>2 DEF CInv, Kept, Held
    <3> QED
      BY <3>2, <3>3, <3>4
  <2>4. ASSUME NEW l \in Lookups PROVE lookup[l] \in {"none", "freed", "leaked"}
    <3>1. lookup[l] \in LookupStates /\ lookup[l] # "calling"
      BY <1>1, LookupsAssumption DEF CInv, ClientTypeOK, Calling
    <3> QED
      BY <2>2, <3>1 DEF LookupStates
  <2> QED
    BY <2>3, <2>4
<1>2. CInv /\ [ClientNext]_cvars => [at = "loop" /\ at' = "main" => Left]_cvars
  BY <1>1
<1> QED
  BY <1>2, ClientInvHolds, PTL DEF ClientSpec, ReturnReleases

-----------------------------------------------------------------------------
(* Refinement.                                                              *)

(* A lookup's callback that throws takes the process down, and every object *)
(* with it.                                                                 *)
LEMMA ClientStepObject ==
    ASSUME Conns # {}
    PROVE  IInv /\ [ClientNext]_cvars => [Object!Next]_Object!vars
<1>1. ASSUME Thrown PROVE Object!Next
  <2>1. PICK c \in Conns : TRUE
    OBVIOUS
  <2>2. Object!Step(c)
    BY <1>1 DEF Thrown, Object!Step
  <2>3. Up /\ Up' \in BOOLEAN
    BY <1>1 DEF Thrown, Up
  <2> QED
    BY <2>2, <2>3 DEF Object!Next
<1>2. [ClientNext]_cvars => [Next]_vars \/ Thrown
  BY ClientSteps DEF cvars, vars
<1> QED
  BY <1>1, <1>2, StepObject

(* The connections of a program that makes any requests at all are objects  *)
(* created, used, closed and deleted in that order, each once; lookups and  *)
(* what their callbacks ask for change nothing of that.                     *)
THEOREM ClientImplementsObject ==
    ASSUME Conns # {}
    PROVE  ClientSpec => ImplementsObject
<1>1. ClientInit => Object!Init
  BY InitObject DEF ClientInit
<1> QED
  BY <1>1, ClientStepObject, ClientSafe, PTL
  DEF ClientSpec, ImplementsObject, Object!Spec
=============================================================================
