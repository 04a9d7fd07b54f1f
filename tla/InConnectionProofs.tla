------------------------- MODULE InConnectionProofs -------------------------
(***************************************************************************)
(* Theorems about InConnection for any set of connections, any scripts and *)
(* any bounds.                                                             *)
(*                                                                         *)
(* The argument: while the process is up, the requests libuv holds are     *)
(* confined to open handles, and a union that carries two of them is torn, *)
(* which the next callback of the write turns into a crash or into a close *)
(* that never completes.  So the callback of an intact request that closes *)
(* a handle finds it open, with nothing else outstanding.                  *)
(***************************************************************************)
EXTENDS InConnection, UvStreamProofs

(* The states of a union and its handle between two callbacks.              *)
Sound(s) ==
    /\ s.pending \subseteq {"write", "shutdown"}
    /\ s.handle # "open" => ~s.reading
    /\ s.handle = "closing" => s.pending = {} \/ (s.torn /\ s.pending = {"write"})
    /\ s.handle \notin {"open", "closing"} => s.pending = {}
    /\ {"write", "shutdown"} \subseteq s.pending => s.torn
    /\ s.torn => "write" \in s.pending
    /\ "shutdown" \in s.pending => ~s.reading

UnionSound == \A c \in Conns : Sound(uv[c])

(* What the handler has been told, by the stage the connection is in.       *)
Answered(c) ==
    /\ uv[c].handle = "none" => seen[c] = <<>> /\ res[c] = NewResponse
    /\ uv[c].handle = "init" => seen[c] = <<>> /\ res[c] = NewResponse
    /\ uv[c].handle = "open" /\ "write" \notin uv[c].pending =>
           seen[c] = <<>> /\ res[c] = NewResponse
    /\ "write" \in uv[c].pending =>
           /\ out[c] = res[c] /\ Len(seen[c]) > 0
           /\ ~uv[c].torn => Len(seen[c]) = 1
           /\ "shutdown" \notin uv[c].pending /\ uv[c].torn => Len(seen[c]) > 1
           /\ Len(seen[c]) = 1 => out[c].clen = out[c].len
           /\ out[c].clen \in 0..out[c].len
    /\ uv[c].handle = "closing" /\ seen[c] # <<>> => base[c] = "live"
    /\ uv[c].handle = "closed" /\ seen[c] # <<>> => base[c] = "freed"

AnswerSound == Up => \A c \in Conns : Answered(c)

IInv == TypeOK /\ UnionSound /\ WriteDataAlive

RInv == IInv /\ AnswerSound

-----------------------------------------------------------------------------
(* Type correctness.                                                        *)

(* Whatever parts a buffer holds, parsing it leaves a Request.              *)
LEMMA ParsedType ==
    ASSUME NEW r \in Request, NEW f \in Seq(Part)
    PROVE  Parsed(r, f) \in Request
<1>1. \A kind : OfKind(f, kind) \subseteq 1..Len(f)
  BY DEF OfKind, Consumed
<1>2. ASSUME NEW i \in 1..Len(f) PROVE f[i].id \in Ids
  <2>1. f[i] \in Part
    OBVIOUS
  <2> QED
    BY <2>1 DEF Part
<1>3. ASSUME NEW kind, NEW default \in Ids \cup {NoId}
      PROVE  LastId(f, kind, default) \in Ids \cup {NoId}
  <2>1. CASE Latest(OfKind(f, kind)) = {}
    BY <2>1 DEF LastId
  <2>2. CASE Latest(OfKind(f, kind)) # {}
    <3>1. PICK i : i \in Latest(OfKind(f, kind))
                   /\ LastId(f, kind, default) = f[i].id
      BY <2>2 DEF LastId
    <3>2. i \in 1..Len(f)
      BY <3>1, <1>1 DEF Latest
    <3> QED
      BY <3>1, <3>2, <1>2
  <2> QED
    BY <2>1, <2>2
<1>4. /\ {f[i].id : i \in OfKind(f, "headers")} \subseteq Ids
      /\ {f[i].id : i \in {j \in OfKind(f, "headers") : f[j].more}} \subseteq Ids
      /\ {f[i].id : i \in OfKind(f, "body")} \subseteq Ids
  BY <1>1, <1>2
<1>5. /\ r.url \in Ids \cup {NoId} /\ r.method \in Ids \cup {NoId}
      /\ r.headers \subseteq Ids /\ r.announced \subseteq Ids
      /\ r.body \subseteq Ids
  BY DEF Request
<1>6. /\ LastId(f, "line", r.url) \in Ids \cup {NoId}
      /\ LastId(f, "headers", r.method) \in Ids \cup {NoId}
  BY <1>3, <1>5
<1> QED
  BY <1>4, <1>5, <1>6 DEF Parsed, Request

LEMMA NewRequestType == NewRequest \in Request
BY DEF NewRequest, Request

LEMMA ResponseType ==
    /\ NewResponse \in Response
    /\ \A r \in Response, k \in 0..MaxBody : End(Handled(r, k)) \in Response
<1>1. NewResponse \in Response
  BY DEF NewResponse, Response, NoLength
<1>2. ASSUME NEW r \in Response, NEW k \in 0..MaxBody
      PROVE  End(Handled(r, k)) \in Response
  <2>1. Handled(r, k) \in Response
    BY BoundsAssumption DEF Handled, Response, NoLength
  <2> QED
    BY <2>1 DEF End, Response, NoLength
<1> QED
  BY <1>1, <1>2

LEMMA InitType == Init => TypeOK
<1> SUFFICES ASSUME Init PROVE TypeOK
  OBVIOUS
<1>1. uv \in [Conns -> Stream]
  BY AbsentType DEF Init
<1>2. wire \in [Conns -> Seq(Part)]
  BY ScriptsAssumption DEF Init
<1>3. req \in [Conns -> Request] /\ seen \in [Conns -> Seq(Request)]
  BY NewRequestType DEF Init
<1>4. res \in [Conns -> Response] /\ out \in [Conns -> Response]
  BY ResponseType DEF Init
<1> QED
  BY <1>1, <1>2, <1>3, <1>4 DEF Init, TypeOK, Bases, Crashes

(* The callbacks that close a handle.                                       *)
LEMMA CloseHandleType ==
    ASSUME TypeOK, NEW c \in Conns, NEW s \in Stream, CloseHandle(c, s)
    PROVE  uv' \in [Conns -> Stream] /\ crash' \in Crashes
BY StreamType DEF CloseHandle, TypeOK, Crashes

LEMMA DeliversType ==
    ASSUME TypeOK, NEW c \in Conns, NEW n \in 0..Len(wire[c]), Delivers(c, n)
    PROVE  /\ wire' \in [Conns -> Seq(Part)]
           /\ req' \in [Conns -> Request]
           /\ req'[c] \in Request
<1>1. wire[c] \in Seq(Part) /\ req[c] \in Request
  BY DEF TypeOK
<1>2. /\ SubSeq(wire[c], n + 1, Len(wire[c])) \in Seq(Part)
      /\ SubSeq(wire[c], 1, n) \in Seq(Part)
  BY <1>1
<1>3. Parsed(req[c], SubSeq(wire[c], 1, n)) \in Request
  BY <1>1, <1>2, ParsedType
<1> QED
  BY <1>2, <1>3 DEF Delivers, TypeOK

LEMMA ReadType ==
    ASSUME TypeOK, NEW c \in Conns, in_onRead(c)
    PROVE  TypeOK'
<1>1. uv[c] \in Stream /\ res[c] \in Response /\ seen[c] \in Seq(Request)
  BY DEF TypeOK
<1>2. CASE Rejects(c)
  <2>1. PICK n \in 0..Len(wire[c]) :
          Delivers(c, n) /\ UNCHANGED <<uv, ending, res, out, base, seen, crash>>
    BY <1>2 DEF Rejects
  <2> QED
    BY <2>1, DeliversType DEF TypeOK
<1>3. CASE Serves(c)
  <2>1. PICK n \in 0..Len(wire[c]), k \in 0..MaxBody :
          /\ Delivers(c, n)
          /\ seen' = [seen EXCEPT ![c] = Append(@, req'[c])]
          /\ Respond(c, k)
          /\ UNCHANGED <<ending, crash>>
    BY <1>3 DEF Serves
  <2>2. wire' \in [Conns -> Seq(Part)] /\ req' \in [Conns -> Request]
        /\ req'[c] \in Request
    BY <2>1, DeliversType
  <2>3. seen' \in [Conns -> Seq(Request)]
    <3>1. Append(seen[c], req'[c]) \in Seq(Request)
      BY <2>2, <1>1
    <3>2. seen \in [Conns -> Seq(Request)]
      BY DEF TypeOK
    <3> QED
      BY <2>1, <3>1, <3>2
  <2>4. End(Handled(res[c], k)) \in Response
    BY <1>1, ResponseType
  <2>5. res' \in [Conns -> Response] /\ out' \in [Conns -> Response]
    BY <2>1, <2>4 DEF Respond, TypeOK
  <2>6. uv' \in [Conns -> Stream]
    BY <2>1, <1>1, WriteType DEF Respond, TypeOK
  <2>7. base' \in [Conns -> Bases]
    BY <2>1 DEF Respond, TypeOK, Bases
  <2> QED
    BY <2>1, <2>2, <2>3, <2>5, <2>6, <2>7 DEF TypeOK
<1>4. CASE Throws(c)
  <2>1. PICK n \in 0..Len(wire[c]) :
          /\ Delivers(c, n)
          /\ seen' = [seen EXCEPT ![c] = Append(@, req'[c])]
          /\ crash' = "uncaught exception"
          /\ UNCHANGED <<uv, ending, res, out, base>>
    BY <1>4 DEF Throws
  <2>2. wire' \in [Conns -> Seq(Part)] /\ req' \in [Conns -> Request]
        /\ req'[c] \in Request
    BY <2>1, DeliversType
  <2>3. seen' \in [Conns -> Seq(Request)]
    <3>1. Append(seen[c], req'[c]) \in Seq(Request)
      BY <2>2, <1>1
    <3>2. seen \in [Conns -> Seq(Request)]
      BY DEF TypeOK
    <3> QED
      BY <2>1, <3>1, <3>2
  <2> QED
    BY <2>1, <2>2, <2>3 DEF TypeOK, Crashes
<1>5. CASE ReadsEof(c) \/ ReadsError(c)
  <2>1. /\ ReadStop(uv[c]) \in Stream
        /\ Shutdown(ReadStop(uv[c])) \in Stream
    BY <1>1, StreamType, WriteType
  <2> QED
    BY <2>1, <1>5 DEF ReadsEof, ReadsError, TypeOK
<1> QED
  BY <1>2, <1>3, <1>4, <1>5 DEF in_onRead

LEMMA StepType == TypeOK /\ [Next]_vars => TypeOK'
<1> SUFFICES ASSUME TypeOK, [Next]_vars PROVE TypeOK'
  OBVIOUS
<1>1. CASE UNCHANGED vars
  BY <1>1 DEF vars, TypeOK
<1>2. ASSUME NEW c \in Conns, in_onConnect(c) PROVE TypeOK'
  <2>1. uv[c] \in Stream
    BY DEF TypeOK
  <2>2. /\ TcpInit(uv[c]) \in Stream
        /\ Attach(TcpInit(uv[c])) \in Stream
        /\ ReadStart(Attach(TcpInit(uv[c]))) \in Stream
        /\ Shutdown(Overwrite(TcpInit(uv[c]))) \in Stream
    BY <2>1, StreamType, WriteType
  <2> QED
    BY <1>2, <2>2 DEF in_onConnect, TypeOK
<1>3. ASSUME NEW c \in Conns, in_onRead(c) PROVE TypeOK'
  BY <1>3, ReadType
<1>4. ASSUME NEW c \in Conns, in_onWrite(c) \/ in_onShutdown(c) PROVE TypeOK'
  <2>1. uv[c] \in Stream
    BY DEF TypeOK
  <2>2. Complete(uv[c], "write") \in Stream /\ Complete(uv[c], "shutdown") \in Stream
    BY <2>1, RequestType DEF ReqKinds
  <2>3. uv' \in [Conns -> Stream] /\ crash' \in Crashes
    BY <1>4, <2>2, CloseHandleType DEF in_onWrite, in_onShutdown
  <2> QED
    BY <1>4, <2>3 DEF in_onWrite, in_onShutdown, TypeOK
<1>5. ASSUME NEW c \in Conns, in_onClose(c) PROVE TypeOK'
  <2>1. uv' \in [Conns -> Stream]
    BY <1>5, StreamType DEF in_onClose, TypeOK
  <2>2. base' \in [Conns -> Bases] /\ crash' \in Crashes
    BY <1>5 DEF in_onClose, TypeOK, Bases, Crashes
  <2> QED
    BY <1>5, <2>1, <2>2 DEF in_onClose, TypeOK
<1>6. ASSUME NEW c \in Conns, TornWrite(c) PROVE TypeOK'
  BY <1>6 DEF TornWrite, TypeOK, Crashes
<1>7. ASSUME NEW c \in Conns, ResentWrite(c) PROVE TypeOK'
  <2>1. uv[c] \in Stream
    BY DEF TypeOK
  <2>2. uv' \in [Conns -> Stream] /\ crash' \in Crashes
    BY <1>7, <2>1, CloseHandleType DEF ResentWrite
  <2> QED
    BY <1>7, <2>2 DEF ResentWrite, TypeOK
<1> QED
  BY <1>1, <1>2, <1>3, <1>4, <1>5, <1>6, <1>7 DEF Next, Completion

(* Every variable keeps its type: the state of a connection never leaves    *)
(* the cases server-in.cpp is written for.                                  *)
THEOREM InTypeCorrect == Spec => []TypeOK
BY InitType, StepType, PTL DEF Spec

-----------------------------------------------------------------------------
(* The union and its handle.                                                *)

LEMMA SoundFresh ==
    ASSUME NEW s \in Stream, Sound(s), s.handle = "none"
    PROVE  \A t \in {Shutdown(Overwrite(TcpInit(s))), Attach(TcpInit(s)),
                     ReadStart(Attach(TcpInit(s)))} :
               Sound(t) /\ t.pending = {}
<1> DEFINE Fresh(t) == Sound(t) /\ t.pending = {}
<1>1. Shutdown(Overwrite(TcpInit(s))) = Overwrite(TcpInit(s))
  BY DEF Stream, Shutdown, CanShutdown, Overwrite, TcpInit
<1>2. Fresh(Overwrite(TcpInit(s)))
  BY DEF Stream, Sound, Overwrite, TcpInit
<1>3. Fresh(Attach(TcpInit(s)))
  BY DEF Stream, Sound, Attach, TcpInit
<1>4. Fresh(ReadStart(Attach(TcpInit(s))))
  BY DEF Stream, Sound, Attach, TcpInit, ReadStart
<1> QED
  BY <1>1, <1>2, <1>3, <1>4

LEMMA SoundWrite ==
    ASSUME NEW s \in Stream, Sound(s), ReadReady(s)
    PROVE  Sound(Write(s))
BY WriteFields DEF Sound, ReadReady

LEMMA SoundEnd ==
    ASSUME NEW s \in Stream, Sound(s), ReadReady(s)
    PROVE  \A t \in {ReadStop(s), Shutdown(ReadStop(s))} :
               /\ Sound(t) /\ t.handle = "open"
               /\ "write" \in t.pending <=> "write" \in s.pending
               /\ s.torn => t.torn
               /\ "shutdown" \notin t.pending => (t.torn <=> s.torn)
<1> DEFINE t == ReadStop(s)
<1>1. /\ t \in Stream /\ Sound(t)
      /\ t.handle = "open" /\ ~t.reading
      /\ t.pending = s.pending /\ t.torn = s.torn
  BY DEF Stream, Sound, ReadStop, ReadReady
<1>2. t.pending \subseteq {"write"}
  BY <1>1 DEF Sound, ReadReady
<1>3. CASE CanShutdown(t)
  <2>1. /\ Shutdown(t).handle = t.handle
        /\ Shutdown(t).reading = t.reading
        /\ Shutdown(t).pending = t.pending \cup {"shutdown"}
        /\ Shutdown(t).torn = (t.torn \/ t.pending # {})
    BY <1>1, <1>3, ShutdownFields
  <2>2. Sound(Shutdown(t))
    BY <1>1, <1>2, <2>1 DEF Sound
  <2>3. /\ Shutdown(t).handle = "open"
        /\ "write" \in Shutdown(t).pending <=> "write" \in s.pending
        /\ s.torn => Shutdown(t).torn
        /\ "shutdown" \in Shutdown(t).pending
    BY <1>1, <2>1
  <2>4. /\ Sound(t) /\ t.handle = "open"
        /\ "write" \in t.pending <=> "write" \in s.pending
        /\ s.torn <=> t.torn
    BY <1>1
  <2> QED
    BY <2>2, <2>3, <2>4, Zenon
<1>4. CASE ~CanShutdown(t)
  <2>1. Shutdown(t) = t
    BY <1>4 DEF Shutdown
  <2> QED
    BY <1>1, <2>1
<1> QED
  BY <1>3, <1>4

(* The callback of an intact request finds nothing else outstanding.        *)
LEMMA SoundClose ==
    ASSUME NEW s \in Stream, Sound(s), NEW kind \in {"write", "shutdown"},
           kind = "write" => WriteDone(s),
           kind = "shutdown" => ShutdownDone(s),
           ~s.torn
    PROVE  /\ CanClose(Complete(s, kind))
           /\ Sound(Close(Complete(s, kind)))
           /\ Close(Complete(s, kind)).pending = {}
           /\ Close(Complete(s, kind)).handle = "closing"
<1>1. s.handle = "open" /\ s.pending = {kind}
  BY DEF Sound, WriteDone, ShutdownDone
<1> QED
  BY <1>1 DEF Stream, Sound, CanClose, Close, Complete

(* A write request used twice is closed and kept.                           *)
LEMMA SoundResent ==
    ASSUME NEW s \in Stream, Sound(s), WriteDone(s), s.torn,
           "shutdown" \notin s.pending
    PROVE  /\ s.pending = {"write"} /\ s.handle \in {"open", "closing"}
           /\ CanClose(s) => /\ s.handle = "open" /\ Sound(Close(s))
                             /\ Close(s).handle = "closing"
                             /\ Close(s).pending = s.pending
                             /\ Close(s).torn = s.torn
<1>1. s.pending = {"write"} /\ s.handle \in {"open", "closing"}
  BY DEF Sound, WriteDone, Stream
<1>2. CanClose(s) => s.handle = "open"
  BY <1>1 DEF CanClose
<1>3. /\ Close(s).handle = "closing" /\ Close(s).pending = s.pending
      /\ Close(s).torn = s.torn /\ ~Close(s).reading
  BY DEF Stream, Close
<1>4. Sound(Close(s))
  BY <1>1, <1>3 DEF Sound
<1> QED
  BY <1>1, <1>2, <1>3, <1>4

LEMMA SoundDeleted ==
    ASSUME NEW s \in Stream, Sound(s), CloseDone(s)
    PROVE  Sound(Deleted(s))
BY DEF Stream, Sound, CloseDone, Deleted

LEMMA InitSafe == Init => IInv
<1> SUFFICES ASSUME Init PROVE IInv
  OBVIOUS
<1>1. TypeOK
  BY InitType
<1>2. UnionSound
  BY DEF Init, UnionSound, Sound, Absent
<1>3. WriteDataAlive
  BY DEF Init, WriteDataAlive, Absent
<1> QED
  BY <1>1, <1>2, <1>3 DEF IInv

LEMMA StepSafe == IInv /\ [Next]_vars => IInv'
<1> SUFFICES ASSUME IInv, [Next]_vars PROVE IInv'
  OBVIOUS
<1> DEFINE Kept == UnionSound' /\ WriteDataAlive'
<1>1. TypeOK /\ UnionSound /\ WriteDataAlive
  BY DEF IInv
<1>2. TypeOK'
  BY <1>1, StepType
<1>3. uv \in [Conns -> Stream] /\ base \in [Conns -> Bases]
  BY <1>1 DEF TypeOK
<1>4. CASE UNCHANGED vars
  BY <1>1, <1>2, <1>4 DEF vars, IInv, UnionSound, Sound, WriteDataAlive
<1>5. ASSUME NEW c \in Conns, in_onConnect(c) PROVE Kept
  <2>1. PICK t : /\ uv' = [uv EXCEPT ![c] = t]
                 /\ Sound(t) /\ t.pending = {}
    BY <1>1, <1>3, <1>5, SoundFresh DEF in_onConnect, UnionSound
  <2>2. UnionSound'
    BY <1>1, <1>3, <2>1 DEF UnionSound
  <2>3. WriteDataAlive'
    BY <1>1, <1>3, <1>5, <2>1 DEF in_onConnect, WriteDataAlive
  <2> QED
    BY <2>2, <2>3
<1>6. ASSUME NEW c \in Conns, in_onRead(c) PROVE Kept
  <2>1. Sound(uv[c]) /\ uv[c] \in Stream /\ ReadReady(uv[c])
    BY <1>1, <1>3, <1>6 DEF UnionSound, in_onRead
  <2>2. CASE Rejects(c) \/ Throws(c)
    <3>1. UNCHANGED <<uv, base>>
      BY <2>2 DEF Rejects, Throws
    <3> QED
      BY <1>1, <3>1 DEF UnionSound, WriteDataAlive
  <2>3. CASE Serves(c)
    <3>1. /\ uv' = [uv EXCEPT ![c] = Write(@)]
          /\ base' = [base EXCEPT ![c] = "live"]
      BY <2>3 DEF Serves, Respond
    <3>2. UnionSound'
      BY <1>1, <1>3, <2>1, <3>1, SoundWrite DEF UnionSound
    <3>3. WriteDataAlive'
      BY <1>1, <1>3, <3>1 DEF WriteDataAlive
    <3> QED
      BY <3>2, <3>3
  <2>4. CASE ReadsEof(c) \/ ReadsError(c)
    <3>1. PICK t : /\ uv' = [uv EXCEPT ![c] = t]
                   /\ Sound(t)
                   /\ "write" \in t.pending <=> "write" \in uv[c].pending
      BY <2>1, <2>4, SoundEnd DEF ReadsEof, ReadsError
    <3>2. UNCHANGED base
      BY <2>4 DEF ReadsEof, ReadsError
    <3>3. UnionSound'
      BY <1>1, <1>3, <3>1 DEF UnionSound
    <3>4. WriteDataAlive'
      BY <1>1, <1>3, <3>1, <3>2 DEF WriteDataAlive
    <3> QED
      BY <3>3, <3>4
  <2> QED
    BY <1>6, <2>2, <2>3, <2>4 DEF in_onRead
<1>7. ASSUME NEW c \in Conns, NEW kind \in {"write", "shutdown"},
             kind = "write" => WriteDone(uv[c]),
             kind = "shutdown" => ShutdownDone(uv[c]),
             ~uv[c].torn,
             CloseHandle(c, Complete(uv[c], kind)), UNCHANGED base
      PROVE  Kept
  <2>1. /\ CanClose(Complete(uv[c], kind))
        /\ Sound(Close(Complete(uv[c], kind)))
        /\ Close(Complete(uv[c], kind)).pending = {}
    BY <1>1, <1>3, <1>7, SoundClose DEF UnionSound
  <2>2. uv' = [uv EXCEPT ![c] = Close(Complete(uv[c], kind))]
    BY <1>7, <2>1 DEF CloseHandle
  <2> QED
    BY <1>1, <1>3, <1>7, <2>1, <2>2 DEF UnionSound, WriteDataAlive
<1>8. ASSUME NEW c \in Conns, in_onWrite(c) \/ in_onShutdown(c) PROVE Kept
  BY <1>7, <1>8 DEF in_onWrite, in_onShutdown
<1>9. ASSUME NEW c \in Conns, in_onClose(c) PROVE Kept
  <2>1. uv' = [uv EXCEPT ![c] = Deleted(@)] /\ CloseDone(uv[c])
    BY <1>9 DEF in_onClose
  <2>2. Sound(Deleted(uv[c])) /\ Deleted(uv[c]).pending = {}
    BY <1>1, <1>3, <2>1, SoundDeleted DEF UnionSound, CloseDone, Deleted, Stream
  <2>3. \A d \in Conns : d # c => base'[d] = base[d]
    BY <1>3, <1>9 DEF in_onClose
  <2>4. UnionSound' /\ WriteDataAlive'
    BY <1>1, <1>3, <2>1, <2>2, <2>3 DEF UnionSound, WriteDataAlive
  <2> QED
    BY <2>4
<1>10. ASSUME NEW c \in Conns, TornWrite(c) PROVE Kept
  BY <1>1, <1>10 DEF TornWrite, UnionSound, WriteDataAlive
<1>11. ASSUME NEW c \in Conns, ResentWrite(c) PROVE Kept
  <2>1. PICK t : /\ uv' = [uv EXCEPT ![c] = t]
                 /\ Sound(t) /\ t.pending = uv[c].pending
    <3>1. uv[c] \in Stream /\ Sound(uv[c])
      BY <1>1, <1>3 DEF UnionSound
    <3> QED
      BY <1>11, <3>1, SoundResent DEF ResentWrite, CloseHandle
  <2>2. UnionSound'
    BY <1>1, <1>3, <2>1 DEF UnionSound
  <2>3. WriteDataAlive'
    BY <1>1, <1>3, <1>11, <2>1 DEF ResentWrite, WriteDataAlive
  <2> QED
    BY <2>2, <2>3
<1> QED
  BY <1>2, <1>4, <1>5, <1>6, <1>8, <1>9, <1>10, <1>11 DEF Next, Completion, IInv

(* IInv holds in every reachable state.                                     *)
LEMMA InSafe == Spec => []IInv
BY InitSafe, StepSafe, PTL DEF Spec

(* A Connection is deleted only when no request of its union and no read is *)
(* outstanding, so that no libuv callback is given a dangling conn pointer, *)
(* and closed so unless its write request was overwritten.                  *)
THEOREM InDeletedIsQuiet == Spec => []DeletedIsQuiet
<1>1. IInv => DeletedIsQuiet
  BY DEF IInv, UnionSound, Sound, DeletedIsQuiet
<1> QED
  BY <1>1, InSafe, PTL

(* The response buffer outlives every uv_write that points to it.           *)
THEOREM InWriteDataAlive == Spec => []WriteDataAlive
<1>1. IInv => WriteDataAlive
  BY DEF IInv
<1> QED
  BY <1>1, InSafe, PTL

(* The handler is never called on a connection that is shutting down,       *)
(* closing or deleted.                                                      *)
THEOREM InNoCallAfterEnd == Spec => NoCallAfterEnd
<1>1. ASSUME IInv, [Next]_vars, NEW c \in Conns, seen'[c] # seen[c]
      PROVE  uv[c].handle = "open" /\ "shutdown" \notin uv[c].pending
  <2>1. seen \in [Conns -> Seq(Request)] /\ Sound(uv[c])
    BY <1>1 DEF IInv, TypeOK, UnionSound
  <2>2. ReadReady(uv[c])
    BY <1>1, <2>1 DEF vars, Next, Completion, in_onConnect, in_onRead, Rejects,
       Serves, Throws, ReadsEof, ReadsError, in_onWrite, in_onShutdown,
       in_onClose, ResentWrite, TornWrite
  <2> QED
    BY <2>1, <2>2 DEF Sound, ReadReady
<1>2. IInv /\ [Next]_vars =>
        \A c \in Conns : seen'[c] # seen[c] =>
            uv[c].handle = "open" /\ "shutdown" \notin uv[c].pending
  BY <1>1
<1> QED
  BY <1>2, InSafe, PTL DEF Spec, NoCallAfterEnd

-----------------------------------------------------------------------------
(* The response.                                                            *)

LEMMA EndOfNew ==
    ASSUME NEW k \in 0..MaxBody
    PROVE  LET r == End(Handled(NewResponse, k)) IN r.clen = r.len /\ r.len \in Nat
<1>1. Handled(NewResponse, k) = [len |-> k, clen |-> NoLength]
  BY BoundsAssumption DEF Handled, NewResponse
<1> QED
  BY <1>1, BoundsAssumption DEF End

(* A response already rendered keeps its length while its body grows.       *)
LEMMA EndOfUsed ==
    ASSUME NEW r \in Response, r.clen \in 0..r.len, NEW k \in 0..MaxBody
    PROVE  LET t == End(Handled(r, k)) IN t.clen \in 0..t.len
<1> DEFINE h == Handled(r, k)
<1>1. h.len = r.len + k /\ h.clen = r.clen /\ h \in Response
  BY BoundsAssumption DEF Handled, Response, NoLength
<1> HIDE DEF h
<1>2. h.clen # NoLength
  BY <1>1 DEF NoLength
<1>3. End(h) = h
  BY <1>1, <1>2 DEF End, Response
<1>4. r.len \in Nat /\ k \in Nat
  BY BoundsAssumption DEF Response
<1>5. h.clen \in 0..h.len
  BY <1>1, <1>4
<1> QED
  BY <1>3, <1>5 DEF h

LEMMA InitAnswered == Init => AnswerSound
BY DEF Init, AnswerSound, Answered, Absent, NewResponse

(* Only connection c moves.                                                 *)
LEMMA OnlyOne ==
    ASSUME AnswerSound, Up, TypeOK, NEW c \in Conns, Answered(c)',
           \A d \in Conns \ {c} :
               /\ uv'[d] = uv[d] /\ seen'[d] = seen[d] /\ res'[d] = res[d]
               /\ out'[d] = out[d] /\ base'[d] = base[d]
    PROVE  AnswerSound'
<1>1. ASSUME NEW d \in Conns \ {c} PROVE Answered(d)'
  BY <1>1 DEF AnswerSound, Answered
<1> QED
  BY <1>1 DEF AnswerSound

LEMMA StepAnswered == RInv /\ [Next]_vars => AnswerSound'
<1> SUFFICES ASSUME RInv, [Next]_vars, Up' PROVE AnswerSound'
  BY DEF AnswerSound
<1>1. TypeOK /\ UnionSound /\ WriteDataAlive /\ AnswerSound
  BY DEF RInv, IInv
<1>2. /\ uv \in [Conns -> Stream] /\ seen \in [Conns -> Seq(Request)]
      /\ res \in [Conns -> Response] /\ out \in [Conns -> Response]
      /\ base \in [Conns -> Bases]
  BY <1>1 DEF TypeOK
<1>3. CASE UNCHANGED vars
  BY <1>1, <1>3 DEF vars, AnswerSound, Answered, Up
<1>4. ASSUME NEW c \in Conns, in_onConnect(c) PROVE AnswerSound'
  <2>1. Up /\ Answered(c) /\ Sound(uv[c]) /\ uv[c].handle = "none"
    BY <1>1, <1>4 DEF in_onConnect, AnswerSound, UnionSound
  <2>2. PICK t : /\ uv' = [uv EXCEPT ![c] = t]
                 /\ Sound(t) /\ t.pending = {} /\ t.handle \in {"init", "open"}
    <3>1. /\ Shutdown(Overwrite(TcpInit(uv[c]))).handle \in {"init", "open"}
          /\ Attach(TcpInit(uv[c])).handle \in {"init", "open"}
          /\ ReadStart(Attach(TcpInit(uv[c]))).handle \in {"init", "open"}
      BY <1>2 DEF Stream, Shutdown, CanShutdown, Overwrite, TcpInit, Attach, ReadStart
    <3> QED
      BY <1>2, <1>4, <2>1, <3>1, SoundFresh DEF in_onConnect
  <2>3. Answered(c)'
    BY <1>2, <1>4, <2>1, <2>2 DEF in_onConnect, Answered
  <2> QED
    BY <1>1, <1>2, <1>4, <2>1, <2>2, <2>3, OnlyOne DEF in_onConnect
<1>5. ASSUME NEW c \in Conns, in_onRead(c) PROVE AnswerSound'
  <2>1. /\ Up /\ Answered(c) /\ Sound(uv[c]) /\ uv[c] \in Stream
        /\ ReadReady(uv[c])
    BY <1>1, <1>2, <1>5 DEF in_onRead, AnswerSound, UnionSound
  <2>2. CASE Rejects(c)
    BY <1>1, <2>2 DEF Rejects, AnswerSound, Answered, Up
  <2>3. CASE Serves(c)
    <3>1. PICK k \in 0..MaxBody :
            /\ seen' = [seen EXCEPT ![c] = Append(@, req'[c])]
            /\ Respond(c, k)
      BY <2>3 DEF Serves
    <3>2. /\ uv' = [uv EXCEPT ![c] = Write(@)]
          /\ res' = [res EXCEPT ![c] = End(Handled(@, k))]
          /\ out' = [out EXCEPT ![c] = res'[c]]
          /\ base' = [base EXCEPT ![c] = "live"]
      BY <3>1 DEF Respond
    <3>3. /\ uv'[c].handle = "open" /\ "write" \in uv'[c].pending
          /\ uv'[c].torn = (uv[c].torn \/ uv[c].pending # {})
      <4>1. uv'[c] = Write(uv[c])
        BY <1>2, <3>2
      <4> QED
        BY <2>1, <4>1, WriteFields DEF ReadReady
    <3>4. out'[c] = res'[c] /\ res'[c] = End(Handled(res[c], k))
      BY <1>2, <3>2
    <3>5. Len(seen'[c]) = Len(seen[c]) + 1 /\ Len(seen[c]) \in Nat
      BY <1>2, <3>1
    <3>6. Answered(c)'
      <4>1. CASE "write" \notin uv[c].pending
        <5>1. seen[c] = <<>> /\ res[c] = NewResponse
          BY <2>1, <4>1 DEF Answered, ReadReady
        <5>2. Len(seen'[c]) = 1
          BY <3>5, <5>1
        <5>3. out'[c].clen = out'[c].len /\ out'[c].len \in Nat
          BY <3>4, <5>1, EndOfNew
        <5>4. out'[c].clen \in 0..out'[c].len
          BY <5>3
        <5>5. ~uv'[c].torn
          BY <2>1, <3>3, <4>1 DEF Sound, ReadReady
        <5> QED
          BY <3>3, <3>4, <5>2, <5>3, <5>4, <5>5 DEF Answered
      <4>2. CASE "write" \in uv[c].pending
        <5>1. out[c] = res[c] /\ Len(seen[c]) > 0 /\ out[c].clen \in 0..out[c].len
          BY <2>1, <4>2 DEF Answered
        <5>2. Len(seen'[c]) > 1 /\ Len(seen'[c]) > 0 /\ Len(seen'[c]) # 1
          BY <3>5, <5>1
        <5>3. out'[c].clen \in 0..out'[c].len
          BY <1>2, <3>4, <5>1, EndOfUsed
        <5>4. uv'[c].torn
          BY <3>3, <4>2
        <5> QED
          BY <3>3, <3>4, <5>2, <5>3, <5>4 DEF Answered
      <4> QED
        BY <4>1, <4>2
    <3> QED
      BY <1>1, <1>2, <2>1, <3>1, <3>2, <3>6, OnlyOne
  <2>4. CASE Throws(c)
    BY <2>4 DEF Throws, Up
  <2>5. CASE ReadsEof(c) \/ ReadsError(c)
    <3>1. PICK t : /\ uv' = [uv EXCEPT ![c] = t]
                   /\ t.handle = "open"
                   /\ "write" \in t.pending <=> "write" \in uv[c].pending
                   /\ uv[c].torn => t.torn
                   /\ "shutdown" \notin t.pending => (t.torn <=> uv[c].torn)
      BY <2>1, <2>5, SoundEnd DEF ReadsEof, ReadsError
    <3>2. UNCHANGED <<seen, res, out, base>>
      BY <2>5 DEF ReadsEof, ReadsError
    <3>3. uv'[c] = t
      BY <1>2, <3>1
    <3>4. "shutdown" \notin uv[c].pending
      BY <2>1 DEF Sound, ReadReady
    <3>5. Answered(c)'
      BY <2>1, <3>1, <3>2, <3>3, <3>4 DEF Answered, ReadReady
    <3> QED
      BY <1>1, <1>2, <2>1, <3>1, <3>2, <3>5, OnlyOne
  <2> QED
    BY <1>5, <2>2, <2>3, <2>4, <2>5 DEF in_onRead
<1>6. ASSUME NEW c \in Conns, NEW kind \in {"write", "shutdown"}, Up,
             kind = "write" => WriteDone(uv[c]),
             kind = "shutdown" => ShutdownDone(uv[c]),
             ~uv[c].torn, CloseHandle(c, Complete(uv[c], kind)),
             UNCHANGED <<seen, res, out, base>>
      PROVE  AnswerSound'
  <2>1. Answered(c) /\ Sound(uv[c]) /\ uv[c] \in Stream
    BY <1>1, <1>2, <1>6 DEF AnswerSound, UnionSound
  <2>2. /\ CanClose(Complete(uv[c], kind))
        /\ Close(Complete(uv[c], kind)).pending = {}
        /\ Close(Complete(uv[c], kind)).handle = "closing"
    BY <1>6, <2>1, SoundClose
  <2>3. uv' = [uv EXCEPT ![c] = Close(Complete(uv[c], kind))]
    BY <1>6, <2>2 DEF CloseHandle
  <2>4. seen[c] # <<>> => base[c] = "live"
    <3>1. CASE kind = "write"
      BY <1>1, <1>6, <3>1 DEF WriteDone, WriteDataAlive
    <3>2. CASE kind = "shutdown"
      BY <1>6, <2>1, <3>2 DEF ShutdownDone, Sound, Answered
    <3> QED
      BY <3>1, <3>2
  <2>5. Answered(c)'
    BY <1>2, <1>6, <2>2, <2>3, <2>4 DEF Answered
  <2> QED
    BY <1>1, <1>2, <1>6, <2>3, <2>5, OnlyOne
<1>7. ASSUME NEW c \in Conns, in_onWrite(c) \/ in_onShutdown(c) PROVE AnswerSound'
  BY <1>6, <1>7 DEF in_onWrite, in_onShutdown
<1>8. ASSUME NEW c \in Conns, in_onClose(c) PROVE AnswerSound'
  <2>1. Up /\ Answered(c) /\ uv[c].handle = "closing" /\ uv[c].pending = {}
    BY <1>1, <1>8 DEF in_onClose, AnswerSound, CloseDone
  <2>2. /\ uv'[c].handle = "closed" /\ uv'[c].pending = {}
    <3>1. uv'[c] = Deleted(uv[c]) /\ uv[c] \in Stream
      BY <1>2, <1>8 DEF in_onClose
    <3> QED
      BY <2>1, <3>1 DEF Deleted, Stream
  <2>3. seen[c] # <<>> => base'[c] = "freed"
    BY <1>2, <1>8, <2>1 DEF in_onClose, Answered
  <2>4. Answered(c)'
    BY <1>8, <2>2, <2>3 DEF in_onClose, Answered
  <2> QED
    BY <1>1, <1>2, <1>8, <2>1, <2>4, OnlyOne DEF in_onClose
<1>9. ASSUME NEW c \in Conns, TornWrite(c) PROVE AnswerSound'
  BY <1>9 DEF TornWrite, Up
<1>10. ASSUME NEW c \in Conns, ResentWrite(c) PROVE AnswerSound'
  <2>1. /\ Up /\ Answered(c) /\ Sound(uv[c]) /\ uv[c] \in Stream
        /\ UNCHANGED <<seen, res, out, base>> /\ base[c] = "live"
    BY <1>1, <1>2, <1>10 DEF ResentWrite, AnswerSound, UnionSound, WriteDataAlive, WriteDone
  <2>2. CanClose(uv[c]) /\ uv' = [uv EXCEPT ![c] = Close(uv[c])]
    BY <1>10 DEF ResentWrite, CloseHandle, Up
  <2>3. /\ uv'[c].handle = "closing" /\ uv'[c].pending = uv[c].pending
        /\ uv'[c].torn = uv[c].torn
    BY <1>2, <1>10, <2>1, <2>2, SoundResent DEF ResentWrite
  <2>4. Answered(c)'
    BY <2>1, <2>3 DEF Answered
  <2> QED
    BY <1>1, <1>2, <2>1, <2>2, <2>4, OnlyOne
<1> QED
  BY <1>3, <1>4, <1>5, <1>7, <1>8, <1>9, <1>10 DEF Next, Completion

LEMMA InResponse == Spec => []RInv
<1>1. Init => RInv
  BY InitSafe, InitAnswered DEF RInv
<1>2. RInv /\ [Next]_vars => RInv'
  BY StepSafe, StepAnswered DEF RInv
<1> QED
  BY <1>1, <1>2, PTL DEF Spec

(* An untorn write is the answer to the only call of the handler on its     *)
(* connection, with a true Content-Length; a write torn by further answers  *)
(* never announces more than the bytes it has.                              *)
THEOREM InResponseFramed == Spec => []ResponseFramed
<1>1. RInv => ResponseFramed
  BY DEF RInv, AnswerSound, Answered, ResponseFramed
<1> QED
  BY <1>1, InResponse, PTL

(* The step that closes a handle twice runs the callback of a write request *)
(* that carries two answers, and nothing runs after it.                     *)
LEMMA StepClosedOnce == RInv /\ ClosedOnce /\ [Next]_vars => ClosedOnce'
<1> SUFFICES ASSUME RInv, ClosedOnce, [Next]_vars, crash' = "double close"
             PROVE  ClosedOnce'
  BY DEF ClosedOnce
<1>1. TypeOK /\ UnionSound /\ AnswerSound /\ uv \in [Conns -> Stream]
  BY DEF RInv, IInv, TypeOK
<1>2. CASE UNCHANGED vars
  BY <1>2 DEF vars, ClosedOnce
<1>3. ASSUME NEW c \in Conns, NEW kind \in {"write", "shutdown"},
             kind = "write" => WriteDone(uv[c]),
             kind = "shutdown" => ShutdownDone(uv[c]),
             ~uv[c].torn, CloseHandle(c, Complete(uv[c], kind)), Up
      PROVE  FALSE
  <2>1. CanClose(Complete(uv[c], kind))
    BY <1>1, <1>3, SoundClose DEF UnionSound
  <2> QED
    BY <1>3, <2>1 DEF CloseHandle, Up
<1>4. ASSUME NEW c \in Conns, in_onWrite(c) \/ in_onShutdown(c) PROVE FALSE
  BY <1>3, <1>4 DEF in_onWrite, in_onShutdown
<1>5. ASSUME NEW c \in Conns, ResentWrite(c) PROVE ClosedOnce'
  <2>1. /\ Up /\ UNCHANGED seen /\ ~CanClose(uv[c])
        /\ uv' = [uv EXCEPT ![c] = uv[c]]
    BY <1>5 DEF ResentWrite, CloseHandle, Up
  <2>2. Answered(c) /\ Sound(uv[c]) /\ uv[c] \in Stream /\ uv'[c] = uv[c]
    BY <1>1, <2>1 DEF AnswerSound, UnionSound
  <2>3. uv[c].pending = {"write"} /\ uv[c].handle = "closing" /\ uv[c].torn
    BY <1>5, <2>1, <2>2, SoundResent DEF ResentWrite, CanClose
  <2>4. Len(seen[c]) > 1
    BY <2>2, <2>3 DEF Answered
  <2> QED
    BY <2>1, <2>2, <2>3, <2>4 DEF ClosedOnce
<1>6. ASSUME NEW c \in Conns,
             in_onConnect(c) \/ in_onRead(c) \/ in_onClose(c) \/ TornWrite(c)
      PROVE  FALSE
  BY <1>6 DEF Up, in_onConnect, in_onRead, Rejects, Serves, Throws, ReadsEof,
     ReadsError, in_onClose, TornWrite
<1> QED
  BY <1>2, <1>4, <1>5, <1>6 DEF Next, Completion

(* in_onWrite and in_onShutdown close a handle twice only through a write   *)
(* request that was used for two answers.                                   *)
THEOREM InClosedOnce == Spec => []ClosedOnce
<1>1. Init => ClosedOnce
  BY DEF Init, ClosedOnce
<1> QED
  BY <1>1, StepClosedOnce, InResponse, PTL DEF Spec

(* The response buffer is freed exactly when its connection is deleted.     *)
THEOREM InResponseFreed == Spec => []ResponseFreed
<1>1. ASSUME RInv, NEW c \in Conns, seen[c] # <<>>, Up
      PROVE  base[c] = IF uv[c].handle = "closed" THEN "freed" ELSE "live"
  <2>1. Answered(c) /\ uv[c] \in Stream /\ WriteDataAlive
    BY <1>1 DEF RInv, IInv, AnswerSound, TypeOK
  <2>2. uv[c].handle \in Handles
    BY <2>1 DEF Stream
  <2> QED
    BY <1>1, <2>1, <2>2 DEF Answered, Handles, WriteDataAlive
<1>2. RInv => ResponseFreed
  BY <1>1 DEF ResponseFreed
<1> QED
  BY <1>2, InResponse, PTL

-----------------------------------------------------------------------------
(* Connections that are left alone.                                         *)

(* A connection that is read from still has its write side, so that the end *)
(* of the stream finds a shutdown to ask for.                               *)
Attended(c) ==
    /\ uv[c].handle \in {"none", "init"} => seen[c] = <<>> /\ req[c] = NewRequest
    /\ uv[c].handle = "open" /\ ~uv[c].writable => "shutdown" \in uv[c].pending
    /\ uv[c].handle = "open" /\ ~uv[c].reading /\ uv[c].pending = {} =>
           ending[c] = "reset" \/ (seen[c] = <<>> /\ req[c] = NewRequest)

AllAttended == Up => \A c \in Conns : Attended(c)

LEMMA InitAttended == Init => AllAttended
BY DEF Init, AllAttended, Attended, Absent

(* Only connection c moves.                                                 *)
LEMMA OnlyOneAttended ==
    ASSUME AllAttended, Up, NEW c \in Conns, Attended(c)',
           \A d \in Conns \ {c} :
               uv'[d] = uv[d] /\ seen'[d] = seen[d] /\ req'[d] = req[d],
           UNCHANGED ending
    PROVE  AllAttended'
<1>1. ASSUME NEW d \in Conns \ {c} PROVE Attended(d)'
  BY <1>1 DEF AllAttended, Attended
<1> QED
  BY <1>1 DEF AllAttended

LEMMA StepAttended == IInv /\ AllAttended /\ [Next]_vars => AllAttended'
<1> SUFFICES ASSUME IInv, AllAttended, [Next]_vars, Up' PROVE AllAttended'
  BY DEF AllAttended
<1>1. /\ TypeOK /\ UnionSound /\ uv \in [Conns -> Stream]
      /\ seen \in [Conns -> Seq(Request)] /\ req \in [Conns -> Request]
  BY DEF IInv, TypeOK
<1>2. CASE UNCHANGED vars
  BY <1>2 DEF vars, AllAttended, Attended, Up
<1>3. ASSUME NEW c \in Conns, in_onConnect(c) PROVE AllAttended'
  <2>1. Up /\ Attended(c) /\ Sound(uv[c]) /\ uv[c].handle = "none"
    BY <1>1, <1>3 DEF in_onConnect, AllAttended, UnionSound
  <2>2. PICK t : /\ uv' = [uv EXCEPT ![c] = t]
                 /\ t.handle = "open" => t.writable
    <3>1. uv[c] \in Stream
      BY <1>1
    <3>2. /\ Shutdown(Overwrite(TcpInit(uv[c]))).handle = "init"
          /\ Attach(TcpInit(uv[c])).writable
          /\ ReadStart(Attach(TcpInit(uv[c]))).writable
      BY <3>1 DEF Stream, Shutdown, CanShutdown, Overwrite, TcpInit, Attach, ReadStart
    <3> QED
      BY <1>3, <3>2 DEF in_onConnect
  <2>3. seen[c] = <<>> /\ req[c] = NewRequest /\ UNCHANGED <<seen, req, ending>>
    BY <1>3, <2>1 DEF in_onConnect, Attended
  <2>4. Attended(c)'
    BY <1>1, <2>2, <2>3 DEF Attended
  <2> QED
    BY <1>1, <2>1, <2>2, <2>3, <2>4, OnlyOneAttended
<1>4. ASSUME NEW c \in Conns, in_onRead(c) PROVE AllAttended'
  <2>1. /\ Up /\ Attended(c) /\ Sound(uv[c]) /\ uv[c] \in Stream
        /\ uv[c].handle = "open" /\ uv[c].reading
    BY <1>1, <1>4 DEF in_onRead, AllAttended, UnionSound, ReadReady
  <2>2. CASE Rejects(c)
    <3>1. /\ UNCHANGED <<uv, seen, ending>>
          /\ \A d \in Conns \ {c} : req'[d] = req[d]
      BY <1>1, <2>2 DEF Rejects, Delivers
    <3>2. Attended(c)'
      BY <2>1, <3>1 DEF Attended
    <3> QED
      BY <2>1, <3>1, <3>2, OnlyOneAttended
  <2>3. CASE Serves(c)
    <3>1. /\ uv' = [uv EXCEPT ![c] = Write(@)] /\ UNCHANGED ending
          /\ \A d \in Conns \ {c} : req'[d] = req[d] /\ seen'[d] = seen[d]
      BY <1>1, <2>3 DEF Serves, Respond, Delivers
    <3>2. uv'[c] = Write(uv[c])
      BY <1>1, <3>1
    <3>3. Attended(c)'
      BY <2>1, <3>2, WriteFields DEF Attended
    <3> QED
      BY <1>1, <2>1, <3>1, <3>3, OnlyOneAttended
  <2>4. CASE Throws(c)
    BY <2>4 DEF Throws, Up
  <2>5. CASE ReadsEof(c) \/ (ReadsError(c) /\ uv' = [uv EXCEPT ![c] = Shutdown(ReadStop(@))])
    <3>1. /\ uv' = [uv EXCEPT ![c] = Shutdown(ReadStop(@))]
          /\ UNCHANGED <<seen, req, ending>>
      BY <2>5 DEF ReadsEof, ReadsError
    <3>2. /\ ReadStop(uv[c]) \in Stream
          /\ ReadStop(uv[c]).handle = "open"
          /\ ReadStop(uv[c]).pending = uv[c].pending
          /\ ReadStop(uv[c]).writable = uv[c].writable
      BY <2>1 DEF ReadStop, Stream
    <3>3. "shutdown" \in Shutdown(ReadStop(uv[c])).pending
      <4>1. CASE uv[c].writable
        BY <3>2, <4>1, ShutdownFields DEF CanShutdown
      <4>2. CASE ~uv[c].writable
        BY <2>1, <3>2, <4>2 DEF Attended, Shutdown, CanShutdown
      <4> QED
        BY <4>1, <4>2
    <3>4. /\ uv'[c] = Shutdown(ReadStop(uv[c]))
          /\ Shutdown(ReadStop(uv[c])).handle = "open"
      BY <1>1, <3>1, <3>2, ShutdownFields DEF Shutdown
    <3>5. Attended(c)'
      BY <3>3, <3>4 DEF Attended
    <3> QED
      BY <1>1, <2>1, <3>1, <3>5, OnlyOneAttended
  <2>6. CASE ReadsError(c) /\ uv' = [uv EXCEPT ![c] = ReadStop(@)]
    <3>1. ending[c] = "reset" /\ UNCHANGED <<seen, req, ending>>
      BY <2>6 DEF ReadsError
    <3>2. /\ uv'[c].handle = "open" /\ uv'[c].pending = uv[c].pending
          /\ uv'[c].writable = uv[c].writable
      <4>1. uv'[c] = ReadStop(uv[c])
        BY <1>1, <2>6
      <4> QED
        BY <2>1, <4>1 DEF ReadStop, Stream
    <3>3. Attended(c)'
      BY <2>1, <3>1, <3>2 DEF Attended
    <3> QED
      BY <1>1, <2>1, <2>6, <3>1, <3>3, OnlyOneAttended
  <2> QED
    BY <1>4, <2>2, <2>3, <2>4, <2>5, <2>6 DEF in_onRead, ReadsError
<1>5. ASSUME NEW c \in Conns, NEW t, Up, uv' = [uv EXCEPT ![c] = t],
             t.handle \in {"closing", "closed"}, UNCHANGED <<seen, req, ending>>
      PROVE  AllAttended'
  <2>1. Attended(c)'
    BY <1>1, <1>5 DEF Attended
  <2> QED
    BY <1>1, <1>5, <2>1, OnlyOneAttended
<1>6. ASSUME NEW c \in Conns, NEW kind \in {"write", "shutdown"}, Up,
             kind = "write" => WriteDone(uv[c]),
             kind = "shutdown" => ShutdownDone(uv[c]),
             ~uv[c].torn, CloseHandle(c, Complete(uv[c], kind)),
             UNCHANGED <<seen, req, ending>>
      PROVE  AllAttended'
  <2>1. /\ CanClose(Complete(uv[c], kind))
        /\ Close(Complete(uv[c], kind)).handle = "closing"
    BY <1>1, <1>6, SoundClose DEF UnionSound
  <2> QED
    BY <1>5, <1>6, <2>1 DEF CloseHandle
<1>7. ASSUME NEW c \in Conns, in_onWrite(c) \/ in_onShutdown(c) PROVE AllAttended'
  BY <1>6, <1>7 DEF in_onWrite, in_onShutdown
<1>8. ASSUME NEW c \in Conns, in_onClose(c) PROVE AllAttended'
  <2>1. Deleted(uv[c]).handle = "closed"
    BY <1>1 DEF Deleted, Stream
  <2> QED
    BY <1>5, <1>8, <2>1 DEF in_onClose
<1>9. ASSUME NEW c \in Conns, TornWrite(c) PROVE AllAttended'
  BY <1>9 DEF TornWrite, Up
<1>10. ASSUME NEW c \in Conns, ResentWrite(c) PROVE AllAttended'
  <2>1. /\ Up /\ UNCHANGED <<seen, req, ending>>
        /\ uv' = [uv EXCEPT ![c] = Close(uv[c])]
    BY <1>10 DEF ResentWrite, CloseHandle, Up
  <2>2. uv[c] \in Stream /\ Sound(uv[c])
    BY <1>1 DEF UnionSound
  <2>3. Close(uv[c]).handle = "closing"
    BY <2>2 DEF Close, Stream
  <2> QED
    BY <1>5, <2>1, <2>3
<1> QED
  BY <1>2, <1>3, <1>4, <1>7, <1>8, <1>9, <1>10 DEF Next, Completion

(* Nothing but a reset, or a failure before anything was read, leaves an    *)
(* open connection without a callback to come.                              *)
THEOREM InNeverForgotten == Spec => []NeverForgotten
<1>1. AllAttended => NeverForgotten
  BY DEF AllAttended, Attended, NeverForgotten
<1>2. Init => IInv /\ AllAttended
  BY InitSafe, InitAttended
<1>3. IInv /\ AllAttended /\ [Next]_vars => (IInv /\ AllAttended)'
  BY StepSafe, StepAttended
<1> QED
  BY <1>1, <1>2, <1>3, PTL DEF Spec

-----------------------------------------------------------------------------
(* Refinement: what the program sees of a connection is a ConnectionObject. *)

LEMMA LifeValues ==
    /\ Life["none"] = "none" /\ Life["init"] = "live" /\ Life["open"] = "live"
    /\ Life["closing"] = "closing" /\ Life["closed"] = "gone"
BY DEF Life

LEMMA InitObject == Init => Object!Init
BY LifeValues DEF Init, Absent, Up, Object!Init

(* The life of connection c as the refinement mapping shows it moves by     *)
(* itself.                                                                  *)
LEMMA LifeMoves ==
    ASSUME TypeOK, NEW c \in Conns, NEW t, uv' = [uv EXCEPT ![c] = t]
    PROVE  [d \in Conns |-> Life[uv[d].handle]]'
             = [[d \in Conns |-> Life[uv[d].handle]] EXCEPT ![c] = Life[t.handle]]
BY DEF TypeOK

LEMMA CallsGrow ==
    ASSUME TypeOK, NEW c \in Conns, NEW r \in Request,
           seen' = [seen EXCEPT ![c] = Append(@, r)]
    PROVE  [d \in Conns |-> Len(seen[d])]'
             = [[d \in Conns |-> Len(seen[d])] EXCEPT ![c] = @ + 1]
<1>1. seen \in [Conns -> Seq(Request)]
  BY DEF TypeOK
<1>2. Len(Append(seen[c], r)) = Len(seen[c]) + 1
  BY <1>1
<1> QED
  BY <1>1, <1>2

LEMMA StepObject == IInv /\ [Next]_vars => [Object!Next]_Object!vars
<1> SUFFICES ASSUME IInv, Next PROVE Object!Next
  BY DEF vars, Up, Object!vars
<1> DEFINE life == [d \in Conns |-> Life[uv[d].handle]]
           calls == [d \in Conns |-> Len(seen[d])]
<1>1. /\ TypeOK /\ UnionSound /\ Up' \in BOOLEAN
      /\ uv \in [Conns -> Stream]
  BY DEF IInv, TypeOK, Up
<1>2. PICK c \in Conns : in_onConnect(c) \/ in_onRead(c) \/ Completion(c)
  BY DEF Next
<1>3. Up
  BY <1>2 DEF in_onConnect, in_onRead, Completion, in_onWrite, in_onShutdown,
     in_onClose, ResentWrite, TornWrite
<1>4. Object!Step(c)
  <2>1. CASE in_onConnect(c)
    <3>1. PICK t : uv' = [uv EXCEPT ![c] = t] /\ t.handle \in {"init", "open"}
      <4>1. uv[c] \in Stream
        BY <1>1
      <4>2. /\ Shutdown(Overwrite(TcpInit(uv[c]))).handle \in {"init", "open"}
            /\ Attach(TcpInit(uv[c])).handle \in {"init", "open"}
            /\ ReadStart(Attach(TcpInit(uv[c]))).handle \in {"init", "open"}
        BY <4>1 DEF Stream, Shutdown, CanShutdown, Overwrite, TcpInit, Attach, ReadStart
      <4> QED
        BY <2>1, <4>2 DEF in_onConnect
    <3>2. life' = [life EXCEPT ![c] = "live"]
      BY <1>1, <3>1, LifeMoves, LifeValues
    <3>3. life[c] = "none" /\ calls' = calls
      BY <2>1, LifeValues DEF in_onConnect
    <3>4. Object!Advance(c, "none", "live")
      BY <3>2, <3>3 DEF Object!Advance
    <3> QED
      BY <3>4 DEF Object!Step
  <2>2. CASE Up /\ ReadReady(uv[c]) /\ (Rejects(c) \/ ReadsEof(c) \/ ReadsError(c))
    <3>1. PICK t : uv' = [uv EXCEPT ![c] = t] /\ t.handle = uv[c].handle
      <4>1. CASE Rejects(c)
        BY <1>1, <4>1 DEF Rejects
      <4>2. CASE ReadsEof(c) \/ ReadsError(c)
        BY <1>1, <2>2, <4>2, SoundEnd DEF ReadsEof, ReadsError, UnionSound, ReadReady
      <4> QED
        BY <2>2, <4>1, <4>2
    <3>2. life' = [life EXCEPT ![c] = life[c]]
      BY <1>1, <3>1, LifeMoves
    <3>3. calls' = calls
      BY <2>2 DEF Rejects, ReadsEof, ReadsError
    <3> QED
      BY <3>2, <3>3 DEF Object!Step
  <2>3. CASE Up /\ ReadReady(uv[c]) /\ (Serves(c) \/ Throws(c))
    <3>1. PICK r \in Request : seen' = [seen EXCEPT ![c] = Append(@, r)]
      <4>1. PICK n \in 0..Len(wire[c]) :
              Delivers(c, n) /\ seen' = [seen EXCEPT ![c] = Append(@, req'[c])]
        BY <2>3 DEF Serves, Throws
      <4>2. req'[c] \in Request
        BY <1>1, <4>1, DeliversType
      <4> QED
        BY <4>1, <4>2
    <3>2. calls' = [calls EXCEPT ![c] = @ + 1]
      BY <1>1, <3>1, CallsGrow
    <3>3. PICK t : uv' = [uv EXCEPT ![c] = t] /\ t.handle = uv[c].handle
      <4>1. uv[c] \in Stream /\ uv = [uv EXCEPT ![c] = uv[c]]
        BY <1>1
      <4>2. CASE Serves(c)
        <5>1. uv' = [uv EXCEPT ![c] = Write(uv[c])]
          BY <4>2 DEF Serves, Respond
        <5> QED
          BY <4>1, <5>1, WriteFields
      <4>3. CASE Throws(c)
        BY <4>1, <4>3 DEF Throws
      <4> QED
        BY <2>3, <4>2, <4>3
    <3>4. life' = life
      BY <1>1, <3>3, LifeMoves
    <3>5. life[c] = "live"
      BY <2>3, LifeValues DEF ReadReady
    <3>6. Object!Call(c)
      BY <3>2, <3>4, <3>5 DEF Object!Call
    <3> QED
      BY <3>6 DEF Object!Step
  <2>4. CASE in_onWrite(c) \/ in_onShutdown(c)
    <3>1. PICK kind \in {"write", "shutdown"} :
            /\ kind = "write" => WriteDone(uv[c])
            /\ kind = "shutdown" => ShutdownDone(uv[c])
            /\ ~uv[c].torn /\ UNCHANGED seen
            /\ CloseHandle(c, Complete(uv[c], kind))
      BY <2>4 DEF in_onWrite, in_onShutdown
    <3>2. CanClose(Complete(uv[c], kind)) /\ Close(Complete(uv[c], kind)).handle = "closing"
      BY <1>1, <3>1, SoundClose DEF UnionSound
    <3>3. uv[c].handle = "open"
      BY <1>1, <3>1 DEF UnionSound, Sound, WriteDone, ShutdownDone
    <3>4. life' = [life EXCEPT ![c] = "closing"]
      BY <1>1, <3>1, <3>2, LifeMoves, LifeValues DEF CloseHandle
    <3>5. life[c] = "live" /\ calls' = calls
      BY <3>1, <3>3, LifeValues
    <3>6. Object!Advance(c, "live", "closing")
      BY <3>4, <3>5 DEF Object!Advance
    <3> QED
      BY <3>6 DEF Object!Step
  <2>5. CASE in_onClose(c)
    <3>1. Deleted(uv[c]).handle = "closed"
      BY <1>1 DEF Deleted, Stream
    <3>2. life' = [life EXCEPT ![c] = "gone"]
      BY <1>1, <2>5, <3>1, LifeMoves, LifeValues DEF in_onClose
    <3>3. life[c] = "closing" /\ calls' = calls
      BY <2>5, LifeValues DEF in_onClose, CloseDone
    <3>4. Object!Advance(c, "closing", "gone")
      BY <3>2, <3>3 DEF Object!Advance
    <3> QED
      BY <3>4 DEF Object!Step
  <2>6. CASE TornWrite(c)
    BY <2>6 DEF TornWrite, Object!Step
  <2>7. CASE ResentWrite(c)
    <3>1. uv[c] \in Stream /\ Sound(uv[c]) /\ UNCHANGED seen
      BY <1>1, <2>7 DEF ResentWrite, UnionSound
    <3>2. CASE ~CanClose(uv[c])
      <4>1. uv' = [uv EXCEPT ![c] = uv[c]]
        BY <2>7, <3>2 DEF ResentWrite, CloseHandle
      <4>2. life' = life
        BY <1>1, <4>1
      <4> QED
        BY <3>1, <4>2 DEF Object!Step
    <3>3. CASE CanClose(uv[c])
      <4>1. uv[c].handle = "open" /\ Close(uv[c]).handle = "closing"
        BY <2>7, <3>1, <3>3, SoundResent DEF ResentWrite
      <4>2. life' = [life EXCEPT ![c] = "closing"]
        BY <1>1, <2>7, <3>3, <4>1, LifeMoves, LifeValues DEF ResentWrite, CloseHandle
      <4>3. life[c] = "live" /\ calls' = calls
        BY <3>1, <4>1, LifeValues
      <4>4. Object!Advance(c, "live", "closing")
        BY <4>2, <4>3 DEF Object!Advance
      <4> QED
        BY <4>4 DEF Object!Step
    <3> QED
      BY <3>2, <3>3
  <2> QED
    BY <1>2, <2>1, <2>2, <2>3, <2>4, <2>5, <2>6, <2>7 DEF in_onRead, Completion
<1> QED
  BY <1>1, <1>3, <1>4 DEF Object!Next

(* A server connection implements the ConnectionObject: created, used,      *)
(* closed and deleted once each and in that order.                          *)
THEOREM InImplementsObject == Spec => ImplementsObject
BY InitObject, StepObject, InSafe, PTL DEF Spec, ImplementsObject, Object!Spec

-----------------------------------------------------------------------------
(* The first request.                                                       *)

(* What continues a request on the wire belongs to it.                      *)
Joined(f) ==
    \A i \in 2..Len(f) :
        Follows(f[i - 1], f[i]) /\ f[i].kind # "line" => f[i].id = f[i - 1].id

LEMMA JoinedPart ==
    ASSUME NEW f \in Seq(Part), Joined(f), NEW n \in 0..Len(f)
    PROVE  Joined(SubSeq(f, 1, n)) /\ Joined(SubSeq(f, n + 1, Len(f)))
<1>1. Joined(SubSeq(f, 1, n))
  <2> DEFINE g == SubSeq(f, 1, n)
  <2>1. Len(g) = n /\ \A i \in 1..n : g[i] = f[i]
    OBVIOUS
  <2> HIDE DEF g
  <2> QED
    BY <2>1 DEF Joined
<1>2. Joined(SubSeq(f, n + 1, Len(f)))
  <2> DEFINE g == SubSeq(f, n + 1, Len(f))
  <2>1. Len(g) = Len(f) - n /\ \A i \in 1..Len(g) : g[i] = f[i + n]
    OBVIOUS
  <2> HIDE DEF g
  <2>2. ASSUME NEW i \in 2..Len(g), Follows(g[i - 1], g[i]), g[i].kind # "line"
        PROVE  g[i].id = g[i - 1].id
    <3>1. i + n \in 2..Len(f) /\ g[i] = f[i + n] /\ g[i - 1] = f[(i + n) - 1]
      BY <2>1
    <3> QED
      BY <2>2, <3>1 DEF Joined
  <2> QED
    BY <2>2 DEF Joined
<1> QED
  BY <1>1, <1>2

(* A buffer that holds one request is a line, its headers and, if they say  *)
(* so, a body.                                                              *)
LEMMA RequestShape ==
    ASSUME NEW f \in Seq(Part), OneRequest(f)
    PROVE  /\ Consumed(f) = 1..Len(f)
           /\ Len(f) \in {2, 3}
           /\ f[1].kind = "line" /\ f[2].kind = "headers"
           /\ f[2].more <=> Len(f) = 3
           /\ Len(f) = 3 => f[3].kind = "body"
           /\ \A i \in 2..Len(f) : Follows(f[i - 1], f[i])
<1>1. Len(f) \in Nat /\ Len(f) # 0 /\ \A i \in 1..Len(f) : f[i] \in Part
  BY DEF OneRequest
<1>2. Consumed(f) = 1..Len(f)
  BY DEF OneRequest, Whole
<1>3. \A i \in 1..Len(f) : Accepts(f, i)
  BY <1>1, <1>2 DEF Consumed
<1>4. f[1].kind = "line"
  BY <1>1, <1>3 DEF Accepts
<1>5. \A i \in 2..Len(f) : Follows(f[i - 1], f[i]) /\ f[i].kind # "line"
  BY <1>1, <1>3 DEF Accepts, OneRequest
<1>6. Len(f) # 1
  BY <1>4 DEF OneRequest, EndsMessage
<1>0. Len(f) >= 2
  <2> DEFINE n == Len(f)
  <2>1. n \in Nat /\ n # 0 /\ n # 1
    BY <1>1, <1>6
  <2> HIDE DEF n
  <2>2. n >= 2
    BY <2>1
  <2> QED
    BY <2>2 DEF n
<1>7. f[2].kind = "headers"
  <2>1. Follows(f[2 - 1], f[2]) /\ f[2].kind # "line"
    BY <1>0, <1>5
  <2>2. Follows(f[1], f[2])
    BY <2>1
  <2> QED
    BY <1>4, <2>2, <2>1 DEF Follows, EndsMessage
<1>8. Len(f) >= 3 => f[3].kind = "body" /\ f[2].more
  <2>1. Len(f) >= 3 => Follows(f[3 - 1], f[3]) /\ f[3].kind # "line"
    BY <1>1, <1>5
  <2>2. Len(f) >= 3 => Follows(f[2], f[3])
    BY <2>1
  <2> QED
    BY <1>7, <2>1, <2>2 DEF Follows, EndsMessage
<1>9. Len(f) <= 3
  <2>1. Len(f) >= 4 => Follows(f[4 - 1], f[4]) /\ f[4].kind # "line"
    BY <1>1, <1>5
  <2>2. Len(f) >= 4 => Follows(f[3], f[4])
    BY <2>1
  <2> QED
    BY <1>1, <1>8, <2>1, <2>2 DEF Follows, EndsMessage
<1>10. Len(f) = 2 => ~f[2].more
  BY <1>7 DEF OneRequest, EndsMessage
<1>11. Len(f) \in {2, 3}
  <2> DEFINE n == Len(f)
  <2>1. n \in Nat /\ n >= 2 /\ n <= 3
    BY <1>0, <1>1, <1>9
  <2> HIDE DEF n
  <2>2. n \in {2, 3}
    BY <2>1
  <2> QED
    BY <2>2 DEF n
<1>12. f[2].more <=> Len(f) = 3
  <2>1. f[2].more \in BOOLEAN
    BY <1>1, <1>11 DEF Part
  <2> QED
    BY <1>8, <1>10, <1>11, <2>1
<1> QED
  BY <1>2, <1>4, <1>5, <1>7, <1>8, <1>11, <1>12

(* Read into a new Request it is that request.                              *)
LEMMA RequestGenuine ==
    ASSUME NEW f \in Seq(Part), OneRequest(f), Joined(f)
    PROVE  Genuine(Parsed(NewRequest, f))
<1> DEFINE id == f[1].id
           r == Parsed(NewRequest, f)
<1>1. /\ Consumed(f) = 1..Len(f) /\ Len(f) \in {2, 3}
      /\ f[1].kind = "line" /\ f[2].kind = "headers"
      /\ f[2].more <=> Len(f) = 3
      /\ Len(f) = 3 => f[3].kind = "body"
      /\ \A i \in 2..Len(f) : Follows(f[i - 1], f[i])
  BY RequestShape
<1>2. id \in Ids /\ f[2].id = id
  <2>1. f[1] \in Part /\ Follows(f[1], f[2]) /\ f[2].id = f[1].id
    BY <1>1 DEF Joined
  <2> QED
    BY <2>1 DEF Part
<1>3. Len(f) = 3 => f[3].id = id
  <2>1. Len(f) = 3 => Follows(f[2], f[3]) /\ f[3].id = f[2].id
    BY <1>1 DEF Joined
  <2> QED
    BY <1>2, <2>1
<1>4. OfKind(f, "line") = {1} /\ OfKind(f, "headers") = {2}
  BY <1>1 DEF OfKind
<1>5. OfKind(f, "body") = IF Len(f) = 3 THEN {3} ELSE {}
  BY <1>1 DEF OfKind
<1>6. r.url = id /\ r.method = id
  <2>1. Latest({1}) = {1} /\ Latest({2}) = {2}
    BY DEF Latest
  <2>2. LastId(f, "line", NoId) = id /\ LastId(f, "headers", NoId) = f[2].id
    BY <1>4, <2>1 DEF LastId
  <2> QED
    BY <1>2, <2>2 DEF Parsed, NewRequest
<1>7. r.headers = {id}
  BY <1>2, <1>4 DEF Parsed, NewRequest
<1>8. r.body = IF Len(f) = 3 THEN {id} ELSE {}
  BY <1>3, <1>5 DEF Parsed, NewRequest
<1>9. r.announced = IF Len(f) = 3 THEN {id} ELSE {}
  <2>1. {j \in OfKind(f, "headers") : f[j].more} = IF Len(f) = 3 THEN {2} ELSE {}
    BY <1>1, <1>4
  <2>2. r.announced = {f[i].id : i \in {j \in OfKind(f, "headers") : f[j].more}}
    BY DEF Parsed, NewRequest
  <2> QED
    BY <1>2, <2>1, <2>2
<1> HIDE DEF r, id
<1> QED
  BY <1>2, <1>6, <1>7, <1>8, <1>9 DEF Genuine, r

AllJoined == \A c \in Conns : Joined(wire[c])

LEMMA StepJoined == IInv /\ AllJoined /\ [Next]_vars => AllJoined'
<1> SUFFICES ASSUME IInv, AllJoined, [Next]_vars PROVE AllJoined'
  OBVIOUS
<1>1. wire \in [Conns -> Seq(Part)]
  BY DEF IInv, TypeOK
<1>2. CASE UNCHANGED wire
  BY <1>2 DEF AllJoined
<1>3. ASSUME NEW c \in Conns, NEW n \in 0..Len(wire[c]), Delivers(c, n)
      PROVE  AllJoined'
  <2>1. Joined(SubSeq(wire[c], n + 1, Len(wire[c])))
    BY <1>1, JoinedPart DEF AllJoined
  <2> QED
    BY <1>1, <1>3, <2>1 DEF AllJoined, Delivers
<1>4. ASSUME NEW c \in Conns, in_onRead(c) PROVE AllJoined'
  BY <1>2, <1>3, <1>4 DEF in_onRead, Rejects, Serves, Throws, ReadsEof, ReadsError
<1>5. ASSUME NEW c \in Conns, in_onConnect(c) \/ Completion(c) PROVE UNCHANGED wire
  BY <1>5 DEF in_onConnect, Completion, in_onWrite, in_onShutdown, in_onClose,
     ResentWrite, TornWrite
<1> QED
  BY <1>2, <1>4, <1>5 DEF Next, vars

(* Where what continues a request on the wire belongs to it, a handler that *)
(* is called for one whole request in its own buffer, the connection's      *)
(* first, is called with that request.                                      *)
THEOREM InFirstRequestFaithful ==
    ASSUME \A f \in Scripts : Joined(f)
    PROVE  Spec => FirstRequestFaithful
<1> DEFINE First(c) ==
        /\ seen[c] = <<>> /\ seen'[c] # <<>>
        /\ req[c] = NewRequest
        /\ \E n \in 1..Len(wire[c]) :
              /\ wire'[c] = SubSeq(wire[c], n + 1, Len(wire[c]))
              /\ OneRequest(SubSeq(wire[c], 1, n))
<1>1. ASSUME IInv, AllJoined, [Next]_vars, NEW c \in Conns, First(c)
      PROVE  Genuine(seen'[c][1])
  <2>1. /\ seen \in [Conns -> Seq(Request)] /\ wire \in [Conns -> Seq(Part)]
        /\ req \in [Conns -> Request]
    BY <1>1 DEF IInv, TypeOK
  <2>2. seen'[c] # seen[c]
    BY <1>1
  <2>3. Serves(c) \/ Throws(c)
    BY <1>1, <2>1, <2>2 DEF vars, Next, Completion, in_onConnect, in_onRead, Rejects,
       Serves, Throws, ReadsEof, ReadsError, in_onWrite, in_onShutdown,
       in_onClose, ResentWrite, TornWrite
  <2>4. PICK m \in 0..Len(wire[c]) :
            /\ Delivers(c, m) /\ seen' = [seen EXCEPT ![c] = Append(@, req'[c])]
    BY <2>3 DEF Serves, Throws
  <2>5. PICK n \in 1..Len(wire[c]) :
            /\ wire'[c] = SubSeq(wire[c], n + 1, Len(wire[c]))
            /\ OneRequest(SubSeq(wire[c], 1, n))
    BY <1>1
  <2>6. m = n
    <3>1. wire'[c] = SubSeq(wire[c], m + 1, Len(wire[c])) /\ wire[c] \in Seq(Part)
      BY <2>1, <2>4 DEF Delivers
    <3>2. Len(wire'[c]) = Len(wire[c]) - m
      BY <3>1
    <3>3. Len(wire'[c]) = Len(wire[c]) - n
      BY <2>5, <3>1
    <3> QED
      BY <3>1, <3>2, <3>3
  <2> DEFINE f == SubSeq(wire[c], 1, n)
  <2>7. f \in Seq(Part) /\ Joined(f) /\ OneRequest(f)
    BY <1>1, <2>1, <2>5, JoinedPart DEF AllJoined
  <2>8. req'[c] = Parsed(NewRequest, f)
    BY <1>1, <2>1, <2>4, <2>6 DEF Delivers
  <2> HIDE DEF f
  <2>9. seen'[c][1] = req'[c]
    BY <1>1, <2>1, <2>4
  <2> QED
    BY <2>7, <2>8, <2>9, RequestGenuine
<1>2. Init => AllJoined
  BY DEF Init, AllJoined
<1>3. IInv /\ AllJoined /\ [Next]_vars => [\A c \in Conns : First(c) => Genuine(seen'[c][1])]_vars
  BY <1>1
<1> QED
  BY <1>2, <1>3, StepJoined, InSafe, PTL DEF Spec, FirstRequestFaithful
=============================================================================
