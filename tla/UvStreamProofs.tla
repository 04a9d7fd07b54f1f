--------------------------- MODULE UvStreamProofs ---------------------------
(***************************************************************************)
(* Facts about the operators of UvStream, for the proofs about the two     *)
(* kinds of connection.                                                    *)
(***************************************************************************)
EXTENDS UvStream, TLAPS

(* Every operator of UvStream takes a stream to a stream.                   *)
LEMMA AbsentType == Absent \in Stream
BY DEF Absent, Stream, Handles, ReqKinds

LEMMA StreamType ==
    ASSUME NEW s \in Stream
    PROVE  /\ TcpInit(s) \in Stream
           /\ Attach(s) \in Stream
           /\ ReadStart(s) \in Stream
           /\ ReadStop(s) \in Stream
           /\ Overwrite(s) \in Stream
           /\ Close(s) \in Stream
           /\ Deleted(s) \in Stream
BY DEF Stream, Handles, TcpInit, Attach, ReadStart, ReadStop, Overwrite, Close,
       Deleted

LEMMA RequestType ==
    ASSUME NEW s \in Stream, NEW kind \in ReqKinds
    PROVE  /\ Submit(s, kind) \in Stream
           /\ Complete(s, kind) \in Stream
BY DEF Stream, Submit, Complete

LEMMA WriteType ==
    ASSUME NEW s \in Stream
    PROVE  /\ Connect(s) \in Stream
           /\ Write(s) \in Stream
           /\ Shutdown(s) \in Stream
<1>1. Overwrite(s) \in Stream
  BY StreamType
<1>2. /\ Submit(Overwrite(s), "connect") \in Stream
      /\ Submit(Overwrite(s), "write") \in Stream
      /\ Submit(Overwrite(s), "shutdown") \in Stream
  BY <1>1, RequestType DEF ReqKinds
<1>3. Shutdown(s) \in Stream
  BY <1>2 DEF Shutdown, Stream
<1> QED
  BY <1>2, <1>3 DEF Connect, Write

(* What uv_write and uv_shutdown do to each field of a stream.              *)
LEMMA WriteFields ==
    ASSUME NEW s \in Stream
    PROVE  /\ Write(s).handle = s.handle
           /\ Write(s).reading = s.reading
           /\ Write(s).writable = s.writable
           /\ Write(s).pending = s.pending \cup {"write"}
           /\ Write(s).torn = (s.torn \/ s.pending # {})
BY DEF Stream, Write, Submit, Overwrite

LEMMA ShutdownFields ==
    ASSUME NEW s \in Stream, CanShutdown(s)
    PROVE  /\ Shutdown(s).handle = s.handle
           /\ Shutdown(s).reading = s.reading
           /\ Shutdown(s).writable = FALSE
           /\ Shutdown(s).pending = s.pending \cup {"shutdown"}
           /\ Shutdown(s).torn = (s.torn \/ s.pending # {})
BY DEF Stream, Shutdown, Submit, Overwrite
=============================================================================
