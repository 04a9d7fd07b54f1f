-------------------------- MODULE ConnectionObject --------------------------
(***************************************************************************)
(* What a Connection promises the program that embeds the server, whichever *)
(* side opened it: the object is created, used, closed and deleted in that  *)
(* order, each once, and the user's callback runs only in between creation  *)
(* and close.  One callback of the loop does one of these things, and any   *)
(* of them may take the whole process down.                                 *)
(***************************************************************************)
EXTENDS Naturals

CONSTANT Conns

VARIABLES
    life,   \* life[c]: "none", "live", "closing" or "gone"
    calls,  \* calls[c]: how often the user's callback was called
    up      \* the process is running

vars == <<life, calls, up>>

Init ==
    /\ life = [c \in Conns |-> "none"]
    /\ calls = [c \in Conns |-> 0]
    /\ up = TRUE

Advance(c, from, to) ==
    /\ life[c] = from
    /\ life' = [life EXCEPT ![c] = to]
    /\ UNCHANGED calls

Call(c) ==
    /\ life[c] = "live"
    /\ calls' = [calls EXCEPT ![c] = @ + 1]
    /\ UNCHANGED life

Step(c) ==
    \/ Advance(c, "none", "live")
    \/ Call(c)
    \/ Advance(c, "live", "closing")
    \/ Advance(c, "closing", "gone")
    \/ UNCHANGED <<life, calls>>

Next == up /\ up' \in BOOLEAN /\ \E c \in Conns : Step(c)

Spec == Init /\ [][Next]_vars
=============================================================================
