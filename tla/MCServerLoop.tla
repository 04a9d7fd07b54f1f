---------------------------- MODULE MCServerLoop ----------------------------
(* Two servers that share a socket, and who closes them.                    *)
EXTENDS ServerLoop

CONSTANTS s1, s2

MCServers == {s1, s2}

(* Each server's own handler.                                               *)
OwnOnly == [t \in {s1, s2, Main} |-> IF t = Main THEN {} ELSE {t}]

(* The handlers of each server, and the main thread, close any of them.     *)
Anyone == [t \in {s1, s2, Main} |-> {s1, s2}]

(* The main thread alone.                                                   *)
MainOnly == [t \in {s1, s2, Main} |-> IF t = Main THEN {s1, s2} ELSE {}]
=============================================================================
