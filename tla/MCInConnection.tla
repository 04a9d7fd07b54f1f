--------------------------- MODULE MCInConnection ---------------------------
(* Peers for TLC: what clients of a small server send.                      *)
EXTENDS InConnection

MCIds == {1, 2}

line(i) == [id |-> i, kind |-> "line", more |-> FALSE, final |-> FALSE]
head(i, fin) == [id |-> i, kind |-> "headers", more |-> FALSE, final |-> fin]
headBody(i) == [id |-> i, kind |-> "headers", more |-> TRUE, final |-> FALSE]
body(i, fin) == [id |-> i, kind |-> "body", more |-> FALSE, final |-> fin]
junk(i) == [id |-> i, kind |-> "junk", more |-> FALSE, final |-> FALSE]

Get(i) == <<line(i), head(i, FALSE)>>
GetClose(i) == <<line(i), head(i, TRUE)>>
Post(i) == <<line(i), headBody(i), body(i, FALSE)>>
Bad(i) == <<line(i), junk(i)>>

(* nothing, one request of each shape, two on one connection.               *)
MCScripts ==
    {<<>>, Get(1), Post(1), Bad(1), GetClose(1) \o Get(2), Get(1) \o Post(2)}

=============================================================================
