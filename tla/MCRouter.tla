------------------------------ MODULE MCRouter ------------------------------
(* URLs that differ where the router splits them.                           *)
EXTENDS Router

slash == "/"

(* Empty; the root; one segment with, without and with another first        *)
(* character; a trailing slash; two segments; an empty segment.             *)
MCUrls == {<<>>, <<slash>>, <<slash, "a">>, <<"a", "a">>, <<slash, "b">>,
           <<slash, "a", slash>>, <<slash, "a", slash, "b">>, <<slash, slash>>}

MCFew == {<<slash>>, <<slash, "a">>, <<slash, "a", slash, "b">>}

=============================================================================
