------------------------------- MODULE Router -------------------------------
(***************************************************************************)
(* router.cpp: the tree of Routes that on() builds and operator() walks.   *)
(*                                                                         *)
(* A Router keeps its root Route by value and reaches the others through   *)
(* pointers, and a Server keeps a copy of the Router it is given: the root *)
(* is copied, everything below it is shared.  Servers is the set of those  *)
(* that get a copy; the program goes on using the original.  on() and a    *)
(* request are atomic here, as they are for a program that does both on    *)
(* one thread.                                                             *)
(***************************************************************************)
EXTENDS Integers, SequencesExt

CONSTANTS Servers,
          Slash,     \* the character "/"
          Urls,      \* the URLs in use, as sequences of characters
          Methods,   \* the methods in use, all of them below Method::Count
          Unknown,   \* Method::Unknown
          MaxOn,     \* bound: calls of on()
          Asked      \* bound: the URLs of the requests

ASSUME MethodsAssumption == Unknown \notin Methods
ASSUME UrlsAssumption ==
    Asked \subseteq Urls /\ \A u \in Urls : u \in Seq(Range(u))

VARIABLES
    mem,       \* the Routes that exist; an address is an index
    original,  \* the program's Router
    copy,      \* copy[s]: the Router in the httpRequestCallback of s
    log,       \* the calls of on() so far; a callback is named by its index
    given,     \* given[s]: calls of on() before s was given its copy
    answer,    \* answer[s]: the last Response the Router filled in for s
    crash      \* an exception left operator(): nothing catches it

vars == <<mem, original, copy, log, given, answer, crash>>

None == 0

(* The callbacks a Router starts with, and those a program replaces them by.*)
Handlers == {"default", "user"}

NoRouter == [root |-> None, notFound |-> "default", error |-> "default"]

NewRoute == [methods |-> [m \in Methods |-> None], routes |-> <<>>]

NewResponse == [status |-> "OK", body |-> <<>>]

-----------------------------------------------------------------------------
(* URLIterator.  Positions count from 0, as in the code.                    *)
IndexOf(url, begin) ==
    LET hits == {i \in begin..Len(url) - 1 : url[i + 1] = Slash} IN
    IF hits = {} THEN Len(url) ELSE Min(hits)

(* begin() skips the first character, whatever it is; end() stands one      *)
(* behind the end of the string.                                            *)
Segments(url) ==
    LET from[begin \in 1..Len(url) + 1] ==
            IF begin = Len(url) + 1 THEN <<>>
            ELSE LET end == IndexOf(url, begin) IN
                 <<SubSeq(url, begin + 1, end)>> \o from[end + 1]
    IN from[1]

(* One round of the loop in on(): the sub-route, made if there is none.     *)
Enter_MakesNew(s, segment) ==
    [mem |-> Append([s.mem EXCEPT ![s.at].routes =
                        (segment :> Len(s.mem) + 1) @@ @], NewRoute),
     at  |-> Len(s.mem) + 1]

Enter(s, segment) ==
    LET routes == s.mem[s.at].routes IN
    IF segment \in DOMAIN routes
    THEN [s EXCEPT !.at = routes[segment]]
    ELSE LET new == Len(s.mem) + 1
             more == [k \in DOMAIN routes \cup {segment} |->
                         IF k = segment THEN new ELSE routes[k]] IN
         [mem |-> Append([s.mem EXCEPT ![s.at].routes = more], NewRoute),
          at  |-> new]

(* One round of the loop in operator(): find only.                          *)
Follow(a, segment) ==
    IF a # None /\ segment \in DOMAIN mem[a].routes
    THEN mem[a].routes[segment]
    ELSE None

(* The callback a Router finds, or None.                                    *)
Lookup(router, method, url) ==
    LET a == FoldLeft(Follow, router.root, Segments(url)) IN
    IF method = Unknown \/ a = None THEN None ELSE mem[a].methods[method]

-----------------------------------------------------------------------------
(* What the program's own code does with a Response: leave it alone or set  *)
(* its status and add to its body, then return, throw a std::exception, or  *)
(* throw something else.                                                    *)
Exits == {"return", "exception", "other"}

UserCode(author, res) ==
    [res  : {res, [status |-> "set", body |-> Append(res.body, author)]},
     exit : Exits]

Returned(res) == [res |-> res, exit |-> "return"]

NotFound(router, res) ==
    IF router.notFound = "user" THEN UserCode("userNotFound", res)
    ELSE {Returned([res EXCEPT !.body = Append(@, "404")])}

(* The default error callback clears the body.                              *)
Failed_KeepsBody(router, res) ==
    IF router.error = "user" THEN UserCode("userError", res)
    ELSE {Returned([res EXCEPT !.body = Append(@, "500")])}

Failed(router, res) ==
    IF router.error = "user" THEN UserCode("userError", res)
    ELSE {Returned([res EXCEPT !.body = <<"500">>])}

Dispatch(router, method, url) ==
    LET callback == Lookup(router, method, url) IN
    IF callback = None
    THEN NotFound(router, [NewResponse EXCEPT !.status = "NotFound"])
    ELSE UserCode("callback", NewResponse)

(* operator() with its catch clause, which the callback of a missing route  *)
(* is under as well; an exception of the error callback leaves it.          *)
Call(router, method, url) ==
    UNION {IF r.exit = "exception"
           THEN Failed(router, [r.res EXCEPT !.status = "InternalServerError"])
           ELSE {r} : r \in Dispatch(router, method, url)}

-----------------------------------------------------------------------------
Init ==
    /\ mem = <<NewRoute>>
    /\ original = [NoRouter EXCEPT !.root = 1]
    /\ copy = [s \in Servers |-> NoRouter]
    /\ log = <<>>
    /\ given = [s \in Servers |-> 0]
    /\ answer = [s \in Servers |-> NewResponse]
    /\ crash = FALSE

on(method, url) ==
    /\ ~crash /\ Len(log) < MaxOn
    /\ LET s == FoldLeft(Enter, [mem |-> mem, at |-> original.root], Segments(url)) IN
       mem' = [s.mem EXCEPT ![s.at].methods[method] = Len(log) + 1]
    /\ log' = Append(log, [method |-> method, url |-> url])
    /\ UNCHANGED <<original, copy, given, answer, crash>>

notFound ==
    /\ ~crash
    /\ original' = [original EXCEPT !.notFound = "user"]
    /\ UNCHANGED <<mem, copy, log, given, answer, crash>>

error ==
    /\ ~crash
    /\ original' = [original EXCEPT !.error = "user"]
    /\ UNCHANGED <<mem, copy, log, given, answer, crash>>

(* onHttpRequest(router): the std::function copies the Router.              *)
onHttpRequest_CopiesNothing(s) ==
    /\ ~crash /\ copy[s] = NoRouter
    /\ copy' = [copy EXCEPT ![s] = [original EXCEPT !.root = Len(mem) + 1]]
    /\ given' = [given EXCEPT ![s] = Len(log)]
    /\ UNCHANGED <<mem, original, log, answer, crash>>

onHttpRequest(s) ==
    /\ ~crash /\ copy[s] = NoRouter
    /\ mem' = Append(mem, mem[original.root])
    /\ copy' = [copy EXCEPT ![s] = [original EXCEPT !.root = Len(mem) + 1]]
    /\ given' = [given EXCEPT ![s] = Len(log)]
    /\ UNCHANGED <<original, log, answer, crash>>

(* A request for which the server calls its copy with a new Response.       *)
Request(s, method, url) ==
    /\ ~crash /\ copy[s] # NoRouter
    /\ \E r \in Call(copy[s], method, url) :
          /\ answer' = [answer EXCEPT ![s] = r.res]
          /\ crash' = (r.exit # "return")
    /\ UNCHANGED <<mem, original, copy, log, given>>

Next ==
    \/ \E m \in Methods, u \in Urls : on(m, u)
    \/ notFound \/ error
    \/ \E s \in Servers : onHttpRequest(s)
    \/ \E s \in Servers, m \in Methods \cup {Unknown}, u \in Asked : Request(s, m, u)

Spec == Init /\ [][Next]_vars

-----------------------------------------------------------------------------
Address == 1..Len(mem)

Routers == {original} \cup {copy[s] : s \in {t \in Servers : copy[t] # NoRouter}}

TypeOK ==
    /\ \A a \in Address :
          /\ mem[a].methods \in [Methods -> 0..Len(log)]
          /\ \A segment \in DOMAIN mem[a].routes : mem[a].routes[segment] \in Address
    /\ \A r \in Routers : r.root \in Address /\ r.notFound \in Handlers
                                             /\ r.error \in Handlers
    /\ \A i \in DOMAIN log : log[i] \in [method : Methods, url : Urls]
    /\ given \in [Servers -> 0..Len(log)]
    /\ \A s \in Servers : answer[s].status \in
          {"OK", "set", "NotFound", "InternalServerError"}
    /\ crash \in BOOLEAN

(* Two URLs name one route iff they differ at most in their first           *)
(* character; the empty one names the root.                                 *)
SamePath(u, v) ==
    \/ u = <<>> /\ v = <<>>
    \/ u # <<>> /\ v # <<>> /\ Tail(u) = Tail(v)

(* They go through the same child of the root: the first segments agree.    *)
SameBranch(u, v) ==
    /\ u # <<>> /\ v # <<>>
    /\ \E k \in 1..Len(u) :
          /\ k <= Len(v)
          /\ SubSeq(u, 2, k) = SubSeq(v, 2, k)
          /\ \A i \in 2..k : u[i] # Slash
          /\ k = Len(u) \/ u[k + 1] = Slash
          /\ k = Len(v) \/ v[k + 1] = Slash

(* The calls of on() that a Router copied after the first n of them knows:  *)
(* those n, and the later ones under a branch the root had by then.         *)
Known(n) ==
    {i \in DOMAIN log :
        i <= n \/ \E j \in 1..n : SameBranch(log[i].url, log[j].url)}

Expected(n, method, url) ==
    LET calls == {i \in Known(n) : log[i].method = method
                                   /\ SamePath(log[i].url, url)} IN
    IF calls = {} THEN None ELSE Max(calls)

(* The tree finds, for every method and URL, the callback last registered   *)
(* for them and no other, in the program's Router and in every server's     *)
(* copy of it, whenever the copies were made; an unknown method has none.   *)
RoutesAsRegistered ==
    \A m \in Methods \cup {Unknown}, u \in Urls :
        /\ Lookup(original, m, u) = Expected(Len(log), m, u)
        /\ \A s \in Servers : copy[s] # NoRouter =>
              Lookup(copy[s], m, u) = Expected(given[s], m, u)

(* The default pages are all there is in a Response that has one: what a    *)
(* handler wrote before it threw is gone, and the status fits.              *)
DefaultPagesClean ==
    \A s \in Servers : \A i \in DOMAIN answer[s].body :
        /\ answer[s].body[i] = "500" =>
              answer[s] = [status |-> "InternalServerError", body |-> <<"500">>]
        /\ answer[s].body[i] = "404" =>
              answer[s] = [status |-> "NotFound", body |-> <<"404">>]
=============================================================================
