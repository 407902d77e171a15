------------------------------ MODULE HTTPRouter ------------------------------
(***************************************************************************)
(* The router (src/src/httprouter.c): bindings of routes to containers in  *)
(* a linked list of packs, the first of them inside struct HTTPRouter, and *)
(* the scan that finds the container of a request.                         *)
(*                                                                         *)
(* A route or a url is a sequence of path characters.  packs is the list   *)
(* that starts at router->pack and follows next, last the place in it of   *)
(* router->last.                                                           *)
(***************************************************************************)
EXTENDS Integers, Sequences, SequencesExt

CONSTANTS
    ROUTE_BASE_LEN,   \* shorter routes are kept inside the binding
    ROUTE_GROUP_LEN,  \* bindings in a pack
    ROUTE_MAX_LEN,    \* longer routes are refused
    Routes,           \* what http_router_bind is called with
    Urls,             \* what clients ask for
    Containers,
    NULL,
    match_mode,       \* "ROUTE_MATCH_FIRST" or "ROUTE_MATCH_LONGEST"
    MaxBindings,      \* bound on the bindings
    Faulty            \* whether allocations may fail

ASSUME RouterAssumption ==
    /\ ROUTE_BASE_LEN \in Nat \ {0} /\ ROUTE_MAX_LEN \in Nat
    /\ ROUTE_GROUP_LEN \in Nat \ {0}
    /\ \A s \in Routes \cup Urls : s \in Seq(ToSet(s))
    /\ NULL \notin Containers \cup Routes
    /\ match_mode \in {"ROUTE_MATCH_FIRST", "ROUTE_MATCH_LONGEST"}
    /\ MaxBindings \in Nat
    /\ Faulty \in BOOLEAN

VARIABLES
    packs, last, starter,
    url,      \* the latest request
    calls,    \* the containers it went to; NULL is router->null
    ret,      \* what http_router_serve returned
    aborted   \* whether an assertion failed

vars == <<packs, last, starter, url, calls, ret, aborted>>

\* All bindings in the order of the scan.
Scan == FlattenSeq(packs)

\* http_router_new.
Init ==
    /\ packs = << <<>> >> /\ last = 1
    /\ starter = NULL
    /\ url = <<>> /\ calls = <<>> /\ ret = 0
    /\ aborted = FALSE

Binding(route, length, cont) == [route |-> route, route_len |-> length, container |-> cont]

\* What route_pack_bind may leave in the binding: when memory_strdup fails the
\* route is NULL and nobody notices.
NewBindings(route, cont) ==
    {Binding(route, Len(route), cont)}
        \cup (IF Faulty /\ Len(route) >= ROUTE_BASE_LEN
              THEN {Binding(NULL, Len(route), cont)} ELSE {})

\* Mutant: no limit.
Refused_never(route) == FALSE

\* strlen(route) > ROUTE_MAX_LEN: http_router_bind returns -1.
Refused(route) == Len(route) > ROUTE_MAX_LEN

\* route_pack_bind with a pack that has room.
BindHere(binding) ==
    /\ Len(packs[last]) < ROUTE_GROUP_LEN
    /\ packs' = [packs EXCEPT ![last] = Append(packs[last], binding)]
    /\ UNCHANGED last

\* Mutant: router->last is not moved on.
BindNext_keeps_last(binding) ==
    /\ Len(packs[last]) = ROUTE_GROUP_LEN
    /\ packs' = SubSeq(packs, 1, last) \o << <<binding>> >>
    /\ UNCHANGED last

\* route_pack_bind with a full pack: what next pointed to is replaced.
BindNext(binding) ==
    /\ Len(packs[last]) = ROUTE_GROUP_LEN
    /\ packs' = SubSeq(packs, 1, last) \o << <<binding>> >>
    /\ last' = last + 1

http_router_bind(route, cont) ==
    /\ ~aborted /\ Len(Scan) < MaxBindings
    /\ ~Refused(route)
    /\ \E binding \in NewBindings(route, cont) : BindHere(binding) \/ BindNext(binding)
    /\ UNCHANGED <<starter, url, calls, ret, aborted>>

\* memory_create returns NULL for the next pack, which route_pack_bind asserts.
BindAborts ==
    /\ ~aborted /\ Faulty /\ Len(packs[last]) = ROUTE_GROUP_LEN
    /\ Len(Scan) < MaxBindings
    /\ aborted' = TRUE
    /\ UNCHANGED <<packs, last, starter, url, calls, ret>>

http_router_set_default_container(cont) ==
    /\ ~aborted
    /\ starter' = cont
    /\ UNCHANGED <<packs, last, url, calls, ret, aborted>>

-----------------------------------------------------------------------------
\* How many characters of s1 and s2 agree.
strmatch(s1, s2) == IF s2 = NULL THEN 0 ELSE Len(LongestCommonPrefix({s1, s2}))

Candidates(u) == {i \in DOMAIN Scan : strmatch(u, Scan[i].route) >= Scan[i].route_len}

\* Mutant: found is never set.
container_last(u) ==
    IF Candidates(u) = {} THEN NULL
    ELSE Scan[CHOOSE k \in Candidates(u) : \A j \in Candidates(u) : k >= j].container

\* The candidate the scan ends with: it stops at the first, or goes on and
\* keeps the last.
container(u) ==
    LET found == Candidates(u)
        i == CHOOSE k \in found :
                \A j \in found : IF match_mode = "ROUTE_MATCH_FIRST" THEN k <= j ELSE k >= j
    IN  IF found = {} THEN NULL ELSE Scan[i].container

\* What a container's serve callback may return.
Returns(c) == IF c = NULL THEN {-1} ELSE {0, -1}

http_router_serve(u) ==
    /\ ~aborted
    /\ url' = u
    /\ \/ /\ starter # NULL
          /\ calls' = <<starter>> /\ ret' = 0
       \/ /\ calls' = (IF starter # NULL THEN <<starter>> ELSE <<>>) \o <<container(u)>>
          /\ ret' \in Returns(container(u))
    /\ UNCHANGED <<packs, last, starter, aborted>>

Aborted == aborted /\ UNCHANGED vars

Next ==
    \/ \E r \in Routes, c \in Containers : http_router_bind(r, c)
    \/ BindAborts
    \/ \E c \in Containers : http_router_set_default_container(c)
    \/ \E u \in Urls : http_router_serve(u)
    \/ Aborted

Spec == Init /\ [][Next]_vars

-----------------------------------------------------------------------------
(* Properties.                                                             *)

BindingRecord == [route : Routes \cup {NULL}, route_len : 0 .. ROUTE_MAX_LEN,
                  container : Containers]

\* The type invariant.
TypeOK ==
    /\ packs \in Seq(Seq(BindingRecord)) /\ last \in Nat
    /\ starter \in Containers \cup {NULL}
    /\ url \in Urls \cup {<<>>}
    /\ calls \in Seq(Containers \cup {NULL}) /\ ret \in {0, -1}
    /\ aborted \in BOOLEAN

\* router->last is the end of the list and all the packs before it are full,
\* so a binding never cuts off packs that hold others (httprouter.c:117
\* overwrites pack->next) and none is written behind bindings[].
PacksFilled ==
    /\ last = Len(packs)
    /\ \A i \in DOMAIN packs :
        IF i < last THEN Len(packs[i]) = ROUTE_GROUP_LEN
        ELSE Len(packs[i]) <= ROUTE_GROUP_LEN

\* The packs behave as a flat table in binding order, and a binding that lost
\* its route to a failed allocation as if it had not been made: it neither
\* gets a request nor takes one away from the others.
Entry(b) == IF b.route = NULL THEN <<>> ELSE << <<b.route, b.container>> >>
Kept == LET scan == Scan IN FlattenSeq([i \in DOMAIN scan |-> Entry(scan[i])])
Table == INSTANCE RouteTable
    WITH Null <- NULL, First <- (match_mode = "ROUTE_MATCH_FIRST"),
         table <- Kept, default <- starter
KeepsTable == Table!Spec

\* "we scan all the routes and automatically update the container to the
\* longest match we find" (httprouter.c:234-235).
LongestMatch ==
    match_mode = "ROUTE_MATCH_LONGEST" =>
    \A u \in Urls : Candidates(u) # {} =>
        \E i \in Candidates(u) :
            /\ container(u) = Scan[i].container
            /\ \A j \in Candidates(u) : Scan[j].route_len <= Scan[i].route_len

=============================================================================
