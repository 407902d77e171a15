------------------------------ MODULE RouteTable ------------------------------
(***************************************************************************)
(* What the router promises: a table of routes in the order they were      *)
(* bound.  A request goes to the default container first, if there is one  *)
(* and only until it serves a request itself; then to exactly one other:   *)
(* that of the first route the url begins with, or of some such route when *)
(* the router is not to stop at the first, or the null container, which    *)
(* serves nothing, when there is no such route.                            *)
(***************************************************************************)
EXTENDS Integers, Sequences, SequencesExt

CONSTANTS
    Routes, Urls, Containers, Null,
    First       \* whether the first match decides

VARIABLES
    table,      \* <<route, container>> in the order of binding
    default,    \* the default container, or Null
    url,        \* the latest request
    calls,      \* the containers it went to
    ret         \* what the last of them returned: 0, or -1 when it served nothing

vars == <<table, default, url, calls, ret>>

Init == table = <<>> /\ default = Null /\ url = <<>> /\ calls = <<>> /\ ret = 0

Bind ==
    /\ UNCHANGED <<default, url, calls, ret>>
    /\ \E route \in Routes, c \in Containers : table' = Append(table, <<route, c>>)

SetDefault ==
    /\ default' \in Containers
    /\ UNCHANGED <<table, url, calls, ret>>

Matches(u) == LET routes == table IN {i \in DOMAIN routes : IsPrefix(routes[i][1], u)}

Targets(u) ==
    LET matches == Matches(u)
    IN  IF matches = {} THEN {Null}
        ELSE {table[i][2] : i \in {k \in matches : First => \A j \in matches : k <= j}}

Serve ==
    /\ url' \in Urls
    /\ \/ /\ default # Null
          /\ calls' = <<default>> /\ ret' = 0
       \/ \E c \in Targets(url') :
            /\ calls' = (IF default = Null THEN <<>> ELSE <<default>>) \o <<c>>
            /\ ret' \in (IF c = Null THEN {-1} ELSE {0, -1})
    /\ UNCHANGED <<table, default>>

Next == Bind \/ SetDefault \/ Serve

Spec == Init /\ [][Next]_vars
=============================================================================
