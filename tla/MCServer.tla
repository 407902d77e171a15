------------------------------ MODULE MCServer ------------------------------
(* Instances of Server for TLC. *)
EXTENDS Server, TLC

\* The fds of clients, the cells and the connections are interchangeable.
Symmetry == Permutations(Fds \ {SignalFd, ListenFd}) \cup Permutations(Ecs) \cup Permutations(Conns)

=============================================================================
