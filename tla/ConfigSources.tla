---------------------------- MODULE ConfigSources ----------------------------
(***************************************************************************)
(* What the configuration promises whoever sets an option: the sources     *)
(* come in the order command line, environment, files, and a value that    *)
(* the command line or the environment gave is held; no later source       *)
(* touches a held option, and once the options are in use nothing does.    *)
(***************************************************************************)
EXTENDS Integers, Sequences

VARIABLES
    phase,      \* "declare", "line", "env", "files", "use" or "end"
    values,     \* the values of each option
    held        \* whether each option is held

vars == <<phase, values, held>>

Init == phase = "declare" /\ values = <<>> /\ held = <<>>

\* Options are added, without a value.
Declare ==
    /\ phase = "declare"
    /\ DOMAIN values \subseteq DOMAIN values' /\ DOMAIN held' = DOMAIN values'
    /\ \A o \in DOMAIN values' : values'[o] = <<>> /\ ~held'[o]
    /\ phase' \in {"declare", "line"}

Others(o) == \A p \in DOMAIN values \ {o} : values'[p] = values[p] /\ held'[p] = held[p]

\* The command line names an option, once or several times.
Line(o) ==
    /\ phase = "line"
    /\ Others(o)
    /\ DOMAIN values' = DOMAIN values /\ DOMAIN held' = DOMAIN held
    /\ values'[o] # <<>> /\ held'[o]
    /\ \A k \in DOMAIN values[o] : values'[o][k] = values[o][k]
    /\ UNCHANGED phase

\* The environment has a variable for an option that is not held: it adds a
\* value, or holds what there is.
Env(o) ==
    /\ phase = "env"
    /\ Others(o)
    /\ DOMAIN values' = DOMAIN values /\ DOMAIN held' = DOMAIN held
    /\ ~held[o]
    /\ Len(values'[o]) \in Len(values[o]) .. Len(values[o]) + 1
    /\ \A k \in DOMAIN values[o] : values'[o][k] = values[o][k]
    /\ UNCHANGED phase

\* A file gives, takes or changes values of an option that is not held.
File(o) ==
    /\ phase = "files"
    /\ Others(o)
    /\ DOMAIN values' = DOMAIN values
    /\ ~held[o]
    /\ UNCHANGED <<held, phase>>

Order == <<"line", "env", "files", "use">>

NextPhase ==
    /\ \E k \in 1 .. 3 : phase = Order[k] /\ phase' = Order[k + 1]
    /\ UNCHANGED <<values, held>>

\* The program gives up, or is done with the configuration.
End == phase' = "end"

Next ==
    \/ End
    \/ Declare
    \/ \E o \in DOMAIN values : Line(o) \/ Env(o) \/ File(o)
    \/ NextPhase

Spec == Init /\ [][Next]_vars
=============================================================================
