-------------------------- MODULE ConsoleRegistry --------------------------
(***************************************************************************)
(* What the console registry promises its callers: a set of registered     *)
(* consoles, at most one of them active, and a lifetime budget of          *)
(* MAX_CONSOLES registrations.  Module Console implements it with an array *)
(* and driver callbacks.                                                   *)
(***************************************************************************)
EXTENDS Naturals

CONSTANTS Consoles, NULL, MAX_CONSOLES

VARIABLES
    registered,      \* the consoles a driver has lent to the kernel
    registrations,   \* how many registrations have ever succeeded
    active,          \* the console that serves input and output, or NULL
    call             \* the last call and its answer

vars == <<registered, registrations, active, call>>

Init ==
    /\ registered = {}
    /\ registrations = 0
    /\ active = NULL
    /\ call = [op |-> "none", console |-> NULL, ok |-> FALSE]

Answered(op, c, ok) == call' = [op |-> op, console |-> c, ok |-> ok]

Refused(op, c) ==
    /\ Answered(op, c, FALSE)
    /\ UNCHANGED <<registered, registrations, active>>

\* The first registration of all also activates the console.
Enter(c) ==
    /\ c \notin registered
    /\ registrations < MAX_CONSOLES
    /\ registered' = registered \cup {c}
    /\ registrations' = registrations + 1
    /\ active' = IF registrations = 0 THEN c ELSE active
    /\ Answered("register", c, TRUE)

\* Any departure leaves the kernel without an active console.
Leave(c) ==
    /\ c \in registered
    /\ registered' = registered \ {c}
    /\ active' = NULL
    /\ Answered("deregister", c, TRUE)
    /\ UNCHANGED registrations

Activate(c) ==
    /\ c \in registered
    /\ active' = c
    /\ Answered("activate", c, TRUE)
    /\ UNCHANGED <<registered, registrations>>

Deactivate ==
    /\ active' = NULL
    /\ Answered("deactivate", NULL, active # NULL)
    /\ UNCHANGED <<registered, registrations>>

\* Only a registered console ever serves input or output.
Serve(op) ==
    /\ active # NULL => active \in registered
    /\ Answered(op, active, active # NULL)
    /\ UNCHANGED <<registered, registrations, active>>

Next ==
    \/ \E c \in Consoles : Enter(c) \/ Leave(c) \/ Activate(c)
    \/ \E c \in Consoles \cup {NULL} :
        \/ (c \in registered \cup {NULL} \/ registrations = MAX_CONSOLES)
            /\ Refused("register", c)
        \/ c \notin registered /\ Refused("deregister", c)
        \/ c \notin registered /\ Refused("activate", c)
    \/ Deactivate
    \/ \E op \in {"read", "write", "put"} : Serve(op)

Spec == Init /\ [][Next]_vars
=============================================================================
