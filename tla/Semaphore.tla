------------------------------ MODULE Semaphore ------------------------------
(***************************************************************************)
(* What the worker slots of one category promise: of all the slots ever    *)
(* granted at most Cap are in use, and a slot is granted at most once.     *)
(***************************************************************************)
EXTENDS Naturals, FiniteSets

CONSTANTS
    Slots,      \* slot ids (uuid4), never used twice
    Cap         \* max_concurrent, a natural number

VARIABLES
    inUse,      \* slots that count against the cap
    granted     \* slots granted so far

vars == <<inUse, granted>>

Init == inUse = {} /\ granted = {}

\* Any slots in use may lapse when the next one is granted.
Grant ==
    \E s \in Slots \ granted, lapsed \in SUBSET inUse :
        /\ inUse' = (inUse \ lapsed) \union {s}
        /\ granted' = granted \union {s}
        /\ Cardinality(inUse') <= Cap

\* A slot is given back, or lapses.
Return == inUse' \in SUBSET inUse /\ UNCHANGED granted

Next == Grant \/ Return

Spec == Init /\ [][Next]_vars
==============================================================================
