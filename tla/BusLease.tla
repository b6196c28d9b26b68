------------------------------ MODULE BusLease ------------------------------
(***************************************************************************)
(* What the session layer of swd_host.c promises about the target wires:   *)
(* the bus is leased to one task at a time, the wires are driven only      *)
(* under a lease, and a lease ends only when nothing is driven any more.   *)
(* swd_host.h puts it as "Disconnect pins before releasing ownership".     *)
(***************************************************************************)
CONSTANTS Tasks,      \* the FreeRTOS tasks that call the host API
          NoTask      \* the owner while nobody has a session, none of Tasks

VARIABLES owner,      \* the task whose session it is
          driven      \* TRUE while some wire to the target is enabled

vars == <<owner, driven>>

Init == owner = NoTask /\ driven = FALSE

Acquire(t) == owner = NoTask /\ owner' = t /\ UNCHANGED driven

\* The owner switches wires on and off as it likes.
Use(t) == owner = t /\ driven' \in BOOLEAN /\ UNCHANGED owner

Release(t) == owner = t /\ ~driven /\ owner' = NoTask /\ UNCHANGED driven

Next == \E t \in Tasks : Acquire(t) \/ Use(t) \/ Release(t)

Spec == Init /\ [][Next]_vars
=============================================================================
