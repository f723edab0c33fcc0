------------------------------- MODULE Mirror -------------------------------
(***************************************************************************)
(* What one pane of the projector promises, whatever lies between it and   *)
(* the engine: it shows a book only if the engine of the present life has  *)
(* had that book, and it only moves forward, over restarts too.            *)
(***************************************************************************)
EXTENDS Integers

VARIABLES
    life,   \* which life of the server this is
    truth,  \* the seq of its last good book
    shown,  \* the seq on screen
    from    \* the life that book is from

vars == <<life, truth, shown, from>>

Init == life = 1 /\ truth = 0 /\ shown = 0 /\ from = 0

Trade   == truth' = truth + 1 /\ UNCHANGED <<life, shown, from>>
Restart == life' = life + 1 /\ truth' = 0 /\ UNCHANGED <<shown, from>>
Show    == shown' \in shown + 1 .. truth /\ from' = life /\ UNCHANGED <<life, truth>>

Spec == Init /\ [][Trade \/ Restart \/ Show]_vars
=============================================================================
