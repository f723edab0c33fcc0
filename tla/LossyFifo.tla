----------------------------- MODULE LossyFifo -----------------------------
(***************************************************************************)
(* What a lane promises its audience: frames may be late and frames may be *)
(* missing, but what arrives arrives once and in the order it was sent.    *)
(* Frames are numbered as they are sent.                                   *)
(***************************************************************************)
EXTENDS Integers, Sequences

VARIABLES
    sent,  \* how many frames were sent
    got    \* the frames that arrived

InOrder(s) == \A i, j \in 1 .. Len(s) : i < j => s[i] < s[j]

Init == sent = 0 /\ got = <<>>

Send == sent' = sent + 1 /\ UNCHANGED got

\* Any number of frames at once, all newer than what arrived before.
Arrive ==
    /\ Len(got') > Len(got)
    /\ SubSeq(got', 1, Len(got)) = got
    /\ InOrder(got')
    /\ got'[Len(got')] <= sent
    /\ UNCHANGED sent

Next == Send \/ Arrive

Spec == Init /\ [][Next]_<<sent, got>>
=============================================================================
