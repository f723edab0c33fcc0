------------------------------- MODULE MCHub --------------------------------
(* Two connections for TLC: a projector with two topics, and a phone whose topics nothing is published on. *)
EXTENDS Hub

CONSTANTS projector, phone

MCTopicsOf == (projector :> <<"book", "stats">>) @@ (phone :> <<>>)
MCFaults == (projector :> {"silence", "close"}) @@ (phone :> {})
=============================================================================
