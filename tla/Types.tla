------------------------------- MODULE Types -------------------------------
(***************************************************************************)
(* The domain types of internal/engine/types.go and the machine integers   *)
(* they are made of.                                                       *)
(***************************************************************************)
EXTENDS Integers

CONSTANTS
    Sessions,   \* the anonymous session ids the transport hands to phones
    Int64Half   \* int64 ranges over -Int64Half .. Int64Half - 1 (2^63 in the code)

\* The wrap of a two's complement register needs at least one value a side.
ASSUME Int64HalfAssumption == Int64Half \in Nat \ {0}

(***************************************************************************)
(* Buy is 0 and Sell is 1 because Opposite is written 1 - s.               *)
(***************************************************************************)
Buy == 0
Sell == 1
Sides == {Buy, Sell}
Opposite(s) == 1 - s

\* Why a command is refused.
RejectReasons == {"BAD_QUANTITY", "BAD_PRICE", "UNKNOWN_ORDER", "NOT_OWNER"}

\* What a Go int64 holds after an arithmetic operation gave x: overflow wraps.
Int64(x) == ((x + Int64Half) % (2 * Int64Half)) - Int64Half

\* The values of an int64 variable.
Int64s == (-Int64Half) .. (Int64Half - 1)
=============================================================================
