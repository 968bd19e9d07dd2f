-------------------------------- MODULE Word --------------------------------
(***************************************************************************)
(* The fixed-width unsigned integers the engine computes with.  The width  *)
(* of u32 is a parameter, so that a small instance meets the limits that   *)
(* the program meets at 2^32; u64 is twice as wide.                        *)
(***************************************************************************)
EXTENDS Integers

CONSTANT U32_MAX    \* u32::MAX

ASSUME WordAssumption == U32_MAX \in Nat \ {0}

U32 == 0 .. U32_MAX

U64_MAX == (U32_MAX + 1) * (U32_MAX + 1) - 1

\* x as u32, of a u64: the high half is dropped.
AsU32(x) == x % (U32_MAX + 1)

\* What a chain of u32::saturating_add calls makes of the exact sum x.
SaturatingU32(x) == IF x > U32_MAX THEN U32_MAX ELSE x

\* Mutant of Lesser: max for min.
Greater(x, y) == IF x < y THEN y ELSE x

\* Ord::min
Lesser(x, y) == IF x < y THEN x ELSE y
=============================================================================
