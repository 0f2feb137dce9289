--------------------------------- MODULE Word ---------------------------------
(***************************************************************************)
(* The values of the C++ type unsigned.                                    *)
(***************************************************************************)
EXTENDS Integers

CONSTANT Modulus  \* 2^32

ASSUME WordAssumption == Modulus \in Nat \ {0}

Unsigned(x) == x % Modulus
===============================================================================
