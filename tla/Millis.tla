------------------------------- MODULE Millis -------------------------------
(***************************************************************************)
(* The arithmetic of time stamps.  millis() returns a 32 bit unsigned long;  *)
(* the code stores some stamps in an int and subtracts without looking at    *)
(* the signs.  Word stands for 2^32, so that the width can be small in a     *)
(* model that TLC explores and is arbitrary in the proofs.                   *)
(***************************************************************************)
EXTENDS Integers

CONSTANT Word        \* 2^32: the values of an unsigned long are 0 .. Word-1

ASSUME WordAssumption == Word \in Nat /\ Word > 2 /\ Word % 2 = 0

HalfWord == Word \div 2

(* unsigned long minus unsigned long, the operands in 0 .. Word-1 *)
USub(a, b) == IF a >= b THEN a - b ELSE a - b + Word

(* the assignment of an unsigned long to an int, and the conversion back     *)
ToIntKept(u) == u    \* fault: the stamp keeps its unsigned value
ToInt(u) == IF u < HalfWord THEN u ELSE u - Word
ToUnsigned(i) == IF i < 0 THEN i + Word ELSE i
=============================================================================
