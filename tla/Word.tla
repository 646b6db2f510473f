-------------------------------- MODULE Word --------------------------------
(***************************************************************************)
(* The unsigned machine words hexxed computes offsets with: cursor_t,      *)
(* size_t and uint64_t are all 64 bits wide on the supported builds.       *)
(* Modulus is 2^64 there; a model uses a small one that is still far from  *)
(* every size and height it uses, so that a wrapped value is as far out of *)
(* the buffer as it is in the program.                                     *)
(*                                                                         *)
(* A C expression made of +, - and * is written over the integers and      *)
(* wrapped once: the wrapped result does not depend on where it is done.   *)
(***************************************************************************)
EXTENDS Integers

CONSTANT Modulus

ASSUME ModulusAssumption == Modulus \in Nat \ {0}

Word == 0 .. Modulus - 1

\* The word an integer expression leaves in an unsigned variable.  An int
\* operand (the screen's height) is sign-extended first: same residue.
Wrap(i) == i % Modulus

\* A word read back through an int64_t.
Signed(x) == IF x < Modulus \div 2 THEN x ELSE x - Modulus

=============================================================================
