------------------------------- MODULE RKeys -------------------------------
(***************************************************************************)
(* The keys of the radix tree as strings of digits, and the parameters of  *)
(* its nodes (src/src/radix_tree/radix_tree.h, r_nodes.h).  The types of   *)
(* nodes are the indices of Capacity, where the code has 4, 16, 48 and     *)
(* 256.                                                                    *)
(***************************************************************************)
EXTENDS Integers, Sequences

CONSTANTS Base,         \* the number of digits (256: digits are bytes)
          Digits,       \* the length of a key in digits (8)
          Capacity,     \* the number of children of each type of node
          NodeSize,     \* and its bytes (64, 168, 920, 2072)
          FrameSize     \* the bytes of an RFrame (16)

ASSUME RKeysAssumption ==
  /\ Base \in Nat \ {0} /\ Digits \in Nat \ {0} /\ FrameSize \in Nat
  /\ Capacity \in Seq(Nat \ {0}) /\ Capacity # << >>
  /\ NodeSize \in Seq(Nat) /\ Len(NodeSize) = Len(Capacity)
  /\ \A i \in 1 .. Len(Capacity) - 1 : Capacity[i] < Capacity[i + 1]
  /\ Capacity[Len(Capacity)] >= Base

(* The place values of the digits: a digit more is Base times as much. *)
Power[n \in 0 .. Digits] == IF n = 0 THEN 1 ELSE Base * Power[n - 1]

(* transform and inverse_transform: signed keys in their order as unsigned *)
(* ones, in arithmetic modulo KeySpace (2^64).  INT64_MAX + 1 is half of   *)
(* it.                                                                     *)
KeySpace == Power[Digits]
Transform(key) == (key + KeySpace \div 2) % KeySpace
Signed(key) == IF key < KeySpace \div 2 THEN key ELSE key - KeySpace
InverseTransform(key) == Signed((key - KeySpace \div 2) % KeySpace)

(* get_key, and the key up to and including a depth. *)
Digit(key, depth) == (key \div Power[Digits - depth]) % Base
Prefix(key, depth) == key \div Power[Digits - depth]

(* get_intermediate_key: the last digit of the prefix is replaced. *)
IntermediateKey(key, digit, depth) == (Prefix(key, depth) \div Base) * Base + digit

(* longest_common_prefix: at most one digit less than keys have, the last  *)
(* one is left to the leaf.                                                *)
CommonDigits(a, b) ==
  CHOOSE p \in 0 .. Digits - 1 :
    /\ \A i \in 1 .. p : Digit(a, i) = Digit(b, i)
    /\ p < Digits - 1 => Digit(a, p + 1) # Digit(b, p + 1)
=============================================================================
