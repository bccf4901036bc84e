--------------------------- MODULE MCDataManager ---------------------------
(***************************************************************************)
(* DataManager with keys of two digits and small nodes in the radix tree.  *)
(***************************************************************************)
EXTENDS DataManager, TLC

(* Nothing in the code looks at a value.  *)
ValuesAreAlike == Permutations(Values)

OneCapacity == <<8>>
OneNodeSize == <<64>>

SmallCapacity == <<4, 8>>
SmallNodeSize == <<64, 168>>
=============================================================================
