---------------------------- MODULE MCInventory -----------------------------
(* Small instances of Inventory.                                            *)
EXTENDS Inventory, TLC

Symmetry == Permutations(Device) \cup Permutations(Text)
              \cup Permutations(Request) \cup Permutations(Check)
=============================================================================
