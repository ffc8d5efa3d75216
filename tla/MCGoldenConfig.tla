--------------------------- MODULE MCGoldenConfig ---------------------------
(* Small instances of GoldenConfig: tasks are interchangeable, and so are   *)
(* requests and configuration texts.                                        *)
EXTENDS GoldenConfig, TLC

CheckSymmetry == Permutations(Check) \cup Permutations(Promotion) \cup Permutations(Config)
=============================================================================
