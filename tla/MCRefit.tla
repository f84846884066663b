------------------------------ MODULE MCRefit ------------------------------
(* Refit for TLC: parameters of aligned and unaligned sizes, groups that end *)
(* exactly at a limit and one beyond it.                                     *)
EXTENDS Refit

MCModels == {<<1, 2, 3, 2, 1>>, <<4, 4, 4>>, <<2, 1, 3, 4>>, <<3>>, <<2, 5, 1>>}
=============================================================================
