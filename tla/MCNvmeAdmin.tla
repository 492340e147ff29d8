----------------------------- MODULE MCNvmeAdmin ------------------------------
(* One pair, whose commands fit the queue, or two, whose commands wrap it.   *)
EXTENDS NvmeAdmin

OneOrTwo == {1, 2}
===============================================================================
