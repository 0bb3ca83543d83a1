---------------------------- MODULE MCTransfers ----------------------------
(* Instances of Transfers for TLC. *)
EXTENDS Transfers

\* Every option but the budget, and the budget with the two that matter.
MCOptionSets ==
  [retry : {0, 2}, allErrors : BOOLEAN, budget : {None},
   fail : {"no", "drop", "keep"}, failEarly : BOOLEAN, include : BOOLEAN,
   maxTime : {FALSE}, dest : {"stdout", "file"}]
  \union
  [retry : {2}, allErrors : {FALSE}, budget : {3, 5}, fail : {"no", "keep"},
   failEarly : {FALSE}, include : {FALSE}, maxTime : {FALSE},
   dest : {"stdout", "file"}]
  \union
  [retry : {1}, allErrors : BOOLEAN, budget : {None}, fail : {"no"},
   failEarly : BOOLEAN, include : {FALSE}, maxTime : {TRUE}, dest : {"stdout"}]

MCFlaws == AllFlaws
=============================================================================
