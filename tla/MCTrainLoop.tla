---------------------------- MODULE MCTrainLoop ----------------------------
(***************************************************************************)
(* Values of SaveContents for TLC.                                         *)
(***************************************************************************)
EXTENDS TrainLoop

ModelOnly == <<"model">>
ModelAndOptimizer == <<"model", "optimizer">>
===========================================================================
