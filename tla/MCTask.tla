-------------------------------- MODULE MCTask --------------------------------
(* Instance of Task: three tasks, so that one is between two others in the *)
(* order of Run().                                                         *)
EXTENDS Task
==============================================================================
