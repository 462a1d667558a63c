------------------------ MODULE MCPromptScheduler ------------------------
(* The prompt scheduler for TLC: the configurations give all the constants. *)
EXTENDS PromptScheduler
==========================================================================
