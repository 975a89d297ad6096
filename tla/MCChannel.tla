----------------------------- MODULE MCChannel -----------------------------
(***************************************************************************)
(* The instance of Multiproc and its refinement for TLC.  On the first run *)
(* of the program the pipe determines the history variable, so the view of *)
(* MCMultiproc serves here too.                                            *)
(***************************************************************************)
EXTENDS MCMultiproc, ChannelRefinement
=============================================================================
