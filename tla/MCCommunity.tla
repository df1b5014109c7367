----------------------------- MODULE MCCommunity -----------------------------
(***************************************************************************)
(* Instance of Community for TLC.                                          *)
(***************************************************************************)
EXTENDS Community

MCTopic == [e \in Events |-> CHOOSE h \in Channels : TRUE]
=============================================================================
