-------------------------- MODULE MCAgentProviders --------------------------
(* An answer in two pieces.                                                  *)
EXTENDS AgentProviders

MCDocument == <<"head", "tail">>
=============================================================================
