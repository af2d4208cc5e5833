------------------------------ MODULE MCServer ------------------------------
(* Model-checking instance of Server.                                      *)
EXTENDS Server

CONSTANTS b1, b2, b3
MCBlocks == <<b1, b2, b3>>
=============================================================================
