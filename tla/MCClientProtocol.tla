-------------------------- MODULE MCClientProtocol --------------------------
(* Model-checking instance of ClientProtocol.                              *)
EXTENDS ClientProtocol

CONSTANTS me, u1, u2
MCOthers == {u1, u2}
MCListed == <<u1, me, u2>>
=============================================================================
