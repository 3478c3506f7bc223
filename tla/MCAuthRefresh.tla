---------------------------- MODULE MCAuthRefresh ----------------------------
(* Instances of AuthRefresh for TLC.                                        *)
EXTENDS AuthRefresh, TLC
=============================================================================
