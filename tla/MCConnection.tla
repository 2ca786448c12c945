---------------------------- MODULE MCConnection ----------------------------
(***************************************************************************)
(* Instances of Connection, with its observer, for TLC.  MCMessages names  *)
(* the heads, wire segments and local calls each instance enumerates.      *)
(***************************************************************************)
EXTENDS ConnectionHistory, MCMessages
============================================================================
