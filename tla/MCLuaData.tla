------------------------------ MODULE MCLuaData ------------------------------
(***************************************************************************)
(* Instances of LuaData.                                                   *)
(***************************************************************************)
EXTENDS LuaData
=============================================================================
