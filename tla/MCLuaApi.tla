------------------------------ MODULE MCLuaApi ------------------------------
(***************************************************************************)
(* Instances of LuaApi: two workers, two temporary names.                  *)
(***************************************************************************)
EXTENDS LuaApi, TLC

MCPathArgs == {<<".", "a">>, <<"home", "sub">>, <<"/", "home">>}

Symmetry == Permutations(Scripts) \cup Permutations(TmpNames)
=============================================================================
