---------------------------- MODULE MCLuaSqlite ----------------------------
(* Two scripts, one database file and one path with no file behind it. *)
EXTENDS LuaSqlite, TLC

CONSTANTS s1, s2

MCScripts == {s1, s2}
MCPaths == {"a.db", "none.db"}
MCMissing == {"none.db"}
Symmetry == Permutations(MCScripts)
=============================================================================
