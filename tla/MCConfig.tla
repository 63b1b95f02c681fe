------------------------------ MODULE MCConfig ------------------------------
(* A script handler with configurable routes and a file handler at the root. *)
EXTENDS Config

Root == <<"/">>
Api == <<"/", "a">>
Long == <<"/", "a", "p">>

MCFixedRoutes == [h \in {"file"} |-> <<<<"GET", Root, "C++">>, <<"POST", Root, "C++">>>>]
MCRouteLists ==
  {<<>>,
   <<<<"GET", Api, "get.lua">>, <<"POST", Api, "post.lua">>>>,
   <<<<"GET", Long, "long.lua">>, <<"GET", Root, "root.lua">>, <<"PATCH", Api, "x.lua">>, <<"GET", Api>>>>}
MCUris == {Root, Long, <<"/", "a", "b">>, <<"x">>}
=============================================================================
