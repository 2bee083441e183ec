------------------------------ MODULE MCRoutes ------------------------------
(* Locations and targets for model checking Routes. *)
EXTENDS Routes

MCLocation == {"/", "/api", "/apis"}
MCTarget == {"/x", "/api/1", "/apis/1", "*"}

MCPrefixOf ==
    {<<"/", "/x">>, <<"/", "/api/1">>, <<"/", "/apis/1">>,
     <<"/api", "/api/1">>, <<"/api", "/apis/1">>, <<"/apis", "/apis/1">>}

MCLengthOf == [l \in MCLocation |-> CASE l = "/" -> 1 [] l = "/api" -> 4 [] l = "/apis" -> 5]
=============================================================================
