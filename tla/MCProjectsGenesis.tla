------------------------- MODULE MCProjectsGenesis -------------------------
(* The instance of MCProjects, with the order of the keys in the store. *)
EXTENDS MCProjects, ProjectsGenesis

MCProjectOrder == <<p1>>
MCClaimOrder == <<k1, k2>>
=============================================================================
