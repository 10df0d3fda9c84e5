--------------------------- MODULE MCEpollSelect ---------------------------
(* The last descriptor is beyond the map, and arrays start with room for one *)
(* registration.                                                             *)
EXTENDS EpollSelect, TLC

Symmetry == Permutations(Controllers) \union Permutations(Sets) \union Permutations(Sockets)
=============================================================================
