------------------------------ MODULE MCGateway ------------------------------
(***************************************************************************)
(* A small instance of Gateway: two directories with room for a file each, *)
(* so that one rename takes the one to the other.                          *)
(***************************************************************************)
EXTENDS Gateway

MCFilePaths == {<<"d", "f">>, <<"e", "f">>}
MCDirPaths == {<<>>, <<"d">>, <<"e">>}

\* One directory has a file of two blocks; the other one is not there.
OneFile == (<<>> :> Dir) @@ (<<"d">> :> Dir) @@ (<<"d", "f">> :> <<"x", "y">>)
MCTrees == {OneFile}

Symmetry == Permutations(Handles) \cup Permutations(Callers)
=============================================================================
