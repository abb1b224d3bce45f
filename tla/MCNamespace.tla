----------------------------- MODULE MCNamespace -----------------------------
(***************************************************************************)
(* A small instance of Namespace: two callers, paths of up to three names. *)
(***************************************************************************)
EXTENDS Namespace

CONSTANTS a, b, base

\* A base path of two names, as an FTP endpoint may have.
MCBase == <<base, b>>
MCNames == {a, b, base}

MCPaths == {<<>>, <<a>>, <<b>>, <<a, a>>, <<a, b>>, <<b, a>>, <<a, b, a>>}

D(p) == p :> Dir
F(p, v) == p :> v

\* Nothing but a file; a directory with a file and a directory with a file.
MCTrees ==
  {D(<<>>) @@ F(<<a>>, 1),
   D(<<>>) @@ D(<<a>>) @@ F(<<a, a>>, 1) @@ D(<<a, b>>) @@ F(<<a, b, a>>, 2)}

\* Contents 3 are shorter than what is there at first, contents 4 longer.
MCSizes == <<2, 2, 1, 3, 0>>
MCWritten == <<3, 4, 4>>

AllCalls == {"Mkdir", "MkdirAll", "Create", "RemoveAll", "Rename", "Export", "Import"}
Symmetry == Permutations(Clients)
=============================================================================
