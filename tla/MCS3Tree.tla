------------------------------- MODULE MCS3Tree -------------------------------
(***************************************************************************)
(* Small instances of S3Tree.  The names are a, b and ab, of which a is a  *)
(* string prefix of ab.                                                    *)
(***************************************************************************)
EXTENDS S3Tree

CONSTANTS a, b, ab

NoShort == {}
Short == {<<a, ab>>}

\* Two directories at the root, and a third level below one of them.
TreePaths == {<<>>, <<a>>, <<b>>, <<a, a>>, <<a, b>>, <<b, a>>, <<b, b>>, <<b, a, a>>}

\* A few paths, for the instances that show a disagreement.
FewPaths == {<<>>, <<a>>, <<b>>, <<a, a>>, <<b, a>>}
FlatPaths == {<<>>, <<a>>, <<ab>>}

Dir(p) == HolderOf(p) :> 0
File(p, v) == p :> v

\* Nothing yet; what two or three calls leave: nothing, a file in a directory,
\* what a Rename of that directory leaves that broke off, a file two directories
\* down, and files in directories that lack their holders, as Creates leave them
\* whose failed looks at the parent were taken for directories.
Empty == {[bucket |-> <<>>, calls |-> 0]}
Prepared ==
  {[bucket |-> t, calls |-> 3] : t \in
     {<<>>,
      Dir(<<a>>) @@ File(<<a, a>>, 2),
      Dir(<<a>>) @@ File(<<a, a>>, 2) @@ Dir(<<b>>) @@ File(<<b, a>>, 2),
      Dir(<<b>>) @@ Dir(<<b, a>>) @@ File(<<b, a, a>>, 3),
      File(<<b, a, a>>, 3) @@ File(<<b, b>>, 1)}}

AllCalls == Ops

\* Two clients are interchangeable.
Symmetry == Permutations(Clients)
=============================================================================
