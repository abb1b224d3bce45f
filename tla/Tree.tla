--------------------------------- MODULE Tree ---------------------------------
(***************************************************************************)
(* Trees of files: functions from paths to contents.  A path is a sequence *)
(* of names and the root is <<>>.                                          *)
(***************************************************************************)
EXTENDS Integers, Sequences, FiniteSets, TLC

Parent(p) == SubSeq(p, 1, Len(p) - 1)
InTree(d, p) == Len(p) >= Len(d) /\ SubSeq(p, 1, Len(d)) = d
Under(d, p) == InTree(d, p) /\ p # d

\* p, with to in the place of its beginning n.
Rebased(p, n, to) == to \o SubSeq(p, Len(n) + 1, Len(p))

ChildrenIn(t, d) == {p \in DOMAIN t : Len(p) = Len(d) + 1 /\ Under(d, p)}

Placed(t, p, c) == [q \in DOMAIN t \cup {p} |-> IF q = p THEN c ELSE t[q]]
WithoutTree(t, n) == [p \in {p \in DOMAIN t : ~InTree(n, p)} |-> t[p]]
MovedTree(t, n, to) ==
  LET under == {p \in DOMAIN t : InTree(n, p)}
      moved == {Rebased(p, n, to) : p \in under}
  IN [p \in moved \cup (DOMAIN t \ under) |->
        IF p \in moved THEN t[Rebased(p, to, n)] ELSE t[p]]
=============================================================================
