----------------------------- MODULE TreeProofs -----------------------------
(***************************************************************************)
(* Lemmas about paths and trees, for paths of any names and any depth.     *)
(***************************************************************************)
EXTENDS Tree, SequenceTheorems, TLAPS

-----------------------------------------------------------------------------
(* Paths: what lies in the tree of what.                                   *)

\* A path lies in the tree of d when it begins with d.
LEMMA InTreeElements ==
  ASSUME NEW S, NEW d \in Seq(S), NEW p \in Seq(S)
  PROVE  InTree(d, p) <=> Len(d) <= Len(p) /\ \A i \in 1..Len(d) : p[i] = d[i]
<1>1. CASE Len(d) <= Len(p)
  <2> DEFINE start == SubSeq(p, 1, Len(d))
  <2>1. start \in Seq(S) /\ Len(start) = Len(d) /\ \A i \in 1..Len(d) : start[i] = p[i]
    BY <1>1
  <2>2. start = d <=> \A i \in 1..Len(d) : start[i] = d[i]
    BY <2>1, SeqEqual
  <2> QED BY <1>1, <2>1, <2>2 DEF InTree
<1>2. CASE ~(Len(d) <= Len(p))
  BY <1>2 DEF InTree
<1> QED BY <1>1, <1>2

\* Every path lies in its own tree.
LEMMA InOwnTree ==
  ASSUME NEW S, NEW p \in Seq(S)
  PROVE  InTree(p, p)
BY InTreeElements

\* What lies in the tree of a path lies in the trees of those it lies in.
LEMMA InTreeTransitive ==
  ASSUME NEW S, NEW a \in Seq(S), NEW b \in Seq(S), NEW c \in Seq(S),
         InTree(a, b), InTree(b, c)
  PROVE  InTree(a, c)
<1>1. Len(a) <= Len(b) /\ \A i \in 1..Len(a) : b[i] = a[i]
  BY InTreeElements
<1>2. Len(b) <= Len(c) /\ \A i \in 1..Len(b) : c[i] = b[i]
  BY InTreeElements
<1>3. Len(a) \in Nat /\ Len(b) \in Nat /\ Len(c) \in Nat
  OBVIOUS
<1>4. Len(a) <= Len(c) /\ \A i \in 1..Len(a) : c[i] = a[i]
  BY <1>1, <1>2, <1>3
<1> QED BY <1>4, InTreeElements

\* What lies in the tree of something below a path is below it too.
LEMMA UnderTransitive ==
  ASSUME NEW S, NEW a \in Seq(S), NEW b \in Seq(S), NEW c \in Seq(S),
         Under(a, b), InTree(b, c)
  PROVE  Under(a, c)
<1>1. InTree(a, b) /\ a # b
  BY DEF Under
<1>2. Len(a) <= Len(b) /\ \A i \in 1..Len(a) : b[i] = a[i]
  BY <1>1, InTreeElements
<1>3. Len(b) <= Len(c)
  BY InTreeElements
<1>4. Len(a) \in Nat /\ Len(b) \in Nat /\ Len(c) \in Nat
  OBVIOUS
<1>5. Len(a) # Len(b)
  BY <1>1, <1>2, SeqEqual
<1>6. Len(a) # Len(c)
  BY <1>2, <1>3, <1>4, <1>5
<1>7. InTree(a, c)
  BY <1>1, InTreeTransitive
<1> QED BY <1>6, <1>7 DEF Under

\* Of two paths whose trees hold the same one, the longer lies in the other's.
LEMMA InTreeLinear ==
  ASSUME NEW S, NEW a \in Seq(S), NEW b \in Seq(S), NEW c \in Seq(S),
         InTree(a, c), InTree(b, c), Len(a) <= Len(b)
  PROVE  InTree(a, b)
<1>1. \A i \in 1..Len(a) : c[i] = a[i]
  BY InTreeElements
<1>2. \A i \in 1..Len(b) : c[i] = b[i]
  BY InTreeElements
<1>3. Len(a) \in Nat /\ Len(b) \in Nat
  OBVIOUS
<1>4. \A i \in 1..Len(a) : b[i] = a[i]
  BY <1>1, <1>2, <1>3
<1> QED BY <1>4, InTreeElements

\* What holds a path in its tree, and is not that path, holds its parent.
LEMMA ParentInTree ==
  ASSUME NEW S, NEW a \in Seq(S), NEW p \in Seq(S), InTree(a, p), a # p
  PROVE  Parent(p) \in Seq(S) /\ InTree(a, Parent(p))
<1>1. Len(a) <= Len(p) /\ \A i \in 1..Len(a) : p[i] = a[i]
  BY InTreeElements
<1>2. Len(a) # Len(p)
  BY <1>1, SeqEqual
<1>3. Len(a) \in Nat /\ Len(p) \in Nat /\ Len(a) <= Len(p) - 1
  BY <1>1, <1>2
<1> DEFINE up == SubSeq(p, 1, Len(p) - 1)
<1>4. up \in Seq(S) /\ Len(up) = Len(p) - 1 /\ \A i \in 1..Len(p) - 1 : up[i] = p[i]
  <2>1. \A i \in 1..Len(p) - 1 : p[i] \in S
    BY <1>3
  <2>2. up = [i \in 1..Len(p) - 1 |-> p[i]]
    BY <1>3
  <2> HIDE DEF up
  <2> QED BY <1>3, <2>1, <2>2
<1>5. up = Parent(p)
  BY DEF Parent
<1> HIDE DEF up
<1>6. Len(a) <= Len(up) /\ \A i \in 1..Len(a) : up[i] = a[i]
  BY <1>1, <1>3, <1>4
<1>7. InTree(a, up)
  BY <1>4, <1>6, InTreeElements
<1> QED BY <1>4, <1>5, <1>7

-----------------------------------------------------------------------------
(* Paths: to in the place of n.                                            *)

\* A path that was moved: its length...
LEMMA RebasedLen ==
  ASSUME NEW S, NEW n \in Seq(S), NEW to \in Seq(S), NEW p \in Seq(S), InTree(n, p)
  PROVE  Rebased(p, n, to) \in Seq(S) /\ Len(Rebased(p, n, to)) = Len(to) + (Len(p) - Len(n))
<1> DEFINE rest == SubSeq(p, Len(n) + 1, Len(p))
<1>1. Len(n) <= Len(p) /\ Len(n) \in Nat /\ Len(p) \in Nat /\ Len(to) \in Nat
  BY InTreeElements
<1>2. rest \in Seq(S) /\ Len(rest) = Len(p) - Len(n)
  BY <1>1
<1>3. Rebased(p, n, to) = to \o rest
  BY DEF Rebased
<1> HIDE DEF rest
<1>4. to \o rest \in Seq(S) /\ Len(to \o rest) = Len(to) + Len(rest)
  BY <1>2, ConcatProperties
<1> QED BY <1>2, <1>3, <1>4

\* ...its beginning...
LEMMA RebasedStart ==
  ASSUME NEW S, NEW n \in Seq(S), NEW to \in Seq(S), NEW p \in Seq(S), InTree(n, p),
         NEW i \in 1..Len(to)
  PROVE  Rebased(p, n, to)[i] = to[i]
<1> DEFINE rest == SubSeq(p, Len(n) + 1, Len(p))
<1>1. Len(n) <= Len(p) /\ Len(n) \in Nat /\ Len(p) \in Nat /\ Len(to) \in Nat
  BY InTreeElements
<1>2. rest \in Seq(S)
  BY <1>1
<1>3. Rebased(p, n, to) = to \o rest
  BY DEF Rebased
<1> HIDE DEF rest
<1>4. (to \o rest)[i] = to[i]
  BY <1>1, <1>2
<1> QED BY <1>3, <1>4

\* ...and the names that follow, which it keeps.
LEMMA RebasedRest ==
  ASSUME NEW S, NEW n \in Seq(S), NEW to \in Seq(S), NEW p \in Seq(S), InTree(n, p),
         NEW i \in 1..Len(p) - Len(n)
  PROVE  Rebased(p, n, to)[Len(to) + i] = p[Len(n) + i]
<1> DEFINE rest == SubSeq(p, Len(n) + 1, Len(p))
<1>1. Len(n) <= Len(p) /\ Len(n) \in Nat /\ Len(p) \in Nat /\ Len(to) \in Nat
  BY InTreeElements
<1>2. rest \in Seq(S) /\ Len(rest) = Len(p) - Len(n) /\ rest[i] = p[Len(n) + i]
  BY <1>1
<1>3. Rebased(p, n, to) = to \o rest
  BY DEF Rebased
<1> HIDE DEF rest
<1>4. Len(to) + i \in 1..Len(to) + Len(rest) /\ Len(to) + i > Len(to) /\ (Len(to) + i) - Len(to) = i
  BY <1>1, <1>2
<1>5. (to \o rest)[Len(to) + i] = rest[i]
  BY <1>1, <1>2, <1>4
<1> QED BY <1>2, <1>3, <1>5

\* It lies in the tree of its new beginning...
LEMMA RebasedInTree ==
  ASSUME NEW S, NEW n \in Seq(S), NEW to \in Seq(S), NEW p \in Seq(S), InTree(n, p)
  PROVE  Rebased(p, n, to) \in Seq(S) /\ InTree(to, Rebased(p, n, to))
<1> DEFINE r == Rebased(p, n, to)
<1>1. r \in Seq(S) /\ Len(r) = Len(to) + (Len(p) - Len(n))
  BY RebasedLen
<1>2. Len(n) <= Len(p) /\ Len(n) \in Nat /\ Len(p) \in Nat /\ Len(to) \in Nat
  BY InTreeElements
<1>3. \A i \in 1..Len(to) : r[i] = to[i]
  BY RebasedStart
<1> HIDE DEF r
<1>4. Len(to) <= Len(r)
  BY <1>1, <1>2
<1>5. InTree(to, r)
  BY <1>1, <1>3, <1>4, InTreeElements
<1> QED BY <1>1, <1>5 DEF r

\* ...and moving it back gives the path it was.
LEMMA RebasedBack ==
  ASSUME NEW S, NEW n \in Seq(S), NEW to \in Seq(S), NEW p \in Seq(S), InTree(n, p)
  PROVE  Rebased(Rebased(p, n, to), to, n) = p
<1> DEFINE r == Rebased(p, n, to)
<1>1. Len(n) <= Len(p) /\ Len(n) \in Nat /\ Len(p) \in Nat /\ Len(to) \in Nat
  BY InTreeElements
<1>2. \A i \in 1..Len(n) : p[i] = n[i]
  BY InTreeElements
<1>3. r \in Seq(S) /\ Len(r) = Len(to) + (Len(p) - Len(n))
  BY RebasedLen
<1>4. \A i \in 1..Len(p) - Len(n) : r[Len(to) + i] = p[Len(n) + i]
  BY RebasedRest
<1>5. InTree(to, r)
  BY RebasedInTree
<1> HIDE DEF r
<1> DEFINE b == Rebased(r, to, n)
<1>6. b \in Seq(S) /\ Len(b) = Len(n) + (Len(r) - Len(to))
  BY <1>3, <1>5, RebasedLen
<1>7. \A i \in 1..Len(n) : b[i] = n[i]
  BY <1>3, <1>5, RebasedStart
<1>8. ASSUME NEW i \in 1..Len(r) - Len(to) PROVE b[Len(n) + i] = r[Len(to) + i]
  <2>1. r \in Seq(S)
    BY <1>3
  <2> QED BY <1>5, <2>1, RebasedRest
<1> HIDE DEF b
<1>9. Len(b) = Len(p) /\ Len(r) - Len(to) = Len(p) - Len(n)
  BY <1>1, <1>3, <1>6
<1>10. \A i \in 1..Len(p) : b[i] = p[i]
  <2> SUFFICES ASSUME NEW i \in 1..Len(p) PROVE b[i] = p[i]
    OBVIOUS
  <2>1. CASE i <= Len(n)
    BY <1>1, <1>2, <1>7, <2>1
  <2>2. CASE i > Len(n)
    <3>1. i - Len(n) \in 1..Len(p) - Len(n) /\ Len(n) + (i - Len(n)) = i
      BY <1>1, <2>2
    <3>2. b[Len(n) + (i - Len(n))] = p[Len(n) + (i - Len(n))]
      BY <1>4, <1>8, <1>9, <3>1
    <3> QED BY <3>1, <3>2
  <2> QED BY <1>1, <2>1, <2>2
<1>11. b = p
  BY <1>6, <1>9, <1>10, SeqEqual
<1> QED BY <1>11 DEF b, r

\* What lies between to and a path that was moved there was moved too.
LEMMA BetweenMoved ==
  ASSUME NEW S, NEW n \in Seq(S), NEW to \in Seq(S), NEW p \in Seq(S), NEW a \in Seq(S),
         InTree(n, p), InTree(to, a), InTree(a, Rebased(p, n, to))
  PROVE  /\ Rebased(a, to, n) \in Seq(S) /\ InTree(n, Rebased(a, to, n))
         /\ InTree(Rebased(a, to, n), p) /\ Rebased(Rebased(a, to, n), n, to) = a
<1> DEFINE r == Rebased(p, n, to)
           y == Rebased(a, to, n)
<1>1. Len(n) <= Len(p) /\ Len(n) \in Nat /\ Len(p) \in Nat /\ Len(to) \in Nat
  BY InTreeElements
<1>2. \A i \in 1..Len(n) : p[i] = n[i]
  BY InTreeElements
<1>3. r \in Seq(S) /\ Len(r) = Len(to) + (Len(p) - Len(n))
  BY RebasedLen
<1>4. \A i \in 1..Len(p) - Len(n) : r[Len(to) + i] = p[Len(n) + i]
  BY RebasedRest
<1>5. y \in Seq(S) /\ Len(y) = Len(n) + (Len(a) - Len(to))
  BY RebasedLen
<1>6. \A i \in 1..Len(n) : y[i] = n[i]
  BY RebasedStart
<1>7. \A i \in 1..Len(a) - Len(to) : y[Len(n) + i] = a[Len(to) + i]
  BY RebasedRest
<1>8. InTree(n, y)
  BY RebasedInTree
<1>9. Rebased(y, n, to) = a
  BY RebasedBack
<1>10. InTree(a, r)
  OBVIOUS
<1>11. Len(to) <= Len(a) /\ Len(a) \in Nat
  BY InTreeElements
<1> HIDE DEF r, y
<1>12. Len(a) <= Len(r) /\ \A i \in 1..Len(a) : r[i] = a[i]
  BY <1>3, <1>10, InTreeElements
<1>13. Len(y) <= Len(p)
  BY <1>1, <1>3, <1>5, <1>11, <1>12
<1>14. \A i \in 1..Len(y) : p[i] = y[i]
  <2> SUFFICES ASSUME NEW i \in 1..Len(y) PROVE p[i] = y[i]
    OBVIOUS
  <2>1. CASE i <= Len(n)
    BY <1>1, <1>2, <1>6, <2>1
  <2>2. CASE i > Len(n)
    <3> DEFINE j == i - Len(n)
    <3>1. j \in 1..Len(a) - Len(to) /\ j \in 1..Len(p) - Len(n) /\ Len(n) + j = i
          /\ Len(to) + j \in 1..Len(a)
      BY <1>1, <1>3, <1>5, <1>11, <1>12, <2>2
    <3> HIDE DEF j
    <3>2. y[Len(n) + j] = a[Len(to) + j]
      BY <1>7, <3>1
    <3>3. a[Len(to) + j] = r[Len(to) + j]
      BY <1>12, <3>1
    <3>4. r[Len(to) + j] = p[Len(n) + j]
      BY <1>4, <3>1
    <3> QED BY <3>1, <3>2, <3>3, <3>4
  <2> QED BY <1>1, <1>5, <1>11, <2>1, <2>2
<1>15. InTree(y, p)
  BY <1>5, <1>13, <1>14, InTreeElements
<1> QED BY <1>5, <1>8, <1>9, <1>15 DEF y
-----------------------------------------------------------------------------
(* Trees: what is moved.                                                   *)

\* A path that is moved as a whole.
LEMMA RebasedSelf ==
  ASSUME NEW S, NEW n \in Seq(S), NEW to \in Seq(S)
  PROVE  Rebased(n, n, to) = to
<1>1. InTree(n, n)
  BY InOwnTree
<1>2. Rebased(n, n, to) \in Seq(S) /\ Len(Rebased(n, n, to)) = Len(to) + (Len(n) - Len(n))
  BY <1>1, RebasedLen
<1>3. \A i \in 1..Len(to) : Rebased(n, n, to)[i] = to[i]
  BY <1>1, RebasedStart
<1>4. Len(Rebased(n, n, to)) = Len(to)
  BY <1>2
<1> QED BY <1>2, <1>3, <1>4, SeqEqual

\* The paths of a tree that was moved.
LEMMA MovedPaths ==
  ASSUME NEW t, NEW n, NEW to, NEW q
  PROVE  q \in DOMAIN MovedTree(t, n, to) <=>
           \/ \E p \in DOMAIN t : InTree(n, p) /\ q = Rebased(p, n, to)
           \/ q \in DOMAIN t /\ ~InTree(n, q)
BY DEF MovedTree, WithoutTree

\* What was moved kept its content...
LEMMA MovedContent ==
  ASSUME NEW S, NEW t, NEW n \in Seq(S), NEW to \in Seq(S),
         NEW p \in Seq(S), p \in DOMAIN t, InTree(n, p)
  PROVE  MovedTree(t, n, to)[Rebased(p, n, to)] = t[p]
<1>1. Rebased(Rebased(p, n, to), to, n) = p
  BY RebasedBack
<1> DEFINE q == Rebased(p, n, to)
<1>2. q \in {Rebased(x, n, to) : x \in {x \in DOMAIN t : InTree(n, x)}}
  OBVIOUS
<1>3. Rebased(q, to, n) = p
  BY <1>1
<1> HIDE DEF q
<1>4. MovedTree(t, n, to)[q] = t[Rebased(q, to, n)]
  BY <1>2 DEF MovedTree
<1> QED BY <1>3, <1>4 DEF q

\* ...and so did what was neither moved nor replaced.
LEMMA UnmovedContent ==
  ASSUME NEW t, NEW n, NEW to, NEW q \in DOMAIN t, ~InTree(n, q),
         \A p \in DOMAIN t : InTree(n, p) => q # Rebased(p, n, to)
  PROVE  MovedTree(t, n, to)[q] = t[q]
BY DEF MovedTree, WithoutTree
=============================================================================
