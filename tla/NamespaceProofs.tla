-------------------------- MODULE NamespaceProofs --------------------------
(***************************************************************************)
(* Proofs about Namespace: the server's tree, MkdirAll beside other calls, *)
(* the export of a tree that changes, and what a call does that meets no   *)
(* other, for any callers, paths, trees and bounds.                        *)
(***************************************************************************)
EXTENDS Namespace, TreeProofs, FiniteSetTheorems

-----------------------------------------------------------------------------
(* Sequences and sets.                                                     *)

\* Natural numbers have a least one.
LEMMA LeastIndex ==
  ASSUME NEW I, I \subseteq Nat, I # {}
  PROVE  \E i \in I : \A j \in I : i =< j
<1>1. IsWellFoundedOn(OpToRel(<, Nat), Nat)
  BY NatLessThanWellFounded
<1>2. PICK i \in I : \A j \in I : ~(<<j, i>> \in OpToRel(<, Nat))
  BY <1>1, WFMin
<1>3. ASSUME NEW j \in I PROVE i =< j
  <2>1. i \in Nat /\ j \in Nat
    OBVIOUS
  <2>2. ~(j < i)
    BY <1>2, <2>1 DEF OpToRel
  <2> QED BY <2>1, <2>2
<1> QED BY <1>3

\* What follows the first element of a sequence.
LEMMA PutInFront ==
  ASSUME NEW S, NEW x \in S, NEW s \in Seq(S)
  PROVE  /\ <<x>> \o s \in Seq(S) /\ Len(<<x>> \o s) = Len(s) + 1 /\ <<x>> \o s # <<>>
         /\ Head(<<x>> \o s) = x /\ Tail(<<x>> \o s) = s
         /\ (<<x>> \o s)[1] = x /\ \A i \in 1..Len(s) : (<<x>> \o s)[i + 1] = s[i]
<1> DEFINE one == <<x>>
           p == one \o s
<1>1. one \in Seq(S) /\ Len(one) = 1 /\ one[1] = x
  OBVIOUS
<1> HIDE DEF one
<1>2. p \in Seq(S) /\ Len(p) = Len(s) + 1
  BY <1>1, ConcatProperties, SMTT(30)
<1>3. \A i \in 1..Len(one) + Len(s) : p[i] = IF i <= Len(one) THEN one[i] ELSE s[i - Len(one)]
  BY <1>1, ConcatProperties
<1> HIDE DEF p
<1>4. p[1] = x /\ \A i \in 1..Len(s) : p[i + 1] = s[i]
  BY <1>1, <1>3
<1>5. p # <<>> /\ Head(p) = x
  BY <1>2, <1>4
<1>6. Tail(p) \in Seq(S) /\ Len(Tail(p)) = Len(s) /\ \A i \in 1..Len(s) : Tail(p)[i] = s[i]
  BY <1>2, <1>4, <1>5
<1>7. Tail(p) = s
  BY <1>6, SeqEqual
<1> QED BY <1>2, <1>4, <1>5, <1>7 DEF p, one

\* The least index of those in I, as Go and Fail choose it.
First(I) == CHOOSE i \in I : \A j \in I : i =< j

\* The least index is one of them.
LEMMA FirstType ==
  ASSUME NEW I, I \subseteq Nat, I # {}
  PROVE  First(I) \in I /\ \A j \in I : First(I) =< j
BY LeastIndex DEF First

\* The least index, given.
LEMMA FirstIs ==
  ASSUME NEW I, I \subseteq Nat, NEW i \in I, \A j \in I : i =< j
  PROVE  First(I) = i
<1>1. First(I) \in I /\ \A j \in I : First(I) =< j
  BY FirstType
<1>2. First(I) \in Nat /\ i \in Nat /\ First(I) =< i /\ i =< First(I)
  BY <1>1
<1> QED BY <1>2

\* The rest of a sequence from one of its elements on.
LEMMA RestFrom ==
  ASSUME NEW S, NEW s \in Seq(S), NEW k \in DOMAIN s
  PROVE  /\ SubSeq(s, k, Len(s)) \in Seq(S) /\ SubSeq(s, k, Len(s)) # <<>>
         /\ Head(SubSeq(s, k, Len(s))) = s[k] /\ Len(SubSeq(s, k, Len(s))) = Len(s) - k + 1
         /\ \A i \in 1..Len(s) - k + 1 : SubSeq(s, k, Len(s))[i] = s[k + i - 1]
<1> DEFINE p == SubSeq(s, k, Len(s))
<1>1. k \in 1..Len(s) /\ Len(s) \in Nat
  OBVIOUS
<1>2. p \in Seq(S) /\ Len(p) = Len(s) - k + 1
  BY <1>1
<1>3. \A i \in 1..Len(s) - k + 1 : p[i] = s[k + i - 1]
  BY <1>1
<1> HIDE DEF p
<1>4. p # <<>> /\ Head(p) = s[k]
  BY <1>1, <1>2, <1>3
<1> QED BY <1>2, <1>3, <1>4 DEF p

\* An element in front shifts the others by one.
LEMMA RestShifts ==
  ASSUME NEW S, NEW x \in S, NEW s \in Seq(S), NEW k \in 1..Len(s) + 1
  PROVE  SubSeq(<<x>> \o s, k + 1, Len(<<x>> \o s)) = SubSeq(s, k, Len(s))
<1> DEFINE p == <<x>> \o s
           a == SubSeq(p, k + 1, Len(p))
           b == SubSeq(s, k, Len(s))
<1>1. p \in Seq(S) /\ Len(p) = Len(s) + 1 /\ Len(s) \in Nat
  BY PutInFront
<1>2. \A i \in 1..Len(s) : p[i + 1] = s[i]
  BY PutInFront
<1> HIDE DEF p
<1>3. a \in Seq(S) /\ Len(a) = Len(s) - k + 1 /\ \A i \in 1..Len(s) - k + 1 : a[i] = p[k + i]
  BY <1>1
<1>4. b \in Seq(S) /\ Len(b) = Len(s) - k + 1 /\ \A i \in 1..Len(s) - k + 1 : b[i] = s[k + i - 1]
  BY <1>1
<1> HIDE DEF a, b
<1>5. ASSUME NEW i \in 1..Len(s) - k + 1 PROVE a[i] = b[i]
  <2>1. k + i - 1 \in 1..Len(s) /\ (k + i - 1) + 1 = k + i
    BY <1>1
  <2>2. p[k + i] = s[k + i - 1]
    BY <1>2, <2>1
  <2> QED BY <1>3, <1>4, <2>2
<1>6. a = b
  BY <1>3, <1>4, <1>5, SeqEqual
<1> QED BY <1>6 DEF a, b, p

-----------------------------------------------------------------------------
(* What a call does next: Go and Fail.                                     *)

Live(p) == {i \in DOMAIN p : p[i].do # "catch"}
Caught(p) == {i \in DOMAIN p : p[i].do = "catch"}

\* Go leaves a program of the same requests, and no handler at its head.
LEMMA GoTypes ==
  ASSUME NEW R, NEW p \in Seq(R)
  PROVE  /\ Go(p).prog \in Seq(R)
         /\ \/ Go(p).prog = <<>> /\ Go(p).ret = "ok"
            \/ Go(p).prog # <<>> /\ Go(p).ret = "none" /\ Head(Go(p).prog).do # "catch"
<1> DEFINE rest == IF Live(p) = {} THEN <<>> ELSE SubSeq(p, First(Live(p)), Len(p))
<1>1. Go(p) = [prog |-> rest, ret |-> IF rest = <<>> THEN "ok" ELSE "none"]
  BY DEF Go, Live, First
<1>2. rest \in Seq(R) /\ (rest # <<>> => Head(rest).do # "catch")
  <2>1. CASE Live(p) = {}
    BY <2>1
  <2>2. CASE Live(p) # {}
    <3>1. Live(p) \subseteq Nat
      BY DEF Live
    <3>2. First(Live(p)) \in Live(p)
      BY <2>2, <3>1, FirstType
    <3>3. First(Live(p)) \in DOMAIN p /\ p[First(Live(p))].do # "catch"
      BY <3>2 DEF Live
    <3> DEFINE k == First(Live(p))
    <3>4. k \in DOMAIN p /\ rest = SubSeq(p, k, Len(p))
      BY <2>2, <3>3
    <3> HIDE DEF k
    <3>5. SubSeq(p, k, Len(p)) \in Seq(R) /\ Head(SubSeq(p, k, Len(p))) = p[k]
      BY <3>4, RestFrom
    <3> QED BY <3>3, <3>4, <3>5 DEF k
  <2> QED BY <2>1, <2>2
<1> HIDE DEF rest
<1> QED BY <1>1, <1>2

\* Nothing left is the end, with success.
LEMMA GoEnds == Go(<<>>) = [prog |-> <<>>, ret |-> "ok"]
<1>1. Live(<<>>) = {}
  BY DEF Live
<1> QED BY <1>1 DEF Go, Live

\* A request comes next; a handler is passed over.
LEMMA GoOn ==
  ASSUME NEW R, NEW r \in R, NEW s \in Seq(R)
  PROVE  /\ r.do # "catch" => Go(<<r>> \o s) = [prog |-> <<r>> \o s, ret |-> "none"]
         /\ r.do = "catch" => Go(<<r>> \o s) = Go(s)
<1> DEFINE p == <<r>> \o s
<1>1. p \in Seq(R) /\ Len(p) = Len(s) + 1 /\ p # <<>> /\ p[1] = r /\ Len(s) \in Nat
  BY PutInFront
<1>2. \A i \in 1..Len(s) : p[i + 1] = s[i]
  BY PutInFront
<1>3. ASSUME NEW k \in 1..Len(s) + 1 PROVE SubSeq(p, k + 1, Len(p)) = SubSeq(s, k, Len(s))
  BY RestShifts
<1> HIDE DEF p
<1>4. Live(p) \subseteq Nat /\ Live(s) \subseteq Nat
  BY <1>1 DEF Live
<1>5. CASE r.do # "catch"
  <2>1. 1 \in Live(p) /\ \A j \in Live(p) : 1 =< j
    BY <1>1, <1>5 DEF Live
  <2>2. First(Live(p)) = 1
    BY <1>4, <2>1, FirstIs
  <2>3. SubSeq(p, 1, Len(p)) = p
    BY <1>1, SubSeqFull
  <2>4. Go(p) = [prog |-> p, ret |-> "none"]
    BY <1>1, <2>1, <2>2, <2>3 DEF Go, Live, First
  <2> QED BY <1>5, <2>4 DEF p
<1>6. CASE r.do = "catch"
  <2>1. \A i \in 1..Len(s) : i \in Live(s) => i + 1 \in Live(p)
    BY <1>1, <1>2 DEF Live
  <2>2. \A j \in Live(p) : j - 1 \in Live(s)
    BY <1>1, <1>2, <1>6 DEF Live
  <2>3. CASE Live(s) = {}
    <3>1. Live(p) = {}
      BY <2>2, <2>3
    <3>2. Go(p) = Go(s)
      BY <2>3, <3>1 DEF Go, Live
    <3> QED BY <1>6, <3>2 DEF p
  <2>4. CASE Live(s) # {}
    <3> DEFINE k == First(Live(s))
    <3>1. k \in Live(s) /\ \A j \in Live(s) : k =< j
      BY <1>4, <2>4, FirstType
    <3>2. k \in 1..Len(s)
      BY <3>1 DEF Live
    <3> HIDE DEF k
    <3>3. k + 1 \in Live(p)
      BY <2>1, <3>1, <3>2
    <3>4. \A j \in Live(p) : k + 1 =< j
      BY <1>4, <2>2, <3>1, <3>2
    <3>5. First(Live(p)) = k + 1
      BY <1>4, <3>3, <3>4, FirstIs
    <3>6. SubSeq(p, k + 1, Len(p)) = SubSeq(s, k, Len(s))
      BY <1>3, <3>2
    <3>7. Live(p) # {}
      BY <3>3
    <3>8. Go(p) = Go(s)
      BY <2>4, <3>5, <3>6, <3>7 DEF Go, Live, First, k
    <3> QED BY <1>6, <3>8 DEF p
  <2> QED BY <2>3, <2>4
<1> QED BY <1>5, <1>6

\* Without a handler an error is what the call returns.
LEMMA FailEnds ==
  ASSUME NEW e, NEW p, \A i \in DOMAIN p : p[i].do # "catch"
  PROVE  Fail(e, p) = [prog |-> <<>>, ret |-> e]
BY DEF Fail

\* Fail leaves a program of the same requests and of the handler's look.
LEMMA FailTypes ==
  ASSUME NEW R, NEW p \in Seq(R), NEW e, \A r \in R : Look(e, r.n) \in R
  PROVE  /\ Fail(e, p).prog \in Seq(R)
         /\ \/ Fail(e, p).prog = <<>> /\ Fail(e, p).ret = e
            \/ Fail(e, p).prog # <<>> /\ Fail(e, p).ret = "none" /\ Head(Fail(e, p).prog).do # "catch"
<1>1. CASE Caught(p) = {}
  BY <1>1 DEF Fail, Caught
<1>2. CASE Caught(p) # {}
  <2> DEFINE k == First(Caught(p))
             look == Look(e, p[k].n)
             rest == SubSeq(p, k + 1, Len(p))
  <2>1. Caught(p) \subseteq Nat
    BY DEF Caught
  <2>2. k \in Caught(p)
    BY <1>2, <2>1, FirstType
  <2>3. k \in DOMAIN p
    BY <2>2 DEF Caught
  <2>4. Fail(e, p) = [prog |-> <<look>> \o rest, ret |-> "none"]
    BY <1>2 DEF Fail, Caught, First
  <2> HIDE DEF k
  <2>5. p[k] \in R /\ k \in Nat /\ k + 1 \in Nat \ {0} /\ Len(p) \in Nat
    BY <2>3
  <2>6. look \in R /\ look.do = "look"
    BY <2>5 DEF Look, Request
  <2>7. rest \in Seq(R)
    BY <2>3, <2>5
  <2> HIDE DEF look, rest
  <2>8. <<look>> \o rest \in Seq(R) /\ <<look>> \o rest # <<>> /\ Head(<<look>> \o rest) = look
    BY <2>6, <2>7, PutInFront
  <2> DEFINE q == <<look>> \o rest
  <2>9. Fail(e, p).prog = q /\ Fail(e, p).ret = "none"
    BY <2>4
  <2>10. q \in Seq(R) /\ q # <<>> /\ Head(q).do # "catch"
    BY <2>6, <2>8
  <2> HIDE DEF q
  <2> QED BY <2>9, <2>10
<1> QED BY <1>1, <1>2

\* The next handler looks again, whatever stands before it.
LEMMA FailOn ==
  ASSUME NEW R, NEW r \in R, NEW s \in Seq(R), NEW e
  PROVE  /\ r.do # "catch" => Fail(e, <<r>> \o s) = Fail(e, s)
         /\ r.do = "catch" => Fail(e, <<r>> \o s) = [prog |-> <<Look(e, r.n)>> \o s, ret |-> "none"]
<1> DEFINE p == <<r>> \o s
<1>1. p \in Seq(R) /\ Len(p) = Len(s) + 1 /\ p # <<>> /\ p[1] = r /\ Len(s) \in Nat
  BY PutInFront
<1>2. \A i \in 1..Len(s) : p[i + 1] = s[i]
  BY PutInFront
<1>3. ASSUME NEW k \in 1..Len(s) + 1 PROVE SubSeq(p, k + 1, Len(p)) = SubSeq(s, k, Len(s))
  BY RestShifts
<1> HIDE DEF p
<1>4. Caught(p) \subseteq Nat /\ Caught(s) \subseteq Nat
  BY <1>1 DEF Caught
<1>5. CASE r.do = "catch"
  <2>1. 1 \in Caught(p) /\ \A j \in Caught(p) : 1 =< j
    BY <1>1, <1>5 DEF Caught
  <2>2. First(Caught(p)) = 1
    BY <1>4, <2>1, FirstIs
  <2>3. SubSeq(p, 1 + 1, Len(p)) = SubSeq(s, 1, Len(s))
    BY <1>1, <1>3
  <2>4. SubSeq(s, 1, Len(s)) = s
    BY SubSeqFull
  <2>5. Fail(e, p) = [prog |-> <<Look(e, p[1].n)>> \o SubSeq(p, 1 + 1, Len(p)), ret |-> "none"]
    BY <2>1, <2>2 DEF Fail, Caught, First
  <2>6. Fail(e, p) = [prog |-> <<Look(e, r.n)>> \o s, ret |-> "none"]
    BY <1>1, <2>3, <2>4, <2>5
  <2> QED BY <1>5, <2>6 DEF p
<1>6. CASE r.do # "catch"
  <2>1. \A i \in 1..Len(s) : i \in Caught(s) => i + 1 \in Caught(p)
    BY <1>1, <1>2 DEF Caught
  <2>2. \A j \in Caught(p) : j - 1 \in Caught(s)
    BY <1>1, <1>2, <1>6 DEF Caught
  <2>3. CASE Caught(s) = {}
    <3>1. Caught(p) = {}
      BY <2>2, <2>3
    <3>2. Fail(e, p) = Fail(e, s)
      BY <2>3, <3>1 DEF Fail, Caught
    <3> QED BY <1>6, <3>2 DEF p
  <2>4. CASE Caught(s) # {}
    <3> DEFINE k == First(Caught(s))
    <3>1. k \in Caught(s) /\ \A j \in Caught(s) : k =< j
      BY <1>4, <2>4, FirstType
    <3>2. k \in 1..Len(s)
      BY <3>1 DEF Caught
    <3> HIDE DEF k
    <3>3. k + 1 \in Caught(p)
      BY <2>1, <3>1, <3>2
    <3>4. \A j \in Caught(p) : k + 1 =< j
      BY <1>4, <2>2, <3>1, <3>2
    <3>5. First(Caught(p)) = k + 1
      BY <1>4, <3>3, <3>4, FirstIs
    <3>6. SubSeq(p, (k + 1) + 1, Len(p)) = SubSeq(s, k + 1, Len(s))
      BY <1>1, <1>3, <3>2
    <3>7. Caught(p) # {} /\ p[k + 1] = s[k]
      BY <1>2, <3>2, <3>3
    <3>8. Fail(e, p) = [prog |-> <<Look(e, p[k + 1].n)>> \o SubSeq(p, (k + 1) + 1, Len(p)),
                        ret |-> "none"]
      BY <3>5, <3>7 DEF Fail, Caught, First
    <3>9. Fail(e, s) = [prog |-> <<Look(e, s[k].n)>> \o SubSeq(s, k + 1, Len(s)), ret |-> "none"]
      BY <2>4 DEF Fail, Caught, First, k
    <3>10. Fail(e, p) = Fail(e, s)
      BY <3>6, <3>7, <3>8, <3>9
    <3> QED BY <1>6, <3>10 DEF p
  <2> QED BY <2>3, <2>4
<1> QED BY <1>5, <1>6

-----------------------------------------------------------------------------
(* Listings: finite sets as sequences.                                     *)

\* A listing has every entry, and nothing else.
LEMMA ListingIs ==
  ASSUME NEW S, IsFiniteSet(S)
  PROVE  /\ SetToSeq(S) \in Seq(S)
         /\ \A x \in S : \E i \in DOMAIN SetToSeq(S) : SetToSeq(S)[i] = x
<1> DEFINE n == Cardinality(S)
           s == SetToSeq(S)
<1>1. n \in Nat /\ ExistsBijection(1..n, S)
  BY FS_CardinalityType
<1>2. PICK f \in [1..n -> S] : IsInjective(f)
  BY <1>1 DEF ExistsBijection, Bijection, Injection
<1>3. s \in [1..n -> S] /\ IsInjective(s)
  BY <1>2 DEF SetToSeq
<1> HIDE DEF s
<1>4. s \in Seq(S)
  BY <1>1, <1>3
<1>5. s \in Injection(1..n, S)
  BY <1>3 DEF Injection
<1>6. IsFiniteSet(1..n) /\ Cardinality(1..n) = n
  BY <1>1, FS_Interval
<1>7. s \in Surjection(1..n, S)
  BY <1>5, <1>6, FS_Injection
<1>8. \A x \in S : \E i \in DOMAIN s : s[i] = x
  BY <1>3, <1>7 DEF Surjection
<1> QED BY <1>4, <1>8 DEF s

\* What is renamed or removed leaves finitely many paths.
LEMMA FiniteImage ==
  ASSUME NEW S, IsFiniteSet(S), NEW n, NEW to
  PROVE  IsFiniteSet({Rebased(p, n, to) : p \in S})
<1> DEFINE T == {Rebased(p, n, to) : p \in S}
           f == [p \in S |-> Rebased(p, n, to)]
<1>1. f \in Surjection(S, T)
  BY DEF Surjection
<1> QED BY <1>1, FS_Surjection

-----------------------------------------------------------------------------
(* Types.                                                                  *)

Path == Seq(Names)
Contents == DOMAIN Sizes
Dos == {"look", "catch", "mkdir", "put", "delete", "dele", "rmd", "move", "list", "rmlist", "export"}
Whys == {"", "mkdir", "mkdirAll", "opendir", "mkparent", "made", "parent", "entry", "import",
         "remove", "walk", "all"}

\* A look has a purpose, what is stored is a file, and the root is not removed.
Valid(r) ==
  /\ r.do = "look" => r.why # ""
  /\ r.do \in {"put", "export"} \/ r.why \in {"parent", "entry", "import"} => r.v \in Contents
  /\ r.do \in {"delete", "dele", "rmd", "rmlist"} \/ r.why = "remove" => r.n # <<>>

\* A request that takes nothing out of the tree.
Gentle(r) == r.do \notin {"delete", "dele", "rmd", "move", "rmlist"} /\ r.why # "remove"

Requests ==
  {r \in [do : Dos, why : Whys \cup Error, n : Path, to : Path, v : {Dir} \cup Contents] : Valid(r)}

\* The requests of all calls, or of those that take nothing out of the tree.
Reqs(gentle) == {r \in Requests : gentle => Gentle(r)}

\* What a call does next: more requests, or its result.
Outcome(x, gentle) ==
  /\ x.prog \in Seq(Reqs(gentle))
  /\ \/ x.prog = <<>> /\ x.ret \in Error \cup {"ok"}
     \/ x.prog # <<>> /\ x.ret = "none" /\ Head(x.prog).do # "catch"

\* The requests that calls make are of these types.
LEMMA MadeRequests ==
  ASSUME NEW g \in BOOLEAN, NEW n \in Path
  PROVE  /\ \A why \in (Whys \ {"", "parent", "entry", "import", "remove"}) \cup Error :
              Look(why, n) \in Reqs(g)
         /\ \A do \in {"mkdir", "catch", "list"} : Act(do, n) \in Reqs(g)
         /\ \A v \in Contents : Put(n, v) \in Reqs(g)
         /\ \A v \in Contents : Request("export", "", n, <<>>, v) \in Reqs(g)
         /\ \A why \in {"parent", "import"}, v \in Contents :
              Request("look", why, n, <<>>, v) \in Reqs(g)
<1>1. <<>> \in Path /\ 0 \in {Dir} \cup Contents
  BY DEF Path, Dir
<1> USE <1>1 DEF Reqs, Requests, Valid, Gentle, Dos, Whys, Error, Results
<1>2. \A why \in (Whys \ {"", "parent", "entry", "import", "remove"}) \cup Error :
        Look(why, n) \in Reqs(g)
  BY DEF Look, Request
<1>3. \A do \in {"mkdir", "catch", "list"} : Act(do, n) \in Reqs(g)
  BY DEF Act, Request
<1>4. \A v \in Contents : Put(n, v) \in Reqs(g)
  BY DEF Put, Request
<1>5. \A v \in Contents : Request("export", "", n, <<>>, v) \in Reqs(g)
  BY DEF Request
<1>6. \A why \in {"parent", "import"}, v \in Contents :
        Request("look", why, n, <<>>, v) \in Reqs(g)
  BY DEF Request
<1> QED BY <1>2, <1>3, <1>4, <1>5, <1>6

\* The requests of a removal.
LEMMA RemovalRequests ==
  ASSUME NEW n \in Path, n # <<>>
  PROVE  /\ \A do \in {"delete", "dele", "rmd", "rmlist"} : Act(do, n) \in Reqs(FALSE)
         /\ Look("remove", n) \in Reqs(FALSE)
<1>1. <<>> \in Path /\ 0 \in {Dir} \cup Contents
  BY DEF Path, Dir
<1> QED BY <1>1 DEF Reqs, Requests, Valid, Gentle, Dos, Whys, Error, Results, Look, Act, Request

\* A request is one of the requests, and so is the look of its handler.
LEMMA RequestTypes ==
  ASSUME NEW g \in BOOLEAN, NEW r \in Reqs(g)
  PROVE  /\ r.do \in Dos /\ r.why \in Whys \cup Error /\ r.n \in Path /\ r.to \in Path
         /\ r.v \in {Dir} \cup Contents /\ Valid(r) /\ (g => Gentle(r))
         /\ \A e \in Error : Look(e, r.n) \in Reqs(g)
<1>1. /\ r.do \in Dos /\ r.why \in Whys \cup Error /\ r.n \in Path /\ r.to \in Path
      /\ r.v \in {Dir} \cup Contents /\ Valid(r) /\ (g => Gentle(r))
  BY DEF Reqs, Requests
<1>2. \A e \in Error : Look(e, r.n) \in Reqs(g)
  BY <1>1, MadeRequests
<1> QED BY <1>1, <1>2

\* What Go makes of requests is the outcome of a call.
LEMMA GoResult ==
  ASSUME NEW g \in BOOLEAN, NEW p \in Seq(Reqs(g))
  PROVE  Outcome(Go(p), g)
BY GoTypes DEF Outcome

\* So is what Fail makes of an error.
LEMMA FailResult ==
  ASSUME NEW g \in BOOLEAN, NEW p \in Seq(Reqs(g)), NEW e \in Error
  PROVE  Outcome(Fail(e, p), g)
<1>1. \A r \in Reqs(g) : Look(e, r.n) \in Reqs(g)
  BY RequestTypes
<1> QED BY <1>1, FailTypes DEF Outcome

\* A request in front of a program.
LEMMA InFront ==
  ASSUME NEW R, NEW r \in R, NEW s \in Seq(R)
  PROVE  <<r>> \o s \in Seq(R)
BY PutInFront

\* Two requests in front of a program.
LEMMA TwoInFront ==
  ASSUME NEW R, NEW r \in R, NEW q \in R, NEW s \in Seq(R)
  PROVE  /\ <<r, q>> \in Seq(R) /\ <<r, q>> \o s = <<r>> \o (<<q>> \o s)
         /\ <<r, q>> \o s \in Seq(R)
<1>1. <<r>> \in Seq(R) /\ <<q>> \in Seq(R) /\ <<r, q>> \in Seq(R) /\ <<r, q>> = <<r>> \o <<q>>
  <2> DEFINE one == <<q>>
             two == <<r, q>>
             both == <<r>> \o one
  <2>1. one \in Seq(R) /\ Len(one) = 1 /\ one[1] = q /\ <<r>> \in Seq(R)
    OBVIOUS
  <2>2. two \in Seq(R) /\ Len(two) = 2 /\ two[1] = r /\ two[2] = q
    OBVIOUS
  <2> HIDE DEF one, two
  <2>3. one \in Seq(R)
    BY <2>1
  <2>4. both \in Seq(R)
    BY <2>3, PutInFront
  <2>5. Len(both) = Len(one) + 1
    BY <2>3, PutInFront
  <2>6. both[1] = r
    BY <2>3, PutInFront
  <2>7. \A i \in 1..Len(one) : both[i + 1] = one[i]
    BY <2>3, PutInFront
  <2> HIDE DEF both
  <2>8. Len(both) = 2 /\ both[1] = r /\ both[1 + 1] = q
    BY <2>1, <2>5, <2>6, <2>7
  <2>9. \A i \in 1..Len(two) : two[i] = both[i]
    BY <2>2, <2>8
  <2>10. two = both
    BY <2>2, <2>4, <2>8, <2>9, SeqEqual
  <2> QED BY <2>1, <2>2, <2>10 DEF one, two, both
<1>2. (<<r>> \o <<q>>) \o s = <<r>> \o (<<q>> \o s)
  BY <1>1, ConcatAssociative
<1>3. <<q>> \o s \in Seq(R)
  BY PutInFront
<1>4. <<r>> \o (<<q>> \o s) \in Seq(R)
  BY <1>3, PutInFront
<1> QED BY <1>1, <1>2, <1>4

\* What a look leads to, whatever it answers.
LEMMA MkdirResult ==
  ASSUME NEW g \in BOOLEAN, NEW r \in Reqs(g), NEW a, NEW rest \in Seq(Reqs(g))
  PROVE  Outcome(Mkdir(r, a, rest), g)
<1> DEFINE caught == IF r.why = "mkdirAll" THEN <<Act("catch", r.n)>> ELSE <<>>
           then == caught \o rest
<1>1. r.n \in Path
  BY RequestTypes
<1>2. Act("catch", r.n) \in Reqs(g) /\ Act("mkdir", r.n) \in Reqs(g) /\ Look("opendir", r.n) \in Reqs(g)
  <2>1. "opendir" \in (Whys \ {"", "parent", "entry", "import", "remove"}) \cup Error
    BY DEF Whys
  <2> QED BY <1>1, <2>1, MadeRequests
<1>3. caught \in Seq(Reqs(g))
  BY <1>2
<1> HIDE DEF caught
<1>4. then \in Seq(Reqs(g))
  BY <1>3, ConcatProperties
<1>5. MakeDir(r.n) \in Reqs(g)
  BY <1>2 DEF MakeDir
<1>6. Mkdir(r, a, rest) =
        IF a \in {"dir", "file"} THEN Fail("errExist", then) ELSE Go(<<MakeDir(r.n)>> \o then)
  BY DEF Mkdir, caught
<1> HIDE DEF then
<1>7. <<MakeDir(r.n)>> \o then \in Seq(Reqs(g))
  BY <1>4, <1>5, PutInFront
<1>8. "errExist" \in Error
  BY DEF Error, Results
<1>9. Outcome(Fail("errExist", then), g)
  BY <1>4, <1>8, FailResult
<1>10. Outcome(Go(<<MakeDir(r.n)>> \o then), g)
  BY <1>7, GoResult
<1> QED BY <1>6, <1>9, <1>10

\* openDir leaves requests that openDir, Mkdir and their callers make.
LEMMA OpenDirResult ==
  ASSUME NEW g \in BOOLEAN, NEW r \in Reqs(g), NEW a, NEW rest \in Seq(Reqs(g))
  PROVE  Outcome(OpenDir(r, a, rest), g)
<1> DEFINE make == <<Act("mkdir", r.n), Look("made", r.n)>>
           parent == IF Len(r.n) = 1 THEN make ELSE <<Look("mkparent", r.n)>>
<1>1. r.n \in Path
  BY RequestTypes
<1>2. Act("mkdir", r.n) \in Reqs(g) /\ Look("made", r.n) \in Reqs(g) /\ Look("mkparent", r.n) \in Reqs(g)
  <2>1. /\ "made" \in (Whys \ {"", "parent", "entry", "import", "remove"}) \cup Error
        /\ "mkparent" \in (Whys \ {"", "parent", "entry", "import", "remove"}) \cup Error
    BY DEF Whys
  <2> QED BY <1>1, <2>1, MadeRequests
<1>3. make \in Seq(Reqs(g)) /\ parent \in Seq(Reqs(g))
  BY <1>2
<1> HIDE DEF make, parent
<1>4. Outcome(Go(make \o rest), g) /\ Outcome(Go(parent \o rest), g) /\ Outcome(Go(rest), g)
  <2>1. make \o rest \in Seq(Reqs(g)) /\ parent \o rest \in Seq(Reqs(g))
    BY <1>3, ConcatProperties
  <2> QED BY <2>1, GoResult
<1>5. \A e \in {"err", "errNotExist", "errExist"} : Outcome(Fail(e, rest), g)
  <2>1. {"err", "errNotExist", "errExist"} \subseteq Error
    BY DEF Error, Results
  <2> QED BY <2>1, FailResult
<1>6. \/ OpenDir(r, a, rest) \in {Fail(e, rest) : e \in {"err", "errNotExist", "errExist"}}
      \/ OpenDir(r, a, rest) \in {Go(make \o rest), Go(parent \o rest), Go(rest)}
  BY DEF OpenDir, make, parent
<1> QED BY <1>4, <1>5, <1>6

\* OpenFile leaves its upload, after at most one more look.
LEMMA CreateResult ==
  ASSUME NEW g \in BOOLEAN, NEW r \in Reqs(g), r.do = "look", r.why \in {"parent", "entry"}, NEW a,
         NEW rest \in Seq(Reqs(g))
  PROVE  Outcome(Create(r, a, rest), g)
<1>1. r.n \in Path /\ r.v \in Contents
  BY RequestTypes DEF Valid
<1>2. Put(r.n, r.v) \in Reqs(g)
  BY <1>1, MadeRequests
<1>3. r.v \in Contents => [r EXCEPT !.why = "entry"] \in Reqs(g)
  BY DEF Reqs, Requests, Valid, Gentle, Whys
<1> DEFINE put == Put(r.n, r.v)
           entry == [r EXCEPT !.why = "entry"]
<1>4. put \in Reqs(g) /\ entry \in Reqs(g)
  BY <1>1, <1>2, <1>3
<1>5. \/ Create(r, a, rest) \in {Fail(e, rest) : e \in {"err", "errNotExist"}}
      \/ Create(r, a, rest) \in {Go(<<put>> \o rest), Go(<<entry>> \o rest)}
  BY DEF Create
<1> HIDE DEF put, entry
<1>6. Outcome(Go(<<put>> \o rest), g) /\ Outcome(Go(<<entry>> \o rest), g)
  <2>1. <<put>> \o rest \in Seq(Reqs(g)) /\ <<entry>> \o rest \in Seq(Reqs(g))
    BY <1>4, InFront
  <2> QED BY <2>1, GoResult
<1>7. \A e \in {"err", "errNotExist"} : Outcome(Fail(e, rest), g)
  <2>1. {"err", "errNotExist"} \subseteq Error
    BY DEF Error, Results
  <2> QED BY <2>1, FailResult
<1> QED BY <1>5, <1>6, <1>7

\* What comes after the look of a removal: nothing, or requests of a removal.
LEMMA FtpRemoveResult ==
  ASSUME NEW g \in BOOLEAN, NEW r \in Reqs(g), r.why = "remove", NEW a, NEW rest \in Seq(Reqs(g)),
         a \in {"dir", "file", "missing", "err"}
  PROVE  Outcome(FtpRemove(r, a, rest), g)
<1>1. r.n \in Path /\ r.n # <<>> /\ ~g
  BY RequestTypes DEF Valid, Gentle
<1> DEFINE dele == Act("dele", r.n)
           rmlist == Act("rmlist", r.n)
<1>2. g = FALSE
  BY <1>1
<1>3. dele \in Reqs(g) /\ rmlist \in Reqs(g)
  BY <1>1, <1>2, RemovalRequests
<1>4. \/ FtpRemove(r, a, rest) = Fail("err", rest)
      \/ FtpRemove(r, a, rest) \in {Go(<<dele>> \o rest), Go(<<rmlist>> \o rest), Go(<<>>)}
  BY DEF FtpRemove
<1> HIDE DEF dele, rmlist
<1>5. Outcome(Go(<<dele>> \o rest), g) /\ Outcome(Go(<<rmlist>> \o rest), g) /\ Outcome(Go(<<>>), g)
  <2>1. <<dele>> \o rest \in Seq(Reqs(g)) /\ <<rmlist>> \o rest \in Seq(Reqs(g)) /\ <<>> \in Seq(Reqs(g))
    BY <1>3, InFront
  <2> QED BY <2>1, GoResult
<1>6. Outcome(Fail("err", rest), g)
  <2>1. "err" \in Error
    BY DEF Error, Results
  <2> QED BY <2>1, FailResult
<1> QED BY <1>4, <1>5, <1>6

\* MkdirAll leaves looks, and what was to be made after it.
LEMMA MkdirAllResult ==
  ASSUME NEW g \in BOOLEAN, NEW n \in Path, NEW why \in Error \cup {"all"}, NEW a,
         NEW rest \in Seq(Reqs(g)), a \in {"dir", "file", "missing", "err"}
  PROVE  Outcome(MkdirAll(Look(why, n), a, rest), g)
<1> DEFINE r == Look(why, n)
           above == IF Above(n) THEN <<Look("all", Parent(n))>> ELSE <<>>
           mkdir == <<Look("mkdirAll", n)>>
<1>1. Parent(n) \in Path
  <2>1. Len(n) \in Nat /\ Parent(n) = SubSeq(n, 1, Len(n) - 1)
    BY DEF Parent, Path
  <2> QED BY <2>1 DEF Path
<1>2. Look("all", Parent(n)) \in Reqs(g) /\ Look("mkdirAll", n) \in Reqs(g)
  <2>1. /\ "all" \in (Whys \ {"", "parent", "entry", "import", "remove"}) \cup Error
        /\ "mkdirAll" \in (Whys \ {"", "parent", "entry", "import", "remove"}) \cup Error
    BY DEF Whys
  <2> QED BY <1>1, <2>1, MadeRequests
<1>3. above \in Seq(Reqs(g)) /\ mkdir \in Seq(Reqs(g))
  BY <1>2
<1>4. r.n = n /\ r.why = why
  BY DEF Look, Request
<1>5. \/ MkdirAll(r, a, rest) = Fail("errNotDir", rest)
      \/ why \in Error /\ MkdirAll(r, a, rest) = Fail(why, rest)
      \/ MkdirAll(r, a, rest) \in {Go((above \o mkdir) \o rest), Go(above \o mkdir \o rest), Go(rest)}
  <2> HIDE DEF r
  <2> QED BY <1>4 DEF MkdirAll
<1> HIDE DEF above, mkdir, r
<1>6. Outcome(Go((above \o mkdir) \o rest), g) /\ Outcome(Go(rest), g)
  <2>1. above \o mkdir \in Seq(Reqs(g))
    BY <1>3, ConcatProperties
  <2>2. (above \o mkdir) \o rest \in Seq(Reqs(g))
    BY <2>1, ConcatProperties
  <2> QED BY <2>2, GoResult
<1>7. Outcome(Fail("errNotDir", rest), g) /\ (why \in Error => Outcome(Fail(why, rest), g))
  <2>1. "errNotDir" \in Error
    BY DEF Error, Results
  <2> QED BY <2>1, FailResult
<1> QED BY <1>5, <1>6, <1>7 DEF r

\* A walk leaves a listing or a file to export.
LEMMA WalkResult ==
  ASSUME NEW g \in BOOLEAN, NEW r \in Reqs(g), NEW a, a = "file" => tree[r.n] \in Contents,
         NEW rest \in Seq(Reqs(g))
  PROVE  Outcome(Walk(r, a, rest), g)
<1> DEFINE list == Act("list", r.n)
           export == Request("export", "", r.n, <<>>, tree[r.n])
<1>1. r.n \in Path
  BY RequestTypes
<1>2. list \in Reqs(g) /\ (a = "file" => export \in Reqs(g))
  BY <1>1, MadeRequests
<1>3. \/ Walk(r, a, rest) \in {Go(<<list>> \o rest), Go(rest)}
      \/ a = "file" /\ Walk(r, a, rest) = Go(<<export>> \o rest)
  BY DEF Walk
<1> HIDE DEF list, export
<1>4. Outcome(Go(<<list>> \o rest), g) /\ Outcome(Go(rest), g)
  <2>1. <<list>> \o rest \in Seq(Reqs(g))
    BY <1>2, InFront
  <2> QED BY <2>1, GoResult
<1>5. a = "file" => Outcome(Go(<<export>> \o rest), g)
  <2>1. a = "file" => <<export>> \o rest \in Seq(Reqs(g))
    BY <1>2, InFront
  <2> QED BY <2>1, GoResult
<1> QED BY <1>3, <1>4, <1>5

\* An entry of an import leaves the MkdirAll of its directory, then the file.
LEMMA ImportDirResult ==
  ASSUME NEW g \in BOOLEAN, NEW r \in Reqs(g), r.do = "look", r.why = "import", NEW a,
         NEW rest \in Seq(Reqs(g)), a \in {"dir", "file", "missing", "err"}
  PROVE  Outcome(ImportDir(r, a, rest), g)
<1> DEFINE parent == [r EXCEPT !.why = "parent"]
<1>1. r.n \in Path /\ r.v \in Contents
  BY RequestTypes DEF Valid
<1>2. parent \in Reqs(g)
  BY <1>1 DEF Reqs, Requests, Valid, Gentle, Whys
<1>3. Parent(r.n) \in Path
  <2>1. Len(r.n) \in Nat
    BY <1>1 DEF Path
  <2> QED BY <1>1, <2>1 DEF Parent, Path
<1> HIDE DEF parent
<1>4. <<parent>> \o rest \in Seq(Reqs(g))
  BY <1>2, InFront
<1>5. Outcome(MkdirAll(Look("all", Parent(r.n)), a, <<parent>> \o rest), g)
  BY <1>3, <1>4, MkdirAllResult
<1> QED BY <1>5 DEF ImportDir, parent

\* Whatever a look is answered, what comes after it is the outcome of a call.
LEMMA AfterResult ==
  ASSUME NEW g \in BOOLEAN, NEW r \in Reqs(g), r.do = "look",
         NEW a \in {"dir", "file", "missing", "err"}, a = "file" => tree[Looked(r)] \in Contents,
         NEW rest \in Seq(Reqs(g))
  PROVE  Outcome(After(r, a, rest), g)
<1>1. r.why \in Whys \cup Error /\ r.why # "" /\ r.n \in Path
  BY RequestTypes DEF Valid
<1>2. CASE r.why \in {"mkdir", "mkdirAll"}
  BY <1>2, MkdirResult DEF After
<1>3. CASE r.why \in {"opendir", "mkparent", "made"}
  BY <1>3, OpenDirResult DEF After
<1>4. CASE r.why \in {"parent", "entry"}
  BY <1>4, CreateResult DEF After
<1>5. CASE r.why = "remove"
  BY <1>5, FtpRemoveResult DEF After
<1>6. CASE r.why = "walk"
  <2>1. a = "file" => tree[r.n] \in Contents
    BY <1>6 DEF Looked
  <2>2. Outcome(Walk(r, a, rest), g)
    BY <2>1, WalkResult
  <2> QED BY <1>6, <2>2 DEF After
<1>7. CASE r.why = "import"
  BY <1>7, ImportDirResult DEF After
<1>8. CASE r.why \in Error \cup {"all"}
  <2>1. MkdirAll(r, a, rest) = MkdirAll(Look(r.why, r.n), a, rest)
    BY DEF MkdirAll, Look, Request
  <2>2. Outcome(MkdirAll(Look(r.why, r.n), a, rest), g)
    BY <1>1, <1>8, MkdirAllResult
  <2>3. After(r, a, rest) = MkdirAll(r, a, rest)
    BY <1>8 DEF After, Error, Results
  <2> QED BY <2>1, <2>2, <2>3
<1>9. r.why \in {"mkdir", "mkdirAll", "opendir", "mkparent", "made", "parent", "entry", "import",
                 "remove", "walk", "all"} \cup Error
  BY <1>1 DEF Whys
<1> QED BY <1>2, <1>3, <1>4, <1>5, <1>6, <1>7, <1>8, <1>9

-----------------------------------------------------------------------------
(* The server's tree.                                                      *)

\* A kind is one of three.
LEMMA KindIs ==
  ASSUME NEW p
  PROVE  /\ Kind(p) \in {"dir", "file", "missing"}
         /\ Kind(p) = "missing" <=> p \notin DOMAIN tree
         /\ Kind(p) = "dir" <=> p \in DOMAIN tree /\ tree[p] = Dir
         /\ Kind(p) = "file" <=> p \in DOMAIN tree /\ tree[p] # Dir
BY DEF Kind, KindIn

\* The paths above a path.
LEMMA AbovePath ==
  ASSUME NEW p \in Path, NEW d \in Path
  PROVE  /\ Under(d, p) <=> Len(d) \in 0..Len(p) - 1 /\ d = SubSeq(p, 1, Len(d))
         /\ \A k \in 0..Len(p) - 1 : SubSeq(p, 1, k) \in Path /\ Under(SubSeq(p, 1, k), p)
<1> USE DEF Path
<1>1. Len(p) \in Nat /\ Len(d) \in Nat
  OBVIOUS
<1>2. Len(d) = Len(p) /\ d = SubSeq(p, 1, Len(d)) => d = p
  BY SubSeqFull
<1>3. Under(d, p) <=> Len(d) \in 0..Len(p) - 1 /\ d = SubSeq(p, 1, Len(d))
  BY <1>1, <1>2 DEF Under, InTree
<1>4. ASSUME NEW k \in 0..Len(p) - 1 PROVE SubSeq(p, 1, k) \in Path /\ Under(SubSeq(p, 1, k), p)
  <2> DEFINE s == SubSeq(p, 1, k)
  <2>1. s \in Path /\ Len(s) = k
    BY <1>1
  <2>2. Len(p) >= k /\ k # Len(p)
    BY <1>1
  <2> QED BY <2>1, <2>2 DEF Under, InTree
<1> QED BY <1>3, <1>4

\* A tree, and its paths: every path is below directories only.
IsFine(t) ==
  /\ IsTree(t) /\ DOMAIN t \subseteq Path /\ IsFiniteSet(DOMAIN t)

\* What is above a path of a tree is one of its directories.
LEMMA AboveIsDir ==
  ASSUME NEW t, IsFine(t), NEW p \in DOMAIN t, NEW d \in Path, Under(d, p)
  PROVE  d \in DOMAIN t /\ t[d] = Dir
<1>1. p \in Path
  BY DEF IsFine
<1>2. Len(d) \in 0..Len(p) - 1 /\ d = SubSeq(p, 1, Len(d))
  BY <1>1, AbovePath
<1>3. SubSeq(p, 1, Len(d)) \in DOMAIN t /\ t[SubSeq(p, 1, Len(d))] = Dir
  BY <1>2 DEF IsFine, IsTree
<1> QED BY <1>2, <1>3

\* To show that a tree is one.
LEMMA FineIs ==
  ASSUME NEW t, DOMAIN t \subseteq Path, IsFiniteSet(DOMAIN t), <<>> \in DOMAIN t, t[<<>>] = Dir,
         \A p \in DOMAIN t : t[p] \in {Dir} \cup Contents,
         \A p \in DOMAIN t, d \in Path : Under(d, p) => d \in DOMAIN t /\ t[d] = Dir
  PROVE  IsFine(t)
<1>1. ASSUME NEW p \in DOMAIN t, NEW k \in 0..Len(p) - 1
      PROVE  SubSeq(p, 1, k) \in DOMAIN t /\ t[SubSeq(p, 1, k)] = Dir
  <2>1. p \in Path
    OBVIOUS
  <2>2. SubSeq(p, 1, k) \in Path /\ Under(SubSeq(p, 1, k), p)
    BY <2>1, AbovePath
  <2> QED BY <2>2
<1> QED BY <1>1 DEF IsFine, IsTree, Contents

\* A parent is right above a path, and what is above the path is not below it.
LEMMA ParentAbove ==
  ASSUME NEW p \in Path, p # <<>>
  PROVE  /\ Parent(p) \in Path /\ Len(Parent(p)) = Len(p) - 1 /\ Under(Parent(p), p)
         /\ \A d \in Path : Under(d, p) => d = Parent(p) \/ Under(d, Parent(p))
<1> USE DEF Path
<1>1. Len(p) \in Nat \ {0}
  OBVIOUS
<1>2. Parent(p) \in Path /\ Len(Parent(p)) = Len(p) - 1
  <2> DEFINE k == Len(p) - 1
  <2>1. k \in 0..Len(p)
    BY <1>1
  <2> HIDE DEF k
  <2>2. SubSeq(p, 1, k) \in Seq(Names) /\ Len(SubSeq(p, 1, k)) = k
    BY <2>1
  <2> QED BY <2>2 DEF Parent, k
<1>3. Under(Parent(p), p)
  <2>1. Len(p) - 1 \in 0..Len(p) - 1
    BY <1>1
  <2> QED BY <2>1, AbovePath DEF Parent
<1>4. ASSUME NEW d \in Path, Under(d, p) PROVE d = Parent(p) \/ Under(d, Parent(p))
  <2>1. InTree(d, p) /\ d # p
    BY <1>4 DEF Under
  <2>2. InTree(d, Parent(p))
    BY <2>1, ParentInTree
  <2> QED BY <2>2 DEF Under
<1> QED BY <1>2, <1>3, <1>4

\* What is put below a directory, in the place of no directory, keeps the tree.
LEMMA PlacedFine ==
  ASSUME NEW t, IsFine(t), NEW p \in Path, p # <<>>, KindIn(t, Parent(p)) = "dir",
         KindIn(t, p) # "dir", NEW v \in {Dir} \cup Contents
  PROVE  IsFine(Placed(t, p, v))
<1> DEFINE u == Placed(t, p, v)
<1>1. DOMAIN u = DOMAIN t \cup {p} /\ u[p] = v /\ \A q \in DOMAIN t : q # p => u[q] = t[q]
  BY DEF Placed
<1>2. DOMAIN t \subseteq Path /\ IsFiniteSet(DOMAIN t) /\ <<>> \in DOMAIN t /\ t[<<>>] = Dir
  BY DEF IsFine, IsTree
<1>3. \A q \in DOMAIN t : t[q] \in {Dir} \cup Contents
  BY DEF IsFine, IsTree, Contents
<1>4. DOMAIN u \subseteq Path /\ IsFiniteSet(DOMAIN u)
  <2>1. IsFiniteSet(DOMAIN t \cup {p})
    BY <1>2, FS_AddElement
  <2> QED BY <1>1, <1>2, <2>1
<1>5. <<>> \in DOMAIN u /\ u[<<>>] = Dir
  BY <1>1, <1>2
<1>6. \A q \in DOMAIN u : u[q] \in {Dir} \cup Contents
  BY <1>1, <1>3
<1>7. ~(p \in DOMAIN t /\ t[p] = Dir) /\ Parent(p) \in DOMAIN t /\ t[Parent(p)] = Dir
  BY DEF KindIn
<1> HIDE DEF u
<1>8. ASSUME NEW q \in DOMAIN u, NEW d \in Path, Under(d, q)
      PROVE  d \in DOMAIN u /\ u[d] = Dir
  <2>1. CASE q = p
    <3>1. d = Parent(p) \/ Under(d, Parent(p))
      BY <1>8, <2>1, ParentAbove
    <3>2. d \in DOMAIN t /\ t[d] = Dir
      BY <1>7, <3>1, AboveIsDir
    <3>3. d # p
      BY <1>7, <3>2
    <3> QED BY <1>1, <3>2, <3>3
  <2>2. CASE q # p
    <3>1. q \in DOMAIN t
      BY <1>1, <2>2
    <3>2. d \in DOMAIN t /\ t[d] = Dir
      BY <1>8, <3>1, AboveIsDir
    <3>3. d # p
      BY <1>7, <3>2
    <3> QED BY <1>1, <3>2, <3>3
  <2> QED BY <2>1, <2>2
<1>9. IsFine(u)
  BY <1>4, <1>5, <1>6, <1>8, FineIs
<1> QED BY <1>9 DEF u

\* What is removed is removed with all that is below it.
LEMMA WithoutFine ==
  ASSUME NEW t, IsFine(t), NEW n \in Path, n # <<>>
  PROVE  IsFine(WithoutTree(t, n))
<1> DEFINE u == WithoutTree(t, n)
<1>1. DOMAIN u = {p \in DOMAIN t : ~InTree(n, p)} /\ \A p \in DOMAIN u : u[p] = t[p]
  BY DEF WithoutTree
<1>2. DOMAIN t \subseteq Path /\ IsFiniteSet(DOMAIN t) /\ <<>> \in DOMAIN t /\ t[<<>>] = Dir
  BY DEF IsFine, IsTree
<1>3. \A q \in DOMAIN t : t[q] \in {Dir} \cup Contents
  BY DEF IsFine, IsTree, Contents
<1> HIDE DEF u
<1>4. DOMAIN u \subseteq Path /\ IsFiniteSet(DOMAIN u)
  <2>1. DOMAIN u \subseteq DOMAIN t
    BY <1>1
  <2> QED BY <1>2, <2>1, FS_Subset
<1>5. <<>> \in DOMAIN u
  <2>1. Len(n) \in Nat /\ Len(n) # 0 /\ Len(<<>>) = 0
    BY DEF Path
  <2>2. ~InTree(n, <<>>)
    BY <2>1 DEF InTree
  <2> QED BY <1>1, <1>2, <2>2
<1>6. ASSUME NEW q \in DOMAIN u, NEW d \in Path, Under(d, q)
      PROVE  d \in DOMAIN u /\ u[d] = Dir
  <2>1. q \in DOMAIN t /\ ~InTree(n, q) /\ q \in Path
    BY <1>1, <1>2
  <2>2. d \in DOMAIN t /\ t[d] = Dir
    BY <1>6, <2>1, AboveIsDir
  <2>3. InTree(d, q)
    BY <1>6 DEF Under
  <2>4. ~InTree(n, d)
    BY <2>1, <2>3, InTreeTransitive DEF Path
  <2> QED BY <1>1, <2>2, <2>4
<1>7. \A q \in DOMAIN u : u[q] \in {Dir} \cup Contents
  BY <1>1, <1>3
<1>8. u[<<>>] = Dir
  BY <1>1, <1>2, <1>5
<1>9. IsFine(u)
  BY <1>4, <1>5, <1>6, <1>7, <1>8, FineIs
<1> QED BY <1>9 DEF u

\* What is moved below a directory that does not move, in the place of no
\* directory, and of a file only if it is one, keeps the tree.
LEMMA MovedFine ==
  ASSUME NEW t, IsFine(t), NEW n \in Path, NEW to \in Path, n # <<>>, to # <<>>,
         n \in DOMAIN t, KindIn(t, Parent(to)) = "dir", ~Under(n, to),
         KindIn(t, to) = "missing" \/ (KindIn(t, n) = "file" /\ KindIn(t, to) = "file")
  PROVE  IsFine(MovedTree(t, n, to))
<1> DEFINE u == MovedTree(t, n, to)
           moved == {Rebased(p, n, to) : p \in {p \in DOMAIN t : InTree(n, p)}}
           kept == {p \in DOMAIN t : ~InTree(n, p)}
<1>1. DOMAIN t \subseteq Path /\ IsFiniteSet(DOMAIN t) /\ <<>> \in DOMAIN t /\ t[<<>>] = Dir
  BY DEF IsFine, IsTree
<1>2. \A q \in DOMAIN t : t[q] \in {Dir} \cup Contents
  BY DEF IsFine, IsTree, Contents
<1>3. DOMAIN u = moved \cup kept
  BY DEF MovedTree
<1>4. \A p \in DOMAIN t : InTree(n, p) => u[Rebased(p, n, to)] = t[p]
  BY <1>1, MovedContent DEF Path
<1>5. \A q \in moved : \E p \in DOMAIN t : InTree(n, p) /\ q = Rebased(p, n, to) /\ u[q] = t[p]
  BY <1>4
<1>6. \A q \in kept : q \notin moved => u[q] = t[q]
  <2>1. ASSUME NEW q \in kept, q \notin moved PROVE u[q] = t[q]
    <3>1. q \in DOMAIN t /\ ~InTree(n, q) /\ \A p \in DOMAIN t : InTree(n, p) => q # Rebased(p, n, to)
      BY <2>1
    <3> QED BY <3>1, UnmovedContent
  <2> QED BY <2>1
<1>7. IsFiniteSet(moved \cup kept)
  <2> DEFINE under == {p \in DOMAIN t : InTree(n, p)}
  <2>1. IsFiniteSet(under) /\ IsFiniteSet(kept)
    BY <1>1, FS_Subset
  <2>2. IsFiniteSet({Rebased(p, n, to) : p \in under})
    BY <2>1, FiniteImage
  <2> QED BY <2>1, <2>2, FS_Union
<1>8. \A q \in moved : q \in Path /\ InTree(to, q)
  BY <1>1, RebasedInTree DEF Path
<1> HIDE DEF u
<1>9. DOMAIN u \subseteq Path /\ IsFiniteSet(DOMAIN u)
  BY <1>1, <1>3, <1>7, <1>8
<1>10. \A q \in DOMAIN u : u[q] \in {Dir} \cup Contents
  BY <1>2, <1>3, <1>5, <1>6
<1>11. ~InTree(n, <<>>) /\ ~InTree(to, <<>>)
  <2>1. Len(n) \in Nat \ {0} /\ Len(to) \in Nat \ {0} /\ Len(<<>>) = 0
    BY DEF Path
  <2> QED BY <2>1 DEF InTree
<1>12. <<>> \in DOMAIN u /\ u[<<>>] = Dir
  <2>1. <<>> \in kept /\ <<>> \notin moved
    BY <1>1, <1>8, <1>11
  <2> QED BY <1>1, <1>3, <1>6, <2>1
<1>13. ASSUME NEW d \in Path, d \in DOMAIN t, t[d] = Dir, ~InTree(n, d)
       PROVE  d \in DOMAIN u /\ u[d] = Dir
  <2>1. d \in kept
    BY <1>13
  <2>2. CASE d \in moved
    <3>1. PICK p \in DOMAIN t : InTree(n, p) /\ d = Rebased(p, n, to) /\ u[d] = t[p]
      BY <1>5, <2>2
    <3>2. InTree(to, d) /\ p \in Path
      BY <1>1, <1>8, <2>2
    <3>3. to \in DOMAIN t
      <4>1. CASE d = to
        BY <1>13, <4>1
      <4>2. CASE d # to
        <5>1. Under(to, d)
          BY <3>2, <4>2 DEF Under
        <5> QED BY <1>13, <5>1, AboveIsDir
      <4> QED BY <4>1, <4>2
    <3>4. t[n] # Dir /\ t[to] # Dir
      BY <3>3 DEF KindIn
    <3>5. d = to
      <4>1. d # to => Under(to, d)
        BY <3>2 DEF Under
      <4> QED BY <1>13, <3>4, <4>1, AboveIsDir
    <3> QED BY <1>13, <3>4, <3>5
  <2> QED BY <1>3, <1>6, <1>13, <2>1, <2>2
<1>14. ASSUME NEW d \in Path, Under(d, to) PROVE d \in DOMAIN u /\ u[d] = Dir
  <2>1. d = Parent(to) \/ Under(d, Parent(to))
    BY <1>14, ParentAbove
  <2>2. Parent(to) \in DOMAIN t /\ t[Parent(to)] = Dir
    BY DEF KindIn
  <2>3. d \in DOMAIN t /\ t[d] = Dir
    BY <2>1, <2>2, AboveIsDir
  <2>4. InTree(d, to)
    BY <1>14 DEF Under
  <2>5. ~InTree(n, d)
    <3>1. ASSUME InTree(n, d) PROVE FALSE
      <4>1. InTree(n, to)
        BY <2>4, <3>1, InTreeTransitive DEF Path
      <4>2. n = to
        BY <4>1 DEF Under
      <4>3. Len(d) \in 0..Len(to) - 1 /\ Len(d) >= Len(n)
        BY <1>14, <3>1, AbovePath DEF InTree
      <4>4. Len(to) \in Nat
        BY DEF Path
      <4> QED BY <4>2, <4>3, <4>4
    <3> QED BY <3>1
  <2> QED BY <1>13, <2>3, <2>5
<1>15. ASSUME NEW q \in DOMAIN u, NEW d \in Path, Under(d, q)
       PROVE  d \in DOMAIN u /\ u[d] = Dir
  <2>1. InTree(d, q) /\ q \in Path
    BY <1>9, <1>15 DEF Under
  <2>2. CASE q \in moved
    <3>1. PICK p \in DOMAIN t : InTree(n, p) /\ q = Rebased(p, n, to)
      BY <2>2
    <3>2. p \in Path /\ InTree(to, q)
      BY <1>1, <1>8, <2>2
    <3>3. CASE InTree(to, d)
      <4> DEFINE b == Rebased(d, to, n)
      <4>1. InTree(d, Rebased(p, n, to))
        BY <2>1, <3>1
      <4>2. /\ b \in Path /\ InTree(n, b)
            /\ InTree(b, p) /\ Rebased(b, n, to) = d
        BY <3>1, <3>2, <3>3, <4>1, BetweenMoved DEF Path
      <4> HIDE DEF b
      <4>3. b # p
        BY <1>15, <3>1, <4>2 DEF Under
      <4>4. Under(b, p)
        BY <4>2, <4>3 DEF Under
      <4>5. b \in DOMAIN t /\ t[b] = Dir
        BY <4>2, <4>4, AboveIsDir
      <4>6. d \in moved /\ u[d] = t[b]
        BY <1>4, <4>2, <4>5
      <4> QED BY <1>3, <4>5, <4>6
    <3>4. CASE ~InTree(to, d)
      <4>1. Under(d, to)
        <5>1. Len(to) \in Nat /\ Len(d) \in Nat
          BY DEF Path
        <5>2. Len(to) <= Len(d) => InTree(to, d)
          BY <2>1, <3>2, InTreeLinear DEF Path
        <5>3. Len(d) <= Len(to)
          BY <3>4, <5>1, <5>2
        <5>4. InTree(d, to)
          BY <2>1, <3>2, <5>3, InTreeLinear DEF Path
        <5>5. d # to
          BY <3>4, InOwnTree DEF Path
        <5> QED BY <5>4, <5>5 DEF Under
      <4> QED BY <1>14, <4>1
    <3> QED BY <3>3, <3>4
  <2>3. CASE q \in kept
    <3>1. q \in DOMAIN t /\ ~InTree(n, q)
      BY <2>3
    <3>2. d \in DOMAIN t /\ t[d] = Dir
      BY <1>15, <3>1, AboveIsDir
    <3>3. ~InTree(n, d)
      BY <2>1, <3>1, InTreeTransitive DEF Path
    <3> QED BY <1>13, <3>2, <3>3
  <2> QED BY <1>3, <2>2, <2>3
<1>16. IsFine(u)
  BY <1>9, <1>10, <1>12, <1>15, FineIs
<1> QED BY <1>16 DEF u

-----------------------------------------------------------------------------
(* Names, and the trees the server starts with.                            *)

\* Two paths that lie in each other's trees are one.
LEMMA BothInTree ==
  ASSUME NEW S, NEW a \in Seq(S), NEW b \in Seq(S), InTree(a, b), InTree(b, a)
  PROVE  a = b
<1>1. /\ Len(a) <= Len(b) /\ Len(b) <= Len(a)
      /\ \A i \in 1..Len(b) : a[i] = b[i]
  BY InTreeElements
<1>2. Len(a) = Len(b)
  BY <1>1
<1> QED BY <1>1, <1>2, SeqEqual

\* Every path lies below the root.
LEMMA BelowRoot ==
  ASSUME NEW p \in Path
  PROVE  <<>> \in Path /\ InTree(<<>>, p)
<1> DEFINE root == <<>>
<1>1. root \in Seq(Names) /\ Len(root) = 0
  OBVIOUS
<1>2. p \in Seq(Names) /\ Len(p) \in Nat
  BY DEF Path
<1> HIDE DEF root
<1>3. Len(root) <= Len(p) /\ \A i \in 1..Len(root) : p[i] = root[i]
  BY <1>1, <1>2
<1>4. InTree(root, p)
  BY <1>1, <1>2, <1>3, InTreeElements
<1> QED BY <1>1, <1>4 DEF root, Path

\* The server's name of a path, and back.
LEMMA FullNameIs ==
  ASSUME NEW p \in Path
  PROVE  /\ FullName(<<>>) \in Path
         /\ FullName(p) \in Path /\ InTree(FullName(<<>>), FullName(p))
         /\ FullName(p) = Rebased(p, <<>>, FullName(<<>>))
         /\ Rebased(FullName(p), FullName(<<>>), <<>>) = p
<1> DEFINE root == FullName(<<>>)
<1>1. <<>> \in Path /\ Base \in Path /\ Len(<<>>) = 0
  BY NamespaceAssumption DEF Path
<1>2. root \in Path /\ (backend = "ftp" => root = Base) /\ (backend # "ftp" => root = <<>>)
  <2>1. Base \o <<>> = Base
    BY <1>1, ConcatEmptySeq DEF Path
  <2> QED BY <1>1, <2>1 DEF FullName
<1>3. FullName(p) = root \o p
  <2>1. <<>> \o p = p
    BY ConcatEmptySeq DEF Path
  <2> QED BY <1>2, <2>1 DEF FullName
<1>4. Rebased(p, <<>>, root) = root \o p
  <2>1. SubSeq(p, 1, Len(p)) = p
    BY SubSeqFull DEF Path
  <2>2. Len(<<>>) + 1 = 1
    BY <1>1
  <2> QED BY <2>1, <2>2 DEF Rebased
<1> HIDE DEF root
<1>5. InTree(<<>>, p)
  BY BelowRoot
<1>6. Rebased(p, <<>>, root) \in Path /\ InTree(root, Rebased(p, <<>>, root))
  BY <1>1, <1>2, <1>5, RebasedInTree DEF Path
<1>7. Rebased(Rebased(p, <<>>, root), root, <<>>) = p
  BY <1>1, <1>2, <1>5, RebasedBack DEF Path
<1> QED BY <1>2, <1>3, <1>4, <1>6, <1>7 DEF root

\* What lies between the root of the file system and a name it has, has a name.
LEMMA NameOf ==
  ASSUME NEW p \in Path, NEW q \in Path, InTree(FullName(<<>>), q), InTree(q, FullName(p))
  PROVE  \E b \in Path : /\ b = Rebased(q, FullName(<<>>), <<>>)
                         /\ InTree(b, p) /\ FullName(b) = q
<1> DEFINE root == FullName(<<>>)
           top == <<>>
           b == Rebased(q, root, top)
<1>1. top \in Seq(Names) /\ InTree(top, p) /\ root \in Seq(Names) /\ FullName(p) = Rebased(p, top, root)
  BY BelowRoot, FullNameIs DEF Path
<1>2. p \in Seq(Names) /\ q \in Seq(Names) /\ InTree(root, q) /\ InTree(q, Rebased(p, top, root))
  BY <1>1 DEF Path
<1> HIDE DEF root, top
<1>3. b \in Seq(Names) /\ InTree(b, p) /\ Rebased(b, top, root) = q
  BY <1>1, <1>2, BetweenMoved
<1> HIDE DEF b
<1>4. FullName(b) = Rebased(b, <<>>, FullName(<<>>))
  BY <1>3, FullNameIs DEF Path
<1>5. b \in Path /\ InTree(b, p) /\ FullName(b) = q
  BY <1>3, <1>4 DEF top, root, Path
<1> QED BY <1>5 DEF b, root, top

\* The tree the server starts with is one.
LEMMA StartFine ==
  ASSUME Init
  PROVE  IsFine(tree)
<1> DEFINE root == FullName(<<>>)
<1>1. PICK t \in Trees :
        tree = [p \in Prefixes(root) \cup {FullName(p) : p \in DOMAIN t} |->
                  IF InTree(root, p) THEN t[Rebased(p, root, <<>>)] ELSE Dir]
  BY DEF Init
<1>2. DOMAIN t \subseteq Path /\ IsFiniteSet(DOMAIN t) /\ IsTree(t)
  BY NamespaceAssumption DEF Path
<1>3. IsFine(t)
  BY <1>2 DEF IsFine
<1>4. <<>> \in Path /\ Len(<<>>) = 0 /\ <<>> \in DOMAIN t /\ t[<<>>] = Dir
  BY <1>2 DEF Path, IsTree
<1>5. root \in Path /\ Len(root) \in Nat /\ root = FullName(<<>>)
  <2>1. root \in Path
    BY <1>4, FullNameIs
  <2> QED BY <2>1 DEF Path
<1>6. \A p \in DOMAIN t : /\ FullName(p) \in Path /\ Rebased(FullName(p), root, <<>>) = p
                          /\ FullName(p) = Rebased(p, <<>>, root) /\ InTree(root, FullName(p))
  BY <1>2, FullNameIs
<1>7. \A q \in Prefixes(root) : q \in Path /\ InTree(q, root)
  <2> SUFFICES ASSUME NEW q \in Prefixes(root) PROVE q \in Path /\ InTree(q, root)
    OBVIOUS
  <2> HIDE DEF root
  <2>1. PICK k \in 0..Len(root) : q = SubSeq(root, 1, k)
    BY DEF Prefixes
  <2>2. q \in Seq(Names) /\ Len(q) = k
    BY <1>5, <2>1 DEF Path
  <2> QED BY <1>5, <2>1, <2>2 DEF InTree, Path
<1>8. \A p \in DOMAIN t : FullName(p) \in DOMAIN tree /\ tree[FullName(p)] = t[p]
  BY <1>1, <1>6
<1>9. \A q \in Prefixes(root) : q \in DOMAIN tree /\ (~InTree(root, q) => tree[q] = Dir)
  BY <1>1
<1>10. DOMAIN tree \subseteq Path /\ IsFiniteSet(DOMAIN tree)
  <2>1. {FullName(p) : p \in DOMAIN t} = {Rebased(p, <<>>, root) : p \in DOMAIN t}
    BY <1>6
  <2>2. IsFiniteSet({Rebased(p, <<>>, root) : p \in DOMAIN t})
    BY <1>2, FiniteImage
  <2>3. IsFiniteSet(Prefixes(root))
    <3> HIDE DEF root
    <3>1. IsFiniteSet(0..Len(root))
      BY <1>5, FS_Interval
    <3> DEFINE f == [k \in 0..Len(root) |-> SubSeq(root, 1, k)]
    <3>2. f \in Surjection(0..Len(root), Prefixes(root))
      BY DEF Prefixes, Surjection
    <3> QED BY <3>1, <3>2, FS_Surjection
  <2>4. IsFiniteSet({Rebased(p, <<>>, root) : p \in DOMAIN t} \cup Prefixes(root))
    BY <2>2, <2>3, FS_Union
  <2> QED BY <1>1, <1>6, <1>7, <2>1, <2>4
<1>11. \A q \in DOMAIN tree : (\E p \in DOMAIN t : q = FullName(p))
                                \/ (q \in Prefixes(root) /\ ~InTree(root, q))
  <2> SUFFICES ASSUME NEW q \in Prefixes(root), InTree(root, q) PROVE q = root
    BY <1>1, <1>4, <1>5
  <2> HIDE DEF root
  <2>1. q \in Seq(Names) /\ root \in Seq(Names) /\ InTree(q, root)
    BY <1>5, <1>7 DEF Path
  <2> QED BY <2>1, BothInTree
<1>12. \A q \in DOMAIN tree : tree[q] \in {Dir} \cup Contents
  BY <1>2, <1>8, <1>9, <1>11 DEF IsTree, Contents
<1> HIDE DEF root
<1>13. ASSUME NEW q \in DOMAIN tree, NEW d \in Path, Under(d, q)
       PROVE  d \in DOMAIN tree /\ tree[d] = Dir
  <2>1. q \in Path /\ InTree(d, q) /\ d # q
    BY <1>10, <1>13 DEF Under
  <2>2. ASSUME NEW p \in DOMAIN t, q = FullName(p), InTree(root, d)
        PROVE  d \in DOMAIN tree /\ tree[d] = Dir
    <3> DEFINE b == Rebased(d, root, <<>>)
    <3>1. p \in Path /\ InTree(root, q)
      BY <1>2, <1>6, <2>2
    <3>2. b \in Path /\ InTree(b, p) /\ FullName(b) = d
      BY <1>5, <2>1, <2>2, <3>1, NameOf
    <3> HIDE DEF b
    <3>3. Under(b, p)
      BY <2>1, <2>2, <3>2 DEF Under
    <3>4. b \in DOMAIN t /\ t[b] = Dir
      BY <1>3, <3>2, <3>3, AboveIsDir
    <3> QED BY <1>8, <3>2, <3>4
  <2>3. ASSUME InTree(d, root), ~InTree(root, d)
        PROVE  d \in DOMAIN tree /\ tree[d] = Dir
    <3>1. Len(d) \in 0..Len(root) /\ SubSeq(root, 1, Len(d)) = d
      BY <1>5, <2>3 DEF InTree, Path
    <3>2. d \in Prefixes(root)
      BY <3>1 DEF Prefixes
    <3> QED BY <1>9, <2>3, <3>2
  <2>4. CASE \E p \in DOMAIN t : q = FullName(p)
    <3>1. InTree(root, q)
      BY <1>6, <2>4
    <3>2. InTree(root, d) \/ InTree(d, root)
      <4>1. Len(d) \in Nat
        BY DEF Path
      <4>2. Len(d) <= Len(root) \/ Len(root) <= Len(d)
        BY <1>5, <4>1
      <4> QED BY <1>5, <2>1, <3>1, <4>2, InTreeLinear DEF Path
    <3> QED BY <2>2, <2>3, <2>4, <3>2
  <2>5. CASE q \in Prefixes(root) /\ ~InTree(root, q)
    <3>1. InTree(d, root)
      BY <1>5, <1>7, <2>1, <2>5, InTreeTransitive DEF Path
    <3>2. ~InTree(root, d)
      BY <1>5, <2>1, <2>5, InTreeTransitive DEF Path
    <3> QED BY <2>3, <3>1, <3>2
  <2> QED BY <1>11, <2>4, <2>5
<1>14. <<>> \in DOMAIN tree /\ tree[<<>>] = Dir
  <2>1. InTree(<<>>, root)
    BY <1>5, BelowRoot
  <2>2. CASE InTree(root, <<>>)
    <3>1. root = <<>>
      BY <1>4, <1>5, <2>1, <2>2, BothInTree DEF Path
    <3> QED BY <1>4, <1>5, <1>8, <3>1
  <2>3. CASE ~InTree(root, <<>>)
    <3>1. <<>> \in Prefixes(root)
      <4>1. SubSeq(root, 1, 0) = <<>>
        BY <1>5 DEF Path
      <4> QED BY <1>5, <4>1 DEF Prefixes
    <3> QED BY <1>9, <2>3, <3>1
  <2> QED BY <2>2, <2>3
<1> QED BY <1>10, <1>12, <1>13, <1>14, FineIs

-----------------------------------------------------------------------------
(* What the types rest on.                                                 *)

CallRecords == [op : Calls \cup {"none"}, n : Path, to : Path, v : Contents]

Typed ==
  /\ backend \in Backends /\ IsFine(tree) /\ flight \subseteq Path \X Contents
  /\ calm \in BOOLEAN
  /\ prog \in [Clients -> Seq(Reqs(calm))] /\ ret \in [Clients -> Results]
  /\ \A c \in Clients : prog[c] # <<>> => ret[c] = "none" /\ Head(prog[c]).do # "catch"
  /\ cur \in [Clients -> CallRecords] /\ \A c \in Clients : cur[c].n \in Paths /\ cur[c].to \in Paths
  /\ archive \in [Clients -> SUBSET (Path \X Contents)]
  /\ \A c \in Clients : IsFiniteSet(archive[c])
  /\ still \in [Clients -> SUBSET Files(Seen(tree))]
  /\ alone \subseteq Clients /\ calls \in 0..MaxCalls /\ faults \in 0..MaxFaults

\* What a step of a call does to the requests it has still to make.
LEMMA CallGoesOn ==
  ASSUME Typed, NEW c \in Clients, NEW x, Outcome(x, calm), Continue(c, x), calm' = calm
  PROVE  /\ prog' \in [Clients -> Seq(Reqs(calm'))] /\ ret' \in [Clients -> Results]
         /\ \A d \in Clients : prog'[d] # <<>> => ret'[d] = "none" /\ Head(prog'[d]).do # "catch"
<1>1. x.prog \in Seq(Reqs(calm)) /\ x.ret \in Results
  BY DEF Outcome, Error, Results
<1>2. prog' = [prog EXCEPT ![c] = x.prog] /\ ret' = [ret EXCEPT ![c] = x.ret]
  BY DEF Continue
<1>3. prog' \in [Clients -> Seq(Reqs(calm'))] /\ ret' \in [Clients -> Results]
  BY <1>1, <1>2 DEF Typed
<1>4. ASSUME NEW d \in Clients, prog'[d] # <<>>
      PROVE  ret'[d] = "none" /\ Head(prog'[d]).do # "catch"
  <2>1. CASE d = c
    <3>1. prog'[d] = x.prog /\ ret'[d] = x.ret
      BY <1>2, <2>1 DEF Typed
    <3> QED BY <1>4, <3>1 DEF Outcome
  <2>2. CASE d # c
    <3>1. prog'[d] = prog[d] /\ ret'[d] = ret[d]
      BY <1>2, <2>2 DEF Typed
    <3> QED BY <1>4, <3>1 DEF Typed
  <2> QED BY <2>1, <2>2
<1> QED BY <1>3, <1>4

\* A request that the server carries out leaves a tree.
LEMMA EffectFine ==
  ASSUME IsFine(tree), NEW r \in Reqs(FALSE), r.do \in Changes \cup {"put"}, Possible(r)
  PROVE  IsFine(Effect(r))
<1>1. r.n \in Path /\ r.to \in Path /\ Valid(r)
  BY RequestTypes
<1>2. Kind(<<>>) = "dir"
  BY DEF Kind, KindIn, IsFine, IsTree
<1>3. CASE r.do = "mkdir"
  <2>1. Effect(r) = Placed(tree, r.n, Dir) /\ Kind(r.n) = "missing" /\ Kind(Parent(r.n)) = "dir"
    BY <1>3 DEF Effect, Possible
  <2>2. r.n # <<>>
    BY <1>2, <2>1
  <2>3. Dir \in {Dir} \cup Contents
    OBVIOUS
  <2>4. IsFine(Placed(tree, r.n, Dir))
    BY <1>1, <2>1, <2>2, <2>3, PlacedFine DEF Kind
  <2> QED BY <2>1, <2>4
<1>4. CASE r.do = "put"
  <2>1. /\ Effect(r) = Placed(tree, r.n, r.v)
        /\ r.n # <<>> /\ Kind(r.n) # "dir" /\ Kind(Parent(r.n)) = "dir"
    BY <1>4 DEF Effect, Possible
  <2>2. r.v \in {Dir} \cup Contents
    BY <1>1, <1>4 DEF Valid
  <2>3. IsFine(Placed(tree, r.n, r.v))
    BY <1>1, <2>1, <2>2, PlacedFine DEF Kind
  <2> QED BY <2>1, <2>3
<1>5. CASE r.do \in {"delete", "dele", "rmd"}
  <2>1. Effect(r) = WithoutTree(tree, r.n) /\ r.n # <<>>
    BY <1>1, <1>5 DEF Effect, Valid
  <2>2. IsFine(WithoutTree(tree, r.n))
    BY <1>1, <2>1, WithoutFine
  <2> QED BY <2>1, <2>2
<1>6. CASE r.do = "move"
  <2> DEFINE n == r.n
             to == r.to
  <2>1. /\ Effect(r) = MovedTree(tree, n, to) /\ n # <<>> /\ to # <<>> /\ Kind(n) # "missing"
        /\ Kind(Parent(to)) = "dir" /\ ~Under(n, to)
        /\ Kind(to) = "missing" \/ (Kind(n) = "file" /\ Kind(to) = "file")
    <3>1. Effect(r) = MovedTree(tree, r.n, r.to)
      BY <1>6 DEF Effect
    <3>2. /\ n # <<>> /\ to # <<>> /\ Kind(n) # "missing" /\ Kind(Parent(to)) = "dir"
          /\ ~Under(n, to)
          /\ \/ Kind(to) = "missing"
             \/ backend = "ftp" /\ Kind(n) = "file" /\ Kind(to) = "file"
      BY <1>6, Zenon DEF Possible
    <3> QED BY <3>1, <3>2
  <2>2. n \in DOMAIN tree /\ n \in Path /\ to \in Path
    BY <1>1, <2>1 DEF Kind, KindIn
  <2> HIDE DEF n, to
  <2>3. /\ KindIn(tree, Parent(to)) = "dir"
        /\ KindIn(tree, to) = "missing" \/ (KindIn(tree, n) = "file" /\ KindIn(tree, to) = "file")
    BY <2>1 DEF Kind
  <2>4. IsFine(MovedTree(tree, n, to))
    BY <2>1, <2>2, <2>3, MovedFine
  <2> QED BY <2>1, <2>4
<1> QED BY <1>3, <1>4, <1>5, <1>6 DEF Changes

-----------------------------------------------------------------------------
(* What a call begins with, and what it makes of a listing.                *)

\* The requests that import an archive.
LEMMA ImportTypes ==
  ASSUME NEW g \in BOOLEAN, NEW to \in Path, NEW entries, entries \subseteq Path \X Contents,
         IsFiniteSet(entries)
  PROVE  Import(to, entries) \in Seq(Reqs(g))
<1> DEFINE s == SetToSeq(entries)
           each == [i \in DOMAIN s |-> ImportEntry(to, s[i])]
           dir == IF to = FullName(<<>>) THEN <<>> ELSE <<Look("all", to)>>
<1>1. s \in Seq(entries)
  BY ListingIs
<1>2. ASSUME NEW e \in entries PROVE ImportEntry(to, e) \in Reqs(g)
  <2> DEFINE n == to \o e[1]
  <2>1. n \in Path /\ e[2] \in Contents
    BY ConcatProperties DEF Path
  <2> HIDE DEF n
  <2>2. \A why \in {"parent", "import"} : Request("look", why, n, <<>>, e[2]) \in Reqs(g)
    BY <2>1, MadeRequests
  <2> QED BY <2>2 DEF ImportEntry, n
<1> HIDE DEF s
<1>3. each \in Seq(Reqs(g))
  <2>1. DOMAIN s = 1..Len(s) /\ Len(s) \in Nat /\ \A i \in DOMAIN s : s[i] \in entries
    BY <1>1
  <2>2. \A i \in 1..Len(s) : ImportEntry(to, s[i]) \in Reqs(g)
    BY <1>2, <2>1
  <2> QED BY <2>1, <2>2
<1>4. dir \in Seq(Reqs(g))
  <2>1. "all" \in (Whys \ {"", "parent", "entry", "import", "remove"}) \cup Error
    BY DEF Whys
  <2>2. Look("all", to) \in Reqs(g)
    BY <2>1, MadeRequests
  <2> QED BY <2>2
<1>5. Import(to, entries) = dir \o each
  BY DEF Import, Each, s
<1> HIDE DEF each, dir
<1> QED BY <1>3, <1>4, <1>5, ConcatProperties

\* What a call begins with is of these types.
LEMMA ProgramResult ==
  ASSUME NEW g \in BOOLEAN, NEW c \in Clients, NEW op \in Calls, NEW n \in Path, NEW to \in Path,
         NEW v \in Contents, g => op \notin {"RemoveAll", "Rename"},
         archive[c] \subseteq Path \X Contents, IsFiniteSet(archive[c])
  PROVE  Outcome(Program(c, op, n, to, v), g)
<1> DEFINE p == Program(c, op, n, to, v)
<1>1. \A r \in Reqs(g) : <<r>> \in Seq(Reqs(g)) /\ <<>> \in Seq(Reqs(g))
  OBVIOUS
<1>2. /\ \A r \in Reqs(g) : Outcome(Go(<<r>>), g)
      /\ Outcome(Go(<<>>), g)
  <2>1. \A r \in Reqs(g) : Outcome(Go(<<r>>), g)
    BY <1>1, GoResult
  <2>2. <<>> \in Seq(Reqs(g))
    OBVIOUS
  <2> QED BY <2>1, <2>2, GoResult
<1>3. \A why \in {"mkdir", "all", "walk"} : Look(why, n) \in Reqs(g)
  <2>1. {"mkdir", "all", "walk"} \subseteq (Whys \ {"", "parent", "entry", "import", "remove"}) \cup Error
    BY DEF Whys
  <2> QED BY <2>1, MadeRequests
<1>4. op \in {"Mkdir", "MkdirAll", "Create", "RemoveAll", "Rename", "Export", "Import"}
  BY NamespaceAssumption
<1>5. CASE op = "Mkdir"
  <2>1. p = Go(<<Look("mkdir", n)>>)
    BY <1>5 DEF Program
  <2>2. Look("mkdir", n) \in Reqs(g)
    BY <1>3
  <2> QED BY <1>2, <2>1, <2>2
<1>6. CASE op = "MkdirAll"
  <2>1. p = Go(<<Look("all", n)>>)
    BY <1>6 DEF Program
  <2>2. Look("all", n) \in Reqs(g)
    BY <1>3
  <2> QED BY <1>2, <2>1, <2>2
<1>7. CASE op = "Create"
  <2>1. p = Go(<<Put(n, v)>>) \/ p = Go(<<Request("look", "parent", n, <<>>, v)>>)
    BY <1>7 DEF Program
  <2>2. Put(n, v) \in Reqs(g)
    BY MadeRequests
  <2>3. Request("look", "parent", n, <<>>, v) \in Reqs(g)
    BY MadeRequests
  <2> QED BY <1>2, <2>1, <2>2, <2>3
<1>8. CASE op = "RemoveAll"
  <2>1. \/ p = Fail("errPermission", <<>>)
        \/ n # <<>> /\ p \in {Go(<<Look("remove", n)>>), Go(<<Act("delete", n)>>)}
    BY <1>8 DEF Program
  <2>2. ~g /\ g = FALSE
    BY <1>8
  <2>3. n # <<>> => Look("remove", n) \in Reqs(g) /\ Act("delete", n) \in Reqs(g)
    BY <2>2, RemovalRequests
  <2>4. Outcome(Fail("errPermission", <<>>), g)
    <3>1. "errPermission" \in Error
      BY DEF Error, Results
    <3>2. <<>> \in Seq(Reqs(g))
      OBVIOUS
    <3> QED BY <3>1, <3>2, FailResult
  <2> QED BY <1>2, <2>1, <2>3, <2>4
<1>9. CASE op = "Rename"
  <2>1. p = Go(<<>>) \/ p = Go(<<Request("move", "", n, to, 0)>>)
    BY <1>9 DEF Program
  <2>2. ~g /\ g = FALSE
    BY <1>9
  <2>3. Request("move", "", n, to, 0) \in Reqs(g)
    <3>1. <<>> \in Path /\ 0 \in {Dir} \cup Contents
      BY DEF Path, Dir
    <3> QED BY <2>2, <3>1 DEF Reqs, Requests, Valid, Gentle, Dos, Whys, Request
  <2> QED BY <1>2, <2>1, <2>3
<1>10. CASE op = "Export"
  <2>1. p = Go(<<Look("walk", n)>>)
    BY <1>10 DEF Program
  <2>2. Look("walk", n) \in Reqs(g)
    BY <1>3
  <2> QED BY <1>2, <2>1, <2>2
<1>11. CASE op = "Import"
  <2>1. p = Go(Import(n, archive[c]))
    BY <1>11 DEF Program
  <2>2. Import(n, archive[c]) \in Seq(Reqs(g))
    BY ImportTypes
  <2> QED BY <2>1, <2>2, GoResult
<1> QED BY <1>4, <1>5, <1>6, <1>7, <1>8, <1>9, <1>10, <1>11

\* A directory's entries: finitely many, right below it.
LEMMA ChildrenTypes ==
  ASSUME IsFine(tree), NEW d \in Path
  PROVE  /\ IsFiniteSet(Children(d)) /\ Children(d) \subseteq DOMAIN tree
         /\ \A p \in Children(d) : p \in Path /\ p # <<>> /\ Under(d, p) /\ Kind(p) \in {"dir", "file"}
<1>1. Children(d) \subseteq DOMAIN tree
  BY DEF Children, ChildrenIn
<1>2. IsFiniteSet(Children(d))
  BY <1>1, FS_Subset DEF IsFine
<1>3. ASSUME NEW p \in Children(d)
      PROVE  p \in Path /\ p # <<>> /\ Under(d, p) /\ Kind(p) \in {"dir", "file"}
  <2>1. p \in DOMAIN tree /\ p \in Path /\ Len(p) = Len(d) + 1 /\ Under(d, p) /\ Len(d) \in Nat
    BY <1>1 DEF Children, ChildrenIn, IsFine, Path
  <2>2. p # <<>>
    BY <2>1
  <2>3. Kind(p) \in {"dir", "file"}
    BY <2>1, KindIs
  <2> QED BY <2>1, <2>2, <2>3
<1> QED BY <1>1, <1>2, <1>3

\* The request for an entry of a walk.
EntryRequest(p) ==
  IF Kind(p) = "dir" THEN Act("list", p) ELSE Request("export", "", p, <<>>, tree[p])

\* What a walk makes of a listing: the requests for its entries.
LEMMA WalkEntriesIs ==
  ASSUME NEW g \in BOOLEAN, IsFine(tree), NEW d \in Path, NEW rest \in Seq(Reqs(g))
  PROVE  \E q \in Seq({EntryRequest(p) : p \in Children(d)}) :
           /\ \A p \in Children(d) : \E i \in DOMAIN q : q[i] = EntryRequest(p)
           /\ q \in Seq(Reqs(g)) /\ WalkEntries(d, rest) = Go(q \o rest)
<1> DEFINE s == SetToSeq(Children(d))
           each == [i \in DOMAIN s |-> EntryRequest(s[i])]
           R == {EntryRequest(p) : p \in Children(d)}
<1>1. IsFiniteSet(Children(d)) /\ \A p \in Children(d) : p \in Path
  BY ChildrenTypes
<1>2. s \in Seq(Children(d)) /\ \A p \in Children(d) : \E i \in DOMAIN s : s[i] = p
  BY <1>1, ListingIs
<1>3. ASSUME NEW p \in Children(d) PROVE EntryRequest(p) \in Reqs(g)
  <2>1. p \in DOMAIN tree /\ p \in Path
    BY <1>1, ChildrenTypes
  <2>2. tree[p] \in {Dir} \cup Contents
    BY <2>1 DEF IsFine, IsTree, Contents
  <2>3. Kind(p) # "dir" => tree[p] \in Contents
    BY <2>1, <2>2, KindIs
  <2>4. Act("list", p) \in Reqs(g)
    BY <2>1, MadeRequests
  <2>5. tree[p] \in Contents => Request("export", "", p, <<>>, tree[p]) \in Reqs(g)
    BY <2>1, MadeRequests
  <2> QED BY <2>3, <2>4, <2>5 DEF EntryRequest
<1>4. WalkEntries(d, rest) = Go(each \o rest)
  BY DEF WalkEntries, Each, EntryRequest
<1> HIDE DEF s
<1>5. DOMAIN s = 1..Len(s) /\ Len(s) \in Nat /\ \A i \in DOMAIN s : s[i] \in Children(d)
  BY <1>2
<1>6. each \in Seq(R)
  BY <1>5
<1>7. each \in Seq(Reqs(g))
  BY <1>3, <1>5
<1>8. \A p \in Children(d) : \E i \in DOMAIN each : each[i] = EntryRequest(p)
  BY <1>2
<1> HIDE DEF each
<1> QED BY <1>4, <1>6, <1>7, <1>8

\* What a removal makes of a listing.
LEMMA RemovalEntries ==
  ASSUME IsFine(tree), NEW r \in Reqs(FALSE), r.do = "rmlist", NEW rest \in Seq(Reqs(FALSE))
  PROVE  LET remove(p) == Act(IF Kind(p) = "dir" THEN "rmlist" ELSE "dele", p)
         IN Outcome(Go(Each(Children(r.n), remove) \o <<Act("rmd", r.n)>> \o rest), FALSE)
<1> DEFINE s == SetToSeq(Children(r.n))
           remove(p) == Act(IF Kind(p) = "dir" THEN "rmlist" ELSE "dele", p)
           each == [i \in DOMAIN s |-> remove(s[i])]
           last == <<Act("rmd", r.n)>>
<1>1. r.n \in Path /\ r.n # <<>>
  BY RequestTypes DEF Valid
<1>2. IsFiniteSet(Children(r.n)) /\ \A p \in Children(r.n) : p \in Path /\ p # <<>>
  BY <1>1, ChildrenTypes
<1>3. s \in Seq(Children(r.n))
  BY <1>2, ListingIs
<1>4. \A p \in Children(r.n) : remove(p) \in Reqs(FALSE)
  BY <1>2, RemovalRequests
<1>5. Act("rmd", r.n) \in Reqs(FALSE)
  BY <1>1, RemovalRequests
<1> DEFINE R == Reqs(FALSE)
           x == Act("rmd", r.n)
<1>6. last \in Seq(Reqs(FALSE))
  <2>1. x \in R
    BY <1>5
  <2> HIDE DEF R, x
  <2>2. <<x>> \in Seq(R)
    BY <2>1
  <2> QED BY <2>2 DEF R, x
<1>7. Each(Children(r.n), remove) = each
  BY DEF Each
<1> HIDE DEF s, remove, last
<1>8. each \in Seq(Reqs(FALSE))
  <2>1. DOMAIN s = 1..Len(s) /\ Len(s) \in Nat /\ \A i \in DOMAIN s : s[i] \in Children(r.n)
    BY <1>3
  <2>2. \A i \in 1..Len(s) : remove(s[i]) \in R
    BY <1>4, <2>1
  <2> HIDE DEF R
  <2>3. each \in Seq(R)
    BY <2>1, <2>2
  <2> QED BY <2>3 DEF R
<1> HIDE DEF each
<1>9. each \o last \in Seq(Reqs(FALSE))
  BY <1>6, <1>8, ConcatProperties
<1>10. (each \o last) \o rest \in Seq(Reqs(FALSE))
  BY <1>9, ConcatProperties
<1>11. Outcome(Go((each \o last) \o rest), FALSE)
  BY <1>10, GoResult
<1> QED BY <1>7, <1>11 DEF last, remove

-----------------------------------------------------------------------------
(* Every step keeps the types.                                             *)

\* The requests of calls that take nothing out of the tree are requests.
LEMMA GentleReqs ==
  ASSUME NEW g \in BOOLEAN, NEW h \in BOOLEAN, h => g
  PROVE  Reqs(g) \subseteq Reqs(h) /\ Seq(Reqs(g)) \subseteq Seq(Reqs(h))
<1>1. Reqs(g) \subseteq Reqs(h)
  BY DEF Reqs
<1> DEFINE R == Reqs(g)
           S == Reqs(h)
<1>2. R \subseteq S
  BY <1>1
<1> HIDE DEF R, S
<1>3. Seq(R) \subseteq Seq(S)
  BY <1>2
<1> QED BY <1>1, <1>3 DEF R, S

\* The request a call makes next, and those after it.
LEMMA NextRequest ==
  ASSUME Typed, NEW c \in Clients, prog[c] # <<>>
  PROVE  /\ Head(prog[c]) \in Reqs(calm) /\ Tail(prog[c]) \in Seq(Reqs(calm))
         /\ prog[c] = <<Head(prog[c])>> \o Tail(prog[c])
         /\ Head(prog[c]) \in Reqs(FALSE) /\ calm \in BOOLEAN /\ (calm => Gentle(Head(prog[c])))
<1> DEFINE R == Reqs(calm)
           p == prog[c]
<1>1. p \in Seq(R) /\ p # <<>> /\ calm \in BOOLEAN
  BY DEF Typed
<1>2. Reqs(calm) \subseteq Reqs(FALSE)
  BY <1>1, GentleReqs
<1> HIDE DEF R, p
<1>3. Head(p) \in R /\ Tail(p) \in Seq(R)
  BY <1>1
<1>4. p = <<Head(p)>> \o Tail(p)
  <2> DEFINE x == Head(p)
             s == Tail(p)
             q == <<x>> \o s
  <2>1. x \in R /\ s \in Seq(R) /\ Len(p) = Len(s) + 1 /\ p[1] = x /\ Len(s) \in Nat
        /\ \A i \in 1..Len(s) : s[i] = p[i + 1]
    BY <1>1, <1>3
  <2> HIDE DEF x, s
  <2>2. q \in Seq(R)
    BY <2>1, PutInFront
  <2>3. Len(q) = Len(s) + 1
    BY <2>1, PutInFront
  <2>4. q[1] = x
    BY <2>1, PutInFront
  <2>5. \A i \in 1..Len(s) : q[i + 1] = s[i]
    BY <2>1, PutInFront
  <2> HIDE DEF q
  <2>6. ASSUME NEW i \in 1..Len(p) PROVE p[i] = q[i]
    <3>1. CASE i = 1
      BY <2>1, <2>4, <3>1
    <3>2. CASE i # 1
      <4>1. i - 1 \in 1..Len(s) /\ (i - 1) + 1 = i
        BY <2>1, <3>2
      <4> QED BY <2>1, <2>5, <4>1
    <3> QED BY <3>1, <3>2
  <2>7. p = q
    BY <1>1, <2>1, <2>2, <2>3, <2>6, SeqEqual
  <2> QED BY <2>7 DEF q, x, s
<1>5. Head(p) \in Reqs(FALSE) /\ (calm => Gentle(Head(p)))
  BY <1>2, <1>3 DEF R, Reqs
<1> QED BY <1>1, <1>3, <1>4, <1>5 DEF R, p

\* A step of a call that leaves the server alone.
LEMMA CallStepTyped ==
  ASSUME Typed, NEW c \in Clients, NEW x, Outcome(x, calm), Continue(c, x),
         UNCHANGED <<backend, tree, flight, cur, still, calm, calls>>,
         archive' \in [Clients -> SUBSET (Path \X Contents)],
         \A d \in Clients : IsFiniteSet(archive'[d]),
         alone' \subseteq Clients, faults' \in 0..MaxFaults
  PROVE  Typed'
<1>1. calm' = calm
  OBVIOUS
<1>2. prog' \in [Clients -> Seq(Reqs(calm'))] /\ ret' \in [Clients -> Results]
  BY <1>1, CallGoesOn
<1>3. \A d \in Clients : prog'[d] # <<>> => ret'[d] = "none" /\ Head(prog'[d]).do # "catch"
  BY <1>1, CallGoesOn
<1>4. IsFine(tree')
  BY DEF Typed
<1>5. still' \in [Clients -> SUBSET Files(Seen(tree))']
  <2>1. Files(Seen(tree))' = Files(Seen(tree))
    BY DEF Files, Seen, FullName
  <2> QED BY <2>1 DEF Typed
<1> QED BY <1>2, <1>3, <1>4, <1>5 DEF Typed

\* The server's tree changes, and with it which files are still.
LEMMA BecomesTyped ==
  ASSUME Typed, NEW t, IsFine(t), Becomes(t), UNCHANGED backend
  PROVE  IsFine(tree') /\ still' \in [Clients -> SUBSET Files(Seen(tree))']
<1>1. tree' = t /\ still' = [c \in Clients |-> still[c] \cap Files(Seen(t))]
  BY DEF Becomes
<1>2. Files(Seen(tree))' = Files(Seen(t))
  BY <1>1 DEF Files, Seen, FullName
<1>3. Files(Seen(t)) = Files(Seen(t))'
  BY <1>1 DEF Files, Seen, FullName
<1>4. still' \in [Clients -> SUBSET Files(Seen(t))]
  BY <1>1
<1>5. still' = [c \in Clients |-> still[c] \cap Files(Seen(t))]
  BY <1>1
<1> QED BY <1>1, <1>2, <1>4

\* The first state.
LEMMA TypedInit == Init => Typed
<1> SUFFICES ASSUME Init PROVE Typed
  OBVIOUS
<1>1. IsFine(tree)
  BY StartFine
<1>2. <<>> \in Paths /\ <<>> \in Path
  <2>1. PICK t \in Trees : DOMAIN t \subseteq Paths /\ IsTree(t)
    BY NamespaceAssumption DEF Init
  <2> QED BY <2>1 DEF IsTree, Path
<1>3. Cut \in Contents
  BY NamespaceAssumption DEF Cut, Contents
<1>4. cur \in [Clients -> CallRecords] /\ \A c \in Clients : cur[c].n \in Paths /\ cur[c].to \in Paths
  BY <1>2, <1>3 DEF Init, CallRecords
<1>5. prog \in [Clients -> Seq(Reqs(calm))] /\ \A c \in Clients : prog[c] = <<>>
  <2>1. <<>> \in Seq(Reqs(calm))
    OBVIOUS
  <2> QED BY <2>1 DEF Init
<1>6. ret \in [Clients -> Results]
  BY DEF Init, Results
<1>7. archive \in [Clients -> SUBSET (Path \X Contents)] /\ \A c \in Clients : IsFiniteSet(archive[c])
  BY FS_EmptySet DEF Init
<1>8. calls \in 0..MaxCalls /\ faults \in 0..MaxFaults
  BY NamespaceAssumption DEF Init
<1>9. still \in [Clients -> SUBSET Files(Seen(tree))]
  BY DEF Init
<1> QED BY <1>1, <1>4, <1>5, <1>6, <1>7, <1>8, <1>9 DEF Init, Typed

\* A call begins.
LEMMA TypedBegin ==
  ASSUME Typed, NEW c \in Clients, NEW op \in Calls, NEW n \in Paths, NEW to \in Paths,
         Begin(c, op, n, to)
  PROVE  Typed'
<1> DEFINE v == Written[calls + 1]
           x == Program(c, op, FullName(n), FullName(to), v)
           g == calm /\ op \notin {"RemoveAll", "Rename"}
<1>1. /\ calls < MaxCalls /\ calls' = calls + 1 /\ calm' = g
      /\ cur' = [cur EXCEPT ![c] = [op |-> op, n |-> n, to |-> to, v |-> v]]
      /\ prog' = [prog EXCEPT ![c] = x.prog] /\ ret' = [ret EXCEPT ![c] = x.ret]
      /\ archive' = [archive EXCEPT ![c] = IF op = "Export" THEN {} ELSE @]
      /\ alone' \subseteq {c}
      /\ still' = [still EXCEPT ![c] = IF op = "Export" THEN Files(Seen(tree)) ELSE {}]
      /\ UNCHANGED <<backend, tree, flight, faults>>
  BY DEF Begin
<1>2. n \in Path /\ to \in Path /\ FullName(n) \in Path /\ FullName(to) \in Path
  <2>1. n \in Path /\ to \in Path
    BY NamespaceAssumption DEF Path
  <2> QED BY <2>1, FullNameIs
<1>3. v \in Contents
  <2>1. calls \in Nat /\ MaxCalls \in Nat /\ Len(Written) \in Nat /\ Len(Written) >= MaxCalls
    BY NamespaceAssumption DEF Typed
  <2>2. calls + 1 \in 1..Len(Written)
    BY <1>1, <2>1
  <2> QED BY <2>2, NamespaceAssumption DEF Contents
<1>4. g \in BOOLEAN /\ (g => op \notin {"RemoveAll", "Rename"}) /\ (g => calm) /\ calm \in BOOLEAN
  BY DEF Typed
<1>5. archive[c] \subseteq Path \X Contents /\ IsFiniteSet(archive[c])
  BY DEF Typed
<1> HIDE DEF g, v
<1>6. Outcome(x, g)
  BY <1>2, <1>3, <1>4, <1>5, ProgramResult
<1> HIDE DEF x
<1>7. x.prog \in Seq(Reqs(g)) /\ x.ret \in Results /\ Seq(Reqs(calm)) \subseteq Seq(Reqs(g))
  <2>1. Seq(Reqs(calm)) \subseteq Seq(Reqs(g))
    BY <1>4, GentleReqs
  <2> QED BY <1>6, <2>1 DEF Outcome, Error, Results
<1>8. prog' \in [Clients -> Seq(Reqs(calm'))] /\ ret' \in [Clients -> Results]
  BY <1>1, <1>7 DEF Typed
<1>9. ASSUME NEW d \in Clients, prog'[d] # <<>>
      PROVE  ret'[d] = "none" /\ Head(prog'[d]).do # "catch"
  <2>1. CASE d = c
    <3>1. prog'[d] = x.prog /\ ret'[d] = x.ret
      BY <1>1, <2>1 DEF Typed
    <3> QED BY <1>6, <1>9, <3>1 DEF Outcome
  <2>2. CASE d # c
    <3>1. prog'[d] = prog[d] /\ ret'[d] = ret[d]
      BY <1>1, <2>2 DEF Typed
    <3> QED BY <1>9, <3>1 DEF Typed
  <2> QED BY <2>1, <2>2
<1>10. /\ cur' \in [Clients -> CallRecords]
       /\ \A d \in Clients : cur'[d].n \in Paths /\ cur'[d].to \in Paths
  <2> DEFINE call == [op |-> op, n |-> n, to |-> to, v |-> v]
  <2>1. call \in CallRecords /\ call.n \in Paths /\ call.to \in Paths
    BY <1>2, <1>3 DEF CallRecords
  <2>2. cur' = [cur EXCEPT ![c] = call]
    BY <1>1
  <2> HIDE DEF call
  <2> QED BY <2>1, <2>2 DEF Typed
<1>11. archive' \in [Clients -> SUBSET (Path \X Contents)] /\ \A d \in Clients : IsFiniteSet(archive'[d])
  BY <1>1, FS_EmptySet DEF Typed
<1>12. Files(Seen(tree))' = Files(Seen(tree))
  BY <1>1 DEF Files, Seen, FullName
<1>13. still' \in [Clients -> SUBSET Files(Seen(tree))']
  BY <1>1, <1>12 DEF Typed
<1>14. calls' \in 0..MaxCalls
  BY <1>1, NamespaceAssumption DEF Typed
<1> QED BY <1>1, <1>4, <1>8, <1>9, <1>10, <1>11, <1>13, <1>14 DEF Typed

\* A look is answered.
LEMMA LooksOutcome ==
  ASSUME Typed, NEW c \in Clients, prog[c] # <<>>, Head(prog[c]).do = "look",
         NEW a \in {Kind(Looked(Head(prog[c])))} \cup FailedLook
  PROVE  Outcome(After(Head(prog[c]), a, Tail(prog[c])), calm)
<1> DEFINE r == Head(prog[c])
           rest == Tail(prog[c])
<1>1. r \in Reqs(calm) /\ rest \in Seq(Reqs(calm)) /\ calm \in BOOLEAN
  <2>1. Head(prog[c]) \in Reqs(calm) /\ Tail(prog[c]) \in Seq(Reqs(calm))
    BY NextRequest
  <2> QED BY <2>1 DEF Typed
<1> HIDE DEF rest
<1>2. a \in {"dir", "file", "missing", "err"}
  <2>1. Kind(Looked(r)) \in {"dir", "file", "missing"}
    BY KindIs
  <2> QED BY <2>1 DEF FailedLook
<1>3. a = "file" => tree[Looked(r)] \in Contents
  <2>1. a = "file" => Kind(Looked(r)) = "file"
    BY DEF FailedLook
  <2>2. a = "file" => Looked(r) \in DOMAIN tree /\ tree[Looked(r)] # Dir
    BY <2>1, KindIs
  <2> QED BY <2>2 DEF Typed, IsFine, IsTree, Contents
<1>4. r.do = "look"
  OBVIOUS
<1> HIDE DEF r
<1>5. Outcome(After(r, a, rest), calm)
  BY <1>1, <1>2, <1>3, <1>4, AfterResult
<1> QED BY <1>5 DEF r, rest

\* A look keeps the types.
LEMMA TypedLooks ==
  ASSUME Typed, NEW c \in Clients, Looks(c)
  PROVE  Typed'
<1> DEFINE x == After(Head(prog[c]), Kind(Looked(Head(prog[c]))), Tail(prog[c]))
<1>1. prog[c] # <<>> /\ Head(prog[c]).do = "look"
  BY DEF Looks, Doing
<1>2. Outcome(x, calm)
  BY <1>1, LooksOutcome
<1>3. Continue(c, x)
  BY DEF Looks
<1>4. UNCHANGED <<backend, tree, flight, cur, archive, alone, still, calm, calls, faults>>
  BY DEF Looks, history
<1> HIDE DEF x
<1>5. /\ archive' \in [Clients -> SUBSET (Path \X Contents)]
      /\ \A d \in Clients : IsFiniteSet(archive'[d])
      /\ alone' \subseteq Clients /\ faults' \in 0..MaxFaults
  BY <1>4 DEF Typed
<1> QED BY <1>2, <1>3, <1>4, <1>5, CallStepTyped

\* A directory is listed.
LEMMA TypedLists ==
  ASSUME Typed, NEW c \in Clients, Lists(c)
  PROVE  Typed'
<1> DEFINE r == Head(prog[c])
           rest == Tail(prog[c])
           remove(p) == Act(IF Kind(p) = "dir" THEN "rmlist" ELSE "dele", p)
           removal == Go(Each(Children(r.n), remove) \o <<Act("rmd", r.n)>> \o rest)
<1>1. prog[c] # <<>> /\ r.do \in {"list", "rmlist"}
  BY DEF Lists, Doing
<1>2. r \in Reqs(calm) /\ rest \in Seq(Reqs(calm)) /\ r \in Reqs(FALSE) /\ calm \in BOOLEAN
  BY <1>1, NextRequest
<1>3. calm => Gentle(r)
  BY <1>1, NextRequest
<1>4. UNCHANGED <<backend, tree, flight, cur, archive, alone, still, calm, calls, faults>>
  BY DEF Lists, history
<1>5. PICK x : /\ Continue(c, x)
               /\ \/ r.do = "list" /\ x = WalkEntries(r.n, rest)
                  \/ r.do = "rmlist" /\ x \in {removal, Go(<<>>)}
  BY <1>1 DEF Lists
<1>6. IsFine(tree) /\ r.n \in Path
  BY <1>2, RequestTypes DEF Typed
<1>7. Outcome(x, calm)
  <2>1. CASE r.do = "list"
    <3>1. PICK q \in Seq(Reqs(calm)) : WalkEntries(r.n, rest) = Go(q \o rest)
      BY <1>2, <1>6, WalkEntriesIs
    <3>2. q \o rest \in Seq(Reqs(calm))
      BY <1>2, ConcatProperties
    <3>3. Outcome(Go(q \o rest), calm)
      BY <1>2, <3>2, GoResult
    <3> QED BY <1>5, <2>1, <3>1, <3>3
  <2>2. CASE r.do = "rmlist"
    <3>1. calm = FALSE
      BY <1>2, <1>3, <2>2 DEF Gentle
    <3>2. rest \in Seq(Reqs(FALSE))
      BY <1>2, <3>1
    <3>3. Outcome(removal, FALSE)
      BY <1>2, <1>6, <2>2, <3>2, RemovalEntries
    <3>4. Outcome(Go(<<>>), FALSE)
      <4>1. <<>> \in Seq(Reqs(FALSE)) /\ FALSE \in BOOLEAN
        OBVIOUS
      <4> QED BY <4>1, GoResult
    <3> HIDE DEF removal
    <3> QED BY <1>5, <2>2, <3>1, <3>3, <3>4
  <2> QED BY <1>1, <2>1, <2>2
<1>8. /\ archive' \in [Clients -> SUBSET (Path \X Contents)]
      /\ \A d \in Clients : IsFiniteSet(archive'[d])
      /\ alone' \subseteq Clients /\ faults' \in 0..MaxFaults
  BY <1>4 DEF Typed
<1> QED BY <1>4, <1>5, <1>7, <1>8, CallStepTyped

\* A step of a call that changes the tree.
LEMMA TreeStepTyped ==
  ASSUME Typed, NEW c \in Clients, NEW x, Outcome(x, calm), Continue(c, x),
         NEW t, IsFine(t), Becomes(t), UNCHANGED <<backend, cur, archive, calm, calls>>,
         flight' \subseteq Path \X Contents, alone' \subseteq Clients, faults' \in 0..MaxFaults
  PROVE  Typed'
<1>1. calm' = calm /\ UNCHANGED backend
  OBVIOUS
<1>2. prog' \in [Clients -> Seq(Reqs(calm'))] /\ ret' \in [Clients -> Results]
  BY <1>1, CallGoesOn
<1>3. \A d \in Clients : prog'[d] # <<>> => ret'[d] = "none" /\ Head(prog'[d]).do # "catch"
  BY <1>1, CallGoesOn
<1>4. IsFine(tree') /\ still' \in [Clients -> SUBSET Files(Seen(tree))']
  BY <1>1, BecomesTyped
<1> QED BY <1>2, <1>3, <1>4 DEF Typed

\* To go on, to fail, and to be done.
LEMMA GoesOn ==
  ASSUME Typed, NEW c \in Clients, prog[c] # <<>>
  PROVE  /\ Outcome(Go(Tail(prog[c])), calm) /\ Outcome(Go(<<>>), calm)
         /\ \A e \in Error : Outcome(Fail(e, Tail(prog[c])), calm)
<1>1. Tail(prog[c]) \in Seq(Reqs(calm)) /\ calm \in BOOLEAN
  BY NextRequest DEF Typed
<1>2. <<>> \in Seq(Reqs(calm))
  OBVIOUS
<1> QED BY <1>1, <1>2, GoResult, FailResult

\* A request carried out keeps the types.
LEMMA TypedDoes ==
  ASSUME Typed, NEW c \in Clients, Does(c)
  PROVE  Typed'
<1> DEFINE r == Head(prog[c])
           x == Go(Tail(prog[c]))
           t == Effect(r)
<1>1. prog[c] # <<>> /\ r.do \in Changes /\ Possible(r)
  BY DEF Does, Doing
<1>2. /\ Becomes(t) /\ Continue(c, x)
      /\ UNCHANGED <<backend, cur, archive, calm, calls>>
      /\ UNCHANGED <<flight, alone, faults>>
  BY DEF Does
<1>3. Outcome(x, calm)
  BY <1>1, GoesOn
<1>4. r \in Reqs(FALSE)
  BY <1>1, NextRequest
<1>5. r.do \in Changes \cup {"put"} /\ IsFine(tree)
  BY <1>1 DEF Typed
<1> HIDE DEF r
<1>6. IsFine(t)
  BY <1>1, <1>4, <1>5, EffectFine
<1>7. flight' \subseteq Path \X Contents /\ alone' \subseteq Clients /\ faults' \in 0..MaxFaults
  BY <1>2 DEF Typed
<1> HIDE DEF t, x
<1> QED BY <1>2, <1>3, <1>6, <1>7, TreeStepTyped

\* A request refused keeps the types.
LEMMA TypedIsRefused ==
  ASSUME Typed, NEW c \in Clients, IsRefused(c)
  PROVE  Typed'
<1>1. prog[c] # <<>>
  BY DEF IsRefused, Doing
<1>2. PICK x : Continue(c, x) /\ (x = Go(<<>>) \/ x = Fail(Refused, Tail(prog[c])))
  BY DEF IsRefused
<1>3. Refused \in Error
  BY DEF Refused, Error, Results
<1>4. Outcome(x, calm)
  BY <1>1, <1>2, <1>3, GoesOn
<1>5. UNCHANGED <<backend, tree, flight, cur, archive, alone, still, calm, calls, faults>>
  BY DEF IsRefused, history
<1>6. /\ archive' \in [Clients -> SUBSET (Path \X Contents)]
      /\ \A d \in Clients : IsFiniteSet(archive'[d])
      /\ alone' \subseteq Clients /\ faults' \in 0..MaxFaults
  BY <1>5 DEF Typed
<1> QED BY <1>2, <1>4, <1>5, <1>6, CallStepTyped

\* An upload that the server carries out, or does not, leaves a tree.
LEMMA StoredFine ==
  ASSUME Typed, NEW r \in Reqs(FALSE), r.do = "put"
  PROVE  IsFine(IF Possible(r) THEN Effect(r) ELSE tree)
<1>1. IsFine(tree)
  BY DEF Typed
<1>2. r.do \in Changes \cup {"put"}
  OBVIOUS
<1>3. Possible(r) => IsFine(Effect(r))
  BY <1>1, <1>2, EffectFine
<1> QED BY <1>1, <1>3

\* An upload keeps the types.
LEMMA TypedUploads ==
  ASSUME Typed, NEW c \in Clients, Uploads(c)
  PROVE  Typed'
<1> DEFINE r == Head(prog[c])
           t == IF Possible(r) THEN Effect(r) ELSE tree
<1>1. prog[c] # <<>> /\ r.do = "put"
  BY DEF Uploads, Doing
<1>2. r \in Reqs(FALSE)
  BY <1>1, NextRequest
<1>3. r.n \in Path /\ r.v \in Contents
  BY <1>1, <1>2, RequestTypes DEF Valid
<1>4. PICK x : /\ Continue(c, x)
               /\ x = Go(Tail(prog[c])) \/ x = Fail("err", Tail(prog[c]))
               /\ \/ UNCHANGED <<tree, still>> /\ flight' \in {flight, flight \cup {<<r.n, r.v>>}}
                  \/ Becomes(t) /\ flight' = flight
  <2>1. CASE /\ Continue(c, Go(Tail(prog[c])))
             /\ IF backend = "webdav"
                THEN flight' = flight \cup {<<r.n, r.v>>} /\ UNCHANGED <<tree, still>>
                ELSE Becomes(t) /\ UNCHANGED flight
    BY <2>1
  <2>2. CASE Continue(c, Fail("err", Tail(prog[c]))) /\ UNCHANGED <<flight, tree, still>>
    BY <2>2
  <2> QED BY <2>1, <2>2 DEF Uploads
<1>5. UNCHANGED <<backend, cur, archive, calm, calls>> /\ UNCHANGED <<alone, faults>>
  BY DEF Uploads
<1>6. "err" \in Error
  BY DEF Error, Results
<1>7. Outcome(x, calm)
  BY <1>1, <1>4, <1>6, GoesOn
<1>8. /\ flight' \subseteq Path \X Contents /\ alone' \subseteq Clients /\ faults' \in 0..MaxFaults
  BY <1>3, <1>4, <1>5 DEF Typed
<1>9. IsFine(t)
  <2> HIDE DEF r
  <2> QED BY <1>1, <1>2, StoredFine
<1>10. UNCHANGED <<tree, still>> => IsFine(tree) /\ Becomes(tree)
  <2>1. still = [d \in Clients |-> still[d] \cap Files(Seen(tree))]
    BY DEF Typed
  <2> QED BY <2>1 DEF Typed, Becomes
<1> HIDE DEF t
<1>11. CASE UNCHANGED <<tree, still>>
  BY <1>4, <1>5, <1>7, <1>8, <1>10, <1>11, TreeStepTyped
<1>12. CASE Becomes(t)
  BY <1>4, <1>5, <1>7, <1>8, <1>9, <1>12, TreeStepTyped
<1> QED BY <1>4, <1>11, <1>12

\* A PUT that reaches the server late keeps the types.
LEMMA TypedLands ==
  ASSUME Typed, Lands
  PROVE  Typed'
<1>1. PICK w \in flight :
        /\ flight' = flight \ {w}
        /\ Becomes(IF Possible(Put(w[1], w[2])) THEN Effect(Put(w[1], w[2])) ELSE tree)
        /\ UNCHANGED <<backend, prog, cur, ret, archive, alone, before, calm, calls, faults>>
  BY DEF Lands
<1> DEFINE r == Put(w[1], w[2])
           t == IF Possible(r) THEN Effect(r) ELSE tree
<1>2. w[1] \in Path /\ w[2] \in Contents
  BY DEF Typed
<1>3. r \in Reqs(FALSE) /\ r.do = "put"
  <2>1. FALSE \in BOOLEAN
    OBVIOUS
  <2>2. r \in Reqs(FALSE)
    BY <1>2, <2>1, MadeRequests
  <2> QED BY <2>2 DEF Put, Request
<1>4. Becomes(t) /\ UNCHANGED backend
  BY <1>1
<1> HIDE DEF r
<1>5. IsFine(t)
  BY <1>3, StoredFine
<1> HIDE DEF t
<1>6. IsFine(tree') /\ still' \in [Clients -> SUBSET Files(Seen(tree))']
  BY <1>4, <1>5, BecomesTyped
<1>7. flight' \subseteq Path \X Contents
  BY <1>1 DEF Typed
<1> QED BY <1>1, <1>6, <1>7 DEF Typed

\* An entry of an archive keeps the types.
LEMMA TypedExports ==
  ASSUME Typed, NEW c \in Clients, Exports(c)
  PROVE  Typed'
<1> DEFINE r == Head(prog[c])
           rel == Rebased(r.n, FullName(cur[c].n), <<>>)
           now == tree[r.n]
           e == <<rel, IF Sizes[now] = Sizes[r.v] THEN now ELSE Cut>>
<1>1. prog[c] # <<>> /\ r.do = "export"
  BY DEF Exports, Doing
<1>2. r \in Reqs(FALSE)
  BY <1>1, NextRequest
<1>3. r.n \in Path /\ r.v \in Contents
  BY <1>1, <1>2, RequestTypes DEF Valid
<1>4. UNCHANGED <<backend, tree, flight, cur, alone, still, calm, calls, faults>>
  BY DEF Exports, history
<1>5. PICK x : /\ Continue(c, x)
               /\ \/ x = Fail("err", Tail(prog[c])) /\ archive' = archive
                  \/ /\ x = Go(Tail(prog[c])) /\ Kind(r.n) = "file"
                     /\ archive' = [archive EXCEPT ![c] = @ \cup {e}]
  BY DEF Exports
<1>6. Kind(r.n) = "file" => e \in Path \X Contents
  <2>1. ASSUME Kind(r.n) = "file" PROVE now \in Contents
    <3>1. r.n \in DOMAIN tree /\ tree[r.n] # Dir
      BY <2>1, KindIs
    <3> QED BY <3>1 DEF Typed, IsFine, IsTree, Contents
  <2>2. Cut \in Contents
    BY NamespaceAssumption DEF Cut, Contents
  <2>3. rel \in Path
    <3>1. cur[c].n \in Path
      BY DEF Typed, CallRecords
    <3>2. FullName(cur[c].n) \in Path
      BY <3>1, FullNameIs
    <3> DEFINE k == Len(FullName(cur[c].n)) + 1
    <3>3. k \in Nat \ {0}
      BY <3>2 DEF Path
    <3> HIDE DEF k
    <3>4. SubSeq(r.n, k, Len(r.n)) \in Seq(Names)
      BY <1>3, <3>3 DEF Path
    <3>5. <<>> \o SubSeq(r.n, k, Len(r.n)) \in Seq(Names)
      BY <3>4, ConcatEmptySeq
    <3> QED BY <3>5 DEF Rebased, Path, k
  <2> QED BY <2>1, <2>2, <2>3
<1>7. "err" \in Error
  BY DEF Error, Results
<1>8. Outcome(x, calm)
  BY <1>1, <1>5, <1>7, GoesOn
<1> HIDE DEF e, r
<1>9. /\ archive' \in [Clients -> SUBSET (Path \X Contents)]
      /\ \A d \in Clients : IsFiniteSet(archive'[d])
  <2>1. CASE archive' = archive
    BY <2>1 DEF Typed
  <2>2. CASE archive' = [archive EXCEPT ![c] = @ \cup {e}] /\ Kind(r.n) = "file"
    <3>1. IsFiniteSet(archive[c] \cup {e})
      BY FS_AddElement DEF Typed
    <3>2. archive[c] \cup {e} \in SUBSET (Path \X Contents)
      BY <1>6, <2>2 DEF Typed
    <3> QED BY <2>2, <3>1, <3>2 DEF Typed
  <2> QED BY <1>5, <2>1, <2>2
<1>10. alone' \subseteq Clients /\ faults' \in 0..MaxFaults
  BY <1>4 DEF Typed
<1> QED BY <1>4, <1>5, <1>8, <1>9, <1>10, CallStepTyped

\* A request that fails keeps the types.
LEMMA TypedRequestFails ==
  ASSUME Typed, NEW c \in Clients, RequestFails(c)
  PROVE  Typed'
<1> DEFINE r == Head(prog[c])
           rest == Tail(prog[c])
<1>1. /\ prog[c] # <<>> /\ faults < MaxFaults /\ faults' = faults + 1 /\ alone' = alone \ {c}
      /\ UNCHANGED <<backend, cur, archive, calm, calls>> /\ UNCHANGED flight
  BY DEF RequestFails
<1>2. PICK x : /\ Continue(c, x)
               /\ \/ r.do = "look" /\ \E a \in FailedLook : x = After(r, a, rest)
                  \/ x = Go(rest) \/ x = Go(<<>>) \/ x = Fail("err", rest)
  BY DEF RequestFails
<1>3. "err" \in Error
  BY DEF Error, Results
<1>4. Outcome(x, calm)
  <2>1. \A a \in FailedLook : r.do = "look" => Outcome(After(r, a, rest), calm)
    BY <1>1, LooksOutcome
  <2>2. Outcome(Go(rest), calm) /\ Outcome(Go(<<>>), calm) /\ Outcome(Fail("err", rest), calm)
    BY <1>1, <1>3, GoesOn
  <2> QED BY <1>2, <2>1, <2>2
<1>5. \/ UNCHANGED <<tree, still>>
      \/ r.do \in Changes /\ Possible(r) /\ Becomes(Effect(r))
  BY DEF RequestFails
<1>6. flight' \subseteq Path \X Contents /\ alone' \subseteq Clients /\ faults' \in 0..MaxFaults
  BY <1>1, NamespaceAssumption DEF Typed
<1>7. r \in Reqs(FALSE)
  BY <1>1, NextRequest
<1> HIDE DEF r
<1>8. CASE UNCHANGED <<tree, still>>
  <2>1. still = [d \in Clients |-> still[d] \cap Files(Seen(tree))] /\ IsFine(tree)
    BY DEF Typed
  <2>2. Becomes(tree)
    BY <1>8, <2>1 DEF Becomes
  <2> QED BY <1>1, <1>2, <1>4, <1>6, <2>1, <2>2, TreeStepTyped
<1>9. CASE r.do \in Changes /\ Possible(r) /\ Becomes(Effect(r))
  <2> DEFINE t == Effect(r)
  <2>1. r.do \in Changes \cup {"put"} /\ IsFine(tree)
    BY <1>9 DEF Typed
  <2>2. IsFine(t)
    BY <1>7, <1>9, <2>1, EffectFine
  <2>3. Becomes(t)
    BY <1>9
  <2> HIDE DEF t
  <2> QED BY <1>1, <1>2, <1>4, <1>6, <2>2, <2>3, TreeStepTyped
<1> QED BY <1>5, <1>8, <1>9

\* Nothing happens.
LEMMA TypedStutter ==
  ASSUME Typed, UNCHANGED vars
  PROVE  Typed'
<1>1. Files(Seen(tree))' = Files(Seen(tree))
  BY DEF Files, Seen, FullName, vars
<1> QED BY <1>1 DEF Typed, vars, history

\* Every step keeps the types.
LEMMA TypedNext == Typed /\ [Next]_vars => Typed'
<1> SUFFICES ASSUME Typed, [Next]_vars PROVE Typed'
  OBVIOUS
<1>1. ASSUME NEW c \in Clients, NEW op \in Calls, NEW n \in Paths, NEW to \in Paths,
             Begin(c, op, n, to)
      PROVE  Typed'
  BY <1>1, TypedBegin
<1>2. ASSUME NEW c \in Clients, Looks(c) PROVE Typed'
  BY <1>2, TypedLooks
<1>3. ASSUME NEW c \in Clients, Lists(c) PROVE Typed'
  BY <1>3, TypedLists
<1>4. ASSUME NEW c \in Clients, Does(c) PROVE Typed'
  BY <1>4, TypedDoes
<1>5. ASSUME NEW c \in Clients, IsRefused(c) PROVE Typed'
  BY <1>5, TypedIsRefused
<1>6. ASSUME NEW c \in Clients, Uploads(c) PROVE Typed'
  BY <1>6, TypedUploads
<1>7. ASSUME NEW c \in Clients, Exports(c) PROVE Typed'
  BY <1>7, TypedExports
<1>8. ASSUME NEW c \in Clients, RequestFails(c) PROVE Typed'
  BY <1>8, TypedRequestFails
<1>9. CASE Lands
  BY <1>9, TypedLands
<1>10. CASE UNCHANGED vars
  BY <1>10, TypedStutter
<1> QED BY <1>1, <1>2, <1>3, <1>4, <1>5, <1>6, <1>7, <1>8, <1>9, <1>10 DEF Next

\* The types, in every state.
LEMMA AlwaysTyped == Spec => []Typed
<1> QED BY TypedInit, TypedNext, PTL DEF Spec

\* The server keeps a tree, a call runs as long as it has requests to make, no
\* handler is taken for one, and archives hold contents: TypeOK, in every state.
THEOREM TypeCorrect == Spec => []TypeOK
<1>1. Typed => TypeOK
  <2> SUFFICES ASSUME Typed PROVE TypeOK
    OBVIOUS
  <2>1. \A c \in Clients : ~Doing(c, {"catch"})
    BY DEF Typed, Doing
  <2>2. \A c \in Clients : \A e \in archive[c] : e[2] \in DOMAIN Sizes
    BY DEF Typed, Contents
  <2>3. \A c \in Clients : ret[c] \in Results /\ (prog[c] # <<>> => ret[c] = "none")
    BY DEF Typed
  <2>4. IsTree(tree)
    BY DEF Typed, IsFine
  <2> QED BY <2>1, <2>2, <2>3, <2>4 DEF Typed, TypeOK
<1> QED BY <1>1, AlwaysTyped, PTL

-----------------------------------------------------------------------------
(* As long as nobody removes or renames anything, what is there stays what *)
(* it is.                                                                  *)

KindsStay(t, u) == \A p \in DOMAIN t : p \in DOMAIN u /\ (t[p] = Dir <=> u[p] = Dir)

\* Kinds that stay.
LEMMA StaysIs ==
  ASSUME NEW t, NEW u, KindsStay(t, u), NEW p, KindIn(t, p) # "missing"
  PROVE  KindIn(u, p) = KindIn(t, p)
BY DEF KindsStay, KindIn

\* A directory is made where nothing is, and a file replaces no directory.
LEMMA GentleKeeps ==
  ASSUME NEW r \in Reqs(FALSE), r.do \in {"mkdir", "put"}, Possible(r)
  PROVE  KindsStay(tree, Effect(r))
<1>1. Valid(r) /\ (r.v \in Contents => r.v # Dir)
  <2>1. \A v \in Contents : v # Dir
    BY NamespaceAssumption DEF Contents, Dir
  <2> QED BY <2>1, RequestTypes
<1>2. CASE r.do = "mkdir"
  <2>1. Effect(r) = Placed(tree, r.n, Dir) /\ Kind(r.n) = "missing"
    BY <1>2 DEF Effect, Possible
  <2>2. r.n \notin DOMAIN tree
    BY <2>1, KindIs
  <2> QED BY <2>1, <2>2 DEF Placed, KindsStay
<1>3. CASE r.do = "put"
  <2>1. Effect(r) = Placed(tree, r.n, r.v) /\ Kind(r.n) # "dir" /\ r.v # Dir
    BY <1>1, <1>3 DEF Effect, Possible, Valid
  <2>2. ~(r.n \in DOMAIN tree /\ tree[r.n] = Dir)
    BY <2>1, KindIs
  <2> QED BY <2>1, <2>2 DEF Placed, KindsStay
<1> QED BY <1>2, <1>3

\* A step of a run in which nothing is removed or renamed keeps the kinds.
LEMMA CalmKeeps ==
  ASSUME Typed, [Next]_vars, calm'
  PROVE  calm /\ KindsStay(tree, tree')
<1>1. KindsStay(tree, tree)
  BY DEF KindsStay
<1>2. calm \in BOOLEAN
  BY DEF Typed
<1>3. ASSUME NEW c \in Clients, NEW op \in Calls, NEW n \in Paths, NEW to \in Paths,
             Begin(c, op, n, to)
      PROVE  calm /\ tree' = tree
  BY <1>2, <1>3 DEF Begin
<1>4. ASSUME NEW c \in Clients, Looks(c) \/ Lists(c) \/ IsRefused(c) \/ Exports(c)
      PROVE  calm /\ tree' = tree
  BY <1>4 DEF Looks, Lists, IsRefused, Exports, history
<1>5. ASSUME NEW c \in Clients, prog[c] # <<>>, calm, Head(prog[c]).do \in Changes,
             Possible(Head(prog[c])), Becomes(Effect(Head(prog[c])))
      PROVE  KindsStay(tree, tree')
  <2> DEFINE r == Head(prog[c])
  <2>1. r \in Reqs(FALSE) /\ Gentle(r)
    BY <1>5, NextRequest
  <2>2. r.do = "mkdir"
    BY <1>5, <2>1 DEF Gentle, Changes
  <2>3. tree' = Effect(r) /\ Possible(r)
    BY <1>5 DEF Becomes
  <2> HIDE DEF r
  <2>4. KindsStay(tree, Effect(r))
    BY <2>1, <2>2, <2>3, GentleKeeps
  <2> QED BY <2>3, <2>4
<1>6. ASSUME NEW c \in Clients, Does(c) PROVE calm /\ KindsStay(tree, tree')
  <2>1. calm
    BY <1>6 DEF Does
  <2>2. /\ prog[c] # <<>> /\ Head(prog[c]).do \in Changes
        /\ Possible(Head(prog[c])) /\ Becomes(Effect(Head(prog[c])))
    BY <1>6 DEF Does, Doing
  <2> QED BY <1>5, <2>1, <2>2
<1>7. ASSUME NEW r \in Reqs(FALSE), r.do = "put",
             Becomes(IF Possible(r) THEN Effect(r) ELSE tree)
      PROVE  KindsStay(tree, tree')
  <2>1. CASE Possible(r)
    <3>1. KindsStay(tree, Effect(r))
      BY <1>7, <2>1, GentleKeeps
    <3> QED BY <1>7, <2>1, <3>1 DEF Becomes
  <2>2. CASE ~Possible(r)
    BY <1>1, <1>7, <2>2 DEF Becomes
  <2> QED BY <2>1, <2>2
<1>8. ASSUME NEW c \in Clients, Uploads(c) PROVE calm /\ KindsStay(tree, tree')
  <2> DEFINE r == Head(prog[c])
  <2>1. calm /\ prog[c] # <<>> /\ r.do = "put"
    BY <1>8 DEF Uploads, Doing
  <2>2. UNCHANGED tree \/ Becomes(IF Possible(r) THEN Effect(r) ELSE tree)
    BY <1>8 DEF Uploads
  <2>3. r \in Reqs(FALSE)
    BY <2>1, NextRequest
  <2> HIDE DEF r
  <2> QED BY <1>1, <1>7, <2>1, <2>2, <2>3
<1>9. CASE Lands
  <2>1. PICK w \in flight :
          Becomes(IF Possible(Put(w[1], w[2])) THEN Effect(Put(w[1], w[2])) ELSE tree)
    BY <1>9 DEF Lands
  <2>2. w[1] \in Path /\ w[2] \in Contents /\ calm
    BY <1>9 DEF Typed, Lands
  <2>3. FALSE \in BOOLEAN
    OBVIOUS
  <2>4. Put(w[1], w[2]) \in Reqs(FALSE)
    BY <2>2, <2>3, MadeRequests
  <2>5. Put(w[1], w[2]).do = "put"
    BY DEF Put, Request
  <2> QED BY <1>7, <2>1, <2>2, <2>4, <2>5
<1>10. ASSUME NEW c \in Clients, RequestFails(c) PROVE calm /\ KindsStay(tree, tree')
  <2>1. calm /\ prog[c] # <<>>
    BY <1>10 DEF RequestFails
  <2>2. \/ UNCHANGED tree
        \/ /\ Head(prog[c]).do \in Changes
           /\ Possible(Head(prog[c])) /\ Becomes(Effect(Head(prog[c])))
    BY <1>10 DEF RequestFails
  <2> QED BY <1>1, <1>5, <2>1, <2>2
<1>11. CASE UNCHANGED vars
  BY <1>1, <1>11 DEF vars, history
<1> QED BY <1>1, <1>3, <1>4, <1>6, <1>8, <1>9, <1>10, <1>11 DEF Next

\* The backend is the same all the time.
LEMMA BackendStays == [Next]_vars => backend' = backend
<1> SUFFICES ASSUME [Next]_vars PROVE backend' = backend
  OBVIOUS
<1>1. ASSUME NEW c \in Clients, NEW op \in Calls, NEW n \in Paths, NEW to \in Paths,
             Begin(c, op, n, to)
      PROVE  backend' = backend
  BY <1>1 DEF Begin
<1>2. ASSUME NEW c \in Clients,
             \/ Looks(c) \/ Lists(c) \/ Does(c) \/ IsRefused(c)
             \/ Uploads(c) \/ Exports(c) \/ RequestFails(c)
      PROVE  backend' = backend
  BY <1>2 DEF Looks, Lists, Does, IsRefused, Uploads, Exports, RequestFails
<1>3. CASE Lands
  BY <1>3 DEF Lands
<1>4. CASE UNCHANGED vars
  BY <1>4 DEF vars
<1> QED BY <1>1, <1>2, <1>3, <1>4 DEF Next

\* Until something is removed or renamed, the root of the file system is a directory.
RootStays == calm => Kind(FullName(<<>>)) = "dir"

\* The root of the file system is a directory at first.
LEMMA RootStaysInit == Init => RootStays
<1> SUFFICES ASSUME Init PROVE Kind(FullName(<<>>)) = "dir"
  BY DEF RootStays
<1> DEFINE root == FullName(<<>>)
<1>1. PICK t \in Trees :
        tree = [p \in Prefixes(root) \cup {FullName(p) : p \in DOMAIN t} |->
                  IF InTree(root, p) THEN t[Rebased(p, root, <<>>)] ELSE Dir]
  BY DEF Init
<1>2. <<>> \in DOMAIN t /\ t[<<>>] = Dir
  BY NamespaceAssumption DEF IsTree
<1>3. Rebased(root, root, <<>>) = <<>>
  <2>1. <<>> \in Path
    BY DEF Path
  <2> QED BY <2>1, FullNameIs
<1>4. InTree(root, root)
  <2>1. <<>> \in Path
    BY DEF Path
  <2> QED BY <2>1, FullNameIs
<1>5. root \in DOMAIN tree /\ tree[root] = Dir
  BY <1>1, <1>2, <1>3, <1>4
<1> QED BY <1>5, KindIs

\* No step takes it away while nothing is removed or renamed.
LEMMA RootStaysNext == Typed /\ RootStays /\ [Next]_vars => RootStays'
<1> SUFFICES ASSUME Typed, RootStays, [Next]_vars, calm' PROVE (Kind(FullName(<<>>)) = "dir")'
  BY DEF RootStays
<1>1. calm /\ KindsStay(tree, tree')
  BY CalmKeeps
<1>2. backend' = backend
  BY BackendStays
<1>3. KindIn(tree, FullName(<<>>)) = "dir"
  BY <1>1 DEF RootStays, Kind
<1>4. KindIn(tree', FullName(<<>>)) = "dir"
  BY <1>1, <1>3, StaysIs
<1> QED BY <1>2, <1>4 DEF Kind, KindIn, FullName

-----------------------------------------------------------------------------
(* MkdirAll: how far a call has come.                                      *)

\* The directories of m that are still to make, below the first k names.
Chain(m, k) == [i \in 1..Len(m) - k |-> Look("mkdirAll", SubSeq(m, 1, k + i))]

\* The requests p of a MkdirAll that is at the directory q, T being those for
\* what is below it, in tree t: cm when nothing is removed or renamed, cl when
\* no request has failed either.  In turn: the first look, the Mkdir, FTP's and
\* WebDAV's ways to make a directory, and the second look after an error.
GoingAt(p, q, T, t, cm, cl) ==
  LET W == <<Act("catch", q)>> \o T IN
  \/ p = <<Look("all", q)>> \o T
  \/ /\ cm => KindIn(t, Parent(q)) = "dir"
     /\ \/ p = <<Look("mkdirAll", q)>> \o T
        \/ p = <<Act("mkdir", q)>> \o W
        \/ p = <<Look("opendir", q)>> \o W
        \/ p = <<Look("mkparent", q)>> \o W
        \/ p = <<Act("mkdir", q)>> \o (<<Look("made", q)>> \o W)
  \/ p = <<Look("made", q)>> \o W /\ (cm => KindIn(t, q) = "dir")
  \/ \E e \in Error : p = <<Look(e, q)>> \o T /\ (cl => KindIn(t, q) # "missing")

\* A MkdirAll of m that has made m, that has met a file, or that is on its way.
Going(x, m, t, cm, cl) ==
  \/ x.prog = <<>> /\ x.ret = "ok" /\ (cm => KindIn(t, m) = "dir")
  \/ /\ x.prog = <<>> /\ x.ret \in Error
     /\ cl => \E k \in Len(FullName(<<>>))..Len(m) : KindIn(t, SubSeq(m, 1, k)) = "file"
  \/ /\ x.ret = "none"
     /\ \E k \in Len(FullName(<<>>))..Len(m) :
          GoingAt(x.prog, SubSeq(m, 1, k), Chain(m, k), t, cm, cl)

\* The directories still to make, one after the other.
LEMMA ChainIs ==
  ASSUME NEW m \in Path, NEW k \in 0..Len(m)
  PROVE  /\ Chain(m, k) \in Seq(Reqs(TRUE)) /\ \A i \in DOMAIN Chain(m, k) : Chain(m, k)[i].do # "catch"
         /\ k = Len(m) => Chain(m, k) = <<>>
         /\ k < Len(m) => Chain(m, k) = <<Look("mkdirAll", SubSeq(m, 1, k + 1))>> \o Chain(m, k + 1)
<1> DEFINE R == Reqs(TRUE)
           x == Look("mkdirAll", SubSeq(m, 1, k + 1))
           s == Chain(m, k)
           u == Chain(m, k + 1)
           q == <<x>> \o u
<1>1. Len(m) \in Nat /\ m \in Seq(Names) /\ k \in Nat /\ Len(m) - k \in Nat
  BY DEF Path
<1>2. \A i \in 1..Len(m) : Look("mkdirAll", SubSeq(m, 1, i)) \in R
  <2>1. ASSUME NEW i \in 1..Len(m) PROVE Look("mkdirAll", SubSeq(m, 1, i)) \in R
    <3>1. SubSeq(m, 1, i) \in Path
      BY <1>1 DEF Path
    <3>2. "mkdirAll" \in (Whys \ {"", "parent", "entry", "import", "remove"}) \cup Error /\ TRUE \in BOOLEAN
      BY DEF Whys
    <3> QED BY <3>1, <3>2, MadeRequests
  <2> QED BY <2>1
<1>3. \A i \in 1..Len(m) : Look("mkdirAll", SubSeq(m, 1, i)).do = "look"
  BY DEF Look, Request
<1> HIDE DEF R, x
<1>4. s \in Seq(R) /\ Len(s) = Len(m) - k
      /\ \A i \in 1..Len(m) - k : s[i] = Look("mkdirAll", SubSeq(m, 1, k + i))
  <2>1. \A i \in 1..Len(m) - k : k + i \in 1..Len(m)
    BY <1>1
  <2> QED BY <1>1, <1>2, <2>1 DEF Chain
<1>5. \A i \in DOMAIN s : s[i].do # "catch"
  <2>1. \A i \in DOMAIN s : i \in 1..Len(m) - k /\ k + i \in 1..Len(m)
    BY <1>1, <1>4
  <2> QED BY <1>3, <1>4, <2>1
<1>6. CASE k = Len(m)
  <2> HIDE DEF s
  <2>1. s = <<>>
    BY <1>1, <1>4, <1>6
  <2> QED BY <1>1, <1>4, <1>5, <1>6, <2>1 DEF R, s
<1>7. CASE k < Len(m)
  <2>1. u \in Seq(R) /\ Len(u) = Len(m) - (k + 1)
        /\ \A i \in 1..Len(m) - (k + 1) : u[i] = Look("mkdirAll", SubSeq(m, 1, (k + 1) + i))
    <3>1. \A i \in 1..Len(m) - (k + 1) : (k + 1) + i \in 1..Len(m)
      BY <1>1
    <3>2. Len(m) - (k + 1) \in Nat
      BY <1>1, <1>7
    <3> QED BY <1>1, <1>2, <3>1, <3>2 DEF Chain
  <2>2. x \in R
    <3>1. k + 1 \in 1..Len(m)
      BY <1>1, <1>7
    <3> QED BY <1>2, <3>1 DEF x
  <2> HIDE DEF s, u
  <2>3. q \in Seq(R) /\ Len(q) = Len(u) + 1
    BY <2>1, <2>2, PutInFront
  <2>4. q[1] = x
    BY <2>1, <2>2, PutInFront
  <2>5. \A i \in 1..Len(u) : q[i + 1] = u[i]
    BY <2>1, <2>2, PutInFront
  <2> HIDE DEF q
  <2>6. ASSUME NEW i \in 1..Len(m) - k PROVE s[i] = q[i]
    <3>1. CASE i = 1
      BY <1>4, <2>4, <3>1 DEF x
    <3>2. CASE i # 1
      <4>1. i - 1 \in 1..Len(u) /\ (i - 1) + 1 = i /\ (k + 1) + (i - 1) = k + i
            /\ i - 1 \in 1..Len(m) - (k + 1)
        BY <1>1, <1>7, <2>1, <3>2
      <4> QED BY <1>4, <2>1, <2>5, <4>1
    <3> QED BY <3>1, <3>2
  <2>7. Len(s) = Len(q)
    BY <1>1, <1>4, <2>1, <2>3
  <2>8. s = q
    BY <1>4, <2>3, <2>6, <2>7, SeqEqual
  <2>9. Chain(m, k) = <<Look("mkdirAll", SubSeq(m, 1, k + 1))>> \o Chain(m, k + 1)
    BY <2>8 DEF q, x, s, u
  <2>10. Chain(m, k) \in Seq(Reqs(TRUE))
    BY <1>4 DEF R, s
  <2>11. \A i \in DOMAIN Chain(m, k) : Chain(m, k)[i].do # "catch"
    BY <1>5 DEF s
  <2>12. k # Len(m)
    BY <1>1, <1>7
  <2> QED BY <2>9, <2>10, <2>11, <2>12
<1>8. k = Len(m) \/ k < Len(m)
  BY <1>1
<1> QED BY <1>6, <1>7, <1>8

\* The requests of a MkdirAll at the directory q.
LEMMA GoingTypes ==
  ASSUME NEW q \in Path
  PROVE  /\ \A why \in {"all", "mkdirAll", "opendir", "mkparent", "made"} \cup Error :
              /\ Look(why, q) \in Reqs(TRUE) /\ Look(why, q).do = "look"
              /\ Look(why, q).why = why /\ Look(why, q).n = q
         /\ \A do \in {"mkdir", "catch"} :
              Act(do, q) \in Reqs(TRUE) /\ Act(do, q).do = do /\ Act(do, q).n = q
<1>1. TRUE \in BOOLEAN
  OBVIOUS
<1>2. {"all", "mkdirAll", "opendir", "mkparent", "made"} \cup Error
        \subseteq (Whys \ {"", "parent", "entry", "import", "remove"}) \cup Error
  BY DEF Whys
<1>3. \A why \in {"all", "mkdirAll", "opendir", "mkparent", "made"} \cup Error : Look(why, q) \in Reqs(TRUE)
  BY <1>1, <1>2, MadeRequests
<1>4. \A do \in {"mkdir", "catch"} : Act(do, q) \in Reqs(TRUE)
  BY <1>1, MadeRequests
<1> QED BY <1>3, <1>4 DEF Look, Act, Request

\* The beginnings of m: the first k names.
LEMMA Beginning ==
  ASSUME NEW m \in Path, NEW k \in 0..Len(m)
  PROVE  /\ SubSeq(m, 1, k) \in Path /\ Len(SubSeq(m, 1, k)) = k
         /\ k = Len(m) => SubSeq(m, 1, k) = m
         /\ k > 0 => Parent(SubSeq(m, 1, k)) = SubSeq(m, 1, k - 1)
<1> DEFINE q == SubSeq(m, 1, k)
           a == SubSeq(q, 1, k - 1)
           b == SubSeq(m, 1, k - 1)
<1>1. Len(m) \in Nat /\ m \in Seq(Names)
  BY DEF Path
<1>2. q \in Seq(Names) /\ Len(q) = k /\ \A i \in 1..k : q[i] = m[i]
  BY <1>1
<1>3. k = Len(m) => q = m
  BY <1>1, SubSeqFull
<1> HIDE DEF q
<1>4. CASE k > 0
  <2>1. k - 1 \in 0..k /\ k - 1 \in 0..Len(m)
    BY <1>1, <1>4
  <2>2. a \in Seq(Names) /\ Len(a) = k - 1 /\ \A i \in 1..k - 1 : a[i] = q[i]
    BY <1>2, <2>1
  <2>3. b \in Seq(Names) /\ Len(b) = k - 1 /\ \A i \in 1..k - 1 : b[i] = m[i]
    BY <1>1, <2>1
  <2> HIDE DEF a, b
  <2>4. \A i \in 1..k - 1 : a[i] = b[i]
    BY <1>2, <2>2, <2>3
  <2>5. a = b
    BY <2>2, <2>3, <2>4, SeqEqual
  <2>6. Parent(q) = a
    BY <1>2 DEF Parent, a
  <2> QED BY <1>2, <1>3, <2>5, <2>6 DEF q, b, Path
<1>5. CASE ~(k > 0)
  BY <1>2, <1>3, <1>5 DEF q, Path
<1> QED BY <1>4, <1>5

\* Above the root of the file system is a directory, too.
LEMMA RootHasParent ==
  ASSUME NEW t, IsFine(t), KindIn(t, FullName(<<>>)) = "dir"
  PROVE  KindIn(t, Parent(FullName(<<>>))) = "dir"
<1> DEFINE root == FullName(<<>>)
<1>1. root \in Path
  <2>1. <<>> \in Path
    BY DEF Path
  <2> QED BY <2>1, FullNameIs
<1>2. root \in DOMAIN t /\ KindIn(t, root) = "dir"
  BY DEF KindIn
<1> HIDE DEF root
<1>3. CASE root = <<>>
  <2>1. Parent(root) = <<>>
    BY <1>3 DEF Parent
  <2> QED BY <1>2, <1>3, <2>1 DEF root
<1>4. CASE root # <<>>
  <2>1. Parent(root) \in Path /\ Under(Parent(root), root)
    BY <1>1, <1>4, ParentAbove
  <2>2. Parent(root) \in DOMAIN t /\ t[Parent(root)] = Dir
    BY <1>2, <2>1, AboveIsDir
  <2> QED BY <2>2 DEF KindIn, root
<1> QED BY <1>3, <1>4

\* What a MkdirAll of m rests on, in tree t.
Grounds(m, t, cm, cl) ==
  /\ m \in Path /\ InTree(FullName(<<>>), m)
  /\ KindIn(t, <<>>) = "dir" /\ (cm => KindIn(t, FullName(<<>>)) = "dir")
  /\ (cm => KindIn(t, Parent(FullName(<<>>))) = "dir")
  /\ cm \in BOOLEAN /\ cl \in BOOLEAN /\ (cl => cm)

\* The number of names from which m is made.
LEMMA TopIs ==
  ASSUME NEW m, NEW t, NEW cm, NEW cl, Grounds(m, t, cm, cl)
  PROVE  /\ Len(FullName(<<>>)) \in Nat /\ Len(FullName(<<>>)) =< Len(m) /\ Len(m) \in Nat
         /\ FullName(<<>>) = SubSeq(m, 1, Len(FullName(<<>>)))
         /\ \A k \in Len(FullName(<<>>))..Len(m) : k \in 0..Len(m)
<1>1. <<>> \in Path
  BY DEF Path
<1>2. FullName(<<>>) \in Path
  BY <1>1, FullNameIs
<1>3. Len(FullName(<<>>)) \in Nat /\ Len(m) \in Nat
  BY <1>2 DEF Grounds, Path
<1>4. Len(FullName(<<>>)) =< Len(m) /\ FullName(<<>>) = SubSeq(m, 1, Len(FullName(<<>>)))
  BY <1>3 DEF Grounds, InTree
<1> DEFINE top == Len(FullName(<<>>))
<1> HIDE DEF top
<1>5. top \in Nat /\ Len(m) \in Nat
  BY <1>3 DEF top
<1>6. \A k \in top..Len(m) : k \in 0..Len(m)
  BY <1>5
<1> QED BY <1>3, <1>4, <1>5, <1>6 DEF top

\* With directory k there, the next one is made, or all are.
LEMMA DirGoesOn ==
  ASSUME NEW m, NEW t, NEW cm, NEW cl, Grounds(m, t, cm, cl),
         NEW k \in Len(FullName(<<>>))..Len(m), cm => KindIn(t, SubSeq(m, 1, k)) = "dir"
  PROVE  Going(Go(Chain(m, k)), m, t, cm, cl)
<1>1. m \in Path /\ k \in 0..Len(m) /\ Len(m) \in Nat /\ Len(FullName(<<>>)) \in Nat
  BY TopIs DEF Grounds
<1>2. CASE k = Len(m)
  <2>1. Go(Chain(m, k)) = [prog |-> <<>>, ret |-> "ok"]
    BY <1>1, <1>2, ChainIs, GoEnds
  <2>2. SubSeq(m, 1, k) = m
    BY <1>1, <1>2, Beginning
  <2>3. Go(Chain(m, k)).prog = <<>> /\ Go(Chain(m, k)).ret = "ok"
    BY <2>1
  <2>4. cm => KindIn(t, m) = "dir"
    BY <2>2
  <2> QED BY <2>3, <2>4 DEF Going
<1>3. CASE k < Len(m)
  <2> DEFINE j == k + 1
             q == SubSeq(m, 1, j)
             T == Chain(m, j)
             r == Look("mkdirAll", q)
  <2>1. j \in 0..Len(m) /\ j \in Len(FullName(<<>>))..Len(m) /\ j > 0 /\ j - 1 = k
    BY <1>1, <1>3
  <2>2. Chain(m, k) = <<r>> \o T
    BY <1>1, <1>3, ChainIs
  <2> HIDE DEF j
  <2>3. q \in Path /\ Parent(q) = SubSeq(m, 1, k)
    BY <1>1, <2>1, Beginning
  <2>4. T \in Seq(Reqs(TRUE))
    BY <1>1, <2>1, ChainIs
  <2>5. r \in Reqs(TRUE) /\ r.do # "catch"
    BY <2>3, GoingTypes
  <2> HIDE DEF q, T
  <2>6. Go(<<r>> \o T) = [prog |-> <<r>> \o T, ret |-> "none"]
    <3> HIDE DEF r
    <3> QED BY <2>4, <2>5, GoOn
  <2>7. GoingAt(<<r>> \o T, q, T, t, cm, cl)
    <3>1. cm => KindIn(t, Parent(q)) = "dir"
      BY <2>3
    <3> QED BY <3>1, Zenon DEF GoingAt
  <2> DEFINE p == <<r>> \o T
  <2>8. Go(Chain(m, k)).prog = p /\ Go(Chain(m, k)).ret = "none"
    BY <2>2, <2>6
  <2>9. GoingAt(p, SubSeq(m, 1, j), Chain(m, j), t, cm, cl)
    BY <2>7 DEF q, T
  <2> HIDE DEF p
  <2> QED BY <2>1, <2>8, <2>9 DEF Going
<1> QED BY <1>1, <1>2, <1>3

\* Without a handler an error ends the call: then there is a file in the way.
LEMMA EndsGoing ==
  ASSUME NEW m, NEW t, NEW cm, NEW cl, Grounds(m, t, cm, cl),
         NEW k \in Len(FullName(<<>>))..Len(m), NEW e \in Error,
         cl => KindIn(t, SubSeq(m, 1, k)) = "file"
  PROVE  Going(Fail(e, Chain(m, k)), m, t, cm, cl)
<1>1. m \in Path /\ k \in 0..Len(m)
  BY TopIs DEF Grounds
<1>2. \A i \in DOMAIN Chain(m, k) : Chain(m, k)[i].do # "catch"
  BY <1>1, ChainIs
<1>3. Fail(e, Chain(m, k)) = [prog |-> <<>>, ret |-> e]
  BY <1>2, FailEnds
<1> QED BY <1>3 DEF Going

\* With its handler an error leads to the second look.
LEMMA LooksAgain ==
  ASSUME NEW m, NEW t, NEW cm, NEW cl, Grounds(m, t, cm, cl),
         NEW k \in Len(FullName(<<>>))..Len(m), NEW e \in Error,
         cl => KindIn(t, SubSeq(m, 1, k)) # "missing"
  PROVE  LET q == SubSeq(m, 1, k)
             W == <<Act("catch", q)>> \o Chain(m, k)
         IN /\ Going(Fail(e, W), m, t, cm, cl)
            /\ Going(Fail(e, <<Look("made", q)>> \o W), m, t, cm, cl)
<1> DEFINE q == SubSeq(m, 1, k)
           T == Chain(m, k)
           r == Act("catch", q)
           l == Look("made", q)
           W == <<r>> \o T
<1>1. m \in Path /\ k \in 0..Len(m)
  BY TopIs DEF Grounds
<1>2. T \in Seq(Reqs(TRUE))
  BY <1>1, ChainIs
<1>3. q \in Path
  BY <1>1, Beginning
<1> HIDE DEF q, T
<1>4. r \in Reqs(TRUE) /\ r.do = "catch" /\ r.n = q /\ l \in Reqs(TRUE) /\ l.do # "catch"
  BY <1>3, GoingTypes
<1> HIDE DEF r, l
<1>5. W \in Seq(Reqs(TRUE))
  BY <1>2, <1>4, InFront
<1>6. Fail(e, W) = [prog |-> <<Look(e, q)>> \o T, ret |-> "none"]
  BY <1>2, <1>4, FailOn
<1> HIDE DEF W
<1>7. Fail(e, <<l>> \o W) = Fail(e, W)
  BY <1>4, <1>5, FailOn
<1>8. GoingAt(<<Look(e, q)>> \o T, q, T, t, cm, cl)
  BY DEF GoingAt, q
<1>9. Going(Fail(e, W), m, t, cm, cl)
  BY <1>6, <1>8 DEF Going, q, T
<1> QED BY <1>7, <1>9 DEF W, r, l, q, T

\* A call that goes on with requests of a MkdirAll.
LEMMA GoesOnAt ==
  ASSUME NEW m, NEW t, NEW cm, NEW cl, Grounds(m, t, cm, cl),
         NEW k \in Len(FullName(<<>>))..Len(m), NEW p,
         GoingAt(p, SubSeq(m, 1, k), Chain(m, k), t, cm, cl), Go(p) = [prog |-> p, ret |-> "none"]
  PROVE  Going(Go(p), m, t, cm, cl)
BY DEF Going

\* A look at p is answered: with what is there, or, after a failure, with an
\* error or as if nothing were there.
Answers(a, p, t, cl) == a = KindIn(t, p) \/ (a \in {"err", "missing"} /\ ~cl)

\* The first look of MkdirAll.
LEMMA AllAnswered ==
  ASSUME NEW m, NEW t, NEW cm, NEW cl, Grounds(m, t, cm, cl),
         NEW k \in Len(FullName(<<>>))..Len(m), NEW a, Answers(a, SubSeq(m, 1, k), t, cl)
  PROVE  Going(MkdirAll(Look("all", SubSeq(m, 1, k)), a, Chain(m, k)), m, t, cm, cl)
<1> DEFINE q == SubSeq(m, 1, k)
           T == Chain(m, k)
           r == Look("all", q)
           l == Look("mkdirAll", q)
           above == Look("all", Parent(q))
           p == <<l>> \o T
           top == Len(FullName(<<>>))
<1>1. /\ m \in Path /\ k \in 0..Len(m) /\ Len(m) \in Nat
      /\ top \in Nat /\ FullName(<<>>) = SubSeq(m, 1, top)
  BY TopIs DEF Grounds
<1>2. T \in Seq(Reqs(TRUE))
  BY <1>1, ChainIs
<1>3. /\ q \in Path /\ Len(q) = k
      /\ (k > 0 => Parent(q) = SubSeq(m, 1, k - 1))
      /\ (k < Len(m) => T = <<Look("mkdirAll", SubSeq(m, 1, k + 1))>> \o Chain(m, k + 1))
  BY <1>1, Beginning, ChainIs
<1>4. r.why = "all" /\ r.n = q
  BY DEF Look, Request
<1>5. l \in Reqs(TRUE) /\ l.do # "catch"
  BY <1>3, GoingTypes
<1>6. a \in {"dir", "file", "missing", "err"} /\ (a = "dir" => KindIn(t, q) = "dir")
      /\ (a = "file" => KindIn(t, q) = "file")
  BY DEF Answers, KindIn
<1>7. CASE a = "dir"
  <2>1. MkdirAll(r, a, T) = Go(T)
    BY <1>4, <1>7 DEF MkdirAll
  <2>2. Going(Go(T), m, t, cm, cl)
    BY <1>6, <1>7, DirGoesOn
  <2> QED BY <2>1, <2>2
<1>8. CASE a = "file"
  <2>1. MkdirAll(r, a, T) = Fail("errNotDir", T)
    BY <1>4, <1>8 DEF MkdirAll
  <2>2. "errNotDir" \in Error /\ (cl => KindIn(t, q) = "file")
    BY <1>6, <1>8 DEF Error, Results
  <2>3. Going(Fail("errNotDir", T), m, t, cm, cl)
    BY <2>2, EndsGoing
  <2> QED BY <2>1, <2>3
<1>9. CASE a \in {"missing", "err"} /\ Above(q)
  <2> DEFINE j == k - 1
  <2>1. k > top + 1
    BY <1>3, <1>9 DEF Above
  <2>2. j \in 0..Len(m) /\ j \in top..Len(m) /\ j < Len(m) /\ j + 1 = k /\ k > 0
    BY <1>1, <2>1
  <2> HIDE DEF j
  <2>3. p = Chain(m, j)
    BY <1>1, <2>2, ChainIs
  <2>4. Parent(q) = SubSeq(m, 1, j) /\ Parent(q) \in Path
    <3>1. k - 1 = j
      BY <2>2 DEF j
    <3>2. SubSeq(m, 1, j) \in Path
      BY <1>1, <2>2, Beginning
    <3> QED BY <1>3, <2>2, <3>1, <3>2
  <2>5. above \in Reqs(TRUE) /\ above.do # "catch"
    BY <2>4, GoingTypes
  <2>6. p \in Seq(Reqs(TRUE))
    BY <1>2, <1>5, InFront
  <2>7. MkdirAll(r, a, T) = Go(<<above>> \o p)
    <3>1. MkdirAll(r, a, T) = Go((<<above>> \o <<l>>) \o T)
      BY <1>4, <1>9 DEF MkdirAll
    <3>2. (<<above>> \o <<l>>) \o T = <<above>> \o (<<l>> \o T)
      <4> HIDE DEF above, l, T
      <4> DEFINE x == <<above>>
                 y == <<l>>
                 R == Reqs(TRUE)
      <4>1. above \in R /\ l \in R /\ T \in Seq(R)
        BY <1>2, <1>5, <2>5
      <4> HIDE DEF R
      <4>2. x \in Seq(R) /\ y \in Seq(R)
        BY <4>1
      <4> HIDE DEF x, y
      <4>3. (x \o y) \o T = x \o (y \o T)
        BY <4>1, <4>2, ConcatAssociative
      <4> QED BY <4>3 DEF x, y
    <3> QED BY <3>1, <3>2
  <2> HIDE DEF above, p
  <2>8. Go(<<above>> \o p) = [prog |-> <<above>> \o p, ret |-> "none"]
    BY <2>5, <2>6, GoOn
  <2>9. <<above>> \o p = <<Look("all", SubSeq(m, 1, j))>> \o Chain(m, j)
    BY <2>3, <2>4 DEF above
  <2>10. GoingAt(<<above>> \o p, SubSeq(m, 1, j), Chain(m, j), t, cm, cl)
    BY <2>9, Zenon DEF GoingAt
  <2> DEFINE f == <<above>> \o p
  <2>11. GoingAt(f, SubSeq(m, 1, j), Chain(m, j), t, cm, cl) /\ Go(f) = [prog |-> f, ret |-> "none"]
    BY <2>8, <2>10
  <2> HIDE DEF f
  <2>12. Going(Go(f), m, t, cm, cl)
    BY <2>2, <2>11, GoesOnAt
  <2> QED BY <2>7, <2>12 DEF f
<1>10. CASE a \in {"missing", "err"} /\ ~Above(q)
  <2>1. k =< top + 1
    BY <1>1, <1>3, <1>10 DEF Above
  <2>2. MkdirAll(r, a, T) = Go(p)
    <3>1. MkdirAll(r, a, T) = Go((<<>> \o <<l>>) \o T)
      BY <1>4, <1>10 DEF MkdirAll
    <3>2. <<>> \o <<l>> = <<l>>
      <4> HIDE DEF l
      <4> DEFINE y == <<l>>
                 R == Reqs(TRUE)
      <4>1. l \in R
        BY <1>5
      <4> HIDE DEF R
      <4>2. y \in Seq(R)
        BY <4>1
      <4> HIDE DEF y
      <4>3. <<>> \o y = y
        BY <4>2, ConcatEmptySeq
      <4> QED BY <4>3 DEF y
    <3> QED BY <3>1, <3>2
  <2>3. cm => KindIn(t, Parent(q)) = "dir"
    <3>1. CASE k = top + 1
      <4>1. k > 0 /\ k - 1 = top
        BY <1>1, <3>1
      <4>2. Parent(q) = FullName(<<>>)
        BY <1>1, <1>3, <4>1
      <4> QED BY <4>2 DEF Grounds
    <3>2. CASE k # top + 1
      <4>1. k = top
        BY <1>1, <2>1, <3>2
      <4>2. q = FullName(<<>>)
        BY <1>1, <4>1
      <4> QED BY <4>2 DEF Grounds
    <3> QED BY <3>1, <3>2
  <2>4. Go(p) = [prog |-> p, ret |-> "none"]
    <3> HIDE DEF l, T
    <3> QED BY <1>2, <1>5, GoOn
  <2>5. GoingAt(p, q, T, t, cm, cl)
    <3> HIDE DEF q, T
    <3> QED BY <2>3, Zenon DEF GoingAt
  <2> HIDE DEF p
  <2>6. Going(Go(p), m, t, cm, cl)
    BY <2>4, <2>5, GoesOnAt
  <2> QED BY <2>2, <2>6
<1> QED BY <1>6, <1>7, <1>8, <1>9, <1>10

\* The second look of MkdirAll, after the error e.
LEMMA AgainAnswered ==
  ASSUME NEW m, NEW t, NEW cm, NEW cl, Grounds(m, t, cm, cl),
         NEW k \in Len(FullName(<<>>))..Len(m), NEW a, Answers(a, SubSeq(m, 1, k), t, cl),
         NEW e \in Error, cl => KindIn(t, SubSeq(m, 1, k)) # "missing"
  PROVE  Going(MkdirAll(Look(e, SubSeq(m, 1, k)), a, Chain(m, k)), m, t, cm, cl)
<1> DEFINE q == SubSeq(m, 1, k)
           T == Chain(m, k)
<1>1. Look(e, q).why = e /\ e # "all"
  BY DEF Look, Request, Error, Results
<1>2. CASE a = "dir"
  <2>1. KindIn(t, q) = "dir"
    BY <1>2 DEF Answers
  <2>2. Going(Go(T), m, t, cm, cl)
    BY <2>1, DirGoesOn
  <2> QED BY <1>1, <1>2, <2>2 DEF MkdirAll
<1>3. CASE a # "dir"
  <2>1. cl => KindIn(t, q) = "file"
    BY <1>3 DEF Answers, KindIn
  <2>2. Going(Fail(e, T), m, t, cm, cl)
    BY <2>1, EndsGoing
  <2> QED BY <1>1, <1>3, <2>2 DEF MkdirAll
<1> QED BY <1>2, <1>3

\* The Stat of Mkdir.
LEMMA MkdirAnswered ==
  ASSUME NEW m, NEW t, NEW cm, NEW cl, Grounds(m, t, cm, cl),
         NEW k \in Len(FullName(<<>>))..Len(m), NEW a, Answers(a, SubSeq(m, 1, k), t, cl),
         cm => KindIn(t, Parent(SubSeq(m, 1, k))) = "dir"
  PROVE  Going(Mkdir(Look("mkdirAll", SubSeq(m, 1, k)), a, Chain(m, k)), m, t, cm, cl)
<1> DEFINE q == SubSeq(m, 1, k)
           T == Chain(m, k)
           r == Look("mkdirAll", q)
           W == <<Act("catch", q)>> \o T
           make == MakeDir(q)
           p == <<make>> \o W
<1>1. m \in Path /\ k \in 0..Len(m)
  BY TopIs DEF Grounds
<1>2. T \in Seq(Reqs(TRUE)) /\ q \in Path
  BY <1>1, ChainIs, Beginning
<1>3. r.why = "mkdirAll" /\ r.n = q
  BY DEF Look, Request
<1>4. Mkdir(r, a, T) = IF a \in {"dir", "file"} THEN Fail("errExist", W) ELSE Go(p)
  BY <1>3 DEF Mkdir
<1>5. CASE a \in {"dir", "file"}
  <2>1. KindIn(t, q) # "missing" /\ "errExist" \in Error
    BY <1>5 DEF Answers, Error, Results
  <2>2. Going(Fail("errExist", W), m, t, cm, cl)
    BY <2>1, LooksAgain
  <2> QED BY <1>4, <1>5, <2>2
<1>6. CASE a \notin {"dir", "file"}
  <2> HIDE DEF q, T
  <2>1. Act("catch", q) \in Reqs(TRUE) /\ make \in Reqs(TRUE) /\ make.do # "catch"
    BY <1>2, GoingTypes DEF MakeDir
  <2>2. W \in Seq(Reqs(TRUE))
    BY <1>2, <2>1, InFront
  <2>3. Go(p) = [prog |-> p, ret |-> "none"]
    <3> HIDE DEF make, W
    <3> QED BY <2>1, <2>2, GoOn
  <2>4. p = <<Act("mkdir", q)>> \o W \/ p = <<Look("opendir", q)>> \o W
    BY DEF MakeDir
  <2>5. cm => KindIn(t, Parent(q)) = "dir"
    BY DEF q
  <2> HIDE DEF p
  <2>6. GoingAt(p, q, T, t, cm, cl)
    BY <2>4, <2>5, Zenon DEF GoingAt
  <2>7. Going(Go(p), m, t, cm, cl)
    BY <2>3, <2>6, GoesOnAt DEF q, T
  <2> QED BY <1>4, <1>6, <2>7 DEF q, T
<1> QED BY <1>5, <1>6

\* What WebDAV's openDir may lead to.
LEMMA OpenDirWays ==
  ASSUME NEW m, NEW t, NEW cm, NEW cl, Grounds(m, t, cm, cl), NEW k \in Len(FullName(<<>>))..Len(m)
  PROVE  LET q == SubSeq(m, 1, k)
             W == <<Act("catch", q)>> \o Chain(m, k)
             make == <<Act("mkdir", q), Look("made", q)>>
         IN /\ (cm => KindIn(t, q) = "dir") => Going(Go(W), m, t, cm, cl)
            /\ (cm => KindIn(t, Parent(q)) = "dir") =>
                 Going(Go(make \o W), m, t, cm, cl) /\ Going(Go(<<Look("mkparent", q)>> \o W), m, t, cm, cl)
<1> DEFINE q == SubSeq(m, 1, k)
           T == Chain(m, k)
           c == Act("catch", q)
           d == Act("mkdir", q)
           l == Look("made", q)
           u == Look("mkparent", q)
           W == <<c>> \o T
           M == <<l>> \o W
<1>1. m \in Path /\ k \in 0..Len(m)
  BY TopIs DEF Grounds
<1>2. T \in Seq(Reqs(TRUE)) /\ q \in Path
  BY <1>1, ChainIs, Beginning
<1>3. (cm => KindIn(t, q) = "dir") => Going(Go(T), m, t, cm, cl)
  BY DirGoesOn
<1> HIDE DEF q, T
<1>4. /\ c \in Reqs(TRUE) /\ c.do = "catch" /\ d \in Reqs(TRUE) /\ d.do # "catch"
      /\ l \in Reqs(TRUE) /\ l.do # "catch" /\ u \in Reqs(TRUE) /\ u.do # "catch"
  BY <1>2, GoingTypes
<1> HIDE DEF c, d, l, u
<1>5. Go(W) = Go(T)
  BY <1>2, <1>4, GoOn
<1>6. W \in Seq(Reqs(TRUE))
  BY <1>2, <1>4, InFront
<1> HIDE DEF W
<1>7. M \in Seq(Reqs(TRUE))
  BY <1>4, <1>6, InFront
<1>8. <<d, l>> \o W = <<d>> \o M
  <2> DEFINE R == Reqs(TRUE)
  <2>1. d \in R /\ l \in R /\ W \in Seq(R)
    BY <1>4, <1>6
  <2> HIDE DEF R
  <2>2. <<d, l>> \o W = <<d>> \o (<<l>> \o W)
    BY <2>1, TwoInFront
  <2> QED BY <2>2
<1> HIDE DEF M
<1> DEFINE p == <<d>> \o M
           s == <<u>> \o W
<1>9. Go(p) = [prog |-> p, ret |-> "none"] /\ Go(s) = [prog |-> s, ret |-> "none"]
  BY <1>4, <1>6, <1>7, GoOn
<1>10. ASSUME cm => KindIn(t, Parent(q)) = "dir"
       PROVE  GoingAt(p, q, T, t, cm, cl) /\ GoingAt(s, q, T, t, cm, cl)
  <2>1. p = <<Act("mkdir", q)>> \o (<<Look("made", q)>> \o (<<Act("catch", q)>> \o T))
    BY DEF d, M, l, W, c
  <2>2. s = <<Look("mkparent", q)>> \o (<<Act("catch", q)>> \o T)
    BY DEF u, W, c
  <2> HIDE DEF p, s
  <2>3. GoingAt(p, q, T, t, cm, cl)
    BY <1>10, <2>1, Zenon DEF GoingAt
  <2>4. GoingAt(s, q, T, t, cm, cl)
    BY <1>10, <2>2, Zenon DEF GoingAt
  <2> QED BY <2>3, <2>4
<1> HIDE DEF p, s
<1>11. ASSUME cm => KindIn(t, Parent(q)) = "dir"
       PROVE  Going(Go(p), m, t, cm, cl) /\ Going(Go(s), m, t, cm, cl)
  BY <1>9, <1>10, <1>11, GoesOnAt DEF q, T
<1>12. (cm => KindIn(t, q) = "dir") => Going(Go(W), m, t, cm, cl)
  BY <1>3, <1>5
<1>13. (cm => KindIn(t, Parent(q)) = "dir") =>
         Going(Go(<<d, l>> \o W), m, t, cm, cl) /\ Going(Go(<<u>> \o W), m, t, cm, cl)
  BY <1>8, <1>11 DEF p, s
<1> QED BY <1>12, <1>13 DEF q, W, T, c, d, l, u

\* The looks of WebDAV's openDir.
LEMMA OpenDirAnswered ==
  ASSUME NEW m, NEW t, NEW cm, NEW cl, Grounds(m, t, cm, cl),
         NEW k \in Len(FullName(<<>>))..Len(m), NEW why \in {"opendir", "mkparent", "made"},
         NEW a, Answers(a, Looked(Look(why, SubSeq(m, 1, k))), t, cl),
         why \in {"opendir", "mkparent"} => (cm => KindIn(t, Parent(SubSeq(m, 1, k))) = "dir"),
         why = "made" => (cm => KindIn(t, SubSeq(m, 1, k)) = "dir")
  PROVE  Going(OpenDir(Look(why, SubSeq(m, 1, k)), a, <<Act("catch", SubSeq(m, 1, k))>> \o Chain(m, k)),
               m, t, cm, cl)
<1> DEFINE q == SubSeq(m, 1, k)
           W == <<Act("catch", q)>> \o Chain(m, k)
           r == Look(why, q)
           make == <<Act("mkdir", q), Look("made", q)>>
           x == OpenDir(r, a, W)
<1>1. cl => cm
  BY DEF Grounds
<1>2. \A e \in {"err", "errNotExist", "errExist"} :
        (cl => KindIn(t, q) # "missing") => Going(Fail(e, W), m, t, cm, cl)
  <2>1. {"err", "errNotExist", "errExist"} \subseteq Error
    BY DEF Error, Results
  <2> QED BY <2>1, LooksAgain
<1>3. (cm => KindIn(t, q) = "dir") => Going(Go(W), m, t, cm, cl)
  BY OpenDirWays
<1>4. (cm => KindIn(t, Parent(q)) = "dir") =>
        Going(Go(make \o W), m, t, cm, cl) /\ Going(Go(<<Look("mkparent", q)>> \o W), m, t, cm, cl)
  BY OpenDirWays
<1>5. r.why = why /\ r.n = q /\ Looked(r) = IF why = "mkparent" THEN Parent(q) ELSE q
  BY DEF Look, Request, Looked
<1>6. Answers(a, IF why = "mkparent" THEN Parent(q) ELSE q, t, cl)
  BY <1>5
<1>7. /\ why \in {"opendir", "mkparent"} => (cm => KindIn(t, Parent(q)) = "dir")
      /\ why = "made" => (cm => KindIn(t, q) = "dir")
  OBVIOUS
<1>8. /\ a = "err" => x = Fail("err", W)
      /\ a = "missing" /\ why = "opendir" => x \in {Go(make \o W), Go(<<Look("mkparent", q)>> \o W)}
      /\ a = "missing" /\ why # "opendir" => x = Fail("errNotExist", W)
      /\ a \in {"dir", "file"} /\ why = "mkparent" => x = Go(make \o W)
      /\ a = "file" /\ why = "opendir" => x = Fail("errExist", W)
      /\ a = "dir" /\ why = "opendir" => x = Go(W)
      /\ a \in {"dir", "file"} /\ why = "made" => x = Go(W)
  <2> HIDE DEF r, W
  <2> QED BY <1>5 DEF OpenDir
<1>9. a \in {"dir", "file", "missing", "err"}
  BY <1>6 DEF Answers, KindIn
<1> HIDE DEF x, W, make, q, r
<1>10. ASSUME why = "opendir" PROVE Going(x, m, t, cm, cl)
  <2>1. a = KindIn(t, q) \/ (a \in {"err", "missing"} /\ ~cl)
    BY <1>6, <1>10 DEF Answers
  <2>2. CASE a = "err"
    <3>1. ~cl
      BY <2>1, <2>2 DEF KindIn
    <3> QED BY <1>2, <1>8, <2>2, <3>1
  <2>3. CASE a = "missing"
    BY <1>4, <1>7, <1>8, <1>10, <2>3
  <2>4. CASE a = "file"
    BY <1>2, <1>8, <1>10, <2>1, <2>4
  <2>5. CASE a = "dir"
    BY <1>3, <1>8, <1>10, <2>1, <2>5
  <2> QED BY <1>9, <2>2, <2>3, <2>4, <2>5
<1>11. ASSUME why = "mkparent" PROVE Going(x, m, t, cm, cl)
  <2>1. a = KindIn(t, Parent(q)) \/ (a \in {"err", "missing"} /\ ~cl)
    BY <1>6, <1>11 DEF Answers
  <2>2. CASE a \in {"err", "missing"}
    <3>1. ~cl
      BY <1>1, <1>7, <1>11, <2>1, <2>2 DEF KindIn
    <3> QED BY <1>2, <1>8, <1>11, <2>2, <3>1
  <2>3. CASE a \in {"dir", "file"}
    BY <1>4, <1>7, <1>8, <1>11, <2>3
  <2> QED BY <1>9, <2>2, <2>3
<1>12. ASSUME why = "made" PROVE Going(x, m, t, cm, cl)
  <2>1. a = KindIn(t, q) \/ (a \in {"err", "missing"} /\ ~cl)
    BY <1>6, <1>12 DEF Answers
  <2>2. CASE a \in {"err", "missing"}
    <3>1. ~cl
      BY <1>1, <1>7, <1>12, <2>1, <2>2 DEF KindIn
    <3> QED BY <1>2, <1>8, <1>12, <2>2, <3>1
  <2>3. CASE a \in {"dir", "file"}
    BY <1>3, <1>7, <1>8, <1>12, <2>3
  <2> QED BY <1>9, <2>2, <2>3
<1>13. Going(x, m, t, cm, cl)
  BY <1>10, <1>11, <1>12
<1> QED BY <1>13 DEF x, r, W, q

\* The first request and the rest of a program p of a MkdirAll.
HeadIs(p, q, T, t, cm, cl) ==
  LET W == <<Act("catch", q)>> \o T
      M == <<Look("made", q)>> \o W
      parent == cm => KindIn(t, Parent(q)) = "dir"
  IN \/ Head(p) = Look("all", q) /\ Tail(p) = T
     \/ parent /\ Head(p) = Look("mkdirAll", q) /\ Tail(p) = T
     \/ parent /\ Head(p) = Act("mkdir", q) /\ Tail(p) \in {W, M}
     \/ parent /\ Head(p) \in {Look("opendir", q), Look("mkparent", q)} /\ Tail(p) = W
     \/ (cm => KindIn(t, q) = "dir") /\ Head(p) = Look("made", q) /\ Tail(p) = W
     \/ \E e \in Error : /\ cl => KindIn(t, q) # "missing"
                         /\ Head(p) = Look(e, q) /\ Tail(p) = T

\* The next request of a MkdirAll, by what the call has come to.
LEMMA HeadOfGoing ==
  ASSUME NEW m, NEW t, NEW cm, NEW cl, Grounds(m, t, cm, cl),
         NEW k \in Len(FullName(<<>>))..Len(m), NEW p,
         GoingAt(p, SubSeq(m, 1, k), Chain(m, k), t, cm, cl)
  PROVE  p # <<>> /\ HeadIs(p, SubSeq(m, 1, k), Chain(m, k), t, cm, cl)
<1> DEFINE q == SubSeq(m, 1, k)
           T == Chain(m, k)
           c == Act("catch", q)
           l == Look("made", q)
           W == <<c>> \o T
           M == <<l>> \o W
           R == Reqs(TRUE)
<1>1. m \in Path /\ k \in 0..Len(m)
  BY TopIs DEF Grounds
<1>2. T \in Seq(R) /\ q \in Path
  BY <1>1, ChainIs, Beginning
<1>3. GoingAt(p, q, T, t, cm, cl)
  OBVIOUS
<1> HIDE DEF q, T
<1>4. /\ \A why \in {"all", "mkdirAll", "opendir", "mkparent", "made"} \cup Error : Look(why, q) \in R
      /\ \A do \in {"mkdir", "catch"} : Act(do, q) \in R
  BY <1>2, GoingTypes
<1> HIDE DEF R
<1>5. c \in R /\ l \in R
  BY <1>4
<1> HIDE DEF c, l
<1>6. W \in Seq(R)
  BY <1>2, <1>5, InFront
<1> HIDE DEF W
<1>7. M \in Seq(R)
  BY <1>5, <1>6, InFront
<1> HIDE DEF M
<1>8. ASSUME NEW x \in R, NEW s \in Seq(R) PROVE <<x>> \o s # <<>> /\ Head(<<x>> \o s) = x /\ Tail(<<x>> \o s) = s
  BY PutInFront
<1>9. \/ p = <<Look("all", q)>> \o T
      \/ /\ cm => KindIn(t, Parent(q)) = "dir"
         /\ \/ p = <<Look("mkdirAll", q)>> \o T
            \/ p = <<Act("mkdir", q)>> \o W
            \/ p = <<Look("opendir", q)>> \o W
            \/ p = <<Look("mkparent", q)>> \o W
            \/ p = <<Act("mkdir", q)>> \o M
      \/ p = <<Look("made", q)>> \o W /\ (cm => KindIn(t, q) = "dir")
      \/ \E e \in Error : p = <<Look(e, q)>> \o T /\ (cl => KindIn(t, q) # "missing")
  BY <1>3, Zenon DEF GoingAt, M, W, c, l
<1>10. \A why \in {"all", "mkdirAll"} \cup Error :
         p = <<Look(why, q)>> \o T => p # <<>> /\ Head(p) = Look(why, q) /\ Tail(p) = T
  BY <1>2, <1>4, <1>8
<1>11. \A why \in {"opendir", "mkparent", "made"} :
         p = <<Look(why, q)>> \o W => p # <<>> /\ Head(p) = Look(why, q) /\ Tail(p) = W
  BY <1>4, <1>6, <1>8
<1>12. \A s \in {W, M} : p = <<Act("mkdir", q)>> \o s => p # <<>> /\ Head(p) = Act("mkdir", q) /\ Tail(p) = s
  BY <1>4, <1>6, <1>7, <1>8
<1>13. \/ Head(p) = Look("all", q) /\ Tail(p) = T
       \/ /\ cm => KindIn(t, Parent(q)) = "dir"
          /\ \/ Head(p) = Look("mkdirAll", q) /\ Tail(p) = T
             \/ Head(p) = Act("mkdir", q) /\ Tail(p) \in {W, M}
             \/ Head(p) \in {Look("opendir", q), Look("mkparent", q)} /\ Tail(p) = W
       \/ (cm => KindIn(t, q) = "dir") /\ Head(p) = Look("made", q) /\ Tail(p) = W
       \/ \E e \in Error : /\ cl => KindIn(t, q) # "missing"
                           /\ Head(p) = Look(e, q) /\ Tail(p) = T
  BY <1>9, <1>10, <1>11, <1>12, Zenon
<1>14. p # <<>>
  BY <1>9, <1>10, <1>11, <1>12, Zenon
<1>15. HeadIs(p, q, T, t, cm, cl)
  BY <1>13, Zenon DEF HeadIs, M, W, c, l
<1> QED BY <1>14, <1>15 DEF q, T

\* A look of a MkdirAll is answered.
LEMMA LookGoes ==
  ASSUME NEW m, NEW t, NEW cm, NEW cl, Grounds(m, t, cm, cl),
         NEW k \in Len(FullName(<<>>))..Len(m), NEW p,
         GoingAt(p, SubSeq(m, 1, k), Chain(m, k), t, cm, cl), Head(p).do = "look",
         NEW a, Answers(a, Looked(Head(p)), t, cl)
  PROVE  Going(After(Head(p), a, Tail(p)), m, t, cm, cl)
<1> DEFINE q == SubSeq(m, 1, k)
           T == Chain(m, k)
           W == <<Act("catch", q)>> \o T
           M == <<Look("made", q)>> \o W
           parent == cm => KindIn(t, Parent(q)) = "dir"
<1>1. \A why \in {"all", "mkdirAll", "opendir", "made"} \cup Error :
        Looked(Look(why, q)) = q /\ Look(why, q).why = why
  BY DEF Looked, Look, Request, Error, Results
<1>2. Look("mkparent", q).why = "mkparent"
  BY DEF Look, Request
<1>3. CASE Head(p) = Look("all", q) /\ Tail(p) = T
  <2>1. Answers(a, q, t, cl)
    BY <1>1, <1>3
  <2>2. Going(MkdirAll(Look("all", q), a, T), m, t, cm, cl)
    BY <2>1, AllAnswered
  <2>3. After(Look("all", q), a, T) = MkdirAll(Look("all", q), a, T)
    BY <1>1 DEF After
  <2> QED BY <1>3, <2>2, <2>3
<1>4. CASE parent /\ Head(p) = Look("mkdirAll", q) /\ Tail(p) = T
  <2>1. Answers(a, q, t, cl)
    BY <1>1, <1>4
  <2>2. Going(Mkdir(Look("mkdirAll", q), a, T), m, t, cm, cl)
    BY <1>4, <2>1, MkdirAnswered
  <2>3. After(Look("mkdirAll", q), a, T) = Mkdir(Look("mkdirAll", q), a, T)
    BY <1>1 DEF After
  <2> QED BY <1>4, <2>2, <2>3
<1>5. ASSUME NEW why \in {"opendir", "mkparent", "made"},
             Head(p) = Look(why, q), Tail(p) = W,
             why \in {"opendir", "mkparent"} => parent,
             why = "made" => (cm => KindIn(t, q) = "dir")
      PROVE  Going(After(Head(p), a, Tail(p)), m, t, cm, cl)
  <2>1. Answers(a, Looked(Look(why, q)), t, cl)
    BY <1>5
  <2>2. Going(OpenDir(Look(why, q), a, W), m, t, cm, cl)
    BY <1>5, <2>1, OpenDirAnswered
  <2>3. After(Look(why, q), a, W) = OpenDir(Look(why, q), a, W)
    BY <1>1, <1>2 DEF After
  <2> QED BY <1>5, <2>2, <2>3
<1>6. ASSUME NEW e \in Error, cl => KindIn(t, q) # "missing", Head(p) = Look(e, q), Tail(p) = T
      PROVE  Going(After(Head(p), a, Tail(p)), m, t, cm, cl)
  <2>1. Answers(a, q, t, cl)
    BY <1>1, <1>6
  <2>2. Going(MkdirAll(Look(e, q), a, T), m, t, cm, cl)
    BY <1>6, <2>1, AgainAnswered
  <2>3. After(Look(e, q), a, T) = MkdirAll(Look(e, q), a, T)
    <3>1. Look(e, q).why = e
      BY <1>1
    <3> QED BY <3>1 DEF After, Error, Results
  <2> QED BY <1>6, <2>2, <2>3
<1>7. Act("mkdir", q).do # "look"
  BY DEF Act, Request
<1>8. \/ Head(p) = Look("all", q) /\ Tail(p) = T
      \/ parent /\ Head(p) = Look("mkdirAll", q) /\ Tail(p) = T
      \/ parent /\ Head(p) = Act("mkdir", q) /\ Tail(p) \in {W, M}
      \/ parent /\ Head(p) \in {Look("opendir", q), Look("mkparent", q)} /\ Tail(p) = W
      \/ (cm => KindIn(t, q) = "dir") /\ Head(p) = Look("made", q) /\ Tail(p) = W
      \/ \E e \in Error : /\ cl => KindIn(t, q) # "missing"
                          /\ Head(p) = Look(e, q) /\ Tail(p) = T
  <2>1. HeadIs(p, q, T, t, cm, cl)
    BY HeadOfGoing
  <2> QED BY <2>1, Zenon DEF HeadIs
<1> HIDE DEF W, M, T, q, parent
<1>9. CASE parent /\ Head(p) \in {Look("opendir", q), Look("mkparent", q)} /\ Tail(p) = W
  BY <1>5, <1>9
<1>10. CASE (cm => KindIn(t, q) = "dir") /\ Head(p) = Look("made", q) /\ Tail(p) = W
  BY <1>5, <1>10
<1> QED BY <1>3, <1>4, <1>6, <1>7, <1>8, <1>9, <1>10

\* The only other request of a MkdirAll: the directory is made, or is not.
LEMMA MkdirGoes ==
  ASSUME NEW m, NEW t, NEW cm, NEW cl, Grounds(m, t, cm, cl),
         NEW k \in Len(FullName(<<>>))..Len(m), NEW p,
         GoingAt(p, SubSeq(m, 1, k), Chain(m, k), t, cm, cl), Head(p).do # "look"
  PROVE  /\ Head(p).do = "mkdir" /\ Head(p).n = SubSeq(m, 1, k)
         /\ cm => KindIn(t, Parent(SubSeq(m, 1, k))) = "dir"
         /\ KindIn(t, SubSeq(m, 1, k)) = "dir" => Going(Go(Tail(p)), m, t, cm, cl)
         /\ \A e \in Error : (cl => KindIn(t, SubSeq(m, 1, k)) # "missing") =>
              Going(Fail(e, Tail(p)), m, t, cm, cl)
<1> DEFINE q == SubSeq(m, 1, k)
           T == Chain(m, k)
           W == <<Act("catch", q)>> \o T
           l == Look("made", q)
           M == <<l>> \o W
           parent == cm => KindIn(t, Parent(q)) = "dir"
<1>1. m \in Path /\ k \in 0..Len(m)
  BY TopIs DEF Grounds
<1>2. T \in Seq(Reqs(TRUE)) /\ q \in Path
  BY <1>1, ChainIs, Beginning
<1>3. parent /\ Head(p) = Act("mkdir", q) /\ Tail(p) \in {W, M}
  <2>1. \A why : Look(why, q).do = "look"
    BY DEF Look, Request
  <2>2. \/ Head(p) = Look("all", q) /\ Tail(p) = T
        \/ parent /\ Head(p) = Look("mkdirAll", q) /\ Tail(p) = T
        \/ parent /\ Head(p) = Act("mkdir", q) /\ Tail(p) \in {W, M}
        \/ parent /\ Head(p) \in {Look("opendir", q), Look("mkparent", q)} /\ Tail(p) = W
        \/ (cm => KindIn(t, q) = "dir") /\ Head(p) = Look("made", q) /\ Tail(p) = W
        \/ \E e \in Error : /\ cl => KindIn(t, q) # "missing"
                            /\ Head(p) = Look(e, q) /\ Tail(p) = T
    <3>1. HeadIs(p, q, T, t, cm, cl)
      BY HeadOfGoing
    <3> QED BY <3>1, Zenon DEF HeadIs
  <2> HIDE DEF q, T, W, M, parent
  <2> QED BY <2>1, <2>2
<1>4. Head(p).do = "mkdir" /\ Head(p).n = q
  <2>1. Act("mkdir", q).do = "mkdir" /\ Act("mkdir", q).n = q
    BY DEF Act, Request
  <2> QED BY <1>3, <2>1
<1>5. (cm => KindIn(t, q) = "dir") => Going(Go(W), m, t, cm, cl)
  BY OpenDirWays
<1>6. (cm => KindIn(t, q) = "dir") => Going(Go(M), m, t, cm, cl)
  <2>1. Act("catch", q) \in Reqs(TRUE) /\ l \in Reqs(TRUE) /\ l.do # "catch"
    BY <1>2, GoingTypes
  <2>2. W \in Seq(Reqs(TRUE))
    BY <1>2, <2>1, InFront
  <2>3. Go(M) = [prog |-> M, ret |-> "none"]
    <3> HIDE DEF W, l
    <3> QED BY <2>1, <2>2, GoOn
  <2>4. (cm => KindIn(t, q) = "dir") => GoingAt(M, q, T, t, cm, cl)
    <3> HIDE DEF q, T
    <3> QED BY Zenon DEF GoingAt, M, l, W
  <2> HIDE DEF M
  <2> QED BY <2>3, <2>4, GoesOnAt
<1>7. \A e \in Error : (cl => KindIn(t, q) # "missing") =>
        Going(Fail(e, W), m, t, cm, cl) /\ Going(Fail(e, M), m, t, cm, cl)
  BY LooksAgain
<1> HIDE DEF W, M, T, l
<1>8. KindIn(t, q) = "dir" => Going(Go(Tail(p)), m, t, cm, cl)
  BY <1>3, <1>5, <1>6
<1>9. \A e \in Error : (cl => KindIn(t, q) # "missing") => Going(Fail(e, Tail(p)), m, t, cm, cl)
  BY <1>3, <1>7
<1> QED BY <1>3, <1>4, <1>8, <1>9

\* What a call has come to stays true while nothing is removed or renamed, and
\* nothing is said of it once that is over.
LEMMA GoingStays ==
  ASSUME NEW x, NEW m, NEW t, NEW cm \in BOOLEAN, NEW cl \in BOOLEAN,
         NEW u, NEW dm \in BOOLEAN, NEW dl \in BOOLEAN,
         Going(x, m, t, cm, cl), dm => cm /\ KindsStay(t, u), dl => cl /\ dm
  PROVE  Going(x, m, u, dm, dl)
<1>1. \A p : (cm => KindIn(t, p) = "dir") => (dm => KindIn(u, p) = "dir")
  BY StaysIs
<1>2. \A p : (cl => KindIn(t, p) # "missing") => (dl => KindIn(u, p) # "missing")
  BY StaysIs
<1>3. \A p : KindIn(t, p) = "file" => (dl => KindIn(u, p) = "file")
  BY StaysIs
<1>4. ASSUME NEW p, NEW q, NEW T, GoingAt(p, q, T, t, cm, cl)
      PROVE  GoingAt(p, q, T, u, dm, dl)
  BY <1>1, <1>2, <1>4, Zenon DEF GoingAt
<1>5. CASE x.prog = <<>> /\ x.ret = "ok" /\ (cm => KindIn(t, m) = "dir")
  BY <1>1, <1>5 DEF Going
<1>6. CASE /\ x.prog = <<>> /\ x.ret \in Error
           /\ cl => \E k \in Len(FullName(<<>>))..Len(m) : KindIn(t, SubSeq(m, 1, k)) = "file"
  <2>1. dl => \E k \in Len(FullName(<<>>))..Len(m) : KindIn(u, SubSeq(m, 1, k)) = "file"
    BY <1>3, <1>6
  <2> QED BY <1>6, <2>1 DEF Going
<1>7. CASE /\ x.ret = "none"
           /\ \E k \in Len(FullName(<<>>))..Len(m) :
                GoingAt(x.prog, SubSeq(m, 1, k), Chain(m, k), t, cm, cl)
  BY <1>4, <1>7 DEF Going
<1> QED BY <1>5, <1>6, <1>7, Zenon DEF Going

\* Every MkdirAll, in every state.
Makes ==
  \A c \in Clients : cur[c].op = "MkdirAll" =>
    Going([prog |-> prog[c], ret |-> ret[c]], FullName(cur[c].n), tree, calm, calm /\ faults = 0)

\* What every MkdirAll rests on.
LEMMA GroundsHold ==
  ASSUME Typed, RootStays, NEW n \in Path
  PROVE  Grounds(FullName(n), tree, calm, calm /\ faults = 0)
<1>1. FullName(n) \in Path /\ InTree(FullName(<<>>), FullName(n))
  BY FullNameIs
<1>2. KindIn(tree, <<>>) = "dir" /\ calm \in BOOLEAN
  BY DEF Typed, IsFine, IsTree, KindIn
<1>3. calm => KindIn(tree, FullName(<<>>)) = "dir"
  BY DEF RootStays, Kind
<1>4. (calm /\ faults = 0) \in BOOLEAN /\ (calm /\ faults = 0 => calm)
  OBVIOUS
<1>5. calm => KindIn(tree, Parent(FullName(<<>>))) = "dir"
  <2>1. IsFine(tree)
    BY DEF Typed
  <2> QED BY <1>3, <2>1, RootHasParent
<1> QED BY <1>1, <1>2, <1>3, <1>4, <1>5, Zenon DEF Grounds

\* A MkdirAll begins with a look at its directory.
LEMMA MakesBegins ==
  ASSUME Typed, RootStays, NEW c \in Clients, NEW n \in Path, NEW to \in Path, NEW v
  PROVE  Going(Program(c, "MkdirAll", FullName(n), to, v), FullName(n), tree, calm, calm /\ faults = 0)
<1> DEFINE m == FullName(n)
           k == Len(m)
           cl == calm /\ faults = 0
           r == Look("all", m)
           p == <<r>>
<1>1. Grounds(m, tree, calm, cl)
  BY GroundsHold
<1>2. m \in Path /\ k \in 0..Len(m) /\ k \in Len(FullName(<<>>))..Len(m)
  <2>1. m \in Path /\ Len(m) \in Nat /\ Len(FullName(<<>>)) \in Nat /\ Len(FullName(<<>>)) =< Len(m)
    BY <1>1, TopIs DEF Grounds
  <2> QED BY <2>1
<1>3. SubSeq(m, 1, k) = m /\ Chain(m, k) = <<>>
  BY <1>2, Beginning, ChainIs
<1>4. Program(c, "MkdirAll", m, to, v) = Go(p)
  BY DEF Program
<1> HIDE DEF k
<1>5. r \in Reqs(TRUE) /\ r.do # "catch"
  BY <1>2, GoingTypes
<1>6. <<r>> \o <<>> = p
  <2> HIDE DEF r
  <2> DEFINE R == Reqs(TRUE)
  <2>1. r \in R
    BY <1>5
  <2> HIDE DEF R
  <2>2. p \in Seq(R)
    BY <2>1
  <2> HIDE DEF p
  <2>3. p \o <<>> = p
    BY <2>2, ConcatEmptySeq
  <2> QED BY <2>3 DEF p
<1>7. Go(p) = [prog |-> p, ret |-> "none"]
  <2> HIDE DEF r
  <2>1. <<>> \in Seq(Reqs(TRUE))
    OBVIOUS
  <2>2. Go(<<r>> \o <<>>) = [prog |-> <<r>> \o <<>>, ret |-> "none"]
    BY <1>5, <2>1, GoOn
  <2> QED BY <1>6, <2>2
<1>8. GoingAt(p, SubSeq(m, 1, k), Chain(m, k), tree, calm, cl)
  <2>1. p = <<Look("all", SubSeq(m, 1, k))>> \o Chain(m, k)
    BY <1>3, <1>6
  <2> HIDE DEF p
  <2> QED BY <2>1, Zenon DEF GoingAt
<1> HIDE DEF m, p, cl
<1>9. Going(Go(p), m, tree, calm, cl)
  BY <1>1, <1>2, <1>7, <1>8, GoesOnAt
<1> QED BY <1>4, <1>9 DEF m, cl

\* What a step has to show.
LEMMA MakesNextIs ==
  ASSUME UNCHANGED backend
  PROVE  Makes' <=> \A c \in Clients : cur'[c].op = "MkdirAll" =>
           Going([prog |-> prog'[c], ret |-> ret'[c]], FullName(cur'[c].n), tree', calm', calm' /\ faults' = 0)
<1>1. FullName(<<>>)' = FullName(<<>>) /\ \A c \in Clients : (FullName(cur[c].n))' = FullName(cur'[c].n)
  BY DEF FullName
<1> QED BY <1>1 DEF Makes, Going

\* A call that a step leaves as it is.
LEMMA MakesOn ==
  ASSUME Typed, Typed', Makes, [Next]_vars, NEW c \in Clients, faults = 0 \/ faults' # 0,
         prog'[c] = prog[c], ret'[c] = ret[c], cur'[c] = cur[c], cur[c].op = "MkdirAll"
  PROVE  Going([prog |-> prog'[c], ret |-> ret'[c]], FullName(cur'[c].n), tree', calm', calm' /\ faults' = 0)
<1> DEFINE x == [prog |-> prog[c], ret |-> ret[c]]
           m == FullName(cur[c].n)
           cl == calm /\ faults = 0
           dl == calm' /\ faults' = 0
<1>1. Going(x, m, tree, calm, cl)
  BY DEF Makes
<1>2. calm \in BOOLEAN /\ calm' \in BOOLEAN /\ cl \in BOOLEAN /\ dl \in BOOLEAN
  BY DEF Typed
<1>3. calm' => calm /\ KindsStay(tree, tree')
  BY CalmKeeps
<1>4. dl => cl /\ calm'
  BY <1>3
<1>5. [prog |-> prog'[c], ret |-> ret'[c]] = x /\ FullName(cur'[c].n) = m
  OBVIOUS
<1> HIDE DEF x, m, cl, dl
<1>6. Going(x, m, tree', calm', dl)
  BY <1>1, <1>2, <1>3, <1>4, GoingStays
<1> QED BY <1>5, <1>6 DEF dl

\* A MkdirAll at work, seen from the state after the step: how far it has come.
LEMMA MakesAt ==
  ASSUME Typed, Typed', RootStays', Makes, [Next]_vars, NEW c \in Clients, faults = 0 \/ faults' # 0,
         cur[c].op = "MkdirAll", prog[c] # <<>>
  PROVE  LET m == FullName(cur[c].n)
             dl == calm' /\ faults' = 0
         IN /\ Grounds(m, tree', calm', dl)
            /\ \E k \in Len(FullName(<<>>))..Len(m) :
                 GoingAt(prog[c], SubSeq(m, 1, k), Chain(m, k), tree', calm', dl)
<1> DEFINE x == [prog |-> prog[c], ret |-> ret[c]]
           m == FullName(cur[c].n)
           cl == calm /\ faults = 0
           dl == calm' /\ faults' = 0
<1>1. Going(x, m, tree, calm, cl)
  BY DEF Makes
<1>2. calm \in BOOLEAN /\ calm' \in BOOLEAN /\ cl \in BOOLEAN /\ dl \in BOOLEAN
  BY DEF Typed
<1>3. calm' => calm /\ KindsStay(tree, tree')
  BY CalmKeeps
<1>4. dl => cl /\ calm'
  BY <1>3
<1>5. m \in Path /\ InTree(FullName(<<>>), m)
  <2>1. cur[c].n \in Path
    BY DEF Typed, CallRecords
  <2> QED BY <2>1, FullNameIs
<1>6. KindIn(tree', <<>>) = "dir"
  BY DEF Typed, IsFine, IsTree, KindIn
<1>7. calm' => KindIn(tree', FullName(<<>>)) = "dir"
  <2>1. backend' = backend
    BY BackendStays
  <2> QED BY <2>1 DEF RootStays, Kind, KindIn, FullName
<1>8. x.prog = prog[c] /\ prog[c] # <<>> /\ (calm' => KindIn(tree', Parent(FullName(<<>>))) = "dir")
  <2>1. IsFine(tree')
    BY DEF Typed
  <2> QED BY <1>7, <2>1, RootHasParent
<1> HIDE DEF x, m, cl, dl
<1>9. Grounds(m, tree', calm', dl)
  BY <1>2, <1>4, <1>5, <1>6, <1>7, <1>8, Zenon DEF Grounds
<1>10. Going(x, m, tree', calm', dl)
  BY <1>1, <1>2, <1>3, <1>4, GoingStays
<1>11. \E k \in Len(FullName(<<>>))..Len(m) :
         GoingAt(prog[c], SubSeq(m, 1, k), Chain(m, k), tree', calm', dl)
  BY <1>8, <1>10, Zenon DEF Going
<1> QED BY <1>9, <1>11 DEF m, dl

\* Faults are counted, never taken back.
LEMMA FaultsGrow == Typed /\ [Next]_vars => faults = 0 \/ faults' # 0
<1> SUFFICES ASSUME Typed, [Next]_vars PROVE faults = 0 \/ faults' # 0
  OBVIOUS
<1>1. ASSUME NEW c \in Clients, NEW op \in Calls, NEW n \in Paths, NEW to \in Paths,
             Begin(c, op, n, to)
      PROVE  faults' = faults
  BY <1>1 DEF Begin
<1>2. ASSUME NEW c \in Clients,
             Looks(c) \/ Lists(c) \/ Does(c) \/ IsRefused(c) \/ Uploads(c) \/ Exports(c)
      PROVE  faults' = faults
  BY <1>2 DEF Looks, Lists, Does, IsRefused, Uploads, Exports
<1>3. ASSUME NEW c \in Clients, RequestFails(c) PROVE faults' # 0
  <2>1. faults' = faults + 1 /\ faults \in Nat
    BY <1>3, NamespaceAssumption DEF RequestFails, Typed
  <2> QED BY <2>1
<1>4. Lands => faults' = faults
  BY DEF Lands
<1>5. UNCHANGED vars => faults' = faults
  BY DEF vars
<1> QED BY <1>1, <1>2, <1>3, <1>4, <1>5 DEF Next

\* A step of a MkdirAll.
LEMMA MakesStep ==
  ASSUME Typed, Typed', RootStays', Makes, [Next]_vars, NEW c \in Clients, cur[c].op = "MkdirAll",
         prog[c] # <<>>, faults = 0 \/ faults' # 0,
         \/ Looks(c) \/ Lists(c) \/ Does(c) \/ IsRefused(c)
         \/ Uploads(c) \/ Exports(c) \/ RequestFails(c)
  PROVE  Going([prog |-> prog'[c], ret |-> ret'[c]], FullName(cur'[c].n), tree', calm', calm' /\ faults' = 0)
<1> DEFINE r == Head(prog[c])
           rest == Tail(prog[c])
           m == FullName(cur[c].n)
           dl == calm' /\ faults' = 0
           after == [prog |-> prog'[c], ret |-> ret'[c]]
<1>1. Grounds(m, tree', calm', dl)
  BY MakesAt
<1>2. PICK k \in Len(FullName(<<>>))..Len(m) :
        GoingAt(prog[c], SubSeq(m, 1, k), Chain(m, k), tree', calm', dl)
  BY MakesAt
<1> DEFINE q == SubSeq(m, 1, k)
<1>3. FullName(cur'[c].n) = m
  <2>1. cur' = cur
    BY DEF Looks, Lists, Does, IsRefused, Uploads, Exports, RequestFails
  <2> QED BY <2>1
<1>4. ASSUME NEW x, Continue(c, x) PROVE after.prog = x.prog /\ after.ret = x.ret
  BY <1>4 DEF Continue, Typed
<1>5. ASSUME NEW x, Continue(c, x), Going(x, m, tree', calm', dl)
      PROVE  Going(after, m, tree', calm', dl)
  <2>1. after.prog = x.prog /\ after.ret = x.ret
    BY <1>4, <1>5
  <2> HIDE DEF after, m, dl
  <2> QED BY <1>5, <2>1, Zenon DEF Going
<1> HIDE DEF m, dl, after
<1>6. ASSUME NEW a, r.do = "look", Answers(a, Looked(r), tree', dl), Continue(c, After(r, a, rest))
      PROVE  Going(after, m, tree', calm', dl)
  <2>1. Going(After(r, a, rest), m, tree', calm', dl)
    BY <1>1, <1>2, <1>6, LookGoes
  <2> QED BY <1>5, <1>6, <2>1
<1>7. r.do # "look" =>
        /\ r.do = "mkdir" /\ r.n = q /\ (calm' => KindIn(tree', Parent(q)) = "dir")
        /\ KindIn(tree', q) = "dir" => Going(Go(rest), m, tree', calm', dl)
        /\ \A e \in Error : (dl => KindIn(tree', q) # "missing") =>
             Going(Fail(e, rest), m, tree', calm', dl)
  BY <1>1, <1>2, MkdirGoes
<1> HIDE DEF q
<1> SUFFICES Going(after, m, tree', calm', dl)
  BY <1>3 DEF after, dl
<1>8. CASE Looks(c)
  <2>1. r.do = "look" /\ Continue(c, After(r, Kind(Looked(r)), rest)) /\ tree' = tree
    BY <1>8 DEF Looks, Doing
  <2>2. Answers(Kind(Looked(r)), Looked(r), tree', dl)
    BY <2>1 DEF Answers, Kind
  <2> QED BY <1>6, <2>1, <2>2
<1>9. CASE Lists(c) \/ Uploads(c) \/ Exports(c)
  <2>1. r.do \in {"list", "rmlist", "put", "export"}
    BY <1>9 DEF Lists, Uploads, Exports, Doing
  <2> QED BY <1>7, <2>1
<1>10. CASE Does(c)
  <2>1. r.do \in Changes /\ Possible(r) /\ Becomes(Effect(r)) /\ Continue(c, Go(rest))
    BY <1>10 DEF Does, Doing
  <2>2. r.do = "mkdir" /\ r.n = q
    BY <1>7, <2>1 DEF Changes
  <2>3. tree' = Placed(tree, q, Dir)
    BY <2>1, <2>2 DEF Becomes, Effect
  <2>4. KindIn(tree', q) = "dir"
    BY <2>3 DEF Placed, KindIn
  <2>5. Going(Go(rest), m, tree', calm', dl)
    BY <1>7, <2>2, <2>4
  <2> QED BY <1>5, <2>1, <2>5
<1>11. CASE IsRefused(c)
  <2>1. r.do \in Changes /\ ~Possible(r) /\ tree' = tree
    BY <1>11 DEF IsRefused, Doing
  <2>2. r.do = "mkdir" /\ r.n = q /\ (calm' => KindIn(tree', Parent(q)) = "dir")
    BY <1>7, <2>1 DEF Changes
  <2>3. Continue(c, Fail(Refused, rest))
    BY <1>11, <2>2 DEF IsRefused
  <2>4. dl => KindIn(tree', q) # "missing"
    <3>1. ~(Kind(q) = "missing" /\ Kind(Parent(q)) = "dir")
      BY <2>1, <2>2 DEF Possible
    <3> QED BY <2>1, <2>2, <3>1 DEF Kind, dl
  <2>5. Refused \in Error
    BY DEF Refused, Error, Results
  <2>6. Going(Fail(Refused, rest), m, tree', calm', dl)
    BY <1>7, <2>2, <2>4, <2>5
  <2> QED BY <1>5, <2>3, <2>6
<1>12. CASE RequestFails(c)
  <2>1. dl = FALSE
    <3>1. faults' = faults + 1 /\ faults \in Nat
      BY <1>12, NamespaceAssumption DEF RequestFails, Typed
    <3> QED BY <3>1 DEF dl
  <2>2. CASE r.do = "look"
    <3>1. PICK a \in FailedLook : Continue(c, After(r, a, rest))
      BY <1>12, <2>2 DEF RequestFails
    <3>2. a \in {"err", "missing"}
      BY DEF FailedLook
    <3>3. Answers(a, Looked(r), tree', dl)
      BY <2>1, <3>2 DEF Answers
    <3> QED BY <1>6, <2>2, <3>1, <3>3
  <2>3. CASE r.do # "look"
    <3>1. r.do = "mkdir"
      BY <1>7, <2>3
    <3>2. Continue(c, Fail("err", rest))
      BY <1>12, <3>1 DEF RequestFails
    <3>3. "err" \in Error
      BY DEF Error, Results
    <3>4. Going(Fail("err", rest), m, tree', calm', dl)
      BY <1>7, <2>1, <2>3, <3>3
    <3> QED BY <1>5, <3>2, <3>4
  <2> QED BY <2>2, <2>3
<1> QED BY <1>8, <1>9, <1>10, <1>11, <1>12

\* No MkdirAll runs at first.
LEMMA MakesInit == Init => Makes
BY DEF Init, Makes

\* Every step leaves every MkdirAll at one of the points it can come to.
LEMMA MakesNext ==
  ASSUME Typed, Typed', RootStays, RootStays', Makes, [Next]_vars
  PROVE  Makes'
<1>1. backend' = backend
  BY BackendStays
<1>2. faults = 0 \/ faults' # 0
  BY FaultsGrow
<1> DEFINE goal(c) ==
      Going([prog |-> prog'[c], ret |-> ret'[c]], FullName(cur'[c].n), tree', calm', calm' /\ faults' = 0)
<1>3. SUFFICES ASSUME NEW c \in Clients, cur'[c].op = "MkdirAll" PROVE goal(c)
  BY <1>1, MakesNextIs
<1>4. ASSUME prog'[c] = prog[c], ret'[c] = ret[c], cur'[c] = cur[c] PROVE goal(c)
  BY <1>2, <1>3, <1>4, MakesOn
<1>5. ASSUME NEW d \in Clients, NEW op \in Calls, NEW n \in Paths, NEW to \in Paths,
             Begin(d, op, n, to)
      PROVE  goal(c)
  <2> DEFINE v == Written[calls + 1]
             x == Program(d, op, FullName(n), FullName(to), v)
  <2>1. /\ cur' = [cur EXCEPT ![d] = [op |-> op, n |-> n, to |-> to, v |-> v]]
        /\ prog' = [prog EXCEPT ![d] = x.prog] /\ ret' = [ret EXCEPT ![d] = x.ret]
        /\ tree' = tree /\ faults' = faults /\ calm' = (calm /\ op \notin {"RemoveAll", "Rename"})
    BY <1>5 DEF Begin
  <2>2. CASE d # c
    <3>1. prog'[c] = prog[c] /\ ret'[c] = ret[c] /\ cur'[c] = cur[c]
      BY <2>1, <2>2 DEF Typed
    <3> HIDE DEF goal
    <3> QED BY <1>4, <3>1
  <2>3. CASE d = c
    <3> HIDE DEF x
    <3>1. cur'[c].op = op /\ cur'[c].n = n /\ prog'[c] = x.prog /\ ret'[c] = x.ret
      <4> DEFINE call == [op |-> op, n |-> n, to |-> to, v |-> v]
      <4>1. call.op = op /\ call.n = n
        OBVIOUS
      <4>2. cur' = [cur EXCEPT ![d] = call]
        BY <2>1
      <4> HIDE DEF call
      <4> QED BY <2>1, <2>3, <4>1, <4>2 DEF Typed
    <3>2. op = "MkdirAll" /\ calm' = calm
      BY <1>3, <2>1, <3>1 DEF Typed
    <3>3. n \in Path
      BY NamespaceAssumption DEF Path
    <3>4. x = Program(c, "MkdirAll", FullName(n), FullName(to), v) /\ FullName(to) \in Path
      <4>1. to \in Path
        BY NamespaceAssumption DEF Path
      <4> QED BY <2>3, <3>2, <4>1, FullNameIs DEF x
    <3>5. Going(x, FullName(n), tree, calm, calm /\ faults = 0)
      BY <3>3, <3>4, MakesBegins
    <3> DEFINE y == [prog |-> prog'[c], ret |-> ret'[c]]
    <3>6. y.prog = x.prog /\ y.ret = x.ret
      BY <3>1
    <3> HIDE DEF y
    <3>7. Going(y, FullName(n), tree, calm, calm /\ faults = 0)
      BY <3>5, <3>6, Zenon DEF Going
    <3>8. tree' = tree /\ faults' = faults
      BY <2>1
    <3> QED BY <3>1, <3>2, <3>7, <3>8 DEF y
  <2> QED BY <2>2, <2>3
<1>6. ASSUME NEW d \in Clients,
             \/ Looks(d) \/ Lists(d) \/ Does(d) \/ IsRefused(d)
             \/ Uploads(d) \/ Exports(d) \/ RequestFails(d)
      PROVE  goal(c)
  <2>1. cur' = cur /\ prog[d] # <<>> /\ \E x : Continue(d, x)
    BY <1>6 DEF Looks, Lists, Does, IsRefused, Uploads, Exports, RequestFails, Doing
  <2>2. CASE d = c
    BY <1>2, <1>3, <1>6, <2>1, <2>2, MakesStep
  <2>3. CASE d # c
    <3>1. prog'[c] = prog[c] /\ ret'[c] = ret[c]
      BY <2>1, <2>3 DEF Continue, Typed
    <3> HIDE DEF goal
    <3> QED BY <1>4, <2>1, <3>1
  <2> QED BY <2>2, <2>3
<1>7. CASE Lands
  <2>1. prog' = prog /\ ret' = ret /\ cur' = cur
    BY <1>7 DEF Lands
  <2> HIDE DEF goal
  <2> QED BY <1>4, <2>1
<1>8. CASE UNCHANGED vars
  <2>1. prog' = prog /\ ret' = ret /\ cur' = cur
    BY <1>8 DEF vars
  <2> HIDE DEF goal
  <2> QED BY <1>4, <2>1
<1> HIDE DEF goal
<1> QED BY <1>5, <1>6, <1>7, <1>8 DEF Next

\* Every MkdirAll, in every state.
LEMMA AlwaysMakes == Spec => [](Typed /\ RootStays /\ Makes)
<1>1. Init => Typed /\ RootStays /\ Makes
  BY TypedInit, RootStaysInit, MakesInit
<1>2. Typed /\ RootStays /\ Makes /\ [Next]_vars => (Typed /\ RootStays /\ Makes)'
  <2> SUFFICES ASSUME Typed, RootStays, Makes, [Next]_vars PROVE (Typed /\ RootStays /\ Makes)'
    OBVIOUS
  <2>1. Typed'
    BY TypedNext
  <2>2. RootStays'
    BY RootStaysNext
  <2>3. Makes'
    BY <2>1, <2>2, MakesNext
  <2> QED BY <2>1, <2>2, <2>3
<1> QED BY <1>1, <1>2, PTL DEF Spec

\* MkdirAll returns nil only if the directory is there, also when a Stat or a
\* Mkdir fails on the way (util.go, IsDir after each Stat).
THEOREM MkdirAllOkMeansDirectoryHolds == Spec => []MkdirAllOkMeansDirectory
<1>1. Typed /\ Makes => MkdirAllOkMeansDirectory
  <2> SUFFICES ASSUME Typed, Makes, NEW c \in Clients, ret[c] = "ok", cur[c].op = "MkdirAll", calm
               PROVE  Kind(FullName(cur[c].n)) = "dir"
    BY DEF MkdirAllOkMeansDirectory
  <2> DEFINE x == [prog |-> prog[c], ret |-> ret[c]]
  <2>1. Going(x, FullName(cur[c].n), tree, calm, calm /\ faults = 0) /\ x.ret = "ok"
    BY DEF Makes
  <2>2. "ok" \notin Error /\ "ok" # "none"
    BY DEF Error
  <2> HIDE DEF x
  <2> QED BY <2>1, <2>2 DEF Going, Kind
<1> QED BY <1>1, AlwaysMakes, PTL

\* MkdirAll never loses a race: beside any calls that only create, whichever
\* directories others make first, it fails only if a file is in the way
\* (util.go, the second Stat after a failed Mkdir).
THEOREM MkdirAllNeverLosesRaceHolds == Spec => []MkdirAllNeverLosesRace
<1>1. Typed /\ RootStays /\ Makes => MkdirAllNeverLosesRace
  <2> SUFFICES ASSUME Typed, RootStays, Makes, NEW c \in Clients,
                      prog[c] = <<>>, cur[c].op = "MkdirAll", calm, faults = 0, ret[c] # "ok"
               PROVE  \E p \in Prefixes(cur[c].n) : Kind(FullName(p)) = "file"
    BY DEF MkdirAllNeverLosesRace
  <2> DEFINE x == [prog |-> prog[c], ret |-> ret[c]]
             n == cur[c].n
             m == FullName(n)
             top == Len(FullName(<<>>))
  <2>1. n \in Path
    BY DEF Typed, CallRecords
  <2>2. Grounds(m, tree, calm, calm /\ faults = 0)
    BY <2>1, GroundsHold
  <2>3. Going(x, m, tree, calm, calm /\ faults = 0) /\ x.prog = <<>> /\ x.ret # "ok"
    BY DEF Makes
  <2> HIDE DEF x, m
  <2>4. \A k \in top..Len(m) :
          ~GoingAt(<<>>, SubSeq(m, 1, k), Chain(m, k), tree, calm, calm /\ faults = 0)
    BY <2>2, HeadOfGoing
  <2>5. PICK k \in top..Len(m) : KindIn(tree, SubSeq(m, 1, k)) = "file"
    BY <2>3, <2>4 DEF Going
  <2> DEFINE q == SubSeq(m, 1, k)
  <2>6. k \in 0..Len(m) /\ m \in Path /\ Len(m) \in Nat /\ top \in Nat /\ top =< Len(m)
        /\ FullName(<<>>) = SubSeq(m, 1, top)
    BY <2>2, TopIs DEF Grounds
  <2>7. q \in Path /\ Len(q) = k
    BY <2>6, Beginning
  <2>8. InTree(q, m)
    BY <2>6, <2>7 DEF InTree
  <2>9. InTree(FullName(<<>>), q)
    <3>1. FullName(<<>>) \in Path /\ InTree(FullName(<<>>), m)
      BY <2>1, FullNameIs DEF m
    <3>2. top =< k
      BY <2>6
    <3> QED BY <2>6, <2>7, <2>8, <3>1, <3>2, InTreeLinear DEF Path
  <2> HIDE DEF q
  <2>10. PICK b \in Path : InTree(b, n) /\ FullName(b) = q
    BY <2>1, <2>7, <2>8, <2>9, NameOf DEF m
  <2>11. b \in Prefixes(n)
    <3>1. Len(b) \in 0..Len(n) /\ b = SubSeq(n, 1, Len(b))
      BY <2>1, <2>10 DEF InTree, Path
    <3> QED BY <3>1 DEF Prefixes
  <2> QED BY <2>5, <2>10, <2>11 DEF Kind, q
<1> QED BY <1>1, AlwaysMakes, PTL

-----------------------------------------------------------------------------
(* Export: every file that nobody touches is found.                        *)

\* The requests of a walk.
IsWalkRequest(r) == (r.do = "look" /\ r.why = "walk") \/ r.do \in {"list", "export"}
AllWalk(p) == \A i \in DOMAIN p : IsWalkRequest(p[i])

\* A request from which a walk comes to the file with the server's name p and
\* contents v, and a program with one for the file f.
Leads(r, p, v) ==
  \/ r.do = "look" /\ InTree(r.n, p)
  \/ r.do = "list" /\ Under(r.n, p)
  \/ r.do = "export" /\ r.n = p /\ r.v = v

Finds(p, f) == \E i \in DOMAIN p : Leads(p[i], FullName(f[1]), f[2])

\* The entry of file f in an archive of n.
Entry(f, n) == <<Rebased(f[1], n, <<>>), f[2]>>

\* A program of a walk is what Go makes of it.
LEMMA GoWalks ==
  ASSUME NEW R, NEW p \in Seq(R), AllWalk(p)
  PROVE  Go(p).prog = p /\ Go(p).ret \in {"none", "ok"}
<1>1. \A i \in DOMAIN p : p[i].do # "catch"
  BY DEF AllWalk, IsWalkRequest
<1>2. Live(p) = DOMAIN p /\ DOMAIN p = 1..Len(p) /\ Len(p) \in Nat
  <2>1. Live(p) = DOMAIN p
    BY <1>1, Zenon DEF Live
  <2>2. DOMAIN p = 1..Len(p) /\ Len(p) \in Nat
    OBVIOUS
  <2> QED BY <2>1, <2>2
<1>3. CASE p = <<>>
  BY <1>3, GoEnds
<1>4. CASE p # <<>>
  <2>1. 1 \in Live(p) /\ (\A j \in Live(p) : 1 =< j) /\ Live(p) \subseteq Nat
    BY <1>2, <1>4
  <2>2. First(Live(p)) = 1
    BY <2>1, FirstIs
  <2>3. SubSeq(p, 1, Len(p)) = p
    BY SubSeqFull
  <2>4. Go(p) = [prog |-> p, ret |-> "none"]
    BY <1>4, <2>1, <2>2, <2>3 DEF Go, Live, First
  <2> QED BY <2>4
<1> QED BY <1>3, <1>4

\* What programs find that follow each other.
LEMMA FindsBoth ==
  ASSUME NEW R, NEW s \in Seq(R), NEW u \in Seq(R)
  PROVE  /\ s \o u \in Seq(R)
         /\ AllWalk(s) /\ AllWalk(u) => AllWalk(s \o u)
         /\ \A f : Finds(s, f) \/ Finds(u, f) => Finds(s \o u, f)
<1> DEFINE p == s \o u
<1>1. p \in Seq(R) /\ Len(p) = Len(s) + Len(u) /\ Len(s) \in Nat /\ Len(u) \in Nat
  BY ConcatProperties
<1>2. \A i \in 1..Len(s) + Len(u) : p[i] = IF i <= Len(s) THEN s[i] ELSE u[i - Len(s)]
  BY ConcatProperties
<1> HIDE DEF p
<1>3. DOMAIN p = 1..Len(s) + Len(u) /\ DOMAIN s = 1..Len(s) /\ DOMAIN u = 1..Len(u)
  BY <1>1
<1>4. \A i \in DOMAIN s : i \in DOMAIN p /\ p[i] = s[i]
  BY <1>1, <1>2, <1>3
<1>5. ASSUME NEW i \in DOMAIN u PROVE Len(s) + i \in DOMAIN p /\ p[Len(s) + i] = u[i]
  <2>1. Len(s) + i \in 1..Len(s) + Len(u) /\ ~(Len(s) + i <= Len(s)) /\ (Len(s) + i) - Len(s) = i
    BY <1>1, <1>3
  <2> QED BY <1>2, <1>3, <2>1
<1>6. ASSUME NEW i \in DOMAIN p
      PROVE  (\E j \in DOMAIN s : p[i] = s[j]) \/ (\E j \in DOMAIN u : p[i] = u[j])
  <2>1. CASE i <= Len(s)
    BY <1>1, <1>2, <1>3, <2>1
  <2>2. CASE ~(i <= Len(s))
    <3>1. i - Len(s) \in DOMAIN u
      BY <1>1, <1>3, <2>2
    <3> QED BY <1>2, <1>3, <2>2, <3>1
  <2> QED BY <2>1, <2>2
<1>7. AllWalk(s) /\ AllWalk(u) => AllWalk(p)
  BY <1>6 DEF AllWalk
<1>8. \A f : Finds(s, f) \/ Finds(u, f) => Finds(p, f)
  BY <1>4, <1>5 DEF Finds
<1> QED BY <1>1, <1>7, <1>8 DEF p

\* What a program with a request in front finds.
LEMMA FindsFront ==
  ASSUME NEW R, NEW r \in R, NEW u \in Seq(R)
  PROVE  /\ AllWalk(<<r>> \o u) <=> IsWalkRequest(r) /\ AllWalk(u)
         /\ \A f : Finds(<<r>> \o u, f) <=> Leads(r, FullName(f[1]), f[2]) \/ Finds(u, f)
<1> DEFINE p == <<r>> \o u
<1>1. p \in Seq(R) /\ Len(p) = Len(u) + 1 /\ p[1] = r /\ Len(u) \in Nat
  BY PutInFront
<1>2. \A i \in 1..Len(u) : p[i + 1] = u[i]
  BY PutInFront
<1> HIDE DEF p
<1>3. DOMAIN p = 1..Len(u) + 1 /\ DOMAIN u = 1..Len(u) /\ 1 \in DOMAIN p
  BY <1>1
<1>4. \A i \in DOMAIN u : i + 1 \in DOMAIN p /\ p[i + 1] = u[i]
  BY <1>1, <1>2, <1>3
<1>5. ASSUME NEW i \in DOMAIN p, i # 1 PROVE i - 1 \in DOMAIN u /\ p[i] = u[i - 1]
  <2>1. i - 1 \in 1..Len(u) /\ (i - 1) + 1 = i
    BY <1>1, <1>3, <1>5
  <2> QED BY <1>2, <1>3, <2>1
<1>6. AllWalk(p) <=> IsWalkRequest(r) /\ AllWalk(u)
  BY <1>1, <1>3, <1>4, <1>5 DEF AllWalk
<1>7. \A f : Finds(p, f) <=> Leads(r, FullName(f[1]), f[2]) \/ Finds(u, f)
  BY <1>1, <1>3, <1>4, <1>5 DEF Finds
<1> QED BY <1>6, <1>7 DEF p

\* The elements of a path that is moved.
LEMMA RebasedElements ==
  ASSUME NEW S, NEW n \in Seq(S), NEW to \in Seq(S), NEW p \in Seq(S), InTree(n, p)
  PROVE  /\ \A i \in 1..Len(to) : Rebased(p, n, to)[i] = to[i]
         /\ \A i \in 1..Len(p) - Len(n) : Rebased(p, n, to)[Len(to) + i] = p[Len(n) + i]
<1>1. \A i \in 1..Len(to) : Rebased(p, n, to)[i] = to[i]
  BY RebasedStart
<1>2. \A i \in 1..Len(p) - Len(n) : Rebased(p, n, to)[Len(to) + i] = p[Len(n) + i]
  BY RebasedRest
<1> QED BY <1>1, <1>2

\* The server's name is the root's, and then the path.
LEMMA FullNameElements ==
  ASSUME NEW p \in Path
  PROVE  /\ Len(FullName(p)) = Len(FullName(<<>>)) + Len(p)
         /\ \A i \in 1..Len(FullName(<<>>)) : FullName(p)[i] = FullName(<<>>)[i]
         /\ \A i \in 1..Len(p) : FullName(p)[Len(FullName(<<>>)) + i] = p[i]
<1> DEFINE root == FullName(<<>>)
           top == <<>>
           P == FullName(p)
<1>1. root \in Seq(Names)
  BY FullNameIs DEF Path
<1>2. p \in Seq(Names) /\ top \in Seq(Names)
  BY DEF Path
<1>3. Len(top) = 0 /\ Len(p) \in Nat /\ Len(root) \in Nat
  BY <1>1, <1>2
<1>4. InTree(top, p)
  BY BelowRoot
<1>5. P = Rebased(p, top, root)
  BY FullNameIs
<1> HIDE DEF top, root, P
<1>6. Len(Rebased(p, top, root)) = Len(root) + (Len(p) - Len(top))
  BY <1>1, <1>2, <1>4, RebasedLen
<1>7. \A i \in 1..Len(root) : Rebased(p, top, root)[i] = root[i]
  BY <1>1, <1>2, <1>4, RebasedElements
<1>8. \A i \in 1..Len(p) - Len(top) : Rebased(p, top, root)[Len(root) + i] = p[Len(top) + i]
  BY <1>1, <1>2, <1>4, RebasedElements
<1>9. \A i \in 1..Len(p) : i \in 1..Len(p) - Len(top) /\ Len(top) + i = i
  BY <1>3
<1>10. \A i \in 1..Len(p) : P[Len(root) + i] = p[i]
  BY <1>5, <1>8, <1>9
<1> QED BY <1>3, <1>5, <1>6, <1>7, <1>10 DEF root, P

\* Below n in the file system is below n on the server, at the same place.
LEMMA SamePlace ==
  ASSUME NEW n \in Path, NEW p \in Path, InTree(n, p)
  PROVE  /\ InTree(FullName(n), FullName(p))
         /\ Rebased(FullName(p), FullName(n), <<>>) = Rebased(p, n, <<>>)
<1> DEFINE root == FullName(<<>>)
           top == <<>>
           N == FullName(n)
           P == FullName(p)
           a == Rebased(P, N, top)
           b == Rebased(p, n, top)
<1>1. root \in Seq(Names) /\ N \in Seq(Names) /\ P \in Seq(Names)
  BY FullNameIs DEF Path
<1>2. n \in Seq(Names) /\ p \in Seq(Names) /\ top \in Seq(Names)
  BY DEF Path
<1>3. /\ Len(N) = Len(root) + Len(n) /\ \A i \in 1..Len(root) : N[i] = root[i]
      /\ \A i \in 1..Len(n) : N[Len(root) + i] = n[i]
  BY FullNameElements
<1>4. /\ Len(P) = Len(root) + Len(p) /\ \A i \in 1..Len(root) : P[i] = root[i]
      /\ \A i \in 1..Len(p) : P[Len(root) + i] = p[i]
  BY FullNameElements
<1>5. Len(top) = 0
  OBVIOUS
<1> HIDE DEF root, top, N, P
<1>6. /\ Len(root) \in Nat /\ Len(n) \in Nat /\ Len(p) \in Nat
      /\ Len(n) <= Len(p) /\ \A i \in 1..Len(n) : p[i] = n[i]
  BY <1>1, <1>2, InTreeElements
<1>7. InTree(N, P)
  <2>1. ASSUME NEW i \in 1..Len(N) PROVE P[i] = N[i]
    <3>1. CASE i <= Len(root)
      <4>1. i \in 1..Len(root)
        BY <1>3, <1>6, <3>1
      <4> QED BY <1>3, <1>4, <4>1
    <3>2. CASE ~(i <= Len(root))
      <4>1. /\ i - Len(root) \in 1..Len(n) /\ i - Len(root) \in 1..Len(p)
            /\ Len(root) + (i - Len(root)) = i
        BY <1>3, <1>6, <3>2
      <4>2. N[Len(root) + (i - Len(root))] = n[i - Len(root)]
        BY <1>3, <4>1
      <4>3. P[Len(root) + (i - Len(root))] = p[i - Len(root)]
        BY <1>4, <4>1
      <4> QED BY <1>6, <4>1, <4>2, <4>3
    <3> QED BY <3>1, <3>2
  <2>2. Len(N) <= Len(P)
    BY <1>3, <1>4, <1>6
  <2> QED BY <1>1, <2>1, <2>2, InTreeElements
<1>8. a \in Seq(Names) /\ Len(a) = Len(top) + (Len(P) - Len(N))
  BY <1>1, <1>2, <1>7, RebasedLen
<1>9. b \in Seq(Names) /\ Len(b) = Len(top) + (Len(p) - Len(n))
  BY <1>2, RebasedLen
<1>10. \A i \in 1..Len(P) - Len(N) : a[Len(top) + i] = P[Len(N) + i]
  BY <1>1, <1>2, <1>7, RebasedElements
<1>11. \A i \in 1..Len(p) - Len(n) : b[Len(top) + i] = p[Len(n) + i]
  BY <1>2, RebasedElements
<1> HIDE DEF a, b
<1>12. Len(P) - Len(N) = Len(p) - Len(n)
  BY <1>3, <1>4, <1>6
<1>13. Len(a) = Len(p) - Len(n) /\ Len(b) = Len(p) - Len(n)
  BY <1>5, <1>6, <1>8, <1>9, <1>12
<1>14. ASSUME NEW i \in 1..Len(p) - Len(n) PROVE a[i] = b[i]
  <2>1. Len(top) + i = i /\ Len(n) + i \in 1..Len(p) /\ Len(root) + (Len(n) + i) = Len(N) + i
    BY <1>3, <1>5, <1>6
  <2>2. P[Len(root) + (Len(n) + i)] = p[Len(n) + i]
    BY <1>4, <2>1
  <2>3. P[Len(N) + i] = p[Len(n) + i]
    BY <2>1, <2>2
  <2> QED BY <1>10, <1>11, <1>12, <2>1, <2>3
<1>15. a = b
  BY <1>8, <1>9, <1>13, <1>14, SeqEqual
<1> QED BY <1>7, <1>15 DEF a, b, N, P, top

\* The name in the file system of a path on the server.
LEMMA NameIs ==
  ASSUME NEW q \in Path, InTree(FullName(<<>>), q)
  PROVE  /\ Rebased(q, FullName(<<>>), <<>>) \in Path
         /\ FullName(Rebased(q, FullName(<<>>), <<>>)) = q
<1> DEFINE root == FullName(<<>>)
           top == <<>>
           b == Rebased(q, root, top)
<1>1. top \in Seq(Names) /\ root \in Seq(Names) /\ q \in Seq(Names) /\ InTree(root, q)
  BY BelowRoot, FullNameIs DEF Path
<1> HIDE DEF root, top
<1>2. b \in Seq(Names) /\ Rebased(b, top, root) = q
  BY <1>1, RebasedInTree, RebasedBack
<1> HIDE DEF b
<1>3. FullName(b) = Rebased(b, <<>>, FullName(<<>>))
  BY <1>2, FullNameIs DEF Path
<1>4. b \in Path /\ FullName(b) = q
  BY <1>2, <1>3 DEF top, root, Path
<1> QED BY <1>4 DEF b, root, top

\* What callers see is what the server has below the root of the file system.
LEMMA SeenPaths ==
  ASSUME NEW t, DOMAIN t \subseteq Path
  PROVE  /\ DOMAIN Seen(t) \subseteq Path
         /\ \A p \in Path : p \in DOMAIN Seen(t) <=> FullName(p) \in DOMAIN t
         /\ \A p \in DOMAIN Seen(t) : Seen(t)[p] = t[FullName(p)] /\ FullName(p) \in DOMAIN t
<1> DEFINE D == {Rebased(q, FullName(<<>>), <<>>) : q \in {q \in DOMAIN t : InTree(FullName(<<>>), q)}}
<1>1. DOMAIN Seen(t) = D /\ \A p \in D : Seen(t)[p] = t[FullName(p)]
  BY DEF Seen
<1>2. \A p \in D : p \in Path /\ FullName(p) \in DOMAIN t
  BY NameIs
<1>3. ASSUME NEW p \in Path, FullName(p) \in DOMAIN t PROVE p \in D
  BY <1>3, FullNameIs
<1> HIDE DEF D
<1> QED BY <1>1, <1>2, <1>3

\* A file that the file system shows: it is on the server, with its contents.
LEMMA SeenIs ==
  ASSUME IsFine(tree), NEW f \in Files(Seen(tree))
  PROVE  /\ f[1] \in Path /\ FullName(f[1]) \in Path /\ FullName(f[1]) \in DOMAIN tree
         /\ tree[FullName(f[1])] = f[2] /\ f[2] # Dir
<1>1. PICK p \in DOMAIN Seen(tree) : f = <<p, Seen(tree)[p]>> /\ Seen(tree)[p] # Dir
  BY DEF Files
<1>2. p \in Path /\ FullName(p) \in DOMAIN tree /\ Seen(tree)[p] = tree[FullName(p)]
  BY SeenPaths DEF IsFine
<1>3. p \in Path
  BY <1>2
<1>4. FullName(p) \in Path
  BY <1>3, FullNameIs
<1>5. f[1] = p /\ f[2] = Seen(tree)[p]
  BY <1>1
<1> QED BY <1>1, <1>2, <1>3, <1>4, <1>5

\* What an export of n with program p has got: an entry for every file of S in
\* archive A, or a request still to make that leads to it.
Gathering(p, n, S, A) ==
  /\ AllWalk(p)
  /\ \A f \in S : InTree(n, f[1]) => Entry(f, n) \in A \/ Finds(p, f)

\* Every export that has met no fault and has not failed.
Gathers ==
  \A c \in Clients :
    cur[c].op = "Export" /\ faults = 0 /\ ret[c] \in {"none", "ok"} =>
      Gathering(prog[c], cur[c].n, still[c], archive[c])

\* The request in front is done: what it leads to is in the archive, or found by
\* what comes in its place.
LEMMA WalkGoesOn ==
  ASSUME NEW R, NEW r \in R, NEW rest \in Seq(R), NEW s \in Seq(R), NEW n, NEW S, NEW A, NEW B,
         Gathering(<<r>> \o rest, n, S, A), A \subseteq B, AllWalk(s),
         \A f \in S : InTree(n, f[1]) /\ Leads(r, FullName(f[1]), f[2]) =>
                        Entry(f, n) \in B \/ Finds(s, f)
  PROVE  Gathering(Go(s \o rest).prog, n, S, B)
<1>1. AllWalk(<<r>> \o rest) <=> IsWalkRequest(r) /\ AllWalk(rest)
  BY FindsFront
<1>2. \A f : Finds(<<r>> \o rest, f) <=> Leads(r, FullName(f[1]), f[2]) \/ Finds(rest, f)
  BY FindsFront
<1>3. AllWalk(rest)
  BY <1>1 DEF Gathering
<1>4. s \o rest \in Seq(R) /\ AllWalk(s \o rest)
  BY <1>3, FindsBoth
<1>5. \A f : Finds(s, f) \/ Finds(rest, f) => Finds(s \o rest, f)
  BY FindsBoth
<1>6. Go(s \o rest).prog = s \o rest
  BY <1>4, GoWalks
<1>7. ASSUME NEW f \in S, InTree(n, f[1])
      PROVE  Entry(f, n) \in B \/ Finds(s \o rest, f)
  <2>1. Entry(f, n) \in A \/ Finds(<<r>> \o rest, f)
    BY <1>7 DEF Gathering
  <2>2. CASE Entry(f, n) \in A
    BY <2>2
  <2>3. CASE Leads(r, FullName(f[1]), f[2])
    BY <1>5, <1>7, <2>3
  <2>4. CASE Finds(rest, f)
    BY <1>5, <2>4
  <2> QED BY <1>2, <2>1, <2>2, <2>3, <2>4
<1> QED BY <1>4, <1>6, <1>7 DEF Gathering

\* A walk asks for an entry of every directory that leads to a file.
LEMMA EntryLeads ==
  ASSUME IsFine(tree), NEW d \in Path, NEW p \in DOMAIN tree, tree[p] # Dir, Under(d, p)
  PROVE  \E b \in Children(d) : Leads(EntryRequest(b), p, tree[p])
<1> DEFINE k == Len(d) + 1
           b == SubSeq(p, 1, k)
<1>1. p \in Path /\ Len(p) \in Nat /\ Len(d) \in Nat
  BY DEF IsFine, Path
<1>2. Len(d) \in 0..Len(p) - 1 /\ d = SubSeq(p, 1, Len(d))
  BY <1>1, AbovePath
<1>3. k \in 0..Len(p) /\ k = Len(d) + 1
  BY <1>1, <1>2
<1> HIDE DEF k
<1>4. b \in Path /\ Len(b) = k
  BY <1>1, <1>3, Beginning
<1>5. b = p \/ Under(b, p)
  <2>1. InTree(b, p)
    BY <1>1, <1>3, <1>4 DEF InTree
  <2> QED BY <2>1 DEF Under
<1>6. b \in DOMAIN tree /\ (b # p => tree[b] = Dir)
  <2>1. CASE b = p
    BY <2>1
  <2>2. CASE Under(b, p)
    BY <1>4, <2>2, AboveIsDir
  <2> QED BY <1>5, <2>1, <2>2
<1>7. Under(d, b)
  <2>1. InTree(d, p) /\ InTree(b, p) /\ Len(d) <= Len(b)
    BY <1>1, <1>3, <1>4 DEF Under, InTree
  <2>2. InTree(d, b)
    BY <1>1, <1>4, <2>1, InTreeLinear DEF Path
  <2>3. d # b
    BY <1>1, <1>3, <1>4
  <2> QED BY <2>2, <2>3 DEF Under
<1>8. b \in Children(d)
  BY <1>3, <1>4, <1>6, <1>7 DEF Children, ChildrenIn
<1> HIDE DEF b
<1>9. CASE b = p
  <2>1. Kind(b) # "dir"
    BY <1>9, KindIs
  <2>2. EntryRequest(b) = Request("export", "", p, <<>>, tree[p])
    BY <1>9, <2>1 DEF EntryRequest
  <2> DEFINE r == Request("export", "", p, <<>>, tree[p])
  <2>3. r.do = "export" /\ r.n = p /\ r.v = tree[p]
    BY DEF Request
  <2> HIDE DEF r
  <2>4. Leads(r, p, tree[p])
    BY <2>3 DEF Leads
  <2> QED BY <1>8, <2>2, <2>4 DEF r
<1>10. CASE b # p
  <2>1. Kind(b) = "dir"
    BY <1>6, <1>10, KindIs
  <2>2. EntryRequest(b) = Act("list", b)
    BY <2>1 DEF EntryRequest
  <2> DEFINE r == Act("list", b)
  <2>3. r.do = "list" /\ r.n = b /\ Under(b, p)
    BY <1>5, <1>10 DEF Act, Request
  <2> HIDE DEF r
  <2>4. Leads(r, p, tree[p])
    BY <2>3 DEF Leads
  <2> QED BY <1>8, <2>2, <2>4 DEF r
<1> QED BY <1>9, <1>10

\* What a program of one request finds.
LEMMA OneFinds ==
  ASSUME NEW r
  PROVE  /\ AllWalk(<<r>>) <=> IsWalkRequest(r)
         /\ \A f : Finds(<<r>>, f) <=> Leads(r, FullName(f[1]), f[2])
<1>1. DOMAIN <<r>> = {1} /\ <<r>>[1] = r
  OBVIOUS
<1> QED BY <1>1 DEF AllWalk, Finds

\* Nothing has no request.
LEMMA NothingFinds == AllWalk(<<>>) /\ \A f : ~Finds(<<>>, f)
BY DEF AllWalk, Finds

\* What is at hand in a step of an export that goes well.
LEMMA ExportNow ==
  ASSUME Typed, NEW c \in Clients, prog[c] # <<>>,
         NEW S, S \subseteq Files(Seen(tree)), Gathering(prog[c], cur[c].n, S, archive[c])
  PROVE  /\ Head(prog[c]) \in Reqs(calm) /\ Tail(prog[c]) \in Seq(Reqs(calm)) /\ calm \in BOOLEAN
         /\ prog[c] = <<Head(prog[c])>> \o Tail(prog[c])
         /\ IsWalkRequest(Head(prog[c])) /\ AllWalk(Tail(prog[c]))
         /\ Head(prog[c]).n \in Path /\ cur[c].n \in Path
<1> DEFINE r == Head(prog[c])
           rest == Tail(prog[c])
           R == Reqs(calm)
<1>1. r \in R /\ rest \in Seq(R) /\ prog[c] = <<r>> \o rest /\ calm \in BOOLEAN
  BY NextRequest
<1>2. r \in Reqs(FALSE)
  BY NextRequest
<1>3. r.n \in Path
  BY <1>2, RequestTypes DEF Valid
<1>4. cur[c].n \in Path
  BY DEF Typed, CallRecords
<1> HIDE DEF r, rest, R
<1>5. AllWalk(<<r>> \o rest)
  BY <1>1 DEF Gathering
<1>6. IsWalkRequest(r) /\ AllWalk(rest)
  BY <1>1, <1>5, FindsFront
<1> QED BY <1>1, <1>3, <1>4, <1>6 DEF r, rest, R

\* The look with which a walk begins.
LEMMA WalkLooks ==
  ASSUME Typed, NEW c \in Clients, prog[c] # <<>>, Looks(c),
         NEW S, S \subseteq Files(Seen(tree)), Gathering(prog[c], cur[c].n, S, archive[c])
  PROVE  Gathering(prog'[c], cur[c].n, S, archive[c])
<1> DEFINE r == Head(prog[c])
           rest == Tail(prog[c])
           R == Reqs(calm)
           a == Kind(r.n)
<1>1. /\ r \in R /\ rest \in Seq(R) /\ calm \in BOOLEAN /\ prog[c] = <<r>> \o rest
      /\ IsWalkRequest(r) /\ AllWalk(rest) /\ r.n \in Path
  BY ExportNow
<1>2. r.do = "look" /\ r.why = "walk"
  BY <1>1 DEF Looks, Doing, IsWalkRequest
<1>3. Looked(r) = r.n /\ After(r, a, rest) = Walk(r, a, rest)
  BY <1>2 DEF Looked, After
<1>4. prog' = [prog EXCEPT ![c] = Walk(r, a, rest).prog]
  BY <1>3 DEF Looks, Continue
<1>5. prog'[c] = Walk(r, a, rest).prog
  BY <1>4 DEF Typed
<1>6. ASSUME NEW f \in S, Leads(r, FullName(f[1]), f[2])
      PROVE  /\ InTree(r.n, FullName(f[1])) /\ FullName(f[1]) \in DOMAIN tree
             /\ tree[FullName(f[1])] = f[2] /\ f[2] # Dir
  BY <1>2, <1>6, SeenIs DEF Leads, Typed
<1>7. \A p \in DOMAIN tree : Under(r.n, p) => Kind(r.n) = "dir"
  <2>1. ASSUME NEW p \in DOMAIN tree, Under(r.n, p) PROVE Kind(r.n) = "dir"
    <3>1. r.n \in DOMAIN tree /\ tree[r.n] = Dir
      BY <1>1, <2>1, AboveIsDir DEF Typed
    <3> QED BY <3>1, KindIs
  <2> QED BY <2>1
<1>8. CASE a = "dir"
  <2> DEFINE b == Act("list", r.n)
  <2>1. b \in R
    BY <1>1, MadeRequests
  <2>2. b.do = "list" /\ b.n = r.n
    BY DEF Act, Request
  <2>3. Walk(r, a, rest) = Go(<<b>> \o rest)
    BY <1>8 DEF Walk
  <2> HIDE DEF b, R, r, rest
  <2>4. <<b>> \in Seq(R) /\ AllWalk(<<b>>)
    BY <2>1, <2>2, OneFinds DEF IsWalkRequest
  <2>5. ASSUME NEW f \in S, Leads(r, FullName(f[1]), f[2]) PROVE Finds(<<b>>, f)
    <3>1. Under(r.n, FullName(f[1]))
      <4>1. tree[r.n] = Dir
        BY <1>8, KindIs DEF a
      <4> QED BY <1>6, <2>5, <4>1 DEF Under
    <3>2. Leads(b, FullName(f[1]), f[2])
      BY <2>2, <3>1 DEF Leads
    <3> QED BY <3>2, OneFinds
  <2>6. Gathering(Go(<<b>> \o rest).prog, cur[c].n, S, archive[c])
    BY <1>1, <2>4, <2>5, WalkGoesOn
  <2> QED BY <1>5, <2>3, <2>6
<1>9. CASE a = "file"
  <2> DEFINE b == Request("export", "", r.n, <<>>, tree[r.n])
  <2>1. b \in R
    <3>1. r.n \in DOMAIN tree /\ tree[r.n] # Dir
      BY <1>9, KindIs
    <3>2. tree[r.n] \in Contents
      BY <3>1 DEF Typed, IsFine, IsTree, Contents
    <3> QED BY <1>1, <3>2, MadeRequests
  <2>2. b.do = "export" /\ b.n = r.n /\ b.v = tree[r.n]
    BY DEF Request
  <2>3. Walk(r, a, rest) = Go(<<b>> \o rest)
    BY <1>9 DEF Walk
  <2> HIDE DEF b, R, r, rest
  <2>4. <<b>> \in Seq(R) /\ AllWalk(<<b>>)
    BY <2>1, <2>2, OneFinds DEF IsWalkRequest
  <2>5. ASSUME NEW f \in S, Leads(r, FullName(f[1]), f[2]) PROVE Finds(<<b>>, f)
    <3>1. ~Under(r.n, FullName(f[1]))
      BY <1>6, <1>7, <1>9, <2>5
    <3>2. r.n = FullName(f[1])
      BY <1>6, <2>5, <3>1 DEF Under
    <3>3. Leads(b, FullName(f[1]), f[2])
      BY <1>6, <2>2, <2>5, <3>2 DEF Leads
    <3> QED BY <3>3, OneFinds
  <2>6. Gathering(Go(<<b>> \o rest).prog, cur[c].n, S, archive[c])
    BY <1>1, <2>4, <2>5, WalkGoesOn
  <2> QED BY <1>5, <2>3, <2>6
<1>10. CASE a = "missing"
  <2> DEFINE e == <<>>
  <2>1. Walk(r, a, rest) = Go(rest)
    BY <1>10 DEF Walk
  <2>2. e \in Seq(R) /\ AllWalk(e) /\ e \o rest = rest
    BY <1>1, NothingFinds, ConcatEmptySeq
  <2> HIDE DEF e, R, r, rest
  <2>3. ASSUME NEW f \in S, Leads(r, FullName(f[1]), f[2]) PROVE FALSE
    <3>1. r.n # FullName(f[1])
      BY <1>6, <1>10, <2>3, KindIs
    <3>2. Under(r.n, FullName(f[1]))
      BY <1>6, <2>3, <3>1 DEF Under
    <3> QED BY <1>6, <1>7, <1>10, <2>3, <3>2
  <2>4. Gathering(Go(e \o rest).prog, cur[c].n, S, archive[c])
    BY <1>1, <2>2, <2>3, WalkGoesOn
  <2> QED BY <1>5, <2>1, <2>2, <2>4
<1> QED BY <1>8, <1>9, <1>10, KindIs

\* The listing of a directory of a walk.
LEMMA WalkLists ==
  ASSUME Typed, NEW c \in Clients, prog[c] # <<>>, Lists(c),
         NEW S, S \subseteq Files(Seen(tree)), Gathering(prog[c], cur[c].n, S, archive[c])
  PROVE  Gathering(prog'[c], cur[c].n, S, archive[c])
<1> DEFINE r == Head(prog[c])
           rest == Tail(prog[c])
           R == Reqs(calm)
<1>1. /\ r \in R /\ rest \in Seq(R) /\ calm \in BOOLEAN /\ prog[c] = <<r>> \o rest
      /\ IsWalkRequest(r) /\ AllWalk(rest) /\ r.n \in Path
  BY ExportNow
<1>2. r.do = "list"
  BY <1>1 DEF Lists, Doing, IsWalkRequest
<1>3. Continue(c, WalkEntries(r.n, rest))
  BY <1>2 DEF Lists
<1>4. prog'[c] = WalkEntries(r.n, rest).prog
  BY <1>3 DEF Continue, Typed
<1>5. IsFine(tree)
  BY DEF Typed
<1>6. PICK q \in Seq({EntryRequest(p) : p \in Children(r.n)}) :
        /\ \A p \in Children(r.n) : \E i \in DOMAIN q : q[i] = EntryRequest(p)
        /\ q \in Seq(Reqs(calm)) /\ WalkEntries(r.n, rest) = Go(q \o rest)
  BY <1>1, <1>5, WalkEntriesIs
<1>7. q \in Seq(R) /\ WalkEntries(r.n, rest) = Go(q \o rest)
  BY <1>6
<1>8. \A p : IsWalkRequest(EntryRequest(p))
  BY DEF IsWalkRequest, EntryRequest, Act, Request
<1>9. AllWalk(q)
  <2>1. \A i \in DOMAIN q : q[i] \in {EntryRequest(p) : p \in Children(r.n)}
    BY <1>6
  <2>2. ASSUME NEW i \in DOMAIN q PROVE IsWalkRequest(q[i])
    <3>1. PICK p \in Children(r.n) : q[i] = EntryRequest(p)
      BY <2>1
    <3> QED BY <1>8, <3>1
  <2> QED BY <2>2 DEF AllWalk
<1>10. ASSUME NEW f \in S, Leads(r, FullName(f[1]), f[2]) PROVE Finds(q, f)
  <2> DEFINE p == FullName(f[1])
  <2>1. p \in DOMAIN tree /\ tree[p] = f[2] /\ tree[p] # Dir
    BY SeenIs DEF Typed
  <2>2. Under(r.n, p)
    BY <1>2, <1>10 DEF Leads
  <2>3. PICK b \in Children(r.n) : Leads(EntryRequest(b), p, tree[p])
    BY <1>1, <1>5, <2>1, <2>2, EntryLeads
  <2>4. PICK i \in DOMAIN q : q[i] = EntryRequest(b)
    BY <1>6
  <2>5. Leads(q[i], p, f[2])
    BY <2>1, <2>3, <2>4
  <2> QED BY <2>5 DEF Finds
<1> HIDE DEF R, r, rest
<1>11. Gathering(Go(q \o rest).prog, cur[c].n, S, archive[c])
  BY <1>1, <1>7, <1>9, <1>10, WalkGoesOn
<1> QED BY <1>4, <1>7, <1>11

\* A file goes into the archive.
LEMMA WalkExports ==
  ASSUME Typed, NEW c \in Clients, prog[c] # <<>>, Exports(c), ret'[c] \in {"none", "ok"},
         NEW S, S \subseteq Files(Seen(tree)), Gathering(prog[c], cur[c].n, S, archive[c])
  PROVE  Gathering(prog'[c], cur[c].n, S, archive'[c])
<1> DEFINE r == Head(prog[c])
           rest == Tail(prog[c])
           R == Reqs(calm)
           n == cur[c].n
           rel == Rebased(r.n, FullName(n), <<>>)
           now == tree[r.n]
           short == Kind(r.n) # "file" \/ Sizes[now] < Sizes[r.v]
           e == <<rel, IF Sizes[now] = Sizes[r.v] THEN now ELSE Cut>>
           none == <<>>
<1>1. /\ r \in R /\ rest \in Seq(R) /\ calm \in BOOLEAN /\ prog[c] = <<r>> \o rest
      /\ IsWalkRequest(r) /\ AllWalk(rest) /\ r.n \in Path /\ n \in Path
  BY ExportNow
<1>2. r.do = "export"
  BY DEF Exports, Doing
<1>3. ~short
  <2>1. SUFFICES ASSUME short PROVE FALSE
    OBVIOUS
  <2>2. Continue(c, Fail("err", rest))
    BY <2>1 DEF Exports
  <2>3. \A i \in DOMAIN rest : rest[i].do # "catch"
    BY <1>1 DEF AllWalk, IsWalkRequest
  <2>4. Fail("err", rest) = [prog |-> <<>>, ret |-> "err"]
    BY <2>3, FailEnds
  <2>5. ret'[c] = "err"
    BY <2>2, <2>4 DEF Continue, Typed
  <2> QED BY <2>5
<1>4. Continue(c, Go(rest)) /\ archive' = [archive EXCEPT ![c] = @ \cup {e}]
  BY <1>3 DEF Exports
<1>5. prog'[c] = Go(rest).prog /\ archive'[c] = archive[c] \cup {e}
  BY <1>4 DEF Continue, Typed
<1>6. none \in Seq(R) /\ AllWalk(none) /\ none \o rest = rest
  BY <1>1, NothingFinds, ConcatEmptySeq
<1>7. ASSUME NEW f \in S, InTree(n, f[1]), Leads(r, FullName(f[1]), f[2])
      PROVE  Entry(f, n) = e
  <2>1. r.n = FullName(f[1]) /\ r.v = f[2]
    BY <1>2, <1>7 DEF Leads
  <2>2. f[1] \in Path /\ tree[FullName(f[1])] = f[2]
    BY SeenIs DEF Typed
  <2>3. now = f[2] /\ now = r.v
    BY <2>1, <2>2
  <2>4. Rebased(FullName(f[1]), FullName(n), <<>>) = Rebased(f[1], n, <<>>)
    BY <1>1, <1>7, <2>2, SamePlace
  <2>5. rel = Rebased(f[1], n, <<>>)
    BY <2>1, <2>4
  <2> HIDE DEF rel, now, n
  <2> QED BY <2>3, <2>5 DEF Entry
<1> HIDE DEF R, r, rest, e, none, n
<1>8. Gathering(Go(none \o rest).prog, n, S, archive[c] \cup {e})
  <2>1. Gathering(<<r>> \o rest, n, S, archive[c])
    BY <1>1 DEF n
  <2>2. archive[c] \subseteq archive[c] \cup {e}
    OBVIOUS
  <2>3. \A f \in S : InTree(n, f[1]) /\ Leads(r, FullName(f[1]), f[2]) =>
                              Entry(f, n) \in archive[c] \cup {e} \/ Finds(none, f)
    BY <1>7
  <2> QED BY <1>1, <1>6, <2>1, <2>2, <2>3, WalkGoesOn
<1> QED BY <1>5, <1>6, <1>8 DEF n

\* An export begins with a look at its root: whatever is below is to be found.
LEMMA WalkBegins ==
  ASSUME Typed, NEW c \in Clients, NEW n \in Path, NEW to \in Path, NEW v, NEW A
  PROVE  Gathering(Program(c, "Export", FullName(n), to, v).prog, n, Files(Seen(tree)), A)
<1> DEFINE r == Look("walk", FullName(n))
           p == <<r>>
           R == Reqs(TRUE)
<1>1. r \in R
  <2>1. FullName(n) \in Path
    BY FullNameIs
  <2>2. "walk" \in (Whys \ {"", "parent", "entry", "import", "remove"}) \cup Error
    BY DEF Whys
  <2> QED BY <2>1, <2>2, MadeRequests
<1>2. r.do = "look" /\ r.why = "walk" /\ r.n = FullName(n)
  BY DEF Look, Request
<1>3. Program(c, "Export", FullName(n), to, v) = Go(p)
  BY DEF Program
<1> HIDE DEF R, r
<1>4. p \in Seq(R) /\ AllWalk(p)
  BY <1>1, <1>2, OneFinds DEF IsWalkRequest
<1>5. Go(p).prog = p
  BY <1>4, GoWalks
<1>6. ASSUME NEW f \in Files(Seen(tree)), InTree(n, f[1]) PROVE Finds(p, f)
  <2>1. f[1] \in Path
    BY SeenIs DEF Typed
  <2>2. InTree(FullName(n), FullName(f[1]))
    BY <1>6, <2>1, SamePlace
  <2>3. Leads(r, FullName(f[1]), f[2])
    BY <1>2, <2>2 DEF Leads
  <2> QED BY <2>3, OneFinds
<1> QED BY <1>3, <1>4, <1>5, <1>6 DEF Gathering

\* What a step has to show.
LEMMA GathersNextIs ==
  ASSUME UNCHANGED backend
  PROVE  Gathers' <=> \A c \in Clients :
           cur'[c].op = "Export" /\ faults' = 0 /\ ret'[c] \in {"none", "ok"} =>
             Gathering(prog'[c], cur'[c].n, still'[c], archive'[c])
BY DEF Gathers, Gathering, Finds, Leads, FullName, Entry

\* What is no longer still does not have to be found.
LEMMA GatheringShrinks ==
  ASSUME NEW p, NEW n, NEW S, NEW T, NEW A, T \subseteq S, Gathering(p, n, S, A)
  PROVE  Gathering(p, n, T, A)
BY DEF Gathering

\* Files only cease to be still, until another call begins.
LEMMA StillShrinks ==
  ASSUME Typed, [Next]_vars, NEW c \in Clients,
         \A op \in Calls, n \in Paths, to \in Paths : ~Begin(c, op, n, to)
  PROVE  still'[c] \subseteq still[c]
<1>1. still' = still => still'[c] \subseteq still[c]
  OBVIOUS
<1>2. \A t : Becomes(t) => still'[c] \subseteq still[c]
  BY DEF Becomes
<1>3. ASSUME NEW d \in Clients, NEW op \in Calls, NEW n \in Paths, NEW to \in Paths,
             Begin(d, op, n, to)
      PROVE  still'[c] \subseteq still[c]
  <2>1. d # c
    BY <1>3
  <2>2. still' = [still EXCEPT ![d] = IF op = "Export" THEN Files(Seen(tree)) ELSE {}]
    BY <1>3 DEF Begin
  <2> QED BY <2>1, <2>2 DEF Typed
<1>4. ASSUME NEW d \in Clients, Looks(d) \/ Lists(d) \/ IsRefused(d) \/ Exports(d)
      PROVE  still' = still
  BY <1>4 DEF Looks, Lists, IsRefused, Exports, history
<1>5. ASSUME NEW d \in Clients, Does(d) \/ Uploads(d) \/ RequestFails(d)
      PROVE  still' = still \/ \E t : Becomes(t)
  BY <1>5 DEF Does, Uploads, RequestFails
<1>6. CASE Lands
  BY <1>2, <1>6 DEF Lands
<1>7. CASE UNCHANGED vars
  BY <1>1, <1>7 DEF vars, history
<1> QED BY <1>1, <1>2, <1>3, <1>4, <1>5, <1>6, <1>7 DEF Next

\* A request of an export.
LEMMA GathersStep ==
  ASSUME Typed, Gathers, [Next]_vars, faults' = 0, NEW c \in Clients,
         \/ Looks(c) \/ Lists(c) \/ Does(c) \/ IsRefused(c)
         \/ Uploads(c) \/ Exports(c) \/ RequestFails(c),
         cur'[c].op = "Export", ret'[c] \in {"none", "ok"}
  PROVE  Gathering(prog'[c], cur'[c].n, still[c], archive'[c])
<1>1. cur' = cur /\ prog[c] # <<>>
  BY DEF Looks, Lists, Does, IsRefused, Uploads, Exports, RequestFails, Doing
<1>2. faults = 0 /\ ret[c] = "none"
  BY <1>1, FaultsGrow DEF Typed
<1>3. Gathering(prog[c], cur[c].n, still[c], archive[c])
  BY <1>1, <1>2 DEF Gathers
<1>10. still[c] \subseteq Files(Seen(tree))
  BY DEF Typed
<1>4. IsWalkRequest(Head(prog[c]))
  BY <1>1, <1>3, <1>10, ExportNow
<1>5. ~Does(c) /\ ~IsRefused(c) /\ ~Uploads(c)
  BY <1>4 DEF Does, IsRefused, Uploads, Doing, Changes, IsWalkRequest
<1>6. ~RequestFails(c)
  BY <1>2, NamespaceAssumption DEF RequestFails
<1>7. CASE Looks(c)
  <2>1. archive' = archive
    BY <1>7 DEF Looks
  <2>2. Gathering(prog'[c], cur[c].n, still[c], archive[c])
    BY <1>1, <1>3, <1>10, <1>7, WalkLooks
  <2> QED BY <1>1, <2>1, <2>2
<1>8. CASE Lists(c)
  <2>1. archive' = archive
    BY <1>8 DEF Lists
  <2>2. Gathering(prog'[c], cur[c].n, still[c], archive[c])
    BY <1>1, <1>3, <1>10, <1>8, WalkLists
  <2> QED BY <1>1, <2>1, <2>2
<1>9. CASE Exports(c)
  <2>1. Gathering(prog'[c], cur[c].n, still[c], archive'[c])
    BY <1>1, <1>3, <1>10, <1>9, WalkExports
  <2> QED BY <1>1, <2>1
<1> QED BY <1>5, <1>6, <1>7, <1>8, <1>9

\* An export that a step leaves as it is.
LEMMA GathersOn ==
  ASSUME Typed, Gathers, [Next]_vars, faults' = 0, NEW c \in Clients,
         prog'[c] = prog[c], ret'[c] = ret[c], cur'[c] = cur[c], archive'[c] = archive[c],
         still'[c] \subseteq still[c], cur'[c].op = "Export", ret'[c] \in {"none", "ok"}
  PROVE  Gathering(prog'[c], cur'[c].n, still'[c], archive'[c])
<1>1. faults = 0
  BY FaultsGrow
<1>2. Gathering(prog[c], cur[c].n, still[c], archive[c])
  BY <1>1 DEF Gathers
<1> QED BY <1>2, GatheringShrinks

\* Nothing is exported at first.
LEMMA GathersInit == Init => Gathers
BY DEF Init, Gathers

\* Every step leaves every export with its entries, or on the way to them.
LEMMA GathersNext ==
  ASSUME Typed, Gathers, [Next]_vars
  PROVE  Gathers'
<1>1. backend' = backend
  BY BackendStays
<1> DEFINE goal(c) == Gathering(prog'[c], cur'[c].n, still'[c], archive'[c])
<1>2. SUFFICES ASSUME NEW c \in Clients, cur'[c].op = "Export", faults' = 0, ret'[c] \in {"none", "ok"}
               PROVE  goal(c)
  BY <1>1, GathersNextIs
<1>3. ASSUME prog'[c] = prog[c], ret'[c] = ret[c], cur'[c] = cur[c], archive'[c] = archive[c],
             still'[c] \subseteq still[c]
      PROVE  goal(c)
  BY <1>2, <1>3, GathersOn
<1>4. ASSUME NEW op \in Calls, NEW n \in Paths, NEW to \in Paths, Begin(c, op, n, to)
      PROVE  goal(c)
  <2> DEFINE v == Written[calls + 1]
             x == Program(c, op, FullName(n), FullName(to), v)
             call == [op |-> op, n |-> n, to |-> to, v |-> v]
             S == Files(Seen(tree))
  <2>1. /\ cur' = [cur EXCEPT ![c] = call] /\ prog' = [prog EXCEPT ![c] = x.prog]
        /\ still' = [still EXCEPT ![c] = IF op = "Export" THEN S ELSE {}]
    BY <1>4 DEF Begin
  <2>2. call.op = op /\ call.n = n
    OBVIOUS
  <2> HIDE DEF x, call, S
  <2>3. /\ cur'[c] = call /\ prog'[c] = x.prog
        /\ still'[c] = IF op = "Export" THEN S ELSE {}
    BY <2>1 DEF Typed
  <2>4. op = "Export"
    BY <1>2, <2>2, <2>3
  <2>5. n \in Path /\ to \in Path
    BY NamespaceAssumption DEF Path
  <2>6. FullName(to) \in Path
    BY <2>5, FullNameIs
  <2>7. Gathering(Program(c, "Export", FullName(n), FullName(to), v).prog, n, S, archive'[c])
    BY <2>5, <2>6, WalkBegins DEF S
  <2> QED BY <2>2, <2>3, <2>4, <2>7 DEF x
<1>5. ASSUME NEW d \in Clients, d # c, NEW op \in Calls, NEW n \in Paths, NEW to \in Paths,
             Begin(d, op, n, to)
      PROVE  prog'[c] = prog[c] /\ ret'[c] = ret[c] /\ cur'[c] = cur[c] /\ archive'[c] = archive[c]
  BY <1>5 DEF Begin, Typed
<1>6. ASSUME NEW d \in Clients, d # c,
             \/ Looks(d) \/ Lists(d) \/ Does(d) \/ IsRefused(d)
             \/ Uploads(d) \/ Exports(d) \/ RequestFails(d)
      PROVE  prog'[c] = prog[c] /\ ret'[c] = ret[c] /\ cur'[c] = cur[c] /\ archive'[c] = archive[c]
  <2>1. cur' = cur /\ \E x : Continue(d, x)
    BY <1>6 DEF Looks, Lists, Does, IsRefused, Uploads, Exports, RequestFails
  <2>2. archive' = archive \/ \E A : archive' = [archive EXCEPT ![d] = A]
    BY <1>6 DEF Looks, Lists, Does, IsRefused, Uploads, Exports, RequestFails
  <2> QED BY <1>6, <2>1, <2>2 DEF Continue, Typed
<1>7. ASSUME Lands \/ UNCHANGED vars
      PROVE  prog'[c] = prog[c] /\ ret'[c] = ret[c] /\ cur'[c] = cur[c] /\ archive'[c] = archive[c]
  BY <1>7 DEF Lands, vars
<1>8. ASSUME \A op \in Calls, n \in Paths, to \in Paths : ~Begin(c, op, n, to)
      PROVE  still'[c] \subseteq still[c]
  BY <1>8, StillShrinks
<1>9. ASSUME \/ Looks(c) \/ Lists(c) \/ Does(c) \/ IsRefused(c)
             \/ Uploads(c) \/ Exports(c) \/ RequestFails(c),
             still'[c] \subseteq still[c]
      PROVE  goal(c)
  <2>1. Gathering(prog'[c], cur'[c].n, still[c], archive'[c])
    BY <1>2, <1>9, GathersStep
  <2> QED BY <1>9, <2>1, GatheringShrinks
<1>10. CASE \E op \in Calls, n \in Paths, to \in Paths : Begin(c, op, n, to)
  BY <1>4, <1>10
<1>11. CASE \A op \in Calls, n \in Paths, to \in Paths : ~Begin(c, op, n, to)
  <2>1. still'[c] \subseteq still[c]
    BY <1>8, <1>11
  <2>2. ASSUME NEW d \in Clients, NEW op \in Calls, NEW n \in Paths, NEW to \in Paths,
               Begin(d, op, n, to)
        PROVE  goal(c)
    <3>1. d # c
      BY <1>11, <2>2
    <3> HIDE DEF goal
    <3> QED BY <1>3, <1>5, <2>1, <2>2, <3>1
  <2>3. ASSUME NEW d \in Clients,
               \/ Looks(d) \/ Lists(d) \/ Does(d) \/ IsRefused(d)
               \/ Uploads(d) \/ Exports(d) \/ RequestFails(d)
        PROVE  goal(c)
    <3> HIDE DEF goal
    <3> QED BY <1>3, <1>6, <1>9, <2>1, <2>3
  <2>4. CASE Lands \/ UNCHANGED vars
    <3> HIDE DEF goal
    <3> QED BY <1>3, <1>7, <2>1, <2>4
  <2> HIDE DEF goal
  <2> QED BY <2>2, <2>3, <2>4 DEF Next
<1> QED BY <1>10, <1>11

\* An export that returns nil and met no fault has every file nobody touched
\* meanwhile, whole, however the tree around it changed (util.go, walkDir;
\* exporter.go).
THEOREM UntouchedFilesExportedHolds == Spec => []UntouchedFilesExported
<1>1. Init => Typed /\ Gathers
  BY TypedInit, GathersInit
<1>2. Typed /\ Gathers /\ [Next]_vars => (Typed /\ Gathers)'
  <2> SUFFICES ASSUME Typed, Gathers, [Next]_vars PROVE (Typed /\ Gathers)'
    OBVIOUS
  <2>1. Typed'
    BY TypedNext
  <2>2. Gathers'
    BY GathersNext
  <2> QED BY <2>1, <2>2
<1>3. Typed /\ Gathers => UntouchedFilesExported
  <2> SUFFICES ASSUME Typed, Gathers, NEW c \in Clients,
                      ret[c] = "ok", cur[c].op = "Export", faults = 0,
                      NEW f \in still[c], InTree(cur[c].n, f[1])
               PROVE  <<Rebased(f[1], cur[c].n, <<>>), f[2]>> \in archive[c]
    BY DEF UntouchedFilesExported
  <2>1. prog[c] = <<>>
    BY DEF Typed
  <2>2. Gathering(<<>>, cur[c].n, still[c], archive[c])
    BY <2>1 DEF Gathers
  <2>3. Entry(f, cur[c].n) \in archive[c]
    BY <2>2, NothingFinds DEF Gathering
  <2> QED BY <2>3 DEF Entry
<1> QED BY <1>1, <1>2, <1>3, PTL DEF Spec

-----------------------------------------------------------------------------
(* What the file system shows of the server's tree.                        *)

\* Names on the server lie as those in the file system do.
LEMMA NamesAlike ==
  ASSUME NEW n \in Path, NEW p \in Path
  PROVE  /\ FullName(n) \in Path /\ FullName(p) \in Path
         /\ InTree(FullName(n), FullName(p)) <=> InTree(n, p)
         /\ FullName(n) = FullName(p) <=> n = p
         /\ Under(FullName(n), FullName(p)) <=> Under(n, p)
         /\ Len(p) # 0 => FullName(Parent(p)) = Parent(FullName(p)) /\ Parent(p) \in Path
<1> DEFINE L == Len(FullName(<<>>))
           N == FullName(n)
           P == FullName(p)
<1>1. N \in Path /\ P \in Path /\ L \in Nat
  BY FullNameIs DEF Path
<1>2. Len(n) \in Nat /\ Len(p) \in Nat /\ n \in Seq(Names) /\ p \in Seq(Names)
      /\ N \in Seq(Names) /\ P \in Seq(Names)
  BY <1>1 DEF Path
<1>3. /\ Len(N) = L + Len(n) /\ \A i \in 1..L : N[i] = FullName(<<>>)[i]
      /\ \A i \in 1..Len(n) : N[L + i] = n[i]
  BY FullNameElements
<1>4. /\ Len(P) = L + Len(p) /\ \A i \in 1..L : P[i] = FullName(<<>>)[i]
      /\ \A i \in 1..Len(p) : P[L + i] = p[i]
  BY FullNameElements
<1> HIDE DEF L, N, P
<1>5. ASSUME InTree(N, P) PROVE InTree(n, p)
  <2>1. Len(N) <= Len(P) /\ \A i \in 1..Len(N) : P[i] = N[i]
    BY <1>2, <1>5, InTreeElements
  <2>2. ASSUME NEW i \in 1..Len(n) PROVE p[i] = n[i]
    <3>1. L + i \in 1..Len(N) /\ i \in 1..Len(p)
      BY <1>1, <1>2, <1>3, <1>4, <2>1
    <3> QED BY <1>3, <1>4, <2>1, <3>1
  <2>3. Len(n) <= Len(p)
    BY <1>1, <1>2, <1>3, <1>4, <2>1
  <2> QED BY <1>2, <2>2, <2>3, InTreeElements
<1>6. InTree(n, p) => InTree(N, P)
  BY SamePlace DEF N, P
<1>7. N = P <=> n = p
  <2>1. N = P => Rebased(N, FullName(<<>>), <<>>) = Rebased(P, FullName(<<>>), <<>>)
    OBVIOUS
  <2>2. Rebased(N, FullName(<<>>), <<>>) = n /\ Rebased(P, FullName(<<>>), <<>>) = p
    BY FullNameIs DEF N, P
  <2>3. n = p => N = P
    BY DEF N, P
  <2> QED BY <2>1, <2>2, <2>3
<1>8. ASSUME Len(p) # 0 PROVE FullName(Parent(p)) = Parent(P) /\ Parent(p) \in Path
  <2> DEFINE d == Parent(p)
             D == FullName(d)
             Q == Parent(P)
  <2>1. d \in Path /\ Len(d) = Len(p) - 1 /\ \A i \in 1..Len(p) - 1 : d[i] = p[i]
    <3>1. Len(p) \in Nat /\ Len(p) - 1 \in 0..Len(p)
      BY <1>2, <1>8
    <3>2. d = SubSeq(p, 1, Len(p) - 1) /\ p \in Seq(Names)
      BY <1>2 DEF Parent
    <3> DEFINE k == Len(p) - 1
    <3>3. k \in Nat /\ k <= Len(p)
      BY <3>1
    <3> HIDE DEF k
    <3>4. SubSeq(p, 1, k) \in Seq(Names) /\ Len(SubSeq(p, 1, k)) = k
          /\ \A i \in 1..k : SubSeq(p, 1, k)[i] = p[i]
      BY <3>2, <3>3
    <3> QED BY <3>2, <3>4 DEF Path, k
  <2>2. /\ D \in Path /\ Len(D) = L + Len(d) /\ \A i \in 1..L : D[i] = FullName(<<>>)[i]
        /\ \A i \in 1..Len(d) : D[L + i] = d[i]
    BY <2>1, FullNameIs, FullNameElements DEF L
  <2>3. Q \in Seq(Names) /\ Len(Q) = Len(P) - 1 /\ \A i \in 1..Len(P) - 1 : Q[i] = P[i]
    BY <1>1, <1>2, <1>4, <1>8 DEF Parent
  <2> HIDE DEF d, D, Q
  <2>4. Len(D) = Len(Q) /\ Len(Q) = L + (Len(p) - 1)
    BY <1>1, <1>2, <1>4, <2>1, <2>2, <2>3
  <2>5. ASSUME NEW i \in 1..Len(Q) PROVE D[i] = Q[i]
    <3>1. Q[i] = P[i]
      BY <1>1, <1>2, <1>4, <2>3, <2>4
    <3>2. CASE i <= L
      <4>1. i \in 1..L
        BY <1>1, <3>2
      <4> QED BY <1>4, <2>2, <3>1, <4>1
    <3>3. CASE ~(i <= L)
      <4>1. i - L \in 1..Len(p) - 1 /\ i - L \in 1..Len(p) /\ i - L \in 1..Len(d) /\ L + (i - L) = i
        BY <1>1, <1>2, <2>1, <2>4, <3>3
      <4>2. D[L + (i - L)] = d[i - L] /\ P[L + (i - L)] = p[i - L] /\ d[i - L] = p[i - L]
        BY <1>4, <2>1, <2>2, <4>1
      <4> QED BY <3>1, <4>1, <4>2
    <3> QED BY <3>2, <3>3
  <2>6. D = Q
    BY <2>2, <2>3, <2>4, <2>5, SeqEqual DEF Path
  <2> QED BY <2>1, <2>6 DEF D, Q, d
<1>9. Under(N, P) <=> Under(n, p)
  BY <1>5, <1>6, <1>7 DEF Under
<1> QED BY <1>1, <1>5, <1>6, <1>7, <1>8, <1>9 DEF N, P

\* Everything below a name of the file system has one.
LEMMA NameBelow ==
  ASSUME NEW n \in Path, NEW q \in Path, InTree(FullName(n), q)
  PROVE  \E p \in Path : InTree(n, p) /\ FullName(p) = q
<1>1. FullName(<<>>) \in Path /\ FullName(n) \in Path /\ InTree(FullName(<<>>), FullName(n))
  BY FullNameIs
<1>2. InTree(FullName(<<>>), q)
  BY <1>1, InTreeTransitive DEF Path
<1> DEFINE p == Rebased(q, FullName(<<>>), <<>>)
<1>3. p \in Path /\ FullName(p) = q
  BY <1>2, NameIs
<1> HIDE DEF p
<1>4. InTree(n, p)
  BY <1>3, NamesAlike
<1> QED BY <1>3, <1>4

\* So has what something is moved to.
LEMMA RebasedName ==
  ASSUME NEW n \in Path, NEW to \in Path, NEW p \in Path, InTree(n, p)
  PROVE  /\ Rebased(p, n, to) \in Path
         /\ FullName(Rebased(p, n, to)) = Rebased(FullName(p), FullName(n), FullName(to))
<1> DEFINE x == Rebased(p, n, to)
           X == FullName(x)
           N == FullName(n)
           P == FullName(p)
           T == FullName(to)
           Y == Rebased(P, N, T)
           L == Len(FullName(<<>>))
<1>1. N \in Seq(Names) /\ P \in Seq(Names) /\ T \in Seq(Names) /\ InTree(N, P) /\ L \in Nat
  BY FullNameIs, NamesAlike DEF Path
<1>2. n \in Seq(Names) /\ p \in Seq(Names) /\ to \in Seq(Names) /\ Len(n) <= Len(p)
  BY InTreeElements DEF Path
<1>3. x \in Seq(Names) /\ Len(x) = Len(to) + (Len(p) - Len(n))
  BY <1>2, RebasedLen
<1>4. x \in Path
  BY <1>3 DEF Path
<1>5. /\ Len(P) = L + Len(p) /\ \A i \in 1..Len(p) : P[L + i] = p[i]
      /\ Len(N) = L + Len(n)
  BY FullNameElements
<1>6. /\ Len(T) = L + Len(to) /\ \A i \in 1..L : T[i] = FullName(<<>>)[i]
      /\ \A i \in 1..Len(to) : T[L + i] = to[i]
  BY FullNameElements
<1>7. /\ X \in Path /\ Len(X) = L + Len(x) /\ \A i \in 1..L : X[i] = FullName(<<>>)[i]
      /\ \A i \in 1..Len(x) : X[L + i] = x[i]
  BY <1>4, FullNameIs, FullNameElements
<1>8. /\ \A i \in 1..Len(to) : x[i] = to[i]
      /\ \A i \in 1..Len(p) - Len(n) : x[Len(to) + i] = p[Len(n) + i]
  <2>1. \A i \in 1..Len(to) : x[i] = to[i]
    BY <1>2, RebasedElements
  <2>2. \A i \in 1..Len(p) - Len(n) : x[Len(to) + i] = p[Len(n) + i]
    BY <1>2, RebasedElements
  <2> QED BY <2>1, <2>2
<1>9. Y \in Seq(Names) /\ Len(Y) = Len(T) + (Len(P) - Len(N))
  BY <1>1, RebasedLen
<1>10. /\ \A i \in 1..Len(T) : Y[i] = T[i]
       /\ \A i \in 1..Len(P) - Len(N) : Y[Len(T) + i] = P[Len(N) + i]
  <2> HIDE DEF N, P, T
  <2>1. \A i \in 1..Len(T) : Y[i] = T[i]
    BY <1>1, RebasedElements
  <2>2. \A i \in 1..Len(P) - Len(N) : Y[Len(T) + i] = P[Len(N) + i]
    BY <1>1, RebasedElements
  <2> QED BY <2>1, <2>2
<1>11. Len(n) \in Nat /\ Len(p) \in Nat /\ Len(to) \in Nat
  BY <1>2
<1> HIDE DEF x, X, N, P, T, Y, L
<1>12. Len(X) = Len(Y) /\ Len(Y) = L + Len(to) + (Len(p) - Len(n))
  BY <1>1, <1>3, <1>5, <1>6, <1>7, <1>9, <1>11
<1>13. ASSUME NEW i \in 1..Len(Y) PROVE X[i] = Y[i]
  <2>1. CASE i <= L
    <3>1. i \in 1..L /\ i \in 1..Len(T)
      BY <1>1, <1>6, <1>11, <2>1
    <3> QED BY <1>6, <1>7, <1>10, <3>1
  <2>2. CASE ~(i <= L) /\ i <= L + Len(to)
    <3> DEFINE j == i - L
    <3>1. j \in 1..Len(to) /\ j \in 1..Len(x) /\ L + j = i /\ i \in 1..Len(T)
      BY <1>1, <1>2, <1>3, <1>6, <1>11, <2>2
    <3> HIDE DEF j
    <3>2. X[L + j] = x[j] /\ x[j] = to[j] /\ T[L + j] = to[j] /\ Y[i] = T[i]
      BY <1>6, <1>7, <1>8, <1>10, <3>1
    <3> QED BY <3>1, <3>2
  <2>3. CASE ~(i <= L + Len(to))
    <3> DEFINE j == i - (L + Len(to))
    <3>1. /\ j \in 1..Len(p) - Len(n) /\ j \in 1..Len(P) - Len(N) /\ Len(to) + j \in 1..Len(x)
          /\ L + (Len(to) + j) = i /\ Len(T) + j = i /\ Len(n) + j \in 1..Len(p)
          /\ L + (Len(n) + j) = Len(N) + j
      BY <1>1, <1>2, <1>3, <1>5, <1>6, <1>11, <1>12, <2>3
    <3> HIDE DEF j
    <3>2. X[L + (Len(to) + j)] = x[Len(to) + j] /\ x[Len(to) + j] = p[Len(n) + j]
      BY <1>7, <1>8, <3>1
    <3>3. P[L + (Len(n) + j)] = p[Len(n) + j] /\ Y[Len(T) + j] = P[Len(N) + j]
      BY <1>5, <1>10, <3>1
    <3> QED BY <3>1, <3>2, <3>3
  <2> QED BY <2>1, <2>2, <2>3
<1>14. X = Y
  BY <1>7, <1>9, <1>12, <1>13, SeqEqual DEF Path
<1> QED BY <1>4, <1>14 DEF x, X, Y, N, P, T

\* What is at a path, in the file system and on the server.
LEMMA SeenKind ==
  ASSUME NEW t, DOMAIN t \subseteq Path, NEW p \in Path
  PROVE  KindIn(Seen(t), p) = KindIn(t, FullName(p))
BY SeenPaths DEF KindIn

\* To show what the file system shows.
LEMMA SeenEquals ==
  ASSUME NEW t, DOMAIN t \subseteq Path, NEW u, u = [p \in DOMAIN u |-> u[p]],
         DOMAIN u \subseteq Path,
         \A p \in Path : p \in DOMAIN u <=> FullName(p) \in DOMAIN t,
         \A p \in DOMAIN u : u[p] = t[FullName(p)]
  PROVE  Seen(t) = u
<1>1. Seen(t) = [p \in DOMAIN Seen(t) |-> Seen(t)[p]]
  BY DEF Seen
<1>2. DOMAIN Seen(t) = DOMAIN u
  BY SeenPaths
<1>3. \A p \in DOMAIN u : Seen(t)[p] = u[p]
  BY <1>2, SeenPaths
<1> QED BY <1>1, <1>2, <1>3

\* What is put somewhere.
LEMMA SeenPlaced ==
  ASSUME NEW t, DOMAIN t \subseteq Path, NEW n \in Path, NEW v
  PROVE  Seen(Placed(t, FullName(n), v)) = Placed(Seen(t), n, v)
<1> DEFINE b == Placed(t, FullName(n), v)
           u == Placed(Seen(t), n, v)
<1>1. /\ DOMAIN b = DOMAIN t \cup {FullName(n)}
      /\ \A q \in DOMAIN b : b[q] = IF q = FullName(n) THEN v ELSE t[q]
  BY DEF Placed
<1>2. /\ DOMAIN u = DOMAIN Seen(t) \cup {n} /\ u = [p \in DOMAIN u |-> u[p]]
      /\ \A p \in DOMAIN u : u[p] = IF p = n THEN v ELSE Seen(t)[p]
  BY DEF Placed
<1> HIDE DEF b, u
<1>3. \A p \in Path : FullName(p) \in Path /\ (FullName(p) = FullName(n) <=> p = n)
  BY NamesAlike
<1>4. DOMAIN b \subseteq Path
  BY <1>1, <1>3
<1>5. DOMAIN u \subseteq Path
  BY <1>2, SeenPaths
<1>6. \A p \in Path : p \in DOMAIN u <=> FullName(p) \in DOMAIN b
  BY <1>1, <1>2, <1>3, SeenPaths
<1>7. \A p \in DOMAIN u : u[p] = b[FullName(p)]
  BY <1>1, <1>2, <1>3, <1>5, <1>6, SeenPaths
<1>8. Seen(b) = u
  BY <1>2, <1>4, <1>5, <1>6, <1>7, SeenEquals
<1> QED BY <1>8 DEF b, u

\* What is left when a tree is removed.
LEMMA SeenWithout ==
  ASSUME NEW t, DOMAIN t \subseteq Path, NEW n \in Path
  PROVE  Seen(WithoutTree(t, FullName(n))) = WithoutTree(Seen(t), n)
<1> DEFINE b == WithoutTree(t, FullName(n))
           u == WithoutTree(Seen(t), n)
<1>1. /\ DOMAIN b = {p \in DOMAIN t : ~InTree(FullName(n), p)}
      /\ \A q \in DOMAIN b : b[q] = t[q]
  BY DEF WithoutTree
<1>2. /\ DOMAIN u = {p \in DOMAIN Seen(t) : ~InTree(n, p)} /\ u = [p \in DOMAIN u |-> u[p]]
      /\ \A p \in DOMAIN u : u[p] = Seen(t)[p]
  BY DEF WithoutTree
<1> HIDE DEF b, u
<1>3. \A p \in Path : InTree(FullName(n), FullName(p)) <=> InTree(n, p)
  BY NamesAlike
<1>4. DOMAIN b \subseteq Path /\ DOMAIN u \subseteq Path
  BY <1>1, <1>2, SeenPaths
<1>5. \A p \in Path : p \in DOMAIN u <=> FullName(p) \in DOMAIN b
  BY <1>1, <1>2, <1>3, SeenPaths
<1>6. \A p \in DOMAIN u : u[p] = b[FullName(p)]
  BY <1>1, <1>2, <1>4, <1>5, SeenPaths
<1>7. Seen(b) = u
  BY <1>2, <1>4, <1>5, <1>6, SeenEquals
<1> QED BY <1>7 DEF b, u

\* What is left and what has come when a tree is moved.
LEMMA SeenMoved ==
  ASSUME NEW t, DOMAIN t \subseteq Path, NEW n \in Path, NEW to \in Path
  PROVE  Seen(MovedTree(t, FullName(n), FullName(to))) = MovedTree(Seen(t), n, to)
<1> DEFINE N == FullName(n)
           M == FullName(to)
           b == MovedTree(t, N, M)
           s == Seen(t)
           u == MovedTree(s, n, to)
           Came(q) == \E p \in DOMAIN t : InTree(N, p) /\ q = Rebased(p, N, M)
           came(q) == \E p \in DOMAIN s : InTree(n, p) /\ q = Rebased(p, n, to)
<1>1. N \in Path /\ M \in Path
  BY FullNameIs
<1>2. /\ \A q : q \in DOMAIN b <=> Came(q) \/ (q \in DOMAIN t /\ ~InTree(N, q))
      /\ \A q \in DOMAIN b : b[q] = IF Came(q) THEN t[Rebased(q, M, N)] ELSE t[q]
  BY DEF MovedTree
<1>3. /\ \A q : q \in DOMAIN u <=> came(q) \/ (q \in DOMAIN s /\ ~InTree(n, q))
      /\ \A q \in DOMAIN u : u[q] = IF came(q) THEN s[Rebased(q, to, n)] ELSE s[q]
  BY DEF MovedTree
<1>4. u = [p \in DOMAIN u |-> u[p]]
  BY DEF MovedTree
<1>5. /\ DOMAIN s \subseteq Path
      /\ \A p \in Path : p \in DOMAIN s <=> FullName(p) \in DOMAIN t
      /\ \A p \in DOMAIN s : s[p] = t[FullName(p)] /\ FullName(p) \in DOMAIN t
  BY SeenPaths
<1> HIDE DEF b, u, s
<1>6. \A p \in Path : FullName(p) \in Path /\ (InTree(N, FullName(p)) <=> InTree(n, p))
  BY NamesAlike
<1>7. \A p \in Path : InTree(n, p) =>
        Rebased(p, n, to) \in Path /\ FullName(Rebased(p, n, to)) = Rebased(FullName(p), N, M)
  BY RebasedName
<1>8. \A p \in Path : InTree(to, p) =>
        Rebased(p, to, n) \in Path /\ FullName(Rebased(p, to, n)) = Rebased(FullName(p), M, N)
  BY RebasedName
<1>9. \A p \in Path : InTree(n, p) =>
        InTree(to, Rebased(p, n, to)) /\ Rebased(Rebased(p, n, to), to, n) = p
  BY RebasedInTree, RebasedBack DEF Path
<1>10. \A p \in Path, q \in Path : FullName(p) = FullName(q) <=> p = q
  BY NamesAlike
<1>11. \A q \in Path : InTree(N, q) => \E p \in Path : InTree(n, p) /\ FullName(p) = q
  BY NameBelow
<1>12. \A q \in Path : InTree(N, q) => Rebased(q, N, M) \in Path
  BY <1>1, RebasedInTree DEF Path
<1> HIDE DEF N, M
<1>13. ASSUME NEW p \in Path PROVE came(p) <=> Came(FullName(p))
  <2>1. ASSUME came(p) PROVE Came(FullName(p))
    BY <1>5, <1>6, <1>7, <2>1
  <2>2. ASSUME Came(FullName(p)) PROVE came(p)
    <3>1. PICK q \in DOMAIN t : InTree(N, q) /\ FullName(p) = Rebased(q, N, M)
      BY <2>2
    <3>2. PICK x \in Path : InTree(n, x) /\ FullName(x) = q
      BY <1>11, <3>1
    <3>3. Rebased(x, n, to) \in Path /\ FullName(Rebased(x, n, to)) = FullName(p)
      BY <1>7, <3>1, <3>2
    <3>4. p = Rebased(x, n, to)
      BY <1>10, <3>3
    <3> QED BY <1>5, <3>2, <3>4
  <2> QED BY <2>1, <2>2
<1>14. DOMAIN b \subseteq Path
  BY <1>2, <1>12
<1>15. DOMAIN u \subseteq Path
  BY <1>3, <1>5, <1>7
<1>16. \A p \in Path : p \in DOMAIN u <=> FullName(p) \in DOMAIN b
  BY <1>2, <1>3, <1>5, <1>6, <1>13
<1>17. \A p \in DOMAIN u : u[p] = b[FullName(p)]
  <2> SUFFICES ASSUME NEW p \in DOMAIN u PROVE u[p] = b[FullName(p)]
    OBVIOUS
  <2>1. p \in Path /\ FullName(p) \in DOMAIN b
    BY <1>15, <1>16
  <2>2. CASE came(p)
    <3>1. PICK x \in DOMAIN s : InTree(n, x) /\ p = Rebased(x, n, to)
      BY <2>2
    <3>2. x \in Path /\ InTree(to, p) /\ Rebased(p, to, n) = x
      BY <1>5, <1>9, <3>1
    <3>3. u[p] = s[x]
      BY <1>3, <2>2, <3>2
    <3>4. b[FullName(p)] = t[Rebased(FullName(p), M, N)]
      BY <1>2, <1>13, <2>1, <2>2
    <3>5. Rebased(FullName(p), M, N) = FullName(x)
      BY <1>8, <2>1, <3>2
    <3> QED BY <1>5, <3>1, <3>3, <3>4, <3>5
  <2>3. CASE ~came(p)
    <3>1. u[p] = s[p] /\ p \in DOMAIN s
      BY <1>3, <2>3
    <3>2. b[FullName(p)] = t[FullName(p)]
      BY <1>2, <1>13, <2>1, <2>3
    <3> QED BY <1>5, <3>1, <3>2
  <2> QED BY <2>2, <2>3
<1> HIDE DEF Came, came
<1>18. Seen(b) = u
  BY <1>4, <1>14, <1>15, <1>16, <1>17, SeenEquals
<1> QED BY <1>18 DEF b, u, s, N, M

-----------------------------------------------------------------------------
(* A call that meets no other call and no fault: what it has done, and what *)
(* it has still to do.                                                     *)

\* A Mkdir of N in tree t that has program p left, in tree b.
Making(t, b, N, p) ==
  /\ KindIn(t, N) = "missing" => KindIn(t, Parent(N)) # "file"
  /\ \/ b = t /\ p = <<Look("mkdir", N)>>
     \/ /\ KindIn(t, N) = "missing" /\ b = t
        /\ \/ backend = "ftp" /\ p = <<Act("mkdir", N)>>
           \/ p \in {<<Look("opendir", N)>>, <<Look("mkparent", N)>>}
     \/ /\ KindIn(t, N) = "missing" /\ KindIn(t, Parent(N)) = "dir"
        /\ \/ b = t /\ p = <<Act("mkdir", N), Look("made", N)>>
           \/ b = Placed(t, N, Dir) /\ p = <<Look("made", N)>>

\* A Create of N with contents v: the upload may be on its way when it returns.
Creating(t, b, fl, N, v, x) ==
  /\ N # <<>> /\ KindIn(t, N) # "dir" /\ KindIn(t, Parent(N)) # "file" /\ b = t
  /\ \/ fl = {} /\ x.prog = <<Request("look", "parent", N, <<>>, v)>>
     \/ /\ KindIn(t, Parent(N)) = "dir"
        /\ \/ fl = {} /\ x.prog \in {<<Request("look", "entry", N, <<>>, v)>>, <<Put(N, v)>>}
           \/ fl = {<<N, v>>} /\ x.prog = <<>> /\ x.ret = "ok"

\* Tree b is t with some of the directories above and at m made, and no file is
\* in the way if there are any.
Grown(t, b, m) ==
  /\ \A p \in DOMAIN t : p \in DOMAIN b /\ b[p] = t[p]
  /\ \A p \in DOMAIN b : p \in DOMAIN t \/ (InTree(p, m) /\ b[p] = Dir)
  /\ b = t \/ \A p \in DOMAIN t : InTree(p, m) => t[p] = Dir

\* What a request of a removal removes.
Takes(r, k) == (r.do \in {"dele", "rmd"} /\ k = r.n) \/ (r.do = "rmlist" /\ InTree(r.n, k))

\* A removal of N: what is left in b is taken once, directories when empty.
Emptying(t, b, N, p) ==
  /\ \A k \in DOMAIN b : k \in DOMAIN t /\ b[k] = t[k]
  /\ \A k \in DOMAIN t : k \in DOMAIN b <=> ~InTree(N, k) \/ \E i \in DOMAIN p : Takes(p[i], k)
  /\ \A i \in DOMAIN p :
       /\ InTree(N, p[i].n) /\ p[i].do \in {"dele", "rmd", "rmlist"}
       /\ KindIn(b, p[i].n) = IF p[i].do = "dele" THEN "file" ELSE "dir"
       /\ \A k \in DOMAIN b : p[i].do = "rmd" /\ Under(p[i].n, k) =>
            \E j \in DOMAIN p : j < i /\ Takes(p[j], k)
  /\ \A k \in DOMAIN b : \A i, j \in DOMAIN p : Takes(p[i], k) /\ Takes(p[j], k) => i = j

Removing(t, b, N, p) ==
  /\ N # <<>>
  /\ \/ b = t /\ backend = "webdav" /\ p = <<Act("delete", N)>>
     \/ b = t /\ p = <<Look("remove", N)>>
     \/ Emptying(t, b, N, p)

\* A move of n to another path.
Moving(t, b, n, to, p) ==
  LET N == FullName(n) M == FullName(to) IN
  /\ b = t /\ to # <<>> /\ n # to /\ (backend = "ftp" => KindIn(t, M) = "missing")
  /\ p = <<Request("move", "", N, M, 0)>>

\* A request of an export of N: for something below N, and for a file as it is.
Seeks(t, N, r) ==
  /\ InTree(N, r.n)
  /\ r.do = "export" => r.n \in DOMAIN t /\ t[r.n] = r.v /\ r.v # Dir

\* An export of n: every file is in the archive or is still to be found, and what
\* is in the archive or to be put into it is one of the files.
Exporting(t, b, n, p, a) ==
  /\ b = t /\ Gathering(p, n, Files(Seen(t)), a) /\ a \subseteq Exported(Seen(t), n)
  /\ \A i \in DOMAIN p : Seeks(t, FullName(n), p[i])

\* What an import of archive a to n has to store, and whether there is room for it.
Stores(n, a) == {<<FullName(n) \o e[1], e[2]>> : e \in a}
Room(t, N, W) ==
  /\ \A w \in W : Under(N, w[1]) /\ KindIn(t, w[1]) # "dir"
  /\ \A w \in W, u \in W : w = u \/ ~InTree(w[1], u[1])
  /\ \A p \in DOMAIN t : InTree(p, N) \/ (\E w \in W : Under(p, w[1])) => t[p] = Dir

\* A request that leads to an upload.
Brings(r, w) ==
  /\ r.n = w[1] /\ r.v = w[2]
  /\ r.do = "put" \/ (r.do = "look" /\ r.why \in {"parent", "entry", "import"})

\* Requests that lead to uploads of what is in W and neither stored nor on its way,
\* in tree b, where all in D are directories, or will be.
Uploading(b, fl, D, W, p) ==
  /\ \A i \in DOMAIN p : \E w \in W :
       /\ Brings(p[i], w)
       /\ \/ p[i].do = "look" /\ p[i].why = "import"
          \/ Parent(w[1]) \in D
          \/ KindIn(b, Parent(w[1])) = "dir"
  /\ \A w \in W : \/ w[1] \in DOMAIN b /\ b[w[1]] = w[2]
                  \/ w \in fl
                  \/ \E i \in DOMAIN p : Brings(p[i], w)

\* The directories that an import to N makes.
Needed(N, W) == {N} \cup {Parent(w[1]) : w \in W}

\* An import of W to N: uploads, behind those of a MkdirAll or not.
Importing(b, fl, N, W, p) ==
  /\ KindIn(b, FullName(<<>>)) = "dir" /\ Room(b, N, W)
  /\ \A w \in fl : w \in W /\ KindIn(b, Parent(w[1])) = "dir"
  /\ \E q, u \in Seq(Reqs(FALSE)) :
       /\ p = q \o u
       /\ \/ q = <<>> /\ Uploading(b, fl, {}, W, u)
          \/ \E m \in Needed(N, W) : \E k \in Len(FullName(<<>>))..Len(m) :
               /\ Uploading(b, fl, {m}, W, u)
               /\ GoingAt(q, SubSeq(m, 1, k), Chain(m, k), b, TRUE, TRUE)

Underway(t, b, fl, call, x, a) ==
  LET N == FullName(call.n) p == x.prog W == Stores(call.n, a) IN
  CASE call.op = "Mkdir" -> fl = {} /\ Making(t, b, N, p)
    [] call.op = "Create" -> Creating(t, b, fl, N, call.v, x)
    [] call.op = "MkdirAll" -> fl = {} /\ Grown(t, b, N)
         /\ \E k \in Len(FullName(<<>>))..Len(N) : GoingAt(p, SubSeq(N, 1, k), Chain(N, k), b, TRUE, TRUE)
    [] call.op = "RemoveAll" -> fl = {} /\ Removing(t, b, N, p)
    [] call.op = "Rename" -> fl = {} /\ Moving(t, b, call.n, call.to, p)
    [] call.op = "Export" -> fl = {} /\ Exporting(t, b, call.n, p, a)
    [] call.op = "Import" -> Room(t, N, W) => Importing(b, fl, N, W, p) /\ (p = <<>> => x.ret = "ok")
    [] OTHER -> FALSE

Goes(t, b, fl, call, x, a) ==
  IF x.prog = <<>> /\ fl = {} THEN Keeps(call, Seen(t), x.ret, Seen(b), a)
  ELSE Underway(t, b, fl, call, x, a)

\* The call that is alone, in every state.
LoneInv ==
  \A c \in alone :
    /\ \A d \in Clients \ {c} : prog[d] = <<>>
    /\ IsFine(before)
    /\ \A t, b, fl, call, x, a :
         /\ t = before /\ b = tree /\ fl = flight /\ call = cur[c] /\ a = archive[c]
         /\ x = [prog |-> prog[c], ret |-> ret[c]] /\ KindIn(Seen(t), <<>>) = "dir"
         => Goes(t, b, fl, call, x, a)

\* What a client's step makes of its call.
Onward(c) == [prog |-> prog'[c], ret |-> ret'[c]]
Turn(c) == Looks(c) \/ Lists(c) \/ Does(c) \/ IsRefused(c) \/ Uploads(c) \/ Exports(c)

\* A client goes on as y says.
On(c, y) == prog'[c] = y.prog /\ ret'[c] = y.ret
Same == tree' = tree /\ flight' = flight

\* The request in front decides what a client's step is.
LEMMA TurnFrame ==
  ASSUME Typed, NEW c \in Clients, Turn(c)
  PROVE  /\ prog[c] # <<>> /\ \A d \in Clients \ {c} : prog'[d] = prog[d]
         /\ UNCHANGED <<backend, cur, alone, before>>
<1>1. prog \in [Clients -> Seq(Reqs(calm))]
  BY DEF Typed
<1>2. \A x : Continue(c, x) => \A d \in Clients \ {c} : prog'[d] = prog[d]
  BY <1>1 DEF Continue
<1>3. CASE Looks(c)
  BY <1>2, <1>3 DEF Looks, Doing, history
<1>4. CASE Lists(c)
  BY <1>2, <1>4 DEF Lists, Doing, history
<1>5. CASE Does(c)
  BY <1>2, <1>5 DEF Does, Doing
<1>6. CASE IsRefused(c)
  BY <1>2, <1>6 DEF IsRefused, Doing, history
<1>7. CASE Uploads(c)
  BY <1>2, <1>7 DEF Uploads, Doing
<1>8. CASE Exports(c)
  <2>1. \A d \in Clients \ {c} : prog'[d] = prog[d]
    BY <1>2, <1>8 DEF Exports
  <2> QED BY <1>8, <2>1 DEF Exports, Doing, history
<1> QED BY <1>3, <1>4, <1>5, <1>6, <1>7, <1>8 DEF Turn

\* The kinds of requests, step by step.
LEMMA TurnIs ==
  ASSUME Typed, NEW c \in Clients, Turn(c)
  PROVE  LET r == Head(prog[c]) rest == Tail(prog[c]) IN
         /\ r.do \in {"look", "list", "rmlist", "put", "export"} \cup Changes
         /\ r.do = "look" =>
              Same /\ archive' = archive /\ On(c, After(r, KindIn(tree, Looked(r)), rest))
         /\ r.do = "list" => Same /\ archive' = archive /\ On(c, WalkEntries(r.n, rest))
         /\ r.do = "rmlist" => Same /\ archive' = archive /\ Lists(c)
         /\ r.do \in Changes =>
              /\ archive' = archive /\ flight' = flight
              /\ \/ Possible(r) /\ tree' = Effect(r) /\ On(c, Go(rest))
                 \/ /\ ~Possible(r) /\ tree' = tree
                    /\ On(c, IF r.do \in {"delete", "dele", "rmd"} THEN Go(<<>>)
                             ELSE Fail(Refused, rest))
         /\ r.do = "put" =>
              /\ archive' = archive
              /\ \/ ~Possible(r)
                 \/ /\ On(c, Go(rest))
                    /\ IF backend = "webdav" THEN flight' = flight \cup {<<r.n, r.v>>} /\ tree' = tree
                       ELSE flight' = flight /\ tree' = Effect(r)
         /\ r.do = "export" => Same /\ Exports(c)
<1> DEFINE r == Head(prog[c])
           rest == Tail(prog[c])
<1>1. prog \in [Clients -> Seq(Reqs(calm))] /\ ret \in [Clients -> Results]
  BY DEF Typed
<1>2. \A x : Continue(c, x) => On(c, x)
  BY <1>1 DEF Continue, On
<1>3. CASE Looks(c)
  <2>1. r.do = "look" /\ Same /\ archive' = archive
    BY <1>3 DEF Looks, Doing, Same
  <2>2. On(c, After(r, KindIn(tree, Looked(r)), rest))
    BY <1>2, <1>3 DEF Looks, Kind
  <2> QED BY <2>1, <2>2 DEF Changes
<1>4. CASE Lists(c)
  <2>1. r.do \in {"list", "rmlist"} /\ Same /\ archive' = archive
    BY <1>4 DEF Lists, Doing, Same
  <2>2. r.do = "list" => On(c, WalkEntries(r.n, rest))
    BY <1>2, <1>4 DEF Lists
  <2> QED BY <1>4, <2>1, <2>2 DEF Changes
<1>5. CASE Does(c)
  <2>1. r.do \in Changes /\ Possible(r) /\ tree' = Effect(r) /\ flight' = flight /\ archive' = archive
    BY <1>5 DEF Does, Doing, Becomes
  <2>2. On(c, Go(rest))
    BY <1>2, <1>5 DEF Does
  <2> QED BY <2>1, <2>2 DEF Changes
<1>6. CASE IsRefused(c)
  <2>1. r.do \in Changes /\ ~Possible(r) /\ tree' = tree /\ flight' = flight /\ archive' = archive
    BY <1>6 DEF IsRefused, Doing
  <2>2. On(c, IF r.do \in {"delete", "dele", "rmd"} THEN Go(<<>>) ELSE Fail(Refused, rest))
    BY <1>2, <1>6 DEF IsRefused
  <2> QED BY <2>1, <2>2 DEF Changes
<1>7. CASE Uploads(c)
  <2>1. r.do = "put" /\ archive' = archive
    BY <1>7 DEF Uploads, Doing
  <2>2. ASSUME Possible(r)
        PROVE  /\ Continue(c, Go(rest))
               /\ IF backend = "webdav" THEN flight' = flight \cup {<<r.n, r.v>>} /\ tree' = tree
                  ELSE flight' = flight /\ tree' = Effect(r)
    BY <1>7, <2>2 DEF Uploads, Becomes
  <2>3. Possible(r) => On(c, Go(rest))
    BY <1>2, <2>2
  <2> QED BY <2>1, <2>2, <2>3 DEF Changes
<1>8. CASE Exports(c)
  <2>1. r.do = "export" /\ Same
    BY <1>8 DEF Exports, Doing, Same
  <2> QED BY <1>8, <2>1 DEF Changes
<1> QED BY <1>3, <1>4, <1>5, <1>6, <1>7, <1>8 DEF Turn

\* A program of one request, or of two.
LEMMA FewRequests ==
  ASSUME NEW r, NEW q, r.do # "catch"
  PROVE  /\ Go(<<r>>) = [prog |-> <<r>>, ret |-> "none"]
         /\ Go(<<r, q>>) = [prog |-> <<r, q>>, ret |-> "none"]
         /\ <<r>> # <<>> /\ Head(<<r>>) = r /\ Tail(<<r>>) = <<>> /\ <<r>> \o <<>> = <<r>>
         /\ <<r, q>> # <<>> /\ Head(<<r, q>>) = r /\ Tail(<<r, q>>) = <<q>>
         /\ <<r, q>> \o <<>> = <<r, q>>
<1> DEFINE R == {r, q}
<1>1. <<>> \in Seq(R) /\ <<q>> \in Seq(R) /\ <<r>> \in Seq(R) /\ r \in R /\ q \in R
  OBVIOUS
<1>2. <<r>> \o <<>> = <<r>> /\ <<q>> \o <<>> = <<q>>
  BY <1>1, ConcatEmptySeq
<1>3. <<r, q>> \in Seq(R)
  OBVIOUS
<1>4. <<r, q>> \o <<>> = <<r, q>>
  BY <1>3, ConcatEmptySeq
<1>5. <<r, q>> \o <<>> = <<r>> \o (<<q>> \o <<>>)
  <2> HIDE DEF R
  <2>1. \A s \in Seq(R) : <<r, q>> \o s = <<r>> \o (<<q>> \o s)
    BY <1>1, TwoInFront
  <2> QED BY <1>1, <2>1
<1>6. <<r>> \o <<q>> = <<r, q>>
  BY <1>2, <1>4, <1>5
<1>7. Go(<<r>> \o <<>>) = [prog |-> <<r>> \o <<>>, ret |-> "none"]
  BY <1>1, GoOn
<1>8. Go(<<r>> \o <<q>>) = [prog |-> <<r>> \o <<q>>, ret |-> "none"]
  BY <1>1, GoOn
<1>9. /\ <<r>> # <<>> /\ Head(<<r>>) = r /\ Tail(<<r>>) = <<>>
      /\ <<r, q>> # <<>> /\ Head(<<r, q>>) = r /\ Tail(<<r, q>>) = <<q>>
  OBVIOUS
<1> QED BY <1>2, <1>4, <1>6, <1>7, <1>8, <1>9

\* An error without anything left to do.
LEMMA FailsNow ==
  ASSUME NEW e
  PROVE  Fail(e, <<>>) = [prog |-> <<>>, ret |-> e] /\ <<>> \o <<>> = <<>>
<1>1. \A i \in DOMAIN <<>> : <<>>[i].do # "catch"
  OBVIOUS
<1>2. Fail(e, <<>>) = [prog |-> <<>>, ret |-> e]
  BY <1>1, FailEnds
<1> QED BY <1>2

\* The requests of a program by name.
LEMMA RequestsAre ==
  ASSUME NEW do, NEW why, NEW n, NEW to, NEW v
  PROVE  LET r == Request(do, why, n, to, v) IN
         r.do = do /\ r.why = why /\ r.n = n /\ r.to = to /\ r.v = v
BY DEF Request

\* A call that is over, and one that is not.
LEMMA GoesIs ==
  ASSUME NEW t, NEW b, NEW fl, NEW call, NEW a, NEW c, NEW y, On(c, y)
  PROVE  /\ y.prog = <<>> /\ fl = {} =>
              (Keeps(call, Seen(t), y.ret, Seen(b), a) => Goes(t, b, fl, call, Onward(c), a))
         /\ y.prog # <<>> =>
              (Underway(t, b, fl, call, [prog |-> y.prog, ret |-> y.ret], a)
                 => Goes(t, b, fl, call, Onward(c), a))
BY DEF Goes, On, Onward

-----------------------------------------------------------------------------
(* Mkdir and Create alone.                                                 *)

\* What Mkdir is to do, seen from the server.
LEMMA MkdirKeeps ==
  ASSUME NEW t, IsFine(t), KindIn(Seen(t), <<>>) = "dir", NEW call, call.op = "Mkdir",
         call.n \in Path, NEW a
  PROVE  LET N == FullName(call.n) parent == KindIn(t, Parent(FullName(call.n))) IN
         /\ N \in Path /\ (KindIn(t, N) = "missing" => N # <<>>)
         /\ KindIn(t, N) # "missing" => Keeps(call, Seen(t), "errExist", Seen(t), a)
         /\ KindIn(t, N) = "missing" /\ parent = "missing" =>
              Keeps(call, Seen(t), "errNotExist", Seen(t), a)
         /\ KindIn(t, N) = "missing" /\ parent # "missing" =>
              Keeps(call, Seen(t), "ok", Seen(Placed(t, N, Dir)), a)
<1> DEFINE n == call.n
           N == FullName(n)
           s == Seen(t)
           u == Seen(Placed(t, N, Dir))
<1>1. DOMAIN t \subseteq Path /\ <<>> \in DOMAIN t
  BY DEF IsFine, IsTree
<1>2. N \in Path /\ (KindIn(t, N) = "missing" => N # <<>>)
  BY <1>1, FullNameIs DEF KindIn
<1>3. KindIn(s, n) = KindIn(t, N) /\ u = Placed(s, n, Dir)
  BY <1>1, SeenKind, SeenPlaced
<1>4. KindIn(t, N) = "missing" => KindIn(s, Parent(n)) = KindIn(t, Parent(N))
  <2> SUFFICES ASSUME KindIn(t, N) = "missing" PROVE KindIn(s, Parent(n)) = KindIn(t, Parent(N))
    OBVIOUS
  <2>1. n # <<>>
    BY <1>3
  <2>2. Len(n) # 0
    BY <2>1, EmptySeq DEF Path
  <2>3. Parent(n) \in Path /\ FullName(Parent(n)) = Parent(N)
    BY <2>2, NamesAlike
  <2> QED BY <1>1, <2>3, SeenKind
<1> HIDE DEF s, u, N
<1>5. KindIn(s, n) # "missing" => Keeps(call, s, "errExist", s, a)
  BY DEF Keeps
<1>6. KindIn(s, n) = "missing" /\ KindIn(s, Parent(n)) = "missing" => Keeps(call, s, "errNotExist", s, a)
  BY DEF Keeps
<1>7. KindIn(s, n) = "missing" /\ KindIn(s, Parent(n)) # "missing" =>
        Keeps(call, s, "ok", Placed(s, n, Dir), a)
  BY DEF Keeps
<1> QED BY <1>2, <1>3, <1>4, <1>5, <1>6, <1>7 DEF s, u, N

\* What Create is to do: the same, and a file may be replaced.
LEMMA CreateKeeps ==
  ASSUME NEW t, IsFine(t), KindIn(Seen(t), <<>>) = "dir", NEW call, call.op = "Create",
         call.n \in Path, call.n # <<>>, NEW a
  PROVE  LET N == FullName(call.n) parent == KindIn(t, Parent(FullName(call.n))) IN
         /\ N \in Path
         /\ parent = "missing" => Keeps(call, Seen(t), "errNotExist", Seen(t), a)
         /\ parent # "missing" => Keeps(call, Seen(t), "ok", Seen(Placed(t, N, call.v)), a)
<1> DEFINE n == call.n
           N == FullName(n)
           s == Seen(t)
           u == Seen(Placed(t, N, call.v))
<1>1. DOMAIN t \subseteq Path
  BY DEF IsFine
<1>2. N \in Path
  BY FullNameIs
<1>3. u = Placed(s, n, call.v)
  BY <1>1, SeenPlaced
<1>4. KindIn(s, Parent(n)) = KindIn(t, Parent(N))
  <2>1. Len(n) # 0
    BY EmptySeq DEF Path
  <2>2. Parent(n) \in Path /\ FullName(Parent(n)) = Parent(N)
    BY <2>1, NamesAlike
  <2> QED BY <1>1, <2>2, SeenKind
<1> HIDE DEF s, u, N
<1>5. KindIn(s, Parent(n)) = "missing" => Keeps(call, s, "errNotExist", s, a)
  BY DEF Keeps
<1>6. KindIn(s, Parent(n)) # "missing" => Keeps(call, s, "ok", Placed(s, n, call.v), a)
  BY DEF Keeps
<1> QED BY <1>2, <1>3, <1>4, <1>5, <1>6 DEF s, u, N

\* There is one kind of thing at a path, and one kind of backend.
LEMMA KindsAre ==
  ASSUME NEW t, NEW p
  PROVE  KindIn(t, p) \in {"dir", "file", "missing"}
BY DEF KindIn

\* What openDir does with an answer, if it is the last thing to do.
LEMMA OpenDirIs ==
  ASSUME NEW r, NEW a \in {"dir", "file", "missing"}
  PROVE  /\ r.why = "opendir" /\ a = "missing" /\ Len(r.n) = 1 =>
              OpenDir(r, a, <<>>) = Go(<<Act("mkdir", r.n), Look("made", r.n)>>)
         /\ r.why = "opendir" /\ a = "missing" /\ Len(r.n) # 1 =>
              OpenDir(r, a, <<>>) = Go(<<Look("mkparent", r.n)>>)
         /\ r.why = "mkparent" /\ a = "missing" =>
              OpenDir(r, a, <<>>) = [prog |-> <<>>, ret |-> "errNotExist"]
         /\ r.why = "mkparent" /\ a = "dir" =>
              OpenDir(r, a, <<>>) = Go(<<Act("mkdir", r.n), Look("made", r.n)>>)
         /\ r.why = "made" /\ a = "dir" => OpenDir(r, a, <<>>) = Go(<<>>)
<1> DEFINE x == Act("mkdir", r.n)
           y == Look("made", r.n)
           z == Look("mkparent", r.n)
<1>1. x.do # "catch" /\ z.do # "catch"
  BY DEF Act, Look, Request
<1>2. <<x, y>> \o <<>> = <<x, y>> /\ <<z>> \o <<>> = <<z>>
  BY <1>1, FewRequests
<1>3. Fail("errNotExist", <<>>) = [prog |-> <<>>, ret |-> "errNotExist"]
  BY FailsNow
<1>4. r.why = "opendir" /\ a = "missing" /\ Len(r.n) = 1 => OpenDir(r, a, <<>>) = Go(<<x, y>> \o <<>>)
  BY DEF OpenDir
<1>5. r.why = "opendir" /\ a = "missing" /\ Len(r.n) # 1 => OpenDir(r, a, <<>>) = Go(<<z>> \o <<>>)
  BY DEF OpenDir
<1>6. r.why = "mkparent" /\ a = "missing" => OpenDir(r, a, <<>>) = Fail("errNotExist", <<>>)
  BY DEF OpenDir
<1>7. r.why = "mkparent" /\ a = "dir" => OpenDir(r, a, <<>>) = Go(<<x, y>> \o <<>>)
  BY DEF OpenDir
<1>8. r.why = "made" /\ a = "dir" => OpenDir(r, a, <<>>) = Go(<<>>)
  BY DEF OpenDir
<1> QED BY <1>2, <1>3, <1>4, <1>5, <1>6, <1>7, <1>8

\* The request of a Mkdir and what it leads to.
LEMMA MkdirTurn ==
  ASSUME Typed, NEW c \in Clients, Turn(c), flight = {}, NEW t, IsFine(t),
         KindIn(Seen(t), <<>>) = "dir", cur[c].op = "Mkdir", cur[c].n \in Path,
         Making(t, tree, FullName(cur[c].n), prog[c])
  PROVE  Goes(t, tree', flight', cur[c], Onward(c), archive'[c])
<1> DEFINE call == cur[c]
           N == FullName(cur[c].n)
           free == KindIn(t, N) = "missing"
           parent == KindIn(t, Parent(N))
           r == Head(prog[c])
           rest == Tail(prog[c])
           look == Look("mkdir", N)
           act == Act("mkdir", N)
           open == Look("opendir", N)
           up == Look("mkparent", N)
           made == Look("made", N)
<1>1. /\ N \in Path /\ (free => N # <<>>) /\ (free => parent # "file")
      /\ \A a :
         /\ ~free => Keeps(call, Seen(t), "errExist", Seen(t), a)
         /\ free /\ parent = "missing" => Keeps(call, Seen(t), "errNotExist", Seen(t), a)
         /\ free /\ parent # "missing" => Keeps(call, Seen(t), "ok", Seen(Placed(t, N, Dir)), a)
  BY MkdirKeeps DEF Making
<1>2. /\ KindIn(t, N) \in {"dir", "file", "missing"} /\ parent \in {"dir", "file", "missing"}
      /\ Len(N) = 1 => parent = "dir"
  <2>1. Len(N) = 1 => Parent(N) = <<>>
    BY <1>1 DEF Parent, Path
  <2>2. KindIn(t, <<>>) = "dir"
    BY DEF KindIn, IsFine, IsTree
  <2> QED BY <2>1, <2>2, KindsAre
<1>3. /\ look.do = "look" /\ look.why = "mkdir" /\ look.n = N
      /\ act.do = "mkdir" /\ act.n = N
      /\ open.do = "look" /\ open.why = "opendir" /\ open.n = N
      /\ up.do = "look" /\ up.why = "mkparent" /\ up.n = N
      /\ made.do = "look" /\ made.why = "made" /\ made.n = N
  BY DEF Look, Act, Request
<1>4. Looked(look) = N /\ Looked(open) = N /\ Looked(up) = Parent(N) /\ Looked(made) = N
  BY <1>3 DEF Looked
<1>5. /\ r.do = "look" =>
           tree' = tree /\ flight' = flight /\ On(c, After(r, KindIn(tree, Looked(r)), rest))
      /\ r.do = "mkdir" =>
           /\ flight' = flight
           /\ \/ Possible(r) /\ tree' = Effect(r) /\ On(c, Go(rest))
              \/ ~Possible(r) /\ tree' = tree /\ On(c, Fail(Refused, rest))
  <2>1. "mkdir" \in Changes /\ "mkdir" \notin {"delete", "dele", "rmd"}
    BY DEF Changes
  <2> QED BY <2>1, TurnIs DEF Same
<1>6. \A x \in {look, act, open, up, made} : Head(<<x>>) = x /\ Tail(<<x>>) = <<>>
  BY <1>3, FewRequests
<1>7. Head(<<act, made>>) = act /\ Tail(<<act, made>>) = <<made>>
  BY <1>3, FewRequests
<1>8. Go(<<>>) = [prog |-> <<>>, ret |-> "ok"] /\ \A e : Fail(e, <<>>) = [prog |-> <<>>, ret |-> e]
  BY GoEnds, FailsNow
<1>9. /\ \A x \in {act, open, up, made} : <<x>> # <<>> /\ Go(<<x>>) = [prog |-> <<x>>, ret |-> "none"]
      /\ <<act, made>> # <<>> /\ Go(<<act, made>>) = [prog |-> <<act, made>>, ret |-> "none"]
  BY <1>3, FewRequests
<1> DEFINE G == Goes(t, tree', flight', call, Onward(c), archive'[c])
<1>10. ASSUME NEW e, On(c, [prog |-> <<>>, ret |-> e]), flight' = {},
              Keeps(call, Seen(t), e, Seen(tree'), archive'[c])
       PROVE  G
  <2> DEFINE y == [prog |-> <<>>, ret |-> e]
  <2>1. y.prog = <<>> /\ y.ret = e /\ On(c, y)
    BY <1>10
  <2> HIDE DEF y
  <2> QED BY <1>10, <2>1, GoesIs
<1>11. ASSUME NEW p, p # <<>>, On(c, [prog |-> p, ret |-> "none"]), flight' = {},
              Making(t, tree', N, p)
       PROVE  G
  <2>1. Underway(t, tree', flight', call, [prog |-> p, ret |-> "none"], archive'[c])
    BY <1>11 DEF Underway
  <2> QED BY <1>11, <2>1, GoesIs
<1>12. CASE tree = t /\ prog[c] = <<look>>
  <2>1. After(look, KindIn(t, N), <<>>) = Mkdir(look, KindIn(t, N), <<>>)
    BY <1>3 DEF After
  <2>2. KindIn(t, N) \in {"dir", "file"} =>
          Mkdir(look, KindIn(t, N), <<>>) = Fail("errExist", <<>> \o <<>>)
    BY <1>3 DEF Mkdir
  <2>3. free => Mkdir(look, KindIn(t, N), <<>>) = Go(<<MakeDir(N)>> \o (<<>> \o <<>>))
    BY <1>3 DEF Mkdir
  <2>4. MakeDir(N) \in {act, open} /\ (MakeDir(N) = act => backend = "ftp") /\ <<MakeDir(N)>> \o <<>> = <<MakeDir(N)>>
    <3>1. (MakeDir(N) = act /\ backend = "ftp") \/ MakeDir(N) = open
      BY DEF MakeDir
    <3>2. act # open
      BY <1>3
    <3> QED BY <1>3, <3>1, <3>2, FewRequests
  <2>5. <<>> \o <<>> = <<>>
    BY FailsNow
  <2>6. tree' = t /\ flight' = {} /\ On(c, After(look, KindIn(t, N), <<>>))
    BY <1>3, <1>4, <1>5, <1>6, <1>12
  <2> HIDE DEF look, act, open, N
  <2>7. CASE ~free
    <3>1. On(c, [prog |-> <<>>, ret |-> "errExist"])
      BY <1>2, <1>8, <2>1, <2>2, <2>5, <2>6, <2>7
    <3> QED BY <1>1, <1>10, <2>6, <2>7, <3>1
  <2>8. CASE free
    <3>1. On(c, [prog |-> <<MakeDir(N)>>, ret |-> "none"]) /\ <<MakeDir(N)>> # <<>>
      BY <1>9, <2>1, <2>3, <2>4, <2>5, <2>6, <2>8
    <3>2. Making(t, tree', N, <<MakeDir(N)>>)
      BY <1>1, <2>4, <2>6, <2>8 DEF Making, act, open
    <3> QED BY <1>11, <2>6, <3>1, <3>2
  <2> QED BY <2>7, <2>8
<1>13. CASE free /\ tree = t /\ backend = "ftp" /\ prog[c] = <<act>>
  <2>1. Possible(act) <=> KindIn(t, N) = "missing" /\ parent = "dir"
    BY <1>3, <1>13 DEF Possible, Kind
  <2>2. Effect(act) = Placed(t, N, Dir)
    BY <1>3, <1>13 DEF Effect
  <2>3. Refused = "errNotExist"
    BY <1>13 DEF Refused
  <2>4. r = act /\ rest = <<>>
    BY <1>6, <1>13
  <2>5. CASE parent = "dir"
    BY <1>1, <1>3, <1>5, <1>8, <1>10, <1>13, <2>1, <2>2, <2>4, <2>5
  <2>6. CASE parent = "missing"
    BY <1>1, <1>3, <1>5, <1>8, <1>10, <1>13, <2>1, <2>3, <2>4, <2>6
  <2> QED BY <1>1, <1>2, <1>13, <2>5, <2>6
<1>14. ASSUME NEW x \in {open, up, made}, prog[c] = <<x>>
       PROVE  tree' = tree /\ flight' = {} /\ On(c, OpenDir(x, KindIn(tree, Looked(x)), <<>>))
  <2>1. r = x /\ rest = <<>> /\ x.do = "look" /\ x.why \in {"opendir", "mkparent", "made"}
    BY <1>3, <1>6, <1>14
  <2>2. \A a : After(x, a, <<>>) = OpenDir(x, a, <<>>)
    BY <2>1 DEF After
  <2> QED BY <1>5, <2>1, <2>2
<1>15. CASE free /\ tree = t /\ prog[c] = <<open>>
  <2>1. tree' = t /\ flight' = {} /\ On(c, OpenDir(open, "missing", <<>>))
    BY <1>4, <1>14, <1>15
  <2>2. CASE Len(N) = 1
    <3>1. OpenDir(open, "missing", <<>>) = Go(<<act, made>>)
      BY <1>3, <2>2, OpenDirIs
    <3>2. Making(t, tree', N, <<act, made>>)
      BY <1>1, <1>2, <1>15, <2>1, <2>2 DEF Making
    <3> QED BY <1>9, <1>11, <2>1, <3>1, <3>2
  <2>3. CASE Len(N) # 1
    <3>1. OpenDir(open, "missing", <<>>) = Go(<<up>>)
      BY <1>3, <2>3, OpenDirIs
    <3>2. Making(t, tree', N, <<up>>)
      BY <1>1, <1>15, <2>1 DEF Making
    <3> QED BY <1>9, <1>11, <2>1, <3>1, <3>2
  <2> QED BY <2>2, <2>3
<1>16. CASE free /\ tree = t /\ prog[c] = <<up>>
  <2>1. tree' = t /\ flight' = {} /\ On(c, OpenDir(up, parent, <<>>))
    BY <1>4, <1>14, <1>16
  <2>2. CASE parent = "missing"
    <3>1. OpenDir(up, parent, <<>>) = [prog |-> <<>>, ret |-> "errNotExist"]
      BY <1>3, <2>2, OpenDirIs
    <3> QED BY <1>1, <1>10, <1>16, <2>1, <2>2, <3>1
  <2>3. CASE parent = "dir"
    <3>1. OpenDir(up, parent, <<>>) = Go(<<act, made>>)
      BY <1>3, <2>3, OpenDirIs
    <3>2. Making(t, tree', N, <<act, made>>)
      BY <1>1, <1>16, <2>1, <2>3 DEF Making
    <3> QED BY <1>9, <1>11, <2>1, <3>1, <3>2
  <2> QED BY <1>1, <1>2, <1>16, <2>2, <2>3
<1>17. CASE free /\ parent = "dir" /\ tree = t /\ prog[c] = <<act, made>>
  <2>1. Possible(act)
    BY <1>3, <1>17 DEF Possible, Kind
  <2>2. Effect(act) = Placed(t, N, Dir)
    BY <1>3, <1>17 DEF Effect
  <2>3. tree' = Placed(t, N, Dir) /\ flight' = {} /\ On(c, Go(<<made>>))
    BY <1>3, <1>5, <1>7, <1>17, <2>1, <2>2
  <2>4. Making(t, tree', N, <<made>>)
    BY <1>1, <1>17, <2>3 DEF Making
  <2> QED BY <1>9, <1>11, <2>3, <2>4
<1>18. CASE free /\ parent = "dir" /\ tree = Placed(t, N, Dir) /\ prog[c] = <<made>>
  <2>1. KindIn(tree, N) = "dir"
    BY <1>18 DEF KindIn, Placed
  <2>2. tree' = tree /\ flight' = {} /\ On(c, OpenDir(made, "dir", <<>>))
    BY <1>4, <1>14, <1>18, <2>1
  <2>3. OpenDir(made, "dir", <<>>) = Go(<<>>)
    BY <1>3, OpenDirIs
  <2> QED BY <1>1, <1>8, <1>10, <1>18, <2>2, <2>3
<1> QED BY <1>12, <1>13, <1>15, <1>16, <1>17, <1>18 DEF Making

\* The requests of a Create and what they lead to.
LEMMA CreateTurn ==
  ASSUME Typed, NEW c \in Clients, Turn(c), NEW t, IsFine(t),
         KindIn(Seen(t), <<>>) = "dir", cur[c].op = "Create", cur[c].n \in Path, cur[c].n # <<>>,
         Creating(t, tree, flight, FullName(cur[c].n), cur[c].v, [prog |-> prog[c], ret |-> ret[c]])
  PROVE  Goes(t, tree', flight', cur[c], Onward(c), archive'[c])
<1> DEFINE call == cur[c]
           N == FullName(cur[c].n)
           v == cur[c].v
           parent == KindIn(t, Parent(N))
           r == Head(prog[c])
           rest == Tail(prog[c])
           look == Request("look", "parent", N, <<>>, v)
           entry == Request("look", "entry", N, <<>>, v)
           put == Put(N, v)
           G == Goes(t, tree', flight', call, Onward(c), archive'[c])
<1>1. /\ N # <<>> /\ KindIn(t, N) # "dir" /\ parent # "file" /\ tree = t
      /\ \A a : /\ parent = "missing" => Keeps(call, Seen(t), "errNotExist", Seen(t), a)
                /\ parent # "missing" => Keeps(call, Seen(t), "ok", Seen(Placed(t, N, v)), a)
  BY CreateKeeps DEF Creating
<1>2. /\ parent \in {"dir", "missing"} /\ backend \in {"webdav", "ftp"} /\ prog[c] # <<>>
      /\ KindIn(t, N) \in {"file", "missing"}
  <2>1. backend \in {"webdav", "ftp"}
    BY NamespaceAssumption DEF Typed
  <2>2. parent \in {"dir", "file", "missing"} /\ KindIn(t, N) \in {"dir", "file", "missing"}
    BY KindsAre
  <2>3. prog[c] # <<>>
    BY TurnFrame
  <2> QED BY <1>1, <2>1, <2>2, <2>3
<1>3. /\ look.do = "look" /\ look.why = "parent" /\ look.n = N /\ look.v = v
      /\ entry.do = "look" /\ entry.why = "entry" /\ entry.n = N /\ entry.v = v
      /\ put.do = "put" /\ put.n = N /\ put.v = v
      /\ [look EXCEPT !.why = "entry"] = entry
  BY DEF Put, Request
<1>4. Looked(look) = Parent(N) /\ Looked(entry) = N
  BY <1>3 DEF Looked
<1>5. /\ r.do = "look" =>
           tree' = tree /\ flight' = flight /\ On(c, After(r, KindIn(tree, Looked(r)), rest))
      /\ r.do = "put" =>
           \/ ~Possible(r)
           \/ /\ On(c, Go(rest))
              /\ IF backend = "webdav" THEN flight' = flight \cup {<<r.n, r.v>>} /\ tree' = tree
                 ELSE flight' = flight /\ tree' = Effect(r)
  BY TurnIs DEF Same
<1>6. \A x \in {look, entry, put} :
        /\ Head(<<x>>) = x /\ Tail(<<x>>) = <<>> /\ <<x>> # <<>> /\ <<x>> \o <<>> = <<x>>
        /\ Go(<<x>>) = [prog |-> <<x>>, ret |-> "none"]
  BY <1>3, FewRequests
<1>7. Go(<<>>) = [prog |-> <<>>, ret |-> "ok"] /\ \A e : Fail(e, <<>>) = [prog |-> <<>>, ret |-> e]
  BY GoEnds, FailsNow
<1>8. ASSUME NEW e, On(c, [prog |-> <<>>, ret |-> e]), flight' = {},
             Keeps(call, Seen(t), e, Seen(tree'), archive'[c])
      PROVE  G
  <2> DEFINE y == [prog |-> <<>>, ret |-> e]
  <2>1. y.prog = <<>> /\ y.ret = e /\ On(c, y)
    BY <1>8
  <2> HIDE DEF y
  <2> QED BY <1>8, <2>1, GoesIs
<1>9. ASSUME NEW p, NEW e, p # <<>> \/ flight' # {}, On(c, [prog |-> p, ret |-> e]),
             Creating(t, tree', flight', N, v, [prog |-> p, ret |-> e])
      PROVE  G
  <2>1. Underway(t, tree', flight', call, [prog |-> p, ret |-> e], archive'[c])
    BY <1>9 DEF Underway
  <2>2. Onward(c) = [prog |-> p, ret |-> e]
    BY <1>9 DEF On, Onward
  <2> QED BY <1>9, <2>1, <2>2 DEF Goes
<1>10. ASSUME NEW x \in {look, entry}, prog[c] = <<x>>, flight = {}
       PROVE  tree' = t /\ flight' = {} /\ On(c, Create(x, KindIn(t, Looked(x)), <<>>))
  <2>1. r = x /\ rest = <<>> /\ x.do = "look" /\ x.why \in {"parent", "entry"}
    BY <1>3, <1>6, <1>10
  <2>2. \A a : After(x, a, <<>>) = Create(x, a, <<>>)
    BY <2>1 DEF After
  <2> QED BY <1>1, <1>5, <1>10, <2>1, <2>2
<1>11. CASE flight = {} /\ prog[c] = <<look>>
  <2>1. tree' = t /\ flight' = {} /\ On(c, Create(look, parent, <<>>))
    BY <1>4, <1>10, <1>11
  <2>2. CASE parent = "missing"
    <3>1. Create(look, parent, <<>>) = Fail("errNotExist", <<>>)
      BY <1>3, <2>2 DEF Create
    <3> QED BY <1>1, <1>7, <1>8, <2>1, <2>2, <3>1
  <2>3. CASE parent = "dir" /\ backend = "ftp"
    <3>1. Create(look, parent, <<>>) = Go(<<entry>> \o <<>>)
      BY <1>3, <2>3 DEF Create
    <3>2. On(c, [prog |-> <<entry>>, ret |-> "none"]) /\ <<entry>> # <<>>
      BY <1>6, <2>1, <3>1
    <3>3. Creating(t, tree', flight', N, v, [prog |-> <<entry>>, ret |-> "none"])
      BY <1>1, <2>1, <2>3 DEF Creating
    <3> QED BY <1>9, <3>2, <3>3
  <2>4. CASE parent = "dir" /\ backend # "ftp"
    <3>1. Create(look, parent, <<>>) = Go(<<put>> \o <<>>)
      BY <1>3, <2>4 DEF Create
    <3>2. On(c, [prog |-> <<put>>, ret |-> "none"]) /\ <<put>> # <<>>
      BY <1>6, <2>1, <3>1
    <3>3. Creating(t, tree', flight', N, v, [prog |-> <<put>>, ret |-> "none"])
      BY <1>1, <2>1, <2>4 DEF Creating
    <3> QED BY <1>9, <3>2, <3>3
  <2> QED BY <1>2, <2>2, <2>3, <2>4
<1>12. CASE parent = "dir" /\ flight = {} /\ prog[c] = <<entry>>
  <2>1. tree' = t /\ flight' = {} /\ On(c, Create(entry, KindIn(t, N), <<>>))
    BY <1>4, <1>10, <1>12
  <2>2. Create(entry, KindIn(t, N), <<>>) = Go(<<put>> \o <<>>)
    BY <1>2, <1>3 DEF Create
  <2>3. On(c, [prog |-> <<put>>, ret |-> "none"]) /\ <<put>> # <<>>
    BY <1>6, <2>1, <2>2
  <2>4. Creating(t, tree', flight', N, v, [prog |-> <<put>>, ret |-> "none"])
    BY <1>1, <1>12, <2>1 DEF Creating
  <2> QED BY <1>9, <2>3, <2>4
<1>13. CASE parent = "dir" /\ flight = {} /\ prog[c] = <<put>>
  <2>1. Possible(put) /\ Effect(put) = Placed(t, N, v)
    BY <1>1, <1>3, <1>13 DEF Possible, Effect, Kind
  <2>2. r = put /\ rest = <<>> /\ On(c, [prog |-> <<>>, ret |-> "ok"])
    BY <1>3, <1>5, <1>6, <1>7, <1>13, <2>1
  <2>3. CASE backend = "webdav"
    <3>1. tree' = t /\ flight' = {<<N, v>>}
      BY <1>1, <1>3, <1>5, <1>13, <2>1, <2>2, <2>3
    <3>2. Creating(t, tree', flight', N, v, [prog |-> <<>>, ret |-> "ok"])
      BY <1>1, <1>13, <3>1 DEF Creating
    <3> QED BY <1>9, <2>2, <3>1, <3>2
  <2>4. CASE backend # "webdav"
    <3>1. tree' = Placed(t, N, v) /\ flight' = {}
      BY <1>3, <1>5, <1>13, <2>1, <2>2, <2>4
    <3> QED BY <1>1, <1>8, <1>13, <2>2, <3>1
  <2> QED BY <2>3, <2>4
<1> QED BY <1>1, <1>2, <1>11, <1>12, <1>13 DEF Creating

\* The upload of a Create reaches the server.
LEMMA CreateLands ==
  ASSUME Typed, Lands, NEW call, NEW x, NEW a, NEW t, IsFine(t), KindIn(Seen(t), <<>>) = "dir",
         call.op = "Create", call.n \in Path, call.n # <<>>,
         Creating(t, tree, flight, FullName(call.n), call.v, x)
  PROVE  Goes(t, tree', flight', call, x, a)
<1> DEFINE N == FullName(call.n)
           v == call.v
           put == Put(N, v)
<1>1. /\ N # <<>> /\ KindIn(t, N) # "dir" /\ tree = t
      /\ KindIn(t, Parent(N)) # "missing" => Keeps(call, Seen(t), "ok", Seen(Placed(t, N, v)), a)
  BY CreateKeeps DEF Creating
<1>2. put.do = "put" /\ put.n = N /\ put.v = v
  BY DEF Put, Request
<1>3. flight # {}
  BY DEF Lands
<1>4. flight = {<<N, v>>} /\ x.prog = <<>> /\ x.ret = "ok" /\ KindIn(t, Parent(N)) = "dir"
  BY <1>3 DEF Creating
<1>5. Possible(put) /\ Effect(put) = Placed(t, N, v)
  BY <1>1, <1>2, <1>4 DEF Possible, Effect, Kind
<1>6. flight' = {} /\ tree' = Placed(t, N, v)
  BY <1>4, <1>5 DEF Lands, Becomes
<1> QED BY <1>1, <1>4, <1>6 DEF Goes

-----------------------------------------------------------------------------
(* Rename alone.                                                           *)

\* How long a name on the server is.
LEMMA NameLength ==
  ASSUME NEW n \in Path
  PROVE  /\ Len(FullName(n)) = Len(FullName(<<>>)) + Len(n)
         /\ Len(FullName(<<>>)) \in Nat /\ Len(n) \in Nat
         /\ FullName(n) = <<>> => Len(n) = 0
<1>1. Len(FullName(n)) = Len(FullName(<<>>)) + Len(n)
  BY FullNameElements
<1>2. Len(FullName(<<>>)) \in Nat /\ Len(n) \in Nat
  BY FullNameIs DEF Path
<1>3. FullName(n) = <<>> => Len(FullName(n)) = 0
  OBVIOUS
<1> QED BY <1>1, <1>2, <1>3

\* The move of a Rename.
LEMMA RenameTurn ==
  ASSUME Typed, NEW c \in Clients, Turn(c), flight = {}, NEW t, IsFine(t),
         KindIn(Seen(t), <<>>) = "dir", cur[c].op = "Rename", cur[c].n \in Path, cur[c].to \in Path,
         Moving(t, tree, cur[c].n, cur[c].to, prog[c])
  PROVE  Goes(t, tree', flight', cur[c], Onward(c), archive'[c])
<1> DEFINE call == cur[c]
           n == cur[c].n
           to == cur[c].to
           N == FullName(n)
           M == FullName(to)
           s == Seen(t)
           r == Request("move", "", N, M, 0)
<1>1. tree = t /\ to # <<>> /\ (backend = "ftp" => KindIn(t, M) = "missing") /\ prog[c] = <<r>>
  BY DEF Moving
<1>2. DOMAIN t \subseteq Path /\ KindIn(t, <<>>) = "dir" /\ <<>> \in Path
  BY BelowRoot DEF IsFine, IsTree, KindIn
<1>3. N \in Path /\ M \in Path /\ (Under(N, M) <=> Under(n, to)) /\ (M = <<>> => to = <<>>)
  <2>1. M = <<>> => Len(to) = 0
    BY NameLength, EmptySeq DEF Path
  <2> QED BY <2>1, NamesAlike, EmptySeq DEF Path
<1>4. KindIn(s, n) = KindIn(t, N) /\ KindIn(s, to) = KindIn(t, M) /\ KindIn(s, Parent(to)) = KindIn(t, Parent(M))
  <2>1. Len(to) # 0
    BY <1>1, EmptySeq DEF Path
  <2>2. Parent(to) \in Path /\ FullName(Parent(to)) = Parent(M)
    BY <2>1, NamesAlike
  <2> QED BY <1>2, <2>2, SeenKind
<1>5. Seen(MovedTree(t, N, M)) = MovedTree(s, n, to)
  BY <1>2, SeenMoved
<1>6. r.do = "move" /\ r.n = N /\ r.to = M
  BY DEF Request
<1>7. Possible(r) <=> /\ N # <<>> /\ M # <<>> /\ KindIn(t, N) # "missing" /\ KindIn(t, Parent(M)) = "dir"
                      /\ ~Under(N, M) /\ KindIn(t, M) = "missing"
  BY <1>1, <1>6 DEF Possible, Kind
<1>8. Effect(r) = MovedTree(t, N, M)
  BY <1>1, <1>6 DEF Effect
<1>9. /\ flight' = {}
      /\ \/ Possible(r) /\ tree' = MovedTree(t, N, M) /\ On(c, [prog |-> <<>>, ret |-> "ok"])
         \/ ~Possible(r) /\ tree' = t /\ On(c, [prog |-> <<>>, ret |-> Refused])
  <2>1. Head(prog[c]) = r /\ Tail(prog[c]) = <<>>
    <3>1. r.do # "catch"
      BY <1>6
    <3> HIDE DEF r
    <3>2. Head(<<r>>) = r /\ Tail(<<r>>) = <<>>
      BY <3>1, FewRequests
    <3> QED BY <1>1, <3>2
  <2>2. r.do \in Changes /\ r.do \notin {"delete", "dele", "rmd"}
    BY <1>6 DEF Changes
  <2>3. Go(<<>>) = [prog |-> <<>>, ret |-> "ok"] /\ Fail(Refused, <<>>) = [prog |-> <<>>, ret |-> Refused]
    BY GoEnds, FailsNow
  <2> HIDE DEF r
  <2> QED BY <1>1, <1>8, <2>1, <2>2, <2>3, TurnIs
<1>10. Refused \in Error
  BY DEF Refused, Error, Results
<1> DEFINE stays == \/ n = <<>> \/ KindIn(s, n) = "missing" \/ Under(n, to)
                    \/ KindIn(s, to) # "missing" \/ KindIn(s, Parent(to)) # "dir"
<1>11. N = <<>> \/ n = <<>> => stays /\ ~Possible(r)
  <2>1. n = <<>> => InTree(n, to) /\ Under(n, to)
    BY <1>1, BelowRoot DEF Under
  <2>3. N = <<>> => Len(n) = 0
    BY NameLength, EmptySeq DEF Path
  <2>4. N = <<>> => n = <<>>
    BY <2>3, EmptySeq DEF Path
  <2> QED BY <1>3, <1>7, <2>1, <2>4
<1>12. Possible(r) <=> ~stays
  BY <1>1, <1>3, <1>4, <1>7, <1>11
<1> DEFINE G == Goes(t, tree', flight', call, Onward(c), archive'[c])
<1> HIDE DEF N, M, r
<1>13. ASSUME NEW e, On(c, [prog |-> <<>>, ret |-> e]), Keeps(call, s, e, Seen(tree'), archive'[c])
       PROVE  G
  <2> DEFINE y == [prog |-> <<>>, ret |-> e]
  <2>1. y.prog = <<>> /\ y.ret = e /\ On(c, y)
    BY <1>13
  <2> HIDE DEF y
  <2> QED BY <1>9, <1>13, <2>1, GoesIs
<1> HIDE DEF s
<1>14. CASE Possible(r)
  <2>1. ~stays
    BY <1>12, <1>14
  <2>2. Keeps(call, s, "ok", MovedTree(s, n, to), archive'[c])
    BY <2>1 DEF Keeps
  <2> QED BY <1>5, <1>9, <1>13, <1>14, <2>2
<1>15. CASE ~Possible(r)
  <2>1. stays
    BY <1>12, <1>15
  <2>2. Keeps(call, s, Refused, s, archive'[c])
    BY <1>10, <2>1 DEF Keeps
  <2> QED BY <1>9, <1>13, <1>15, <2>2 DEF s
<1> QED BY <1>14, <1>15

-----------------------------------------------------------------------------
(* RemoveAll alone.                                                        *)

\* A listing has every entry once.
LEMMA ListedOnce ==
  ASSUME NEW S, IsFiniteSet(S)
  PROVE  \A i, j \in DOMAIN SetToSeq(S) : SetToSeq(S)[i] = SetToSeq(S)[j] => i = j
<1> DEFINE n == Cardinality(S)
           s == SetToSeq(S)
<1>1. n \in Nat /\ ExistsBijection(1..n, S)
  BY FS_CardinalityType
<1>2. PICK f \in [1..n -> S] : IsInjective(f)
  BY <1>1 DEF ExistsBijection, Bijection, Injection
<1>3. s \in [1..n -> S] /\ IsInjective(s)
  BY <1>2 DEF SetToSeq
<1> HIDE DEF s
<1> QED BY <1>3 DEF IsInjective, s

\* The requests after the first.
LEMMA Later ==
  ASSUME NEW R, NEW p \in Seq(R), p # <<>>
  PROVE  /\ Head(p) = p[1] /\ 1 \in DOMAIN p /\ DOMAIN p \subseteq Nat \ {0}
         /\ DOMAIN Tail(p) \subseteq Nat \ {0} /\ Tail(p) \in Seq(R)
         /\ \A i \in DOMAIN Tail(p) : i + 1 \in DOMAIN p /\ Tail(p)[i] = p[i + 1]
         /\ \A i \in DOMAIN p : i # 1 => i - 1 \in DOMAIN Tail(p) /\ Tail(p)[i - 1] = p[i]
OBVIOUS

\* A request of a removal takes at least what it names.
LEMMA TakesItself ==
  ASSUME NEW r \in Reqs(FALSE), r.do \in {"dele", "rmd", "rmlist"}
  PROVE  r.n \in Path /\ Takes(r, r.n)
<1>1. r.n \in Path
  BY RequestTypes
<1>2. InTree(r.n, r.n)
  BY <1>1, InOwnTree DEF Path
<1> QED BY <1>1, <1>2 DEF Takes

\* The first thing is taken away.
LEMMA TakenAway ==
  ASSUME NEW t, IsFine(t), NEW b, NEW N \in Path, NEW p \in Seq(Reqs(FALSE)), p # <<>>,
         Emptying(t, b, N, p), Head(p).do \in {"dele", "rmd"}
  PROVE  LET r == Head(p) b2 == WithoutTree(b, r.n) IN
         /\ KindIn(b, r.n) = IF r.do = "dele" THEN "file" ELSE "dir"
         /\ r.do = "rmd" => ChildrenIn(b, r.n) = {}
         /\ Emptying(t, b2, N, Tail(p))
<1> DEFINE r == Head(p)
           q == Tail(p)
           b2 == WithoutTree(b, r.n)
           Kinds(i, a) == KindIn(a, p[i].n) = IF p[i].do = "dele" THEN "file" ELSE "dir"
<1>1. /\ \A k \in DOMAIN b : k \in DOMAIN t /\ b[k] = t[k]
      /\ \A k \in DOMAIN t : k \in DOMAIN b <=> ~InTree(N, k) \/ \E i \in DOMAIN p : Takes(p[i], k)
      /\ \A i \in DOMAIN p : InTree(N, p[i].n) /\ p[i].do \in {"dele", "rmd", "rmlist"} /\ Kinds(i, b)
      /\ \A i \in DOMAIN p : \A k \in DOMAIN b : p[i].do = "rmd" /\ Under(p[i].n, k) =>
           \E j \in DOMAIN p : j < i /\ Takes(p[j], k)
      /\ \A k \in DOMAIN b : \A i, j \in DOMAIN p : Takes(p[i], k) /\ Takes(p[j], k) => i = j
  BY DEF Emptying
<1> DEFINE R == Reqs(FALSE)
<1>2. \A i \in DOMAIN p : p[i] \in R
  <2> HIDE DEF R
  <2>1. p \in Seq(R)
    BY DEF R
  <2> QED BY <2>1
<1>3. /\ r = p[1] /\ 1 \in DOMAIN p /\ DOMAIN p \subseteq Nat \ {0}
      /\ DOMAIN q \subseteq Nat \ {0}
      /\ \A i \in DOMAIN q : i + 1 \in DOMAIN p /\ q[i] = p[i + 1]
      /\ \A i \in DOMAIN p : i # 1 => i - 1 \in DOMAIN q /\ q[i - 1] = p[i]
  BY Later
<1>4. \A i \in DOMAIN p : p[i].n \in Path /\ Takes(p[i], p[i].n)
  BY <1>1, <1>2, TakesItself
<1>5. /\ \A k : Takes(r, k) <=> k = r.n
      /\ r.n \in Path /\ InTree(N, r.n) /\ Kinds(1, b)
  BY <1>1, <1>3, <1>4 DEF Takes
<1>6. r.n \in DOMAIN b /\ r.n \in DOMAIN t /\ b[r.n] = t[r.n] /\ (r.do = "rmd" \/ t[r.n] # Dir)
  <2>1. KindIn(b, r.n) # "missing" /\ (r.do = "rmd" \/ KindIn(b, r.n) = "file")
    BY <1>3, <1>5
  <2> QED BY <1>1, <2>1 DEF KindIn
<1>7. ASSUME NEW k \in DOMAIN b PROVE ~Under(r.n, k)
  <2>1. CASE r.do = "rmd"
    <3>1. ~(\E j \in DOMAIN p : j < 1)
      BY <1>3
    <3> QED BY <1>1, <1>3, <2>1, <3>1
  <2>2. CASE r.do # "rmd"
    BY <1>1, <1>5, <1>6, <2>2, AboveIsDir
  <2> QED BY <2>1, <2>2
<1>8. InTree(r.n, r.n)
  BY <1>5, InOwnTree DEF Path
<1>9. DOMAIN b2 = DOMAIN b \ {r.n} /\ \A k \in DOMAIN b2 : b2[k] = b[k]
  BY <1>7, <1>8 DEF WithoutTree, Under
<1>10. r.do = "rmd" => ChildrenIn(b, r.n) = {}
  BY <1>7 DEF ChildrenIn
<1> HIDE DEF b2, q, r
<1>11. ASSUME NEW k \in DOMAIN t
       PROVE  k \in DOMAIN b2 <=> ~InTree(N, k) \/ \E i \in DOMAIN q : Takes(q[i], k)
  <2>1. ASSUME k \in DOMAIN b2, InTree(N, k) PROVE \E i \in DOMAIN q : Takes(q[i], k)
    <3>1. PICK i \in DOMAIN p : Takes(p[i], k)
      BY <1>1, <1>9, <2>1
    <3>2. i # 1
      BY <1>3, <1>5, <1>9, <2>1, <3>1
    <3> QED BY <1>3, <3>1, <3>2
  <2>2. ~InTree(N, k) => k \in DOMAIN b2
    BY <1>1, <1>5, <1>9
  <2>3. ASSUME NEW i \in DOMAIN q, Takes(q[i], k) PROVE k \in DOMAIN b2
    <3>1. i + 1 \in DOMAIN p /\ Takes(p[i + 1], k) /\ i + 1 # 1
      BY <1>3, <2>3
    <3>2. k \in DOMAIN b
      BY <1>1, <3>1
    <3>3. ~Takes(p[1], k)
      BY <1>1, <1>3, <3>1, <3>2
    <3> QED BY <1>3, <1>5, <1>9, <3>2, <3>3
  <2> QED BY <2>1, <2>2, <2>3
<1>12. ASSUME NEW i \in DOMAIN q
       PROVE  /\ InTree(N, q[i].n) /\ q[i].do \in {"dele", "rmd", "rmlist"}
              /\ KindIn(b2, q[i].n) = IF q[i].do = "dele" THEN "file" ELSE "dir"
              /\ \A k \in DOMAIN b2 : q[i].do = "rmd" /\ Under(q[i].n, k) =>
                   \E j \in DOMAIN q : j < i /\ Takes(q[j], k)
  <2>1. i + 1 \in DOMAIN p /\ q[i] = p[i + 1] /\ i \in Nat \ {0} /\ i + 1 # 1
    BY <1>3
  <2>2. q[i].n # r.n
    <3>1. KindIn(b, q[i].n) # "missing" /\ Takes(p[i + 1], q[i].n)
      BY <1>1, <1>4, <2>1
    <3>2. q[i].n \in DOMAIN b
      BY <3>1 DEF KindIn
    <3>3. ~Takes(p[1], q[i].n)
      BY <1>1, <1>3, <2>1, <3>1, <3>2
    <3> QED BY <1>3, <1>5, <3>3
  <2>3. KindIn(b2, q[i].n) = KindIn(b, q[i].n)
    BY <1>9, <2>2 DEF KindIn
  <2>4. ASSUME NEW k \in DOMAIN b2, q[i].do = "rmd", Under(q[i].n, k)
        PROVE  \E j \in DOMAIN q : j < i /\ Takes(q[j], k)
    <3>1. PICK j \in DOMAIN p : j < i + 1 /\ Takes(p[j], k)
      BY <1>1, <1>9, <2>1, <2>4
    <3>2. j # 1
      BY <1>3, <1>5, <1>9, <3>1
    <3>3. j - 1 \in DOMAIN q /\ Takes(q[j - 1], k) /\ j - 1 < i
      BY <1>3, <2>1, <3>1, <3>2
    <3> QED BY <3>3
  <2> QED BY <1>1, <2>1, <2>3, <2>4
<1>13. \A k \in DOMAIN b2 : \A i, j \in DOMAIN q : Takes(q[i], k) /\ Takes(q[j], k) => i = j
  <2> SUFFICES ASSUME NEW k \in DOMAIN b2, NEW i \in DOMAIN q, NEW j \in DOMAIN q,
                      Takes(q[i], k), Takes(q[j], k)
               PROVE  i = j
    OBVIOUS
  <2>1. i + 1 \in DOMAIN p /\ j + 1 \in DOMAIN p /\ Takes(p[i + 1], k) /\ Takes(p[j + 1], k)
    BY <1>3
  <2>2. i + 1 = j + 1 /\ i \in Nat /\ j \in Nat
    BY <1>1, <1>3, <1>9, <2>1
  <2> QED BY <2>2
<1>14. \A k \in DOMAIN b2 : k \in DOMAIN t /\ b2[k] = t[k]
  BY <1>1, <1>9
<1>15. Emptying(t, b2, N, q)
  BY <1>11, <1>12, <1>13, <1>14 DEF Emptying
<1> QED BY <1>3, <1>5, <1>10, <1>15 DEF b2, q, r

\* A sequence, an element and another sequence in a row.
LEMMA InThreeParts ==
  ASSUME NEW R, NEW s \in Seq(R), NEW x \in R, NEW u \in Seq(R)
  PROVE  LET q == (s \o <<x>>) \o u m == Len(s) IN
         /\ q \in Seq(R) /\ q # <<>> /\ m \in Nat
         /\ \A i \in DOMAIN s : i \in DOMAIN q /\ q[i] = s[i]
         /\ m + 1 \in DOMAIN q /\ q[m + 1] = x
         /\ \A i \in DOMAIN u : m + 1 + i \in DOMAIN q /\ q[m + 1 + i] = u[i]
         /\ \A i \in DOMAIN q : i \in DOMAIN s \/ i = m + 1 \/ i - (m + 1) \in DOMAIN u
<1> DEFINE v == s \o <<x>>
           q == v \o u
<1>1. v \in Seq(R) /\ Len(v) = Len(s) + 1 /\ Len(s) \in Nat
  OBVIOUS
<1>2. (\A i \in 1..Len(s) : v[i] = s[i]) /\ v[Len(s) + 1] = x
  OBVIOUS
<1> HIDE DEF v
<1>3. q \in Seq(R) /\ Len(q) = Len(v) + Len(u) /\ Len(u) \in Nat
  BY <1>1
<1>4. (\A i \in 1..Len(v) : q[i] = v[i]) /\ (\A i \in 1..Len(u) : q[Len(v) + i] = u[i])
  BY <1>1
<1> HIDE DEF q
<1>5. DOMAIN s = 1..Len(s) /\ DOMAIN u = 1..Len(u) /\ DOMAIN q = 1..Len(q)
  BY <1>3
<1>6. \A i \in DOMAIN s : i \in DOMAIN q /\ q[i] = s[i]
  BY <1>1, <1>2, <1>3, <1>4, <1>5
<1>7. Len(s) + 1 \in DOMAIN q /\ q[Len(s) + 1] = x
  BY <1>1, <1>2, <1>3, <1>4, <1>5
<1>8. \A i \in DOMAIN u : Len(s) + 1 + i \in DOMAIN q /\ q[Len(s) + 1 + i] = u[i]
  BY <1>1, <1>3, <1>4, <1>5
<1>9. \A i \in DOMAIN q : i \in DOMAIN s \/ i = Len(s) + 1 \/ i - (Len(s) + 1) \in DOMAIN u
  BY <1>1, <1>3, <1>5
<1>10. q # <<>>
  BY <1>1, <1>3
<1> QED BY <1>1, <1>3, <1>6, <1>7, <1>8, <1>9, <1>10 DEF q, v

\* What lies in a directory of a tree lies in an entry of it, and in one only.
LEMMA InAnEntry ==
  ASSUME NEW b, IsFine(b), NEW d \in Path
  PROVE  /\ \A x \in ChildrenIn(b, d) : x \in DOMAIN b /\ x \in Path /\ Under(d, x) /\ ~InTree(x, d)
         /\ \A k \in DOMAIN b : Under(d, k) => \E x \in ChildrenIn(b, d) : InTree(x, k)
         /\ \A k \in DOMAIN b : \A x, y \in ChildrenIn(b, d) : InTree(x, k) /\ InTree(y, k) => x = y
<1>1. DOMAIN b \subseteq Path
  BY DEF IsFine
<1>2. ASSUME NEW x \in ChildrenIn(b, d)
      PROVE  /\ x \in DOMAIN b /\ x \in Path /\ Under(d, x) /\ ~InTree(x, d)
             /\ Len(x) = Len(d) + 1 /\ Len(d) \in Nat
  BY <1>1 DEF ChildrenIn, Path, InTree
<1>3. ASSUME NEW k \in DOMAIN b, Under(d, k)
      PROVE  \E x \in ChildrenIn(b, d) : InTree(x, k)
  <2> DEFINE x == SubSeq(k, 1, Len(d) + 1)
  <2>1. k \in Path /\ Len(d) \in 0..Len(k) - 1 /\ d = SubSeq(k, 1, Len(d)) /\ Len(k) \in Nat
    BY <1>1, <1>3, AbovePath DEF Path
  <2>2. Len(x) = Len(d) + 1 /\ x \in Path /\ InTree(x, k) /\ Under(d, x)
    <3> DEFINE j == Len(d) + 1
    <3>1. j \in Nat /\ j <= Len(k) /\ Len(d) = j - 1 /\ Len(d) < j /\ Len(d) \in Nat
      BY <2>1
    <3> HIDE DEF j
    <3>2. x = SubSeq(k, 1, j)
      BY DEF j
    <3>3. x \in Seq(Names) /\ Len(x) = j /\ \A i \in 1..j : x[i] = k[i]
      BY <2>1, <3>1, <3>2 DEF Path
    <3>4. InTree(x, k)
      BY <2>1, <3>1, <3>3, InTreeElements DEF Path
    <3>5. InTree(d, k)
      BY <1>3 DEF Under
    <3>6. InTree(d, x)
      <4>1. Len(d) <= Len(x) /\ d \in Seq(Names) /\ x \in Seq(Names) /\ k \in Seq(Names)
        BY <2>1, <3>1, <3>3 DEF Path
      <4> HIDE DEF x
      <4> QED BY <3>4, <3>5, <4>1, InTreeLinear
    <3>7. x # d
      BY <3>1, <3>3
    <3> QED BY <3>1, <3>3, <3>4, <3>6, <3>7 DEF Under, Path, j
  <2> HIDE DEF x
  <2>3. x \in DOMAIN b
    <3>1. x # k => Under(x, k)
      BY <2>2 DEF Under
    <3> QED BY <2>2, <3>1, AboveIsDir
  <2> QED BY <2>2, <2>3 DEF ChildrenIn
<1>4. ASSUME NEW k \in DOMAIN b, NEW x \in ChildrenIn(b, d), NEW y \in ChildrenIn(b, d),
             InTree(x, k), InTree(y, k)
      PROVE  x = y
  <2>1. Len(x) = Len(y)
    BY <1>2
  <2> QED BY <1>4, <2>1 DEF InTree
<1> QED BY <1>2, <1>3, <1>4

\* A directory is listed: its entries are to be taken, and then itself.
LEMMA TakenApart ==
  ASSUME NEW t, IsFine(t), IsFine(tree), NEW N \in Path, NEW p \in Seq(Reqs(FALSE)), p # <<>>,
         Emptying(t, tree, N, p), Head(p).do = "rmlist", NEW s, s = SetToSeq(Children(Head(p).n)),
         NEW e, e = [i \in DOMAIN s |-> Act(IF Kind(s[i]) = "dir" THEN "rmlist" ELSE "dele", s[i])]
  PROVE  LET q == (e \o <<Act("rmd", Head(p).n)>>) \o Tail(p) IN
         /\ Kind(Head(p).n) = "dir" /\ q # <<>> /\ q \in Seq(Reqs(FALSE)) /\ q[1].do # "catch"
         /\ Emptying(t, tree, N, q)
<1> DEFINE R == Reqs(FALSE)
           r == Head(p)
           d == Head(p).n
           D == Act("rmd", d)
           u == Tail(p)
           m == Len(s)
           q == (e \o <<D>>) \o u
           Kinds(r1) == KindIn(tree, r1.n) = IF r1.do = "dele" THEN "file" ELSE "dir"
<1>1. /\ \A k \in DOMAIN tree : k \in DOMAIN t /\ tree[k] = t[k]
      /\ \A k \in DOMAIN t : k \in DOMAIN tree <=> ~InTree(N, k) \/ \E i \in DOMAIN p : Takes(p[i], k)
      /\ \A i \in DOMAIN p : InTree(N, p[i].n) /\ p[i].do \in {"dele", "rmd", "rmlist"} /\ Kinds(p[i])
      /\ \A i \in DOMAIN p : \A k \in DOMAIN tree : p[i].do = "rmd" /\ Under(p[i].n, k) =>
           \E j \in DOMAIN p : j < i /\ Takes(p[j], k)
      /\ \A k \in DOMAIN tree : \A i, j \in DOMAIN p : Takes(p[i], k) /\ Takes(p[j], k) => i = j
  BY DEF Emptying
<1>2. \A i \in DOMAIN p : p[i] \in R
  <2> HIDE DEF R
  <2>1. p \in Seq(R)
    BY DEF R
  <2> QED BY <2>1
<1>3. /\ r = p[1] /\ 1 \in DOMAIN p /\ DOMAIN p \subseteq Nat \ {0} /\ u \in Seq(R)
      /\ \A i \in DOMAIN u : i + 1 \in DOMAIN p /\ u[i] = p[i + 1]
      /\ \A i \in DOMAIN p : i # 1 => i - 1 \in DOMAIN u /\ u[i - 1] = p[i]
  BY Later
<1>4. /\ d \in Path /\ d # <<>> /\ InTree(N, d) /\ Kind(d) = "dir"
      /\ \A k : Takes(r, k) <=> InTree(d, k)
  <2>1. r \in R /\ r.do = "rmlist"
    BY <1>2, <1>3
  <2>2. d \in Path /\ d # <<>>
    BY <2>1, RequestTypes DEF Valid
  <2> QED BY <1>1, <1>3, <2>1, <2>2 DEF Takes, Kind
<1>5. /\ \A x \in Children(d) : x \in DOMAIN tree /\ x \in Path /\ Under(d, x) /\ ~InTree(x, d)
      /\ \A k \in DOMAIN tree : Under(d, k) => \E x \in Children(d) : InTree(x, k)
      /\ \A k \in DOMAIN tree : \A x, y \in Children(d) : InTree(x, k) /\ InTree(y, k) => x = y
  BY <1>4, InAnEntry DEF Children
<1>6. IsFiniteSet(Children(d)) /\ \A x \in Children(d) : x # <<>> /\ Kind(x) \in {"dir", "file"}
  BY <1>4, ChildrenTypes
<1>7. /\ s \in Seq(Children(d)) /\ (\A x \in Children(d) : \E i \in DOMAIN s : s[i] = x)
      /\ \A i, j \in DOMAIN s : s[i] = s[j] => i = j
  BY <1>6, ListingIs, ListedOnce
<1>8. /\ DOMAIN s = 1..m /\ m \in Nat /\ \A i \in DOMAIN s : s[i] \in Children(d)
  BY <1>7
<1>9. \A i \in DOMAIN s : /\ e[i].n = s[i] /\ e[i].do \in {"rmlist", "dele"}
                          /\ e[i].do = "dele" <=> Kind(s[i]) = "file"
                          /\ e[i] \in R
  <2> SUFFICES ASSUME NEW i \in DOMAIN s
               PROVE  /\ e[i].n = s[i] /\ e[i].do \in {"rmlist", "dele"}
                      /\ e[i].do = "dele" <=> Kind(s[i]) = "file"
                      /\ e[i] \in R
    OBVIOUS
  <2>1. e[i] = Act(IF Kind(s[i]) = "dir" THEN "rmlist" ELSE "dele", s[i])
    OBVIOUS
  <2>2. Kind(s[i]) \in {"dir", "file"} /\ s[i] \in Path /\ s[i] # <<>>
    BY <1>5, <1>6, <1>8
  <2>3. e[i] \in R
    BY <2>1, <2>2, RemovalRequests
  <2> QED BY <2>1, <2>2, <2>3 DEF Act, Request
<1>10. e \in Seq(R) /\ DOMAIN e = DOMAIN s /\ Len(e) = m
  <2> HIDE DEF R, m
  <2> QED BY <1>8, <1>9
<1>11. D \in R /\ D.do = "rmd" /\ D.n = d
  BY <1>4, RemovalRequests DEF Act, Request
<1> HIDE DEF R, D
<1>12. /\ q \in Seq(R) /\ q # <<>>
       /\ \A i \in DOMAIN s : i \in DOMAIN q /\ q[i] = e[i]
       /\ m + 1 \in DOMAIN q /\ q[m + 1] = D
       /\ \A i \in DOMAIN u : m + 1 + i \in DOMAIN q /\ q[m + 1 + i] = u[i]
       /\ \A i \in DOMAIN q : i \in DOMAIN s \/ i = m + 1 \/ i - (m + 1) \in DOMAIN u
  <2> HIDE DEF D, u
  <2>1. e \in Seq(R) /\ D \in R /\ u \in Seq(R) /\ Len(e) = m /\ DOMAIN e = DOMAIN s
    BY <1>3, <1>10, <1>11
  <2> HIDE DEF m
  <2>2. q \in Seq(R) /\ q # <<>>
    BY <2>1, InThreeParts
  <2>3. \A i \in DOMAIN e : i \in DOMAIN q /\ q[i] = e[i]
    BY <2>1, InThreeParts
  <2>4. Len(e) + 1 \in DOMAIN q /\ q[Len(e) + 1] = D
    BY <2>1, InThreeParts
  <2>5. \A i \in DOMAIN u : Len(e) + 1 + i \in DOMAIN q /\ q[Len(e) + 1 + i] = u[i]
    BY <2>1, InThreeParts
  <2>6. \A i \in DOMAIN q : i \in DOMAIN e \/ i = Len(e) + 1 \/ i - (Len(e) + 1) \in DOMAIN u
    BY <2>1, InThreeParts
  <2> HIDE DEF q
  <2> QED BY <2>1, <2>2, <2>3, <2>4, <2>5, <2>6
<1> HIDE DEF q, u, r, m, d
<1>13. \A i \in DOMAIN p : i # 1 => m + i \in DOMAIN q /\ q[m + i] = p[i]
  <2> SUFFICES ASSUME NEW i \in DOMAIN p, i # 1 PROVE m + i \in DOMAIN q /\ q[m + i] = p[i]
    OBVIOUS
  <2>1. i - 1 \in DOMAIN u /\ u[i - 1] = p[i] /\ i \in Nat
    BY <1>3
  <2>2. m + 1 + (i - 1) = m + i
    BY <1>8, <2>1
  <2> QED BY <1>12, <2>1, <2>2
<1>14. \A i \in DOMAIN q : i \in DOMAIN s \/ i = m + 1 \/ (i - m \in DOMAIN p /\ i - m # 1 /\ q[i] = p[i - m])
  <2> SUFFICES ASSUME NEW i \in DOMAIN q, i - (m + 1) \in DOMAIN u
               PROVE  i - m \in DOMAIN p /\ i - m # 1 /\ q[i] = p[i - m]
    BY <1>12
  <2>1. i - (m + 1) + 1 \in DOMAIN p /\ DOMAIN u \subseteq Nat \ {0} /\ u[i - (m + 1)] = p[i - (m + 1) + 1]
    BY <1>3 DEF u
  <2>2. i \in Nat
    <3>1. q \in Seq(R)
      BY <1>12
    <3> QED BY <3>1
  <2>3. i - (m + 1) + 1 = i - m /\ i - m # 1 /\ m + 1 + (i - (m + 1)) = i
    BY <1>8, <2>1, <2>2
  <2> QED BY <1>12, <2>1, <2>3
<1>15. \A i \in DOMAIN q : i \in Nat
  <2>1. q \in Seq(R)
    BY <1>12
  <2> QED BY <2>1
<1> DEFINE Fore(i) == i \in DOMAIN s \/ i = m + 1
<1>16. \A i \in DOMAIN s : \A k \in DOMAIN tree : Takes(e[i], k) <=> InTree(s[i], k)
  <2> SUFFICES ASSUME NEW i \in DOMAIN s, NEW k \in DOMAIN tree
               PROVE  Takes(e[i], k) <=> InTree(s[i], k)
    OBVIOUS
  <2>1. s[i] \in DOMAIN tree /\ s[i] \in Path /\ e[i].n = s[i]
    BY <1>5, <1>8, <1>9
  <2>2. CASE e[i].do = "rmlist"
    BY <2>1, <2>2 DEF Takes
  <2>3. CASE e[i].do = "dele"
    <3>1. tree[s[i]] # Dir
      BY <1>9, <2>3 DEF Kind, KindIn
    <3>2. InTree(s[i], k) <=> k = s[i]
      BY <2>1, <3>1, AboveIsDir, InOwnTree DEF Under, Path
    <3> QED BY <2>1, <2>3, <3>2 DEF Takes
  <2> QED BY <1>9, <2>2, <2>3
<1>17. \A k : Takes(D, k) <=> k = d
  BY <1>11 DEF Takes
<1>18. ASSUME NEW k \in DOMAIN tree, InTree(d, k)
       PROVE  \E i \in DOMAIN q : Fore(i) /\ Takes(q[i], k) /\ (k # d => i < m + 1)
  <2>1. CASE k = d
    BY <1>12, <1>17, <2>1
  <2>2. CASE k # d
    <3>1. PICK x \in Children(d) : InTree(x, k)
      BY <1>5, <1>18, <2>2 DEF Under
    <3>2. PICK i \in DOMAIN s : s[i] = x
      BY <1>7, <3>1 DEF d
    <3> QED BY <1>8, <1>12, <1>16, <3>1, <3>2
  <2> QED BY <2>1, <2>2
<1>19. ASSUME NEW i \in DOMAIN q, NEW k \in DOMAIN tree, Takes(q[i], k), Fore(i)
       PROVE  Takes(p[1], k)
  <2>1. InTree(d, k)
    <3>1. CASE i \in DOMAIN s
      <4>1. InTree(s[i], k) /\ Under(d, s[i]) /\ s[i] \in Path /\ k \in Path
        BY <1>5, <1>8, <1>12, <1>16, <1>19, <3>1 DEF IsFine, d
      <4> QED BY <1>4, <4>1, InTreeTransitive DEF Under, Path
    <3>2. CASE i = m + 1
      BY <1>4, <1>12, <1>17, <1>19, <3>2, InOwnTree DEF Path
    <3> QED BY <1>19, <3>1, <3>2
  <2> QED BY <1>3, <1>4, <2>1
<1>20. ASSUME NEW k \in DOMAIN t
       PROVE  k \in DOMAIN tree <=> ~InTree(N, k) \/ \E i \in DOMAIN q : Takes(q[i], k)
  <2>1. ASSUME k \in DOMAIN tree, InTree(N, k) PROVE \E i \in DOMAIN q : Takes(q[i], k)
    <3>1. PICK i \in DOMAIN p : Takes(p[i], k)
      BY <1>1, <2>1
    <3>2. CASE i = 1
      BY <1>3, <1>4, <1>18, <2>1, <3>1, <3>2
    <3>3. CASE i # 1
      BY <1>13, <3>1, <3>3
    <3> QED BY <3>2, <3>3
  <2>2. ~InTree(N, k) => k \in DOMAIN tree
    BY <1>1
  <2>3. ASSUME NEW i \in DOMAIN q, Takes(q[i], k) PROVE k \in DOMAIN tree
    <3>1. CASE i \in DOMAIN s
      <4>1. q[i] = e[i] /\ e[i].n = s[i] /\ s[i] \in Path /\ Under(d, s[i])
        BY <1>5, <1>8, <1>9, <1>12, <3>1 DEF d
      <4>2. e[i].do \in {"dele", "rmlist"}
        BY <1>9, <3>1
      <4>3. InTree(s[i], k)
        BY <2>3, <4>1, <4>2, InOwnTree DEF Takes, Path
      <4>4. InTree(d, k)
        BY <1>4, <4>1, <4>3, InTreeTransitive DEF Under, Path, IsFine
      <4> QED BY <1>1, <1>3, <1>4, <4>4
    <3>2. CASE i = m + 1
      <4>1. k = d
        BY <1>12, <1>17, <2>3, <3>2
      <4> QED BY <1>4, <4>1 DEF Kind, KindIn
    <3>3. CASE i - m \in DOMAIN p /\ i - m # 1 /\ q[i] = p[i - m]
      BY <1>1, <2>3, <3>3
    <3> QED BY <1>14, <3>1, <3>2, <3>3
  <2> QED BY <2>1, <2>2, <2>3
<1>21. ASSUME NEW i \in DOMAIN q
       PROVE  /\ InTree(N, q[i].n) /\ q[i].do \in {"dele", "rmd", "rmlist"} /\ Kinds(q[i])
              /\ \A k \in DOMAIN tree : q[i].do = "rmd" /\ Under(q[i].n, k) =>
                   \E j \in DOMAIN q : j < i /\ Takes(q[j], k)
  <2>1. CASE i \in DOMAIN s
    <3>1. q[i] = e[i] /\ e[i].n = s[i] /\ s[i] \in Path /\ Under(d, s[i])
      BY <1>5, <1>8, <1>9, <1>12, <2>1 DEF d
    <3>2. InTree(N, s[i])
      BY <1>4, <3>1, InTreeTransitive DEF Under, Path
    <3>3. e[i].do \in {"dele", "rmlist"} /\ (e[i].do = "dele" <=> Kind(s[i]) = "file")
          /\ Kind(s[i]) \in {"dir", "file"}
      BY <1>6, <1>8, <1>9, <2>1 DEF d
    <3> QED BY <3>1, <3>2, <3>3 DEF Kind
  <2>2. CASE i = m + 1
    <3>1. q[i].do = "rmd" /\ q[i].n = d
      BY <1>11, <1>12, <2>2
    <3>2. ASSUME NEW k \in DOMAIN tree, Under(d, k) PROVE \E j \in DOMAIN q : j < i /\ Takes(q[j], k)
      BY <1>18, <2>2, <3>2 DEF Under
    <3> QED BY <1>4, <3>1, <3>2 DEF Kind
  <2>3. CASE i - m \in DOMAIN p /\ i - m # 1 /\ q[i] = p[i - m]
    <3>1. ASSUME NEW k \in DOMAIN tree, q[i].do = "rmd", Under(q[i].n, k)
          PROVE  \E j \in DOMAIN q : j < i /\ Takes(q[j], k)
      <4>1. PICK j \in DOMAIN p : j < i - m /\ Takes(p[j], k)
        BY <1>1, <2>3, <3>1
      <4>2. CASE j = 1
        <5>1. PICK h \in DOMAIN q : Fore(h) /\ Takes(q[h], k)
          BY <1>3, <1>4, <1>18, <4>1, <4>2
        <5>2. h <= m + 1
          BY <1>8, <5>1
        <5>3. h < i
          BY <1>8, <1>15, <4>1, <4>2, <5>2
        <5> QED BY <5>1, <5>3
      <4>3. CASE j # 1
        <5>1. m + j \in DOMAIN q /\ q[m + j] = p[j]
          BY <1>13, <4>3
        <5>2. m + j < i
          BY <1>3, <1>8, <1>15, <4>1
        <5> QED BY <4>1, <5>1, <5>2
      <4> QED BY <4>2, <4>3
    <3> QED BY <1>1, <2>3, <3>1
  <2> QED BY <1>14, <2>1, <2>2, <2>3
<1>22. ASSUME NEW k \in DOMAIN tree, NEW i \in DOMAIN q, NEW j \in DOMAIN q,
              Takes(q[i], k), Takes(q[j], k)
       PROVE  i = j
  <2> DEFINE Behind(h) == h - m \in DOMAIN p /\ h - m # 1 /\ q[h] = p[h - m]
  <2>1. CASE Fore(i) /\ Fore(j)
    <3>1. ASSUME NEW h \in DOMAIN s, Takes(q[h], k) PROVE InTree(s[h], k) /\ k # d
      <4>1. InTree(s[h], k)
        BY <1>12, <1>16, <3>1
      <4>2. ~InTree(s[h], d)
        BY <1>5, <1>8 DEF d
      <4> QED BY <4>1, <4>2
    <3>2. Takes(q[m + 1], k) => k = d
      BY <1>12, <1>17
    <3>3. CASE i \in DOMAIN s /\ j \in DOMAIN s
      <4>1. InTree(s[i], k) /\ InTree(s[j], k)
        BY <1>22, <3>1, <3>3
      <4>2. s[i] = s[j]
        BY <1>5, <1>8, <3>3, <4>1 DEF d
      <4> QED BY <1>7, <3>3, <4>2
    <3> QED BY <1>22, <2>1, <3>1, <3>2, <3>3
  <2>2. CASE Behind(i) /\ Behind(j)
    <3>1. i - m = j - m
      BY <1>1, <1>22, <2>2
    <3> QED BY <1>8, <1>15, <3>1
  <2>3. CASE Fore(i) /\ Behind(j)
    BY <1>1, <1>3, <1>19, <1>22, <2>3
  <2>4. CASE Behind(i) /\ Fore(j)
    BY <1>1, <1>3, <1>19, <1>22, <2>4
  <2> QED BY <1>14, <2>1, <2>2, <2>3, <2>4
<1>23. Emptying(t, tree, N, q)
  BY <1>1, <1>20, <1>21, <1>22 DEF Emptying
<1>24. q[1].do # "catch"
  <2>1. 1 \in DOMAIN q
    <3>1. q \in Seq(R) /\ q # <<>>
      BY <1>12
    <3> QED BY <3>1
  <2> QED BY <1>21, <2>1
<1> QED BY <1>4, <1>12, <1>23, <1>24 DEF q, u, D, R, d

\* A program that begins with a request goes on with it.
LEMMA GoAhead ==
  ASSUME NEW R, NEW p \in Seq(R), p # <<>>, p[1].do # "catch"
  PROVE  Go(p) = [prog |-> p, ret |-> "none"]
<1> DEFINE x == Head(p)
           u == Tail(p)
<1>1. p = <<x>> \o u /\ x \in R /\ u \in Seq(R) /\ x.do # "catch"
  OBVIOUS
<1> HIDE DEF x, u
<1>2. Go(<<x>> \o u) = [prog |-> <<x>> \o u, ret |-> "none"]
  BY <1>1, GoOn
<1> QED BY <1>1, <1>2

\* All that was to be removed is gone, and nothing else.
LEMMA RemoveKeeps ==
  ASSUME NEW t, IsFine(t), NEW call, call.op = "RemoveAll", call.n \in Path,
         FullName(call.n) # <<>>, NEW b, Emptying(t, b, FullName(call.n), <<>>), NEW a
  PROVE  Keeps(call, Seen(t), "ok", Seen(b), a)
<1> DEFINE n == call.n
           N == FullName(call.n)
           u == WithoutTree(Seen(t), n)
<1>1. DOMAIN t \subseteq Path
  BY DEF IsFine
<1>2. /\ \A k \in DOMAIN b : k \in DOMAIN t /\ b[k] = t[k]
      /\ \A k \in DOMAIN t : k \in DOMAIN b <=> ~InTree(N, k)
  BY DEF Emptying
<1>3. /\ DOMAIN u = {p \in DOMAIN Seen(t) : ~InTree(n, p)} /\ u = [p \in DOMAIN u |-> u[p]]
      /\ \A p \in DOMAIN u : u[p] = Seen(t)[p]
  BY DEF WithoutTree
<1> HIDE DEF u
<1>4. \A p \in Path : InTree(N, FullName(p)) <=> InTree(n, p)
  BY NamesAlike
<1>5. DOMAIN b \subseteq Path /\ DOMAIN u \subseteq Path
  BY <1>1, <1>2, <1>3, SeenPaths
<1>6. \A p \in Path : p \in DOMAIN u <=> FullName(p) \in DOMAIN b
  BY <1>1, <1>2, <1>3, <1>4, SeenPaths
<1>7. \A p \in DOMAIN u : u[p] = b[FullName(p)]
  BY <1>1, <1>2, <1>3, <1>5, <1>6, SeenPaths
<1>8. Seen(b) = WithoutTree(Seen(t), n)
  BY <1>3, <1>5, <1>6, <1>7, SeenEquals DEF u
<1> QED BY <1>8 DEF Keeps

\* A request of a RemoveAll and what it leads to.
LEMMA RemoveTurn ==
  ASSUME Typed, NEW c \in Clients, Turn(c), flight = {}, NEW t, IsFine(t),
         cur[c].op = "RemoveAll", cur[c].n \in Path,
         Removing(t, tree, FullName(cur[c].n), prog[c])
  PROVE  Goes(t, tree', flight', cur[c], Onward(c), archive'[c])
<1> DEFINE call == cur[c]
           N == FullName(cur[c].n)
           p == prog[c]
           r == Head(prog[c])
           rest == Tail(prog[c])
           R == Reqs(FALSE)
           delete == Act("delete", N)
           look == Look("remove", N)
           file == Act("dele", N)
           dir == Act("rmlist", N)
           G == Goes(t, tree', flight', call, Onward(c), archive'[c])
<1>1. N \in Path /\ N # <<>> /\ IsFine(tree) /\ DOMAIN t \subseteq Path
  BY FullNameIs DEF Removing, Typed, IsFine
<1>2. /\ delete.do = "delete" /\ delete.n = N
      /\ look.do = "look" /\ look.why = "remove" /\ look.n = N
      /\ file.do = "dele" /\ file.n = N /\ dir.do = "rmlist" /\ dir.n = N
  BY DEF Act, Look, Request
<1>3. p \in Seq(R) /\ p # <<>>
  <2>1. p \in Seq(Reqs(calm)) /\ calm \in BOOLEAN
    BY DEF Typed
  <2>2. Seq(Reqs(calm)) \subseteq Seq(R)
    BY <2>1, GentleReqs
  <2>3. p # <<>>
    BY TurnFrame
  <2> QED BY <2>1, <2>2, <2>3
<1>4. Go(<<>>) = [prog |-> <<>>, ret |-> "ok"]
  BY GoEnds
<1>5. ASSUME On(c, Go(<<>>)), flight' = {}, Emptying(t, tree', N, <<>>)
      PROVE  G
  <2> DEFINE y == [prog |-> <<>>, ret |-> "ok"]
  <2>1. y.prog = <<>> /\ y.ret = "ok" /\ On(c, y)
    BY <1>4, <1>5
  <2>2. Keeps(call, Seen(t), "ok", Seen(tree'), archive'[c])
    BY <1>1, <1>5, RemoveKeeps
  <2> HIDE DEF y
  <2> QED BY <1>5, <2>1, <2>2, GoesIs
<1>6. ASSUME NEW q, q # <<>>, On(c, [prog |-> q, ret |-> "none"]), flight' = {},
             Emptying(t, tree', N, q)
      PROVE  G
  <2>1. Underway(t, tree', flight', call, [prog |-> q, ret |-> "none"], archive'[c])
    BY <1>1, <1>6 DEF Underway, Removing
  <2> QED BY <1>6, <2>1, GoesIs
<1>7. ASSUME KindIn(t, N) = "missing" PROVE Emptying(t, t, N, <<>>)
  <2>1. \A k \in DOMAIN t : ~InTree(N, k)
    BY <1>1, <1>7, AboveIsDir DEF KindIn, Under
  <2> QED BY <2>1 DEF Emptying
<1>8. \A x \in {delete, look, file, dir} :
        /\ Head(<<x>>) = x /\ Tail(<<x>>) = <<>> /\ <<x>> # <<>> /\ <<x>> \o <<>> = <<x>>
        /\ Go(<<x>>) = [prog |-> <<x>>, ret |-> "none"]
  BY <1>2, FewRequests
<1> HIDE DEF delete, look, file, dir, N, R
<1>9. CASE tree = t /\ p = <<delete>>
  <2>1. r = delete /\ rest = <<>>
    BY <1>8, <1>9
  <2>2. delete.do \in Changes
    BY <1>2 DEF Changes
  <2>3. /\ flight' = flight
        /\ \/ Possible(delete) /\ tree' = Effect(delete) /\ On(c, Go(<<>>))
           \/ ~Possible(delete) /\ tree' = tree /\ On(c, Go(<<>>))
    BY <1>2, <2>1, <2>2, TurnIs
  <2>4. Possible(delete) <=> KindIn(t, N) # "missing"
    BY <1>2, <1>9 DEF Possible, Kind
  <2>5. Effect(delete) = WithoutTree(t, N)
    BY <1>2, <1>9 DEF Effect
  <2>6. Emptying(t, WithoutTree(t, N), N, <<>>)
    BY DEF Emptying, WithoutTree
  <2> QED BY <1>5, <1>7, <1>9, <2>3, <2>4, <2>5, <2>6
<1>10. CASE tree = t /\ p = <<look>>
  <2>1. r = look /\ rest = <<>>
    BY <1>8, <1>10
  <2>2. tree' = t /\ flight' = {} /\ On(c, FtpRemove(look, KindIn(t, N), <<>>))
    <3>1. Looked(look) = N /\ After(look, KindIn(t, N), <<>>) = FtpRemove(look, KindIn(t, N), <<>>)
      BY <1>2 DEF Looked, After
    <3> QED BY <1>2, <1>10, <2>1, <3>1, TurnIs DEF Same
  <2>3. KindIn(t, N) \in {"dir", "file", "missing"}
    BY KindsAre
  <2>4. InTree(N, N)
    BY <1>1, InOwnTree DEF Path
  <2>5. CASE KindIn(t, N) = "missing"
    <3>1. FtpRemove(look, KindIn(t, N), <<>>) = Go(<<>>)
      BY <2>5 DEF FtpRemove
    <3> QED BY <1>5, <1>7, <2>2, <2>5, <3>1
  <2>6. CASE KindIn(t, N) = "file"
    <3>1. FtpRemove(look, KindIn(t, N), <<>>) = Go(<<file>> \o <<>>)
      BY <1>2, <2>6 DEF FtpRemove, file
    <3>2. On(c, [prog |-> <<file>>, ret |-> "none"]) /\ <<file>> # <<>>
      BY <1>8, <2>2, <3>1
    <3>3. \A k \in DOMAIN t : InTree(N, k) => k = N
      BY <1>1, <2>6, AboveIsDir DEF KindIn, Under
    <3>4. DOMAIN <<file>> = {1} /\ <<file>>[1] = file
      OBVIOUS
    <3>5. Emptying(t, t, N, <<file>>)
      BY <1>2, <2>4, <2>6, <3>3, <3>4 DEF Emptying, Takes
    <3> QED BY <1>6, <2>2, <3>2, <3>5
  <2>7. CASE KindIn(t, N) = "dir"
    <3>1. FtpRemove(look, KindIn(t, N), <<>>) = Go(<<dir>> \o <<>>)
      BY <1>2, <2>7 DEF FtpRemove, dir
    <3>2. On(c, [prog |-> <<dir>>, ret |-> "none"]) /\ <<dir>> # <<>>
      BY <1>8, <2>2, <3>1
    <3>4. DOMAIN <<dir>> = {1} /\ <<dir>>[1] = dir
      OBVIOUS
    <3>5. Emptying(t, t, N, <<dir>>)
      BY <1>2, <2>4, <2>7, <3>4 DEF Emptying, Takes
    <3> QED BY <1>6, <2>2, <3>2, <3>5
  <2> QED BY <2>3, <2>5, <2>6, <2>7
<1>11. CASE Emptying(t, tree, N, p)
  <2>1. /\ r = p[1] /\ 1 \in DOMAIN p /\ rest \in Seq(R)
        /\ DOMAIN rest \subseteq Nat \ {0}
        /\ \A i \in DOMAIN rest : i + 1 \in DOMAIN p /\ rest[i] = p[i + 1]
    BY <1>3, Later
  <2>2. \A i \in DOMAIN p : p[i].do \in {"dele", "rmd", "rmlist"}
    BY <1>11 DEF Emptying
  <2>3. ASSUME rest # <<>> PROVE Go(rest) = [prog |-> rest, ret |-> "none"]
    <3>1. 1 \in DOMAIN rest
      BY <2>1, <2>3
    <3>2. rest[1].do # "catch"
      BY <2>1, <2>2, <3>1
    <3> QED BY <2>1, <2>3, <3>2, GoAhead
  <2>4. CASE r.do \in {"dele", "rmd"}
    <3> DEFINE b2 == WithoutTree(tree, r.n)
    <3>1. /\ KindIn(tree, r.n) = IF r.do = "dele" THEN "file" ELSE "dir"
          /\ r.do = "rmd" => ChildrenIn(tree, r.n) = {}
          /\ Emptying(t, b2, N, rest)
      BY <1>1, <1>3, <1>11, <2>4, TakenAway DEF R
    <3>2. Possible(r) /\ Effect(r) = b2 /\ r.do \in Changes
      BY <2>4, <3>1 DEF Possible, Effect, Kind, Children, Changes
    <3>3. tree' = b2 /\ flight' = {} /\ On(c, Go(rest))
      BY <2>4, <3>2, TurnIs
    <3> HIDE DEF b2, rest
    <3> QED BY <1>5, <1>6, <2>3, <3>1, <3>3
  <2>5. CASE r.do = "rmlist"
    <3> DEFINE remove(k) == Act(IF Kind(k) = "dir" THEN "rmlist" ELSE "dele", k)
               s == SetToSeq(Children(r.n))
               e == [i \in DOMAIN s |-> remove(s[i])]
               q == (e \o <<Act("rmd", r.n)>>) \o rest
    <3>1. Same /\ archive' = archive /\ Lists(c)
      BY <2>5, TurnIs
    <3>2. /\ Kind(r.n) = "dir" /\ q # <<>> /\ q \in Seq(R) /\ q[1].do # "catch"
          /\ Emptying(t, tree, N, q)
      <4> HIDE DEF s
      <4>1. s = SetToSeq(Children(r.n)) /\ e = [i \in DOMAIN s |-> Act(IF Kind(s[i]) = "dir" THEN "rmlist" ELSE "dele", s[i])]
        BY DEF s
      <4> HIDE DEF e
      <4> QED BY <1>1, <1>3, <1>11, <2>5, <4>1, TakenApart DEF R
    <3>3. Each(Children(r.n), remove) = e
      BY DEF Each
    <3>4. Continue(c, Go(q))
      BY <2>5, <3>1, <3>2, <3>3 DEF Lists
    <3>5. Go(q) = [prog |-> q, ret |-> "none"]
      BY <3>2, GoAhead
    <3>6. On(c, Go(q))
      BY <3>4 DEF Continue, On, Typed
    <3> HIDE DEF q
    <3>7. tree' = tree /\ flight' = {}
      BY <3>1 DEF Same
    <3> QED BY <1>6, <3>2, <3>5, <3>6, <3>7
  <2> QED BY <2>1, <2>2, <2>4, <2>5
<1> QED BY <1>9, <1>10, <1>11 DEF Removing, delete, look, N

-----------------------------------------------------------------------------
(* MkdirAll alone.                                                         *)

\* The way to a path is free: no file is on it.
Free(b, m) == \A p \in DOMAIN b : InTree(p, m) => b[p] = Dir

\* What is no look makes the next directory.
LEMMA MkdirNext ==
  ASSUME NEW m, NEW t, NEW cm, NEW cl, Grounds(m, t, cm, cl),
         NEW k \in Len(FullName(<<>>))..Len(m), NEW p,
         GoingAt(p, SubSeq(m, 1, k), Chain(m, k), t, cm, cl), Head(p).do # "look"
  PROVE  Head(p).do = "mkdir" /\ Head(p).n = SubSeq(m, 1, k)
BY MkdirGoes

\* With the directory there, the call goes on.
LEMMA MadeGoes ==
  ASSUME NEW m, NEW t, Grounds(m, t, TRUE, TRUE), NEW k \in Len(FullName(<<>>))..Len(m), NEW p,
         GoingAt(p, SubSeq(m, 1, k), Chain(m, k), t, TRUE, TRUE), Head(p).do # "look",
         KindIn(t, Head(p).n) = "dir"
  PROVE  Going(Go(Tail(p)), m, t, TRUE, TRUE)
<1>1. Head(p).do = "mkdir" /\ Head(p).n = SubSeq(m, 1, k)
  BY MkdirNext
<1>2. KindIn(t, SubSeq(m, 1, k)) = "dir" => Going(Go(Tail(p)), m, t, TRUE, TRUE)
  BY MkdirGoes
<1> QED BY <1>1, <1>2

\* The next request of a MkdirAll of m that nobody disturbs.
LEMMA MkdirAllStep ==
  ASSUME IsFine(tree), NEW m, Grounds(m, tree, TRUE, TRUE),
         NEW k \in Len(FullName(<<>>))..Len(m), NEW q,
         GoingAt(q, SubSeq(m, 1, k), Chain(m, k), tree, TRUE, TRUE)
  PROVE  LET r == Head(q) IN
         /\ q # <<>> /\ r.do \in {"look", "mkdir"}
         /\ r.do = "look" => Going(After(r, KindIn(tree, Looked(r)), Tail(q)), m, tree, TRUE, TRUE)
         /\ r.do = "mkdir" /\ ~Possible(r) => Going(Fail(Refused, Tail(q)), m, tree, TRUE, TRUE)
         /\ r.do = "mkdir" /\ Possible(r) =>
              /\ Going(Go(Tail(q)), m, Effect(r), TRUE, TRUE)
              /\ r.n \notin DOMAIN tree /\ r.n \in Path /\ r.n # <<>> /\ InTree(r.n, m) /\ Effect(r) = Placed(tree, r.n, Dir)
              /\ Free(tree, m) /\ KindIn(tree, Parent(r.n)) = "dir"
<1> DEFINE r == Head(q)
           d == SubSeq(m, 1, k)
<1>1. q # <<>>
  BY HeadOfGoing
<1>2. r.do = "look" => Going(After(r, KindIn(tree, Looked(r)), Tail(q)), m, tree, TRUE, TRUE)
  <2>1. Answers(KindIn(tree, Looked(r)), Looked(r), tree, TRUE)
    BY DEF Answers
  <2> QED BY <2>1, LookGoes
<1>3. ASSUME r.do # "look"
      PROVE  /\ r.do = "mkdir" /\ r.n = d /\ KindIn(tree, Parent(d)) = "dir"
             /\ \A e \in Error : KindIn(tree, d) # "missing" => Going(Fail(e, Tail(q)), m, tree, TRUE, TRUE)
  <2>1. r.do = "mkdir" /\ r.n = d
    BY <1>3, MkdirNext
  <2>2. TRUE => KindIn(tree, Parent(d)) = "dir"
    BY <1>3, MkdirGoes
  <2>3. \A e \in Error : (TRUE => KindIn(tree, d) # "missing") => Going(Fail(e, Tail(q)), m, tree, TRUE, TRUE)
    BY <1>3, MkdirGoes
  <2> QED BY <2>1, <2>2, <2>3
<1>4. Refused \in Error
  BY DEF Refused, Error, Results
<1>5. m \in Path /\ d \in Path /\ InTree(d, m)
  <2>1. m \in Path /\ k \in 0..Len(m) /\ Len(m) \in Nat
    BY TopIs DEF Grounds
  <2>2. d \in Path /\ Len(d) = k
    BY <2>1, Beginning
  <2> QED BY <2>1, <2>2 DEF InTree
<1> HIDE DEF d, r
<1>6. ASSUME r.do = "mkdir" PROVE Possible(r) <=> KindIn(tree, d) = "missing"
  BY <1>3, <1>6 DEF Possible, Kind
<1>7. ASSUME r.do = "mkdir", Possible(r)
      PROVE  /\ d \notin DOMAIN tree /\ d # <<>> /\ Effect(r) = Placed(tree, d, Dir)
             /\ Free(tree, m)
  <2>1. d \notin DOMAIN tree /\ Effect(r) = Placed(tree, d, Dir)
    BY <1>3, <1>6, <1>7 DEF Effect, KindIn
  <2>2. d # <<>>
    BY <2>1 DEF IsFine, IsTree
  <2>3. ASSUME NEW p \in DOMAIN tree, InTree(p, m) PROVE tree[p] = Dir
    <3>1. p \in Path /\ Len(p) \in Nat /\ Len(d) \in Nat
      BY <1>5 DEF IsFine, Path
    <3>2. CASE Len(d) <= Len(p)
      <4>1. InTree(d, p)
        BY <1>5, <2>3, <3>1, <3>2, InTreeLinear DEF Path
      <4>2. d # p
        BY <2>1
      <4> QED BY <1>5, <2>1, <4>1, <4>2, AboveIsDir DEF Under
    <3>3. CASE ~(Len(d) <= Len(p))
      <4>1. InTree(p, d)
        <5>1. Len(p) <= Len(d)
          BY <3>1, <3>3
        <5> QED BY <1>5, <2>3, <3>1, <5>1, InTreeLinear DEF Path
      <4>2. Under(p, d)
        BY <2>1, <4>1 DEF Under
      <4>3. p = Parent(d) \/ Under(p, Parent(d))
        BY <1>5, <2>2, <3>1, <4>2, ParentAbove
      <4>4. Parent(d) \in DOMAIN tree /\ tree[Parent(d)] = Dir
        BY <1>3, <1>7 DEF KindIn
      <4> QED BY <3>1, <4>3, <4>4, AboveIsDir
    <3> QED BY <3>2, <3>3
  <2> QED BY <2>1, <2>2, <2>3 DEF Free
<1>8. ASSUME r.do = "mkdir", Possible(r)
      PROVE  Going(Go(Tail(q)), m, Effect(r), TRUE, TRUE)
  <2> DEFINE u == Placed(tree, d, Dir)
             x == [prog |-> q, ret |-> "none"]
  <2>1. KindsStay(tree, u) /\ KindIn(u, d) = "dir"
    BY <1>7, <1>8 DEF KindsStay, KindIn, Placed
  <2>2. Going(x, m, tree, TRUE, TRUE)
    BY DEF Going, d
  <2> HIDE DEF u
  <2>3. Going(x, m, u, TRUE, TRUE)
    BY <2>1, <2>2, GoingStays
  <2>4. PICK j \in Len(FullName(<<>>))..Len(m) : GoingAt(q, SubSeq(m, 1, j), Chain(m, j), u, TRUE, TRUE)
    BY <1>1, <2>3 DEF Going
  <2>5. Grounds(m, u, TRUE, TRUE)
    <3>1. /\ KindIn(u, <<>>) = "dir" /\ KindIn(u, FullName(<<>>)) = "dir"
          /\ KindIn(u, Parent(FullName(<<>>))) = "dir"
      BY <2>1, StaysIs DEF Grounds
    <3> QED BY <3>1 DEF Grounds
  <2>6. KindIn(u, r.n) = "dir" => Going(Go(Tail(q)), m, u, TRUE, TRUE)
    <3>1. Head(q).do # "look"
      BY <1>8 DEF r
    <3> QED BY <2>4, <2>5, <3>1, MadeGoes DEF r
  <2>7. r.n = d /\ Effect(r) = u
    BY <1>3, <1>7, <1>8 DEF u
  <2> QED BY <2>1, <2>6, <2>7
<1>9. r.do \in {"look", "mkdir"}
  BY <1>3
<1>10. r.do = "mkdir" /\ ~Possible(r) => Going(Fail(Refused, Tail(q)), m, tree, TRUE, TRUE)
  BY <1>3, <1>4, <1>6
<1> QED BY <1>1, <1>2, <1>3, <1>5, <1>7, <1>8, <1>9, <1>10 DEF r

\* What is above a path, or is the path.
LEMMA PrefixIs ==
  ASSUME NEW n \in Path
  PROVE  \A p : p \in Prefixes(n) <=> p \in Path /\ InTree(p, n)
<1> SUFFICES ASSUME NEW p PROVE p \in Prefixes(n) <=> p \in Path /\ InTree(p, n)
  OBVIOUS
<1>1. ASSUME p \in Prefixes(n) PROVE p \in Path /\ InTree(p, n)
  <2>1. PICK l \in 0..Len(n) : p = SubSeq(n, 1, l)
    BY <1>1 DEF Prefixes
  <2>2. p \in Path /\ Len(p) = l
    BY <2>1, Beginning
  <2> QED BY <2>1, <2>2 DEF InTree, Path
<1>2. ASSUME p \in Path, InTree(p, n) PROVE p \in Prefixes(n)
  <2>1. Len(p) \in 0..Len(n) /\ p = SubSeq(n, 1, Len(p))
    BY <1>2 DEF InTree, Path
  <2> QED BY <2>1 DEF Prefixes
<1> QED BY <1>1, <1>2

\* What a MkdirAll that is over has done.
LEMMA MkdirAllKeeps ==
  ASSUME NEW t, IsFine(t), NEW b, IsFine(b), NEW call, call.op = "MkdirAll", call.n \in Path,
         Grown(t, b, FullName(call.n)), NEW a
  PROVE  /\ KindIn(b, FullName(call.n)) = "dir" => Keeps(call, Seen(t), "ok", Seen(b), a)
         /\ \A e \in Error, k \in Len(FullName(<<>>))..Len(FullName(call.n)) :
              KindIn(b, SubSeq(FullName(call.n), 1, k)) = "file" => Keeps(call, Seen(t), e, Seen(b), a)
<1> DEFINE n == call.n
           N == FullName(n)
           s == Seen(t)
           dirs == {p \in Prefixes(n) : KindIn(s, p) = "missing"}
           u == [p \in DOMAIN s \cup dirs |-> IF p \in dirs THEN Dir ELSE s[p]]
<1>1. N \in Path /\ DOMAIN t \subseteq Path /\ DOMAIN b \subseteq Path
  BY FullNameIs DEF IsFine
<1>2. /\ \A p \in DOMAIN t : p \in DOMAIN b /\ b[p] = t[p]
      /\ \A p \in DOMAIN b : p \in DOMAIN t \/ (InTree(p, N) /\ b[p] = Dir)
      /\ b = t \/ \A p \in DOMAIN t : InTree(p, N) => t[p] = Dir
  BY DEF Grown
<1>3. /\ DOMAIN s \subseteq Path
      /\ \A p \in Path : p \in DOMAIN s <=> FullName(p) \in DOMAIN t
      /\ \A p \in DOMAIN s : s[p] = t[FullName(p)] /\ FullName(p) \in DOMAIN t
  BY <1>1, SeenPaths
<1>4. \A p : p \in Prefixes(n) <=> p \in Path /\ InTree(p, n)
  BY PrefixIs
<1>5. \A p \in Path : InTree(FullName(p), N) <=> InTree(p, n)
  BY NamesAlike
<1>6. \A p \in Path : FullName(p) \in Path /\ KindIn(s, p) = KindIn(t, FullName(p))
  BY <1>1, FullNameIs, SeenKind
<1>7. ASSUME KindIn(b, N) = "dir" PROVE Keeps(call, s, "ok", Seen(b), a)
  <2>1. \A q \in Path : InTree(q, N) => q \in DOMAIN b /\ b[q] = Dir
    BY <1>1, <1>7, AboveIsDir DEF Under, KindIn
  <2>2. \A p \in Prefixes(n) : KindIn(s, p) # "file"
    BY <1>2, <1>4, <1>5, <1>6, <2>1 DEF KindIn
  <2>3. /\ DOMAIN u = DOMAIN s \cup dirs /\ u = [p \in DOMAIN u |-> u[p]]
        /\ \A p \in DOMAIN u : u[p] = IF p \in dirs THEN Dir ELSE s[p]
    OBVIOUS
  <2>4. \A p : p \in dirs <=> p \in Path /\ InTree(p, n) /\ FullName(p) \notin DOMAIN t
    BY <1>4, <1>6 DEF KindIn
  <2> HIDE DEF u, s, dirs
  <2>5. DOMAIN u \subseteq Path
    BY <1>3, <2>3, <2>4
  <2>6. \A p \in Path : p \in DOMAIN u <=> FullName(p) \in DOMAIN b
    BY <1>2, <1>3, <1>5, <1>6, <2>1, <2>3, <2>4
  <2>7. \A p \in DOMAIN u : u[p] = b[FullName(p)]
    <3> SUFFICES ASSUME NEW p \in DOMAIN u PROVE u[p] = b[FullName(p)]
      OBVIOUS
    <3>1. CASE p \in dirs
      BY <1>5, <1>6, <2>1, <2>3, <2>4, <3>1
    <3>2. CASE p \notin dirs
      BY <1>2, <1>3, <2>3, <3>2
    <3> QED BY <3>1, <3>2
  <2>8. Seen(b) = u
    BY <1>1, <2>3, <2>5, <2>6, <2>7, SeenEquals
  <2> QED BY <2>2, <2>8 DEF Keeps, u, dirs
<1>8. ASSUME NEW e \in Error, NEW k \in Len(FullName(<<>>))..Len(N), KindIn(b, SubSeq(N, 1, k)) = "file"
      PROVE  Keeps(call, s, e, Seen(b), a)
  <2> DEFINE q == SubSeq(N, 1, k)
             top == Len(FullName(<<>>))
  <2>1. k \in 0..Len(N) /\ Len(N) \in Nat /\ top \in Nat /\ top =< k /\ FullName(<<>>) \in Path
    BY <1>1, FullNameIs DEF Path
  <2>2. q \in Path /\ Len(q) = k
    BY <1>1, <2>1, Beginning
  <2>3. InTree(q, N)
    BY <2>1, <2>2 DEF InTree
  <2>4. InTree(FullName(<<>>), q)
    <3>1. InTree(FullName(<<>>), N)
      BY FullNameIs
    <3> QED BY <1>1, <2>1, <2>2, <2>3, <3>1, InTreeLinear DEF Path
  <2> HIDE DEF q
  <2>5. PICK p \in Path : InTree(p, n) /\ FullName(p) = q
    BY <2>2, <2>3, <2>4, NameOf
  <2>6. q \in DOMAIN b /\ b[q] # Dir /\ q \in DOMAIN t /\ t[q] # Dir
    BY <1>2, <1>8 DEF KindIn, q
  <2>7. b = t
    BY <1>2, <2>3, <2>6
  <2>8. p \in Prefixes(n) /\ KindIn(s, p) = "file"
    BY <1>4, <1>6, <2>5, <2>6 DEF KindIn
  <2> HIDE DEF s
  <2> QED BY <2>7, <2>8 DEF Keeps, s
<1> QED BY <1>7, <1>8

\* A request of a MkdirAll and what it leads to.
LEMMA MkdirAllTurn ==
  ASSUME Typed, NEW c \in Clients, Turn(c), flight = {}, NEW t, IsFine(t), IsFine(tree'),
         KindIn(Seen(t), <<>>) = "dir", cur[c].op = "MkdirAll", cur[c].n \in Path,
         Grown(t, tree, FullName(cur[c].n)),
         NEW k \in Len(FullName(<<>>))..Len(FullName(cur[c].n)),
         GoingAt(prog[c], SubSeq(FullName(cur[c].n), 1, k), Chain(FullName(cur[c].n), k), tree, TRUE, TRUE)
  PROVE  Goes(t, tree', flight', cur[c], Onward(c), archive'[c])
<1> DEFINE call == cur[c]
           N == FullName(cur[c].n)
           r == Head(prog[c])
           rest == Tail(prog[c])
           G == Goes(t, tree', flight', call, Onward(c), archive'[c])
<1>1. /\ \A p \in DOMAIN t : p \in DOMAIN tree /\ tree[p] = t[p]
      /\ \A p \in DOMAIN tree : p \in DOMAIN t \/ (InTree(p, N) /\ tree[p] = Dir)
      /\ tree = t \/ \A p \in DOMAIN t : InTree(p, N) => t[p] = Dir
  BY DEF Grown
<1>2. Grounds(N, tree, TRUE, TRUE) /\ IsFine(tree)
  <2>1. N \in Path /\ InTree(FullName(<<>>), N) /\ <<>> \in Path
    BY FullNameIs, BelowRoot
  <2>2. IsFine(tree) /\ KindIn(tree, <<>>) = "dir"
    BY DEF Typed, IsFine, IsTree, KindIn
  <2>3. KindIn(t, FullName(<<>>)) = "dir"
    BY <2>1, SeenKind DEF IsFine
  <2>4. KindIn(tree, FullName(<<>>)) = "dir"
    BY <1>1, <2>3 DEF KindIn
  <2>5. KindIn(tree, Parent(FullName(<<>>))) = "dir"
    BY <2>2, <2>4, RootHasParent
  <2> QED BY <2>1, <2>2, <2>4, <2>5 DEF Grounds
<1>3. /\ prog[c] # <<>> /\ r.do \in {"look", "mkdir"}
      /\ r.do = "look" => Going(After(r, KindIn(tree, Looked(r)), rest), N, tree, TRUE, TRUE)
      /\ r.do = "mkdir" /\ ~Possible(r) => Going(Fail(Refused, rest), N, tree, TRUE, TRUE)
      /\ r.do = "mkdir" /\ Possible(r) =>
           /\ Going(Go(rest), N, Effect(r), TRUE, TRUE)
           /\ r.n \notin DOMAIN tree /\ r.n \in Path /\ r.n # <<>> /\ InTree(r.n, N)
           /\ Effect(r) = Placed(tree, r.n, Dir)
           /\ Free(tree, N) /\ KindIn(tree, Parent(r.n)) = "dir"
  BY <1>2, MkdirAllStep
<1>4. ASSUME NEW x, On(c, x), Going(x, N, tree', TRUE, TRUE), Grown(t, tree', N), flight' = {}
      PROVE  G
  <2>1. CASE x.prog = <<>> /\ x.ret = "ok" /\ KindIn(tree', N) = "dir"
    <3>1. Keeps(call, Seen(t), x.ret, Seen(tree'), archive'[c])
      BY <1>4, <2>1, MkdirAllKeeps
    <3> QED BY <1>4, <2>1, <3>1, GoesIs
  <2>2. CASE /\ x.prog = <<>> /\ x.ret \in Error
             /\ \E j \in Len(FullName(<<>>))..Len(N) : KindIn(tree', SubSeq(N, 1, j)) = "file"
    <3>1. Keeps(call, Seen(t), x.ret, Seen(tree'), archive'[c])
      BY <1>4, <2>2, MkdirAllKeeps
    <3> QED BY <1>4, <2>2, <3>1, GoesIs
  <2>3. CASE /\ x.ret = "none"
             /\ \E j \in Len(FullName(<<>>))..Len(N) :
                  GoingAt(x.prog, SubSeq(N, 1, j), Chain(N, j), tree', TRUE, TRUE)
    <3>1. x.prog # <<>>
      <4>1. PICK j \in Len(FullName(<<>>))..Len(N) :
              GoingAt(x.prog, SubSeq(N, 1, j), Chain(N, j), tree', TRUE, TRUE)
        BY <2>3
      <4>2. Grounds(N, tree', TRUE, TRUE)
        <5>1. IsFine(tree') /\ KindIn(tree', <<>>) = "dir"
          BY DEF IsFine, IsTree, KindIn
        <5>2. KindIn(t, FullName(<<>>)) = "dir"
          BY FullNameIs, BelowRoot, SeenKind DEF IsFine
        <5>3. KindIn(tree', FullName(<<>>)) = "dir"
          BY <1>4, <5>2 DEF Grown, KindIn
        <5>4. KindIn(tree', Parent(FullName(<<>>))) = "dir"
          BY <5>1, <5>3, RootHasParent
        <5> QED BY <1>2, <5>1, <5>3, <5>4 DEF Grounds
      <4> QED BY <4>1, <4>2, HeadOfGoing
    <3>2. Underway(t, tree', flight', call, [prog |-> x.prog, ret |-> x.ret], archive'[c])
      BY <1>4, <2>3 DEF Underway
    <3> QED BY <1>4, <3>1, <3>2, GoesIs
  <2> QED BY <1>4, <2>1, <2>2, <2>3 DEF Going
<1>5. CASE r.do = "look"
  <2>1. tree' = tree /\ flight' = {} /\ On(c, After(r, KindIn(tree, Looked(r)), rest))
    BY <1>5, TurnIs DEF Same
  <2> QED BY <1>3, <1>4, <1>5, <2>1
<1>6. CASE r.do = "mkdir"
  <2>1. "mkdir" \in Changes /\ "mkdir" \notin {"delete", "dele", "rmd"}
    BY DEF Changes
  <2>2. /\ flight' = {}
        /\ \/ Possible(r) /\ tree' = Effect(r) /\ On(c, Go(rest))
           \/ ~Possible(r) /\ tree' = tree /\ On(c, Fail(Refused, rest))
    BY <1>6, <2>1, TurnIs
  <2>3. CASE Possible(r) /\ tree' = Effect(r) /\ On(c, Go(rest))
    <3>1. Grown(t, tree', N)
      <4>1. tree' = Placed(tree, r.n, Dir) /\ r.n \notin DOMAIN tree /\ InTree(r.n, N) /\ Free(tree, N)
        BY <1>3, <1>6, <2>3
      <4>2. /\ DOMAIN tree' = DOMAIN tree \cup {r.n} /\ tree'[r.n] = Dir
            /\ \A p \in DOMAIN tree : tree'[p] = tree[p]
        BY <4>1 DEF Placed
      <4>3. \A p \in DOMAIN t : InTree(p, N) => t[p] = Dir
        BY <1>1, <4>1 DEF Free
      <4> QED BY <1>1, <4>1, <4>2, <4>3 DEF Grown
    <3> QED BY <1>3, <1>4, <1>6, <2>2, <2>3, <3>1
  <2>4. CASE ~Possible(r) /\ tree' = tree /\ On(c, Fail(Refused, rest))
    BY <1>3, <1>4, <1>6, <2>2, <2>4
  <2> QED BY <2>2, <2>3, <2>4
<1> QED BY <1>3, <1>5, <1>6

-----------------------------------------------------------------------------
(* Export alone.                                                           *)

\* Two programs of an export, one after the other.
LEMMA SeekBoth ==
  ASSUME NEW R, NEW s \in Seq(R), NEW u \in Seq(R), NEW t, NEW N,
         \A i \in DOMAIN s : Seeks(t, N, s[i]), \A i \in DOMAIN u : Seeks(t, N, u[i])
  PROVE  /\ s \o u \in Seq(R)
         /\ \A i \in DOMAIN (s \o u) : Seeks(t, N, (s \o u)[i])
<1>1. /\ s \o u \in Seq(R) /\ DOMAIN s = 1..Len(s) /\ DOMAIN u = 1..Len(u)
      /\ DOMAIN (s \o u) = 1..Len(s) + Len(u) /\ Len(s) \in Nat /\ Len(u) \in Nat
  OBVIOUS
<1>2. ASSUME NEW i \in DOMAIN (s \o u) PROVE Seeks(t, N, (s \o u)[i])
  <2>1. CASE i =< Len(s)
    <3>1. i \in DOMAIN s /\ (s \o u)[i] = s[i]
      BY <1>1, <2>1
    <3> QED BY <3>1
  <2>2. CASE ~(i =< Len(s))
    <3>1. i - Len(s) \in DOMAIN u /\ (s \o u)[i] = u[i - Len(s)]
      BY <1>1, <2>2
    <3> QED BY <3>1
  <2> QED BY <2>1, <2>2
<1> QED BY <1>1, <1>2

\* A program of one request.
LEMMA SeekOne ==
  ASSUME NEW r, NEW t, NEW N, Seeks(t, N, r)
  PROVE  \A i \in DOMAIN <<r>> : Seeks(t, N, <<r>>[i])
OBVIOUS

\* What a file of the tree is in an archive.
LEMMA ExportedEntry ==
  ASSUME NEW t, IsFine(t), NEW n \in Path, NEW q \in DOMAIN t, InTree(FullName(n), q), t[q] # Dir
  PROVE  <<Rebased(q, FullName(n), <<>>), t[q]>> \in Exported(Seen(t), n)
<1>1. q \in Path /\ DOMAIN t \subseteq Path
  BY DEF IsFine
<1>2. PICK p \in Path : InTree(n, p) /\ FullName(p) = q
  BY <1>1, NameBelow
<1>3. p \in DOMAIN Seen(t) /\ Seen(t)[p] = t[q]
  BY <1>1, <1>2, SeenPaths
<1>4. <<p, Seen(t)[p]>> \in Files(Seen(t))
  BY <1>3 DEF Files
<1>5. Rebased(q, FullName(n), <<>>) = Rebased(p, n, <<>>)
  BY <1>2, SamePlace
<1> DEFINE f == <<p, Seen(t)[p]>>
<1>6. f \in Files(Seen(t)) /\ f[1] = p /\ f[2] = t[q]
  BY <1>3, <1>4
<1> HIDE DEF f
<1>7. <<Rebased(f[1], n, <<>>), f[2]>> \in Exported(Seen(t), n)
  BY <1>2, <1>6 DEF Exported
<1> QED BY <1>5, <1>6, <1>7

\* A request of an export and what it leads to.
LEMMA ExportTurn ==
  ASSUME Typed, NEW c \in Clients, Turn(c), flight = {}, NEW t, IsFine(t),
         cur[c].op = "Export", cur[c].n \in Path, Exporting(t, tree, cur[c].n, prog[c], archive[c])
  PROVE  Goes(t, tree', flight', cur[c], Onward(c), archive'[c])
<1> DEFINE n == cur[c].n
           N == FullName(cur[c].n)
           S == Files(Seen(t))
           r == Head(prog[c])
           rest == Tail(prog[c])
           R == Reqs(calm)
           G == Goes(t, tree', flight', cur[c], Onward(c), archive'[c])
<1>1. /\ tree = t /\ Gathering(prog[c], n, S, archive[c]) /\ archive[c] \subseteq Exported(Seen(t), n)
      /\ \A i \in DOMAIN prog[c] : Seeks(t, N, prog[c][i])
  BY DEF Exporting
<1>2. prog[c] # <<>>
  BY TurnFrame
<1>3. S \subseteq Files(Seen(tree)) /\ N \in Path
  BY <1>1, FullNameIs
<1>4. /\ r \in R /\ rest \in Seq(R) /\ calm \in BOOLEAN /\ prog[c] = <<r>> \o rest
      /\ IsWalkRequest(r) /\ AllWalk(rest) /\ r.n \in Path
  BY <1>1, <1>2, <1>3, ExportNow
<1>5. Seeks(t, N, r) /\ \A i \in DOMAIN rest : Seeks(t, N, rest[i])
  <2>1. prog[c] \in Seq(R)
    BY DEF Typed
  <2>2. /\ r = prog[c][1] /\ 1 \in DOMAIN prog[c]
        /\ \A i \in DOMAIN rest : i + 1 \in DOMAIN prog[c] /\ rest[i] = prog[c][i + 1]
    BY <1>2, <2>1, Later
  <2> QED BY <1>1, <2>2
<1>6. ASSUME NEW p \in Seq(R), AllWalk(p), \A i \in DOMAIN p : Seeks(t, N, p[i]), On(c, Go(p)),
             tree' = tree, flight' = {}, Gathering(prog'[c], n, S, archive'[c]),
             archive'[c] \subseteq Exported(Seen(t), n)
      PROVE  G
  <2>1. Go(p).prog = p
    BY <1>6, GoWalks
  <2>2. prog'[c] = p
    BY <1>6, <2>1 DEF On
  <2>3. CASE p = <<>>
    <3>1. Go(p).ret = "ok"
      BY <2>3, GoEnds
    <3>2. Exported(Seen(t), n) \subseteq archive'[c]
      <4> SUFFICES ASSUME NEW e \in Exported(Seen(t), n) PROVE e \in archive'[c]
        OBVIOUS
      <4>1. PICK f \in S : InTree(n, f[1]) /\ e = <<Rebased(f[1], n, <<>>), f[2]>>
        BY DEF Exported
      <4>2. Entry(f, n) \in archive'[c] \/ Finds(<<>>, f)
        BY <1>6, <2>2, <2>3, <4>1 DEF Gathering
      <4> QED BY <4>1, <4>2, NothingFinds DEF Entry
    <3>3. archive'[c] = Exported(Seen(t), n)
      BY <1>6, <3>2
    <3>4. Keeps(cur[c], Seen(t), Go(p).ret, Seen(tree'), archive'[c])
      BY <1>1, <1>6, <3>1, <3>3 DEF Keeps
    <3> QED BY <1>6, <2>1, <2>3, <3>4, GoesIs
  <2>4. CASE p # <<>>
    <3>1. Exporting(t, tree', n, p, archive'[c])
      BY <1>1, <1>6, <2>2 DEF Exporting
    <3>2. Underway(t, tree', flight', cur[c], [prog |-> Go(p).prog, ret |-> Go(p).ret], archive'[c])
      BY <1>6, <2>1, <3>1 DEF Underway
    <3> QED BY <1>6, <2>1, <2>4, <3>2, GoesIs
  <2> QED BY <2>3, <2>4
<1>7. CASE r.do = "look"
  <2>1. tree' = tree /\ flight' = {} /\ archive' = archive
    BY <1>7, TurnIs DEF Same
  <2>2. Looks(c)
    BY <1>7 DEF Turn, Lists, Does, IsRefused, Uploads, Exports, Doing, Changes
  <2>3. Gathering(prog'[c], n, S, archive'[c])
    BY <1>1, <1>2, <1>3, <2>1, <2>2, WalkLooks
  <2>4. r.why = "walk"
    BY <1>4, <1>7 DEF IsWalkRequest
  <2>5. Looked(r) = r.n /\ On(c, After(r, KindIn(tree, Looked(r)), rest))
    BY <1>7, <2>4, TurnIs DEF Looked
  <2>6. On(c, Walk(r, KindIn(tree, r.n), rest))
    BY <2>4, <2>5 DEF After
  <2>7. \E s \in Seq(R) : /\ AllWalk(s) /\ \A i \in DOMAIN s : Seeks(t, N, s[i])
                          /\ Walk(r, KindIn(tree, r.n), rest) = Go(s \o rest)
    <3>1. CASE KindIn(tree, r.n) = "dir"
      <4> DEFINE b == Act("list", r.n)
      <4>1. b \in R
        BY <1>4, MadeRequests
      <4>2. b.do = "list" /\ b.n = r.n /\ Walk(r, KindIn(tree, r.n), rest) = Go(<<b>> \o rest)
        BY <3>1 DEF Act, Request, Walk
      <4> HIDE DEF b, r, rest, R
      <4>3. <<b>> \in Seq(R) /\ AllWalk(<<b>>)
        BY <4>1, <4>2, OneFinds DEF IsWalkRequest
      <4>4. Seeks(t, N, b)
        BY <1>5, <4>2 DEF Seeks
      <4> QED BY <4>2, <4>3, <4>4, SeekOne
    <3>2. CASE KindIn(tree, r.n) = "file"
      <4> DEFINE b == Request("export", "", r.n, <<>>, tree[r.n])
      <4>1. r.n \in DOMAIN tree /\ tree[r.n] # Dir
        BY <3>2 DEF KindIn
      <4>2. b \in R
        <5>1. tree[r.n] \in Contents
          BY <4>1 DEF Typed, IsFine, IsTree, Contents
        <5> QED BY <1>4, <5>1, MadeRequests
      <4>3. /\ b.do = "export" /\ b.n = r.n /\ b.v = tree[r.n]
            /\ Walk(r, KindIn(tree, r.n), rest) = Go(<<b>> \o rest)
        BY <3>2 DEF Request, Walk
      <4> HIDE DEF b, r, rest, R
      <4>4. <<b>> \in Seq(R) /\ AllWalk(<<b>>)
        BY <4>2, <4>3, OneFinds DEF IsWalkRequest
      <4>5. Seeks(t, N, b)
        BY <1>1, <1>5, <4>1, <4>3 DEF Seeks
      <4> QED BY <4>3, <4>4, <4>5, SeekOne
    <3>3. CASE KindIn(tree, r.n) = "missing"
      <4> DEFINE e == <<>>
      <4>1. Walk(r, KindIn(tree, r.n), rest) = Go(rest)
        BY <3>3 DEF Walk
      <4>2. e \in Seq(R) /\ AllWalk(e) /\ e \o rest = rest /\ DOMAIN e = {}
        BY <1>4, NothingFinds, ConcatEmptySeq
      <4> HIDE DEF e, r, rest, R
      <4>3. \A i \in DOMAIN e : Seeks(t, N, e[i])
        BY <4>2
      <4> QED BY <4>1, <4>2, <4>3
    <3> QED BY <3>1, <3>2, <3>3, KindsAre
  <2>8. PICK s \in Seq(R) : /\ AllWalk(s) /\ \A i \in DOMAIN s : Seeks(t, N, s[i])
                            /\ Walk(r, KindIn(tree, r.n), rest) = Go(s \o rest)
    BY <2>7
  <2>9. s \o rest \in Seq(R) /\ AllWalk(s \o rest)
    BY <1>4, <2>8, FindsBoth
  <2>10. \A i \in DOMAIN (s \o rest) : Seeks(t, N, (s \o rest)[i])
    BY <1>4, <1>5, <2>8, SeekBoth
  <2> QED BY <1>1, <1>6, <2>1, <2>3, <2>6, <2>8, <2>9, <2>10
<1>8. CASE r.do = "list"
  <2>1. tree' = tree /\ flight' = {} /\ archive' = archive /\ On(c, WalkEntries(r.n, rest))
    BY <1>8, TurnIs DEF Same
  <2>2. Lists(c)
    BY <1>8 DEF Turn, Looks, Does, IsRefused, Uploads, Exports, Doing, Changes
  <2>3. Gathering(prog'[c], n, S, archive'[c])
    BY <1>1, <1>2, <1>3, <2>1, <2>2, WalkLists
  <2>4. IsFine(tree)
    BY DEF Typed
  <2>5. PICK q \in Seq({EntryRequest(p) : p \in Children(r.n)}) :
          q \in Seq(Reqs(calm)) /\ WalkEntries(r.n, rest) = Go(q \o rest)
    BY <1>4, <2>4, WalkEntriesIs
  <2>6. ASSUME NEW p \in Children(r.n)
        PROVE  IsWalkRequest(EntryRequest(p)) /\ Seeks(t, N, EntryRequest(p))
    <3>1. p \in DOMAIN tree /\ p \in Path /\ Under(r.n, p)
      BY <1>4, <2>4, ChildrenTypes
    <3>2. InTree(N, p)
      BY <1>3, <1>4, <1>5, <3>1, InTreeTransitive DEF Seeks, Under, Path
    <3>3. CASE Kind(p) = "dir"
      <4>1. EntryRequest(p).do = "list" /\ EntryRequest(p).n = p
        BY <3>3 DEF EntryRequest, Act, Request
      <4> QED BY <3>2, <4>1 DEF Seeks, IsWalkRequest
    <3>4. CASE Kind(p) # "dir"
      <4>1. EntryRequest(p).do = "export" /\ EntryRequest(p).n = p /\ EntryRequest(p).v = tree[p]
        BY <3>4 DEF EntryRequest, Request
      <4>2. tree[p] # Dir
        BY <3>1, <3>4, KindIs
      <4> QED BY <1>1, <3>1, <3>2, <4>1, <4>2 DEF Seeks, IsWalkRequest
    <3> QED BY <3>3, <3>4
  <2>7. ASSUME NEW i \in DOMAIN q PROVE IsWalkRequest(q[i]) /\ Seeks(t, N, q[i])
    <3>1. q[i] \in {EntryRequest(p) : p \in Children(r.n)}
      BY <2>5
    <3>2. PICK p \in Children(r.n) : q[i] = EntryRequest(p)
      BY <3>1
    <3> QED BY <2>6, <3>2
  <2>8. AllWalk(q) /\ \A i \in DOMAIN q : Seeks(t, N, q[i])
    BY <2>7 DEF AllWalk
  <2>9. q \o rest \in Seq(R) /\ AllWalk(q \o rest)
    BY <1>4, <2>5, <2>8, FindsBoth
  <2>10. \A i \in DOMAIN (q \o rest) : Seeks(t, N, (q \o rest)[i])
    BY <1>4, <1>5, <2>5, <2>8, SeekBoth
  <2> QED BY <1>1, <1>6, <2>1, <2>3, <2>5, <2>9, <2>10
<1>9. CASE r.do = "export"
  <2> DEFINE now == tree[r.n]
             rel == Rebased(r.n, N, <<>>)
             e == <<rel, IF Sizes[now] = Sizes[r.v] THEN now ELSE Cut>>
  <2>1. tree' = tree /\ flight' = {} /\ Exports(c)
    BY <1>9, TurnIs DEF Same
  <2>2. r.n \in DOMAIN tree /\ tree[r.n] = r.v /\ r.v # Dir /\ InTree(N, r.n)
    BY <1>1, <1>5, <1>9 DEF Seeks
  <2>3. ~(Kind(r.n) # "file" \/ Sizes[now] < Sizes[r.v])
    <3>1. Kind(r.n) = "file" /\ r.v \in DOMAIN Sizes
      BY <2>2, KindIs DEF Typed, IsFine, IsTree
    <3>2. Sizes[r.v] \in Nat
      BY <3>1, NamespaceAssumption
    <3> QED BY <2>2, <3>1, <3>2
  <2>4. Continue(c, Go(rest)) /\ archive' = [archive EXCEPT ![c] = @ \cup {e}]
    BY <2>1, <2>3 DEF Exports
  <2>5. On(c, Go(rest)) /\ archive'[c] = archive[c] \cup {e}
    BY <2>4 DEF Continue, Typed, On
  <2>6. e = <<rel, tree[r.n]>>
    BY <2>2
  <2>7. e \in Exported(Seen(t), n)
    BY <1>1, <1>4, <2>2, <2>6, ExportedEntry
  <2>8. ret'[c] \in {"none", "ok"}
    BY <1>4, <2>5, GoWalks DEF On
  <2>9. Gathering(prog'[c], n, S, archive'[c])
    BY <1>1, <1>2, <1>3, <2>1, <2>8, WalkExports
  <2> HIDE DEF e, r, rest, R
  <2> QED BY <1>1, <1>4, <1>5, <1>6, <2>1, <2>5, <2>7, <2>9
<1> QED BY <1>4, <1>7, <1>8, <1>9 DEF IsWalkRequest

-----------------------------------------------------------------------------
(* Import alone.                                                           *)

\* The call x made by another call, which goes on with u when x succeeds.
Framed(x, u) ==
  IF x.prog # <<>> THEN [prog |-> x.prog \o u, ret |-> "none"]
  ELSE IF x.ret = "ok" THEN [prog |-> u, ret |-> IF u = <<>> THEN "ok" ELSE "none"]
  ELSE x

\* The rest of two programs, one after the other.
LEMMA RestOfBoth ==
  ASSUME NEW R, NEW q \in Seq(R), NEW u \in Seq(R), NEW i \in 1..Len(q) + 1
  PROVE  SubSeq(q \o u, i, Len(q \o u)) = SubSeq(q, i, Len(q)) \o u
<1> DEFINE a == SubSeq(q \o u, i, Len(q \o u))
           b == SubSeq(q, i, Len(q))
<1>1. /\ Len(q) \in Nat /\ Len(u) \in Nat /\ q \o u \in Seq(R) /\ Len(q \o u) = Len(q) + Len(u)
      /\ i \in Nat
  OBVIOUS
<1>2. b \in Seq(R) /\ Len(b) = Len(q) - i + 1
  BY <1>1
<1>3. \A j \in 1..Len(b) : b[j] = q[i + j - 1]
  BY <1>1, <1>2
<1>4. a \in Seq(R) /\ Len(a) = Len(q) + Len(u) - i + 1
  BY <1>1
<1>5. \A j \in 1..Len(a) : a[j] = (q \o u)[i + j - 1]
  BY <1>1, <1>4
<1>6. b \o u \in Seq(R) /\ Len(b \o u) = Len(q) - i + 1 + Len(u)
  BY <1>2
<1> HIDE DEF a, b
<1>7. ASSUME NEW j \in 1..Len(a) PROVE a[j] = (b \o u)[j]
  <2>1. CASE j =< Len(b)
    <3>1. j \in 1..Len(b) /\ i + j - 1 \in 1..Len(q)
      BY <1>1, <1>2, <1>4, <2>1
    <3>2. (b \o u)[j] = b[j] /\ (q \o u)[i + j - 1] = q[i + j - 1]
      BY <1>1, <1>2, <3>1
    <3> QED BY <1>3, <1>5, <3>1, <3>2
  <2>2. CASE ~(j =< Len(b))
    <3>1. /\ j - Len(b) \in 1..Len(u) /\ i + j - 1 > Len(q) /\ i + j - 1 \in 1..Len(q) + Len(u)
          /\ i + j - 1 - Len(q) = j - Len(b) /\ j \in 1..Len(b) + Len(u)
      BY <1>1, <1>2, <1>4, <2>2
    <3>2. (b \o u)[j] = u[j - Len(b)]
      BY <1>2, <2>2, <3>1
    <3>3. (q \o u)[i + j - 1] = u[i + j - 1 - Len(q)]
      BY <1>1, <3>1
    <3> QED BY <1>5, <3>1, <3>2, <3>3
  <2> QED BY <2>1, <2>2
<1>8. Len(a) = Len(b \o u)
  BY <1>1, <1>4, <1>6
<1>9. a = b \o u
  BY <1>4, <1>6, <1>7, <1>8, SeqEqual
<1> QED BY <1>9 DEF a, b

\* A program with another one behind it.
LEMMA Behind ==
  ASSUME NEW R, NEW q \in Seq(R), NEW u \in Seq(R)
  PROVE  /\ q \o u \in Seq(R) /\ DOMAIN q \subseteq DOMAIN (q \o u) /\ DOMAIN q \subseteq Nat
         /\ \A i \in DOMAIN q : (q \o u)[i] = q[i]
         /\ \A i \in DOMAIN (q \o u) : i \in DOMAIN q \/ i > Len(q)
         /\ \A i \in DOMAIN (q \o u) : i > Len(q) =>
              i - Len(q) \in DOMAIN u /\ (q \o u)[i] = u[i - Len(q)]
         /\ Len(q) \in Nat /\ DOMAIN (q \o u) \subseteq Nat /\ \A i \in DOMAIN q : i =< Len(q) /\ 1 =< i
         /\ u # <<>> => Len(q) + 1 \in DOMAIN (q \o u)
<1>1. /\ DOMAIN q = 1..Len(q) /\ DOMAIN u = 1..Len(u) /\ q \o u \in Seq(R)
      /\ DOMAIN (q \o u) = 1..Len(q) + Len(u) /\ Len(q) \in Nat /\ Len(u) \in Nat
  OBVIOUS
<1>2. \A i \in DOMAIN q : (q \o u)[i] = q[i]
  BY <1>1
<1>3. \A i \in DOMAIN (q \o u) : i > Len(q) => i - Len(q) \in DOMAIN u /\ (q \o u)[i] = u[i - Len(q)]
  BY <1>1
<1>4. u # <<>> => Len(u) # 0
  BY <1>1
<1> QED BY <1>1, <1>2, <1>3, <1>4

\* Requests without a handler among them.
Plain(u) == \A i \in DOMAIN u : u[i].do # "catch"

\* An error in a call that another call has made.
LEMMA FailFramed ==
  ASSUME NEW R, NEW q \in Seq(R), NEW u \in Seq(R), Plain(u), NEW e, e # "ok"
  PROVE  Fail(e, q \o u) = Framed(Fail(e, q), u)
<1> DEFINE p == q \o u
<1>1. /\ p \in Seq(R) /\ DOMAIN q \subseteq DOMAIN p /\ DOMAIN q \subseteq Nat /\ DOMAIN p \subseteq Nat
      /\ \A i \in DOMAIN q : p[i] = q[i]
      /\ \A i \in DOMAIN p : i \in DOMAIN q \/ i > Len(q)
      /\ \A i \in DOMAIN p : i > Len(q) => i - Len(q) \in DOMAIN u /\ p[i] = u[i - Len(q)]
  BY Behind
<1> HIDE DEF p
<1>2. Caught(p) = Caught(q)
  <2>1. \A i \in DOMAIN p : p[i].do = "catch" => i \in DOMAIN q
    BY <1>1 DEF Plain
  <2> QED BY <1>1, <2>1 DEF Caught
<1>3. CASE Caught(q) = {}
  <2>1. Fail(e, q) = [prog |-> <<>>, ret |-> e]
    BY <1>3, FailEnds DEF Caught
  <2>2. Fail(e, p) = [prog |-> <<>>, ret |-> e]
    BY <1>2, <1>3, FailEnds DEF Caught
  <2> QED BY <2>1, <2>2 DEF Framed, p
<1>4. CASE Caught(q) # {}
  <2> DEFINE i == First(Caught(q))
  <2>1. Caught(q) \subseteq Nat
    BY <1>1 DEF Caught
  <2>2. i \in Caught(q)
    BY <1>4, <2>1, FirstType
  <2>3. Fail(e, q) = [prog |-> <<Look(e, q[i].n)>> \o SubSeq(q, i + 1, Len(q)), ret |-> "none"]
    BY <1>4 DEF Fail, Caught, First
  <2>4. Fail(e, p) = [prog |-> <<Look(e, p[i].n)>> \o SubSeq(p, i + 1, Len(p)), ret |-> "none"]
    BY <1>2, <1>4 DEF Fail, Caught, First
  <2>5. i \in DOMAIN q /\ p[i] = q[i]
    BY <1>1, <2>2 DEF Caught
  <2> HIDE DEF i
  <2>6. i + 1 \in 1..Len(q) + 1
    BY <2>5
  <2>7. SubSeq(p, i + 1, Len(p)) = SubSeq(q, i + 1, Len(q)) \o u
    BY <2>6, RestOfBoth DEF p
  <2> DEFINE l == Look(e, q[i].n)
             v == SubSeq(q, i + 1, Len(q))
             Q == R \cup {l}
  <2>8. v \in Seq(R)
    BY <2>5
  <2> HIDE DEF v, l
  <2>9. v \in Seq(Q) /\ u \in Seq(Q) /\ <<l>> \in Seq(Q)
    BY <2>8
  <2>10. <<l>> \o (v \o u) = (<<l>> \o v) \o u /\ <<l>> \o v # <<>>
    BY <2>9, ConcatAssociative, PutInFront
  <2>11. Fail(e, p) = [prog |-> (<<l>> \o v) \o u, ret |-> "none"]
    BY <2>4, <2>5, <2>7, <2>10 DEF v, l
  <2>12. Fail(e, q) = [prog |-> <<l>> \o v, ret |-> "none"]
    BY <2>3 DEF v, l
  <2> QED BY <2>10, <2>11, <2>12 DEF Framed, p
<1> QED BY <1>3, <1>4

\* What a call does next that another call has made.
LEMMA GoFramed ==
  ASSUME NEW R, NEW q \in Seq(R), NEW u \in Seq(R), Plain(u)
  PROVE  Go(q \o u) = Framed(Go(q), u)
<1> DEFINE p == q \o u
<1>1. /\ p \in Seq(R) /\ DOMAIN q \subseteq DOMAIN p /\ DOMAIN q \subseteq Nat /\ DOMAIN p \subseteq Nat
      /\ \A i \in DOMAIN q : p[i] = q[i]
      /\ \A i \in DOMAIN p : i \in DOMAIN q \/ i > Len(q)
      /\ \A i \in DOMAIN p : i > Len(q) => i - Len(q) \in DOMAIN u /\ p[i] = u[i - Len(q)]
      /\ Len(q) \in Nat /\ (\A i \in DOMAIN q : i =< Len(q) /\ 1 =< i)
      /\ u # <<>> => Len(q) + 1 \in DOMAIN p
  BY Behind
<1> HIDE DEF p
<1>2. CASE Live(q) # {}
  <2> DEFINE i == First(Live(q))
  <2>1. Live(q) \subseteq Nat /\ Live(q) \subseteq Live(p) /\ Live(p) \subseteq Nat
    BY <1>1 DEF Live
  <2>2. i \in Live(q) /\ \A j \in Live(q) : i =< j
    BY <1>2, <2>1, FirstType
  <2> HIDE DEF i
  <2>3. \A j \in Live(p) : i =< j
    <3> SUFFICES ASSUME NEW j \in Live(p) PROVE i =< j
      OBVIOUS
    <3>1. j \in DOMAIN p /\ p[j].do # "catch" /\ i \in DOMAIN q /\ i =< Len(q) /\ i \in Nat /\ j \in Nat
      BY <1>1, <2>1, <2>2 DEF Live
    <3>2. CASE j \in DOMAIN q
      BY <1>1, <2>2, <3>1, <3>2 DEF Live
    <3>3. CASE j > Len(q)
      BY <1>1, <3>1, <3>3
    <3> QED BY <1>1, <3>1, <3>2, <3>3
  <2>4. First(Live(p)) = i /\ First(Live(q)) = i
    <3>1. i \in Live(p)
      BY <2>1, <2>2
    <3>2. First(Live(p)) = i
      BY <2>1, <2>3, <3>1, FirstIs
    <3> QED BY <3>2 DEF i
  <2> DEFINE v == SubSeq(q, i, Len(q))
  <2>5. i \in DOMAIN q /\ i \in 1..Len(q) + 1
    BY <1>1, <2>2 DEF Live
  <2>6. SubSeq(p, i, Len(p)) = v \o u
    BY <2>5, RestOfBoth DEF p
  <2>7. v \in Seq(R) /\ v # <<>>
    BY <2>5, RestFrom
  <2> HIDE DEF v
  <2>8. v \o u # <<>>
    BY <2>7
  <2>9. Go(q) = [prog |-> v, ret |-> "none"]
    BY <1>2, <2>4, <2>7 DEF Go, Live, First, v
  <2>10. Live(p) # {}
    BY <1>2, <2>1
  <2>11. Go(p) = [prog |-> v \o u, ret |-> "none"]
    BY <2>4, <2>6, <2>8, <2>10 DEF Go, Live, First
  <2> QED BY <2>7, <2>9, <2>11 DEF Framed, p
<1>3. CASE Live(q) = {}
  <2>1. Go(q) = [prog |-> <<>>, ret |-> "ok"]
    BY <1>3 DEF Go, Live
  <2>2. CASE u = <<>>
    <3>1. p = q
      BY <2>2 DEF p
    <3> QED BY <2>1, <2>2, <3>1 DEF Framed, p
  <2>3. CASE u # <<>>
    <3> DEFINE i == Len(q) + 1
    <3>1. i \in DOMAIN p /\ p[i].do # "catch" /\ i \in Nat
      <4>1. i > Len(q) /\ i \in DOMAIN p
        BY <1>1, <2>3
      <4> QED BY <1>1, <4>1 DEF Plain
    <3>2. \A j \in Live(p) : i =< j
      <4> SUFFICES ASSUME NEW j \in Live(p) PROVE i =< j
        OBVIOUS
      <4>1. j \in DOMAIN p /\ p[j].do # "catch" /\ j \in Nat
        BY <1>1 DEF Live
      <4>2. j \notin DOMAIN q
        BY <1>1, <1>3, <4>1 DEF Live
      <4> QED BY <1>1, <4>1, <4>2
    <3>3. i \in Live(p) /\ Live(p) \subseteq Nat
      BY <1>1, <3>1 DEF Live
    <3> HIDE DEF i
    <3>4. First(Live(p)) = i
      BY <3>2, <3>3, FirstIs
    <3>5. SubSeq(p, i, Len(p)) = SubSeq(q, i, Len(q)) \o u
      BY <1>1, RestOfBoth DEF p, i
    <3>6. SubSeq(q, i, Len(q)) = <<>>
      BY <1>1 DEF i
    <3>7. SubSeq(p, i, Len(p)) = u
      BY <3>5, <3>6
    <3>8. Go(p) = [prog |-> u, ret |-> "none"]
      BY <2>3, <3>3, <3>4, <3>7 DEF Go, Live, First
    <3> QED BY <2>1, <2>3, <3>8 DEF Framed, p
  <2> QED BY <2>2, <2>3
<1> QED BY <1>2, <1>3

\* Requests in front of a program with another one behind it.
LEMMA BothFramed ==
  ASSUME NEW R, NEW s \in Seq(R), NEW q \in Seq(R), NEW u \in Seq(R), Plain(u)
  PROVE  /\ Go(s \o (q \o u)) = Framed(Go(s \o q), u)
         /\ \A e : e # "ok" => Fail(e, s \o (q \o u)) = Framed(Fail(e, s \o q), u)
         /\ s \o (q \o u) = (s \o q) \o u /\ s \o q \in Seq(R)
<1>1. s \o (q \o u) = (s \o q) \o u
  BY ConcatAssociative
<1> DEFINE p == s \o q
<1>2. p \in Seq(R)
  BY ConcatProperties
<1> HIDE DEF p
<1>3. Go(p \o u) = Framed(Go(p), u)
  BY <1>2, GoFramed
<1>4. \A e : e # "ok" => Fail(e, p \o u) = Framed(Fail(e, p), u)
  BY <1>2, FailFramed
<1> QED BY <1>1, <1>2, <1>3, <1>4 DEF p

\* A look of a MkdirAll that another call has made.
LEMMA AfterFramed ==
  ASSUME NEW q \in Seq(Reqs(FALSE)), NEW u \in Seq(Reqs(FALSE)), Plain(u), NEW r \in Reqs(FALSE),
         r.why \in {"mkdirAll", "opendir", "mkparent", "made", "all"} \cup Error,
         NEW a \in {"dir", "file", "missing"}
  PROVE  After(r, a, q \o u) = Framed(After(r, a, q), u)
<1> DEFINE R == Reqs(FALSE)
           p == q \o u
<1>1. r.n \in Path
  BY RequestTypes
<1>2. /\ Act("catch", r.n) \in R /\ Act("mkdir", r.n) \in R /\ Look("mkdirAll", r.n) \in R
      /\ Look("opendir", r.n) \in R /\ Look("mkparent", r.n) \in R /\ Look("made", r.n) \in R
  <2>1. \A why \in {"mkdirAll", "opendir", "mkparent", "made"} :
          why \in (Whys \ {"", "parent", "entry", "import", "remove"}) \cup Error
    BY DEF Whys
  <2> QED BY <1>1, <2>1, MadeRequests
<1>3. MakeDir(r.n) \in R
  BY <1>2 DEF MakeDir
<1> HIDE DEF R
<1>4. q \in Seq(R) /\ u \in Seq(R)
  BY DEF R
<1>5. /\ Go(p) = Framed(Go(q), u)
      /\ \A e : e # "ok" => Fail(e, p) = Framed(Fail(e, q), u)
  BY <1>4, GoFramed, FailFramed
<1>6. \A s \in Seq(R) : /\ Go(s \o p) = Framed(Go(s \o q), u)
                        /\ \A e : e # "ok" => Fail(e, s \o p) = Framed(Fail(e, s \o q), u)
  BY <1>4, BothFramed
<1>7. \A e \in Error : e # "ok"
  BY DEF Error
<1>8. CASE r.why = "mkdirAll"
  <2> DEFINE k == <<Act("catch", r.n)>>
             m == <<MakeDir(r.n)>>
  <2>1. After(r, a, p) = IF a \in {"dir", "file"} THEN Fail("errExist", k \o p) ELSE Go(m \o (k \o p))
    BY <1>8 DEF After, Mkdir
  <2>2. After(r, a, q) = IF a \in {"dir", "file"} THEN Fail("errExist", k \o q) ELSE Go(m \o (k \o q))
    BY <1>8 DEF After, Mkdir
  <2>3. k \in Seq(R) /\ m \in Seq(R)
    BY <1>2, <1>3
  <2> HIDE DEF k, m, p
  <2>4. Fail("errExist", k \o p) = Framed(Fail("errExist", k \o q), u)
    BY <1>6, <2>3
  <2>5. Go(m \o (k \o p)) = Framed(Go(m \o (k \o q)), u)
    <3>1. k \o p = (k \o q) \o u /\ k \o q \in Seq(R)
      BY <1>4, <2>3, BothFramed DEF p
    <3> DEFINE kq == k \o q
    <3> HIDE DEF kq
    <3>2. kq \in Seq(R)
      BY <3>1 DEF kq
    <3>3. Go(m \o (kq \o u)) = Framed(Go(m \o kq), u)
      BY <1>4, <2>3, <3>2, BothFramed
    <3> QED BY <3>1, <3>3 DEF kq
  <2> QED BY <2>1, <2>2, <2>4, <2>5 DEF p
<1>9. CASE r.why \in {"opendir", "mkparent", "made"}
  <2> DEFINE make == <<Act("mkdir", r.n), Look("made", r.n)>>
             parent == IF Len(r.n) = 1 THEN make ELSE <<Look("mkparent", r.n)>>
  <2>1. make \in Seq(R) /\ parent \in Seq(R)
    BY <1>2
  <2>2. \A v : After(r, a, v) =
          CASE a = "missing" /\ r.why = "opendir" -> Go(parent \o v)
            [] a = "missing" /\ r.why # "opendir" -> Fail("errNotExist", v)
            [] a \in {"dir", "file"} /\ r.why = "mkparent" -> Go(make \o v)
            [] a = "file" /\ r.why = "opendir" -> Fail("errExist", v)
            [] OTHER -> Go(v)
    BY <1>9 DEF After, OpenDir
  <2> HIDE DEF make, parent, p
  <2>3. Go(parent \o p) = Framed(Go(parent \o q), u) /\ Go(make \o p) = Framed(Go(make \o q), u)
    BY <1>6, <2>1
  <2>4. /\ Fail("errNotExist", p) = Framed(Fail("errNotExist", q), u)
        /\ Fail("errExist", p) = Framed(Fail("errExist", q), u)
    BY <1>5
  <2>5. After(r, a, p) = Framed(After(r, a, q), u)
    <3>1. CASE a = "missing" /\ r.why = "opendir"
      BY <2>2, <2>3, <3>1
    <3>2. CASE a = "missing" /\ r.why # "opendir"
      BY <2>2, <2>4, <3>2
    <3>3. CASE a \in {"dir", "file"} /\ r.why = "mkparent"
      BY <2>2, <2>3, <3>3
    <3>4. CASE a = "file" /\ r.why = "opendir"
      BY <2>2, <2>4, <3>4
    <3>5. CASE (a = "dir" /\ r.why = "opendir") \/ (a \in {"dir", "file"} /\ r.why = "made")
      BY <1>5, <2>2, <3>5
    <3> QED BY <1>9, <3>1, <3>2, <3>3, <3>4, <3>5
  <2> QED BY <2>5 DEF p
<1>10. CASE r.why \in {"all"} \cup Error
  <2> DEFINE mkdir == <<Look("mkdirAll", r.n)>>
             up == IF Above(r.n) THEN <<Look("all", Parent(r.n))>> ELSE <<>>
             s == up \o mkdir
  <2>1. s \in Seq(R)
    <3>1. CASE Above(r.n)
      <4>1. r.n # <<>>
        <5>1. Len(FullName(<<>>)) \in Nat
          BY BelowRoot, NameLength
        <5> QED BY <3>1, <5>1 DEF Above
      <4>2. Parent(r.n) \in Path
        BY <1>1, <4>1, ParentAbove
      <4>3. Look("all", Parent(r.n)) \in R
        <5>1. "all" \in (Whys \ {"", "parent", "entry", "import", "remove"}) \cup Error
          BY DEF Whys
        <5> QED BY <4>2, <5>1, MadeRequests DEF R
      <4> QED BY <1>2, <3>1, <4>3
    <3>2. CASE ~Above(r.n)
      BY <1>2, <3>2
    <3> QED BY <3>1, <3>2
  <2>2. r.why \notin {"mkdir", "mkdirAll", "opendir", "mkparent", "made", "parent", "entry", "remove", "walk", "import"}
    BY <1>10 DEF Error, Results
  <2>3. \A v : After(r, a, v) =
          CASE r.why = "all" /\ a = "dir" -> Go(v)
            [] r.why = "all" /\ a = "file" -> Fail("errNotDir", v)
            [] r.why = "all" /\ a \in {"missing", "err"} -> Go(s \o v)
            [] OTHER -> IF a = "dir" THEN Go(v) ELSE Fail(r.why, v)
    BY <2>2 DEF After, MkdirAll
  <2> HIDE DEF s, p
  <2>4. Go(s \o p) = Framed(Go(s \o q), u) /\ Fail("errNotDir", p) = Framed(Fail("errNotDir", q), u)
    BY <1>5, <1>6, <2>1
  <2>5. r.why \in Error => Fail(r.why, p) = Framed(Fail(r.why, q), u)
    BY <1>5, <1>7
  <2>6. After(r, a, p) = Framed(After(r, a, q), u)
    <3>1. CASE r.why = "all"
      BY <1>5, <2>3, <2>4, <3>1
    <3>2. CASE r.why \in Error /\ r.why # "all"
      BY <1>5, <2>3, <2>5, <3>2
    <3> QED BY <1>10, <3>1, <3>2
  <2> QED BY <2>6 DEF p
<1> QED BY <1>8, <1>9, <1>10

\* What has room, seen from its elements.
LEMMA RoomFor ==
  ASSUME NEW N \in Path, NEW W, W \subseteq Path \X Contents, NEW b, Room(b, N, W), NEW w \in W
  PROVE  /\ w[1] \in Path /\ w[2] \in Contents /\ w[2] # Dir /\ w[1] # <<>> /\ w = <<w[1], w[2]>>
         /\ Parent(w[1]) \in Path /\ Under(Parent(w[1]), w[1]) /\ Under(N, w[1])
         /\ InTree(N, Parent(w[1])) /\ KindIn(b, w[1]) # "dir" /\ ~InTree(w[1], N)
         /\ \A v \in W : w = v \/ ~InTree(w[1], v[1])
<1>1. w[1] \in Path /\ w[2] \in Contents /\ w = <<w[1], w[2]>>
  OBVIOUS
<1>2. Under(N, w[1]) /\ KindIn(b, w[1]) # "dir" /\ \A v \in W : w = v \/ ~InTree(w[1], v[1])
  BY DEF Room
<1>3. w[1] # <<>> /\ ~InTree(w[1], N)
  <2>1. Len(w[1]) \in Nat /\ Len(N) \in Nat /\ Len(N) =< Len(w[1]) /\ N = SubSeq(w[1], 1, Len(N))
    BY <1>1, <1>2 DEF Under, InTree, Path
  <2>2. Len(N) # Len(w[1])
    <3>1. SubSeq(w[1], 1, Len(w[1])) = w[1]
      BY <1>1 DEF Path
    <3> QED BY <1>2, <2>1, <3>1 DEF Under
  <2> QED BY <2>1, <2>2 DEF InTree
<1>4. Parent(w[1]) \in Path /\ Under(Parent(w[1]), w[1])
  BY <1>1, <1>3, ParentAbove
<1>5. InTree(N, Parent(w[1]))
  BY <1>1, <1>2, ParentInTree DEF Path, Under
<1>6. w[2] # Dir
  BY <1>1, NamespaceAssumption DEF Contents, Dir
<1> QED BY <1>1, <1>2, <1>3, <1>4, <1>5, <1>6

\* What is on the way to a directory that is needed.
LEMMA OnTheWay ==
  ASSUME NEW N \in Path, NEW W, W \subseteq Path \X Contents, NEW b, Room(b, N, W), NEW m \in Needed(N, W)
  PROVE  /\ m \in Path /\ InTree(N, m)
         /\ \A d \in Path : InTree(d, m) => /\ InTree(d, N) \/ \E w \in W : Under(d, w[1])
                                            /\ \A w \in W : d # w[1]
<1>1. CASE m = N
  <2>1. InTree(N, N)
    BY InOwnTree DEF Path
  <2>2. ASSUME NEW d \in Path, InTree(d, N), NEW w \in W PROVE d # w[1]
    BY <2>2, RoomFor
  <2> QED BY <1>1, <2>1, <2>2
<1>2. CASE \E w \in W : m = Parent(w[1])
  <2>1. PICK w \in W : m = Parent(w[1])
    BY <1>2
  <2>2. w[1] \in Path /\ m \in Path /\ Under(m, w[1]) /\ InTree(N, m) /\ w[1] # <<>>
    BY <2>1, RoomFor
  <2>3. Len(m) = Len(w[1]) - 1 /\ Len(w[1]) \in Nat /\ Len(m) \in Nat
    BY <2>1, <2>2, ParentAbove DEF Path
  <2>4. ASSUME NEW d \in Path, InTree(d, m)
        PROVE  Under(d, w[1])
    <3>1. InTree(d, w[1])
      BY <2>2, <2>4, InTreeTransitive DEF Path, Under
    <3>2. Len(d) =< Len(m) /\ Len(d) \in Nat
      BY <2>4 DEF InTree, Path
    <3>3. d # w[1]
      BY <2>3, <3>2
    <3> QED BY <3>1, <3>3 DEF Under
  <2>5. ASSUME NEW d \in Path, InTree(d, m), NEW v \in W, d = v[1] PROVE FALSE
    <3>1. Under(v[1], w[1])
      BY <2>4, <2>5
    <3>2. v = w \/ ~InTree(v[1], w[1])
      BY RoomFor
    <3> QED BY <3>1, <3>2 DEF Under
  <2> QED BY <2>2, <2>4, <2>5
<1> QED BY <1>1, <1>2 DEF Needed

\* What is stored, what is a directory and what is a file in b is so in u, where
\* there is room for W as well.
Kept(b, u, N, W) ==
  /\ KindsStay(b, u) /\ Room(u, N, W)
  /\ \A w \in W : w[1] \in DOMAIN b /\ b[w[1]] = w[2] => w[1] \in DOMAIN u /\ u[w[1]] = w[2]

\* A file is stored.
LEMMA UploadKept ==
  ASSUME NEW N \in Path, NEW W, W \subseteq Path \X Contents, NEW b, Room(b, N, W), NEW w \in W
  PROVE  LET u == Placed(b, w[1], w[2]) IN Kept(b, u, N, W) /\ w[1] \in DOMAIN u /\ u[w[1]] = w[2]
<1> DEFINE u == Placed(b, w[1], w[2])
<1>1. /\ DOMAIN u = DOMAIN b \cup {w[1]} /\ u[w[1]] = w[2]
      /\ \A p \in DOMAIN b : p # w[1] => u[p] = b[p]
  BY DEF Placed
<1>2. /\ w[1] \in Path /\ w[2] # Dir /\ w = <<w[1], w[2]>> /\ KindIn(b, w[1]) # "dir" /\ ~InTree(w[1], N)
      /\ \A v \in W : w = v \/ ~InTree(w[1], v[1])
  BY RoomFor
<1> HIDE DEF u
<1>3. \A v \in W : v[1] = w[1] => v = w
  BY <1>2, InOwnTree DEF Path
<1>4. KindsStay(b, u)
  BY <1>1, <1>2 DEF KindsStay, KindIn
<1>5. \A v \in W : v[1] \in DOMAIN b /\ b[v[1]] = v[2] => v[1] \in DOMAIN u /\ u[v[1]] = v[2]
  BY <1>1, <1>3
<1>6. Room(u, N, W)
  <2>1. ASSUME NEW v \in W PROVE Under(N, v[1]) /\ KindIn(u, v[1]) # "dir"
    <3>1. Under(N, v[1]) /\ KindIn(b, v[1]) # "dir"
      BY RoomFor
    <3> QED BY <1>1, <1>2, <3>1 DEF KindIn
  <2>2. \A v \in W, z \in W : v = z \/ ~InTree(v[1], z[1])
    BY DEF Room
  <2>3. ASSUME NEW p \in DOMAIN u, InTree(p, N) \/ \E v \in W : Under(p, v[1]) PROVE u[p] = Dir
    <3>1. p # w[1]
      BY <1>2, <2>3 DEF Under
    <3>2. p \in DOMAIN b /\ b[p] = Dir
      BY <1>1, <2>3, <3>1 DEF Room
    <3> QED BY <1>1, <3>1, <3>2
  <2> QED BY <2>1, <2>2, <2>3 DEF Room
<1> QED BY <1>1, <1>4, <1>5, <1>6 DEF Kept, u

\* A directory is made on the way to one that is needed.
LEMMA DirKept ==
  ASSUME NEW N \in Path, NEW W, W \subseteq Path \X Contents, NEW b, Room(b, N, W),
         NEW m \in Needed(N, W), NEW d \in Path, d \notin DOMAIN b, InTree(d, m)
  PROVE  Kept(b, Placed(b, d, Dir), N, W)
<1> DEFINE u == Placed(b, d, Dir)
<1>1. /\ DOMAIN u = DOMAIN b \cup {d} /\ u[d] = Dir
      /\ \A p \in DOMAIN b : u[p] = b[p]
  BY DEF Placed
<1>2. \A w \in W : d # w[1]
  BY OnTheWay
<1> HIDE DEF u
<1>3. KindsStay(b, u) /\ \A v \in W : v[1] \in DOMAIN b /\ b[v[1]] = v[2] => v[1] \in DOMAIN u /\ u[v[1]] = v[2]
  BY <1>1 DEF KindsStay
<1>4. Room(u, N, W)
  <2>1. ASSUME NEW v \in W PROVE Under(N, v[1]) /\ KindIn(u, v[1]) # "dir"
    <3>1. Under(N, v[1]) /\ KindIn(b, v[1]) # "dir"
      BY RoomFor
    <3> QED BY <1>1, <1>2, <3>1 DEF KindIn
  <2>2. \A v \in W, z \in W : v = z \/ ~InTree(v[1], z[1])
    BY DEF Room
  <2>3. ASSUME NEW p \in DOMAIN u, InTree(p, N) \/ \E v \in W : Under(p, v[1]) PROVE u[p] = Dir
    <3>1. CASE p = d
      BY <1>1, <3>1
    <3>2. CASE p # d
      BY <1>1, <2>3, <3>2 DEF Room
    <3> QED BY <3>1, <3>2
  <2> QED BY <2>1, <2>2, <2>3 DEF Room
<1> QED BY <1>3, <1>4 DEF Kept, u

\* The uploads still to make in another tree.
LEMMA UploadingKept ==
  ASSUME NEW b, NEW u, NEW N, NEW W, Kept(b, u, N, W), NEW fl, NEW fl2, NEW D, NEW p,
         Uploading(b, fl, D, W, p), \A w \in fl : w \in fl2 \/ (w[1] \in DOMAIN u /\ u[w[1]] = w[2])
  PROVE  Uploading(u, fl2, D, W, p)
<1>1. ASSUME NEW w \in W, KindIn(b, Parent(w[1])) = "dir" PROVE KindIn(u, Parent(w[1])) = "dir"
  BY <1>1, StaysIs DEF Kept
<1>2. ASSUME NEW i \in DOMAIN p
      PROVE  \E w \in W : /\ Brings(p[i], w)
                          /\ \/ p[i].do = "look" /\ p[i].why = "import"
                             \/ Parent(w[1]) \in D
                             \/ KindIn(u, Parent(w[1])) = "dir"
  BY <1>1 DEF Uploading
<1>3. ASSUME NEW w \in W
      PROVE  \/ w[1] \in DOMAIN u /\ u[w[1]] = w[2]
             \/ w \in fl2
             \/ \E i \in DOMAIN p : Brings(p[i], w)
  BY DEF Uploading, Kept
<1> QED BY <1>2, <1>3 DEF Uploading

\* The first request of an import, and those after it.
LEMMA UploadsAhead ==
  ASSUME NEW R, NEW r \in R, NEW u \in Seq(R), NEW b, NEW fl, NEW D, NEW W
  PROVE  Uploading(b, fl, D, W, <<r>> \o u) <=>
           /\ \A x \in {r} \cup {u[i] : i \in DOMAIN u} : \E w \in W :
                /\ Brings(x, w)
                /\ \/ x.do = "look" /\ x.why = "import"
                   \/ Parent(w[1]) \in D
                   \/ KindIn(b, Parent(w[1])) = "dir"
           /\ \A w \in W : \/ w[1] \in DOMAIN b /\ b[w[1]] = w[2]
                           \/ w \in fl
                           \/ Brings(r, w)
                           \/ \E i \in DOMAIN u : Brings(u[i], w)
<1> DEFINE p == <<r>> \o u
<1>1. /\ p \in Seq(R) /\ p[1] = r /\ 1 \in DOMAIN p
      /\ \A i \in DOMAIN u : i + 1 \in DOMAIN p /\ p[i + 1] = u[i]
      /\ \A j \in DOMAIN p : j = 1 \/ (j - 1 \in DOMAIN u /\ p[j] = u[j - 1])
  <2>1. /\ p \in Seq(R) /\ Len(p) = Len(u) + 1 /\ Len(u) \in Nat
        /\ p[1] = r /\ \A i \in 1..Len(u) : p[i + 1] = u[i]
    BY PutInFront
  <2> HIDE DEF p
  <2>2. DOMAIN p = 1..Len(u) + 1 /\ DOMAIN u = 1..Len(u)
    BY <2>1
  <2>3. ASSUME NEW j \in DOMAIN p, j # 1 PROVE j - 1 \in DOMAIN u /\ p[j] = u[j - 1]
    <3>1. j - 1 \in 1..Len(u) /\ j = (j - 1) + 1
      BY <2>1, <2>2, <2>3
    <3>2. p[(j - 1) + 1] = u[j - 1]
      BY <2>1, <3>1
    <3> QED BY <2>2, <3>1, <3>2
  <2>4. \A i \in DOMAIN u : i + 1 \in DOMAIN p /\ p[i + 1] = u[i]
    BY <2>1, <2>2
  <2>5. 1 \in DOMAIN p
    BY <2>1, <2>2
  <2> QED BY <2>1, <2>3, <2>4, <2>5
<1> HIDE DEF p
<1>2. {p[j] : j \in DOMAIN p} = {r} \cup {u[i] : i \in DOMAIN u}
  BY <1>1
<1>3. \A w \in W : (\E j \in DOMAIN p : Brings(p[j], w)) <=> Brings(r, w) \/ \E i \in DOMAIN u : Brings(u[i], w)
  BY <1>1
<1> DEFINE Q(x) == \E w \in W : /\ Brings(x, w)
                                /\ \/ x.do = "look" /\ x.why = "import"
                                   \/ Parent(w[1]) \in D
                                   \/ KindIn(b, Parent(w[1])) = "dir"
<1>4. Uploading(b, fl, D, W, p) <=>
        /\ \A j \in DOMAIN p : Q(p[j])
        /\ \A w \in W : \/ w[1] \in DOMAIN b /\ b[w[1]] = w[2]
                        \/ w \in fl
                        \/ \E j \in DOMAIN p : Brings(p[j], w)
  BY DEF Uploading
<1> HIDE DEF Q
<1>5. (\A j \in DOMAIN p : Q(p[j])) <=> \A x \in {p[j] : j \in DOMAIN p} : Q(x)
  OBVIOUS
<1>6. Uploading(b, fl, D, W, p) <=>
        /\ \A x \in {r} \cup {u[i] : i \in DOMAIN u} : Q(x)
        /\ \A w \in W : \/ w[1] \in DOMAIN b /\ b[w[1]] = w[2]
                        \/ w \in fl
                        \/ Brings(r, w)
                        \/ \E i \in DOMAIN u : Brings(u[i], w)
  BY <1>2, <1>3, <1>4, <1>5
<1> QED BY <1>6 DEF Q, p

\* An import goes on with its uploads.
LEMMA UploadsGo ==
  ASSUME NEW N, NEW W, NEW b, NEW fl, KindIn(b, FullName(<<>>)) = "dir", Room(b, N, W),
         \A w \in fl : w \in W /\ KindIn(b, Parent(w[1])) = "dir",
         NEW u \in Seq(Reqs(FALSE)), Uploading(b, fl, {}, W, u)
  PROVE  /\ Importing(b, fl, N, W, Go(u).prog) /\ (Go(u).prog = <<>> => Go(u).ret = "ok")
         /\ Go(u).prog = u
<1>1. Plain(u)
  BY DEF Uploading, Brings, Plain
<1>2. Go(u).prog = u /\ (u = <<>> => Go(u).ret = "ok")
  <2>1. CASE u = <<>>
    BY <2>1, GoEnds
  <2>2. CASE u # <<>>
    <3>1. u[1].do # "catch"
      <4>1. 1 \in DOMAIN u
        BY <2>2, Later
      <4> QED BY <1>1, <4>1 DEF Plain
    <3>2. Go(u) = [prog |-> u, ret |-> "none"]
      BY <2>2, <3>1, GoAhead
    <3> QED BY <2>2, <3>2
  <2> QED BY <2>1, <2>2
<1>3. <<>> \in Seq(Reqs(FALSE)) /\ u = <<>> \o u
  BY ConcatEmptySeq
<1>4. Importing(b, fl, N, W, u)
  BY <1>3 DEF Importing
<1> QED BY <1>2, <1>4

\* A call that runs, or is over with success.
Ends(x) == x.ret \in {"none", "ok"} /\ (x.ret = "none" => x.prog # <<>>)

\* An import goes on after a step of the MkdirAll that it has made: no file is in
\* the way, so that it does not fail.
LEMMA FramedGoes ==
  ASSUME NEW N \in Path, NEW W, W \subseteq Path \X Contents, NEW b, DOMAIN b \subseteq Path, NEW fl,
         KindIn(b, FullName(<<>>)) = "dir", Room(b, N, W),
         \A w \in fl : w \in W /\ KindIn(b, Parent(w[1])) = "dir",
         NEW m \in Needed(N, W), NEW x, x.prog \in Seq(Reqs(FALSE)), Going(x, m, b, TRUE, TRUE),
         NEW u \in Seq(Reqs(FALSE)), Uploading(b, fl, {m}, W, u)
  PROVE  Importing(b, fl, N, W, Framed(x, u).prog) /\ Ends(Framed(x, u))
<1>1. m \in Path /\ InTree(N, m)
  BY OnTheWay
<1>2. CASE x.prog = <<>> /\ x.ret = "ok" /\ KindIn(b, m) = "dir"
  <2>1. Framed(x, u) = [prog |-> u, ret |-> IF u = <<>> THEN "ok" ELSE "none"]
    BY <1>2 DEF Framed
  <2>2. Uploading(b, fl, {}, W, u)
    BY <1>2 DEF Uploading
  <2>3. Importing(b, fl, N, W, u)
    BY <2>2, UploadsGo
  <2> QED BY <2>1, <2>3 DEF Ends
<1>3. ASSUME NEW k \in Len(FullName(<<>>))..Len(m), KindIn(b, SubSeq(m, 1, k)) = "file"
      PROVE  FALSE
  <2> DEFINE d == SubSeq(m, 1, k)
  <2>1. k \in 0..Len(m) /\ Len(m) \in Nat
    <3>1. Len(FullName(<<>>)) \in Nat
      BY BelowRoot, NameLength
    <3> QED BY <1>1, <3>1 DEF Path
  <2>2. d \in Path /\ Len(d) = k
    BY <1>1, <2>1, Beginning
  <2>3. InTree(d, m)
    BY <2>1, <2>2 DEF InTree
  <2> HIDE DEF d
  <2>4. d \in DOMAIN b /\ b[d] # Dir
    BY <1>3 DEF KindIn, d
  <2>5. InTree(d, N) \/ \E w \in W : Under(d, w[1])
    BY <2>2, <2>3, OnTheWay
  <2> QED BY <2>4, <2>5 DEF Room
<1>4. CASE x.ret = "none" /\ \E k \in Len(FullName(<<>>))..Len(m) :
                               GoingAt(x.prog, SubSeq(m, 1, k), Chain(m, k), b, TRUE, TRUE)
  <2>1. PICK k \in Len(FullName(<<>>))..Len(m) :
          GoingAt(x.prog, SubSeq(m, 1, k), Chain(m, k), b, TRUE, TRUE)
    BY <1>4
  <2>2. x.prog # <<>>
    <3> DEFINE q == SubSeq(m, 1, k)
               T == Chain(m, k)
    <3>1. k \in 0..Len(m) /\ Len(m) \in Nat
      <4>1. Len(FullName(<<>>)) \in Nat
        BY BelowRoot, NameLength
      <4> QED BY <1>1, <4>1 DEF Path
    <3>2. q \in Path /\ T \in Seq(Reqs(TRUE))
      BY <1>1, <3>1, Beginning, ChainIs
    <3> HIDE DEF q, T
    <3>3. /\ \A why \in {"all", "mkdirAll", "opendir", "mkparent", "made"} \cup Error : Look(why, q) \in Reqs(TRUE)
          /\ \A do \in {"mkdir", "catch"} : Act(do, q) \in Reqs(TRUE)
      BY <3>2, GoingTypes
    <3>4. <<Act("catch", q)>> \o T \in Seq(Reqs(TRUE))
      BY <3>2, <3>3, InFront
    <3>5. <<Look("made", q)>> \o (<<Act("catch", q)>> \o T) \in Seq(Reqs(TRUE))
      BY <3>3, <3>4, InFront
    <3>6. GoingAt(x.prog, q, T, b, TRUE, TRUE)
      BY <2>1 DEF q, T
    <3>7. \E r \in Reqs(TRUE), s \in Seq(Reqs(TRUE)) : x.prog = <<r>> \o s
      BY <3>2, <3>3, <3>4, <3>5, <3>6 DEF GoingAt
    <3> QED BY <3>7, PutInFront
  <2>3. Framed(x, u) = [prog |-> x.prog \o u, ret |-> "none"]
    BY <2>2 DEF Framed
  <2>4. x.prog \o u # <<>>
    BY <2>2, ConcatEqualIffEmpty
  <2>5. Importing(b, fl, N, W, x.prog \o u)
    BY <2>1 DEF Importing
  <2> QED BY <2>3, <2>4, <2>5 DEF Ends
<1> QED BY <1>2, <1>3, <1>4 DEF Going

\* A name below a directory, on the server.
LEMMA NameBehind ==
  ASSUME NEW n \in Path, NEW x \in Path
  PROVE  /\ n \o x \in Path /\ FullName(n \o x) = FullName(n) \o x /\ InTree(n, n \o x)
         /\ x # <<>> => n \o x # n /\ n \o x # <<>>
         /\ \A y \in Path : InTree(n \o x, n \o y) => InTree(x, y)
<1>1. n \o x \in Path
  BY ConcatProperties DEF Path
<1>2. FullName(n \o x) = FullName(n) \o x
  <2>1. Base \in Seq(Names) /\ n \in Seq(Names) /\ x \in Seq(Names)
    BY NamespaceAssumption DEF Path
  <2>2. Base \o (n \o x) = (Base \o n) \o x
    BY <2>1, ConcatAssociative
  <2> QED BY <2>2 DEF FullName
<1>3. /\ Len(n) \in Nat /\ Len(x) \in Nat /\ Len(n \o x) = Len(n) + Len(x)
      /\ \A i \in 1..Len(n) : (n \o x)[i] = n[i]
      /\ \A i \in 1..Len(x) : (n \o x)[Len(n) + i] = x[i]
  BY DEF Path
<1>4. InTree(n, n \o x)
  <2>1. SubSeq(n \o x, 1, Len(n)) = n
    BY <1>3, SubSeqProperties, SeqEqual DEF Path
  <2> QED BY <1>3, <2>1 DEF InTree
<1>5. x # <<>> => n \o x # n /\ n \o x # <<>>
  <2>1. x # <<>> => Len(x) # 0
    BY EmptySeq DEF Path
  <2> QED BY <1>3, <2>1
<1>6. ASSUME NEW y \in Path, InTree(n \o x, n \o y) PROVE InTree(x, y)
  <2>1. /\ Len(y) \in Nat /\ Len(n \o y) = Len(n) + Len(y) /\ n \o y \in Path
        /\ \A i \in 1..Len(y) : (n \o y)[Len(n) + i] = y[i]
    BY ConcatProperties DEF Path
  <2>2. Len(n \o x) =< Len(n \o y) /\ SubSeq(n \o y, 1, Len(n \o x)) = n \o x
    BY <1>6 DEF InTree
  <2>3. \A i \in 1..Len(n \o x) : (n \o y)[i] = (n \o x)[i]
    BY <1>1, <1>3, <2>1, <2>2, SubSeqProperties DEF Path
  <2>4. \A i \in 1..Len(x) : y[i] = x[i]
    <3> SUFFICES ASSUME NEW i \in 1..Len(x) PROVE y[i] = x[i]
      OBVIOUS
    <3>1. Len(n) + i \in 1..Len(n \o x) /\ i \in 1..Len(y)
      BY <1>3, <2>1, <2>2
    <3>2. (n \o y)[Len(n) + i] = (n \o x)[Len(n) + i]
      BY <2>3, <3>1
    <3> QED BY <1>3, <2>1, <3>1, <3>2
  <2>5. Len(x) =< Len(y)
    BY <1>3, <2>1, <2>2
  <2>6. SubSeq(y, 1, Len(x)) = x
    <3>1. Len(x) \in 0..Len(y)
      BY <1>3, <2>1, <2>5
    <3>2. SubSeq(y, 1, Len(x)) \in Path /\ Len(SubSeq(y, 1, Len(x))) = Len(x)
      BY <3>1, Beginning
    <3>3. \A i \in 1..Len(x) : SubSeq(y, 1, Len(x))[i] = x[i]
      BY <2>1, <2>4, <2>5, <3>1, SubSeqProperties DEF Path
    <3> QED BY <3>2, <3>3, SeqEqual DEF Path
  <2> QED BY <2>5, <2>6 DEF InTree
<1> QED BY <1>1, <1>2, <1>4, <1>5, <1>6

\* What an import that is over has done.
LEMMA ImportKeeps ==
  ASSUME NEW t, NEW b, IsFine(b), NEW call, call.op = "Import", call.n \in Path,
         NEW a, a \subseteq Path \X Contents,
         \A w \in Stores(call.n, a) : w[1] \in DOMAIN b /\ b[w[1]] = w[2]
  PROVE  Keeps(call, Seen(t), "ok", Seen(b), a)
<1> DEFINE n == call.n
<1>1. ASSUME NEW e \in a PROVE n \o e[1] \in DOMAIN Seen(b) /\ Seen(b)[n \o e[1]] = e[2]
  <2> DEFINE w == <<FullName(n) \o e[1], e[2]>>
             p == n \o e[1]
  <2>1. w \in Stores(call.n, a)
    BY DEF Stores
  <2>2. w[1] \in DOMAIN b /\ b[w[1]] = w[2]
    BY <2>1
  <2>3. n \in Path /\ e[1] \in Path
    OBVIOUS
  <2>4. p \in Path /\ FullName(p) = FullName(n) \o e[1]
    <3>1. \A m, x \in Path : m \o x \in Path /\ FullName(m \o x) = FullName(m) \o x
      BY NameBehind
    <3> QED BY <2>3, <3>1
  <2> HIDE DEF p, w
  <2>5. DOMAIN b \subseteq Path
    BY DEF IsFine
  <2>6. FullName(p) \in DOMAIN b /\ b[FullName(p)] = e[2]
    BY <2>2, <2>4 DEF w
  <2> QED BY <2>4, <2>5, <2>6, SeenPaths DEF p
<1> QED BY <1>1 DEF Keeps

\* A step of an import leads on, or to its end.
LEMMA ImportIs ==
  ASSUME NEW t, NEW b, IsFine(b), NEW fl, NEW call, call.op = "Import", call.n \in Path,
         NEW a, a \subseteq Path \X Contents, NEW c, NEW y, On(c, y), y.prog = <<>> => y.ret = "ok",
         Importing(b, fl, FullName(call.n), Stores(call.n, a), y.prog)
  PROVE  Goes(t, b, fl, call, Onward(c), a)
<1> DEFINE N == FullName(call.n)
           W == Stores(call.n, a)
<1>1. CASE y.prog = <<>> /\ fl = {}
  <2>1. PICK q, u \in Seq(Reqs(FALSE)) :
          /\ y.prog = q \o u
          /\ \/ q = <<>> /\ Uploading(b, fl, {}, W, u)
             \/ \E m \in Needed(N, W) : \E k \in Len(FullName(<<>>))..Len(m) :
                  /\ Uploading(b, fl, {m}, W, u)
                  /\ GoingAt(q, SubSeq(m, 1, k), Chain(m, k), b, TRUE, TRUE)
    BY DEF Importing
  <2>2. u = <<>>
    BY <1>1, <2>1, ConcatEqualIffEmpty
  <2>3. \A i \in DOMAIN u : FALSE
    BY <2>2
  <2>4. \A w \in W : w[1] \in DOMAIN b /\ b[w[1]] = w[2]
    BY <1>1, <2>1, <2>3 DEF Uploading
  <2>5. Keeps(call, Seen(t), y.ret, Seen(b), a)
    BY <1>1, <2>4, ImportKeeps
  <2> QED BY <1>1, <2>5, GoesIs
<1>2. CASE ~(y.prog = <<>> /\ fl = {})
  <2> DEFINE x == [prog |-> prog'[c], ret |-> ret'[c]]
  <2>1. x.prog = y.prog /\ x.ret = y.ret
    BY DEF On
  <2>2. x = Onward(c)
    BY DEF Onward
  <2> HIDE DEF x
  <2>3. Underway(t, b, fl, call, x, a)
    BY <2>1 DEF Underway
  <2> QED BY <1>2, <2>1, <2>2, <2>3 DEF Goes
<1> QED BY <1>1, <1>2

\* What an import has to store has names and contents.
LEMMA StoresType ==
  ASSUME NEW n \in Path, NEW a, a \subseteq Path \X Contents
  PROVE  FullName(n) \in Path /\ Stores(n, a) \subseteq Path \X Contents
<1>1. FullName(n) \in Path
  BY FullNameIs
<1>2. ASSUME NEW e \in a PROVE <<FullName(n) \o e[1], e[2]>> \in Path \X Contents
  <2>1. e[1] \in Path /\ e[2] \in Contents
    OBVIOUS
  <2>2. FullName(n) \o e[1] \in Path
    BY <1>1, <2>1, ConcatProperties DEF Path
  <2> QED BY <2>1, <2>2
<1> QED BY <1>1, <1>2 DEF Stores

\* Another request for the same upload.
LEMMA UploadsOn ==
  ASSUME NEW R, NEW r \in R, NEW r2 \in R, NEW u \in Seq(R), NEW b, NEW fl, NEW D, NEW W,
         W \subseteq Path \X Contents,
         Uploading(b, fl, {}, W, <<r>> \o u), NEW w \in W, Brings(r, w), Brings(r2, w),
         Parent(w[1]) \in D \/ KindIn(b, Parent(w[1])) = "dir"
  PROVE  Uploading(b, fl, D, W, <<r2>> \o u)
<1>1. /\ \A x \in {r} \cup {u[i] : i \in DOMAIN u} : \E v \in W :
           /\ Brings(x, v)
           /\ \/ x.do = "look" /\ x.why = "import"
              \/ Parent(v[1]) \in {}
              \/ KindIn(b, Parent(v[1])) = "dir"
      /\ \A v \in W : \/ v[1] \in DOMAIN b /\ b[v[1]] = v[2]
                      \/ v \in fl
                      \/ Brings(r, v)
                      \/ \E i \in DOMAIN u : Brings(u[i], v)
  BY UploadsAhead
<1>2. \A x \in {r2} \cup {u[i] : i \in DOMAIN u} : \E v \in W :
        /\ Brings(x, v)
        /\ \/ x.do = "look" /\ x.why = "import"
           \/ Parent(v[1]) \in D
           \/ KindIn(b, Parent(v[1])) = "dir"
  BY <1>1
<1>3. \A v \in W : Brings(r, v) => v = w
  <2>1. \A v \in W : v = <<v[1], v[2]>>
    OBVIOUS
  <2> QED BY <2>1 DEF Brings
<1>4. \A v \in W : \/ v[1] \in DOMAIN b /\ b[v[1]] = v[2]
                   \/ v \in fl
                   \/ Brings(r2, v)
                   \/ \E i \in DOMAIN u : Brings(u[i], v)
  BY <1>1, <1>3
<1> QED BY <1>2, <1>4, UploadsAhead

\* What is uploaded does not have to be uploaded again.
LEMMA UploadsLess ==
  ASSUME NEW R, NEW r \in R, NEW u \in Seq(R), NEW b, NEW fl, NEW D, NEW W,
         W \subseteq Path \X Contents,
         Uploading(b, fl, D, W, <<r>> \o u), NEW w \in W, Brings(r, w),
         w \in fl \/ (w[1] \in DOMAIN b /\ b[w[1]] = w[2])
  PROVE  Uploading(b, fl, D, W, u)
<1>1. /\ \A x \in {r} \cup {u[i] : i \in DOMAIN u} : \E v \in W :
           /\ Brings(x, v)
           /\ \/ x.do = "look" /\ x.why = "import"
              \/ Parent(v[1]) \in D
              \/ KindIn(b, Parent(v[1])) = "dir"
      /\ \A v \in W : \/ v[1] \in DOMAIN b /\ b[v[1]] = v[2]
                      \/ v \in fl
                      \/ Brings(r, v)
                      \/ \E i \in DOMAIN u : Brings(u[i], v)
  BY UploadsAhead
<1>2. \A v \in W : Brings(r, v) => v = w
  <2>1. \A v \in W : v = <<v[1], v[2]>>
    OBVIOUS
  <2> QED BY <2>1 DEF Brings
<1>3. \A v \in W : \/ v[1] \in DOMAIN b /\ b[v[1]] = v[2]
                   \/ v \in fl
                   \/ \E i \in DOMAIN u : Brings(u[i], v)
  BY <1>1, <1>2
<1> QED BY <1>1, <1>3 DEF Uploading

\* What stays while an import goes on.
LEMMA ImportStays ==
  ASSUME NEW b, NEW u, NEW N, NEW W, Kept(b, u, N, W), KindIn(b, FullName(<<>>)) = "dir",
         NEW fl, \A w \in fl : w \in W /\ KindIn(b, Parent(w[1])) = "dir"
  PROVE  /\ KindIn(u, FullName(<<>>)) = "dir" /\ Room(u, N, W)
         /\ \A w \in fl : w \in W /\ KindIn(u, Parent(w[1])) = "dir"
BY StaysIs DEF Kept

\* An upload of an import, or a look before it.
LEMMA UploadTurn ==
  ASSUME Typed, NEW c \in Clients, Turn(c), NEW t, IsFine(tree'), cur[c].op = "Import", cur[c].n \in Path,
         KindIn(tree, FullName(<<>>)) = "dir", NEW W, W = Stores(cur[c].n, archive[c]),
         Room(tree, FullName(cur[c].n), W),
         \A w \in flight : w \in W /\ KindIn(tree, Parent(w[1])) = "dir",
         prog[c] \in Seq(Reqs(FALSE)), Uploading(tree, flight, {}, W, prog[c])
  PROVE  Goes(t, tree', flight', cur[c], Onward(c), archive'[c])
<1> DEFINE N == FullName(cur[c].n)
           r == Head(prog[c])
           rest == Tail(prog[c])
           R == Reqs(FALSE)
           G == Goes(t, tree', flight', cur[c], Onward(c), archive'[c])
<1>1. N \in Path /\ W \subseteq Path \X Contents /\ archive[c] \subseteq Path \X Contents
  BY StoresType DEF Typed
<1>2. r \in R /\ rest \in Seq(R) /\ prog[c] = <<r>> \o rest
  <2>1. prog[c] # <<>>
    BY TurnFrame
  <2>2. r \in R /\ prog[c] = <<r>> \o rest
    BY <2>1, NextRequest
  <2>3. rest \in Seq(R)
    BY <2>1, Later
  <2> QED BY <2>2, <2>3
<1> HIDE DEF R, r, rest
<1>3. Uploading(tree, flight, {}, W, <<r>> \o rest)
  BY <1>2
<1>4. PICK w \in W : /\ Brings(r, w)
                     /\ \/ r.do = "look" /\ r.why = "import"
                        \/ KindIn(tree, Parent(w[1])) = "dir"
  BY <1>2, <1>3, UploadsAhead
<1>5. /\ w[1] \in Path /\ w[2] \in Contents /\ w[1] # <<>> /\ w = <<w[1], w[2]>> /\ Parent(w[1]) \in Path
      /\ KindIn(tree, w[1]) # "dir" /\ InTree(N, Parent(w[1]))
  BY <1>1, RoomFor
<1>6. r.n = w[1] /\ r.v = w[2] /\ r.do \in {"put", "look"}
  BY <1>4 DEF Brings
<1>7. ASSUME NEW y, On(c, y), archive' = archive, y.prog = <<>> => y.ret = "ok",
             Importing(tree', flight', N, W, y.prog)
      PROVE  G
  BY <1>1, <1>7, ImportIs
<1>8. CASE r.do = "put"
  <2>1. KindIn(tree, Parent(w[1])) = "dir"
    BY <1>4, <1>8
  <2>2. Possible(r)
    BY <1>5, <1>6, <1>8, <2>1 DEF Possible, Kind
  <2>3. archive' = archive /\ On(c, Go(rest))
    BY <1>8, <2>2, TurnIs DEF r, rest
  <2>4. \/ backend = "webdav" /\ flight' = flight \cup {w} /\ tree' = tree
        \/ flight' = flight /\ tree' = Placed(tree, w[1], w[2])
    <3>1. IF backend = "webdav" THEN flight' = flight \cup {<<r.n, r.v>>} /\ tree' = tree
          ELSE flight' = flight /\ tree' = Effect(r)
      BY <1>8, <2>2, TurnIs DEF r, rest
    <3>2. Effect(r) = Placed(tree, w[1], w[2])
      BY <1>6, <1>8 DEF Effect
    <3> QED BY <1>5, <1>6, <3>1, <3>2
  <2>5. /\ Kept(tree, tree', N, W) /\ flight \subseteq flight' /\ flight' \subseteq flight \cup {w}
        /\ w \in flight' \/ (w[1] \in DOMAIN tree' /\ tree'[w[1]] = w[2])
    <3>1. CASE flight' = flight \cup {w} /\ tree' = tree
      BY <3>1 DEF Kept, KindsStay
    <3>2. CASE flight' = flight /\ tree' = Placed(tree, w[1], w[2])
      BY <1>1, <3>2, UploadKept
    <3> QED BY <2>4, <3>1, <3>2
  <2>6. Uploading(tree', flight', {}, W, <<r>> \o rest)
    BY <1>3, <2>5, UploadingKept
  <2>7. Uploading(tree', flight', {}, W, rest)
    BY <1>1, <1>2, <1>4, <2>5, <2>6, UploadsLess
  <2>8. \A v \in flight' : v \in W /\ KindIn(tree, Parent(v[1])) = "dir"
    BY <2>1, <2>5
  <2>9. /\ KindIn(tree', FullName(<<>>)) = "dir" /\ Room(tree', N, W)
        /\ \A v \in flight' : v \in W /\ KindIn(tree', Parent(v[1])) = "dir"
    BY <2>5, <2>8, ImportStays
  <2>10. rest \in Seq(Reqs(FALSE))
    BY <1>2 DEF R
  <2>11. Importing(tree', flight', N, W, Go(rest).prog) /\ (Go(rest).prog = <<>> => Go(rest).ret = "ok")
    BY <2>7, <2>9, <2>10, UploadsGo
  <2> QED BY <1>7, <2>3, <2>11
<1>9. CASE r.do = "look" /\ r.why # "import"
  <2>1. KindIn(tree, Parent(w[1])) = "dir" /\ r.why \in {"parent", "entry"}
    BY <1>4, <1>9 DEF Brings
  <2>2. tree' = tree /\ flight' = flight /\ archive' = archive /\ On(c, After(r, KindIn(tree, Looked(r)), rest))
    BY <1>9, TurnIs DEF Same, r, rest
  <2> DEFINE put == Put(r.n, r.v)
             entry == [r EXCEPT !.why = "entry"]
  <2>3. put \in R /\ put.do = "put" /\ put.n = r.n /\ put.v = r.v
    <3>1. put \in R
      BY <1>5, <1>6, MadeRequests DEF R
    <3> QED BY <3>1 DEF Put, Request
  <2>4. entry \in R /\ entry.do = "look" /\ entry.why = "entry" /\ entry.n = r.n /\ entry.v = r.v
    <3>1. r.v \in Contents
      BY <1>5, <1>6
    <3> QED BY <1>2, <1>9, <2>1, <3>1 DEF R, Reqs, Requests, Valid, Gentle, Whys
  <2>5. \E r2 \in {put, entry} : After(r, KindIn(tree, Looked(r)), rest) = Go(<<r2>> \o rest)
    <3>1. After(r, KindIn(tree, Looked(r)), rest) = Create(r, KindIn(tree, Looked(r)), rest)
      BY <2>1 DEF After
    <3>2. KindIn(tree, Looked(r)) # "err"
      BY KindsAre
    <3>3. r.why = "parent" => KindIn(tree, Looked(r)) = "dir"
      BY <1>6, <2>1 DEF Looked
    <3> QED BY <3>1, <3>2, <3>3 DEF Create
  <2> HIDE DEF put, entry
  <2>6. PICK r2 \in R : Brings(r2, w) /\ On(c, Go(<<r2>> \o rest))
    BY <1>6, <2>2, <2>3, <2>4, <2>5 DEF Brings
  <2>7. Uploading(tree, flight, {}, W, <<r2>> \o rest)
    BY <1>1, <1>2, <1>3, <1>4, <2>1, <2>6, UploadsOn
  <2>8. <<r2>> \o rest \in Seq(Reqs(FALSE))
    BY <1>2, <2>6, InFront DEF R
  <2> DEFINE p == <<r2>> \o rest
  <2> HIDE DEF p
  <2>9. p \in Seq(Reqs(FALSE)) /\ Uploading(tree, flight, {}, W, p)
    BY <2>7, <2>8 DEF p
  <2>10. Importing(tree, flight, N, W, Go(p).prog) /\ (Go(p).prog = <<>> => Go(p).ret = "ok")
    BY <2>9, UploadsGo
  <2> QED BY <1>7, <2>2, <2>6, <2>10 DEF p
<1>10. CASE r.do = "look" /\ r.why = "import"
  <2> DEFINE m == Parent(w[1])
             r2 == [r EXCEPT !.why = "parent"]
             l == Look("all", m)
             p == <<r2>> \o rest
             a == KindIn(tree, m)
             x == After(l, a, <<>>)
  <2>1. tree' = tree /\ flight' = flight /\ archive' = archive /\ On(c, After(r, KindIn(tree, Looked(r)), rest))
    BY <1>10, TurnIs DEF Same, r, rest
  <2>2. r2 \in R /\ r2.do = "look" /\ r2.why = "parent" /\ r2.n = r.n /\ r2.v = r.v
    <3>1. r.v \in Contents
      BY <1>5, <1>6
    <3> QED BY <1>2, <1>10, <3>1 DEF R, Reqs, Requests, Valid, Gentle, Whys
  <2>3. /\ l \in Reqs(FALSE) /\ l \in Reqs(TRUE) /\ l.do = "look" /\ l.why = "all" /\ l.n = m /\ Looked(l) = m
    <3>1. l.do = "look" /\ l.why = "all" /\ l.n = m /\ Looked(l) = m
      BY DEF Look, Request, Looked
    <3>2. "all" \in (Whys \ {"", "parent", "entry", "import", "remove"}) \cup Error
      BY DEF Whys
    <3> QED BY <1>5, <3>1, <3>2, MadeRequests
  <2>4. After(r, KindIn(tree, Looked(r)), rest) = After(l, a, p)
    <3>1. Looked(r) = m
      BY <1>6, <1>10 DEF Looked
    <3>2. After(r, a, rest) = MkdirAll(l, a, p)
      BY <1>6, <1>10 DEF After, ImportDir
    <3>3. After(l, a, p) = MkdirAll(l, a, p)
      BY <2>3 DEF After
    <3> QED BY <3>1, <3>2, <3>3
  <2>5. m \in Needed(N, W)
    BY DEF Needed
  <2>6. Uploading(tree, flight, {m}, W, p)
    <3>1. Brings(r2, w)
      BY <1>6, <2>2 DEF Brings
    <3> HIDE DEF r2
    <3> QED BY <1>1, <1>2, <1>3, <1>4, <2>2, <3>1, UploadsOn
  <2>7. p \in Seq(Reqs(FALSE))
    BY <1>2, <2>2, InFront DEF R
  <2>8. Plain(p)
    BY <2>6 DEF Uploading, Brings, Plain
  <2>9. <<>> \in Seq(Reqs(FALSE)) /\ <<>> \o p = p
    BY <2>7, ConcatEmptySeq
  <2>10. a \in {"dir", "file", "missing"}
    BY KindsAre
  <2> HIDE DEF m, l, p, a, r2
  <2>11. After(l, a, p) = Framed(x, p)
    <3>1. After(l, a, <<>> \o p) = Framed(After(l, a, <<>>), p)
      BY <2>3, <2>7, <2>8, <2>9, <2>10, AfterFramed
    <3> QED BY <2>9, <3>1
  <2>12. m \in Path /\ Len(m) \in Nat /\ InTree(FullName(<<>>), m) /\ Len(FullName(<<>>)) \in Nat
         /\ Len(FullName(<<>>)) =< Len(m)
    <3>1. InTree(FullName(<<>>), N) /\ FullName(<<>>) \in Path
      BY BelowRoot, FullNameIs
    <3>2. m \in Path /\ InTree(N, m)
      BY <1>5 DEF m
    <3>3. InTree(FullName(<<>>), m)
      BY <1>1, <3>1, <3>2, InTreeTransitive DEF Path
    <3> QED BY <3>1, <3>2, <3>3 DEF InTree, Path
  <2>13. Grounds(m, tree, TRUE, TRUE) /\ IsFine(tree)
    <3>1. IsFine(tree) /\ KindIn(tree, <<>>) = "dir"
      BY DEF Typed, IsFine, IsTree, KindIn
    <3>2. KindIn(tree, Parent(FullName(<<>>))) = "dir"
      BY <3>1, RootHasParent
    <3> QED BY <2>12, <3>1, <3>2 DEF Grounds
  <2>14. Going(x, m, tree, TRUE, TRUE)
    <3>1. Len(m) \in Len(FullName(<<>>))..Len(m) /\ SubSeq(m, 1, Len(m)) = m /\ Chain(m, Len(m)) = <<>>
      <4>1. SubSeq(m, 1, Len(m)) = m /\ Chain(m, Len(m)) = <<>>
        <5>1. Len(m) \in 0..Len(m)
          BY <2>12
        <5> QED BY <2>12, <5>1, Beginning, ChainIs
      <4> QED BY <2>12, <4>1
    <3> DEFINE q == <<l>>
    <3>2. q = <<l>> \o Chain(m, Len(m)) /\ Head(q) = l /\ Tail(q) = <<>>
      BY <3>1
    <3> HIDE DEF q
    <3>3. GoingAt(q, SubSeq(m, 1, Len(m)), Chain(m, Len(m)), tree, TRUE, TRUE)
      BY <3>1, <3>2 DEF GoingAt, l
    <3>4. Going(After(Head(q), KindIn(tree, Looked(Head(q))), Tail(q)), m, tree, TRUE, TRUE)
      BY <2>3, <2>13, <3>1, <3>2, <3>3, MkdirAllStep
    <3> QED BY <2>3, <3>2, <3>4 DEF a
  <2>15. x.prog \in Seq(Reqs(FALSE))
    <3>1. a = "file" => tree[Looked(l)] \in Contents
      <4>1. a = "file" => m \in DOMAIN tree /\ tree[m] # Dir
        BY DEF a, KindIn
      <4>2. \A q \in DOMAIN tree : tree[q] \in {Dir} \cup Contents
        BY <2>13 DEF IsFine, IsTree, Contents
      <4> QED BY <2>3, <4>1, <4>2
    <3>2. Outcome(x, FALSE)
      BY <2>3, <2>9, <2>10, <3>1, AfterResult
    <3> QED BY <3>2 DEF Outcome
  <2> HIDE DEF x
  <2> DEFINE y == Framed(x, p)
  <2>16. Importing(tree, flight, N, W, y.prog) /\ (y.prog = <<>> => y.ret = "ok")
    <3>1. DOMAIN tree \subseteq Path
      BY <2>13 DEF IsFine
    <3>2. Room(tree, N, W) /\ N \in Path
      BY <1>1
    <3> HIDE DEF N, y
    <3>3. Importing(tree, flight, N, W, Framed(x, p).prog)
      BY <1>1, <2>5, <2>6, <2>7, <2>14, <2>15, <3>1, <3>2, FramedGoes
    <3>4. Ends(Framed(x, p))
      BY <1>1, <2>5, <2>6, <2>7, <2>14, <2>15, <3>1, <3>2, FramedGoes
    <3> QED BY <3>3, <3>4 DEF y, Ends
  <2> HIDE DEF y
  <2>17. On(c, y)
    BY <2>1, <2>4, <2>11 DEF y
  <2> QED BY <1>7, <2>1, <2>16, <2>17
<1> QED BY <1>6, <1>8, <1>9, <1>10

\* The first request of a program with another one behind it.
LEMMA HeadBehind ==
  ASSUME NEW R, NEW q \in Seq(R), q # <<>>, NEW u \in Seq(R)
  PROVE  /\ Head(q) \in R /\ Tail(q) \in Seq(R)
         /\ Head(q \o u) = Head(q) /\ Tail(q \o u) = Tail(q) \o u
<1>1. Head(q) \in R /\ Tail(q) \in Seq(R) /\ q = <<Head(q)>> \o Tail(q)
  <2>1. Tail(q) \in Seq(R) /\ Head(q) \in R
    BY Later
  <2> QED BY <2>1, HeadTailProperties
<1> DEFINE r == Head(q)
           s == Tail(q)
<1> HIDE DEF r, s
<1>2. r \in R /\ s \in Seq(R) /\ q = <<r>> \o s
  BY <1>1 DEF r, s
<1>3. q \o u = <<r>> \o (s \o u)
  <2>1. <<r>> \in Seq(R)
    BY <1>2
  <2>2. (<<r>> \o s) \o u = <<r>> \o (s \o u)
    BY <1>2, <2>1, ConcatAssociative
  <2> QED BY <1>2, <2>2
<1>4. s \o u \in Seq(R)
  BY <1>2, ConcatProperties
<1>5. Head(q \o u) = r /\ Tail(q \o u) = s \o u
  <2> DEFINE v == s \o u
  <2>1. v \in Seq(R) /\ q \o u = <<r>> \o v
    BY <1>3, <1>4
  <2> HIDE DEF v
  <2>2. Head(<<r>> \o v) = r /\ Tail(<<r>> \o v) = v
    BY <1>2, <2>1, PutInFront
  <2> QED BY <2>1, <2>2 DEF v
<1> QED BY <1>2, <1>5 DEF r, s

\* A request of the MkdirAll that an import has made.
LEMMA WayTurn ==
  ASSUME Typed, NEW c \in Clients, Turn(c), NEW t, IsFine(tree'), cur[c].op = "Import", cur[c].n \in Path,
         KindIn(tree, FullName(<<>>)) = "dir", NEW W, W = Stores(cur[c].n, archive[c]),
         Room(tree, FullName(cur[c].n), W),
         \A w \in flight : w \in W /\ KindIn(tree, Parent(w[1])) = "dir",
         NEW q \in Seq(Reqs(FALSE)), NEW u \in Seq(Reqs(FALSE)), prog[c] = q \o u,
         NEW m \in Needed(FullName(cur[c].n), W), NEW k \in Len(FullName(<<>>))..Len(m),
         Uploading(tree, flight, {m}, W, u), GoingAt(q, SubSeq(m, 1, k), Chain(m, k), tree, TRUE, TRUE)
  PROVE  Goes(t, tree', flight', cur[c], Onward(c), archive'[c])
<1> DEFINE N == FullName(cur[c].n)
           r == Head(q)
           rest == Tail(q)
           G == Goes(t, tree', flight', cur[c], Onward(c), archive'[c])
<1>1. N \in Path /\ W \subseteq Path \X Contents /\ archive[c] \subseteq Path \X Contents
  BY StoresType DEF Typed
<1>2. ASSUME NEW y, On(c, y), archive' = archive, Ends(y),
             Importing(tree', flight', N, W, y.prog)
      PROVE  G
  BY <1>1, <1>2, ImportIs DEF Ends
<1>3. m \in Path /\ InTree(N, m)
  BY <1>1, OnTheWay
<1>4. Grounds(m, tree, TRUE, TRUE) /\ IsFine(tree) /\ DOMAIN tree \subseteq Path
  <2>1. InTree(FullName(<<>>), N) /\ FullName(<<>>) \in Path
    BY BelowRoot, FullNameIs
  <2>2. InTree(FullName(<<>>), m)
    BY <1>1, <1>3, <2>1, InTreeTransitive DEF Path
  <2>3. IsFine(tree) /\ KindIn(tree, <<>>) = "dir" /\ DOMAIN tree \subseteq Path
    BY DEF Typed, IsFine, IsTree, KindIn
  <2>4. KindIn(tree, Parent(FullName(<<>>))) = "dir"
    BY <2>3, RootHasParent
  <2> QED BY <1>3, <2>2, <2>3, <2>4 DEF Grounds
<1>5. /\ q # <<>> /\ r.do \in {"look", "mkdir"}
      /\ r.do = "look" => Going(After(r, KindIn(tree, Looked(r)), rest), m, tree, TRUE, TRUE)
      /\ r.do = "mkdir" /\ ~Possible(r) => Going(Fail(Refused, rest), m, tree, TRUE, TRUE)
      /\ r.do = "mkdir" /\ Possible(r) =>
           /\ Going(Go(rest), m, Effect(r), TRUE, TRUE)
           /\ r.n \notin DOMAIN tree /\ r.n \in Path /\ InTree(r.n, m)
           /\ Effect(r) = Placed(tree, r.n, Dir)
  BY <1>4, MkdirAllStep
<1>6. /\ r \in Reqs(FALSE) /\ rest \in Seq(Reqs(FALSE))
      /\ Head(prog[c]) = r /\ Tail(prog[c]) = rest \o u
  <2>1. q # <<>>
    BY <1>5
  <2>2. Head(q \o u) = r /\ Tail(q \o u) = rest \o u
    BY <2>1, HeadBehind
  <2>3. r \in Reqs(FALSE) /\ rest \in Seq(Reqs(FALSE))
    BY <2>1, HeadBehind
  <2> QED BY <2>2, <2>3
<1>7. r.do = "look" => r.why \in {"mkdirAll", "opendir", "mkparent", "made", "all"} \cup Error
  <2>1. HeadIs(q, SubSeq(m, 1, k), Chain(m, k), tree, TRUE, TRUE)
    BY <1>4, HeadOfGoing
  <2>2. \A why, n : Look(why, n).why = why
    BY DEF Look, Request
  <2>3. \A n : Act("mkdir", n).do = "mkdir"
    BY DEF Act, Request
  <2> QED BY <2>1, <2>2, <2>3 DEF HeadIs
<1>11. m \in Needed(N, W) /\ KindIn(tree, FullName(<<>>)) = "dir" /\ Room(tree, N, W)
  OBVIOUS
<1>8. Plain(u)
  BY DEF Uploading, Brings, Plain
<1> HIDE DEF r, rest
<1>9. CASE r.do = "look"
  <2> DEFINE a == KindIn(tree, Looked(r))
             x == After(r, a, rest)
  <2>1. tree' = tree /\ flight' = flight /\ archive' = archive /\ On(c, After(r, a, rest \o u))
    BY <1>6, <1>9, TurnIs DEF Same
  <2>2. a \in {"dir", "file", "missing"}
    BY KindsAre
  <2>3. a = "file" => tree[Looked(r)] \in Contents
    <3>1. a = "file" => Looked(r) \in DOMAIN tree /\ tree[Looked(r)] # Dir
      BY DEF KindIn
    <3>2. \A p \in DOMAIN tree : tree[p] \in {Dir} \cup Contents
      BY <1>4 DEF IsFine, IsTree, Contents
    <3> QED BY <3>1, <3>2
  <2>4. Going(x, m, tree, TRUE, TRUE)
    BY <1>5, <1>9
  <2> HIDE DEF a
  <2>5. x.prog \in Seq(Reqs(FALSE))
    <3>1. Outcome(x, FALSE)
      BY <1>6, <1>9, <2>2, <2>3, AfterResult
    <3> QED BY <3>1 DEF Outcome
  <2>6. After(r, a, rest \o u) = Framed(x, u)
    BY <1>6, <1>7, <1>8, <1>9, <2>2, AfterFramed
  <2> HIDE DEF x, N
  <2>7. Importing(tree, flight, N, W, Framed(x, u).prog)
    BY <1>1, <1>4, <1>11, <2>4, <2>5, FramedGoes
  <2>8. Ends(Framed(x, u))
    BY <1>1, <1>4, <1>11, <2>4, <2>5, FramedGoes
  <2> QED BY <1>2, <2>1, <2>6, <2>7, <2>8
<1>10. CASE r.do = "mkdir"
  <2>1. "mkdir" \in Changes /\ "mkdir" \notin {"delete", "dele", "rmd"}
    BY DEF Changes
  <2>2. /\ flight' = flight /\ archive' = archive
        /\ \/ Possible(r) /\ tree' = Effect(r) /\ On(c, Go(rest \o u))
           \/ ~Possible(r) /\ tree' = tree /\ On(c, Fail(Refused, rest \o u))
    BY <1>6, <1>10, <2>1, TurnIs
  <2>3. CASE ~Possible(r) /\ tree' = tree /\ On(c, Fail(Refused, rest \o u))
    <3> DEFINE x == Fail(Refused, rest)
    <3>1. Refused \in Error /\ Refused # "ok"
      BY DEF Refused, Error, Results
    <3>2. Fail(Refused, rest \o u) = Framed(x, u)
      BY <1>6, <1>8, <3>1, FailFramed
    <3>3. Going(x, m, tree, TRUE, TRUE)
      BY <1>5, <1>10, <2>3
    <3>4. x.prog \in Seq(Reqs(FALSE))
      <4>1. Outcome(x, FALSE)
        BY <1>6, <3>1, FailResult
      <4> QED BY <4>1 DEF Outcome
    <3> HIDE DEF x, N
    <3>5. Importing(tree, flight, N, W, Framed(x, u).prog)
      BY <1>1, <1>4, <1>11, <3>3, <3>4, FramedGoes
    <3>6. Ends(Framed(x, u))
      BY <1>1, <1>4, <1>11, <3>3, <3>4, FramedGoes
    <3> QED BY <1>2, <2>2, <2>3, <3>2, <3>5, <3>6
  <2>4. CASE Possible(r) /\ tree' = Effect(r) /\ On(c, Go(rest \o u))
    <3> DEFINE x == Go(rest)
               b == Placed(tree, r.n, Dir)
    <3>1. tree' = b /\ Going(x, m, b, TRUE, TRUE) /\ r.n \notin DOMAIN tree /\ r.n \in Path /\ InTree(r.n, m)
      BY <1>5, <1>10, <2>4
    <3>2. Go(rest \o u) = Framed(x, u)
      BY <1>6, <1>8, GoFramed
    <3>3. x.prog \in Seq(Reqs(FALSE))
      <4>1. Outcome(x, FALSE)
        BY <1>6, GoResult
      <4> QED BY <4>1 DEF Outcome
    <3>4. Kept(tree, b, N, W)
      BY <1>1, <3>1, DirKept
    <3>5. DOMAIN b \subseteq Path
      BY <1>4, <3>1 DEF Placed
    <3> HIDE DEF x, b, N
    <3>6. Uploading(b, flight, {m}, W, u)
      BY <3>4, UploadingKept
    <3>7. /\ KindIn(b, FullName(<<>>)) = "dir" /\ Room(b, N, W)
          /\ \A w \in flight : w \in W /\ KindIn(b, Parent(w[1])) = "dir"
      BY <3>4, ImportStays
    <3>8. Importing(b, flight, N, W, Framed(x, u).prog)
      BY <1>1, <1>11, <3>1, <3>3, <3>5, <3>6, <3>7, FramedGoes
    <3>9. Ends(Framed(x, u))
      BY <1>1, <1>11, <3>1, <3>3, <3>5, <3>6, <3>7, FramedGoes
    <3> QED BY <1>2, <2>2, <2>4, <3>1, <3>2, <3>8, <3>9
  <2> QED BY <2>2, <2>3, <2>4
<1> QED BY <1>5, <1>9, <1>10 DEF r

\* A request of an import and what it leads to.
LEMMA ImportTurn ==
  ASSUME Typed, NEW c \in Clients, Turn(c), NEW t, IsFine(tree'), cur[c].op = "Import", cur[c].n \in Path,
         Importing(tree, flight, FullName(cur[c].n), Stores(cur[c].n, archive[c]), prog[c])
  PROVE  Goes(t, tree', flight', cur[c], Onward(c), archive'[c])
<1> DEFINE N == FullName(cur[c].n)
           W == Stores(cur[c].n, archive[c])
<1>1. /\ KindIn(tree, FullName(<<>>)) = "dir" /\ Room(tree, N, W)
      /\ \A w \in flight : w \in W /\ KindIn(tree, Parent(w[1])) = "dir"
  BY DEF Importing
<1>2. PICK q, u \in Seq(Reqs(FALSE)) :
        /\ prog[c] = q \o u
        /\ \/ q = <<>> /\ Uploading(tree, flight, {}, W, u)
           \/ \E m \in Needed(N, W) : \E k \in Len(FullName(<<>>))..Len(m) :
                /\ Uploading(tree, flight, {m}, W, u)
                /\ GoingAt(q, SubSeq(m, 1, k), Chain(m, k), tree, TRUE, TRUE)
  BY DEF Importing
<1>3. CASE q = <<>> /\ Uploading(tree, flight, {}, W, u)
  <2>1. prog[c] = u
    BY <1>2, <1>3, ConcatEmptySeq
  <2> HIDE DEF W
  <2>2. W = Stores(cur[c].n, archive[c])
    BY DEF W
  <2> QED BY <1>1, <1>3, <2>1, <2>2, UploadTurn
<1>4. CASE \E m \in Needed(N, W) : \E k \in Len(FullName(<<>>))..Len(m) :
             /\ Uploading(tree, flight, {m}, W, u)
             /\ GoingAt(q, SubSeq(m, 1, k), Chain(m, k), tree, TRUE, TRUE)
  <2>1. PICK m \in Needed(N, W) : \E k \in Len(FullName(<<>>))..Len(m) :
          /\ Uploading(tree, flight, {m}, W, u)
          /\ GoingAt(q, SubSeq(m, 1, k), Chain(m, k), tree, TRUE, TRUE)
    BY <1>4
  <2>2. PICK k \in Len(FullName(<<>>))..Len(m) :
          /\ Uploading(tree, flight, {m}, W, u)
          /\ GoingAt(q, SubSeq(m, 1, k), Chain(m, k), tree, TRUE, TRUE)
    BY <2>1
  <2> HIDE DEF W
  <2>3. W = Stores(cur[c].n, archive[c])
    BY DEF W
  <2> QED BY <1>1, <1>2, <2>2, <2>3, WayTurn
<1> QED BY <1>2, <1>3, <1>4

\* What the test suite asks of an import only if there is room for it.
Roomy(t, n, a) ==
  /\ \A e \in a : e[1] # <<>> /\ \A f \in a : e = f \/ ~InTree(e[1], f[1])
  /\ \A e \in a : \A p \in Prefixes(Parent(n \o e[1])) : KindIn(t, p) # "file"
  /\ \A e \in a : KindIn(t, n \o e[1]) # "dir"
  /\ \A p \in Prefixes(n) : KindIn(t, p) # "file"

\* Above and at a path of the file system where no file is, all that is on the
\* server is directories.
LEMMA NoFileAbove ==
  ASSUME NEW t, IsFine(t), KindIn(Seen(t), <<>>) = "dir", NEW n \in Path,
         \A p \in Prefixes(n) : KindIn(Seen(t), p) # "file",
         NEW q \in DOMAIN t, InTree(q, FullName(n))
  PROVE  t[q] = Dir
<1>1. DOMAIN t \subseteq Path /\ q \in Path /\ <<>> \in Path /\ FullName(n) \in Path
  BY FullNameIs DEF IsFine, Path
<1>2. FullName(<<>>) \in Path /\ InTree(FullName(<<>>), FullName(n))
  BY FullNameIs
<1>3. KindIn(t, FullName(<<>>)) = "dir"
  BY <1>1, SeenKind
<1>4. CASE InTree(FullName(<<>>), q)
  <2>1. PICK p \in Path : InTree(p, n) /\ FullName(p) = q
    BY <1>1, <1>4, NameOf
  <2>2. KindIn(Seen(t), p) # "file"
    BY <2>1, PrefixIs
  <2>3. KindIn(t, q) # "file"
    BY <1>1, <2>1, <2>2, SeenKind
  <2> QED BY <2>3 DEF KindIn
<1>5. CASE ~InTree(FullName(<<>>), q)
  <2>1. Len(q) \in Nat /\ Len(FullName(<<>>)) \in Nat
    BY <1>1, <1>2 DEF Path
  <2>2. InTree(q, FullName(<<>>))
    BY <1>1, <1>2, <1>5, <2>1, InTreeLinear DEF Path
  <2>3. FullName(<<>>) \in DOMAIN t /\ t[FullName(<<>>)] = Dir
    BY <1>3 DEF KindIn
  <2>4. q = FullName(<<>>) \/ Under(q, FullName(<<>>))
    BY <2>2 DEF Under
  <2> QED BY <1>1, <2>3, <2>4, AboveIsDir
<1> QED BY <1>4, <1>5

\* Then there is.
LEMMA RoomIs ==
  ASSUME NEW t, IsFine(t), KindIn(Seen(t), <<>>) = "dir", NEW n \in Path,
         NEW a, a \subseteq Path \X Contents, Roomy(Seen(t), n, a)
  PROVE  Room(t, FullName(n), Stores(n, a))
<1> DEFINE N == FullName(n)
           W == Stores(n, a)
<1>1. DOMAIN t \subseteq Path
  BY DEF IsFine
<1>2. ASSUME NEW w \in W
      PROVE  \E e \in a : /\ w = <<N \o e[1], e[2]>> /\ w[1] = FullName(n \o e[1]) /\ e[1] \in Path
                          /\ n \o e[1] \in Path /\ n \o e[1] # <<>> /\ Under(n, n \o e[1])
  <2>1. PICK e \in a : w = <<N \o e[1], e[2]>>
    BY DEF Stores
  <2>2. e[1] \in Path /\ e[1] # <<>>
    BY DEF Roomy
  <2>3. n \o e[1] \in Path /\ FullName(n \o e[1]) = N \o e[1] /\ InTree(n, n \o e[1])
    BY <2>2, NameBehind
  <2>4. n \o e[1] # n /\ n \o e[1] # <<>>
    BY <2>2, NameBehind
  <2> QED BY <2>1, <2>2, <2>3, <2>4 DEF Under
<1>3. ASSUME NEW w \in W PROVE Under(N, w[1]) /\ KindIn(t, w[1]) # "dir"
  <2>1. PICK e \in a : w[1] = FullName(n \o e[1]) /\ n \o e[1] \in Path /\ Under(n, n \o e[1])
    BY <1>2
  <2>2. KindIn(Seen(t), n \o e[1]) # "dir"
    BY DEF Roomy
  <2>3. KindIn(t, w[1]) # "dir"
    BY <1>1, <2>1, <2>2, SeenKind
  <2>4. Under(FullName(n), FullName(n \o e[1]))
    BY <2>1, NamesAlike
  <2> QED BY <2>1, <2>3, <2>4
<1>4. ASSUME NEW w \in W, NEW u \in W, w # u PROVE ~InTree(w[1], u[1])
  <2>1. PICK e \in a : w = <<N \o e[1], e[2]>> /\ w[1] = FullName(n \o e[1]) /\ e[1] \in Path /\ n \o e[1] \in Path
    BY <1>2
  <2>2. PICK f \in a : u = <<N \o f[1], f[2]>> /\ u[1] = FullName(n \o f[1]) /\ f[1] \in Path /\ n \o f[1] \in Path
    BY <1>2
  <2>3. e # f
    BY <1>4, <2>1, <2>2
  <2>4. ~InTree(e[1], f[1])
    BY <2>3 DEF Roomy
  <2>5. ~InTree(n \o e[1], n \o f[1])
    BY <2>1, <2>2, <2>4, NameBehind
  <2>6. ~InTree(FullName(n \o e[1]), FullName(n \o f[1]))
    BY <2>1, <2>2, <2>5, NamesAlike
  <2> QED BY <2>1, <2>2, <2>6
<1>5. ASSUME NEW q \in DOMAIN t, InTree(q, N) PROVE t[q] = Dir
  BY <1>5, NoFileAbove DEF Roomy
<1>6. ASSUME NEW q \in DOMAIN t, NEW w \in W, Under(q, w[1]) PROVE t[q] = Dir
  <2>1. PICK e \in a : w[1] = FullName(n \o e[1]) /\ n \o e[1] \in Path /\ n \o e[1] # <<>>
    BY <1>2
  <2> DEFINE p == n \o e[1]
  <2>2. \A x \in Prefixes(Parent(p)) : KindIn(Seen(t), x) # "file"
    BY DEF Roomy
  <2> HIDE DEF p
  <2>3. p \in Path /\ p # <<>> /\ w[1] = FullName(p)
    BY <2>1 DEF p
  <2>4. Len(p) # 0
    BY <2>3, EmptySeq DEF Path
  <2>5. FullName(Parent(p)) = Parent(FullName(p)) /\ Parent(p) \in Path /\ FullName(p) \in Path
    BY <2>3, <2>4, NamesAlike
  <2>6. InTree(q, Parent(FullName(p)))
    <3>1. FullName(p) # <<>>
      BY <1>6, <2>3, <2>4, NameLength
    <3>2. q \in Path /\ Parent(FullName(p)) \in Path
      BY <1>1, <2>5, FullNameIs
    <3>3. q = Parent(FullName(p)) \/ Under(q, Parent(FullName(p)))
      BY <1>6, <2>3, <2>5, <3>1, <3>2, ParentAbove
    <3>4. InTree(Parent(FullName(p)), Parent(FullName(p)))
      BY <3>2 DEF InTree, Path
    <3> QED BY <3>3, <3>4 DEF Under
  <2> QED BY <2>2, <2>5, <2>6, NoFileAbove
<1> HIDE DEF N, W
<1>7. Room(t, N, W)
  BY <1>3, <1>4, <1>5, <1>6 DEF Room
<1> QED BY <1>7 DEF N, W

\* Nothing is asked of an import without room.
LEMMA NoRoom ==
  ASSUME NEW t, IsFine(t), KindIn(Seen(t), <<>>) = "dir", NEW call, call.op = "Import", call.n \in Path,
         NEW a, a \subseteq Path \X Contents, ~Room(t, FullName(call.n), Stores(call.n, a)),
         NEW r, NEW u
  PROVE  Keeps(call, Seen(t), r, u, a)
<1>1. ~Roomy(Seen(t), call.n, a)
  BY RoomIs
<1> QED BY <1>1 DEF Keeps, Roomy

\* What a MkdirAll has come to is so in a tree that has all that was there.
LEMMA GoingAtStays ==
  ASSUME NEW q, NEW m, NEW k \in Len(FullName(<<>>))..Len(m), NEW b, NEW u, KindsStay(b, u),
         GoingAt(q, SubSeq(m, 1, k), Chain(m, k), b, TRUE, TRUE)
  PROVE  \E l \in Len(FullName(<<>>))..Len(m) : GoingAt(q, SubSeq(m, 1, l), Chain(m, l), u, TRUE, TRUE)
<1> DEFINE x == [prog |-> q, ret |-> "none"]
<1>1. x.prog = q /\ x.ret = "none"
  OBVIOUS
<1> HIDE DEF x
<1>2. Going(x, m, b, TRUE, TRUE)
  BY <1>1 DEF Going
<1>3. Going(x, m, u, TRUE, TRUE)
  BY <1>2, GoingStays
<1>4. x.ret # "ok" /\ x.ret \notin Error
  BY <1>1 DEF Error, Results
<1> QED BY <1>1, <1>3, <1>4 DEF Going

\* An upload of an import reaches the server.
LEMMA ImportLands ==
  ASSUME Typed, NEW c \in Clients, Lands, NEW t, IsFine(tree'), cur[c].op = "Import", cur[c].n \in Path,
         Importing(tree, flight, FullName(cur[c].n), Stores(cur[c].n, archive[c]), prog[c]),
         prog[c] = <<>> => ret[c] = "ok"
  PROVE  Goes(t, tree', flight', cur[c], Onward(c), archive[c])
<1> DEFINE N == FullName(cur[c].n)
           W == Stores(cur[c].n, archive[c])
<1>1. N \in Path /\ W \subseteq Path \X Contents /\ archive[c] \subseteq Path \X Contents
  BY StoresType DEF Typed
<1>2. /\ KindIn(tree, FullName(<<>>)) = "dir" /\ Room(tree, N, W)
      /\ \A w \in flight : w \in W /\ KindIn(tree, Parent(w[1])) = "dir"
  BY DEF Importing
<1>3. PICK w \in flight :
        /\ flight' = flight \ {w}
        /\ tree' = IF Possible(Put(w[1], w[2])) THEN Effect(Put(w[1], w[2])) ELSE tree
        /\ UNCHANGED <<prog, ret>>
  BY DEF Lands, Becomes
<1>4. w \in W /\ KindIn(tree, Parent(w[1])) = "dir"
  BY <1>2
<1> DEFINE u == Placed(tree, w[1], w[2])
           y == [prog |-> prog[c], ret |-> ret[c]]
<1>5. tree' = u
  <2>1. w[1] # <<>> /\ KindIn(tree, w[1]) # "dir"
    BY <1>1, <1>2, <1>4, RoomFor
  <2>2. /\ Put(w[1], w[2]).do = "put" /\ Put(w[1], w[2]).n = w[1] /\ Put(w[1], w[2]).v = w[2]
    BY DEF Put, Request
  <2>3. Possible(Put(w[1], w[2])) /\ Effect(Put(w[1], w[2])) = u
    BY <1>4, <2>1, <2>2 DEF Possible, Effect, Kind
  <2> QED BY <1>3, <2>3
<1>6. Kept(tree, u, N, W) /\ w[1] \in DOMAIN u /\ u[w[1]] = w[2]
  BY <1>1, <1>2, <1>4, UploadKept
<1> HIDE DEF u, W
<1>7. /\ KindIn(u, FullName(<<>>)) = "dir" /\ Room(u, N, W)
      /\ \A v \in flight : v \in W /\ KindIn(u, Parent(v[1])) = "dir"
  BY <1>2, <1>6, ImportStays
<1>8. \A D, p : Uploading(tree, flight, D, W, p) => Uploading(u, flight', D, W, p)
  <2> SUFFICES ASSUME NEW D, NEW p, Uploading(tree, flight, D, W, p) PROVE Uploading(u, flight', D, W, p)
    OBVIOUS
  <2>1. \A v \in flight : v \in flight' \/ (v[1] \in DOMAIN u /\ u[v[1]] = v[2])
    BY <1>3, <1>6
  <2> QED BY <1>6, <2>1, UploadingKept
<1>9. PICK q, p \in Seq(Reqs(FALSE)) :
        /\ prog[c] = q \o p
        /\ \/ q = <<>> /\ Uploading(tree, flight, {}, W, p)
           \/ \E m \in Needed(N, W) : \E k \in Len(FullName(<<>>))..Len(m) :
                /\ Uploading(tree, flight, {m}, W, p)
                /\ GoingAt(q, SubSeq(m, 1, k), Chain(m, k), tree, TRUE, TRUE)
  BY DEF Importing, W
<1>10. KindsStay(tree, u)
  BY <1>6 DEF Kept
<1>11. \/ q = <<>> /\ Uploading(u, flight', {}, W, p)
       \/ \E m \in Needed(N, W) : \E k \in Len(FullName(<<>>))..Len(m) :
            /\ Uploading(u, flight', {m}, W, p)
            /\ GoingAt(q, SubSeq(m, 1, k), Chain(m, k), u, TRUE, TRUE)
  <2>1. CASE q = <<>> /\ Uploading(tree, flight, {}, W, p)
    BY <1>8, <2>1
  <2>2. ASSUME NEW m \in Needed(N, W), NEW k \in Len(FullName(<<>>))..Len(m),
               Uploading(tree, flight, {m}, W, p), GoingAt(q, SubSeq(m, 1, k), Chain(m, k), tree, TRUE, TRUE)
        PROVE  \E l \in Len(FullName(<<>>))..Len(m) :
                 Uploading(u, flight', {m}, W, p) /\ GoingAt(q, SubSeq(m, 1, l), Chain(m, l), u, TRUE, TRUE)
    <3>1. Uploading(u, flight', {m}, W, p)
      BY <1>8, <2>2
    <3>2. \E l \in Len(FullName(<<>>))..Len(m) : GoingAt(q, SubSeq(m, 1, l), Chain(m, l), u, TRUE, TRUE)
      BY <1>10, <2>2, GoingAtStays
    <3> QED BY <3>1, <3>2
  <2> QED BY <1>9, <2>1, <2>2
<1>12. Importing(u, flight', N, W, prog[c])
  BY <1>3, <1>7, <1>9, <1>11 DEF Importing
<1>13. On(c, y) /\ y.prog = prog[c] /\ y.ret = ret[c]
  BY <1>3 DEF On
<1> HIDE DEF y, N
<1>14. Importing(tree', flight', FullName(cur[c].n), Stores(cur[c].n, archive[c]), y.prog)
  BY <1>5, <1>12, <1>13 DEF N, W
<1>15. y.prog = <<>> => y.ret = "ok"
  BY <1>13
<1> QED BY <1>1, <1>13, <1>14, <1>15, ImportIs

-----------------------------------------------------------------------------
(* A call begins alone.                                                    *)

\* It begins with one request.
LEMMA OneBegins ==
  ASSUME NEW t, NEW b, NEW fl, NEW call, NEW a, NEW c, NEW r, r.do # "catch", On(c, Go(<<r>>)),
         Underway(t, b, fl, call, [prog |-> <<r>>, ret |-> "none"], a)
  PROVE  Goes(t, b, fl, call, Onward(c), a)
<1>1. Go(<<r>>) = [prog |-> <<r>>, ret |-> "none"] /\ <<r>> # <<>>
  BY FewRequests
<1> DEFINE y == [prog |-> <<r>>, ret |-> "none"]
<1>2. y.prog = <<r>> /\ y.ret = "none" /\ On(c, y)
  BY <1>1
<1> HIDE DEF y
<1>3. y = [prog |-> y.prog, ret |-> y.ret]
  BY DEF y
<1>4. Underway(t, b, fl, call, y, a)
  BY DEF y
<1>5. Underway(t, b, fl, call, [prog |-> y.prog, ret |-> y.ret], a)
  BY <1>3, <1>4
<1>6. y.prog # <<>>
  BY <1>1, <1>2
<1> QED BY <1>2, <1>5, <1>6, GoesIs

\* A Mkdir.
LEMMA MkdirBegins ==
  ASSUME Typed, NEW c \in Clients, KindIn(Seen(tree), <<>>) = "dir", NEW call, call.op = "Mkdir",
         call.n \in Path, call.n = <<>> \/ (call.n # <<>> /\ KindIn(Seen(tree), Parent(call.n)) # "file"),
         NEW M, On(c, Program(c, "Mkdir", FullName(call.n), M, call.v)), NEW a
  PROVE  Goes(tree, tree, {}, call, Onward(c), a)
<1> DEFINE n == call.n
           N == FullName(n)
           r == Look("mkdir", N)
<1>1. r.do # "catch" /\ On(c, Go(<<r>>))
  BY DEF Look, Request, Program
<1>2. DOMAIN tree \subseteq Path /\ <<>> \in Path /\ N \in Path
  BY FullNameIs DEF Typed, IsFine, Path
<1>3. KindIn(tree, N) = "missing" => KindIn(tree, Parent(N)) # "file"
  <2>1. CASE n = <<>>
    <3>1. KindIn(tree, N) = "dir"
      BY <1>2, <2>1, SeenKind
    <3> QED BY <3>1
  <2>2. CASE n # <<>> /\ KindIn(Seen(tree), Parent(n)) # "file"
    <3>1. Len(n) # 0
      BY <2>2, EmptySeq DEF Path
    <3>2. FullName(Parent(n)) = Parent(N) /\ Parent(n) \in Path
      BY <3>1, NamesAlike
    <3>3. KindIn(Seen(tree), Parent(n)) = KindIn(tree, FullName(Parent(n)))
      BY <1>2, <3>2, SeenKind
    <3> QED BY <2>2, <3>2, <3>3
  <2> QED BY <2>1, <2>2
<1> DEFINE x == [prog |-> <<r>>, ret |-> "none"]
<1>4. x.prog = <<r>>
  OBVIOUS
<1> HIDE DEF x, r
<1>5. Making(tree, tree, N, x.prog)
  BY <1>3, <1>4 DEF Making, r
<1>6. Underway(tree, tree, {}, call, x, a)
  BY <1>5 DEF Underway
<1> QED BY <1>1, <1>6, OneBegins DEF x

\* A Create.
LEMMA CreateBegins ==
  ASSUME Typed, NEW c \in Clients, KindIn(Seen(tree), <<>>) = "dir", NEW call, call.op = "Create",
         call.n \in Path, call.n # <<>>, KindIn(Seen(tree), Parent(call.n)) # "file",
         KindIn(Seen(tree), call.n) # "dir",
         NEW M, On(c, Program(c, "Create", FullName(call.n), M, call.v)), NEW a
  PROVE  Goes(tree, tree, {}, call, Onward(c), a)
<1> DEFINE n == call.n
           N == FullName(n)
           v == call.v
           r == IF backend = "webdav" /\ Len(N) = 1 THEN Put(N, v) ELSE Request("look", "parent", N, <<>>, v)
<1>1. r.do # "catch" /\ On(c, Go(<<r>>))
  BY DEF Put, Request, Program
<1>2. DOMAIN tree \subseteq Path /\ <<>> \in Path /\ N \in Path
  BY FullNameIs DEF Typed, IsFine, Path
<1>3. Len(n) # 0
  BY EmptySeq DEF Path
<1>4. FullName(Parent(n)) = Parent(N) /\ Parent(n) \in Path
  BY <1>3, NamesAlike
<1>5. KindIn(tree, Parent(N)) # "file" /\ KindIn(tree, N) # "dir"
  BY <1>2, <1>4, SeenKind
<1>6. N # <<>>
  BY <1>3, NameLength
<1>7. Len(N) = 1 => KindIn(tree, Parent(N)) = "dir"
  <2>1. ASSUME Len(N) = 1 PROVE Parent(N) = <<>>
    <3> HIDE DEF N
    <3>1. Parent(N) \in Path /\ Len(Parent(N)) = Len(N) - 1
      BY <1>2, <1>6, ParentAbove
    <3> QED BY <2>1, <3>1, EmptySeq DEF Path
  <2>2. KindIn(tree, <<>>) = "dir"
    BY DEF Typed, IsFine, IsTree, KindIn
  <2> QED BY <2>1, <2>2
<1> DEFINE x == [prog |-> <<r>>, ret |-> "none"]
<1>8. x.prog = <<r>>
  OBVIOUS
<1>9. (r = Put(N, v) /\ Len(N) = 1) \/ r = Request("look", "parent", N, <<>>, v)
  OBVIOUS
<1> HIDE DEF x, r
<1>10. Creating(tree, tree, {}, N, v, x)
  BY <1>5, <1>6, <1>7, <1>8, <1>9 DEF Creating
<1>11. Underway(tree, tree, {}, call, x, a)
  BY <1>10 DEF Underway
<1> QED BY <1>1, <1>11, OneBegins DEF x

\* The first look of a MkdirAll.
LEMMA AllAt ==
  ASSUME NEW m \in Path, InTree(FullName(<<>>), m), NEW t
  PROVE  \E k \in Len(FullName(<<>>))..Len(m) :
           GoingAt(<<Look("all", m)>>, SubSeq(m, 1, k), Chain(m, k), t, TRUE, TRUE)
<1>1. Len(FullName(<<>>)) \in Nat /\ Len(m) \in Nat /\ Len(FullName(<<>>)) =< Len(m)
  BY FullNameIs DEF InTree, Path
<1>2. Len(m) \in 0..Len(m) /\ Len(m) \in Len(FullName(<<>>))..Len(m)
  BY <1>1
<1>3. SubSeq(m, 1, Len(m)) = m /\ Chain(m, Len(m)) = <<>>
  BY <1>2, Beginning, ChainIs
<1>4. <<Look("all", m)>> = <<Look("all", m)>> \o <<>>
  <2> DEFINE r == Look("all", m)
  <2>1. r.do # "catch"
    BY DEF Look, Request
  <2> HIDE DEF r
  <2>2. <<r>> \o <<>> = <<r>>
    BY <2>1, FewRequests
  <2> QED BY <2>2 DEF r
<1>5. GoingAt(<<Look("all", m)>>, SubSeq(m, 1, Len(m)), Chain(m, Len(m)), t, TRUE, TRUE)
  BY <1>3, <1>4 DEF GoingAt
<1> QED BY <1>2, <1>5

\* A MkdirAll.
LEMMA MkdirAllBegins ==
  ASSUME Typed, NEW c \in Clients, NEW call, call.op = "MkdirAll", call.n \in Path,
         NEW M, On(c, Program(c, "MkdirAll", FullName(call.n), M, call.v)), NEW a
  PROVE  Goes(tree, tree, {}, call, Onward(c), a)
<1> DEFINE N == FullName(call.n)
           r == Look("all", N)
           x == [prog |-> <<r>>, ret |-> "none"]
<1>1. r.do # "catch" /\ On(c, Go(<<r>>))
  BY DEF Look, Request, Program
<1>2. N \in Path /\ InTree(FullName(<<>>), N)
  BY FullNameIs
<1>3. \E k \in Len(FullName(<<>>))..Len(N) : GoingAt(x.prog, SubSeq(N, 1, k), Chain(N, k), tree, TRUE, TRUE)
  BY <1>2, AllAt
<1>4. Grown(tree, tree, N)
  BY DEF Grown
<1> HIDE DEF x, r
<1>5. Underway(tree, tree, {}, call, x, a)
  BY <1>3, <1>4 DEF Underway
<1> QED BY <1>1, <1>5, OneBegins DEF x

\* A RemoveAll.
LEMMA RemoveBegins ==
  ASSUME Typed, NEW c \in Clients, NEW call, call.op = "RemoveAll", call.n \in Path,
         NEW M, On(c, Program(c, "RemoveAll", FullName(call.n), M, call.v)), NEW a
  PROVE  Goes(tree, tree, {}, call, Onward(c), a)
<1> DEFINE N == FullName(call.n)
           r == IF backend = "ftp" THEN Look("remove", N) ELSE Act("delete", N)
           x == [prog |-> <<r>>, ret |-> "none"]
<1>1. CASE N = <<>>
  <2> DEFINE y == Fail("errPermission", <<>>)
  <2>1. y = [prog |-> <<>>, ret |-> "errPermission"]
    BY FailsNow
  <2>2. On(c, y) /\ y.prog = <<>> /\ y.ret = "errPermission"
    BY <1>1, <2>1 DEF Program
  <2> HIDE DEF y
  <2>3. Keeps(call, Seen(tree), y.ret, Seen(tree), a)
    BY <1>1, <2>2 DEF Keeps
  <2> QED BY <2>2, <2>3, GoesIs
<1>2. CASE N # <<>>
  <2>1. r.do # "catch" /\ On(c, Go(<<r>>))
    BY <1>2 DEF Look, Act, Request, Program
  <2>2. backend \in {"webdav", "ftp"}
    BY NamespaceAssumption DEF Typed
  <2>3. (r = Look("remove", N) \/ (backend = "webdav" /\ r = Act("delete", N))) /\ x.prog = <<r>>
    BY <2>2
  <2> HIDE DEF x, r
  <2>4. Removing(tree, tree, N, x.prog)
    BY <1>2, <2>3 DEF Removing
  <2>5. Underway(tree, tree, {}, call, x, a)
    BY <2>4 DEF Underway
  <2> QED BY <2>1, <2>5, OneBegins DEF x
<1> QED BY <1>1, <1>2

\* A Rename.
LEMMA RenameBegins ==
  ASSUME Typed, NEW c \in Clients, NEW call, call.op = "Rename", call.n \in Path, call.to \in Path,
         call.to # <<>>, call.n # call.to, backend = "ftp" => KindIn(Seen(tree), call.to) = "missing",
         On(c, Program(c, "Rename", FullName(call.n), FullName(call.to), call.v)), NEW a
  PROVE  Goes(tree, tree, {}, call, Onward(c), a)
<1> DEFINE N == FullName(call.n)
           M == FullName(call.to)
           r == Request("move", "", N, M, 0)
           x == [prog |-> <<r>>, ret |-> "none"]
<1>1. N # M
  BY NamesAlike
<1>2. r.do # "catch" /\ On(c, Go(<<r>>)) /\ x.prog = <<r>>
  BY <1>1 DEF Request, Program
<1>3. backend = "ftp" => KindIn(tree, M) = "missing"
  BY SeenKind DEF Typed, IsFine
<1> HIDE DEF x
<1>4. Moving(tree, tree, call.n, call.to, x.prog)
  BY <1>2, <1>3 DEF Moving
<1> HIDE DEF r
<1>5. Underway(tree, tree, {}, call, x, a)
  BY <1>4 DEF Underway
<1> QED BY <1>2, <1>5, OneBegins DEF x

\* An Export.
LEMMA ExportBegins ==
  ASSUME Typed, NEW c \in Clients, NEW call, call.op = "Export", call.n \in Path,
         NEW M \in Path, On(c, Program(c, "Export", FullName(call.n), M, call.v))
  PROVE  Goes(tree, tree, {}, call, Onward(c), {})
<1> DEFINE N == FullName(call.n)
           r == Look("walk", N)
           x == [prog |-> <<r>>, ret |-> "none"]
<1>1. r.do = "look" /\ r.n = N /\ Program(c, "Export", N, M, call.v) = Go(<<r>>) /\ x.prog = <<r>>
  BY DEF Look, Request, Program
<1>2. N \in Path
  BY FullNameIs
<1>3. Go(<<r>>) = [prog |-> <<r>>, ret |-> "none"]
  <2>1. r.do # "catch"
    BY <1>1
  <2> HIDE DEF r
  <2> QED BY <2>1, FewRequests
<1>4. Gathering(Program(c, "Export", N, M, call.v).prog, call.n, Files(Seen(tree)), {})
  BY WalkBegins
<1>5. Gathering(x.prog, call.n, Files(Seen(tree)), {})
  BY <1>1, <1>3, <1>4
<1>6. InTree(N, N)
  BY <1>2 DEF InTree, Path
<1> HIDE DEF x, r
<1>7. Seeks(tree, N, r)
  BY <1>1, <1>6 DEF Seeks
<1>8. \A i \in DOMAIN x.prog : Seeks(tree, N, x.prog[i])
  BY <1>1, <1>7, SeekOne
<1>9. Exporting(tree, tree, call.n, x.prog, {})
  BY <1>5, <1>8 DEF Exporting
<1>10. Underway(tree, tree, {}, call, x, {})
  BY <1>9 DEF Underway
<1>11. r.do # "catch" /\ On(c, Go(<<r>>))
  BY <1>1
<1> QED BY <1>10, <1>11, OneBegins DEF x

\* An import begins with what leads to the upload of every entry.
LEMMA EntriesUpload ==
  ASSUME NEW b, NEW N \in Path, NEW n \in Path, N = FullName(n), KindIn(b, FullName(<<>>)) = "dir",
         NEW a, a \subseteq Path \X Contents, IsFiniteSet(a), NEW D
  PROVE  Uploading(b, {}, D, Stores(n, a), Each(a, LAMBDA e : ImportEntry(N, e)))
<1> DEFINE s == SetToSeq(a)
           p == [i \in DOMAIN s |-> ImportEntry(N, s[i])]
           W == Stores(n, a)
           up(e) == <<N \o e[1], e[2]>>
<1>1. s \in Seq(a) /\ \A e \in a : \E i \in DOMAIN s : s[i] = e
  BY ListingIs
<1>2. Each(a, LAMBDA e : ImportEntry(N, e)) = p
  BY DEF Each
<1>3. DOMAIN p = DOMAIN s /\ \A i \in DOMAIN s : p[i] = ImportEntry(N, s[i]) /\ s[i] \in a
  BY <1>1
<1>4. ASSUME NEW e \in a
      PROVE  /\ up(e) \in W /\ Brings(ImportEntry(N, e), up(e))
             /\ ImportEntry(N, e).do = "look"
             /\ ImportEntry(N, e).why = "import" \/ KindIn(b, Parent(up(e)[1])) = "dir"
  <2>1. up(e) \in W /\ up(e)[1] = N \o e[1] /\ up(e)[2] = e[2]
    BY DEF Stores
  <2> DEFINE r == ImportEntry(N, e)
  <2>2. /\ r.do = "look" /\ r.n = N \o e[1] /\ r.v = e[2]
        /\ r.why = IF Parent(N \o e[1]) = FullName(<<>>) THEN "parent" ELSE "import"
    BY DEF ImportEntry, Request
  <2> HIDE DEF r, up
  <2>3. Brings(r, up(e))
    BY <2>1, <2>2 DEF Brings
  <2>4. r.why = "import" \/ KindIn(b, Parent(up(e)[1])) = "dir"
    BY <2>1, <2>2
  <2> QED BY <2>1, <2>2, <2>3, <2>4 DEF r
<1> HIDE DEF p, s, W, up
<1>5. \A i \in DOMAIN p : \E w \in W :
        /\ Brings(p[i], w)
        /\ \/ p[i].do = "look" /\ p[i].why = "import"
           \/ Parent(w[1]) \in D
           \/ KindIn(b, Parent(w[1])) = "dir"
  <2> SUFFICES ASSUME NEW i \in DOMAIN p
               PROVE  \E w \in W : /\ Brings(p[i], w)
                                   /\ \/ p[i].do = "look" /\ p[i].why = "import"
                                      \/ Parent(w[1]) \in D
                                      \/ KindIn(b, Parent(w[1])) = "dir"
    OBVIOUS
  <2>1. p[i] = ImportEntry(N, s[i]) /\ s[i] \in a
    BY <1>3
  <2> QED BY <1>4, <2>1
<1>6. \A w \in W : \E i \in DOMAIN p : Brings(p[i], w)
  <2> SUFFICES ASSUME NEW w \in W PROVE \E i \in DOMAIN p : Brings(p[i], w)
    OBVIOUS
  <2>1. PICK e \in a : w = up(e)
    BY DEF W, up, Stores
  <2>2. PICK i \in DOMAIN s : s[i] = e
    BY <1>1, <2>1
  <2>3. p[i] = ImportEntry(N, e) /\ i \in DOMAIN p
    BY <1>3, <2>2
  <2>4. Brings(ImportEntry(N, e), up(e))
    BY <1>4
  <2> QED BY <2>1, <2>3, <2>4
<1>7. Uploading(b, {}, D, W, p)
  BY <1>5, <1>6 DEF Uploading
<1> QED BY <1>2, <1>7 DEF W

\* An import whose entries need no other directory than those that are there, or
\* the one it is to.
LEMMA ImportBegins ==
  ASSUME Typed, NEW c \in Clients, KindIn(Seen(tree), <<>>) = "dir", NEW call, call.op = "Import",
         call.n \in Path, NEW M, On(c, Program(c, "Import", FullName(call.n), M, call.v))
  PROVE  Goes(tree, tree, {}, call, Onward(c), archive[c])
<1> DEFINE n == call.n
           N == FullName(n)
           a == archive[c]
           W == Stores(n, a)
           u == Each(a, LAMBDA e : ImportEntry(N, e))
           dir == IF N = FullName(<<>>) THEN <<>> ELSE <<Look("all", N)>>
           G == Goes(tree, tree, {}, call, Onward(c), a)
<1>1. N \in Path /\ InTree(FullName(<<>>), N) /\ <<>> \in Path
  BY FullNameIs DEF Path
<1>2. a \subseteq Path \X Contents /\ IsFiniteSet(a) /\ IsFine(tree) /\ DOMAIN tree \subseteq Path
  BY DEF Typed, IsFine
<1>3. KindIn(tree, FullName(<<>>)) = "dir"
  BY <1>1, <1>2, SeenKind
<1>4. On(c, Go(dir \o u))
  BY DEF Program, Import
<1>5. \A D : Uploading(tree, {}, D, W, u)
  <2> SUFFICES ASSUME NEW D PROVE Uploading(tree, {}, D, W, u)
    OBVIOUS
  <2> QED BY <1>1, <1>2, <1>3, EntriesUpload
<1>6. u \in Seq(Reqs(FALSE))
  <2> DEFINE s == SetToSeq(a)
  <2>1. s \in Seq(a)
    BY <1>2, ListingIs
  <2>2. ASSUME NEW e \in a PROVE ImportEntry(N, e) \in Reqs(FALSE)
    <3> DEFINE m == N \o e[1]
    <3>1. m \in Path /\ e[2] \in Contents
      BY <1>1, <1>2, ConcatProperties DEF Path
    <3> HIDE DEF m
    <3>2. \A why \in {"parent", "import"} : Request("look", why, m, <<>>, e[2]) \in Reqs(FALSE)
      BY <3>1, MadeRequests
    <3> QED BY <3>2 DEF ImportEntry, m
  <2>3. u = [i \in DOMAIN s |-> ImportEntry(N, s[i])]
    BY DEF Each
  <2> HIDE DEF s
  <2>4. DOMAIN s = 1..Len(s) /\ Len(s) \in Nat /\ \A i \in DOMAIN s : s[i] \in a
    BY <2>1
  <2>5. [i \in DOMAIN s |-> ImportEntry(N, s[i])] \in Seq(Reqs(FALSE))
    <3> DEFINE z(i) == ImportEntry(N, s[i])
               R == Reqs(FALSE)
    <3>1. \A i \in 1..Len(s) : z(i) \in R
      BY <2>2, <2>4
    <3> HIDE DEF z, R
    <3>2. [i \in 1..Len(s) |-> z(i)] \in Seq(R)
      BY <2>4, <3>1
    <3> QED BY <2>4, <3>2 DEF z, R
  <2> QED BY <2>3, <2>5
<1> HIDE DEF u
<1>7. CASE ~Room(tree, N, W)
  <2> DEFINE x == Onward(c)
  <2>1. \A r : Keeps(call, Seen(tree), r, Seen(tree), a)
    BY <1>2, <1>7, NoRoom
  <2>2. Underway(tree, tree, {}, call, x, a)
    BY <1>7 DEF Underway
  <2> HIDE DEF x
  <2> QED BY <2>1, <2>2 DEF Goes, x
<1>8. CASE Room(tree, N, W) /\ N = FullName(<<>>)
  <2> DEFINE y == Go(dir \o u)
  <2>1. dir \o u = u
    BY <1>6, <1>8, ConcatEmptySeq
  <2>2. y = Go(u) /\ On(c, y)
    BY <1>4, <2>1
  <2> HIDE DEF y, N, W
  <2>3. Importing(tree, {}, N, W, Go(u).prog)
    BY <1>3, <1>5, <1>6, <1>8, UploadsGo
  <2>4. Go(u).prog = <<>> => Go(u).ret = "ok"
    BY <1>3, <1>5, <1>6, <1>8, UploadsGo
  <2>5. Importing(tree, {}, FullName(call.n), Stores(call.n, a), y.prog)
    BY <2>2, <2>3 DEF N, W
  <2>6. y.prog = <<>> => y.ret = "ok"
    BY <2>2, <2>4
  <2> QED BY <1>2, <2>2, <2>5, <2>6, ImportIs
<1>9. CASE Room(tree, N, W) /\ N # FullName(<<>>)
  <2> DEFINE l == Look("all", N)
             q == <<l>>
             p == q \o u
             y == [prog |-> p, ret |-> "none"]
  <2>1. l.do # "catch" /\ l \in Reqs(FALSE)
    <3>1. "all" \in (Whys \ {"", "parent", "entry", "import", "remove"}) \cup Error
      BY DEF Whys
    <3>2. l \in Reqs(FALSE)
      BY <1>1, <3>1, MadeRequests
    <3> QED BY <3>2 DEF Look, Request
  <2>2. dir = q /\ On(c, Go(p))
    BY <1>4, <1>9
  <2>3. \E k \in Len(FullName(<<>>))..Len(N) : GoingAt(q, SubSeq(N, 1, k), Chain(N, k), tree, TRUE, TRUE)
    BY <1>1, AllAt
  <2> HIDE DEF l
  <2>4. q \in Seq(Reqs(FALSE)) /\ Go(p) = y
    <3>1. Go(<<l>> \o u) = [prog |-> <<l>> \o u, ret |-> "none"]
      BY <1>6, <2>1, GoOn
    <3>2. q \in Seq(Reqs(FALSE))
      <4> DEFINE R == Reqs(FALSE)
      <4>1. l \in R
        BY <2>1
      <4> HIDE DEF R
      <4>2. <<l>> \in Seq(R)
        BY <4>1
      <4> QED BY <4>2 DEF R
    <3> QED BY <3>1, <3>2
  <2>5. p # <<>>
    BY <1>6, <2>1, PutInFront
  <2>6. y.prog = p /\ y.ret = "none" /\ On(c, y)
    BY <2>2, <2>4
  <2>7. N \in Needed(N, W)
    BY DEF Needed
  <2> HIDE DEF y, N, W, q
  <2>8. Importing(tree, {}, N, W, p)
    BY <1>3, <1>5, <1>6, <1>9, <2>3, <2>4, <2>7 DEF Importing
  <2> HIDE DEF p
  <2>9. Importing(tree, {}, FullName(call.n), Stores(call.n, a), y.prog)
    BY <2>6, <2>8 DEF N, W
  <2>10. y.prog = <<>> => y.ret = "ok"
    BY <2>5, <2>6
  <2> QED BY <1>2, <2>6, <2>9, <2>10, ImportIs
<1> QED BY <1>7, <1>8, <1>9

-----------------------------------------------------------------------------
(* A call alone, step by step.                                             *)

\* What a call is said to have done depends on the backend, which stays.
LEMMA SameNames ==
  ASSUME backend' = backend
  PROVE  /\ \A p : FullName(p)' = FullName(p)
         /\ \A t : Seen(t)' = Seen(t)
<1>1. \A p : FullName(p)' = FullName(p)
  BY DEF FullName
<1>2. \A t : Seen(t)' = Seen(t)
  BY <1>1 DEF Seen
<1> QED BY <1>1, <1>2

\* So does what is said of it while it runs.
LEMMA SameGoes ==
  ASSUME backend' = backend
  PROVE  \A t, b, fl, call, x, a : Goes(t, b, fl, call, x, a)' <=> Goes(t, b, fl, call, x, a)
<1>1. (\A p : FullName(p)' = FullName(p)) /\ \A t : Seen(t)' = Seen(t)
  BY SameNames
<1> SUFFICES ASSUME NEW t, NEW b, NEW fl, NEW call, NEW x, NEW a
             PROVE  Goes(t, b, fl, call, x, a)' <=> Goes(t, b, fl, call, x, a)
  OBVIOUS
<1>2. \A u, r, v : Keeps(call, u, r, v, a)' <=> Keeps(call, u, r, v, a)
  BY <1>1 DEF Keeps
<1>3. \A N, p : Making(t, b, N, p)' <=> Making(t, b, N, p)
  BY <1>1 DEF Making
<1>4. \A N, p : Removing(t, b, N, p)' <=> Removing(t, b, N, p)
  BY <1>1 DEF Removing
<1>5. \A n, to, p : Moving(t, b, n, to, p)' <=> Moving(t, b, n, to, p)
  BY <1>1 DEF Moving
<1>6. \A p, n, S, A : Gathering(p, n, S, A)' <=> Gathering(p, n, S, A)
  BY <1>1 DEF Gathering, Finds
<1>7. \A n, p : Exporting(t, b, n, p, a)' <=> Exporting(t, b, n, p, a)
  BY <1>1, <1>6 DEF Exporting
<1>8. \A n : Stores(n, a)' = Stores(n, a)
  BY <1>1 DEF Stores
<1>9. \A N, W, p : Importing(b, fl, N, W, p)' <=> Importing(b, fl, N, W, p)
  <2> SUFFICES ASSUME NEW N, NEW W, NEW p PROVE Importing(b, fl, N, W, p)' <=> Importing(b, fl, N, W, p)
    OBVIOUS
  <2>1. FullName(<<>>)' = FullName(<<>>)
    BY <1>1
  <2> QED BY <2>1 DEF Importing
<1>10. Underway(t, b, fl, call, x, a)' <=> Underway(t, b, fl, call, x, a)
  BY <1>1, <1>3, <1>4, <1>5, <1>7, <1>8, <1>9 DEF Underway
<1> QED BY <1>1, <1>2, <1>10 DEF Goes

\* An archive only grows while a call runs, and with more to store there is no
\* more room.
LEMMA StillNoRoom ==
  ASSUME Typed, NEW c \in Clients, Turn(c), NEW t, NEW N, NEW n,
         ~Room(t, N, Stores(n, archive[c]))
  PROVE  ~Room(t, N, Stores(n, archive'[c]))
<1>1. archive[c] \subseteq archive'[c]
  <2>1. archive' = archive \/ Exports(c)
    BY DEF Turn, Looks, Lists, Does, IsRefused, Uploads
  <2>2. ASSUME Exports(c) PROVE archive[c] \subseteq archive'[c]
    <3>1. \/ UNCHANGED archive
          \/ \E x : archive' = [archive EXCEPT ![c] = @ \cup {x}]
      BY <2>2 DEF Exports
    <3>2. DOMAIN archive = Clients
      BY DEF Typed
    <3> QED BY <3>1, <3>2
  <2> QED BY <2>1, <2>2
<1>2. Stores(n, archive[c]) \subseteq Stores(n, archive'[c])
  BY <1>1 DEF Stores
<1> DEFINE V == Stores(n, archive[c])
           W == Stores(n, archive'[c])
<1>3. V \subseteq W
  BY <1>2
<1> HIDE DEF V, W
<1>4. Room(t, N, W) => Room(t, N, V)
  BY <1>3 DEF Room
<1> QED BY <1>4 DEF V, W

\* The next step of a call that is alone.
LEMMA UnderwayTurn ==
  ASSUME Typed, Typed', NEW c \in Clients, Turn(c), NEW t, IsFine(t), KindIn(Seen(t), <<>>) = "dir",
         Underway(t, tree, flight, cur[c], [prog |-> prog[c], ret |-> ret[c]], archive[c])
  PROVE  Goes(t, tree', flight', cur[c], Onward(c), archive'[c])
<1> DEFINE call == cur[c]
           N == FullName(call.n)
           x == [prog |-> prog[c], ret |-> ret[c]]
           G == Goes(t, tree', flight', call, Onward(c), archive'[c])
<1>1. call.n \in Path /\ call.to \in Path /\ DOMAIN t \subseteq Path /\ <<>> \in Path
  BY DEF Typed, CallRecords, IsFine, Path
<1>2. x.prog = prog[c] /\ x.ret = ret[c]
  OBVIOUS
<1>3. IsFine(tree')
  BY DEF Typed
<1>4. CASE call.op = "Mkdir"
  <2>1. flight = {} /\ Making(t, tree, N, prog[c])
    BY <1>4 DEF Underway
  <2> QED BY <1>1, <1>4, <2>1, MkdirTurn
<1>5. CASE call.op = "Create"
  <2>1. Creating(t, tree, flight, N, call.v, x)
    BY <1>5 DEF Underway
  <2>2. call.n # <<>>
    <3>1. KindIn(t, N) # "dir"
      BY <2>1 DEF Creating
    <3>2. KindIn(Seen(t), call.n) # "dir"
      BY <1>1, <3>1, SeenKind
    <3> QED BY <3>2
  <2> QED BY <1>1, <1>5, <2>1, <2>2, CreateTurn
<1>6. CASE call.op = "MkdirAll"
  <2>1. flight = {} /\ Grown(t, tree, N)
    BY <1>6 DEF Underway
  <2>2. PICK k \in Len(FullName(<<>>))..Len(N) : GoingAt(prog[c], SubSeq(N, 1, k), Chain(N, k), tree, TRUE, TRUE)
    BY <1>6 DEF Underway
  <2> QED BY <1>1, <1>3, <1>6, <2>1, <2>2, MkdirAllTurn
<1>7. CASE call.op = "RemoveAll"
  <2>1. flight = {} /\ Removing(t, tree, N, prog[c])
    BY <1>7 DEF Underway
  <2> QED BY <1>1, <1>7, <2>1, RemoveTurn
<1>8. CASE call.op = "Rename"
  <2>1. flight = {} /\ Moving(t, tree, call.n, call.to, prog[c])
    BY <1>8 DEF Underway
  <2> QED BY <1>1, <1>8, <2>1, RenameTurn
<1>9. CASE call.op = "Export"
  <2>1. flight = {} /\ Exporting(t, tree, call.n, prog[c], archive[c])
    BY <1>9 DEF Underway
  <2> QED BY <1>1, <1>9, <2>1, ExportTurn
<1>10. CASE call.op = "Import"
  <2>1. Room(t, N, Stores(call.n, archive[c])) => Importing(tree, flight, N, Stores(call.n, archive[c]), prog[c])
    BY <1>10 DEF Underway
  <2>2. CASE Room(t, N, Stores(call.n, archive[c]))
    BY <1>1, <1>3, <1>10, <2>1, <2>2, ImportTurn
  <2>3. CASE ~Room(t, N, Stores(call.n, archive[c]))
    <3> DEFINE a == archive'[c]
               y == Onward(c)
    <3>1. ~Room(t, N, Stores(call.n, a))
      BY <2>3, StillNoRoom
    <3>2. a \subseteq Path \X Contents
      BY DEF Typed
    <3> HIDE DEF a, y
    <3>3. \A r, u : Keeps(call, Seen(t), r, u, a)
      BY <1>1, <1>10, <3>1, <3>2, NoRoom
    <3>4. \A b, fl : Underway(t, b, fl, call, y, a)
      BY <1>10, <3>1 DEF Underway
    <3>5. \A b, fl : Goes(t, b, fl, call, y, a)
      BY <3>3, <3>4 DEF Goes
    <3> QED BY <3>5 DEF a, y
  <2> QED BY <2>2, <2>3
<1>11. call.op \in {"Mkdir", "Create", "MkdirAll", "RemoveAll", "Rename", "Export", "Import"}
  BY DEF Underway
<1> QED BY <1>4, <1>5, <1>6, <1>7, <1>8, <1>9, <1>10, <1>11

\* An upload of a call that is alone reaches the server.
LEMMA UnderwayLands ==
  ASSUME Typed, Typed', NEW c \in Clients, Lands, NEW t, IsFine(t), KindIn(Seen(t), <<>>) = "dir",
         Underway(t, tree, flight, cur[c], [prog |-> prog[c], ret |-> ret[c]], archive[c])
  PROVE  Goes(t, tree', flight', cur[c], [prog |-> prog[c], ret |-> ret[c]], archive[c])
<1> DEFINE call == cur[c]
           N == FullName(call.n)
           x == [prog |-> prog[c], ret |-> ret[c]]
           a == archive[c]
<1>1. call.n \in Path /\ DOMAIN t \subseteq Path /\ <<>> \in Path
  BY DEF Typed, CallRecords, IsFine, Path
<1>2. x.prog = prog[c] /\ x.ret = ret[c] /\ flight # {}
  BY DEF Lands
<1>3. IsFine(tree') /\ a \subseteq Path \X Contents
  BY DEF Typed
<1>4. x = Onward(c)
  BY DEF Lands, Onward
<1> HIDE DEF x
<1>5. Underway(t, tree, flight, call, x, a)
  BY DEF x
<1>6. CASE call.op = "Create"
  <2>1. Creating(t, tree, flight, N, call.v, x)
    BY <1>5, <1>6 DEF Underway
  <2>2. call.n # <<>>
    <3>1. KindIn(t, N) # "dir"
      BY <2>1 DEF Creating
    <3>2. KindIn(Seen(t), call.n) # "dir"
      BY <1>1, <3>1, SeenKind
    <3> QED BY <3>2
  <2>3. Goes(t, tree', flight', call, x, a)
    BY <1>1, <1>6, <2>1, <2>2, CreateLands
  <2> QED BY <2>3 DEF x
<1>7. CASE call.op = "Import"
  <2>1. Room(t, N, Stores(call.n, a)) =>
          Importing(tree, flight, N, Stores(call.n, a), prog[c]) /\ (prog[c] = <<>> => ret[c] = "ok")
    BY <1>2, <1>5, <1>7 DEF Underway
  <2>2. CASE Room(t, N, Stores(call.n, a))
    <3>1. Goes(t, tree', flight', call, Onward(c), a)
      BY <1>1, <1>3, <1>7, <2>1, <2>2, ImportLands
    <3> QED BY <1>4, <3>1 DEF x
  <2>3. CASE ~Room(t, N, Stores(call.n, a))
    <3>1. \A r, u : Keeps(call, Seen(t), r, u, a)
      BY <1>1, <1>3, <1>7, <2>3, NoRoom
    <3>2. \A b, fl : Underway(t, b, fl, call, x, a)
      BY <1>7, <2>3 DEF Underway
    <3>3. \A b, fl : Goes(t, b, fl, call, x, a)
      BY <3>1, <3>2 DEF Goes
    <3> QED BY <3>3 DEF x
  <2> QED BY <2>2, <2>3
<1>8. call.op \in {"Create", "Import"}
  BY <1>2, <1>5 DEF Underway
<1> QED BY <1>6, <1>7, <1>8

\* A call that meets no other begins.
LEMMA BeginGoes ==
  ASSUME Typed, NEW c \in Clients, NEW op \in Calls, NEW n \in Paths, NEW to \in Paths,
         Begin(c, op, n, to), flight = {}, KindIn(Seen(tree), <<>>) = "dir"
  PROVE  Goes(tree, tree, {}, cur'[c], Onward(c), archive'[c])
<1> DEFINE v == Written[calls + 1]
           call == [op |-> op, n |-> n, to |-> to, v |-> v]
           y == Program(c, op, FullName(n), FullName(to), v)
<1>1. /\ prog' = [prog EXCEPT ![c] = y.prog] /\ ret' = [ret EXCEPT ![c] = y.ret]
      /\ cur' = [cur EXCEPT ![c] = call] /\ Proper(op, n, to)
      /\ archive' = [archive EXCEPT ![c] = IF op = "Export" THEN {} ELSE @]
  BY DEF Begin
<1>2. n \in Path /\ to \in Path /\ FullName(to) \in Path
  <2>1. n \in Path /\ to \in Path
    BY NamespaceAssumption DEF Path
  <2> QED BY <2>1, FullNameIs
<1>3. call.op = op /\ call.n = n /\ call.to = to /\ call.v = v
  OBVIOUS
<1> HIDE DEF call, v
<1>4. cur'[c] = call /\ archive'[c] = (IF op = "Export" THEN {} ELSE archive[c])
  BY <1>1 DEF Typed
<1>5. On(c, y)
  <2> HIDE DEF y
  <2> QED BY <1>1 DEF Typed, On
<1>6. CASE op = "Mkdir"
  <2>1. n = <<>> \/ (n # <<>> /\ KindIn(Seen(tree), Parent(n)) # "file")
    BY <1>1, <1>6 DEF Proper
  <2> QED BY <1>2, <1>3, <1>4, <1>5, <1>6, <2>1, MkdirBegins
<1>7. CASE op = "Create"
  <2>1. n # <<>> /\ KindIn(Seen(tree), Parent(n)) # "file" /\ KindIn(Seen(tree), n) # "dir"
    BY <1>1, <1>7 DEF Proper
  <2> QED BY <1>2, <1>3, <1>4, <1>5, <1>7, <2>1, CreateBegins
<1>8. CASE op = "MkdirAll"
  BY <1>2, <1>3, <1>4, <1>5, <1>8, MkdirAllBegins
<1>9. CASE op = "RemoveAll"
  BY <1>2, <1>3, <1>4, <1>5, <1>9, RemoveBegins
<1>10. CASE op = "Rename"
  <2>1. to # <<>> /\ n # to /\ (backend = "ftp" => KindIn(Seen(tree), to) = "missing")
    BY <1>1, <1>10 DEF Proper
  <2> QED BY <1>2, <1>3, <1>4, <1>5, <1>10, <2>1, RenameBegins
<1>11. CASE op = "Export"
  BY <1>2, <1>3, <1>4, <1>5, <1>11, ExportBegins
<1>12. CASE op = "Import"
  BY <1>2, <1>3, <1>4, <1>5, <1>12, ImportBegins
<1>13. op \in {"Mkdir", "MkdirAll", "Create", "RemoveAll", "Rename", "Export", "Import"}
  BY NamespaceAssumption
<1> QED BY <1>6, <1>7, <1>8, <1>9, <1>10, <1>11, <1>12, <1>13

\* What a step has to show.
LEMMA LoneNextIs ==
  ASSUME backend' = backend, NEW e, \A d \in Clients \ {e} : prog'[d] = <<>>, IsFine(before'),
         KindIn(Seen(before'), <<>>) = "dir" =>
           Goes(before', tree', flight', cur'[e], Onward(e), archive'[e])
  PROVE  /\ \A d \in Clients \ {e} : prog'[d] = <<>>
         /\ IsFine(before')
         /\ \A t, b, fl, call, x, a :
              /\ t = before' /\ b = tree' /\ fl = flight' /\ call = cur'[e] /\ a = archive'[e]
              /\ x = [prog |-> prog'[e], ret |-> ret'[e]] /\ KindIn(Seen(t)', <<>>) = "dir"
              => Goes(t, b, fl, call, x, a)'
<1> SUFFICES ASSUME NEW t, NEW b, NEW fl, NEW call, NEW x, NEW a,
                    t = before', b = tree', fl = flight', call = cur'[e], a = archive'[e],
                    x = [prog |-> prog'[e], ret |-> ret'[e]], KindIn(Seen(t)', <<>>) = "dir"
             PROVE  Goes(t, b, fl, call, x, a)'
  OBVIOUS
<1>1. Seen(t)' = Seen(t)
  BY SameNames
<1>2. Goes(t, b, fl, call, x, a)
  BY <1>1 DEF Onward
<1>3. Goes(t, b, fl, call, x, a)' <=> Goes(t, b, fl, call, x, a)
  BY SameGoes
<1> QED BY <1>2, <1>3

\* The call that is alone, whatever is underway of it.
LEMMA LoneIs ==
  ASSUME LoneInv, NEW c \in alone
  PROVE  /\ \A d \in Clients \ {c} : prog[d] = <<>>
         /\ IsFine(before)
         /\ KindIn(Seen(before), <<>>) = "dir" =>
              Goes(before, tree, flight, cur[c], [prog |-> prog[c], ret |-> ret[c]], archive[c])
BY DEF LoneInv

\* Every step of it, and of the others, leaves it on its way or at its end.
LEMMA LoneNext ==
  ASSUME Typed, LoneInv, [Next]_vars
  PROVE  LoneInv'
<1>1. Typed' /\ backend' = backend
  BY TypedNext, BackendStays
<1>2. ASSUME \A e \in alone' :
               /\ \A d \in Clients \ {e} : prog'[d] = <<>>
               /\ IsFine(before')
               /\ KindIn(Seen(before'), <<>>) = "dir" =>
                    Goes(before', tree', flight', cur'[e], Onward(e), archive'[e])
      PROVE  LoneInv'
  <2> SUFFICES ASSUME NEW e \in alone'
               PROVE  /\ \A d \in Clients \ {e} : prog'[d] = <<>>
                      /\ IsFine(before')
                      /\ \A t, b, fl, call, x, a :
                           /\ t = before' /\ b = tree' /\ fl = flight' /\ call = cur'[e] /\ a = archive'[e]
                           /\ x = [prog |-> prog'[e], ret |-> ret'[e]] /\ KindIn(Seen(t)', <<>>) = "dir"
                           => Goes(t, b, fl, call, x, a)'
    BY DEF LoneInv
  <2>1. /\ \A d \in Clients \ {e} : prog'[d] = <<>>
        /\ IsFine(before')
        /\ KindIn(Seen(before'), <<>>) = "dir" =>
             Goes(before', tree', flight', cur'[e], Onward(e), archive'[e])
    BY <1>2
  <2> QED BY <1>1, <2>1, LoneNextIs
<1>3. ASSUME NEW c \in Clients, Turn(c) PROVE LoneInv'
  <2>1. /\ prog[c] # <<>> /\ \A d \in Clients \ {c} : prog'[d] = prog[d]
        /\ cur' = cur /\ alone' = alone /\ before' = before
    BY <1>3, TurnFrame
  <2> SUFFICES ASSUME NEW e \in alone'
               PROVE  /\ \A d \in Clients \ {e} : prog'[d] = <<>>
                      /\ IsFine(before')
                      /\ KindIn(Seen(before'), <<>>) = "dir" =>
                           Goes(before', tree', flight', cur'[e], Onward(e), archive'[e])
    BY <1>2
  <2>2. e \in alone
    BY <2>1
  <2>3. e = c
    BY <2>1, <2>2, LoneIs
  <2>4. (\A d \in Clients \ {c} : prog[d] = <<>>) /\ IsFine(before)
    BY <2>2, <2>3, LoneIs
  <2>5. ASSUME KindIn(Seen(before), <<>>) = "dir"
        PROVE  Goes(before, tree', flight', cur[c], Onward(c), archive'[c])
    <3> DEFINE x == [prog |-> prog[c], ret |-> ret[c]]
    <3>1. Goes(before, tree, flight, cur[c], x, archive[c])
      BY <2>2, <2>3, <2>5, LoneIs
    <3>2. x.prog # <<>>
      BY <2>1
    <3> HIDE DEF x
    <3>3. Underway(before, tree, flight, cur[c], x, archive[c])
      BY <3>1, <3>2 DEF Goes
    <3> QED BY <1>1, <1>3, <2>4, <2>5, <3>3, UnderwayTurn DEF x
  <2> QED BY <2>1, <2>3, <2>4, <2>5
<1>4. ASSUME NEW c \in Clients, RequestFails(c) PROVE LoneInv'
  <2>1. prog[c] # <<>> /\ alone' = alone \ {c}
    BY <1>4 DEF RequestFails
  <2>2. \A e \in alone' : FALSE
    BY <2>1, LoneIs
  <2> QED BY <1>2, <2>2
<1>5. CASE Lands
  <2>1. UNCHANGED <<prog, cur, ret, archive, alone, before>> /\ flight # {}
    BY <1>5 DEF Lands
  <2> SUFFICES ASSUME NEW e \in alone'
               PROVE  /\ \A d \in Clients \ {e} : prog'[d] = <<>>
                      /\ IsFine(before')
                      /\ KindIn(Seen(before'), <<>>) = "dir" =>
                           Goes(before', tree', flight', cur'[e], Onward(e), archive'[e])
    BY <1>2
  <2>2. e \in alone /\ e \in Clients
    BY <2>1 DEF Typed
  <2>3. (\A d \in Clients \ {e} : prog[d] = <<>>) /\ IsFine(before)
    BY <2>2, LoneIs
  <2>4. ASSUME KindIn(Seen(before), <<>>) = "dir"
        PROVE  Goes(before, tree', flight', cur[e], Onward(e), archive[e])
    <3> DEFINE x == [prog |-> prog[e], ret |-> ret[e]]
    <3>1. Goes(before, tree, flight, cur[e], x, archive[e]) /\ x = Onward(e)
      BY <2>1, <2>2, <2>4, LoneIs DEF Onward
    <3> HIDE DEF x
    <3>2. Underway(before, tree, flight, cur[e], x, archive[e])
      BY <2>1, <3>1 DEF Goes
    <3>3. Goes(before, tree', flight', cur[e], x, archive[e])
      BY <1>1, <1>5, <2>2, <2>3, <2>4, <3>2, UnderwayLands DEF x
    <3> QED BY <3>1, <3>3
  <2> QED BY <2>1, <2>3, <2>4
<1>6. ASSUME NEW c \in Clients, NEW op \in Calls, NEW n \in Paths, NEW to \in Paths, Begin(c, op, n, to)
      PROVE  LoneInv'
  <2> SUFFICES ASSUME NEW e \in alone'
               PROVE  /\ \A d \in Clients \ {e} : prog'[d] = <<>>
                      /\ IsFine(before')
                      /\ KindIn(Seen(before'), <<>>) = "dir" =>
                           Goes(before', tree', flight', cur'[e], Onward(e), archive'[e])
    BY <1>2
  <2>1. /\ e = c /\ alone' = {c} /\ flight = {} /\ \A d \in Clients : prog[d] = <<>>
    BY <1>6 DEF Begin
  <2>2. before' = tree /\ tree' = tree /\ flight' = {}
    BY <1>6, <2>1 DEF Begin
  <2>3. \A d \in Clients \ {c} : prog'[d] = <<>>
    BY <1>6, <2>1 DEF Begin, Typed
  <2>4. IsFine(tree)
    BY DEF Typed
  <2>5. KindIn(Seen(tree), <<>>) = "dir" => Goes(tree, tree, {}, cur'[c], Onward(c), archive'[c])
    BY <1>6, <2>1, BeginGoes
  <2> QED BY <2>1, <2>2, <2>3, <2>4, <2>5
<1>7. CASE UNCHANGED vars
  <2>1. UNCHANGED <<tree, flight, prog, cur, ret, archive, alone, before>>
    BY <1>7 DEF vars, history
  <2>2. \A e \in alone' :
          /\ \A d \in Clients \ {e} : prog'[d] = <<>>
          /\ IsFine(before')
          /\ KindIn(Seen(before'), <<>>) = "dir" =>
               Goes(before', tree', flight', cur'[e], Onward(e), archive'[e])
    BY <2>1, LoneIs DEF Onward
  <2> QED BY <1>2, <2>2
<1> QED BY <1>3, <1>4, <1>5, <1>6, <1>7 DEF Next, Turn

\* A call that meets no fault and no other call has the result and the tree the
\* test suite asks for, with WebDAV and with FTP (webdav_fs.go, fs.go, util.go:
\* request by request, its upload landing at any time after it), from every tree
\* that calls before it leave behind in which the root of the file system is a
\* directory; MkdirAll, export and import with the calls they are made of.
THEOREM ContractKept == Spec => []ContractHolds
<1>1. LoneInv => ContractHolds
  <2> SUFFICES ASSUME LoneInv, NEW c \in alone, prog[c] = <<>>, flight = {},
                      KindIn(Seen(before), <<>>) = "dir"
               PROVE  Keeps(cur[c], Seen(before), ret[c], Seen(tree), archive[c])
    BY DEF ContractHolds
  <2>1. Goes(before, tree, flight, cur[c], [prog |-> prog[c], ret |-> ret[c]], archive[c])
    BY LoneIs
  <2> QED BY <2>1 DEF Goes
<1>2. Init => LoneInv
  BY DEF Init, LoneInv
<1>3. Typed /\ LoneInv /\ [Next]_vars => LoneInv'
  BY LoneNext
<1> QED BY <1>1, <1>2, <1>3, AlwaysTyped, PTL DEF Spec
=============================================================================
