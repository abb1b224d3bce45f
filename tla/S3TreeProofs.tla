---------------------------- MODULE S3TreeProofs ----------------------------
(***************************************************************************)
(* Proofs about S3Tree, for any clients, names, paths, trees to start from *)
(* and bounds.                                                             *)
(***************************************************************************)
EXTENDS S3Tree, TreeProofs, FiniteSetTheorems

-----------------------------------------------------------------------------
(* Sequences and listings.                                                 *)

\* A program is its first request and the rest.
LEMMA FirstAndRest ==
  ASSUME NEW S, NEW p \in Seq(S), p # <<>>
  PROVE  /\ Head(p) = p[1] /\ Head(p) \in S /\ Tail(p) \in Seq(S) /\ 1 \in DOMAIN p
         /\ \A i \in DOMAIN Tail(p) : i \in Nat /\ i + 1 \in DOMAIN p /\ i + 1 > 1
                                        /\ Tail(p)[i] = p[i + 1]
         /\ \A i \in DOMAIN p : i = 1 \/ (i - 1 \in DOMAIN Tail(p) /\ Tail(p)[i - 1] = p[i])
<1>1. Len(p) \in Nat /\ Len(p) > 0 /\ DOMAIN p = 1..Len(p)
  OBVIOUS
<1>2. Tail(p) \in Seq(S) /\ Len(Tail(p)) = Len(p) - 1 /\ Head(p) = p[1]
  BY <1>1
<1>3. \A i \in 1..Len(p) - 1 : Tail(p)[i] = p[i + 1]
  BY <1>1
<1>4. DOMAIN Tail(p) = 1..Len(p) - 1
  BY <1>1, <1>2
<1> QED BY <1>1, <1>2, <1>3, <1>4

\* A listing has every entry once, and nothing else.
LEMMA ListingIs ==
  ASSUME NEW S, IsFiniteSet(S)
  PROVE  /\ SetToSeq(S) \in Seq(S)
         /\ \A x \in S : \E i \in DOMAIN SetToSeq(S) : SetToSeq(S)[i] = x
         /\ \A i, j \in DOMAIN SetToSeq(S) : i # j => SetToSeq(S)[i] # SetToSeq(S)[j]
<1> DEFINE n == Cardinality(S)
           s == SetToSeq(S)
<1>1. n \in Nat /\ ExistsBijection(1..n, S)
  BY FS_CardinalityType
<1>2. PICK f \in [1..n -> S] : IsInjective(f)
  BY <1>1 DEF ExistsBijection, Bijection, Injection
<1>3. s \in [1..n -> S] /\ IsInjective(s)
  BY <1>2 DEF SetToSeq
<1> HIDE DEF s
<1>4. s \in Seq(S)
  BY <1>1, <1>3
<1>5. s \in Injection(1..n, S)
  BY <1>3 DEF Injection
<1>6. IsFiniteSet(1..n) /\ Cardinality(1..n) = n
  BY <1>1, FS_Interval
<1>7. s \in Surjection(1..n, S)
  BY <1>5, <1>6, FS_Injection
<1>8. \A x \in S : \E i \in DOMAIN s : s[i] = x
  BY <1>3, <1>7 DEF Surjection
<1>9. \A i, j \in DOMAIN s : i # j => s[i] # s[j]
  BY <1>3 DEF IsInjective
<1> QED BY <1>4, <1>8, <1>9 DEF s

-----------------------------------------------------------------------------
(* Types.                                                                  *)

Path == Seq(Names)
Key == Seq(Names \cup {Holder, ""})
Dos == StatKinds \cup {"put", "copy", "remove", "mvlist", "rmall"}

\* What the requests of n calls look like: only a PutObject or a RemoveObject
\* names a key that is no path, and what is put is a file or a holder.
Valid(r, n) ==
  /\ r.do \notin {"put", "remove"} => r.n \in Path
  /\ r.do \in {"opendir", "mkparent", "parent", "mvlist", "copy"} => r.n # <<>>
  /\ r.do \in {"rename", "mvlist", "copy"} => r.to # <<>>
  /\ r.do = "parent" => r.v \in 1..n
  /\ r.do = "put" => \/ r.v = 0 /\ r.n # <<>> /\ Parent(r.n) \in Path /\ Last(r.n) = Holder
                     \/ r.v \in 1..n /\ r.n \in Path /\ r.n # <<>>
  /\ r.at = "list" => StatName(r) # <<>>

Requests(n) ==
  {r \in [do : Dos, n : Key, to : Path, v : Nat, at : {"head", "list"}] : Valid(r, n)}

\* What waits behind the first request of a program.
Waits(r) == r.do \in {"rename", "remove", "rmall"} /\ r.at = "head"

\* TypeOK, and the types of the calls and of their programs.
Typed ==
  /\ TypeOK
  /\ cur \in [Clients -> [op : Ops \cup {"none"}, n : Path, to : Path, v : 0..calls]]
  /\ prog \in [Clients -> Seq(Requests(calls))]
  /\ ret \in [Clients -> Results]
  /\ \A c \in Clients : \A i \in DOMAIN prog[c] : i > 1 => Waits(prog[c][i])

-----------------------------------------------------------------------------
(* No file is lost: the invariant.                                         *)

Makers == {"mkdir", "opendir", "mkparent"}
Writes(r) == r.do \in {"copy", "rename", "mvlist"}

\* A request that a call may make: it stays within the paths of the call.
StaysIn(call, r) ==
  CASE call.op = "Rename" ->
         /\ call.n # call.to /\ r.do \notin {"parent", "rmall"} /\ (r.do = "put" => r.v = 0)
         /\ Writes(r) => InTree(call.n, r.n) /\ InTree(call.to, r.to) /\ r.n # r.to
         /\ r.do = "remove" => InTree(call.n, r.n)
    [] call.op = "RemoveAll" -> r.do \in {"rmall", "remove"} /\ InTree(call.n, r.n)
    [] call.op = "Create" ->
         r.do \in {"parent", "put"} /\ r.n = call.n /\ r.v = call.v /\ r.v # 0
    [] OTHER -> r.do \in Makers \cup {"put"} /\ (r.do = "put" => r.v = 0)

Within(c) == \A i \in DOMAIN prog[c] : StaysIn(cur[c], prog[c][i])

\* A Create in progress has not written yet, and no other writes the same.
Fresh(c) ==
  prog[c] # <<>> /\ cur[c].op = "Create" =>
    /\ \A k \in DOMAIN bucket : bucket[k] # cur[c].v
    /\ \A d \in Clients \ {c} : prog[d] # <<>> /\ cur[d].op = "Create" => cur[d].v # cur[c].v

\* c is going to write k.
WillWrite(c, k) ==
  \E i \in DOMAIN prog[c] :
    LET r == prog[c][i] IN Writes(r) /\ (IF r.do = "copy" THEN r.to = k ELSE InTree(r.to, k))

\* What is safe lies where no call may replace it, or where a Rename has moved
\* it for good.
Unreplaced(c) ==
  prog[c] # <<>> =>
    \A k \in DOMAIN bucket :
      Replaces(cur[c], k) /\ bucket[k] \in safe => cur[c].op = "Rename" /\ ~WillWrite(c, k)

\* What Rename has found to be a directory is no file that is safe.
DirFound(c) ==
  LET r == Head(prog[c]) IN
  prog[c] # <<>> /\ (r.do = "mvlist" \/ (r.do = "rename" /\ r.at = "list")) =>
    (r.n \in DOMAIN bucket => bucket[r.n] \notin safe)

\* Of two requests of a program, the second removes no file, but what the first
\* has moved or what it lies below; and, where apart is asked for, they write
\* to places apart.
Ordered(apart, r, s) ==
  Writes(r) =>
    /\ s.do = "remove" /\ Last(s.n) # Holder => Under(s.n, r.n) \/ (r.do = "copy" /\ s.n = r.n)
    /\ apart /\ Writes(s) => ~InTree(r.to, s.to) /\ ~InTree(s.to, r.to)

InOrder(apart, p) == \A i, j \in DOMAIN p : i < j => Ordered(apart, p[i], p[j])

\* A Rename that may write to a place twice moves nothing that is safe.
Tidy(c) ==
  \/ InOrder(TRUE, prog[c])
  \/ InOrder(FALSE, prog[c])
     /\ \A k \in DOMAIN bucket : InTree(cur[c].n, k) => bucket[k] \notin safe

\* c is going to remove k, and not to copy it before.
WillRemove(c, k) ==
  \E i \in DOMAIN prog[c] :
    LET r == prog[c][i] IN
    r.do = "remove" /\ r.n = k /\ ~(i = 2 /\ prog[c][1].do = "copy" /\ prog[c][1].n = k)

\* Everything safe is somewhere where no one is about to remove it.
Harboured(v) ==
  \E k \in DOMAIN bucket : bucket[k] = v /\ \A c \in Clients : ~WillRemove(c, k)

SafeInv ==
  /\ Typed
  /\ \A c \in Clients : Within(c) /\ Fresh(c) /\ Unreplaced(c) /\ DirFound(c) /\ Tidy(c)
  /\ Mixed(bucket) => safe = {}
  /\ \A v \in safe : Harboured(v)

-----------------------------------------------------------------------------
(* A directory's holder is its first key and its last: the invariant.      *)

\* Something is at p or below it.
Occupied(b, p) == p = <<>> \/ \E k \in DOMAIN b : InTree(p, k)

\* Every directory above p has its holder; or p's parent is not there.
Based(b, p) == \A d \in Path : d # <<>> /\ Under(d, p) => HolderOf(d) \in DOMAIN b
Ready(b, p) == p # <<>> /\ Occupied(b, Parent(p)) => Based(b, p)

\* r is going to make the directory d.
Makes(r, d) == (r.do \in Makers /\ r.n = d) \/ (r.do = "put" /\ r.n = HolderOf(d))

\* The i-th request of p can write where it is going to.
Placeable(b, p, i) ==
  LET r == p[i] IN
  /\ r.do \in Makers \cup {"parent"} => Ready(b, r.n)
  /\ r.do \in {"opendir", "mkparent"} => ~Occupied(b, r.n)
  /\ r.do = "put" => Based(b, IF r.v = 0 THEN Parent(r.n) ELSE r.n)
  /\ r.do = "copy" => Based(b, r.to)
  /\ r.do \in {"rename", "mvlist"} =>
       \/ Based(b, r.to)
       \/ i = 1 /\ Ready(b, r.to) /\ r.n \notin DOMAIN b
       \/ i > 1 /\ Makes(p[1], Parent(r.to))

\* The i-th request of p removes k, or sees to it that k is removed.  Where a
\* path is listed twice, it is the second Rename that sees to what is below.
Handles(r, n) == r.do \in {"rename", "mvlist", "remove"} /\ r.n = n
Clears(b, p, i, k) ==
  LET r == p[i] IN
  \/ r.do = "remove" /\ r.n = k
  \/ r.do = "mvlist" /\ InTree(r.n, k)
  \/ r.do = "rmall" /\ Under(r.n, k)
  \/ /\ r.do = "rename"
     /\ \/ k = r.n
        \/ Under(r.n, k) /\ (r.n \in DOMAIN b => \E j \in 1..i - 1 : Handles(p[j], r.n))

\* r removes the holder of a directory that k is in.
Bares(r, k) ==
  r.do = "remove" /\ \E d \in Path : r.n = HolderOf(d) /\ Under(d, k) /\ k # HolderOf(d)

\* When the holder of a directory is removed, nothing else is left there.
Cleared(b, p) ==
  \A i \in DOMAIN p : \A k \in DOMAIN b :
    Bares(p[i], k) => \E j \in 1..i - 1 : Clears(b, p, j, k)

\* r is the whole of a Rename that has yet to look or to list, and the work of
\* one that moves a file.
Whole(b, r, call) ==
  /\ r.do \in {"rename", "mvlist"} /\ r.n = call.n /\ r.to = call.to
  /\ r.do = "mvlist" => Occupied(b, call.n) /\ ~InTree(call.n, call.to)
OnFile(r) == r.do = "copy" \/ (r.do = "remove" /\ Last(r.n) # Holder)

\* What a Rename writes does not come to lie below what it removes: it has yet
\* to look, it moves a file, or the two names are apart.
Apart(call) == ~InTree(call.n, call.to) /\ ~InTree(call.to, call.n)
Distinct(c) ==
  cur[c].op = "Rename" =>
    \/ \A i \in DOMAIN prog[c] : i = 1 /\ Whole(bucket, prog[c][i], cur[c])
    \/ \A i \in DOMAIN prog[c] : OnFile(prog[c][i])
    \/ Apart(cur[c])

\* The directories a Rename makes lie in the tree it writes.
Place(r) == IF r.do = "put" THEN Parent(r.n) ELSE r.n
MakesWithin(c) ==
  cur[c].op = "Rename" =>
    \A i \in DOMAIN prog[c] :
      prog[c][i].do \in Makers \cup {"put"} => InTree(cur[c].to, Place(prog[c][i]))

\* c is in a Mkdir that will find something there.
Refused(c) == Head(prog[c]).do = "mkdir" /\ Occupied(bucket, Head(prog[c]).n)

Steady(c) ==
  /\ Cleared(bucket, prog[c]) /\ Distinct(c) /\ MakesWithin(c)
  /\ \A i \in DOMAIN prog[c] : Placeable(bucket, prog[c], i)

HoldersInv ==
  ~blurred =>
    /\ WellFormed(bucket)
    /\ \A c, d \in Clients : prog[c] # <<>> /\ prog[d] # <<>> => c = d
    /\ \A c \in Clients : prog[c] # <<>> => Refused(c) \/ Steady(c)

-----------------------------------------------------------------------------
(* What a step is.                                                         *)

Ends(x) == \E e \in Results \ {"none", "ok"} : x = Return(e)

\* The request that takes the place of r once Stat has answered.
Turn(r, what, q) ==
  \/ r.do = "mkdir" /\ what = "missing" /\ q = Then(r, "opendir")
  \/ r.do = "opendir" /\ what = "missing" /\ Len(r.n) = 1 /\ q = PutObject(HolderOf(r.n), 0)
  \/ r.do = "opendir" /\ what = "missing" /\ Len(r.n) # 1 /\ q = Then(r, "mkparent")
  \/ r.do = "mkparent" /\ what # "missing" /\ q = PutObject(HolderOf(r.n), 0)
  \/ r.do = "rename" /\ what = "dir" /\ r.n # <<>> /\ ~Under(r.n, r.to) /\ q = Then(r, "mvlist")
  \/ r.do = "parent" /\ what # "missing" /\ q = PutObject(r.n, r.v)

\* A Stat's answer ends the call, lets it go on, has one request take the
\* Stat's place or, for a file that Rename moves, two.
LEMMA AfterStatIs ==
  ASSUME NEW r, r.do \in StatKinds, NEW what \in {"dir", "file", "missing"}, NEW rest
  PROVE  LET x == AfterStat(r, what, rest) IN
         \/ Ends(x)
         \/ r.do = "opendir" /\ what = "dir" /\ x = Go(rest)
         \/ \E q : Turn(r, what, q) /\ x = Go(<<q>> \o rest)
         \/ /\ r.do = "rename" /\ what = "file" /\ r.n # <<>> /\ ~Under(r.n, r.to)
            /\ x = Go(<<CopyObject(r.n, r.to), RemoveObject(r.n)>> \o rest)
<1> DEFINE x == AfterStat(r, what, rest)
<1>1. \A e \in Results \ {"none", "ok"} : x = Return(e) => Ends(x)
  BY DEF Ends
<1>2. CASE r.do = "mkdir"
  BY <1>1, <1>2 DEF AfterStat, MkdirAfterStat, Turn, Results
<1>3. CASE r.do = "opendir" /\ what = "missing" /\ Len(r.n) = 1
  BY <1>3 DEF AfterStat, MkdirAfterStat, Turn
<1>4. CASE r.do = "opendir" /\ what = "missing" /\ Len(r.n) # 1
  BY <1>4 DEF AfterStat, MkdirAfterStat, Turn
<1>5. CASE r.do = "opendir" /\ what # "missing"
  BY <1>1, <1>5 DEF AfterStat, MkdirAfterStat, Results
<1>6. CASE r.do = "mkparent"
  BY <1>1, <1>6 DEF AfterStat, MkdirAfterStat, Turn, Results
<1>7. CASE r.do = "parent"
  BY <1>1, <1>7 DEF AfterStat, CreateAfterStat, Turn, Results
<1>8. CASE r.do = "rename" /\ (what = "missing" \/ r.n = <<>> \/ Under(r.n, r.to))
  BY <1>1, <1>8 DEF AfterStat, RenameAfterStat, Results
<1>9. CASE r.do = "rename" /\ ~(what = "missing" \/ r.n = <<>> \/ Under(r.n, r.to))
  <2>1. x = Go((IF what = "dir" THEN <<Then(r, "mvlist")>>
                ELSE <<CopyObject(r.n, r.to), RemoveObject(r.n)>>) \o rest)
    BY <1>9 DEF AfterStat, RenameAfterStat
  <2>2. CASE what = "dir"
    BY <1>9, <2>1, <2>2 DEF Turn
  <2>3. CASE what # "dir"
    BY <1>9, <2>1, <2>3
  <2> QED BY <2>2, <2>3
<1> QED BY <1>2, <1>3, <1>4, <1>5, <1>6, <1>7, <1>8, <1>9 DEF StatKinds

\* What a Stat may answer of what its argument is.
Answer(r, what) ==
  CASE what = "file" -> StatName(r) \in DOMAIN bucket
    [] what = "dir" -> StatName(r) = <<>> \/ HasPrefix(bucket, StatName(r))
    [] OTHER -> StatName(r) # <<>> /\ ~HasPrefix(bucket, StatName(r))

\* c goes on to the second request of a Stat.
Asks(c) ==
  LET r == Head(prog[c]) IN
  /\ r.do \in StatKinds /\ r.at = "head" /\ StatName(r) # <<>>
  /\ KeyOf(StatName(r), r.do = "opendir") \notin DOMAIN bucket
  /\ Continue(c, Go(<<[r EXCEPT !.at = "list"]>> \o Tail(prog[c])))
  /\ UNCHANGED <<bucket, safe>>

\* c has an answer to a Stat, which is true or blurs what c knows.
Hears(c) ==
  LET r == Head(prog[c]) IN
  \E what \in {"dir", "file", "missing"} :
    /\ r.do \in StatKinds
    /\ what = "missing" => StatName(r) # <<>>
    /\ blurred' \/ Answer(r, what)
    /\ r.do = "rename" /\ what = "dir" /\ r.n # <<>> => r.at = "list"
    /\ Continue(c, AfterStat(r, what, Tail(prog[c])))
    /\ UNCHANGED <<bucket, safe>>

Lists(c) ==
  LET r == Head(prog[c]) IN
  /\ r.do \in {"mvlist", "rmall"}
  /\ Continue(c, Go(IF r.do = "mvlist" THEN RenameAfterList(r, bucket, Tail(prog[c]))
                    ELSE RemoveAllAfterList(r, bucket, Tail(prog[c]))))
  /\ UNCHANGED <<bucket, safe>>

GivesUp(c) == Continue(c, Return("err")) /\ UNCHANGED <<bucket, safe>>

\* c changes the bucket, and goes on or not.
Changes(c) ==
  /\ Head(prog[c]).do \in {"put", "copy", "remove"} /\ Possible(Head(prog[c]))
  /\ Effect(c, Head(prog[c]))
  /\ Continue(c, Go(Tail(prog[c]))) \/ Continue(c, Return("err"))

\* What every request leaves alone.
Frame(c) ==
  /\ prog[c] # <<>> /\ UNCHANGED <<cur, calls>>
  /\ alone' \subseteq alone /\ faults' \in 0..MaxFaults
  /\ blurred' \in BOOLEAN /\ (blurred => blurred')

RequestOf(c) ==
  StatObject(c) \/ StatDirectory(c) \/ Readdir(c) \/ Change(c) \/ CopyFromMissing(c)
    \/ RequestFails(c)

\* A key with a slash behind it is not in the bucket.
LEMMA NoSlash ==
  ASSUME Stored(bucket, calls), NEW n \in Path, NEW slash \in BOOLEAN,
         KeyOf(n, slash) \in DOMAIN bucket
  PROVE  n \in DOMAIN bucket
<1>1. CASE slash /\ ~BasePath
  <2> DEFINE k == Append(n, "")
  <2>1. k \in DOMAIN bucket
    BY <1>1 DEF KeyOf
  <2>2. k \in Seq(Names \cup {Holder})
    BY <2>1 DEF Stored
  <2>3. Len(k) = Len(n) + 1 /\ k[Len(n) + 1] = ""
    <3> DEFINE S == Names \cup {""}
    <3>1. n \in Seq(S) /\ "" \in S
      BY SeqMonotonic DEF Path
    <3> HIDE DEF S
    <3> QED BY <3>1, AppendProperties
  <2> HIDE DEF k
  <2>4. Len(n) \in Nat
    BY DEF Path
  <2>5. Len(n) + 1 \in 1..Len(k)
    <3>1. Len(k) = Len(n) + 1
      BY <2>3
    <3> QED BY <2>4, <3>1
  <2>6. k[Len(n) + 1] \in Names \cup {Holder}
    BY <2>2, <2>5, ElementOfSeq
  <2> QED BY <2>3, <2>6, TreeAssumption
<1>2. CASE ~(slash /\ ~BasePath)
  BY <1>2 DEF KeyOf
<1> QED BY <1>1, <1>2

\* Every step of a call in progress is one of these.
LEMMA Steps ==
  ASSUME Typed, NEW c \in Clients, RequestOf(c)
  PROVE  Frame(c) /\ (Asks(c) \/ Hears(c) \/ Lists(c) \/ GivesUp(c) \/ Changes(c))
<1> DEFINE r == Head(prog[c])
           n == StatName(r)
<1>1. blurred \in BOOLEAN /\ faults \in 0..MaxFaults /\ MaxFaults \in Nat /\ Stored(bucket, calls)
  BY TreeAssumption DEF Typed, TypeOK
<1>2. prog[c] # <<>> => r \in Requests(calls)
  BY FirstAndRest DEF Typed
<1>3. CASE StatObject(c)
  <2>1. Frame(c)
    BY <1>1, <1>3 DEF StatObject, Frame, Doing
  <2>2. r.do \in StatKinds /\ r.at = "head" /\ UNCHANGED <<bucket, safe, blurred>>
    BY <1>3 DEF StatObject, Doing
  <2>3. CASE n = <<>>
    <3>1. Continue(c, AfterStat(r, "dir", Tail(prog[c])))
      BY <1>3, <2>3 DEF StatObject
    <3>2. Answer(r, "dir")
      BY <2>3 DEF Answer
    <3>3. r.do = "rename" => r.n = <<>>
      BY <2>3 DEF StatName
    <3> QED BY <2>1, <2>2, <3>1, <3>2, <3>3 DEF Hears
  <2>4. CASE n # <<>> /\ KeyOf(n, r.do = "opendir") \in DOMAIN bucket
    <3>1. Continue(c, AfterStat(r, "file", Tail(prog[c])))
      BY <1>3, <2>4 DEF StatObject
    <3>2. n \in Path
      <4>1. prog[c] # <<>> /\ r.n \in Path
        BY <1>2, <1>3, <2>2 DEF StatObject, Doing, Requests, Valid, StatKinds
      <4>2. CASE r.do \in {"mkparent", "parent"}
        <5>1. r.n # <<>>
          BY <1>2, <4>1, <4>2 DEF Requests, Valid
        <5> QED BY <4>1, <4>2, <5>1 DEF StatName, Parent, Path
      <4>3. CASE ~(r.do \in {"mkparent", "parent"})
        BY <4>1, <4>3 DEF StatName
      <4> QED BY <4>2, <4>3
    <3>3. Answer(r, "file")
      BY <1>1, <2>4, <3>2, NoSlash DEF Answer
    <3> QED BY <2>1, <2>2, <3>1, <3>3 DEF Hears
  <2>5. CASE n # <<>> /\ KeyOf(n, r.do = "opendir") \notin DOMAIN bucket
    <3>1. Continue(c, Go(<<[r EXCEPT !.at = "list"]>> \o Tail(prog[c])))
      BY <1>3, <2>5 DEF StatObject
    <3> QED BY <2>1, <2>2, <2>5, <3>1 DEF Asks
  <2> QED BY <2>3, <2>4, <2>5
<1>4. CASE StatDirectory(c)
  <2>1. Frame(c)
    BY <1>1, <1>4 DEF StatDirectory, Frame, Doing
  <2>2. r.do \in StatKinds /\ r.at = "list" /\ UNCHANGED <<bucket, safe, blurred>> /\ prog[c] # <<>>
    BY <1>4 DEF StatDirectory, Doing
  <2>3. n # <<>>
    BY <1>2, <2>2 DEF Requests, Valid
  <2>4. CASE HasPrefix(bucket, n)
    <3>1. Continue(c, AfterStat(r, "dir", Tail(prog[c]))) /\ Answer(r, "dir")
      BY <1>4, <2>4 DEF StatDirectory, Answer
    <3> QED BY <2>1, <2>2, <3>1 DEF Hears
  <2>5. CASE ~HasPrefix(bucket, n)
    <3>1. Continue(c, AfterStat(r, "missing", Tail(prog[c]))) /\ Answer(r, "missing")
      BY <1>4, <2>3, <2>5 DEF StatDirectory, Answer
    <3> QED BY <2>1, <2>2, <2>3, <3>1 DEF Hears
  <2> QED BY <2>4, <2>5
<1>5. CASE Readdir(c)
  BY <1>1, <1>5 DEF Readdir, Frame, Lists, Doing
<1>6. CASE Change(c)
  BY <1>1, <1>6 DEF Change, Frame, Changes, Doing
<1>7. CASE CopyFromMissing(c)
  BY <1>1, <1>7 DEF CopyFromMissing, Frame, GivesUp, Doing
<1>8. CASE RequestFails(c)
  <2> DEFINE listing == r.do \in StatKinds /\ r.at = "list"
             misread == \/ listing /\ ~HasPrefix(bucket, n)
                        \/ r.do = "mkdir" /\ ~listing /\ Stat(bucket, r.n) # "missing"
  <2>1. prog[c] # <<>> /\ n # <<>> /\ blurred' = (blurred \/ misread)
    BY <1>8 DEF RequestFails
  <2>2. Frame(c)
    <3>1. UNCHANGED <<cur, calls>> /\ alone' \subseteq alone /\ faults' \in 0..MaxFaults
      BY <1>1, <1>8 DEF RequestFails
    <3>2. blurred' \in BOOLEAN /\ (blurred => blurred')
      BY <1>1, <2>1
    <3> QED BY <2>1, <3>1, <3>2 DEF Frame
  <2>3. \/ UNCHANGED <<bucket, safe>>
        \/ r.do \in {"put", "copy", "remove"} /\ Possible(r) /\ Effect(c, r)
    BY <1>8 DEF RequestFails
  <2>4. CASE listing
    <3>1. Continue(c, AfterStat(r, "dir", Tail(prog[c])))
      BY <1>8, <2>4 DEF RequestFails
    <3>2. blurred' \/ Answer(r, "dir")
      BY <2>1, <2>4 DEF Answer
    <3>3. UNCHANGED <<bucket, safe>>
      BY <2>3, <2>4 DEF StatKinds
    <3> QED BY <2>2, <2>4, <3>1, <3>2, <3>3 DEF Hears
  <2>5. CASE ~listing /\ r.do = "mkdir"
    <3>1. AfterStat(r, "missing", Tail(prog[c])) = Go(<<Then(r, "opendir")>> \o Tail(prog[c]))
      BY <2>5 DEF AfterStat, MkdirAfterStat
    <3>2. Continue(c, AfterStat(r, "missing", Tail(prog[c])))
      BY <1>8, <2>5, <3>1 DEF RequestFails
    <3>3. blurred' \/ Answer(r, "missing")
      <4>1. n = r.n
        BY <2>5 DEF StatName
      <4>2. Stat(bucket, r.n) = "missing" => ~HasPrefix(bucket, r.n)
        BY <2>1, <4>1 DEF Stat
      <4> QED BY <2>1, <2>5, <4>1, <4>2 DEF Answer
    <3>4. UNCHANGED <<bucket, safe>>
      BY <2>3, <2>5
    <3> QED BY <2>1, <2>2, <2>5, <3>2, <3>3, <3>4 DEF Hears, StatKinds
  <2>6. CASE ~listing /\ r.do # "mkdir"
    <3>1. Continue(c, Return("err"))
      BY <1>8, <2>6 DEF RequestFails
    <3> QED BY <2>2, <2>3, <3>1 DEF GivesUp, Changes
  <2> QED BY <2>4, <2>5, <2>6
<1> QED BY <1>3, <1>4, <1>5, <1>6, <1>7, <1>8 DEF RequestOf

-----------------------------------------------------------------------------
(* Keys and listings.                                                      *)

\* A path with a name behind it.
LEMMA AppendIs ==
  ASSUME NEW S, NEW p \in Seq(S), NEW x \in S
  PROVE  /\ Append(p, x) \in Seq(S) /\ Append(p, x) # <<>> /\ Len(Append(p, x)) = Len(p) + 1
         /\ Last(Append(p, x)) = x /\ Parent(Append(p, x)) = p
         /\ InTree(p, Append(p, x)) /\ Under(p, Append(p, x))
<1> DEFINE q == Append(p, x)
           up == SubSeq(q, 1, Len(p))
<1>1. q \in Seq(S) /\ q # <<>> /\ Len(q) = Len(p) + 1 /\ q[Len(p) + 1] = x
  BY AppendProperties
<1>2. \A i \in 1..Len(p) : q[i] = p[i]
  BY AppendProperties
<1>3. Len(p) \in Nat
  OBVIOUS
<1> HIDE DEF q
<1>4. up \in Seq(S) /\ Len(up) = Len(p) /\ \A i \in 1..Len(p) : up[i] = q[i]
  BY <1>1, <1>3
<1>5. up = p
  BY <1>2, <1>4, SeqEqual
<1>6. Last(q) = x
  BY <1>1 DEF Last
<1>7. Parent(q) = p
  BY <1>1, <1>3, <1>5 DEF Parent
<1>8. InTree(p, q) /\ q # p
  BY <1>1, <1>3, <1>5 DEF InTree
<1> QED BY <1>1, <1>6, <1>7, <1>8 DEF q, Under

\* A path that is not the root is its parent with its last name behind it.
LEMMA ParentIs ==
  ASSUME NEW S, NEW p \in Seq(S), p # <<>>
  PROVE  /\ Parent(p) \in Seq(S) /\ Last(p) \in S /\ p = Append(Parent(p), Last(p))
         /\ Len(p) = Len(Parent(p)) + 1 /\ Len(Parent(p)) \in Nat
         /\ \A i \in 1..Len(Parent(p)) : Parent(p)[i] = p[i]
         /\ InTree(Parent(p), p) /\ Under(Parent(p), p)
<1> DEFINE up == SubSeq(p, 1, Len(p) - 1)
           x == p[Len(p)]
           q == Append(up, x)
<1>1. Len(p) \in Nat /\ Len(p) >= 1
  OBVIOUS
<1>2. up \in Seq(S) /\ Len(up) = Len(p) - 1 /\ \A i \in 1..Len(p) - 1 : up[i] = p[i]
  <2>1. \A i \in 1..Len(p) - 1 : p[i] \in S
    BY <1>1
  <2>2. up = [i \in 1..Len(p) - 1 |-> p[i]]
    BY <1>1
  <2> HIDE DEF up
  <2> QED BY <1>1, <2>1, <2>2
<1>3. x \in S
  BY <1>1, ElementOfSeq
<1> HIDE DEF up, x
<1>4. q \in Seq(S) /\ Len(q) = Len(up) + 1 /\ q[Len(up) + 1] = x
  BY <1>2, <1>3, AppendProperties
<1>5. \A i \in 1..Len(up) : q[i] = up[i]
  BY <1>2, <1>3, AppendProperties
<1>6. InTree(up, q) /\ Under(up, q)
  BY <1>2, <1>3, AppendIs
<1> HIDE DEF q
<1>7. \A i \in 1..Len(p) : p[i] = q[i]
  BY <1>1, <1>2, <1>4, <1>5 DEF x
<1>8. p = q
  BY <1>1, <1>2, <1>4, <1>7, SeqEqual
<1>9. up = Parent(p) /\ x = Last(p)
  BY DEF up, x, Parent, Last
<1> QED BY <1>1, <1>2, <1>3, <1>6, <1>8, <1>9 DEF q

\* The holder of a directory lies in it, and is no path.
LEMMA HolderIs ==
  ASSUME NEW p \in Path
  PROVE  /\ HolderOf(p) \in Seq(Names \cup {Holder}) /\ HolderOf(p) \in Key
         /\ HolderOf(p) # <<>> /\ Last(HolderOf(p)) = Holder /\ Parent(HolderOf(p)) = p
         /\ Under(p, HolderOf(p)) /\ InTree(p, HolderOf(p)) /\ Len(HolderOf(p)) = Len(p) + 1
<1> DEFINE S == Names \cup {Holder}
<1>1. p \in Seq(S) /\ Holder \in S
  BY SeqMonotonic DEF Path
<1>2. S \subseteq Names \cup {Holder, ""}
  OBVIOUS
<1> HIDE DEF S
<1>3. Append(p, Holder) \in Seq(S)
  BY <1>1, AppendIs
<1>4. Append(p, Holder) \in Key
  BY <1>2, <1>3, SeqMonotonic DEF Key
<1>5. /\ Append(p, Holder) # <<>> /\ Len(Append(p, Holder)) = Len(p) + 1
      /\ Last(Append(p, Holder)) = Holder /\ Parent(Append(p, Holder)) = p
  BY <1>1, AppendIs
<1>6. InTree(p, Append(p, Holder)) /\ Under(p, Append(p, Holder))
  BY <1>1, AppendIs
<1> QED BY <1>3, <1>4, <1>5, <1>6 DEF HolderOf, S

\* A path ends in a name.
LEMMA PathIs ==
  ASSUME NEW p \in Path
  PROVE  /\ p \in Key /\ p \in Seq(Names \cup {Holder})
         /\ p # <<>> => Last(p) \in Names /\ Last(p) # Holder /\ Parent(p) \in Path
<1>1. p \in Key /\ p \in Seq(Names \cup {Holder})
  BY SeqMonotonic DEF Key, Path
<1>2. ASSUME p # <<>>
      PROVE  Last(p) \in Names /\ Last(p) # Holder /\ Parent(p) \in Path
  <2>1. Len(p) \in 1..Len(p) /\ Len(p) \in Nat /\ Len(p) >= 1
    BY <1>2 DEF Path
  <2>2. Last(p) \in Names
    BY <2>1, ElementOfSeq DEF Last, Path
  <2>3. Parent(p) \in Path
    BY <2>1 DEF Parent, Path
  <2> QED BY <2>2, <2>3, TreeAssumption
<1> QED BY <1>1, <1>2

\* Entries of a directory are paths directly below it.
LEMMA EntryIs ==
  ASSUME NEW b, NEW n, Stored(b, n), NEW d \in Path
  PROVE  /\ IsFiniteSet(FilesIn(b, d)) /\ IsFiniteSet(DirsIn(b, d))
         /\ FilesIn(b, d) \subseteq DOMAIN b
         /\ \A p \in FilesIn(b, d) \cup DirsIn(b, d) :
              /\ p \in Path /\ p # <<>> /\ Last(p) \in Names
              /\ Parent(p) = d /\ Under(d, p) /\ InTree(d, p)
         /\ \A p \in DirsIn(b, d) : \E k \in DOMAIN b : Under(p, k)
<1> DEFINE K == {k \in DOMAIN b : Len(k) > Len(d) + 1 /\ Under(d, k)}
           f == [k \in K |-> SubSeq(k, 1, Len(d) + 1)]
           S == Names \cup {Holder}
<1>1. IsFiniteSet(DOMAIN b) /\ FilesIn(b, d) \subseteq DOMAIN b /\ K \subseteq DOMAIN b
  BY DEF Stored, FilesIn
<1>2. IsFiniteSet(FilesIn(b, d)) /\ IsFiniteSet(K)
  BY <1>1, FS_Subset
<1>3. f \in Surjection(K, DirsIn(b, d))
  BY DEF Surjection, DirsIn
<1>4. IsFiniteSet(DirsIn(b, d))
  BY <1>2, <1>3, FS_Surjection
<1>5. d \in Seq(S) /\ Len(d) \in Nat
  BY PathIs DEF Path
<1>6. ASSUME NEW p \in Path, Len(p) = Len(d) + 1, Under(d, p)
      PROVE  /\ p \in Path /\ p # <<>> /\ Last(p) \in Names
             /\ Parent(p) = d /\ Under(d, p) /\ InTree(d, p)
  <2>1. p # <<>>
    BY <1>5, <1>6
  <2>2. Parent(p) = d
    BY <1>5, <1>6 DEF Parent, Under, InTree
  <2> QED BY <1>6, <2>1, <2>2, PathIs DEF Under
<1>7. ASSUME NEW p \in FilesIn(b, d)
      PROVE  p \in Path /\ Len(p) = Len(d) + 1 /\ Under(d, p)
  <2>1. p \in DOMAIN b /\ Len(p) = Len(d) + 1 /\ Under(d, p) /\ p # HolderOf(d)
    BY DEF FilesIn
  <2>2. p \in Seq(S) /\ p # <<>> /\ Parent(p) \in Seq(Names)
    BY <2>1 DEF Stored
  <2>3. Parent(p) = d
    BY <1>5, <2>1 DEF Parent, Under, InTree
  <2>4. Len(p) \in 1..Len(p) /\ \A i \in 1..Len(p) : p[i] \in S
    BY <1>5, <2>1, <2>2, ElementOfSeq
  <2>5. \A i \in 1..Len(d) : p[i] = d[i]
    BY <1>5, <2>1, <2>2, InTreeElements DEF Under
  <2>6. p = Append(d, p[Len(p)])
    <3> DEFINE q == Append(d, p[Len(p)])
    <3>1. p[Len(p)] \in S
      BY <2>4
    <3>2. q \in Seq(S) /\ Len(q) = Len(d) + 1 /\ q[Len(d) + 1] = p[Len(p)]
      BY <1>5, <3>1, AppendProperties
    <3>3. \A i \in 1..Len(d) : q[i] = d[i]
      BY <1>5, <3>1, AppendProperties
    <3> HIDE DEF q
    <3>4. \A i \in 1..Len(p) : p[i] = q[i]
      BY <1>5, <2>1, <2>5, <3>2, <3>3
    <3>5. p = q
      BY <2>1, <2>2, <3>2, <3>4, SeqEqual
    <3> QED BY <3>5 DEF q
  <2>7. p[Len(p)] # Holder
    BY <2>1, <2>6 DEF HolderOf
  <2>8. p[Len(p)] \in Names
    BY <2>4, <2>7
  <2>9. Append(d, p[Len(p)]) \in Path
    BY <2>8, AppendProperties DEF Path
  <2> QED BY <2>1, <2>6, <2>9
<1>8. ASSUME NEW p \in DirsIn(b, d)
      PROVE  p \in Path /\ Len(p) = Len(d) + 1 /\ Under(d, p) /\ \E k \in DOMAIN b : Under(p, k)
  <2>1. PICK k \in K : p = SubSeq(k, 1, Len(d) + 1)
    BY DEF DirsIn
  <2>2. k \in DOMAIN b /\ Len(k) > Len(d) + 1 /\ Under(d, k)
    BY <2>1
  <2>3. k \in Seq(S) /\ k # <<>> /\ Parent(k) \in Path
    BY <2>2 DEF Stored, Path
  <2>4. p \in Seq(S) /\ Len(p) = Len(d) + 1 /\ \A i \in 1..Len(d) + 1 : p[i] = k[i]
    BY <1>5, <2>1, <2>2, <2>3
  <2>5. Len(Parent(k)) = Len(k) - 1 /\ \A i \in 1..Len(k) - 1 : Parent(k)[i] = k[i]
    BY <2>3 DEF Parent
  <2>6. \A i \in 1..Len(p) : p[i] = Parent(k)[i] /\ i \in 1..Len(Parent(k))
    BY <1>5, <2>2, <2>3, <2>4, <2>5
  <2>7. p \in Path
    <3>1. \A i \in 1..Len(p) : p[i] \in Names
      BY <2>3, <2>6, ElementOfSeq DEF Path
    <3>2. p \in [1..Len(p) -> Names] /\ Len(p) \in Nat
      BY <2>4, <3>1
    <3> QED BY <3>2 DEF Path
  <2>8. \A i \in 1..Len(d) : k[i] = d[i]
    BY <1>5, <2>2, <2>3, InTreeElements DEF Under
  <2>9. \A i \in 1..Len(d) : p[i] = d[i]
    BY <1>5, <2>4, <2>8
  <2>10. InTree(d, p) /\ p # d
    BY <1>5, <2>4, <2>9, InTreeElements
  <2>11. InTree(p, k) /\ k # p
    BY <1>5, <2>2, <2>3, <2>4, InTreeElements
  <2> QED BY <2>2, <2>4, <2>7, <2>10, <2>11 DEF Under
<1> QED BY <1>1, <1>2, <1>4, <1>6, <1>7, <1>8

-----------------------------------------------------------------------------
(* What Readdir makes of a listing.                                        *)

Entries(b, d) == SetToSeq(FilesIn(b, d)) \o SetToSeq(DirsIn(b, d))

Moves(r, b) ==
  <<Request("mkdir", r.to, <<>>, 0)>> \o Renames(Entries(b, r.n), r.to) \o ForceRemoveDir(r.n, FALSE)

Removes(r, b) ==
  Removals(SetToSeq(FilesIn(b, r.n))) \o Recursions(SetToSeq(DirsIn(b, r.n)))
    \o ForceRemoveDir(r.n, TRUE)

\* The entries of a directory: each is listed, one that is a file first as a
\* file, and none is listed twice that is not a file and a directory at once.
LEMMA EntriesAre ==
  ASSUME NEW b, NEW n, Stored(b, n), NEW d \in Path
  PROVE  /\ Entries(b, d) \in Seq(FilesIn(b, d) \cup DirsIn(b, d))
         /\ \A p \in FilesIn(b, d) \cup DirsIn(b, d) : \E i \in DOMAIN Entries(b, d) :
              Entries(b, d)[i] = p
         /\ \A p \in FilesIn(b, d) \cap DirsIn(b, d) : \E i, j \in DOMAIN Entries(b, d) :
              i < j /\ Entries(b, d)[i] = p /\ Entries(b, d)[j] = p
         /\ \A i, j \in DOMAIN Entries(b, d) :
              i < j /\ Entries(b, d)[i] = Entries(b, d)[j] =>
                Mixed(b) /\ Entries(b, d)[i] \in FilesIn(b, d) \cap DirsIn(b, d)
<1> DEFINE F == FilesIn(b, d)
           D == DirsIn(b, d)
           f == SetToSeq(F)
           g == SetToSeq(D)
           e == f \o g
           S == F \cup D
<1>1. IsFiniteSet(F) /\ IsFiniteSet(D) /\ F \subseteq DOMAIN b
  BY EntryIs
<1>2. ASSUME NEW p, p \in F, p \in D
      PROVE  Mixed(b)
  <2>1. p \in DOMAIN b
    BY <1>1, <1>2
  <2>2. \E k \in DOMAIN b : Under(p, k)
    BY <1>2, EntryIs
  <2> QED BY <2>1, <2>2 DEF Mixed
<1>3. f \in Seq(F) /\ g \in Seq(D)
  BY <1>1, ListingIs
<1>4. \A p \in F : \E i \in DOMAIN f : f[i] = p
  BY <1>1, ListingIs
<1>5. \A p \in D : \E i \in DOMAIN g : g[i] = p
  BY <1>1, ListingIs
<1>6. \A i, j \in DOMAIN f : i # j => f[i] # f[j]
  BY <1>1, ListingIs
<1>7. \A i, j \in DOMAIN g : i # j => g[i] # g[j]
  BY <1>1, ListingIs
<1>8. e = Entries(b, d)
  BY DEF Entries
<1> HIDE DEF F, D, f, g
<1>9. f \in Seq(S) /\ g \in Seq(S) /\ DOMAIN f = 1..Len(f) /\ DOMAIN g = 1..Len(g)
      /\ Len(f) \in Nat /\ Len(g) \in Nat
  BY <1>3, SeqMonotonic
<1> HIDE DEF S
<1>10. e \in Seq(S) /\ Len(e) = Len(f) + Len(g)
  BY <1>9, ConcatProperties
<1>11. \A i \in 1..Len(f) + Len(g) : e[i] = IF i <= Len(f) THEN f[i] ELSE g[i - Len(f)]
  BY <1>9, ConcatProperties
<1> HIDE DEF e
<1>12. DOMAIN e = 1..Len(f) + Len(g)
  BY <1>10
<1>13. \A i \in DOMAIN f : i \in DOMAIN e /\ i <= Len(f) /\ e[i] = f[i]
  BY <1>9, <1>11, <1>12
<1>14. \A i \in DOMAIN g : i + Len(f) \in DOMAIN e /\ i + Len(f) > Len(f) /\ e[i + Len(f)] = g[i]
  BY <1>9, <1>11, <1>12
<1>15. \A p \in S : \E i \in DOMAIN e : e[i] = p
  BY <1>4, <1>5, <1>13, <1>14 DEF S
<1>16. ASSUME NEW p \in F \cap D
       PROVE  \E i, j \in DOMAIN e : i < j /\ e[i] = p /\ e[j] = p
  <2>1. PICK i \in DOMAIN f : f[i] = p
    BY <1>4
  <2>2. PICK j \in DOMAIN g : g[j] = p
    BY <1>5
  <2>3. i \in DOMAIN e /\ e[i] = p /\ j + Len(f) \in DOMAIN e /\ e[j + Len(f)] = p
    BY <1>13, <1>14, <2>1, <2>2
  <2>4. i < j + Len(f)
    BY <1>9
  <2> QED BY <2>3, <2>4
<1>17. ASSUME NEW i \in DOMAIN e, NEW j \in DOMAIN e, i < j, e[i] = e[j]
       PROVE  Mixed(b) /\ e[i] \in F /\ e[i] \in D
  <2>1. i <= Len(f) => i \in DOMAIN f /\ e[i] = f[i]
    BY <1>9, <1>11, <1>12
  <2>2. j <= Len(f) => j \in DOMAIN f /\ e[j] = f[j]
    BY <1>9, <1>11, <1>12
  <2>3. i > Len(f) => i - Len(f) \in DOMAIN g /\ e[i] = g[i - Len(f)]
    BY <1>9, <1>11, <1>12
  <2>4. j > Len(f) => j - Len(f) \in DOMAIN g /\ e[j] = g[j - Len(f)]
    BY <1>9, <1>11, <1>12
  <2>5. i \in Nat /\ j \in Nat
    BY <1>12
  <2>6. CASE j <= Len(f)
    BY <1>6, <1>9, <1>17, <2>1, <2>2, <2>5, <2>6
  <2>7. CASE i > Len(f)
    <3>1. i - Len(f) # j - Len(f)
      BY <1>9, <1>17, <2>5
    <3> QED BY <1>7, <1>9, <1>17, <2>3, <2>4, <2>5, <2>7, <3>1
  <2>8. CASE i <= Len(f) /\ j > Len(f)
    <3>1. e[i] \in F /\ e[j] \in D
      BY <1>3, <1>9, <2>1, <2>4, <2>8, ElementOfSeq
    <3> QED BY <1>2, <1>17, <3>1
  <2> QED BY <1>9, <2>5, <2>6, <2>7, <2>8
<1> QED BY <1>8, <1>10, <1>15, <1>16, <1>17 DEF S, F, D

\* The elements of three sequences, one after the other, the last of two.
LEMMA ThreeParts ==
  ASSUME NEW S, NEW p \in Seq(S), NEW q \in Seq(S), NEW x \in S, NEW y \in S
  PROVE  /\ (p \o q) \o <<x, y>> \in Seq(S)
         /\ DOMAIN ((p \o q) \o <<x, y>>) = 1..Len(p) + Len(q) + 2
         /\ \A i \in DOMAIN p : ((p \o q) \o <<x, y>>)[i] = p[i]
         /\ \A i \in DOMAIN q : ((p \o q) \o <<x, y>>)[Len(p) + i] = q[i]
         /\ ((p \o q) \o <<x, y>>)[Len(p) + Len(q) + 1] = x
         /\ ((p \o q) \o <<x, y>>)[Len(p) + Len(q) + 2] = y
<1> DEFINE u == p \o q
           v == <<x, y>>
           w == u \o v
<1>1. v \in Seq(S) /\ Len(v) = 2 /\ v[1] = x /\ v[2] = y
  OBVIOUS
<1>2. u \in Seq(S) /\ Len(u) = Len(p) + Len(q)
  BY ConcatProperties
<1>3. \A i \in 1..Len(p) + Len(q) : u[i] = IF i <= Len(p) THEN p[i] ELSE q[i - Len(p)]
  BY ConcatProperties
<1> HIDE DEF u, v
<1>4. v \in Seq(S) /\ u \in Seq(S)
  BY <1>1, <1>2
<1>5. /\ w \in Seq(S) /\ Len(w) = Len(u) + Len(v)
      /\ \A i \in 1..Len(u) + Len(v) : w[i] = IF i <= Len(u) THEN u[i] ELSE v[i - Len(u)]
  BY <1>4, ConcatProperties
<1> HIDE DEF w
<1>6. Len(p) \in Nat /\ Len(q) \in Nat /\ DOMAIN p = 1..Len(p) /\ DOMAIN q = 1..Len(q)
  OBVIOUS
<1>7. DOMAIN w = 1..Len(p) + Len(q) + 2
  <2>1. w \in Seq(S) /\ Len(w) = Len(u) + Len(v)
    BY <1>5
  <2>2. Len(v) = 2 /\ Len(u) = Len(p) + Len(q)
    BY <1>1, <1>2
  <2>3. Len(w) = Len(p) + Len(q) + 2
    BY <1>6, <2>1, <2>2
  <2> QED BY <2>1, <2>3
<1>8. \A i \in DOMAIN p : w[i] = p[i]
  BY <1>1, <1>2, <1>3, <1>5, <1>6
<1>9. \A i \in DOMAIN q : w[Len(p) + i] = q[i]
  BY <1>1, <1>2, <1>3, <1>5, <1>6
<1>10. w[Len(p) + Len(q) + 1] = x /\ w[Len(p) + Len(q) + 2] = y
  <2>1. Len(v) = 2 /\ Len(u) = Len(p) + Len(q) /\ Len(u) \in Nat
    BY <1>1, <1>2, <1>6
  <2>2. \A i \in 1..Len(u) + 2 : w[i] = IF i <= Len(u) THEN u[i] ELSE v[i - Len(u)]
    BY <1>5, <2>1
  <2>3. w[Len(u) + 1] = v[1] /\ w[Len(u) + 2] = v[2]
    BY <2>1, <2>2
  <2> QED BY <1>1, <2>1, <2>3
<1> QED BY <1>5, <1>7, <1>8, <1>9, <1>10 DEF u, v, w

\* The requests for the entries of a directory, and for the directory.
MoveOf(p, to) == Request("rename", p, Append(to, Last(p)), 0)
RecursionFor(p) == Request("rmall", p, <<>>, 0)

\* The fields of a request.
LEMMA RequestIs ==
  ASSUME NEW do, NEW n, NEW to, NEW v
  PROVE  LET r == Request(do, n, to, v) IN
         /\ r.do = do /\ r.n = n /\ r.to = to /\ r.v = v /\ r.at = "head"
         /\ DOMAIN r = {"do", "n", "to", "v", "at"}
  BY DEF Request

\* Requests of the kinds programs are made of are well formed.
LEMMA RequestTypes ==
  ASSUME NEW n \in Nat
  PROVE  /\ \A p \in Path : Request("mkdir", p, <<>>, 0) \in Requests(n)
         /\ \A p \in Path : RecursionFor(p) \in Requests(n)
         /\ \A p \in Path, q \in Path : q # <<>> => Request("rename", p, q, 0) \in Requests(n)
         /\ \A p \in Path, q \in Path : p # <<>> /\ q # <<>> => CopyObject(p, q) \in Requests(n)
         /\ \A k \in Key : RemoveObject(k) \in Requests(n)
         /\ \A p \in Path : PutObject(HolderOf(p), 0) \in Requests(n)
         /\ \A p \in Path, v \in 1..n : p # <<>> =>
              PutObject(p, v) \in Requests(n) /\ Request("parent", p, <<>>, v) \in Requests(n)
<1>1. \A p \in Path : p \in Key
  BY PathIs
<1>2. <<>> \in Path
  BY DEF Path
<1>3. \A p \in Path : Request("mkdir", p, <<>>, 0) \in Requests(n)
  BY <1>1, <1>2 DEF Request, Requests, Valid, Dos, StatKinds
<1>4. \A p \in Path : RecursionFor(p) \in Requests(n)
  BY <1>1, <1>2 DEF RecursionFor, Request, Requests, Valid, Dos, StatKinds
<1>5. \A p \in Path, q \in Path : q # <<>> => Request("rename", p, q, 0) \in Requests(n)
  BY <1>1 DEF Request, Requests, Valid, Dos, StatKinds
<1>6. \A p \in Path, q \in Path : p # <<>> /\ q # <<>> => CopyObject(p, q) \in Requests(n)
  BY <1>1 DEF CopyObject, Request, Requests, Valid, Dos, StatKinds
<1>7. \A k \in Key : RemoveObject(k) \in Requests(n)
  BY <1>2 DEF RemoveObject, Request, Requests, Valid, Dos, StatKinds
<1>8. ASSUME NEW p \in Path
      PROVE  PutObject(HolderOf(p), 0) \in Requests(n)
  <2> DEFINE k == HolderOf(p)
  <2>1. k \in Key /\ k # <<>> /\ Last(k) = Holder /\ Parent(k) = p
    BY HolderIs
  <2> HIDE DEF k
  <2>2. PutObject(k, 0) \in Requests(n)
    BY <1>2, <2>1 DEF PutObject, Request, Requests, Valid, Dos, StatKinds
  <2> QED BY <2>2 DEF k
<1>9. \A p \in Path, v \in 1..n : p # <<>> =>
        PutObject(p, v) \in Requests(n) /\ Request("parent", p, <<>>, v) \in Requests(n)
  BY <1>1, <1>2 DEF PutObject, Request, Requests, Valid, Dos, StatKinds
<1> QED BY <1>3, <1>4, <1>5, <1>6, <1>7, <1>8, <1>9

\* What Rename makes of a listing: it makes the new directory, renames the
\* entries and removes the old directory.
LEMMA MovesAre ==
  ASSUME NEW b, NEW n \in Nat, Stored(b, n), NEW r \in Requests(n), r.do = "mvlist"
  PROVE  LET e == Entries(b, r.n) q == Moves(r, b) IN
         /\ q \in Seq(Requests(n)) /\ Len(e) \in Nat /\ DOMAIN q = 1..Len(e) + 3
         /\ q[1] = Request("mkdir", r.to, <<>>, 0)
         /\ \A i \in DOMAIN e : q[i + 1] = MoveOf(e[i], r.to)
         /\ q[Len(e) + 2] = RemoveObject(HolderOf(r.n))
         /\ q[Len(e) + 3] = RemoveObject(r.n)
<1> DEFINE e == Entries(b, r.n)
           one == <<Request("mkdir", r.to, <<>>, 0)>>
           mv == Renames(e, r.to)
           R == Requests(n)
<1>1. r.n \in Path /\ r.n # <<>> /\ r.to \in Path /\ r.to # <<>>
  BY DEF Requests, Valid
<1>2. e \in Seq(FilesIn(b, r.n) \cup DirsIn(b, r.n))
  BY <1>1, EntriesAre
<1>3. \A p \in FilesIn(b, r.n) \cup DirsIn(b, r.n) : MoveOf(p, r.to) \in R
  <2>1. \A p \in FilesIn(b, r.n) \cup DirsIn(b, r.n) : p \in Path /\ Last(p) \in Names
    BY <1>1, EntryIs
  <2>2. \A x \in Names : Append(r.to, x) \in Path /\ Append(r.to, x) # <<>>
    BY <1>1, AppendIs DEF Path
  <2> QED BY <2>1, <2>2, RequestTypes DEF MoveOf
<1>4. Request("mkdir", r.to, <<>>, 0) \in R /\ RemoveObject(HolderOf(r.n)) \in R /\ RemoveObject(r.n) \in R
  BY <1>1, HolderIs, PathIs, RequestTypes
<1> HIDE DEF e, R
<1>5. Len(e) \in Nat /\ DOMAIN e = 1..Len(e) /\ \A i \in 1..Len(e) : e[i] \in FilesIn(b, r.n) \cup DirsIn(b, r.n)
  BY <1>2, ElementOfSeq
<1>6. mv = [i \in 1..Len(e) |-> MoveOf(e[i], r.to)]
  BY <1>5 DEF Renames, MoveOf
<1>7. mv \in Seq(R) /\ Len(mv) = Len(e) /\ \A i \in DOMAIN e : i \in DOMAIN mv /\ mv[i] = MoveOf(e[i], r.to)
  <2>1. mv \in [1..Len(e) -> R]
    BY <1>3, <1>5, <1>6
  <2> HIDE DEF mv
  <2> QED BY <1>5, <1>6, <2>1
<1>8. one \in Seq(R) /\ Len(one) = 1 /\ 1 \in DOMAIN one /\ one[1] = Request("mkdir", r.to, <<>>, 0)
  BY <1>4
<1>8a. one \in Seq(R) /\ mv \in Seq(R)
  BY <1>7, <1>8
<1>9. Moves(r, b) = (one \o mv) \o <<RemoveObject(HolderOf(r.n)), RemoveObject(r.n)>>
  BY DEF Moves, ForceRemoveDir, KeyOf, e
<1> DEFINE q == (one \o mv) \o <<RemoveObject(HolderOf(r.n)), RemoveObject(r.n)>>
<1> HIDE DEF one, mv, q
<1>10. /\ q \in Seq(R) /\ DOMAIN q = 1..Len(one) + Len(mv) + 2
       /\ \A i \in DOMAIN one : q[i] = one[i]
       /\ \A i \in DOMAIN mv : q[Len(one) + i] = mv[i]
       /\ q[Len(one) + Len(mv) + 1] = RemoveObject(HolderOf(r.n))
       /\ q[Len(one) + Len(mv) + 2] = RemoveObject(r.n)
  BY <1>4, <1>8a, ThreeParts DEF q
<1>15. Len(one) + Len(mv) + 2 = Len(e) + 3 /\ Len(one) + Len(mv) + 1 = Len(e) + 2
  BY <1>5, <1>7, <1>8
<1>16. \A i \in DOMAIN e : q[i + 1] = MoveOf(e[i], r.to)
  BY <1>5, <1>7, <1>8, <1>10
<1>17. q[1] = Request("mkdir", r.to, <<>>, 0)
  BY <1>8, <1>10
<1>18. q[Len(e) + 2] = RemoveObject(HolderOf(r.n)) /\ q[Len(e) + 3] = RemoveObject(r.n)
  BY <1>10, <1>15
<1>19. Moves(r, b) = q
  BY <1>9 DEF q
<1>20. q \in Seq(Requests(n)) /\ DOMAIN q = 1..Len(e) + 3
  BY <1>10, <1>15 DEF R
<1> QED BY <1>5, <1>16, <1>17, <1>18, <1>19, <1>20 DEF e

\* What RemoveAll makes of a listing: it removes the files, goes through the
\* directories and removes the directory.
LEMMA RemovesAre ==
  ASSUME NEW b, NEW n \in Nat, Stored(b, n), NEW r \in Requests(n), r.do = "rmall"
  PROVE  LET f == SetToSeq(FilesIn(b, r.n))
             g == SetToSeq(DirsIn(b, r.n))
             q == Removes(r, b)
         IN
         /\ q \in Seq(Requests(n)) /\ Len(f) \in Nat /\ Len(g) \in Nat
         /\ DOMAIN q = 1..Len(f) + Len(g) + 2
         /\ f \in Seq(FilesIn(b, r.n)) /\ g \in Seq(DirsIn(b, r.n))
         /\ \A i \in DOMAIN f : q[i] = RemoveObject(f[i])
         /\ \A i \in DOMAIN g : q[Len(f) + i] = RecursionFor(g[i])
         /\ q[Len(f) + Len(g) + 1] = RemoveObject(HolderOf(r.n))
         /\ q[Len(f) + Len(g) + 2] = RemoveObject(KeyOf(r.n, TRUE))
<1> DEFINE F == FilesIn(b, r.n)
           D == DirsIn(b, r.n)
           f == SetToSeq(F)
           g == SetToSeq(D)
           rf == Removals(f)
           rg == Recursions(g)
           R == Requests(n)
           x == RemoveObject(HolderOf(r.n))
           y == RemoveObject(KeyOf(r.n, TRUE))
<1>1. r.n \in Path
  BY DEF Requests, Valid
<1>2. f \in Seq(F) /\ g \in Seq(D)
  BY <1>1, EntryIs, ListingIs
<1>3. (\A p \in F : RemoveObject(p) \in R) /\ (\A p \in D : RecursionFor(p) \in R)
  <2>1. \A p \in F \cup D : p \in Path
    BY <1>1, EntryIs
  <2> QED BY <2>1, PathIs, RequestTypes
<1>4. KeyOf(r.n, TRUE) \in Key
  <2>1. r.n \in Key /\ "" \in Names \cup {Holder, ""}
    BY <1>1, PathIs
  <2>2. Append(r.n, "") \in Key
    BY <2>1, AppendIs DEF Key
  <2> QED BY <2>1, <2>2 DEF KeyOf
<1>5. x \in R /\ y \in R
  BY <1>1, <1>4, HolderIs, RequestTypes
<1> HIDE DEF F, D, f, g, R, x, y
<1>6. /\ Len(f) \in Nat /\ DOMAIN f = 1..Len(f) /\ \A i \in 1..Len(f) : f[i] \in F
      /\ Len(g) \in Nat /\ DOMAIN g = 1..Len(g) /\ \A i \in 1..Len(g) : g[i] \in D
  BY <1>2, ElementOfSeq
<1>7. rf = [i \in 1..Len(f) |-> RemoveObject(f[i])] /\ rg = [i \in 1..Len(g) |-> RecursionFor(g[i])]
  BY <1>6 DEF Removals, Recursions, RecursionFor
<1>8. rf \in [1..Len(f) -> R] /\ rg \in [1..Len(g) -> R]
  BY <1>3, <1>6, <1>7
<1> HIDE DEF rf, rg
<1>9. rf \in Seq(R) /\ Len(rf) = Len(f) /\ \A i \in DOMAIN f : i \in DOMAIN rf /\ rf[i] = RemoveObject(f[i])
  BY <1>6, <1>7, <1>8
<1>10. rg \in Seq(R) /\ Len(rg) = Len(g) /\ \A i \in DOMAIN g : i \in DOMAIN rg /\ rg[i] = RecursionFor(g[i])
  BY <1>6, <1>7, <1>8
<1> DEFINE q == (rf \o rg) \o <<x, y>>
<1>11. Removes(r, b) = q
  BY DEF Removes, ForceRemoveDir, F, D, f, g, rf, rg, x, y
<1>12a. rf \in Seq(R) /\ rg \in Seq(R)
  BY <1>9, <1>10
<1> HIDE DEF q
<1>12. /\ q \in Seq(R) /\ DOMAIN q = 1..Len(rf) + Len(rg) + 2
       /\ \A i \in DOMAIN rf : q[i] = rf[i]
       /\ \A i \in DOMAIN rg : q[Len(rf) + i] = rg[i]
       /\ q[Len(rf) + Len(rg) + 1] = x
       /\ q[Len(rf) + Len(rg) + 2] = y
  BY <1>5, <1>12a, ThreeParts DEF q
<1>17. \A i \in DOMAIN f : q[i] = RemoveObject(f[i])
  BY <1>9, <1>12
<1>18. \A i \in DOMAIN g : q[Len(f) + i] = RecursionFor(g[i])
  BY <1>9, <1>10, <1>12
<1>19. q[Len(f) + Len(g) + 1] = x /\ q[Len(f) + Len(g) + 2] = y /\ DOMAIN q = 1..Len(f) + Len(g) + 2
  BY <1>9, <1>10, <1>12
<1>20. q \in Seq(Requests(n)) /\ f \in Seq(F) /\ g \in Seq(D)
  BY <1>2, <1>12 DEF R
<1> QED BY <1>6, <1>11, <1>17, <1>18, <1>19, <1>20 DEF F, D, f, g, x, y

-----------------------------------------------------------------------------
(* What a step makes of a program.                                         *)

\* The first request of c's program is replaced by q; or the call is over.
Becomes(c, q) ==
  /\ q \in Seq(Requests(calls)) /\ \A i \in DOMAIN q : i > 1 => Waits(q[i])
  /\ Continue(c, Go(q \o Tail(prog[c])))

Stops(c) == \E e \in Results \ {"none", "ok"} : Continue(c, Return(e))

\* One request, and two, in the place of the first.
LEMMA OneIs ==
  ASSUME NEW S, NEW x \in S
  PROVE  <<x>> \in Seq(S) /\ Len(<<x>>) = 1 /\ DOMAIN <<x>> = {1} /\ <<x>>[1] = x
  OBVIOUS

LEMMA TwoAre ==
  ASSUME NEW S, NEW x \in S, NEW y \in S
  PROVE  /\ <<x, y>> \in Seq(S) /\ Len(<<x, y>>) = 2 /\ DOMAIN <<x, y>> = {1, 2}
         /\ <<x, y>>[1] = x /\ <<x, y>>[2] = y
<1>1. <<x, y>> \in Seq(S) /\ Len(<<x, y>>) = 2 /\ <<x, y>>[1] = x /\ <<x, y>>[2] = y
  OBVIOUS
<1>2. 1..2 = {1, 2}
  OBVIOUS
<1> QED BY <1>1, <1>2

\* The request that takes the place of a Stat is well formed.
LEMMA TurnTypes ==
  ASSUME NEW n \in Nat, NEW r \in Requests(n), NEW what, NEW q,
         what = "missing" => StatName(r) # <<>>, Turn(r, what, q)
  PROVE  q \in Requests(n) /\ q.at = "head"
<1>1. r.n \in Path /\ r.n \in Key
  BY DEF Turn, Requests, Valid
<1>2. CASE r.do = "mkdir"
  <2>1. r.n # <<>> /\ q = Then(r, "opendir")
    BY <1>2 DEF Turn, StatName
  <2> QED BY <1>1, <2>1 DEF Then, Requests, Valid, Dos, StatKinds
<1>3. CASE r.do = "opendir" /\ q = Then(r, "mkparent")
  <2>1. r.n # <<>>
    BY <1>3 DEF Requests, Valid
  <2> QED BY <1>1, <1>3, <2>1 DEF Then, Requests, Valid, Dos, StatKinds
<1>4. CASE q = PutObject(HolderOf(r.n), 0)
  <2>1. q \in Requests(n)
    BY <1>1, <1>4, RequestTypes
  <2>2. q.at = "head"
    BY <1>4 DEF PutObject, Request
  <2> QED BY <2>1, <2>2
<1>5. CASE r.do = "rename"
  <2>1. r.n # <<>> /\ q = Then(r, "mvlist") /\ r.to # <<>>
    BY <1>5 DEF Turn, Requests, Valid
  <2> QED BY <1>1, <2>1 DEF Then, Requests, Valid, Dos, StatKinds
<1>6. CASE r.do = "parent"
  <2>1. r.n # <<>> /\ r.v \in 1..n /\ q = PutObject(r.n, r.v)
    BY <1>6 DEF Turn, Requests, Valid
  <2>2. q.at = "head"
    BY <2>1 DEF PutObject, Request
  <2> QED BY <1>1, <2>1, <2>2, RequestTypes
<1> QED BY <1>2, <1>3, <1>4, <1>5, <1>6 DEF Turn

\* The types a step of a call in progress starts from.
LEMMA ProgIs ==
  ASSUME Typed, NEW c \in Clients, prog[c] # <<>>
  PROVE  /\ prog[c] \in Seq(Requests(calls)) /\ Head(prog[c]) \in Requests(calls)
         /\ Head(prog[c]) = prog[c][1] /\ 1 \in DOMAIN prog[c]
         /\ Tail(prog[c]) \in Seq(Requests(calls))
         /\ \A i \in DOMAIN Tail(prog[c]) : Waits(Tail(prog[c])[i])
         /\ Stored(bucket, calls) /\ calls \in Nat /\ ret[c] = "none"
<1>1. prog[c] \in Seq(Requests(calls)) /\ ret[c] = "none" /\ Stored(bucket, calls) /\ calls \in Nat
  <2>1. calls \in 0..MaxCalls /\ MaxCalls \in Nat
    BY TreeAssumption DEF Typed, TypeOK
  <2>2. prog[c] \in Seq(Requests(calls)) /\ ret[c] = "none" /\ Stored(bucket, calls)
    BY DEF Typed, TypeOK
  <2> QED BY <2>1, <2>2
<1> DEFINE p == prog[c]
<1>2. \A i \in DOMAIN p : i > 1 => Waits(p[i])
  BY DEF Typed
<1> HIDE DEF p
<1>3. /\ Head(p) = p[1] /\ Head(p) \in Requests(calls) /\ Tail(p) \in Seq(Requests(calls))
      /\ 1 \in DOMAIN p
      /\ \A i \in DOMAIN Tail(p) : i + 1 \in DOMAIN p /\ i + 1 > 1 /\ Tail(p)[i] = p[i + 1]
  BY <1>1, FirstAndRest DEF p
<1> QED BY <1>1, <1>2, <1>3 DEF p

Told(c, what) ==
  LET r == Head(prog[c]) IN
  /\ what \in {"dir", "file", "missing"} /\ r.do \in StatKinds
  /\ blurred' \/ Answer(r, what)
  /\ what = "missing" => StatName(r) # <<>>
  /\ r.do = "rename" /\ what = "dir" /\ r.n # <<>> => r.at = "list"

\* What a Stat's answer makes of the program.
LEMMA HearsIs ==
  ASSUME Typed, NEW c \in Clients, Frame(c), Hears(c)
  PROVE  /\ UNCHANGED <<bucket, safe>>
         /\ \/ Stops(c)
            \/ \E what : LET r == Head(prog[c]) IN
                 /\ Told(c, what)
                 /\ \/ r.do = "opendir" /\ what = "dir" /\ Becomes(c, <<>>)
                    \/ \E q \in Requests(calls) :
                         Turn(r, what, q) /\ q.at = "head" /\ Becomes(c, <<q>>)
                    \/ /\ r.do = "rename" /\ what = "file" /\ r.n # <<>>
                       /\ Becomes(c, <<CopyObject(r.n, r.to), RemoveObject(r.n)>>)
<1> DEFINE r == Head(prog[c])
           rest == Tail(prog[c])
<1>1. UNCHANGED <<bucket, safe>> /\ prog[c] # <<>>
  BY DEF Hears, Frame
<1>2. r \in Requests(calls) /\ rest \in Seq(Requests(calls)) /\ calls \in Nat
  BY <1>1, ProgIs
<1>3. PICK what \in {"dir", "file", "missing"} :
        Told(c, what) /\ Continue(c, AfterStat(r, what, rest))
  BY DEF Hears, Told
<1>4. r.do \in StatKinds /\ (what = "missing" => StatName(r) # <<>>)
  BY <1>3 DEF Told
<1> DEFINE x == AfterStat(r, what, rest)
           two == <<CopyObject(r.n, r.to), RemoveObject(r.n)>>
<1>5. \/ Ends(x)
      \/ r.do = "opendir" /\ what = "dir" /\ x = Go(rest)
      \/ \E q : Turn(r, what, q) /\ x = Go(<<q>> \o rest)
      \/ r.do = "rename" /\ what = "file" /\ r.n # <<>> /\ x = Go(two \o rest)
  BY <1>4, AfterStatIs
<1>6. CASE Ends(x)
  BY <1>1, <1>3, <1>6 DEF Ends, Stops
<1>7. CASE r.do = "opendir" /\ what = "dir" /\ x = Go(rest)
  <2>1. Becomes(c, <<>>)
    <3>1. <<>> \in Seq(Requests(calls)) /\ DOMAIN <<>> = {}
      OBVIOUS
    <3>2. <<>> \o rest = rest
      BY <1>2, ConcatEmptySeq
    <3> QED BY <1>3, <1>7, <3>1, <3>2 DEF Becomes
  <2> QED BY <1>1, <1>3, <1>7, <2>1
<1>8. ASSUME NEW q, Turn(r, what, q), x = Go(<<q>> \o rest)
      PROVE  q \in Requests(calls) /\ q.at = "head" /\ Becomes(c, <<q>>)
  <2>1. q \in Requests(calls) /\ q.at = "head"
    BY <1>2, <1>4, <1>8, TurnTypes
  <2>2. <<q>> \in Seq(Requests(calls)) /\ DOMAIN <<q>> = {1}
    BY <2>1, OneIs
  <2>3. \A i \in DOMAIN <<q>> : i > 1 => Waits(<<q>>[i])
    BY <2>2
  <2> QED BY <1>3, <1>8, <2>1, <2>2, <2>3 DEF Becomes
<1>9. CASE r.do = "rename" /\ what = "file" /\ r.n # <<>> /\ x = Go(two \o rest)
  <2>1. CopyObject(r.n, r.to) \in Requests(calls) /\ RemoveObject(r.n) \in Requests(calls)
    <3>1. r.n \in Path /\ r.n \in Key /\ r.to \in Path /\ r.to # <<>>
      BY <1>2, <1>9 DEF Requests, Valid
    <3> QED BY <1>2, <1>9, <3>1, RequestTypes
  <2>2. two \in Seq(Requests(calls)) /\ DOMAIN two = {1, 2} /\ two[2] = RemoveObject(r.n)
    BY <2>1, TwoAre
  <2> HIDE DEF two
  <2>3. Waits(RemoveObject(r.n))
    BY DEF Waits, RemoveObject, Request
  <2>4. \A i \in DOMAIN two : i > 1 => Waits(two[i])
    BY <2>2, <2>3
  <2>5. Becomes(c, two)
    BY <1>3, <1>9, <2>2, <2>4 DEF Becomes
  <2> QED BY <1>1, <1>3, <1>9, <2>5 DEF two
<1> QED BY <1>1, <1>3, <1>5, <1>6, <1>7, <1>8, <1>9

\* What the first answer of a Stat makes of the program.
LEMMA AsksIs ==
  ASSUME Typed, NEW c \in Clients, Frame(c), Asks(c)
  PROVE  LET r == Head(prog[c]) q == [r EXCEPT !.at = "list"] IN
         /\ UNCHANGED <<bucket, safe>> /\ q \in Requests(calls) /\ r.do \in StatKinds
         /\ q.do = r.do /\ q.n = r.n /\ q.to = r.to /\ q.v = r.v /\ q.at = "list"
         /\ r.do # "opendir" => StatName(r) \notin DOMAIN bucket
         /\ Becomes(c, <<q>>)
<1> DEFINE r == Head(prog[c])
           q == [r EXCEPT !.at = "list"]
<1>1. prog[c] # <<>> /\ UNCHANGED <<bucket, safe>> /\ r.do \in StatKinds /\ StatName(r) # <<>>
  BY DEF Frame, Asks
<1>2. r \in Requests(calls)
  BY <1>1, ProgIs
<1>3. q.do = r.do /\ q.n = r.n /\ q.to = r.to /\ q.v = r.v /\ q.at = "list"
  BY <1>2 DEF Requests
<1>4. StatName(q) # <<>>
  BY <1>1, <1>3 DEF StatName
<1>5. q \in [do : Dos, n : Key, to : Path, v : Nat, at : {"head", "list"}]
  BY <1>2 DEF Requests
<1>6. Valid(r, calls)
  BY <1>2 DEF Requests
<1> HIDE DEF q
<1>7. Valid(q, calls)
  BY <1>3, <1>4, <1>6 DEF Valid
<1>8. q \in Requests(calls)
  BY <1>5, <1>7 DEF Requests
<1>9. <<q>> \in Seq(Requests(calls)) /\ DOMAIN <<q>> = {1}
  BY <1>8, OneIs
<1>10. \A i \in DOMAIN <<q>> : i > 1 => Waits(<<q>>[i])
  BY <1>9
<1>11. Becomes(c, <<q>>)
  BY <1>9, <1>10 DEF Becomes, Asks, q
<1>12. r.do # "opendir" => StatName(r) \notin DOMAIN bucket
  BY DEF Asks, KeyOf
<1> QED BY <1>1, <1>3, <1>8, <1>11, <1>12 DEF q

\* What a listing makes of the program.
LEMMA ListsIs ==
  ASSUME Typed, NEW c \in Clients, Frame(c), Lists(c)
  PROVE  LET r == Head(prog[c]) IN
         /\ UNCHANGED <<bucket, safe>>
         /\ \/ r.do = "mvlist" /\ Becomes(c, Moves(r, bucket))
            \/ r.do = "rmall" /\ Becomes(c, Removes(r, bucket))
<1> DEFINE r == Head(prog[c])
           rest == Tail(prog[c])
<1>1. prog[c] # <<>> /\ UNCHANGED <<bucket, safe>>
  BY DEF Frame, Lists
<1>2. r \in Requests(calls) /\ rest \in Seq(Requests(calls)) /\ Stored(bucket, calls) /\ calls \in Nat
  BY <1>1, ProgIs
<1>3. CASE r.do = "mvlist"
  <2> DEFINE q == Moves(r, bucket)
             e == Entries(bucket, r.n)
  <2>1. Continue(c, Go(q \o rest))
    BY <1>3 DEF Lists, RenameAfterList, Moves, Entries
  <2>2. q \in Seq(Requests(calls)) /\ Len(e) \in Nat /\ DOMAIN q = 1..Len(e) + 3
    BY <1>2, <1>3, MovesAre
  <2>3. /\ \A i \in DOMAIN e : q[i + 1] = MoveOf(e[i], r.to)
        /\ q[Len(e) + 2] = RemoveObject(HolderOf(r.n))
        /\ q[Len(e) + 3] = RemoveObject(r.n)
    BY <1>2, <1>3, MovesAre
  <2>4. DOMAIN e = 1..Len(e)
    <3>1. r.n \in Path
      BY <1>2, <1>3 DEF Requests, Valid
    <3> QED BY <1>2, <3>1, EntriesAre
  <2>5. /\ \A x, to : Waits(MoveOf(x, to))
        /\ \A k : Waits(RemoveObject(k))
    BY DEF Waits, MoveOf, RemoveObject, Request
  <2> HIDE DEF q, e
  <2>6. ASSUME NEW i \in DOMAIN q, i > 1
        PROVE  Waits(q[i])
    <3>1. i \in Nat /\ (i - 1 \in DOMAIN e \/ i = Len(e) + 2 \/ i = Len(e) + 3)
      BY <2>2, <2>4, <2>6
    <3>2. i - 1 \in DOMAIN e => q[i] = MoveOf(e[i - 1], r.to)
      BY <2>2, <2>3
    <3> QED BY <2>3, <2>5, <3>1, <3>2
  <2>7. Becomes(c, q)
    BY <2>1, <2>2, <2>6 DEF Becomes
  <2> QED BY <1>1, <1>3, <2>7 DEF q
<1>4. CASE r.do = "rmall"
  <2> DEFINE q == Removes(r, bucket)
             f == SetToSeq(FilesIn(bucket, r.n))
             g == SetToSeq(DirsIn(bucket, r.n))
  <2>1. Continue(c, Go(q \o rest))
    BY <1>4 DEF Lists, RemoveAllAfterList, Removes
  <2>2. /\ q \in Seq(Requests(calls)) /\ Len(f) \in Nat /\ Len(g) \in Nat
        /\ DOMAIN q = 1..Len(f) + Len(g) + 2
    BY <1>2, <1>4, RemovesAre
  <2>3. f \in Seq(FilesIn(bucket, r.n)) /\ g \in Seq(DirsIn(bucket, r.n))
    BY <1>2, <1>4, RemovesAre
  <2>4. /\ \A i \in DOMAIN f : q[i] = RemoveObject(f[i])
        /\ \A i \in DOMAIN g : q[Len(f) + i] = RecursionFor(g[i])
        /\ q[Len(f) + Len(g) + 1] = RemoveObject(HolderOf(r.n))
        /\ q[Len(f) + Len(g) + 2] = RemoveObject(KeyOf(r.n, TRUE))
    BY <1>2, <1>4, RemovesAre
  <2>5. /\ \A p : Waits(RecursionFor(p))
        /\ \A k : Waits(RemoveObject(k))
    BY DEF Waits, RecursionFor, RemoveObject, Request
  <2> HIDE DEF q, f, g
  <2>6. DOMAIN f = 1..Len(f) /\ DOMAIN g = 1..Len(g)
    BY <2>3
  <2>7. ASSUME NEW i \in DOMAIN q
        PROVE  Waits(q[i])
    <3>1. i \in DOMAIN f \/ i - Len(f) \in DOMAIN g \/ i = Len(f) + Len(g) + 1 \/ i = Len(f) + Len(g) + 2
      BY <2>2, <2>6
    <3>2. i - Len(f) \in DOMAIN g => q[i] = RecursionFor(g[i - Len(f)])
      BY <2>2, <2>4, <2>6
    <3> QED BY <2>4, <2>5, <3>1, <3>2
  <2>8. Becomes(c, q)
    BY <2>1, <2>2, <2>7 DEF Becomes
  <2> QED BY <1>1, <1>4, <2>8 DEF q
<1> QED BY <1>3, <1>4 DEF Lists

\* What a change makes of the program.
LEMMA ChangesIs ==
  ASSUME Typed, NEW c \in Clients, Frame(c), Changes(c)
  PROVE  Becomes(c, <<>>) \/ Stops(c)
<1>1. CASE Continue(c, Go(Tail(prog[c])))
  <2>1. Tail(prog[c]) \in Seq(Requests(calls))
    BY ProgIs DEF Frame
  <2>2. <<>> \in Seq(Requests(calls)) /\ DOMAIN <<>> = {} /\ <<>> \o Tail(prog[c]) = Tail(prog[c])
    BY <2>1, ConcatEmptySeq
  <2> QED BY <1>1, <2>2 DEF Becomes
<1>2. CASE Continue(c, Return("err"))
  BY <1>2 DEF Stops, Results
<1> QED BY <1>1, <1>2 DEF Changes

-----------------------------------------------------------------------------
(* Type correctness.                                                       *)

\* Later calls know of more contents.
LEMMA LaterTypes ==
  ASSUME NEW n \in Nat
  PROVE  /\ Requests(n) \subseteq Requests(n + 1)
         /\ \A b : Stored(b, n) => Stored(b, n + 1)
<1>1. 1..n \subseteq 1..n + 1
  OBVIOUS
<1>2. ASSUME NEW r \in Requests(n)
      PROVE  r \in Requests(n + 1)
  <2>1. Valid(r, n + 1)
    BY <1>1 DEF Requests, Valid
  <2> QED BY <2>1 DEF Requests
<1>3. \A b : Stored(b, n) => Stored(b, n + 1)
  BY <1>1 DEF Stored
<1> QED BY <1>2, <1>3

\* What a program becomes is a program.
LEMMA BecomesTyped ==
  ASSUME Typed, NEW c \in Clients, prog[c] # <<>>, NEW q, Becomes(c, q)
  PROVE  LET p == q \o Tail(prog[c]) IN
         /\ p \in Seq(Requests(calls)) /\ \A i \in DOMAIN p : i > 1 => Waits(p[i])
         /\ prog' = [prog EXCEPT ![c] = p]
         /\ ret' = [ret EXCEPT ![c] = IF p = <<>> THEN "ok" ELSE "none"]
<1> DEFINE rest == Tail(prog[c])
           p == q \o rest
<1>1. rest \in Seq(Requests(calls)) /\ \A i \in DOMAIN rest : Waits(rest[i])
  BY ProgIs
<1>2. q \in Seq(Requests(calls)) /\ \A i \in DOMAIN q : i > 1 => Waits(q[i])
  BY DEF Becomes
<1>3. prog' = [prog EXCEPT ![c] = p] /\ ret' = [ret EXCEPT ![c] = IF p = <<>> THEN "ok" ELSE "none"]
  BY DEF Becomes, Continue, Go
<1> HIDE DEF rest
<1>4. p \in Seq(Requests(calls)) /\ Len(p) = Len(q) + Len(rest)
  BY <1>1, <1>2, ConcatProperties
<1>5. \A i \in 1..Len(q) + Len(rest) : p[i] = IF i <= Len(q) THEN q[i] ELSE rest[i - Len(q)]
  BY <1>1, <1>2, ConcatProperties
<1>6. /\ Len(q) \in Nat /\ Len(rest) \in Nat
      /\ DOMAIN q = 1..Len(q) /\ DOMAIN rest = 1..Len(rest)
  BY <1>1, <1>2
<1>7. DOMAIN p = 1..Len(q) + Len(rest)
  BY <1>4
<1> HIDE DEF p
<1>8. ASSUME NEW i \in DOMAIN p, i > 1
      PROVE  Waits(p[i])
  <2>1. CASE i <= Len(q)
    BY <1>2, <1>5, <1>6, <1>7, <1>8, <2>1
  <2>2. CASE ~(i <= Len(q))
    <3>1. i - Len(q) \in DOMAIN rest /\ p[i] = rest[i - Len(q)]
      BY <1>5, <1>6, <1>7, <2>2
    <3> QED BY <1>1, <3>1
  <2> QED BY <2>1, <2>2
<1> QED BY <1>3, <1>4, <1>8 DEF p, rest

\* Every step of a call in progress leaves c a program, and the others theirs.
LEMMA StepProgs ==
  ASSUME Typed, NEW c \in Clients, Frame(c),
         Asks(c) \/ Hears(c) \/ Lists(c) \/ GivesUp(c) \/ Changes(c)
  PROVE  Stops(c) \/ \E q : Becomes(c, q)
<1>1. CASE GivesUp(c)
  BY <1>1 DEF GivesUp, Stops, Results
<1>2. CASE Asks(c)
  BY <1>2, AsksIs
<1>3. CASE Hears(c)
  BY <1>3, HearsIs
<1>4. CASE Lists(c)
  BY <1>4, ListsIs
<1>5. CASE Changes(c)
  BY <1>5, ChangesIs
<1> QED BY <1>1, <1>2, <1>3, <1>4, <1>5

\* What is put, copied or removed leaves a bucket of the same kind.
LEMMA EffectTyped ==
  ASSUME Typed, NEW c \in Clients, prog[c] # <<>>, NEW r \in Requests(calls),
         r.do \in {"put", "copy", "remove"}, Possible(r), Effect(c, r)
  PROVE  Stored(bucket', calls) /\ safe' \subseteq 1..calls
<1>1. /\ Stored(bucket, calls) /\ safe \subseteq 1..calls /\ calls \in Nat
      /\ IsFiniteSet(DOMAIN bucket) /\ 0 \notin 1..calls
  <2>1. safe \subseteq 1..calls
    BY DEF Typed, TypeOK
  <2> QED BY <2>1, ProgIs DEF Stored
<1>2. CASE r.do = "put"
  <2>1. bucket' = Placed(bucket, r.n, r.v)
    BY <1>2 DEF Effect
  <2>2. safe' = {} \/ safe' = safe \/ safe' = safe \ {r.v} \/ (r.v # 0 /\ safe' = safe \cup {r.v})
    BY <1>2 DEF Effect
  <2>3. /\ r.n \in Seq(Names \cup {Holder}) /\ r.n # <<>> /\ Parent(r.n) \in Seq(Names)
        /\ r.v \in IF Last(r.n) = Holder THEN {0} ELSE 1..calls
    <3>1. \/ r.v = 0 /\ r.n # <<>> /\ Parent(r.n) \in Path /\ Last(r.n) = Holder
          \/ r.v \in 1..calls /\ r.n \in Path /\ r.n # <<>>
      BY <1>2 DEF Requests, Valid
    <3>2. CASE r.n \in Path
      BY <1>1, <3>1, <3>2, PathIs DEF Path
    <3>3. CASE r.v = 0 /\ r.n # <<>> /\ Parent(r.n) \in Path /\ Last(r.n) = Holder
      <4>1. r.n \in Key /\ r.n = Append(Parent(r.n), Last(r.n))
        BY <3>3, ParentIs DEF Requests, Key
      <4>2. r.n = HolderOf(Parent(r.n))
        BY <3>3, <4>1 DEF HolderOf
      <4>3. r.n \in Seq(Names \cup {Holder})
        BY <3>3, <4>2, HolderIs
      <4> QED BY <3>3, <4>3 DEF Path
    <3> QED BY <3>1, <3>2, <3>3
  <2>4. IsFiniteSet(DOMAIN bucket \cup {r.n})
    BY <1>1, FS_AddElement
  <2>5. Stored(bucket', calls)
    BY <1>1, <2>1, <2>3, <2>4 DEF Placed, Stored
  <2>6. r.v # 0 => r.v \in 1..calls
    BY <1>2 DEF Requests, Valid
  <2> QED BY <1>1, <2>2, <2>5, <2>6
<1>3. CASE r.do = "copy"
  <2>1. bucket' = Placed(bucket, r.to, bucket[r.n]) /\ safe' \subseteq safe
    BY <1>3 DEF Effect
  <2>2. r.n \in Path /\ r.n # <<>> /\ r.to \in Path /\ r.to # <<>> /\ r.n \in DOMAIN bucket
    BY <1>3 DEF Requests, Valid, Possible
  <2>3. /\ Last(r.n) # Holder /\ Last(r.to) # Holder /\ Parent(r.to) \in Seq(Names)
        /\ r.to \in Seq(Names \cup {Holder})
    BY <2>2, PathIs DEF Path
  <2>4. bucket[r.n] \in 1..calls
    BY <1>1, <2>2, <2>3 DEF Stored
  <2>5. IsFiniteSet(DOMAIN bucket \cup {r.to})
    BY <1>1, FS_AddElement
  <2>6. Stored(bucket', calls)
    BY <1>1, <2>1, <2>2, <2>3, <2>4, <2>5 DEF Placed, Stored
  <2> QED BY <1>1, <2>1, <2>6
<1>4. CASE r.do = "remove"
  <2>1. bucket' = [k \in DOMAIN bucket \ {r.n} |-> bucket[k]] /\ safe' = safe
    BY <1>4 DEF Effect
  <2>2. IsFiniteSet(DOMAIN bucket \ {r.n})
    BY <1>1, FS_Subset
  <2>3. Stored(bucket', calls)
    BY <1>1, <2>1, <2>2 DEF Stored
  <2> QED BY <1>1, <2>1, <2>3
<1> QED BY <1>2, <1>3, <1>4

\* A step of a call in progress keeps the types.
LEMMA TypedRequest ==
  ASSUME Typed, NEW c \in Clients, RequestOf(c)
  PROVE  Typed'
<1>1. Frame(c) /\ (Asks(c) \/ Hears(c) \/ Lists(c) \/ GivesUp(c) \/ Changes(c))
  BY Steps
<1>2. /\ prog[c] # <<>> /\ cur' = cur /\ calls' = calls /\ alone' \subseteq alone
      /\ faults' \in 0..MaxFaults /\ blurred' \in BOOLEAN
  BY <1>1 DEF Frame
<1>3. /\ cur \in [Clients -> [op : Ops \cup {"none"}, n : Path, to : Path, v : 0..calls]]
      /\ prog \in [Clients -> Seq(Requests(calls))] /\ ret \in [Clients -> Results]
      /\ alone \subseteq Clients /\ safe \subseteq 1..calls /\ calls \in 0..MaxCalls
      /\ Stored(bucket, calls)
      /\ \A d \in Clients : prog[d] # <<>> => ret[d] = "none"
      /\ \A d \in Clients : \A i \in DOMAIN prog[d] : i > 1 => Waits(prog[d][i])
  BY DEF Typed, TypeOK
<1> DEFINE Fine ==
      /\ prog' \in [Clients -> Seq(Requests(calls))] /\ ret' \in [Clients -> Results]
      /\ \A d \in Clients : prog'[d] # <<>> => ret'[d] = "none"
      /\ \A d \in Clients : \A i \in DOMAIN prog'[d] : i > 1 => Waits(prog'[d][i])
<1>4. Fine
  <2>1. CASE Stops(c)
    <3>1. PICK e \in Results : prog' = [prog EXCEPT ![c] = <<>>] /\ ret' = [ret EXCEPT ![c] = e]
      BY <2>1 DEF Stops, Continue, Return
    <3>2. <<>> \in Seq(Requests(calls)) /\ DOMAIN <<>> = {}
      OBVIOUS
    <3> QED BY <1>3, <3>1, <3>2
  <2>2. ASSUME NEW q, Becomes(c, q)
        PROVE  Fine
    <3> DEFINE p == q \o Tail(prog[c])
    <3>1. /\ p \in Seq(Requests(calls)) /\ \A i \in DOMAIN p : i > 1 => Waits(p[i])
          /\ prog' = [prog EXCEPT ![c] = p]
          /\ ret' = [ret EXCEPT ![c] = IF p = <<>> THEN "ok" ELSE "none"]
      BY <1>2, <2>2, BecomesTyped
    <3> HIDE DEF p
    <3> QED BY <1>3, <3>1 DEF Results
  <2> QED BY <1>1, <2>1, <2>2, StepProgs
<1>5. Stored(bucket', calls) /\ safe' \subseteq 1..calls
  <2>1. CASE UNCHANGED <<bucket, safe>>
    BY <1>3, <2>1
  <2>2. CASE Changes(c)
    BY <1>2, <2>2, EffectTyped, ProgIs DEF Changes
  <2> QED BY <1>1, <2>1, <2>2 DEF Asks, Hears, Lists, GivesUp
<1>6. alone' \subseteq Clients
  BY <1>2, <1>3
<1>7. \A d \in Clients : ret'[d] \in Results
  BY <1>4
<1>8. TypeOK'
  BY <1>2, <1>3, <1>4, <1>5, <1>6, <1>7 DEF TypeOK
<1> QED BY <1>2, <1>3, <1>4, <1>8 DEF Typed

\* A new call keeps the types.
LEMMA TypedBegin ==
  ASSUME Typed, NEW c \in Clients, NEW op \in Calls, NEW n \in Paths, NEW to \in Paths,
         Begin(c, op, n, to)
  PROVE  Typed'
<1> DEFINE p == Program(op, n, to, calls + 1)
           call == [op |-> op, n |-> n, to |-> to, v |-> calls + 1]
           next == IF op = "RemoveAll" /\ n = <<>> THEN Return("errPermission") ELSE Go(p)
<1>1. op \in Ops /\ n \in Path /\ to \in Path /\ Calls \subseteq Ops
  BY TreeAssumption DEF Path
<1>2. /\ cur \in [Clients -> [op : Ops \cup {"none"}, n : Path, to : Path, v : 0..calls]]
      /\ prog \in [Clients -> Seq(Requests(calls))] /\ ret \in [Clients -> Results]
      /\ alone \subseteq Clients /\ safe \subseteq 1..calls
      /\ calls \in 0..MaxCalls /\ MaxCalls \in Nat /\ calls \in Nat
      /\ faults \in 0..MaxFaults /\ blurred \in BOOLEAN /\ Stored(bucket, calls)
      /\ \A d \in Clients : prog[d] # <<>> => ret[d] = "none"
      /\ \A d \in Clients : \A i \in DOMAIN prog[d] : i > 1 => Waits(prog[d][i])
  <2>1. calls \in 0..MaxCalls /\ MaxCalls \in Nat
    BY TreeAssumption DEF Typed, TypeOK
  <2>2. calls \in Nat
    BY <2>1
  <2>3. /\ cur \in [Clients -> [op : Ops \cup {"none"}, n : Path, to : Path, v : 0..calls]]
        /\ prog \in [Clients -> Seq(Requests(calls))] /\ ret \in [Clients -> Results]
        /\ alone \subseteq Clients /\ safe \subseteq 1..calls
        /\ faults \in 0..MaxFaults /\ blurred \in BOOLEAN /\ Stored(bucket, calls)
        /\ \A d \in Clients : prog[d] # <<>> => ret[d] = "none"
        /\ \A d \in Clients : \A i \in DOMAIN prog[d] : i > 1 => Waits(prog[d][i])
    BY DEF Typed, TypeOK
  <2> QED BY <2>1, <2>2, <2>3
<1>3. /\ calls < MaxCalls /\ Proper(op, n, to) /\ calls' = calls + 1 /\ cur' = [cur EXCEPT ![c] = call]
      /\ prog' = [prog EXCEPT ![c] = next.prog] /\ ret' = [ret EXCEPT ![c] = next.ret]
      /\ alone' \in {{c}, {}} /\ safe' \subseteq safe /\ blurred' \in BOOLEAN
      /\ bucket' = bucket /\ faults' = faults
  BY <1>2 DEF Begin
<1>4. /\ calls + 1 \in 0..MaxCalls /\ calls + 1 \in 1..calls + 1 /\ 1..calls \subseteq 1..calls + 1
      /\ 0..calls \subseteq 0..calls + 1 /\ calls + 1 \in 0..calls + 1 /\ calls + 1 \in Nat
  BY <1>2, <1>3
<1>5. p \in Seq(Requests(calls + 1)) /\ \A i \in DOMAIN p : i <= 1
  <2> DEFINE R == Requests(calls + 1)
  <2>1. <<>> \in Seq(R) /\ \A i \in DOMAIN <<>> : i <= 1
    OBVIOUS
  <2>2. ASSUME NEW r \in R
        PROVE  <<r>> \in Seq(R) /\ \A i \in DOMAIN <<r>> : i <= 1
    BY OneIs
  <2>3. CASE op = "Mkdir"
    <3>1. Request("mkdir", n, <<>>, 0) \in R
      BY <1>1, <1>4, RequestTypes
    <3>2. p = <<Request("mkdir", n, <<>>, 0)>>
      BY <2>3 DEF Program
    <3> QED BY <2>2, <3>1, <3>2
  <2>4. CASE op = "Create"
    <3>1. n # <<>>
      BY <1>3, <2>4 DEF Proper
    <3>2. PutObject(n, calls + 1) \in R /\ Request("parent", n, <<>>, calls + 1) \in R
      BY <1>1, <1>4, <3>1, RequestTypes
    <3>3. p = <<PutObject(n, calls + 1)>> \/ p = <<Request("parent", n, <<>>, calls + 1)>>
      BY <2>4 DEF Program
    <3> QED BY <2>2, <3>2, <3>3
  <2>5. CASE op = "Rename"
    <3>1. to # <<>>
      BY <1>3, <2>5 DEF Proper
    <3>2. Request("rename", n, to, 0) \in R
      BY <1>1, <1>4, <3>1, RequestTypes
    <3>3. p = <<>> \/ p = <<Request("rename", n, to, 0)>>
      BY <2>5 DEF Program
    <3> QED BY <2>1, <2>2, <3>2, <3>3
  <2>6. CASE op = "RemoveAll"
    <3>1. RecursionFor(n) \in R
      BY <1>1, <1>4, RequestTypes
    <3>2. p = <<RecursionFor(n)>>
      BY <2>6 DEF Program, RecursionFor
    <3> QED BY <2>2, <3>1, <3>2
  <2> QED BY <1>1, <2>3, <2>4, <2>5, <2>6 DEF Ops
<1>6. /\ next.prog \in Seq(Requests(calls + 1)) /\ \A i \in DOMAIN next.prog : i <= 1
      /\ next.ret \in Results /\ (next.prog # <<>> => next.ret = "none")
  <2>1. CASE op = "RemoveAll" /\ n = <<>>
    <3>1. next.prog = <<>> /\ next.ret = "errPermission"
      BY <2>1 DEF Return
    <3>2. <<>> \in Seq(Requests(calls + 1)) /\ DOMAIN <<>> = {} /\ "errPermission" \in Results
      BY DEF Results
    <3> HIDE DEF next
    <3> QED BY <3>1, <3>2
  <2>2. CASE ~(op = "RemoveAll" /\ n = <<>>)
    <3>1. next.prog = p /\ next.ret = IF p = <<>> THEN "ok" ELSE "none"
      BY <2>2 DEF Go
    <3> HIDE DEF p, next
    <3> QED BY <1>5, <3>1 DEF Results
  <2> QED BY <2>1, <2>2
<1> DEFINE np == next.prog
           nr == next.ret
<1> HIDE DEF p, next
<1>7. np \in Seq(Requests(calls + 1)) /\ (\A i \in DOMAIN np : i <= 1 /\ i \in Nat) /\ nr \in Results
      /\ (np # <<>> => nr = "none") /\ prog' = [prog EXCEPT ![c] = np] /\ ret' = [ret EXCEPT ![c] = nr]
  BY <1>3, <1>6
<1> HIDE DEF np, nr
<1>8. \A d \in Clients : prog[d] \in Seq(Requests(calls + 1))
  <2>1. Requests(calls) \subseteq Requests(calls + 1)
    BY <1>2, LaterTypes
  <2> QED BY <1>2, <2>1, SeqMonotonic
<1>9. prog' \in [Clients -> Seq(Requests(calls + 1))]
  BY <1>2, <1>7, <1>8
<1>10. ret' \in [Clients -> Results] /\ \A d \in Clients : prog'[d] # <<>> => ret'[d] = "none"
  BY <1>2, <1>7
<1>11. \A d \in Clients : \A i \in DOMAIN prog'[d] : i > 1 => Waits(prog'[d][i])
  <2>1. \A i \in DOMAIN np : ~(i > 1)
    BY <1>7
  <2> QED BY <1>2, <1>7, <2>1
<1>12. cur' \in [Clients -> [op : Ops \cup {"none"}, n : Path, to : Path, v : 0..calls + 1]]
  <2>1. call \in [op : Ops \cup {"none"}, n : Path, to : Path, v : 0..calls + 1]
    BY <1>1, <1>4
  <2>2. \A d \in Clients : cur[d] \in [op : Ops \cup {"none"}, n : Path, to : Path, v : 0..calls + 1]
    BY <1>2, <1>4
  <2> HIDE DEF call
  <2> QED BY <1>2, <1>3, <2>1, <2>2
<1>13. Stored(bucket', calls') /\ safe' \subseteq 1..calls' /\ alone' \subseteq Clients
  BY <1>2, <1>3, <1>4, LaterTypes
<1>14. \A d \in Clients : ret'[d] \in Results
  BY <1>10
<1>15. TypeOK'
  BY <1>2, <1>3, <1>4, <1>10, <1>13, <1>14 DEF TypeOK
<1> QED BY <1>3, <1>9, <1>10, <1>11, <1>12, <1>15 DEF Typed

\* The initial states are well typed.
LEMMA TypedInit == Init => Typed
<1> SUFFICES ASSUME Init PROVE Typed
  OBVIOUS
<1>1. PICK s \in Start :
        /\ bucket = s.bucket /\ calls = s.calls
        /\ safe = IF Mixed(s.bucket) THEN {} ELSE {s.bucket[k] : k \in DOMAIN s.bucket} \ {0}
        /\ blurred = ~WellFormed(s.bucket)
  BY DEF Init
<1>2. calls \in 0..MaxCalls /\ Stored(bucket, calls)
  BY <1>1, StartAssumption
<1>3. safe \subseteq 1..calls
  <2>1. \A k \in DOMAIN bucket : bucket[k] \in {0} \cup 1..calls
    BY <1>2 DEF Stored
  <2> QED BY <1>1, <2>1
<1>4. blurred \in BOOLEAN
  BY <1>1
<1>5. /\ prog = [c \in Clients |-> <<>>] /\ ret = [c \in Clients |-> "none"]
      /\ cur = [c \in Clients |-> [op |-> "none", n |-> <<>>, to |-> <<>>, v |-> 0]]
      /\ alone = {} /\ faults = 0
  BY DEF Init
<1>6. prog \in [Clients -> Seq(Requests(calls))] /\ ret \in [Clients -> Results]
  BY <1>5 DEF Results
<1>7. \A c \in Clients : \A i \in DOMAIN prog[c] : i > 1 => Waits(prog[c][i])
  <2>1. DOMAIN <<>> = {}
    OBVIOUS
  <2> QED BY <1>5, <2>1
<1>8. cur \in [Clients -> [op : Ops \cup {"none"}, n : Path, to : Path, v : 0..calls]]
  <2>1. 0 \in 0..calls
    <3>1. MaxCalls \in Nat /\ calls \in 0..MaxCalls
      BY <1>2, TreeAssumption
    <3> QED BY <3>1
  <2>2. <<>> \in Path
    BY DEF Path
  <2> QED BY <1>5, <2>1, <2>2
<1>9. TypeOK
  <2>1. faults \in 0..MaxFaults
    <3>1. faults = 0 /\ MaxFaults \in Nat
      BY TreeAssumption DEF Init
    <3> QED BY <3>1
  <2>2. \A c \in Clients : ret[c] = "none" /\ prog[c] = <<>>
    BY <1>5
  <2> QED BY <1>2, <1>3, <1>4, <1>5, <2>1, <2>2 DEF TypeOK, Results
<1> QED BY <1>6, <1>7, <1>8, <1>9 DEF Typed

\* A step that changes nothing keeps the types.
LEMMA TypedStutter == Typed /\ UNCHANGED vars => Typed'
  BY DEF Typed, TypeOK, vars, Stored

\* Every step keeps the types.
LEMMA TypedNext == Typed /\ [Next]_vars => Typed'
<1> SUFFICES ASSUME Typed, [Next]_vars PROVE Typed'
  OBVIOUS
<1>1. CASE UNCHANGED vars
  BY <1>1, TypedStutter
<1>2. CASE Next
  <2>1. PICK c \in Clients :
          \/ \E op \in Calls, n \in Paths, to \in Paths : Begin(c, op, n, to)
          \/ RequestOf(c)
    BY <1>2 DEF Next, RequestOf
  <2> QED BY <2>1, TypedBegin, TypedRequest
<1> QED BY <1>1, <1>2

\* Types hold throughout.
LEMMA AlwaysTyped == Spec => []Typed
  BY TypedInit, TypedNext, PTL DEF Spec

\* The bucket holds nothing but files that Creates wrote and holders of
\* directories, whatever requests fail and however calls overlap (fs.go).
THEOREM TypeCorrect == Spec => []TypeOK
<1>1. Typed => TypeOK
  BY DEF Typed
<1> QED BY <1>1, AlwaysTyped, PTL

-----------------------------------------------------------------------------
(* No file is lost: what a step makes of a program.                        *)

\* What q has to be to take the place of the first request of c's program.
Follows(c, q) ==
  LET r == Head(prog[c]) IN
  /\ \A i \in DOMAIN q : StaysIn(cur[c], q[i])
  /\ \A i \in DOMAIN q :
       Writes(q[i]) => Writes(r) /\ r.do # "copy" /\ InTree(r.n, q[i].n) /\ InTree(r.to, q[i].to)
  /\ \A i \in DOMAIN q : q[i].do = "remove" =>
       \/ q[i].n \in DOMAIN bucket => bucket[q[i].n] \notin safe
       \/ i = 2 /\ q[1].do = "copy" /\ q[1].n = q[i].n
  /\ q # <<>> /\ (q[1].do = "mvlist" \/ (q[1].do = "rename" /\ q[1].at = "list")) =>
       (q[1].n \in DOMAIN bucket => bucket[q[1].n] \notin safe)
  /\ InOrder(FALSE, q) /\ (Mixed(bucket) \/ InOrder(TRUE, q))

\* The requests of a program that became q and the rest.
LEMMA BecomesIs ==
  ASSUME Typed, NEW c \in Clients, prog[c] # <<>>, NEW q, Becomes(c, q)
  PROVE  LET p == prog[c] rest == Tail(prog[c]) IN
         /\ prog'[c] = q \o rest /\ \A d \in Clients \ {c} : prog'[d] = prog[d]
         /\ DOMAIN prog'[c] \subseteq Nat \ {0} /\ Len(q) \in Nat /\ Len(rest) \in Nat
         /\ DOMAIN q = 1..Len(q) /\ DOMAIN rest = 1..Len(rest)
         /\ \A i \in DOMAIN q : i \in DOMAIN prog'[c] /\ prog'[c][i] = q[i]
         /\ \A i \in DOMAIN rest : i + Len(q) \in DOMAIN prog'[c] /\ prog'[c][i + Len(q)] = rest[i]
         /\ \A i \in DOMAIN rest : i + 1 \in DOMAIN p /\ p[i + 1] = rest[i] /\ Waits(rest[i])
         /\ \A i \in DOMAIN prog'[c] : i \in DOMAIN q \/ i - Len(q) \in DOMAIN rest
<1> DEFINE p == prog[c]
           rest == Tail(p)
           new == q \o rest
<1>1. prog' = [prog EXCEPT ![c] = new] /\ prog \in [Clients -> Seq(Requests(calls))]
  BY BecomesTyped DEF Typed
<1>2. prog'[c] = new /\ \A d \in Clients \ {c} : prog'[d] = prog[d]
  BY <1>1
<1>3. q \in Seq(Requests(calls))
  BY DEF Becomes
<1>4. p \in Seq(Requests(calls)) /\ p # <<>>
  BY <1>1
<1>5. rest \in Seq(Requests(calls)) /\ \A i \in DOMAIN rest : Waits(rest[i])
  BY ProgIs
<1> HIDE DEF p
<1>6. \A i \in DOMAIN rest : i + 1 \in DOMAIN p /\ p[i + 1] = rest[i]
  BY <1>4, FirstAndRest
<1> HIDE DEF rest
<1>7. new \in Seq(Requests(calls)) /\ Len(new) = Len(q) + Len(rest)
  BY <1>3, <1>5, ConcatProperties
<1>8. \A i \in 1..Len(q) + Len(rest) : new[i] = IF i <= Len(q) THEN q[i] ELSE rest[i - Len(q)]
  BY <1>3, <1>5, ConcatProperties
<1> HIDE DEF new
<1>9. /\ Len(q) \in Nat /\ Len(rest) \in Nat /\ DOMAIN q = 1..Len(q) /\ DOMAIN rest = 1..Len(rest)
      /\ DOMAIN new = 1..Len(q) + Len(rest)
  BY <1>3, <1>5, <1>7
<1>10. \A i \in DOMAIN q : i \in DOMAIN new /\ new[i] = q[i]
  BY <1>8, <1>9
<1>11. \A i \in DOMAIN rest : i + Len(q) \in DOMAIN new /\ new[i + Len(q)] = rest[i]
  BY <1>8, <1>9
<1>12. \A i \in DOMAIN new : i \in DOMAIN q \/ i - Len(q) \in DOMAIN rest
  BY <1>9
<1>13. DOMAIN new \subseteq Nat \ {0}
  BY <1>9
<1> QED BY <1>2, <1>5, <1>6, <1>9, <1>10, <1>11, <1>12, <1>13 DEF new, rest, p

\* What is ordered behind a request is ordered behind those that take its place.
LEMMA OrderedBelow ==
  ASSUME NEW n, NEW r \in Requests(n), NEW a \in Requests(n), NEW s \in Requests(n),
         NEW apart \in BOOLEAN, Ordered(apart, r, s),
         Writes(a) => Writes(r) /\ r.do # "copy" /\ InTree(r.n, a.n) /\ InTree(r.to, a.to)
  PROVE  Ordered(apart, a, s)
<1> SUFFICES ASSUME Writes(a) PROVE Ordered(apart, a, s)
  BY DEF Ordered
<1>1. Writes(r) /\ r.do # "copy" /\ InTree(r.n, a.n) /\ InTree(r.to, a.to)
  OBVIOUS
<1>2. /\ r.n \in Path /\ a.n \in Path /\ r.to \in Path /\ a.to \in Path /\ s.to \in Path /\ s.n \in Key
      /\ r.n \in Key /\ a.n \in Key
  BY <1>1, PathIs DEF Requests, Valid, Writes
<1>3. ASSUME s.do = "remove", Last(s.n) # Holder
      PROVE  Under(s.n, a.n)
  <2>1. Under(s.n, r.n)
    BY <1>1, <1>3 DEF Ordered
  <2>2. InTree(r.n, a.n)
    BY <1>1
  <2> DEFINE S == Names \cup {Holder, ""}
  <2>3. r.n \in Seq(S) /\ a.n \in Seq(S) /\ s.n \in Seq(S)
    BY <1>2 DEF Key
  <2> HIDE DEF S
  <2> QED BY <2>1, <2>2, <2>3, UnderTransitive
<1>4. ASSUME apart, Writes(s)
      PROVE  ~InTree(a.to, s.to) /\ ~InTree(s.to, a.to)
  <2>1. ~InTree(r.to, s.to) /\ ~InTree(s.to, r.to)
    BY <1>1, <1>4 DEF Ordered
  <2>2. ~InTree(a.to, s.to)
    BY <1>1, <1>2, <2>1, InTreeTransitive DEF Path
  <2>3. ASSUME InTree(s.to, a.to)
        PROVE  FALSE
    <3>1. Len(s.to) \in Nat /\ Len(r.to) \in Nat
      BY <1>2 DEF Path
    <3>2. CASE Len(s.to) <= Len(r.to)
      BY <1>1, <1>2, <2>1, <2>3, <3>2, InTreeLinear DEF Path
    <3>3. CASE Len(r.to) <= Len(s.to)
      BY <1>1, <1>2, <2>1, <2>3, <3>3, InTreeLinear DEF Path
    <3> QED BY <3>1, <3>2, <3>3
  <2> QED BY <2>2, <2>3
<1> QED BY <1>3, <1>4 DEF Ordered

\* The order of a program whose first request is replaced.
LEMMA OrderFollows ==
  ASSUME Typed, NEW c \in Clients, prog[c] # <<>>, NEW q, Becomes(c, q), NEW apart \in BOOLEAN,
         InOrder(apart, prog[c]), InOrder(apart, q),
         \A i \in DOMAIN q : Writes(q[i]) =>
           LET r == Head(prog[c]) IN
           Writes(r) /\ r.do # "copy" /\ InTree(r.n, q[i].n) /\ InTree(r.to, q[i].to)
  PROVE  InOrder(apart, prog'[c])
<1> DEFINE r == Head(prog[c])
           p == prog[c]
           rest == Tail(prog[c])
           new == prog'[c]
<1>1. /\ Len(q) \in Nat /\ Len(rest) \in Nat /\ DOMAIN q = 1..Len(q) /\ DOMAIN rest = 1..Len(rest)
      /\ DOMAIN new \subseteq Nat \ {0}
  BY BecomesIs
<1>2. \A i \in DOMAIN q : new[i] = q[i]
  BY BecomesIs
<1>3. \A i \in DOMAIN rest : new[i + Len(q)] = rest[i]
  BY BecomesIs
<1>4. \A i \in DOMAIN rest : i + 1 \in DOMAIN p /\ p[i + 1] = rest[i]
  BY BecomesIs
<1>5. \A i \in DOMAIN new : i \in DOMAIN q \/ i - Len(q) \in DOMAIN rest
  BY BecomesIs
<1>6. r \in Requests(calls) /\ r = p[1] /\ 1 \in DOMAIN p /\ rest \in Seq(Requests(calls))
  BY ProgIs
<1>7. q \in Seq(Requests(calls))
  BY DEF Becomes
<1> SUFFICES ASSUME NEW i \in DOMAIN new, NEW j \in DOMAIN new, i < j
             PROVE  Ordered(apart, new[i], new[j])
  BY DEF InOrder
<1> HIDE DEF new, rest, r
<1>8. i \in Nat /\ j \in Nat /\ i >= 1 /\ j >= 1
  BY <1>1
<1>9. CASE i \in DOMAIN q /\ j \in DOMAIN q
  BY <1>2, <1>9 DEF InOrder
<1>10. CASE i \in DOMAIN q /\ j - Len(q) \in DOMAIN rest
  <2> DEFINE m == j - Len(q)
  <2>1. m + Len(q) = j /\ m \in DOMAIN rest /\ m + 1 > 1
    BY <1>1, <1>8, <1>10
  <2> HIDE DEF m
  <2>2. new[i] = q[i] /\ new[j] = rest[m] /\ rest[m] = p[m + 1] /\ m + 1 \in DOMAIN p
    BY <1>2, <1>3, <1>4, <1>10, <2>1
  <2>3. Ordered(apart, r, rest[m])
    BY <1>6, <2>1, <2>2 DEF InOrder
  <2>4. q[i] \in Requests(calls) /\ rest[m] \in Requests(calls)
    BY <1>1, <1>6, <1>7, <1>10, <2>1, ElementOfSeq
  <2>5. Writes(q[i]) => Writes(r) /\ r.do # "copy" /\ InTree(r.n, q[i].n) /\ InTree(r.to, q[i].to)
    BY <1>10 DEF r
  <2> QED BY <1>6, <2>2, <2>3, <2>4, <2>5, OrderedBelow
<1>11. CASE i - Len(q) \in DOMAIN rest /\ j - Len(q) \in DOMAIN rest
  <2> DEFINE l == i - Len(q)
             m == j - Len(q)
  <2>1. /\ l + Len(q) = i /\ l \in DOMAIN rest /\ m + Len(q) = j /\ m \in DOMAIN rest
        /\ l + 1 < m + 1
    BY <1>1, <1>8, <1>11
  <2> HIDE DEF l, m
  <2>2. /\ new[i] = rest[l] /\ rest[l] = p[l + 1] /\ l + 1 \in DOMAIN p
        /\ new[j] = rest[m] /\ rest[m] = p[m + 1] /\ m + 1 \in DOMAIN p
    BY <1>3, <1>4, <2>1
  <2> QED BY <2>1, <2>2 DEF InOrder
<1>12. CASE i - Len(q) \in DOMAIN rest /\ j \in DOMAIN q
  BY <1>1, <1>8, <1>12
<1> QED BY <1>5, <1>9, <1>10, <1>11, <1>12

\* What is left of a program that goes on behind its first request, or stops.
LEMMA ShorterIs ==
  ASSUME Typed, NEW c \in Clients, prog[c] # <<>>, Becomes(c, <<>>) \/ Stops(c)
  PROVE  /\ \A d \in Clients \ {c} : prog'[d] = prog[d]
         /\ DOMAIN prog'[c] \subseteq Nat \ {0}
         /\ \A i \in DOMAIN prog'[c] :
              i + 1 \in DOMAIN prog[c] /\ prog'[c][i] = prog[c][i + 1] /\ Waits(prog'[c][i])
         /\ prog'[c] # <<>> => 1 \in DOMAIN prog'[c] /\ Head(prog'[c]) = prog'[c][1]
<1>1. CASE Becomes(c, <<>>)
  <2> DEFINE rest == Tail(prog[c])
             new == prog'[c]
  <2>1. /\ new = <<>> \o rest /\ \A d \in Clients \ {c} : prog'[d] = prog[d]
        /\ DOMAIN new \subseteq Nat \ {0}
        /\ \A i \in DOMAIN rest : i + 1 \in DOMAIN prog[c] /\ prog[c][i + 1] = rest[i] /\ Waits(rest[i])
    BY <1>1, BecomesIs
  <2>2. rest \in Seq(Requests(calls))
    BY ProgIs
  <2> HIDE DEF rest, new
  <2>3. new = rest
    BY <2>1, <2>2, ConcatEmptySeq
  <2>4. \A i \in DOMAIN new :
          i + 1 \in DOMAIN prog[c] /\ new[i] = prog[c][i + 1] /\ Waits(new[i])
    BY <2>1, <2>3
  <2>5. new # <<>> => 1 \in DOMAIN new /\ Head(new) = new[1]
    BY <2>2, <2>3, FirstAndRest
  <2> QED BY <2>1, <2>4, <2>5 DEF new
<1>2. CASE Stops(c)
  <2>1. prog' = [prog EXCEPT ![c] = <<>>] /\ prog \in [Clients -> Seq(Requests(calls))]
    BY <1>2 DEF Stops, Continue, Return, Typed
  <2>2. prog'[c] = <<>> /\ \A d \in Clients \ {c} : prog'[d] = prog[d]
    BY <2>1
  <2>3. DOMAIN <<>> = {}
    OBVIOUS
  <2> QED BY <2>2, <2>3
<1> QED BY <1>1, <1>2

\* What is shorter stays as it should be.
LEMMA ShorterKeeps ==
  ASSUME Typed, NEW c \in Clients, prog[c] # <<>>, UNCHANGED cur,
         Becomes(c, <<>>) \/ Stops(c), Within(c)
  PROVE  /\ Within(c)' /\ DirFound(c)'
         /\ prog'[c] # <<>> => cur[c].op \in {"Rename", "RemoveAll"}
         /\ \A apart \in BOOLEAN : InOrder(apart, prog[c]) => InOrder(apart, prog'[c])
         /\ \A k : WillWrite(c, k)' => WillWrite(c, k)
         /\ \A k : WillRemove(c, k)' =>
              \/ WillRemove(c, k)
              \/ /\ Head(prog[c]).do = "copy" /\ Head(prog[c]).n = k
                 /\ \E j \in DOMAIN prog[c] : 1 < j /\ prog[c][j].do = "remove" /\ prog[c][j].n = k
<1> DEFINE p == prog[c]
           new == prog'[c]
<1>1. /\ DOMAIN new \subseteq Nat \ {0}
      /\ \A i \in DOMAIN new : i + 1 \in DOMAIN p /\ new[i] = p[i + 1] /\ Waits(new[i])
      /\ new # <<>> => 1 \in DOMAIN new /\ Head(new) = new[1]
  BY ShorterIs
<1>2. Head(p) = p[1] /\ 1 \in DOMAIN p
  BY ProgIs
<1>3. Within(c)'
  BY <1>1 DEF Within
<1>4. DirFound(c)'
  BY <1>1 DEF DirFound, Waits
<1>5. new # <<>> => cur[c].op \in {"Rename", "RemoveAll"}
  <2> SUFFICES ASSUME new # <<>> PROVE cur[c].op \in {"Rename", "RemoveAll"}
    OBVIOUS
  <2>1. StaysIn(cur[c], new[1]) /\ new[1].do \in {"rename", "remove", "rmall"}
    BY <1>1, <1>3 DEF Within, Waits
  <2> QED BY <2>1 DEF StaysIn, Makers
<1> HIDE DEF p, new
<1>6. ASSUME NEW apart \in BOOLEAN, InOrder(apart, p)
      PROVE  InOrder(apart, new)
  <2> SUFFICES ASSUME NEW i \in DOMAIN new, NEW j \in DOMAIN new, i < j
               PROVE  Ordered(apart, new[i], new[j])
    BY DEF InOrder
  <2>1. i + 1 < j + 1
    BY <1>1
  <2> QED BY <1>1, <1>6, <2>1 DEF InOrder
<1>7. \A k : WillWrite(c, k)' => WillWrite(c, k)
  BY <1>1 DEF WillWrite, p, new
<1>8. ASSUME NEW k, WillRemove(c, k)'
      PROVE  \/ WillRemove(c, k)
             \/ /\ Head(p).do = "copy" /\ Head(p).n = k
                /\ \E j \in DOMAIN p : 1 < j /\ p[j].do = "remove" /\ p[j].n = k
  <2>1. PICK i \in DOMAIN new : new[i].do = "remove" /\ new[i].n = k
    BY <1>8 DEF WillRemove, new
  <2> DEFINE j == i + 1
  <2>2. j \in DOMAIN p /\ p[j].do = "remove" /\ p[j].n = k /\ 1 < j
    BY <1>1, <2>1
  <2> HIDE DEF j
  <2> QED BY <1>2, <2>2 DEF WillRemove, p
<1> QED BY <1>3, <1>4, <1>5, <1>6, <1>7, <1>8 DEF p, new

\* The parts of the invariant that are about a client.
Sound(c) == Within(c) /\ Fresh(c) /\ Unreplaced(c) /\ DirFound(c) /\ Tidy(c)

\* A step that leaves the bucket alone keeps what it keeps of c's program.
LEMMA QuietKeeps ==
  ASSUME SafeInv, NEW c \in Clients, prog[c] # <<>>, UNCHANGED <<bucket, safe, cur>>,
         \A d \in Clients \ {c} : prog'[d] = prog[d],
         Within(c)', Unreplaced(c)', DirFound(c)', Tidy(c)',
         \A k \in DOMAIN bucket : bucket[k] \in safe /\ WillRemove(c, k)' => WillRemove(c, k)
  PROVE  /\ \A d \in Clients : Sound(d)'
         /\ Mixed(bucket') => safe' = {}
         /\ \A v \in safe' : Harboured(v)'
<1>1. \A d \in Clients : Fresh(d)'
  <2> SUFFICES ASSUME NEW d \in Clients PROVE Fresh(d)'
    OBVIOUS
  <2>1. \A e \in Clients : prog'[e] # <<>> => prog[e] # <<>>
    OBVIOUS
  <2>2. Fresh(d)
    BY DEF SafeInv
  <2> QED BY <2>1, <2>2 DEF Fresh
<1>2. \A d \in Clients \ {c} : Within(d)' /\ Unreplaced(d)' /\ DirFound(d)' /\ Tidy(d)'
  <2> SUFFICES ASSUME NEW d \in Clients \ {c}
               PROVE  Within(d)' /\ Unreplaced(d)' /\ DirFound(d)' /\ Tidy(d)'
    OBVIOUS
  <2>1. Within(d) /\ Unreplaced(d) /\ DirFound(d) /\ Tidy(d)
    BY DEF SafeInv
  <2>2. prog'[d] = prog[d]
    OBVIOUS
  <2>3. Within(d)'
    BY <2>1, <2>2 DEF Within
  <2>4. Unreplaced(d)'
    BY <2>1, <2>2 DEF Unreplaced, WillWrite
  <2>5. DirFound(d)'
    BY <2>1, <2>2 DEF DirFound
  <2>6. Tidy(d)'
    BY <2>1, <2>2 DEF Tidy
  <2> QED BY <2>3, <2>4, <2>5, <2>6
<1>3. \A d \in Clients : Sound(d)'
  BY <1>1, <1>2 DEF Sound
<1>4. Mixed(bucket') => safe' = {}
  BY DEF SafeInv
<1>5. ASSUME NEW v \in safe
      PROVE  Harboured(v)'
  <2>1. PICK k \in DOMAIN bucket : bucket[k] = v /\ \A d \in Clients : ~WillRemove(d, k)
    BY DEF SafeInv, Harboured
  <2>2. \A d \in Clients \ {c} : ~WillRemove(d, k)'
    BY <2>1 DEF WillRemove
  <2>3. ~WillRemove(c, k)'
    BY <2>1
  <2> QED BY <2>1, <2>2, <2>3 DEF Harboured
<1> QED BY <1>3, <1>4, <1>5

\* A program whose order keeps what it writes apart is in order.
LEMMA ApartInOrder == \A p : InOrder(TRUE, p) => InOrder(FALSE, p)
  BY DEF InOrder, Ordered

\* What takes the place of a request writes nowhere else.
LEMMA WritesLess ==
  ASSUME SafeInv, NEW c \in Clients, prog[c] # <<>>, NEW q, Becomes(c, q), Follows(c, q),
         NEW k \in DOMAIN bucket, WillWrite(c, k)'
  PROVE  WillWrite(c, k)
<1> DEFINE r == Head(prog[c])
           p == prog[c]
           rest == Tail(prog[c])
           new == prog'[c]
<1>1. Typed
  BY DEF SafeInv
<1>2. /\ \A i \in DOMAIN q : new[i] = q[i]
      /\ \A i \in DOMAIN rest : new[i + Len(q)] = rest[i]
      /\ \A i \in DOMAIN rest : i + 1 \in DOMAIN p /\ p[i + 1] = rest[i]
      /\ \A i \in DOMAIN new : i \in DOMAIN q \/ i - Len(q) \in DOMAIN rest
      /\ DOMAIN new \subseteq Nat \ {0} /\ Len(q) \in Nat
  BY <1>1, BecomesIs
<1>3. r = p[1] /\ 1 \in DOMAIN p /\ r \in Requests(calls) /\ Stored(bucket, calls)
  BY <1>1, ProgIs
<1>4. PICK i \in DOMAIN new :
        Writes(new[i]) /\ (IF new[i].do = "copy" THEN new[i].to = k ELSE InTree(new[i].to, k))
  BY DEF WillWrite
<1> HIDE DEF new, rest, r
<1>5. CASE i \in DOMAIN q
  <2>1. /\ Writes(q[i])
        /\ IF q[i].do = "copy" THEN q[i].to = k ELSE InTree(q[i].to, k)
    BY <1>2, <1>4, <1>5
  <2>2. Writes(r) /\ r.do # "copy" /\ InTree(r.to, q[i].to)
    BY <1>5, <2>1 DEF Follows, r
  <2>3. q[i] \in Requests(calls)
    BY <1>5, ElementOfSeq DEF Becomes
  <2> DEFINE S == Names \cup {Holder}
  <2>4. q[i].to \in Seq(S) /\ r.to \in Seq(S) /\ k \in Seq(S)
    <3>1. q[i].to \in Path /\ r.to \in Path
      BY <1>3, <2>3 DEF Requests
    <3> QED BY <1>3, <3>1, PathIs DEF Stored
  <2>5. InTree(r.to, k)
    <3>1. CASE q[i].do = "copy"
      BY <2>1, <2>2, <3>1
    <3>2. CASE q[i].do # "copy"
      <4>1. InTree(q[i].to, k)
        BY <2>1, <3>2
      <4> HIDE DEF S
      <4> QED BY <2>2, <2>4, <4>1, InTreeTransitive
    <3> QED BY <3>1, <3>2
  <2> QED BY <1>3, <2>2, <2>5 DEF WillWrite
<1>6. CASE i - Len(q) \in DOMAIN rest
  <2> DEFINE m == i - Len(q)
  <2>1. m + Len(q) = i /\ m \in DOMAIN rest
    BY <1>2, <1>6
  <2> HIDE DEF m
  <2>2. new[i] = p[m + 1] /\ m + 1 \in DOMAIN p
    BY <1>2, <2>1
  <2> DEFINE n == m + 1
  <2> HIDE DEF n
  <2>3. n \in DOMAIN p /\ Writes(p[n]) /\ (IF p[n].do = "copy" THEN p[n].to = k ELSE InTree(p[n].to, k))
    BY <1>4, <2>2 DEF n
  <2> QED BY <2>3 DEF WillWrite
<1> QED BY <1>2, <1>5, <1>6

\* What takes the place of a request removes nothing more that is safe.
LEMMA RemovesLess ==
  ASSUME SafeInv, NEW c \in Clients, prog[c] # <<>>, NEW q, Becomes(c, q), Follows(c, q),
         Head(prog[c]).do # "copy",
         NEW k \in DOMAIN bucket, bucket[k] \in safe, WillRemove(c, k)'
  PROVE  WillRemove(c, k)
<1> DEFINE r == Head(prog[c])
           p == prog[c]
           rest == Tail(prog[c])
           new == prog'[c]
<1>1. Typed
  BY DEF SafeInv
<1>2. /\ \A i \in DOMAIN q : new[i] = q[i]
      /\ \A i \in DOMAIN rest : new[i + Len(q)] = rest[i]
      /\ \A i \in DOMAIN rest : i + 1 \in DOMAIN p /\ p[i + 1] = rest[i]
      /\ \A i \in DOMAIN new : i \in DOMAIN q \/ i - Len(q) \in DOMAIN rest
      /\ DOMAIN new \subseteq Nat \ {0} /\ Len(q) \in Nat /\ DOMAIN q = 1..Len(q)
  BY <1>1, BecomesIs
<1>3. r = p[1] /\ 1 \in DOMAIN p
  BY <1>1, ProgIs
<1>4. PICK i \in DOMAIN new :
        /\ new[i].do = "remove" /\ new[i].n = k
        /\ ~(i = 2 /\ new[1].do = "copy" /\ new[1].n = k)
  BY DEF WillRemove
<1> HIDE DEF new, rest
<1>5. CASE i \in DOMAIN q
  <2>1. 1 \in DOMAIN q
    BY <1>2, <1>5
  <2>2. q[i].do = "remove" /\ q[i].n = k /\ ~(i = 2 /\ q[1].do = "copy" /\ q[1].n = q[i].n)
    BY <1>2, <1>4, <1>5, <2>1
  <2> QED BY <1>5, <2>2 DEF Follows
<1>6. CASE i - Len(q) \in DOMAIN rest
  <2> DEFINE m == i - Len(q)
  <2>1. m + Len(q) = i /\ m \in DOMAIN rest
    BY <1>2, <1>6
  <2> HIDE DEF m
  <2>2. new[i] = p[m + 1] /\ m + 1 \in DOMAIN p
    BY <1>2, <2>1
  <2> DEFINE n == m + 1
  <2> HIDE DEF n
  <2>3. n \in DOMAIN p /\ p[n].do = "remove" /\ p[n].n = k /\ p[1].do # "copy"
    BY <1>3, <1>4, <2>2 DEF n
  <2> QED BY <2>3 DEF WillRemove
<1> QED BY <1>2, <1>5, <1>6

\* A step that leaves the bucket alone keeps the invariant if the requests it
\* puts in the place of the first may follow.
LEMMA FollowsKeeps ==
  ASSUME SafeInv, NEW c \in Clients, prog[c] # <<>>, UNCHANGED <<bucket, safe, cur>>,
         Head(prog[c]).do # "copy", NEW q, Becomes(c, q), Follows(c, q)
  PROVE  /\ \A d \in Clients : Sound(d)'
         /\ Mixed(bucket') => safe' = {}
         /\ \A v \in safe' : Harboured(v)'
<1> DEFINE r == Head(prog[c])
           p == prog[c]
           rest == Tail(prog[c])
           new == prog'[c]
<1>1. Typed /\ Within(c) /\ Unreplaced(c) /\ Tidy(c) /\ (Mixed(bucket) => safe = {})
  BY DEF SafeInv
<1>2. /\ \A i \in DOMAIN q : new[i] = q[i]
      /\ \A i \in DOMAIN rest : new[i + Len(q)] = rest[i]
      /\ \A i \in DOMAIN rest : i + 1 \in DOMAIN p /\ p[i + 1] = rest[i] /\ Waits(rest[i])
      /\ \A i \in DOMAIN new : i \in DOMAIN q \/ i - Len(q) \in DOMAIN rest
      /\ DOMAIN new \subseteq Nat \ {0} /\ Len(q) \in Nat /\ DOMAIN q = 1..Len(q)
  BY <1>1, BecomesIs
<1>3. \A d \in Clients \ {c} : prog'[d] = prog[d]
  BY <1>1, BecomesIs
<1>4. Within(c)'
  <2> SUFFICES ASSUME NEW i \in DOMAIN new PROVE StaysIn(cur[c], new[i])
    BY DEF Within
  <2> HIDE DEF new, rest, p
  <2>1. CASE i \in DOMAIN q
    BY <1>2, <2>1 DEF Follows
  <2>2. CASE i - Len(q) \in DOMAIN rest
    <3> DEFINE m == i - Len(q)
    <3>1. m + Len(q) = i /\ m \in DOMAIN rest
      BY <1>2, <2>2
    <3> HIDE DEF m
    <3>2. new[i] = p[m + 1] /\ m + 1 \in DOMAIN p
      BY <1>2, <3>1
    <3> QED BY <1>1, <3>2 DEF Within, p
  <2> QED BY <1>2, <2>1, <2>2
<1>5. Unreplaced(c)'
  <2> SUFFICES ASSUME NEW k \in DOMAIN bucket, Replaces(cur[c], k), bucket[k] \in safe
               PROVE  cur[c].op = "Rename" /\ ~WillWrite(c, k)'
    BY DEF Unreplaced
  <2>1. cur[c].op = "Rename" /\ ~WillWrite(c, k)
    BY <1>1 DEF Unreplaced
  <2>2. WillWrite(c, k)' => WillWrite(c, k)
    BY WritesLess
  <2> QED BY <2>1, <2>2
<1>6. DirFound(c)'
  <2> SUFFICES ASSUME new # <<>>
               PROVE  LET s == Head(new) IN
                      s.do = "mvlist" \/ (s.do = "rename" /\ s.at = "list") =>
                        (s.n \in DOMAIN bucket => bucket[s.n] \notin safe)
    BY DEF DirFound
  <2>1. new = q \o rest /\ q \in Seq(Requests(calls)) /\ rest \in Seq(Requests(calls))
    BY <1>1, BecomesIs, ProgIs DEF Becomes
  <2> HIDE DEF rest, new
  <2>2. new \in Seq(Requests(calls))
    BY <2>1, ConcatProperties
  <2>3. Head(new) = new[1] /\ 1 \in DOMAIN new
    BY <2>2, FirstAndRest
  <2>4. CASE 1 \in DOMAIN q
    <3>1. Head(new) = q[1] /\ q # <<>>
      BY <1>2, <2>3, <2>4
    <3> QED BY <3>1 DEF Follows
  <2>5. CASE 1 \notin DOMAIN q
    <3>1. 1 - Len(q) \in DOMAIN rest
      BY <1>2, <2>3, <2>5
    <3>2. Len(q) = 0
      BY <1>2, <2>5
    <3>3. 1 \in DOMAIN rest /\ new[1] = rest[1]
      <4>1. 1 - Len(q) = 1 /\ 1 + Len(q) = 1
        BY <3>2
      <4> QED BY <1>2, <3>1, <4>1
    <3>4. Waits(new[1])
      BY <1>2, <3>3
    <3> QED BY <2>3, <3>4 DEF Waits
  <2> QED BY <2>4, <2>5
<1>7. Tidy(c)'
  <2>1. \A apart \in BOOLEAN : InOrder(apart, p) /\ InOrder(apart, q) => InOrder(apart, new)
    <3>1. \A i \in DOMAIN q : Writes(q[i]) =>
            Writes(r) /\ r.do # "copy" /\ InTree(r.n, q[i].n) /\ InTree(r.to, q[i].to)
      BY DEF Follows
    <3> QED BY <1>1, <3>1, OrderFollows
  <2>2. InOrder(FALSE, p)
    BY <1>1, ApartInOrder DEF Tidy
  <2>3. InOrder(FALSE, q) /\ (Mixed(bucket) \/ InOrder(TRUE, q))
    BY DEF Follows
  <2> HIDE DEF p, new
  <2>4. InOrder(FALSE, new)
    BY <2>1, <2>2, <2>3
  <2>5. CASE Mixed(bucket)
    <3>1. safe' = {} /\ InOrder(FALSE, prog'[c])
      BY <1>1, <2>4, <2>5 DEF new
    <3> QED BY <3>1 DEF Tidy
  <2>6. CASE InOrder(TRUE, p) /\ InOrder(TRUE, q)
    <3>1. InOrder(TRUE, prog'[c])
      BY <2>1, <2>6 DEF new
    <3> QED BY <3>1 DEF Tidy
  <2>7. CASE ~InOrder(TRUE, p)
    <3>1. \A k \in DOMAIN bucket : InTree(cur[c].n, k) => bucket[k] \notin safe
      BY <1>1, <2>7 DEF Tidy, p
    <3>2. InOrder(FALSE, prog'[c])
      BY <2>4 DEF new
    <3> QED BY <3>1, <3>2 DEF Tidy
  <2> QED BY <2>3, <2>5, <2>6, <2>7
<1>8. \A k \in DOMAIN bucket : bucket[k] \in safe /\ WillRemove(c, k)' => WillRemove(c, k)
  BY RemovesLess
<1> QED BY <1>3, <1>4, <1>5, <1>6, <1>7, <1>8, QuietKeeps

\* A call may stop.
LEMMA StopsKeeps ==
  ASSUME SafeInv, NEW c \in Clients, prog[c] # <<>>, UNCHANGED <<bucket, safe, cur>>, Stops(c)
  PROVE  /\ \A d \in Clients : Sound(d)'
         /\ Mixed(bucket') => safe' = {}
         /\ \A v \in safe' : Harboured(v)'
<1>1. prog' = [prog EXCEPT ![c] = <<>>] /\ prog \in [Clients -> Seq(Requests(calls))]
  BY DEF Stops, Continue, Return, SafeInv, Typed
<1>2. prog'[c] = <<>> /\ DOMAIN prog'[c] = {} /\ \A d \in Clients \ {c} : prog'[d] = prog[d]
  <2>1. DOMAIN <<>> = {}
    OBVIOUS
  <2> QED BY <1>1, <2>1
<1>3. Within(c)' /\ Unreplaced(c)' /\ DirFound(c)' /\ InOrder(TRUE, prog'[c])
  BY <1>2 DEF Within, Unreplaced, DirFound, InOrder
<1>4. Tidy(c)'
  BY <1>3 DEF Tidy
<1>5. \A k : ~WillRemove(c, k)'
  BY <1>2 DEF WillRemove
<1> QED BY <1>2, <1>3, <1>4, <1>5, QuietKeeps

-----------------------------------------------------------------------------
(* No file is lost: steps that leave the bucket alone.                     *)

\* One request takes the place of the first.
LEMMA OneFollows ==
  ASSUME NEW c \in Clients, NEW x, StaysIn(cur[c], x), x.do # "remove",
         LET r == Head(prog[c]) IN
         Writes(x) => Writes(r) /\ r.do # "copy" /\ InTree(r.n, x.n) /\ InTree(r.to, x.to),
         x.do = "mvlist" \/ (x.do = "rename" /\ x.at = "list") =>
           (x.n \in DOMAIN bucket => bucket[x.n] \notin safe)
  PROVE  Follows(c, <<x>>)
<1> DEFINE q == <<x>>
<1>1. DOMAIN q = {1} /\ q[1] = x
  OBVIOUS
<1> HIDE DEF q
<1>2. \A apart : InOrder(apart, q)
  BY <1>1 DEF InOrder
<1>3. Follows(c, q)
  BY <1>1, <1>2 DEF Follows
<1> QED BY <1>3 DEF q

\* Nothing takes its place.
LEMMA NoneFollows == \A c : Follows(c, <<>>)
<1>1. DOMAIN <<>> = {}
  OBVIOUS
<1> DEFINE q == <<>>
<1>2. DOMAIN q = {} /\ ~(q # <<>>)
  BY <1>1
<1> HIDE DEF q
<1>3. \A c : Follows(c, q)
  BY <1>2 DEF Follows, InOrder
<1> QED BY <1>3 DEF q

\* The second request of a Stat.
LEMMA AskFollows ==
  ASSUME SafeInv, NEW c \in Clients, Frame(c), Asks(c)
  PROVE  Follows(c, <<[Head(prog[c]) EXCEPT !.at = "list"]>>)
<1> DEFINE r == Head(prog[c])
           q == [r EXCEPT !.at = "list"]
<1>1. Typed /\ prog[c] # <<>> /\ Within(c)
  BY DEF SafeInv, Frame
<1>2. /\ q.do = r.do /\ q.n = r.n /\ q.to = r.to /\ q.v = r.v /\ q.at = "list"
      /\ r.do \in StatKinds /\ (r.do # "opendir" => StatName(r) \notin DOMAIN bucket)
  BY <1>1, AsksIs
<1>3. r \in Requests(calls) /\ r = prog[c][1] /\ 1 \in DOMAIN prog[c]
  BY <1>1, ProgIs
<1> HIDE DEF q, r
<1>4. StaysIn(cur[c], r)
  BY <1>1, <1>3 DEF Within
<1>5. StaysIn(cur[c], q)
  BY <1>2, <1>4 DEF StaysIn, Writes
<1>6. Writes(q) => Writes(r) /\ r.do # "copy" /\ InTree(r.n, q.n) /\ InTree(r.to, q.to)
  <2> SUFFICES ASSUME Writes(q)
               PROVE  Writes(r) /\ r.do # "copy" /\ InTree(r.n, q.n) /\ InTree(r.to, q.to)
    OBVIOUS
  <2>1. r.do = "rename"
    BY <1>2 DEF Writes, StatKinds
  <2>2. r.n \in Path /\ r.to \in Path
    BY <1>3, <2>1 DEF Requests, Valid
  <2>3. InTree(r.n, r.n) /\ InTree(r.to, r.to)
    BY <2>2, InOwnTree DEF Path
  <2> QED BY <1>2, <2>1, <2>3 DEF Writes
<1>7. q.do # "remove" /\ q.do # "mvlist"
  BY <1>2 DEF StatKinds
<1>8. q.do = "rename" => q.n \notin DOMAIN bucket
  BY <1>2 DEF StatName
<1>9. Follows(c, <<q>>)
  BY <1>5, <1>6, <1>7, <1>8, OneFollows DEF r
<1> QED BY <1>9 DEF q, r

\* The request that takes the place of a Stat.
LEMMA TurnFollows ==
  ASSUME SafeInv, NEW c \in Clients, prog[c] # <<>>, NEW what, Told(c, what),
         NEW q, Turn(Head(prog[c]), what, q)
  PROVE  Follows(c, <<q>>)
<1> DEFINE r == Head(prog[c])
<1>1. Typed /\ Within(c) /\ DirFound(c)
  BY DEF SafeInv
<1>2. r \in Requests(calls) /\ r = prog[c][1] /\ 1 \in DOMAIN prog[c]
  BY <1>1, ProgIs
<1>3. Turn(r, what, q) /\ (r.do = "rename" /\ what = "dir" /\ r.n # <<>> => r.at = "list")
  BY DEF Told
<1>4. DirFound(c) <=> (r.do = "mvlist" \/ (r.do = "rename" /\ r.at = "list") =>
                         (r.n \in DOMAIN bucket => bucket[r.n] \notin safe))
  BY DEF DirFound
<1> HIDE DEF r
<1>5. StaysIn(cur[c], r)
  BY <1>1, <1>2 DEF Within
<1>6. CASE r.do \in {"mkdir", "opendir", "mkparent"}
  <2>1. q.do \in {"opendir", "mkparent", "put"} /\ (q.do = "put" => q.v = 0)
    <3>1. \A x : Then(r, x).do = x
      BY <1>2 DEF Then, Requests
    <3>2. \A k : PutObject(k, 0).do = "put" /\ PutObject(k, 0).v = 0
      BY DEF PutObject, Request
    <3> QED BY <1>3, <1>6, <3>1, <3>2 DEF Turn
  <2>2. StaysIn(cur[c], q)
    BY <1>5, <1>6, <2>1 DEF StaysIn, Makers, Writes
  <2>3. ~Writes(q) /\ q.do \notin {"remove", "mvlist", "rename"}
    BY <2>1 DEF Writes
  <2> QED BY <2>2, <2>3, OneFollows
<1>7. CASE r.do = "rename"
  <2>1. q = Then(r, "mvlist") /\ what = "dir" /\ r.n # <<>>
    BY <1>3, <1>7 DEF Turn
  <2>2. q.do = "mvlist" /\ q.n = r.n /\ q.to = r.to /\ q.v = r.v
    BY <1>2, <2>1 DEF Then, Requests
  <2>3. r.n \in DOMAIN bucket => bucket[r.n] \notin safe
    BY <1>1, <1>3, <1>4, <1>7, <2>1
  <2>4. StaysIn(cur[c], q)
    BY <1>5, <1>7, <2>2 DEF StaysIn, Makers, Writes
  <2>5. r.n \in Path /\ r.to \in Path
    BY <1>2, <1>7 DEF Requests, Valid
  <2>6. InTree(r.n, q.n) /\ InTree(r.to, q.to)
    BY <2>2, <2>5, InOwnTree DEF Path
  <2>7. Writes(r) /\ r.do # "copy"
    BY <1>7 DEF Writes
  <2> QED BY <2>2, <2>3, <2>4, <2>6, <2>7, OneFollows DEF r
<1>8. CASE r.do = "parent"
  <2>1. q = PutObject(r.n, r.v)
    BY <1>3, <1>8 DEF Turn
  <2>2. q.do = "put" /\ q.n = r.n /\ q.v = r.v
    BY <2>1 DEF PutObject, Request
  <2>3. StaysIn(cur[c], q)
    BY <1>5, <1>8, <2>2 DEF StaysIn, Makers, Writes
  <2>4. ~Writes(q) /\ q.do \notin {"remove", "mvlist", "rename"}
    BY <2>2 DEF Writes
  <2> QED BY <2>3, <2>4, OneFollows
<1> QED BY <1>3, <1>6, <1>7, <1>8 DEF Turn

\* The copy and the remove of a file that is renamed.
LEMMA FileFollows ==
  ASSUME SafeInv, NEW c \in Clients, prog[c] # <<>>, Head(prog[c]).do = "rename"
  PROVE  LET r == Head(prog[c]) IN Follows(c, <<CopyObject(r.n, r.to), RemoveObject(r.n)>>)
<1> DEFINE r == Head(prog[c])
           x == CopyObject(r.n, r.to)
           y == RemoveObject(r.n)
           q == <<x, y>>
<1>1. Typed /\ Within(c)
  BY DEF SafeInv
<1>2. r \in Requests(calls) /\ r = prog[c][1] /\ 1 \in DOMAIN prog[c]
  BY <1>1, ProgIs
<1>3. StaysIn(cur[c], r)
  BY <1>1, <1>2 DEF Within
<1>4. r.n \in Path /\ r.to \in Path
  BY <1>2 DEF Requests, Valid
<1>5. InTree(r.n, r.n) /\ InTree(r.to, r.to)
  BY <1>4, InOwnTree DEF Path
<1>6. DOMAIN q = {1, 2} /\ q[1] = x /\ q[2] = y
  OBVIOUS
<1>7. /\ x.do = "copy" /\ x.n = r.n /\ x.to = r.to
      /\ y.do = "remove" /\ y.n = r.n
  BY DEF CopyObject, RemoveObject, Request
<1> HIDE DEF q, x, y
<1>8. StaysIn(cur[c], x) /\ StaysIn(cur[c], y)
  BY <1>3, <1>7 DEF StaysIn, Makers, Writes
<1>9. Writes(r) /\ ~Writes(y)
  BY <1>7 DEF Writes
<1>10. \A apart : InOrder(apart, q)
  <2>1. \A apart : Ordered(apart, x, y)
    BY <1>7, <1>9 DEF Ordered
  <2> SUFFICES ASSUME NEW apart, NEW i \in DOMAIN q, NEW j \in DOMAIN q, i < j
               PROVE  Ordered(apart, q[i], q[j])
    BY DEF InOrder
  <2>2. i = 1 /\ j = 2
    BY <1>6
  <2> QED BY <1>6, <2>1, <2>2
<1>11. \A i \in DOMAIN q : StaysIn(cur[c], q[i])
  BY <1>6, <1>8
<1>12. \A i \in DOMAIN q :
         Writes(q[i]) => Writes(r) /\ r.do # "copy" /\ InTree(r.n, q[i].n) /\ InTree(r.to, q[i].to)
  BY <1>5, <1>6, <1>7, <1>9
<1>13. \A i \in DOMAIN q : q[i].do = "remove" => i = 2 /\ q[1].do = "copy" /\ q[1].n = q[i].n
  BY <1>6, <1>7
<1>14. q[1].do # "mvlist" /\ q[1].do # "rename"
  BY <1>6, <1>7
<1>15. Follows(c, q)
  BY <1>10, <1>11, <1>12, <1>13, <1>14 DEF Follows
<1> QED BY <1>15 DEF q, x, y

\* Places for different entries of one directory are apart.
LEMMA ApartEntries ==
  ASSUME NEW to \in Path, NEW p \in Path, NEW q \in Path, p # <<>>, q # <<>>,
         Parent(p) = Parent(q), p # q
  PROVE  /\ ~InTree(Append(to, Last(p)), Append(to, Last(q)))
         /\ ~InTree(Append(to, Last(q)), Append(to, Last(p)))
<1> DEFINE x == Last(p)
           y == Last(q)
           tx == Append(to, x)
           ty == Append(to, y)
<1>1. x \in Names /\ y \in Names
  BY PathIs
<1>2. x # y
  <2>1. p = Append(Parent(p), x) /\ q = Append(Parent(q), y)
    BY ParentIs DEF Path
  <2> HIDE DEF x, y
  <2> QED BY <2>1
<1> HIDE DEF x, y
<1>3. /\ tx \in Path /\ Len(tx) = Len(to) + 1 /\ Last(tx) = x
      /\ ty \in Path /\ Len(ty) = Len(to) + 1 /\ Last(ty) = y
  BY <1>1, AppendIs DEF Path
<1> HIDE DEF tx, ty
<1>4. tx # ty
  BY <1>2, <1>3
<1>5. Len(to) \in Nat
  BY DEF Path
<1>6. ASSUME NEW u \in Path, NEW v \in Path, Len(u) = Len(v), InTree(u, v)
      PROVE  u = v
  <2>1. \A i \in 1..Len(u) : u[i] = v[i]
    BY <1>6, InTreeElements DEF Path
  <2> QED BY <1>6, <2>1, SeqEqual DEF Path
<1>7. ~InTree(tx, ty) /\ ~InTree(ty, tx)
  <2>1. Len(tx) = Len(ty)
    BY <1>3
  <2> QED BY <1>3, <1>4, <1>6, <2>1
<1> QED BY <1>7 DEF tx, ty, x, y

\* What Rename makes of a listing.
LEMMA MovesFollow ==
  ASSUME SafeInv, NEW c \in Clients, prog[c] # <<>>, Head(prog[c]).do = "mvlist"
  PROVE  Follows(c, Moves(Head(prog[c]), bucket))
<1> DEFINE r == Head(prog[c])
           q == Moves(r, bucket)
           e == Entries(bucket, r.n)
           E == FilesIn(bucket, r.n) \cup DirsIn(bucket, r.n)
<1>1. Typed /\ Within(c) /\ DirFound(c) /\ safe \subseteq 1..calls
  BY DEF SafeInv, Typed, TypeOK
<1>2. /\ r \in Requests(calls) /\ r = prog[c][1] /\ 1 \in DOMAIN prog[c]
      /\ Stored(bucket, calls) /\ calls \in Nat
  BY <1>1, ProgIs
<1>3. r.n \in DOMAIN bucket => bucket[r.n] \notin safe
  BY <1>1 DEF DirFound
<1>4. /\ Len(e) \in Nat /\ DOMAIN q = 1..Len(e) + 3
      /\ q[1] = Request("mkdir", r.to, <<>>, 0)
      /\ \A i \in DOMAIN e : q[i + 1] = MoveOf(e[i], r.to)
      /\ q[Len(e) + 2] = RemoveObject(HolderOf(r.n))
      /\ q[Len(e) + 3] = RemoveObject(r.n)
  BY <1>2, MovesAre
<1>5. StaysIn(cur[c], r) /\ r.do = "mvlist"
  BY <1>1, <1>2 DEF Within
<1> HIDE DEF r
<1>6. r.n \in Path /\ r.n # <<>> /\ r.to \in Path
  BY <1>2 DEF Requests, Valid
<1>7. e \in Seq(E)
  BY <1>2, <1>6, EntriesAre
<1>8. \A i, j \in DOMAIN e : i < j /\ e[i] = e[j] => Mixed(bucket)
  BY <1>2, <1>6, EntriesAre
<1>9. \A p \in E : p \in Path /\ p # <<>> /\ Last(p) \in Names /\ Parent(p) = r.n
                     /\ Under(r.n, p) /\ InTree(r.n, p)
  BY <1>2, <1>6, EntryIs
<1> HIDE DEF q, e, E
<1>10. DOMAIN e = 1..Len(e) /\ \A i \in DOMAIN e : e[i] \in E
  BY <1>7, ElementOfSeq
<1>11. cur[c].op = "Rename" /\ cur[c].n # cur[c].to /\ InTree(cur[c].n, r.n)
       /\ InTree(cur[c].to, r.to) /\ r.n # r.to /\ cur[c].n \in Path /\ cur[c].to \in Path
  <2>1. cur[c].op = "Rename"
    BY <1>5 DEF StaysIn, Makers
  <2>2. cur[c].n \in Path /\ cur[c].to \in Path
    BY <1>1 DEF Typed
  <2> QED BY <1>5, <2>1, <2>2 DEF StaysIn, Writes
<1>12. \A i \in DOMAIN q :
         \/ i = 1 /\ q[i].do = "mkdir"
         \/ i - 1 \in DOMAIN e /\ q[i] = MoveOf(e[i - 1], r.to)
         \/ i = Len(e) + 2 /\ q[i] = RemoveObject(HolderOf(r.n))
         \/ i = Len(e) + 3 /\ q[i] = RemoveObject(r.n)
  <2> SUFFICES ASSUME NEW i \in DOMAIN q
               PROVE  \/ i = 1 /\ q[i].do = "mkdir"
                      \/ i - 1 \in DOMAIN e /\ q[i] = MoveOf(e[i - 1], r.to)
                      \/ i = Len(e) + 2 /\ q[i] = RemoveObject(HolderOf(r.n))
                      \/ i = Len(e) + 3 /\ q[i] = RemoveObject(r.n)
    OBVIOUS
  <2>1. i = 1 \/ i - 1 \in DOMAIN e \/ i = Len(e) + 2 \/ i = Len(e) + 3
    BY <1>4, <1>10
  <2>2. i = 1 => q[i].do = "mkdir"
    BY <1>4 DEF Request
  <2>3. i - 1 \in DOMAIN e => q[i] = MoveOf(e[i - 1], r.to)
    BY <1>4, <1>10
  <2> QED BY <1>4, <2>1, <2>2, <2>3
<1>13. ASSUME NEW p \in E
       PROVE  LET m == MoveOf(p, r.to) IN
              /\ m.do = "rename" /\ m.at = "head" /\ m.n = p /\ m.to = Append(r.to, Last(p))
              /\ InTree(r.n, p) /\ InTree(r.to, m.to) /\ StaysIn(cur[c], m) /\ Writes(m)
  <2> DEFINE m == MoveOf(p, r.to)
  <2>1. m.do = "rename" /\ m.at = "head" /\ m.n = p /\ m.to = Append(r.to, Last(p))
    BY DEF MoveOf, Request
  <2> HIDE DEF m
  <2>2. p \in Path /\ Last(p) \in Names /\ Parent(p) = r.n /\ InTree(r.n, p)
    BY <1>9
  <2>3. m.to \in Path /\ Parent(m.to) = r.to /\ InTree(r.to, m.to)
    BY <1>6, <2>1, <2>2, AppendIs DEF Path
  <2>4. InTree(cur[c].n, m.n)
    BY <1>6, <1>11, <2>1, <2>2, InTreeTransitive DEF Path
  <2>5. InTree(cur[c].to, m.to)
    BY <1>6, <1>11, <2>3, InTreeTransitive DEF Path
  <2>6. m.n # m.to
    BY <1>11, <2>1, <2>2, <2>3
  <2>7. StaysIn(cur[c], m) /\ Writes(m)
    BY <1>11, <2>1, <2>4, <2>5, <2>6 DEF StaysIn, Writes
  <2> QED BY <2>1, <2>2, <2>3, <2>7 DEF m
<1>14. ASSUME NEW k
       PROVE  RemoveObject(k).do = "remove" /\ RemoveObject(k).n = k /\ ~Writes(RemoveObject(k))
  BY DEF RemoveObject, Request, Writes
<1>15. /\ HolderOf(r.n) \in DOMAIN bucket => bucket[HolderOf(r.n)] \notin safe
       /\ Last(HolderOf(r.n)) = Holder
  <2> DEFINE k == HolderOf(r.n)
  <2>1. Last(k) = Holder
    BY <1>6, HolderIs
  <2> HIDE DEF k
  <2>2. k \in DOMAIN bucket => bucket[k] = 0
    BY <1>2, <2>1 DEF Stored
  <2>3. k \in DOMAIN bucket => bucket[k] \notin safe
    BY <1>1, <2>2
  <2> QED BY <2>1, <2>3 DEF k
<1>16. StaysIn(cur[c], RemoveObject(HolderOf(r.n))) /\ StaysIn(cur[c], RemoveObject(r.n))
  <2>1. InTree(cur[c].n, HolderOf(r.n))
    <3> DEFINE S == Names \cup {Holder}
    <3>1. cur[c].n \in Seq(S) /\ r.n \in Seq(S) /\ HolderOf(r.n) \in Seq(S)
      BY <1>6, <1>11, HolderIs, PathIs
    <3>2. InTree(r.n, HolderOf(r.n))
      BY <1>6, HolderIs
    <3> HIDE DEF S
    <3> QED BY <1>11, <3>1, <3>2, InTreeTransitive
  <2>2. \A k : InTree(cur[c].n, k) => StaysIn(cur[c], RemoveObject(k))
    <3> SUFFICES ASSUME NEW k, InTree(cur[c].n, k) PROVE StaysIn(cur[c], RemoveObject(k))
      OBVIOUS
    <3> DEFINE x == RemoveObject(k)
    <3>1. x.do = "remove" /\ x.n = k /\ ~Writes(x)
      BY <1>14
    <3> HIDE DEF x
    <3>2. StaysIn(cur[c], x)
      BY <1>11, <3>1 DEF StaysIn
    <3> QED BY <3>2 DEF x
  <2> QED BY <1>11, <2>1, <2>2
<1>17. \A i \in DOMAIN q : StaysIn(cur[c], q[i])
  <2> SUFFICES ASSUME NEW i \in DOMAIN q PROVE StaysIn(cur[c], q[i])
    OBVIOUS
  <2>1. CASE i = 1 /\ q[i].do = "mkdir"
    BY <1>11, <2>1 DEF StaysIn, Writes
  <2>2. CASE i - 1 \in DOMAIN e /\ q[i] = MoveOf(e[i - 1], r.to)
    <3>1. e[i - 1] \in E
      BY <1>10, <2>2
    <3> QED BY <1>13, <2>2, <3>1
  <2> QED BY <1>12, <1>16, <2>1, <2>2
<1>18. ASSUME NEW i \in DOMAIN q, Writes(q[i])
       PROVE  i - 1 \in DOMAIN e /\ e[i - 1] \in E /\ q[i] = MoveOf(e[i - 1], r.to) /\ i <= Len(e) + 1
  <2>1. i # 1
    <3>1. q[1].do = "mkdir"
      BY <1>4 DEF Request
    <3> QED BY <1>18, <3>1 DEF Writes
  <2>2. i - 1 \in DOMAIN e /\ q[i] = MoveOf(e[i - 1], r.to)
    BY <1>12, <1>14, <1>18, <2>1
  <2> QED BY <1>4, <1>10, <2>2
<1>19. \A i \in DOMAIN q : Writes(q[i]) =>
         Writes(r) /\ r.do # "copy" /\ InTree(r.n, q[i].n) /\ InTree(r.to, q[i].to)
  <2>1. Writes(r) /\ r.do = "mvlist"
    BY DEF Writes, r
  <2> QED BY <1>13, <1>18, <2>1
<1>20. ASSUME NEW i \in DOMAIN q, q[i].do = "remove"
       PROVE  /\ q[i].n = r.n \/ Last(q[i].n) = Holder
              /\ i >= Len(e) + 2
              /\ q[i].n \in DOMAIN bucket => bucket[q[i].n] \notin safe
  <2>1. CASE i = 1 /\ q[i].do = "mkdir"
    BY <1>20, <2>1
  <2>2. CASE i - 1 \in DOMAIN e /\ q[i] = MoveOf(e[i - 1], r.to)
    <3>1. q[i].do = "rename"
      BY <1>10, <1>13, <2>2
    <3> QED BY <1>20, <3>1
  <2>3. CASE i = Len(e) + 2 /\ q[i] = RemoveObject(HolderOf(r.n))
    BY <1>4, <1>14, <1>15, <2>3
  <2>4. CASE i = Len(e) + 3 /\ q[i] = RemoveObject(r.n)
    BY <1>3, <1>4, <1>14, <2>4
  <2> QED BY <1>12, <2>1, <2>2, <2>3, <2>4
<1>21. ASSUME NEW apart \in BOOLEAN, apart => ~Mixed(bucket)
       PROVE  InOrder(apart, q)
  <2> SUFFICES ASSUME NEW i \in DOMAIN q, NEW j \in DOMAIN q, i < j, Writes(q[i])
               PROVE  Ordered(apart, q[i], q[j])
    BY DEF InOrder, Ordered
  <2> DEFINE p == e[i - 1]
  <2>1. i - 1 \in DOMAIN e /\ p \in E /\ q[i] = MoveOf(p, r.to)
    BY <1>18
  <2> HIDE DEF p
  <2>2. q[i].n = p /\ q[i].to = Append(r.to, Last(p)) /\ Under(r.n, p) /\ p \in Path /\ p # <<>>
        /\ Parent(p) = r.n
    BY <1>9, <1>13, <2>1
  <2>3. q[j].do = "remove" /\ Last(q[j].n) # Holder => Under(q[j].n, q[i].n)
    BY <1>20, <2>2
  <2>4. ASSUME apart, Writes(q[j])
        PROVE  ~InTree(q[i].to, q[j].to) /\ ~InTree(q[j].to, q[i].to)
    <3> DEFINE s == e[j - 1]
    <3>1. j - 1 \in DOMAIN e /\ s \in E /\ q[j] = MoveOf(s, r.to)
      BY <1>18, <2>4
    <3>2. i - 1 < j - 1
      BY <1>4
    <3>3. s # p
      BY <1>8, <1>21, <2>1, <2>4, <3>1, <3>2 DEF p
    <3> HIDE DEF s
    <3>4. q[j].to = Append(r.to, Last(s)) /\ s \in Path /\ s # <<>> /\ Parent(s) = r.n
      BY <1>9, <1>13, <3>1
    <3>5. ~InTree(Append(r.to, Last(p)), Append(r.to, Last(s)))
          /\ ~InTree(Append(r.to, Last(s)), Append(r.to, Last(p)))
      BY <1>6, <2>2, <3>3, <3>4, ApartEntries
    <3> QED BY <2>2, <3>4, <3>5
  <2> QED BY <2>3, <2>4 DEF Ordered
<1>22. q[1].do # "mvlist" /\ q[1].do # "rename"
  BY <1>4 DEF Request
<1>23. Follows(c, q)
  <2>1. InOrder(FALSE, q) /\ (Mixed(bucket) \/ InOrder(TRUE, q))
    BY <1>21
  <2>2. \A i \in DOMAIN q : q[i].do = "remove" =>
          (q[i].n \in DOMAIN bucket => bucket[q[i].n] \notin safe)
    BY <1>20
  <2> QED BY <1>17, <1>19, <1>22, <2>1, <2>2 DEF Follows, r
<1> QED BY <1>23 DEF q, r

\* What RemoveAll makes of a listing.
LEMMA RemovesFollow ==
  ASSUME SafeInv, NEW c \in Clients, prog[c] # <<>>, Head(prog[c]).do = "rmall"
  PROVE  Follows(c, Removes(Head(prog[c]), bucket))
<1> DEFINE r == Head(prog[c])
           q == Removes(r, bucket)
           f == SetToSeq(FilesIn(bucket, r.n))
           g == SetToSeq(DirsIn(bucket, r.n))
           F == FilesIn(bucket, r.n)
           D == DirsIn(bucket, r.n)
<1>1. Typed /\ Within(c) /\ Unreplaced(c)
  BY DEF SafeInv
<1>2. /\ r \in Requests(calls) /\ r = prog[c][1] /\ 1 \in DOMAIN prog[c]
      /\ Stored(bucket, calls) /\ calls \in Nat
  BY <1>1, ProgIs
<1>3. /\ Len(f) \in Nat /\ Len(g) \in Nat /\ DOMAIN q = 1..Len(f) + Len(g) + 2
      /\ f \in Seq(F) /\ g \in Seq(D)
      /\ \A i \in DOMAIN f : q[i] = RemoveObject(f[i])
      /\ \A i \in DOMAIN g : q[Len(f) + i] = RecursionFor(g[i])
      /\ q[Len(f) + Len(g) + 1] = RemoveObject(HolderOf(r.n))
      /\ q[Len(f) + Len(g) + 2] = RemoveObject(KeyOf(r.n, TRUE))
  BY <1>2, RemovesAre
<1>4. StaysIn(cur[c], r) /\ r.do = "rmall"
  BY <1>1, <1>2 DEF Within
<1> HIDE DEF r
<1>5. r.n \in Path
  BY <1>2, <1>4 DEF Requests, Valid
<1>6. \A p \in F \cup D : p \in Path /\ InTree(r.n, p)
  BY <1>2, <1>5, EntryIs
<1> HIDE DEF q, f, g, F, D
<1>7. /\ DOMAIN f = 1..Len(f) /\ DOMAIN g = 1..Len(g)
      /\ (\A i \in DOMAIN f : f[i] \in F) /\ (\A i \in DOMAIN g : g[i] \in D)
  BY <1>3, ElementOfSeq
<1>8. cur[c].op = "RemoveAll" /\ InTree(cur[c].n, r.n) /\ cur[c].n \in Path
  <2>1. cur[c].op = "RemoveAll"
    BY <1>4 DEF StaysIn, Makers
  <2>2. cur[c].n \in Path
    BY <1>1 DEF Typed
  <2> QED BY <1>4, <2>1, <2>2 DEF StaysIn
<1>9. ASSUME NEW k \in Key, InTree(r.n, k)
      PROVE  InTree(cur[c].n, k)
  <2> DEFINE S == Names \cup {Holder, ""}
  <2>1. cur[c].n \in Seq(S) /\ r.n \in Seq(S) /\ k \in Seq(S)
    BY <1>5, <1>8, PathIs DEF Key
  <2> HIDE DEF S
  <2> QED BY <1>8, <1>9, <2>1, InTreeTransitive
<1>10. ASSUME NEW k \in Key, InTree(r.n, k)
       PROVE  LET x == RemoveObject(k) IN
              x.do = "remove" /\ x.n = k /\ StaysIn(cur[c], x)
  <2> DEFINE x == RemoveObject(k)
  <2>1. x.do = "remove" /\ x.n = k
    BY DEF RemoveObject, Request
  <2> HIDE DEF x
  <2>2. StaysIn(cur[c], x)
    BY <1>8, <1>9, <1>10, <2>1 DEF StaysIn
  <2> QED BY <2>1, <2>2 DEF x
<1>11. ASSUME NEW p \in D
       PROVE  LET x == RecursionFor(p) IN x.do = "rmall" /\ StaysIn(cur[c], x)
  <2> DEFINE x == RecursionFor(p)
  <2>1. x.do = "rmall" /\ x.n = p
    BY DEF RecursionFor, Request
  <2> HIDE DEF x
  <2>2. p \in Key /\ InTree(r.n, p)
    BY <1>6, PathIs
  <2>3. StaysIn(cur[c], x)
    BY <1>8, <1>9, <2>1, <2>2 DEF StaysIn
  <2> QED BY <2>1, <2>3 DEF x
<1>12. KeyOf(r.n, TRUE) \in Key /\ InTree(r.n, KeyOf(r.n, TRUE))
  <2> DEFINE S == Names \cup {Holder, ""}
  <2>1. r.n \in Seq(S) /\ "" \in S
    BY <1>5, PathIs DEF Key
  <2> HIDE DEF S
  <2>2. Append(r.n, "") \in Seq(S) /\ InTree(r.n, Append(r.n, "")) /\ InTree(r.n, r.n)
    BY <2>1, AppendIs, InOwnTree
  <2> QED BY <2>1, <2>2 DEF KeyOf, Key, S
<1>13. HolderOf(r.n) \in Key /\ InTree(r.n, HolderOf(r.n))
  BY <1>5, HolderIs
<1>14. \A i \in DOMAIN q :
         \/ \E k \in Key : InTree(r.n, k) /\ q[i] = RemoveObject(k)
         \/ \E p \in D : q[i] = RecursionFor(p)
  <2> SUFFICES ASSUME NEW i \in DOMAIN q
               PROVE  \/ \E k \in Key : InTree(r.n, k) /\ q[i] = RemoveObject(k)
                      \/ \E p \in D : q[i] = RecursionFor(p)
    OBVIOUS
  <2>1. i \in DOMAIN f \/ i - Len(f) \in DOMAIN g \/ i = Len(f) + Len(g) + 1 \/ i = Len(f) + Len(g) + 2
    <3>1. Len(f) \in Nat /\ Len(g) \in Nat /\ i \in 1..Len(f) + Len(g) + 2
      BY <1>3
    <3>2. DOMAIN f = 1..Len(f) /\ DOMAIN g = 1..Len(g)
      BY <1>7
    <3> QED BY <3>1, <3>2
  <2>2. ASSUME i \in DOMAIN f
        PROVE  \E k \in Key : InTree(r.n, k) /\ q[i] = RemoveObject(k)
    <3>1. f[i] \in F /\ q[i] = RemoveObject(f[i])
      BY <1>3, <1>7, <2>2
    <3>2. f[i] \in Key /\ InTree(r.n, f[i])
      BY <1>6, <3>1, PathIs
    <3> QED BY <3>1, <3>2
  <2>3. ASSUME i - Len(f) \in DOMAIN g
        PROVE  \E p \in D : q[i] = RecursionFor(p)
    <3> DEFINE m == i - Len(f)
    <3>1. m \in DOMAIN g /\ Len(f) + m = i
      BY <1>3, <2>3
    <3> HIDE DEF m
    <3> QED BY <1>3, <1>7, <3>1
  <2> QED BY <1>3, <1>12, <1>13, <2>1, <2>2, <2>3
<1>15. \A i \in DOMAIN q :
         StaysIn(cur[c], q[i]) /\ q[i].do \in {"remove", "rmall"}
           /\ (q[i].do = "remove" => q[i].n \in Key /\ InTree(r.n, q[i].n))
  <2> SUFFICES ASSUME NEW i \in DOMAIN q
               PROVE  /\ StaysIn(cur[c], q[i]) /\ q[i].do \in {"remove", "rmall"}
                      /\ (q[i].do = "remove" => q[i].n \in Key /\ InTree(r.n, q[i].n))
    OBVIOUS
  <2>1. CASE \E k \in Key : InTree(r.n, k) /\ q[i] = RemoveObject(k)
    BY <1>10, <2>1
  <2>2. CASE \E p \in D : q[i] = RecursionFor(p)
    BY <1>11, <2>2
  <2> QED BY <1>14, <2>1, <2>2
<1>16. \A i \in DOMAIN q : q[i].do = "remove" =>
         (q[i].n \in DOMAIN bucket => bucket[q[i].n] \notin safe)
  <2> SUFFICES ASSUME NEW i \in DOMAIN q, q[i].do = "remove", q[i].n \in DOMAIN bucket
               PROVE  bucket[q[i].n] \notin safe
    OBVIOUS
  <2>1. Replaces(cur[c], q[i].n)
    BY <1>8, <1>9, <1>15 DEF Replaces
  <2> QED BY <1>1, <1>8, <2>1 DEF Unreplaced
<1>17. \A i \in DOMAIN q : ~Writes(q[i])
  BY <1>15 DEF Writes
<1>18. \A apart : InOrder(apart, q)
  BY <1>17 DEF InOrder, Ordered
<1>19. q # <<>> => q[1].do \notin {"mvlist", "rename"}
  <2>1. 1 \in DOMAIN q
    BY <1>3
  <2> QED BY <1>15, <2>1
<1>20. Follows(c, q)
  BY <1>15, <1>16, <1>17, <1>18, <1>19 DEF Follows
<1> QED BY <1>20 DEF q, r

\* A step that leaves the bucket alone keeps the invariant.
LEMMA QuietSteps ==
  ASSUME SafeInv, NEW c \in Clients, Frame(c), Asks(c) \/ Hears(c) \/ Lists(c) \/ GivesUp(c)
  PROVE  /\ \A d \in Clients : Sound(d)'
         /\ Mixed(bucket') => safe' = {}
         /\ \A v \in safe' : Harboured(v)'
<1> DEFINE r == Head(prog[c])
<1>1. Typed /\ prog[c] # <<>> /\ UNCHANGED cur
  BY DEF SafeInv, Frame
<1>2. CASE Asks(c)
  <2> DEFINE q == <<[r EXCEPT !.at = "list"]>>
  <2>1. UNCHANGED <<bucket, safe>> /\ r.do \in StatKinds /\ Becomes(c, q)
    BY <1>1, <1>2, AsksIs
  <2>2. Follows(c, q)
    BY <1>2, AskFollows
  <2> HIDE DEF q
  <2> QED BY <1>1, <2>1, <2>2, FollowsKeeps DEF StatKinds
<1>3. CASE Hears(c)
  <2>1. UNCHANGED <<bucket, safe>>
    BY <1>1, <1>3, HearsIs
  <2>2. CASE Stops(c)
    BY <1>1, <2>1, <2>2, StopsKeeps
  <2>3. ASSUME NEW what, Told(c, what), r.do = "opendir", Becomes(c, <<>>)
        PROVE  \E q : Becomes(c, q) /\ Follows(c, q) /\ r.do \in StatKinds
    BY <2>3, NoneFollows DEF Told
  <2>4. ASSUME NEW what, Told(c, what), NEW x, Turn(r, what, x), Becomes(c, <<x>>)
        PROVE  \E q : Becomes(c, q) /\ Follows(c, q) /\ r.do \in StatKinds
    BY <1>1, <2>4, TurnFollows DEF Told
  <2>5. ASSUME r.do = "rename", Becomes(c, <<CopyObject(r.n, r.to), RemoveObject(r.n)>>)
        PROVE  \E q : Becomes(c, q) /\ Follows(c, q) /\ r.do \in StatKinds
    BY <1>1, <2>5, FileFollows DEF StatKinds
  <2>6. Stops(c) \/ \E q : Becomes(c, q) /\ Follows(c, q) /\ r.do \in StatKinds
    BY <1>1, <1>3, <2>3, <2>4, <2>5, HearsIs
  <2>7. ASSUME NEW q, Becomes(c, q), Follows(c, q), r.do \in StatKinds
        PROVE  /\ \A d \in Clients : Sound(d)'
               /\ Mixed(bucket') => safe' = {}
               /\ \A v \in safe' : Harboured(v)'
    BY <1>1, <2>1, <2>7, FollowsKeeps DEF StatKinds
  <2> QED BY <2>2, <2>6, <2>7
<1>4. CASE Lists(c)
  <2>1. UNCHANGED <<bucket, safe>>
    BY <1>1, <1>4, ListsIs
  <2>2. CASE r.do = "mvlist" /\ Becomes(c, Moves(r, bucket))
    BY <1>1, <2>1, <2>2, MovesFollow, FollowsKeeps
  <2>3. CASE r.do = "rmall" /\ Becomes(c, Removes(r, bucket))
    BY <1>1, <2>1, <2>3, RemovesFollow, FollowsKeeps
  <2> QED BY <1>1, <1>4, <2>2, <2>3, ListsIs
<1>5. CASE GivesUp(c)
  <2>1. UNCHANGED <<bucket, safe>> /\ Stops(c)
    BY <1>5 DEF GivesUp, Stops, Results
  <2> QED BY <1>1, <2>1, StopsKeeps
<1> QED BY <1>2, <1>3, <1>4, <1>5

-----------------------------------------------------------------------------
(* No file is lost: requests that change the bucket.                       *)

\* A program without a Rename's writes is in order.
LEMMA OnlyRenames ==
  ASSUME NEW p, \A i \in DOMAIN p : ~Writes(p[i])
  PROVE  InOrder(TRUE, p)
  BY DEF InOrder, Ordered

\* What c's first request writes, and where.
Put(c, k0, w) ==
  LET r == Head(prog[c]) IN
  \/ r.do = "put" /\ k0 = r.n /\ w = r.v
  \/ r.do = "copy" /\ k0 = r.to /\ r.n \in DOMAIN bucket /\ w = bucket[r.n]

\* A write overwrites nothing that is safe, is not safe if another call may
\* remove it, and takes nothing a Create in progress has yet to write.
LEMMA PutIs ==
  ASSUME SafeInv, NEW c \in Clients, prog[c] # <<>>, NEW k0, NEW w, Put(c, k0, w),
         Effect(c, Head(prog[c]))
  PROVE  /\ bucket' = Placed(bucket, k0, w)
         /\ Mixed(bucket') => safe' = {}
         /\ w \in safe' => ~AtRisk(c, k0)
         /\ k0 \in DOMAIN bucket => bucket[k0] \notin safe
         /\ safe' \subseteq safe \cup {w}
         /\ \A k \in DOMAIN bucket : bucket[k] \in safe' => bucket[k] \in safe
         /\ \A d \in Clients \ {c} : prog[d] # <<>> /\ cur[d].op = "Create" => w # cur[d].v
         /\ Head(prog[c]).do = "copy" => safe' \subseteq safe
         /\ w \in safe' => cur[c].op \in {"Create", "Rename"}
         /\ w \in safe' /\ cur[c].op = "Rename" => Head(prog[c]).do = "copy"
<1> DEFINE r == Head(prog[c])
           call == cur[c]
<1>1. Typed /\ Within(c) /\ Fresh(c) /\ Unreplaced(c) /\ safe \subseteq 1..calls
  BY DEF SafeInv, Typed, TypeOK
<1>2. /\ r \in Requests(calls) /\ r = prog[c][1] /\ 1 \in DOMAIN prog[c]
      /\ Stored(bucket, calls) /\ calls \in Nat
  BY <1>1, ProgIs
<1>3. StaysIn(call, r)
  BY <1>1, <1>2 DEF Within
<1>4. ASSUME NEW d \in Clients, prog[d] # <<>>, cur[d].op = "Create"
      PROVE  cur[d].v # 0
  <2>1. Typed /\ Within(d)
    BY DEF SafeInv
  <2>2. 1 \in DOMAIN prog[d]
    BY <1>4, <2>1, ProgIs
  <2>3. StaysIn(cur[d], prog[d][1])
    BY <2>1, <2>2 DEF Within
  <2> QED BY <1>4, <2>3 DEF StaysIn
<1>5. CASE r.do = "put" /\ r.v = 0
  <2>1. k0 = r.n /\ w = 0 /\ bucket' = Placed(bucket, k0, w)
        /\ safe' = IF Mixed(bucket') THEN {} ELSE safe
    BY <1>5 DEF Put, Effect
  <2>2. Last(k0) = Holder
    <3>1. Valid(r, calls) /\ r.v \notin 1..calls
      BY <1>2, <1>5 DEF Requests
    <3> QED BY <1>5, <2>1, <3>1 DEF Valid
  <2>3. k0 \in DOMAIN bucket => bucket[k0] = 0
    BY <1>2, <2>2 DEF Stored
  <2>4. 0 \notin safe
    BY <1>1
  <2>5. \A d \in Clients \ {c} : prog[d] # <<>> /\ cur[d].op = "Create" => w # cur[d].v
    BY <1>4, <2>1
  <2>6. w \notin safe' /\ safe' \subseteq safe
    BY <2>1, <2>4
  <2>7. r.do # "copy"
    BY <1>5
  <2>8. Mixed(bucket') => safe' = {}
    BY <2>1
  <2> QED BY <2>1, <2>3, <2>4, <2>5, <2>6, <2>7, <2>8
<1>6. CASE r.do = "put" /\ r.v # 0
  <2>1. k0 = r.n /\ w = r.v /\ bucket' = Placed(bucket, k0, w)
        /\ safe' = IF Mixed(bucket') THEN {}
                   ELSE IF AtRisk(c, k0) THEN safe \ {w} ELSE safe \cup {w}
    BY <1>6 DEF Put, Effect
  <2>2. call.op = "Create" /\ r.n = call.n /\ r.v = call.v
    BY <1>3, <1>6 DEF StaysIn, Makers
  <2>3. Replaces(call, k0)
    BY <2>1, <2>2 DEF Replaces
  <2>4. k0 \in DOMAIN bucket => bucket[k0] \notin safe
    BY <1>1, <2>2, <2>3 DEF Unreplaced
  <2>5. (\A k \in DOMAIN bucket : bucket[k] # w)
        /\ \A d \in Clients \ {c} : prog[d] # <<>> /\ cur[d].op = "Create" => w # cur[d].v
    BY <1>1, <2>1, <2>2 DEF Fresh
  <2>6. safe' \subseteq safe \cup {w} /\ (Mixed(bucket') => safe' = {}) /\ (w \in safe' => ~AtRisk(c, k0))
    BY <2>1
  <2>7. \A k \in DOMAIN bucket : bucket[k] \in safe' => bucket[k] \in safe
    BY <2>5, <2>6
  <2>8. r.do # "copy"
    BY <1>6
  <2> QED BY <2>1, <2>2, <2>4, <2>5, <2>6, <2>7, <2>8
<1>7. CASE r.do = "copy"
  <2>1. k0 = r.to /\ r.n \in DOMAIN bucket /\ w = bucket[r.n] /\ bucket' = Placed(bucket, k0, w)
        /\ safe' = IF Mixed(bucket') THEN {}
                   ELSE IF AtRisk(c, k0) THEN safe \ {w} ELSE safe
    BY <1>7 DEF Put, Effect
  <2>2. call.op = "Rename" /\ call.n # call.to /\ InTree(call.to, r.to) /\ Writes(r)
    BY <1>3, <1>7 DEF StaysIn, Makers, Writes
  <2>3. Replaces(call, k0)
    BY <2>1, <2>2 DEF Replaces
  <2>4. WillWrite(c, k0)
    BY <1>2, <1>7, <2>1, <2>2 DEF WillWrite
  <2>5. k0 \in DOMAIN bucket => bucket[k0] \notin safe
    BY <1>1, <2>3, <2>4 DEF Unreplaced
  <2>6. safe' \subseteq safe /\ (Mixed(bucket') => safe' = {}) /\ (w \in safe' => ~AtRisk(c, k0))
    BY <2>1
  <2>7. \A d \in Clients \ {c} : prog[d] # <<>> /\ cur[d].op = "Create" => w # cur[d].v
    BY <2>1 DEF SafeInv, Fresh
  <2> QED BY <1>7, <2>1, <2>2, <2>5, <2>6, <2>7
<1> QED BY <1>5, <1>6, <1>7 DEF Put

\* What another client's call relies on.
LEMMA PutKeepsOthers ==
  ASSUME SafeInv, NEW c \in Clients, prog[c] # <<>>, UNCHANGED cur, NEW k0, NEW w, Put(c, k0, w),
         Effect(c, Head(prog[c])), Becomes(c, <<>>) \/ Stops(c), NEW d \in Clients \ {c}
  PROVE  Sound(d)'
<1>1. Typed /\ Within(d) /\ Fresh(d) /\ Unreplaced(d) /\ DirFound(d) /\ Tidy(d)
  BY DEF SafeInv
<1>2. (\A e \in Clients \ {c} : prog'[e] = prog[e]) /\ prog'[d] = prog[d] /\ cur' = cur
  BY <1>1, ShorterIs
<1>3. /\ w \in safe' => ~AtRisk(c, k0)
      /\ \A k \in DOMAIN bucket : bucket[k] \in safe' => bucket[k] \in safe
      /\ prog[d] # <<>> /\ cur[d].op = "Create" => w # cur[d].v
  BY PutIs
<1>4. /\ DOMAIN bucket' = DOMAIN bucket \cup {k0} /\ bucket'[k0] = w
      /\ \A k \in DOMAIN bucket : k # k0 => bucket'[k] = bucket[k]
  <2>1. bucket' = Placed(bucket, k0, w)
    BY PutIs
  <2> QED BY <2>1 DEF Placed
<1>5. ASSUME w \in safe', prog[d] # <<>>
      PROVE  ~Replaces(cur[d], k0) /\ ~(cur[d].op = "Rename" /\ InTree(cur[d].n, k0))
  BY <1>3, <1>5 DEF AtRisk
<1>6. \A k \in DOMAIN bucket' : bucket'[k] \in safe' =>
        (k \in DOMAIN bucket /\ bucket[k] \in safe) \/ (k = k0 /\ w \in safe')
  BY <1>3, <1>4
<1>7. Within(d)'
  BY <1>1, <1>2 DEF Within
<1>8. Fresh(d)'
  <2>1. \A e \in Clients : prog'[e] # <<>> => prog[e] # <<>>
    BY <1>2
  <2> QED BY <1>1, <1>2, <1>3, <1>4, <2>1 DEF Fresh
<1>9. WillWrite(d, k0)' <=> WillWrite(d, k0)
  BY <1>2 DEF WillWrite
<1>10. Unreplaced(d)'
  <2> SUFFICES ASSUME prog[d] # <<>>, NEW k \in DOMAIN bucket', Replaces(cur[d], k), bucket'[k] \in safe'
               PROVE  cur[d].op = "Rename" /\ ~WillWrite(d, k)'
    BY <1>2 DEF Unreplaced
  <2>1. k \in DOMAIN bucket /\ bucket[k] \in safe
    BY <1>5, <1>6
  <2>2. cur[d].op = "Rename" /\ ~WillWrite(d, k)
    BY <1>1, <2>1 DEF Unreplaced
  <2>3. WillWrite(d, k)' => WillWrite(d, k)
    BY <1>2 DEF WillWrite
  <2> QED BY <2>2, <2>3
<1>11. DirFound(d)'
  <2> DEFINE s == Head(prog[d])
  <2> SUFFICES ASSUME prog[d] # <<>>, s.do = "mvlist" \/ (s.do = "rename" /\ s.at = "list"),
                      s.n \in DOMAIN bucket', bucket'[s.n] \in safe'
               PROVE  FALSE
    BY <1>2 DEF DirFound
  <2>1. s = prog[d][1] /\ 1 \in DOMAIN prog[d]
    BY <1>1, ProgIs
  <2>2. StaysIn(cur[d], s)
    BY <1>1, <2>1 DEF Within
  <2>3. cur[d].op = "Rename" /\ InTree(cur[d].n, s.n)
    BY <2>2 DEF StaysIn, Makers, Writes
  <2>4. s.n \in DOMAIN bucket /\ bucket[s.n] \in safe
    BY <1>5, <1>6, <2>3
  <2> QED BY <1>1, <2>4 DEF DirFound
<1>12. Tidy(d)'
  <2>1. CASE InOrder(TRUE, prog[d])
    BY <1>2, <2>1 DEF Tidy
  <2>2. CASE ~InOrder(TRUE, prog[d])
    <3>1. InOrder(FALSE, prog[d]) /\ \A k \in DOMAIN bucket : InTree(cur[d].n, k) => bucket[k] \notin safe
      BY <1>1, <2>2 DEF Tidy
    <3>2. PICK i \in DOMAIN prog[d] : Writes(prog[d][i])
      BY <2>2, OnlyRenames
    <3>3. StaysIn(cur[d], prog[d][i]) /\ prog[d] # <<>>
      <4>1. DOMAIN <<>> = {}
        OBVIOUS
      <4> QED BY <1>1, <3>2, <4>1 DEF Within
    <3>4. cur[d].op = "Rename"
      BY <3>2, <3>3 DEF StaysIn, Writes, Makers
    <3>5. \A k \in DOMAIN bucket' : InTree(cur[d].n, k) => bucket'[k] \notin safe'
      BY <1>5, <1>6, <3>1, <3>3, <3>4
    <3> QED BY <1>2, <3>1, <3>5 DEF Tidy
  <2> QED BY <2>1, <2>2
<1> QED BY <1>7, <1>8, <1>10, <1>11, <1>12 DEF Sound

\* A copy is not removed again by the call that makes it, nor written over.
LEMMA CopyStays ==
  ASSUME SafeInv, NEW c \in Clients, prog[c] # <<>>, NEW k0, NEW w, Put(c, k0, w),
         Head(prog[c]).do = "copy", Effect(c, Head(prog[c])), w \in safe',
         NEW i \in DOMAIN prog[c], i > 1
  PROVE  LET s == prog[c][i] IN
         /\ ~(s.do = "remove" /\ s.n = k0)
         /\ ~(Writes(s) /\ (IF s.do = "copy" THEN s.to = k0 ELSE InTree(s.to, k0)))
<1> DEFINE r == Head(prog[c])
           s == prog[c][i]
           call == cur[c]
<1>1. Typed /\ Within(c) /\ Tidy(c)
  BY DEF SafeInv
<1>2. /\ r \in Requests(calls) /\ r = prog[c][1] /\ 1 \in DOMAIN prog[c]
      /\ prog[c] \in Seq(Requests(calls))
  BY <1>1, ProgIs
<1>3. StaysIn(call, r)
  BY <1>1, <1>2 DEF Within
<1>4. Waits(s)
  BY <1>1 DEF Typed
<1>5. r.do = "copy" /\ k0 = r.to /\ r.n \in DOMAIN bucket /\ w = bucket[r.n]
  BY DEF Put
<1>6. r.n \in Path /\ r.to \in Path /\ r.to # <<>> /\ r.n # <<>>
  BY <1>2, <1>5 DEF Requests, Valid
<1>7. Writes(r) /\ r.n # r.to /\ InTree(call.n, r.n)
  <2>1. Writes(r)
    BY <1>5 DEF Writes
  <2> QED BY <1>3, <1>5, <2>1 DEF StaysIn, Makers
<1>8. \A apart \in BOOLEAN : InOrder(apart, prog[c]) => Ordered(apart, r, s)
  <2>1. 1 < i
    OBVIOUS
  <2> QED BY <1>2, <2>1 DEF InOrder
<1>9. InOrder(FALSE, prog[c])
  BY <1>1, ApartInOrder DEF Tidy
<1>10. /\ bucket' = Placed(bucket, k0, w) /\ (Mixed(bucket') => safe' = {}) /\ safe' \subseteq safe
  BY PutIs
<1> HIDE DEF r, s
<1>11. ASSUME s.do = "remove", s.n = k0
       PROVE  FALSE
  <2>1. Last(s.n) # Holder
    BY <1>5, <1>6, <1>11, PathIs
  <2>2. Under(r.to, r.n)
    BY <1>5, <1>7, <1>8, <1>9, <1>11, <2>1 DEF Ordered
  <2>3. r.to \in DOMAIN bucket' /\ r.n \in DOMAIN bucket'
    BY <1>5, <1>10 DEF Placed
  <2> QED BY <1>10, <2>2, <2>3 DEF Mixed
<1>12. ASSUME Writes(s), IF s.do = "copy" THEN s.to = k0 ELSE InTree(s.to, k0)
       PROVE  FALSE
  <2>1. InTree(s.to, r.to)
    BY <1>4, <1>5, <1>12 DEF Writes, Waits
  <2>2. CASE InOrder(TRUE, prog[c])
    BY <1>7, <1>8, <1>12, <2>1, <2>2 DEF Ordered
  <2>3. CASE ~InOrder(TRUE, prog[c])
    BY <1>1, <1>5, <1>7, <1>10, <2>3 DEF Tidy
  <2> QED BY <2>2, <2>3
<1> QED BY <1>11, <1>12 DEF s

\* What the call itself relies on.
LEMMA PutKeepsOwn ==
  ASSUME SafeInv, NEW c \in Clients, prog[c] # <<>>, UNCHANGED cur, NEW k0, NEW w, Put(c, k0, w),
         Effect(c, Head(prog[c])), Becomes(c, <<>>) \/ Stops(c)
  PROVE  Sound(c)'
<1> DEFINE r == Head(prog[c])
           call == cur[c]
<1>1. Typed /\ Within(c) /\ Unreplaced(c) /\ Tidy(c)
  BY DEF SafeInv
<1>2. /\ Within(c)' /\ DirFound(c)'
      /\ prog'[c] # <<>> => call.op \in {"Rename", "RemoveAll"}
      /\ \A apart \in BOOLEAN : InOrder(apart, prog[c]) => InOrder(apart, prog'[c])
      /\ \A k : WillWrite(c, k)' => WillWrite(c, k)
  BY <1>1, ShorterKeeps
<1>3. /\ \A k \in DOMAIN bucket : bucket[k] \in safe' => bucket[k] \in safe
      /\ w \in safe' => call.op \in {"Create", "Rename"}
      /\ w \in safe' /\ call.op = "Rename" => r.do = "copy"
      /\ r.do = "copy" => safe' \subseteq safe
  BY PutIs
<1>4. /\ DOMAIN bucket' = DOMAIN bucket \cup {k0} /\ bucket'[k0] = w
      /\ \A k \in DOMAIN bucket : k # k0 => bucket'[k] = bucket[k]
  <2>1. bucket' = Placed(bucket, k0, w)
    BY PutIs
  <2> QED BY <2>1 DEF Placed
<1>5. \A k \in DOMAIN bucket' : bucket'[k] \in safe' =>
        (k \in DOMAIN bucket /\ bucket[k] \in safe) \/ (k = k0 /\ w \in safe')
  BY <1>3, <1>4
<1>6. Fresh(c)'
  BY <1>2 DEF Fresh
<1>7. Unreplaced(c)'
  <2> SUFFICES ASSUME prog'[c] # <<>>, NEW k \in DOMAIN bucket', Replaces(call, k), bucket'[k] \in safe'
               PROVE  call.op = "Rename" /\ ~WillWrite(c, k)'
    BY DEF Unreplaced
  <2>1. CASE k \in DOMAIN bucket /\ bucket[k] \in safe
    BY <1>1, <1>2, <2>1 DEF Unreplaced
  <2>2. CASE k = k0 /\ w \in safe'
    <3>1. call.op = "Rename" /\ r.do = "copy"
      BY <1>2, <1>3, <2>2
    <3>2. ~WillWrite(c, k0)'
      <4> SUFFICES ASSUME NEW i \in DOMAIN prog'[c],
                          LET s == prog'[c][i] IN
                            Writes(s) /\ (IF s.do = "copy" THEN s.to = k0 ELSE InTree(s.to, k0))
                   PROVE  FALSE
        BY DEF WillWrite
      <4> DEFINE j == i + 1
      <4>1. j \in DOMAIN prog[c] /\ prog'[c][i] = prog[c][j] /\ j > 1
        BY <1>1, ShorterIs
      <4> HIDE DEF j
      <4> QED BY <2>2, <3>1, <4>1, CopyStays
    <3> QED BY <2>2, <3>1, <3>2
  <2> QED BY <1>5, <2>1, <2>2
<1>8. Tidy(c)'
  <2>1. CASE InOrder(TRUE, prog'[c])
    BY <2>1 DEF Tidy
  <2>2. CASE ~InOrder(TRUE, prog'[c])
    <3>1. InOrder(FALSE, prog[c]) /\ \A k \in DOMAIN bucket : InTree(call.n, k) => bucket[k] \notin safe
      BY <1>1, <1>2, <2>2 DEF Tidy
    <3>2. PICK i \in DOMAIN prog'[c] : Writes(prog'[c][i])
      BY <2>2, OnlyRenames
    <3>3. StaysIn(call, prog'[c][i])
      BY <1>2, <3>2 DEF Within
    <3>4. call.op = "Rename"
      BY <3>2, <3>3 DEF StaysIn, Writes, Makers
    <3>5. w \notin safe'
      <4> SUFFICES ASSUME w \in safe' PROVE FALSE
        OBVIOUS
      <4>1. r.do = "copy"
        BY <1>3, <3>4
      <4>2. r.n \in DOMAIN bucket /\ w = bucket[r.n] /\ w \in safe
        BY <1>3, <4>1 DEF Put
      <4>3. StaysIn(call, r)
        BY <1>1, ProgIs DEF Within
      <4>4. InTree(call.n, r.n)
        BY <3>4, <4>1, <4>3 DEF StaysIn, Writes
      <4> QED BY <3>1, <4>2, <4>4
    <3>6. \A k \in DOMAIN bucket' : InTree(call.n, k) => bucket'[k] \notin safe'
      BY <1>5, <3>1, <3>5
    <3>7. InOrder(FALSE, prog'[c])
      BY <1>2, <3>1
    <3> QED BY <3>6, <3>7 DEF Tidy
  <2> QED BY <2>1, <2>2
<1> QED BY <1>2, <1>6, <1>7, <1>8 DEF Sound

\* What was safe is still somewhere, and what is written is where it was put.
LEMMA PutHarbours ==
  ASSUME SafeInv, NEW c \in Clients, prog[c] # <<>>, UNCHANGED cur, NEW k0, NEW w, Put(c, k0, w),
         Effect(c, Head(prog[c])), Becomes(c, <<>>) \/ Stops(c), NEW v \in safe'
  PROVE  Harboured(v)'
<1> DEFINE r == Head(prog[c])
           call == cur[c]
<1>1. Typed /\ Within(c)
  BY DEF SafeInv
<1>2. /\ prog'[c] # <<>> => call.op \in {"Rename", "RemoveAll"}
      /\ \A k : WillRemove(c, k)' => WillRemove(c, k) \/ (r.do = "copy" /\ r.n = k)
  BY <1>1, ShorterKeeps
<1>3. /\ w \in safe' => ~AtRisk(c, k0)
      /\ w \in safe' => call.op \in {"Create", "Rename"}
      /\ w \in safe' /\ call.op = "Rename" => r.do = "copy"
      /\ k0 \in DOMAIN bucket => bucket[k0] \notin safe
      /\ safe' \subseteq safe \cup {w}
  BY PutIs
<1>4. /\ DOMAIN bucket' = DOMAIN bucket \cup {k0} /\ bucket'[k0] = w
      /\ \A k \in DOMAIN bucket : k # k0 => bucket'[k] = bucket[k]
  <2>1. bucket' = Placed(bucket, k0, w)
    BY PutIs
  <2> QED BY <2>1 DEF Placed
<1>5. /\ \A d \in Clients \ {c} : prog'[d] = prog[d]
      /\ DOMAIN prog'[c] \subseteq Nat \ {0}
      /\ \A i \in DOMAIN prog'[c] : i + 1 \in DOMAIN prog[c] /\ prog'[c][i] = prog[c][i + 1]
  BY <1>1, ShorterIs
<1>6. CASE v = w
  <2>1. ASSUME NEW d \in Clients \ {c}, WillRemove(d, k0)
        PROVE  FALSE
    <3>1. PICK i \in DOMAIN prog[d] : prog[d][i].do = "remove" /\ prog[d][i].n = k0
      BY <2>1 DEF WillRemove
    <3>2. prog[d] # <<>> /\ StaysIn(cur[d], prog[d][i])
      <4>1. DOMAIN <<>> = {}
        OBVIOUS
      <4> QED BY <3>1, <4>1 DEF SafeInv, Within
    <3>3. Replaces(cur[d], k0) \/ (cur[d].op = "Rename" /\ InTree(cur[d].n, k0))
      BY <3>1, <3>2 DEF StaysIn, Replaces, Makers
    <3> QED BY <1>3, <1>6, <3>2, <3>3 DEF AtRisk
  <2>2. \A d \in Clients \ {c} : ~WillRemove(d, k0)'
    BY <1>5, <2>1 DEF WillRemove
  <2>3. ASSUME WillRemove(c, k0)'
        PROVE  FALSE
    <3>1. PICK i \in DOMAIN prog'[c] : prog'[c][i].do = "remove" /\ prog'[c][i].n = k0
      BY <2>3 DEF WillRemove
    <3>2. prog'[c] # <<>>
      <4>1. DOMAIN <<>> = {}
        OBVIOUS
      <4> QED BY <3>1, <4>1
    <3>3. r.do = "copy"
      BY <1>2, <1>3, <1>6, <3>2
    <3> DEFINE j == i + 1
    <3>4. j \in DOMAIN prog[c] /\ j > 1 /\ prog'[c][i] = prog[c][j]
      BY <1>5
    <3> HIDE DEF j
    <3> QED BY <1>6, <3>1, <3>3, <3>4, CopyStays
  <2> QED BY <1>4, <1>6, <2>2, <2>3 DEF Harboured
<1>7. CASE v # w
  <2>1. v \in safe
    BY <1>3, <1>7
  <2>2. PICK k \in DOMAIN bucket : bucket[k] = v /\ \A d \in Clients : ~WillRemove(d, k)
    BY <2>1 DEF SafeInv, Harboured
  <2>3. k # k0 /\ bucket'[k] = v /\ k \in DOMAIN bucket'
    BY <1>3, <1>4, <2>1, <2>2
  <2>4. \A d \in Clients \ {c} : ~WillRemove(d, k)'
    BY <1>5, <2>2 DEF WillRemove
  <2>5. ~(r.do = "copy" /\ r.n = k)
    BY <1>7, <2>2 DEF Put
  <2>6. ~WillRemove(c, k)'
    BY <1>2, <2>2, <2>5
  <2> QED BY <2>3, <2>4, <2>6 DEF Harboured
<1> QED BY <1>6, <1>7

\* A key is removed that no one counts on.
LEMMA RemoveKeeps ==
  ASSUME SafeInv, NEW c \in Clients, prog[c] # <<>>, UNCHANGED cur, Head(prog[c]).do = "remove",
         Effect(c, Head(prog[c])), Becomes(c, <<>>) \/ Stops(c)
  PROVE  /\ \A d \in Clients : Sound(d)'
         /\ Mixed(bucket') => safe' = {}
         /\ \A v \in safe' : Harboured(v)'
<1> DEFINE r == Head(prog[c])
<1>1. Typed /\ Within(c)
  BY DEF SafeInv
<1>2. bucket' = [k \in DOMAIN bucket \ {r.n} |-> bucket[k]] /\ safe' = safe
  BY DEF Effect
<1>3. DOMAIN bucket' = DOMAIN bucket \ {r.n} /\ \A k \in DOMAIN bucket' : bucket'[k] = bucket[k]
  BY <1>2
<1>4. /\ Within(c)' /\ DirFound(c)'
      /\ prog'[c] # <<>> => cur[c].op \in {"Rename", "RemoveAll"}
      /\ \A apart \in BOOLEAN : InOrder(apart, prog[c]) => InOrder(apart, prog'[c])
      /\ \A k : WillWrite(c, k)' => WillWrite(c, k)
      /\ \A k : WillRemove(c, k)' => WillRemove(c, k)
  BY <1>1, ShorterKeeps
<1>5. \A d \in Clients \ {c} : prog'[d] = prog[d]
  BY <1>1, ShorterIs
<1>6. \A d \in Clients : prog'[d] # <<>> => prog[d] # <<>>
  BY <1>5
<1>7. ASSUME NEW d \in Clients
      PROVE  /\ Within(d)' /\ DirFound(d)' /\ Unreplaced(d)' /\ Tidy(d)' /\ Fresh(d)'
             /\ \A k : WillRemove(d, k)' => WillRemove(d, k)
  <2>1. Within(d) /\ Fresh(d) /\ Unreplaced(d) /\ DirFound(d) /\ Tidy(d)
    BY DEF SafeInv
  <2>2. /\ \A apart \in BOOLEAN : InOrder(apart, prog[d]) => InOrder(apart, prog'[d])
        /\ \A k : WillWrite(d, k)' => WillWrite(d, k)
        /\ \A k : WillRemove(d, k)' => WillRemove(d, k)
    <3>1. CASE d = c
      BY <1>4, <3>1
    <3>2. CASE d # c
      BY <1>5, <3>2 DEF WillWrite, WillRemove
    <3> QED BY <3>1, <3>2
  <2>3. Within(d)'
    <3>1. CASE d = c
      BY <1>4, <3>1
    <3>2. CASE d # c
      BY <1>5, <2>1, <3>2 DEF Within
    <3> QED BY <3>1, <3>2
  <2>4. DirFound(d)'
    <3>1. CASE d = c
      BY <1>4, <3>1
    <3>2. CASE d # c
      BY <1>2, <1>3, <1>5, <2>1, <3>2 DEF DirFound
    <3> QED BY <3>1, <3>2
  <2>5. Unreplaced(d)'
    <3> SUFFICES ASSUME prog'[d] # <<>>, NEW k \in DOMAIN bucket', Replaces(cur[d], k), bucket'[k] \in safe'
                 PROVE  cur[d].op = "Rename" /\ ~WillWrite(d, k)'
      BY DEF Unreplaced
    <3> QED BY <1>2, <1>3, <1>6, <2>1, <2>2 DEF Unreplaced
  <2>6. Tidy(d)'
    <3>1. CASE InOrder(TRUE, prog[d])
      BY <2>2, <3>1 DEF Tidy
    <3>2. CASE ~InOrder(TRUE, prog[d])
      BY <1>2, <1>3, <2>1, <2>2, <3>2 DEF Tidy
    <3> QED BY <3>1, <3>2
  <2>7. Fresh(d)'
    BY <1>3, <1>6, <2>1 DEF Fresh
  <2> QED BY <2>2, <2>3, <2>4, <2>5, <2>6, <2>7
<1>8. Mixed(bucket') => safe' = {}
  BY <1>2, <1>3 DEF SafeInv, Mixed
<1>9. ASSUME NEW v \in safe'
      PROVE  Harboured(v)'
  <2>1. PICK k \in DOMAIN bucket : bucket[k] = v /\ \A d \in Clients : ~WillRemove(d, k)
    BY <1>2 DEF SafeInv, Harboured
  <2>2. k # r.n
    <3>1. 1 \in DOMAIN prog[c] /\ prog[c][1] = r
      BY <1>1, ProgIs
    <3> QED BY <2>1, <3>1 DEF WillRemove
  <2> QED BY <1>3, <1>7, <2>1, <2>2 DEF Harboured
<1> QED BY <1>7, <1>8, <1>9 DEF Sound

\* A step that changes the bucket keeps the invariant.
LEMMA ChangeSteps ==
  ASSUME SafeInv, NEW c \in Clients, Frame(c), Changes(c)
  PROVE  /\ \A d \in Clients : Sound(d)'
         /\ Mixed(bucket') => safe' = {}
         /\ \A v \in safe' : Harboured(v)'
<1> DEFINE r == Head(prog[c])
<1>1. Typed /\ prog[c] # <<>> /\ UNCHANGED cur
  BY DEF SafeInv, Frame
<1>2. Becomes(c, <<>>) \/ Stops(c)
  BY <1>1, ChangesIs
<1>3. Effect(c, r) /\ Possible(r) /\ r.do \in {"put", "copy", "remove"}
  BY DEF Changes
<1>4. CASE r.do = "remove"
  BY <1>1, <1>2, <1>3, <1>4, RemoveKeeps
<1>5. CASE r.do # "remove"
  <2>1. PICK k0, w : Put(c, k0, w)
    BY <1>3, <1>5 DEF Put, Possible
  <2>2. \A d \in Clients \ {c} : Sound(d)'
    BY <1>1, <1>2, <1>3, <2>1, PutKeepsOthers
  <2>3. Sound(c)'
    BY <1>1, <1>2, <1>3, <2>1, PutKeepsOwn
  <2>4. \A v \in safe' : Harboured(v)'
    BY <1>1, <1>2, <1>3, <2>1, PutHarbours
  <2>5. Mixed(bucket') => safe' = {}
    BY <1>1, <1>3, <2>1, PutIs
  <2> QED BY <2>2, <2>3, <2>4, <2>5
<1> QED BY <1>4, <1>5

-----------------------------------------------------------------------------
(* No file is lost.                                                        *)

\* The program a call begins with: nothing, or one request that stays in it.
LEMMA FirstRequest ==
  ASSUME Typed, NEW c \in Clients, NEW op \in Calls, NEW n \in Paths, NEW to \in Paths,
         Begin(c, op, n, to)
  PROVE  LET call == [op |-> op, n |-> n, to |-> to, v |-> calls + 1] IN
         /\ cur' = [cur EXCEPT ![c] = call]
         /\ \/ prog' = [prog EXCEPT ![c] = <<>>]
            \/ \E x : /\ prog' = [prog EXCEPT ![c] = <<x>>] /\ StaysIn(call, x)
                      /\ x.do \in {"mkdir", "put", "parent", "rename", "rmall"} /\ x.at = "head"
<1> DEFINE call == [op |-> op, n |-> n, to |-> to, v |-> calls + 1]
           p == Program(op, n, to, calls + 1)
           next == IF op = "RemoveAll" /\ n = <<>> THEN Return("errPermission") ELSE Go(p)
<1>1. n \in Path /\ to \in Path /\ op \in Ops
  BY TreeAssumption DEF Path
<1>2. cur' = [cur EXCEPT ![c] = call] /\ prog' = [prog EXCEPT ![c] = next.prog] /\ calls \in Nat
  <2>1. calls \in 0..MaxCalls /\ MaxCalls \in Nat
    BY TreeAssumption DEF Typed, TypeOK
  <2> QED BY <2>1 DEF Begin
<1>3. next.prog = <<>> \/ next.prog = p
  BY DEF Return, Go
<1> HIDE DEF next
<1>4. call.op = op /\ call.n = n /\ call.to = to /\ call.v = calls + 1 /\ calls + 1 # 0
  BY <1>2
<1> HIDE DEF call
<1> DEFINE Good(x) == /\ StaysIn(call, x) /\ x.at = "head"
                      /\ x.do \in {"mkdir", "put", "parent", "rename", "rmall"}
<1>5. InTree(n, n) /\ InTree(to, to)
  BY <1>1, InOwnTree DEF Path
<1>6. CASE op = "Mkdir"
  <2> DEFINE x == Request("mkdir", n, <<>>, 0)
  <2>1. x.do = "mkdir" /\ x.n = n /\ x.at = "head"
    BY DEF Request
  <2>2. p = <<x>>
    BY <1>6 DEF Program
  <2> HIDE DEF x
  <2>3. Good(x)
    BY <1>4, <1>6, <2>1 DEF StaysIn, Makers, Writes
  <2> QED BY <1>2, <1>3, <2>2, <2>3 DEF call
<1>7. CASE op = "Create"
  <2>1. PICK x \in {PutObject(n, calls + 1), Request("parent", n, <<>>, calls + 1)} : p = <<x>>
    BY <1>7 DEF Program
  <2>2. x.do \in {"put", "parent"} /\ x.n = n /\ x.v = calls + 1 /\ x.at = "head"
    BY <2>1 DEF PutObject, Request
  <2>3. Good(x)
    BY <1>4, <1>7, <2>2 DEF StaysIn, Makers, Writes
  <2> QED BY <1>2, <1>3, <2>1, <2>3 DEF call
<1>8. CASE op = "Rename" /\ n = to
  <2>1. p = <<>>
    BY <1>8 DEF Program
  <2> QED BY <1>2, <1>3, <2>1 DEF call
<1>9. CASE op = "Rename" /\ n # to
  <2> DEFINE x == Request("rename", n, to, 0)
  <2>1. x.do = "rename" /\ x.n = n /\ x.to = to /\ x.at = "head"
    BY DEF Request
  <2>2. p = <<x>>
    BY <1>9 DEF Program
  <2> HIDE DEF x
  <2>3. Good(x)
    BY <1>4, <1>5, <1>9, <2>1 DEF StaysIn, Makers, Writes
  <2> QED BY <1>2, <1>3, <2>2, <2>3 DEF call
<1>10. CASE op = "RemoveAll"
  <2> DEFINE x == Request("rmall", n, <<>>, 0)
  <2>1. x.do = "rmall" /\ x.n = n /\ x.at = "head"
    BY DEF Request
  <2>2. p = <<x>>
    BY <1>10 DEF Program
  <2> HIDE DEF x
  <2>3. Good(x)
    BY <1>4, <1>5, <1>10, <2>1 DEF StaysIn, Makers, Writes
  <2> QED BY <1>2, <1>3, <2>2, <2>3 DEF call
<1> QED BY <1>1, <1>6, <1>7, <1>8, <1>9, <1>10 DEF Ops

\* A call that begins.
LEMMA BeginSteps ==
  ASSUME SafeInv, NEW c \in Clients, NEW op \in Calls, NEW n \in Paths, NEW to \in Paths,
         Begin(c, op, n, to)
  PROVE  /\ \A d \in Clients : Sound(d)'
         /\ Mixed(bucket') => safe' = {}
         /\ \A v \in safe' : Harboured(v)'
<1> DEFINE call == [op |-> op, n |-> n, to |-> to, v |-> calls + 1]
<1>1. /\ Typed /\ prog \in [Clients -> Seq(Requests(calls))] /\ Stored(bucket, calls) /\ calls \in Nat
      /\ cur \in [Clients -> [op : Ops \cup {"none"}, n : Path, to : Path, v : 0..calls]]
  <2>1. calls \in 0..MaxCalls /\ MaxCalls \in Nat /\ Typed
    BY TreeAssumption DEF SafeInv, Typed, TypeOK
  <2> QED BY <2>1 DEF Typed, TypeOK
<1>2. /\ bucket' = bucket /\ prog[c] = <<>>
      /\ safe' = safe \ {bucket[k] : k \in {k \in DOMAIN bucket : Replaces(call, k)}}
  BY DEF Begin
<1>3. /\ cur' = [cur EXCEPT ![c] = call]
      /\ \/ prog' = [prog EXCEPT ![c] = <<>>]
         \/ \E x : /\ prog' = [prog EXCEPT ![c] = <<x>>] /\ StaysIn(call, x)
                   /\ x.do \in {"mkdir", "put", "parent", "rename", "rmall"} /\ x.at = "head"
  BY <1>1, FirstRequest
<1>4. /\ cur'[c] = call /\ (\A d \in Clients \ {c} : cur'[d] = cur[d] /\ prog'[d] = prog[d])
  BY <1>1, <1>3
<1>5. call.v = calls + 1
  OBVIOUS
<1>6. /\ \A i \in DOMAIN prog'[c] : i = 1 /\ StaysIn(call, prog'[c][i]) /\ prog'[c][i].do # "remove"
      /\ prog'[c] # <<>> => Head(prog'[c]).do # "mvlist" /\ Head(prog'[c]).at = "head"
  <2>1. CASE prog' = [prog EXCEPT ![c] = <<>>]
    <3>1. prog'[c] = <<>> /\ DOMAIN <<>> = {}
      BY <1>1, <2>1
    <3> QED BY <3>1
  <2>2. ASSUME NEW x, prog' = [prog EXCEPT ![c] = <<x>>], StaysIn(call, x),
               x.do \in {"mkdir", "put", "parent", "rename", "rmall"}, x.at = "head"
        PROVE  /\ \A i \in DOMAIN prog'[c] :
                    i = 1 /\ StaysIn(call, prog'[c][i]) /\ prog'[c][i].do # "remove"
               /\ prog'[c] # <<>> => Head(prog'[c]).do # "mvlist" /\ Head(prog'[c]).at = "head"
    <3> DEFINE p == <<x>>
    <3>1. DOMAIN p = {1} /\ p[1] = x /\ Head(p) = x
      OBVIOUS
    <3>2. prog'[c] = p
      BY <1>1, <2>2
    <3> HIDE DEF p, call
    <3> QED BY <2>2, <3>1, <3>2
  <2> QED BY <1>3, <2>1, <2>2
<1> HIDE DEF call
<1>7. \A d \in Clients : Within(d)'
  BY <1>4, <1>6 DEF SafeInv, Within
<1>8. \A d \in Clients : DirFound(d)'
  <2> SUFFICES ASSUME NEW d \in Clients PROVE DirFound(d)'
    OBVIOUS
  <2>1. CASE d = c
    BY <1>6, <2>1 DEF DirFound
  <2>2. CASE d # c
    BY <1>2, <1>4, <2>2 DEF SafeInv, DirFound
  <2> QED BY <2>1, <2>2
<1>9. \A d \in Clients : Unreplaced(d)'
  <2> SUFFICES ASSUME NEW d \in Clients PROVE Unreplaced(d)'
    OBVIOUS
  <2>1. CASE d = c
    BY <1>2, <1>4, <2>1 DEF Unreplaced
  <2>2. CASE d # c
    <3>1. Unreplaced(d)
      BY DEF SafeInv
    <3>2. \A k : WillWrite(d, k)' => WillWrite(d, k)
      BY <1>4, <2>2 DEF WillWrite
    <3> QED BY <1>2, <1>4, <2>2, <3>1, <3>2 DEF Unreplaced
  <2> QED BY <2>1, <2>2
<1>10. \A d \in Clients : Tidy(d)'
  <2> SUFFICES ASSUME NEW d \in Clients PROVE Tidy(d)'
    OBVIOUS
  <2>1. CASE d = c
    <3>1. InOrder(TRUE, prog'[c])
      BY <1>6 DEF InOrder
    <3> QED BY <2>1, <3>1 DEF Tidy
  <2>2. CASE d # c
    BY <1>2, <1>4, <2>2 DEF SafeInv, Tidy
  <2> QED BY <2>1, <2>2
<1>11. \A d \in Clients : Fresh(d)'
  <2>1. \A k \in DOMAIN bucket : bucket[k] # calls + 1
    <3>1. \A k \in DOMAIN bucket : bucket[k] \in 0..calls
      BY <1>1 DEF Stored
    <3> QED BY <1>1, <3>1
  <2>2. \A d \in Clients : cur[d].v # calls + 1
    <3>1. \A d \in Clients : cur[d].v \in 0..calls
      BY <1>1
    <3> QED BY <1>1, <3>1
  <2> SUFFICES ASSUME NEW d \in Clients PROVE Fresh(d)'
    OBVIOUS
  <2>3. CASE d = c
    BY <1>2, <1>4, <1>5, <2>1, <2>2, <2>3 DEF Fresh
  <2>4. CASE d # c
    <3>1. Fresh(d)
      BY DEF SafeInv
    <3>2. prog'[d] # <<>> /\ cur'[d].op = "Create" =>
            \A e \in Clients \ {d} : prog'[e] # <<>> /\ cur'[e].op = "Create" => cur'[e].v # cur'[d].v
      <4> SUFFICES ASSUME prog'[d] # <<>>, cur'[d].op = "Create",
                          NEW e \in Clients \ {d}, prog'[e] # <<>>, cur'[e].op = "Create"
                   PROVE  cur'[e].v # cur'[d].v
        OBVIOUS
      <4>1. CASE e = c
        BY <1>4, <1>5, <2>2, <2>4, <4>1
      <4>2. CASE e # c
        BY <1>4, <2>4, <3>1, <4>2 DEF Fresh
      <4> QED BY <4>1, <4>2
    <3> QED BY <1>2, <1>4, <2>4, <3>1, <3>2 DEF Fresh
  <2> QED BY <2>3, <2>4
<1>12. Mixed(bucket') => safe' = {}
  BY <1>2 DEF SafeInv
<1>13. ASSUME NEW v \in safe'
       PROVE  Harboured(v)'
  <2>1. PICK k \in DOMAIN bucket : bucket[k] = v /\ \A d \in Clients : ~WillRemove(d, k)
    BY <1>2 DEF SafeInv, Harboured
  <2>2. \A d \in Clients : ~WillRemove(d, k)'
    BY <1>4, <1>6, <2>1 DEF WillRemove
  <2> QED BY <1>2, <2>1, <2>2 DEF Harboured
<1> QED BY <1>7, <1>8, <1>9, <1>10, <1>11, <1>12, <1>13 DEF Sound

\* What the tree starts with is safe, unless it is a file and a directory at once.
LEMMA SafeInit == Init => SafeInv
<1> SUFFICES ASSUME Init PROVE SafeInv
  OBVIOUS
<1>1. Typed
  BY TypedInit
<1>2. \A c \in Clients : prog[c] = <<>> /\ DOMAIN prog[c] = {}
  <2>1. DOMAIN <<>> = {}
    OBVIOUS
  <2> QED BY <2>1 DEF Init
<1>3. \A c \in Clients : Within(c) /\ Fresh(c) /\ Unreplaced(c) /\ DirFound(c) /\ Tidy(c)
  BY <1>2 DEF Within, Fresh, Unreplaced, DirFound, Tidy, InOrder
<1>4. safe = IF Mixed(bucket) THEN {} ELSE {bucket[k] : k \in DOMAIN bucket} \ {0}
  BY DEF Init
<1>5. \A v \in safe : Harboured(v)
  BY <1>2, <1>4 DEF Harboured, WillRemove
<1> QED BY <1>1, <1>3, <1>4, <1>5 DEF SafeInv

\* Every step keeps what is safe.
LEMMA SafeNext == SafeInv /\ [Next]_vars => SafeInv'
<1> SUFFICES ASSUME SafeInv, [Next]_vars PROVE SafeInv'
  OBVIOUS
<1>1. Typed'
  BY TypedNext DEF SafeInv
<1>2. CASE UNCHANGED vars
  <2>1. UNCHANGED <<bucket, prog, cur, safe>>
    BY <1>2 DEF vars
  <2>2. \A c \in Clients : Within(c)' /\ Fresh(c)' /\ Unreplaced(c)' /\ DirFound(c)' /\ Tidy(c)'
    BY <2>1 DEF SafeInv, Within, Fresh, Unreplaced, DirFound, Tidy, WillWrite
  <2>3. \A v \in safe' : Harboured(v)'
    BY <2>1 DEF SafeInv, Harboured, WillRemove
  <2>4. Mixed(bucket') => safe' = {}
    BY <2>1 DEF SafeInv
  <2> QED BY <1>1, <2>2, <2>3, <2>4 DEF SafeInv
<1>3. ASSUME NEW c \in Clients, RequestOf(c)
      PROVE  SafeInv'
  <2>1. Frame(c) /\ (Asks(c) \/ Hears(c) \/ Lists(c) \/ GivesUp(c) \/ Changes(c))
    BY <1>3, Steps DEF SafeInv
  <2>2. /\ \A d \in Clients : Sound(d)'
        /\ Mixed(bucket') => safe' = {}
        /\ \A v \in safe' : Harboured(v)'
    BY <2>1, QuietSteps, ChangeSteps
  <2> QED BY <1>1, <2>2 DEF SafeInv, Sound
<1>4. ASSUME NEW c \in Clients, NEW op \in Calls, NEW n \in Paths, NEW to \in Paths, Begin(c, op, n, to)
      PROVE  SafeInv'
  <2>1. /\ \A d \in Clients : Sound(d)'
        /\ Mixed(bucket') => safe' = {}
        /\ \A v \in safe' : Harboured(v)'
    BY <1>4, BeginSteps
  <2> QED BY <1>1, <2>1 DEF SafeInv, Sound
<1> QED BY <1>2, <1>3, <1>4 DEF Next, RequestOf

\* The invariant holds throughout.
LEMMA AlwaysSafe == Spec => []SafeInv
  BY SafeInit, SafeNext, PTL DEF Spec

\* No file is lost that no call was asked to remove or replace, whichever
\* requests fail and however calls on other files fall in between (fs.go: copy
\* before remove, and entries before the directory).
THEOREM NoFileLost == Spec => []SafeContentsSurvive
<1>1. SafeInv => SafeContentsSurvive
  BY DEF SafeInv, Harboured, SafeContentsSurvive
<1> QED BY <1>1, AlwaysSafe, PTL

-----------------------------------------------------------------------------
(* Holders first: paths, and what a bucket holds.                          *)

\* How the paths of a tree lie to one another.
LEMMA Trees ==
  /\ \A a \in Key : InTree(a, a)
  /\ \A a, b, c \in Key : InTree(a, b) /\ InTree(b, c) => InTree(a, c)
  /\ \A a, b, c \in Key : Under(a, b) /\ InTree(b, c) => Under(a, c)
  /\ \A a, b, c \in Key : InTree(a, c) /\ InTree(b, c) => InTree(a, b) \/ InTree(b, a)
  /\ \A a, b \in Key : Under(a, b) => b # <<>> /\ InTree(a, Parent(b))
<1> DEFINE S == Names \cup {Holder, ""}
<1>1. Key = Seq(S)
  BY DEF Key
<1> HIDE DEF S
<1>2. \A a \in Key : InTree(a, a)
  BY <1>1, InOwnTree
<1>3. \A a, b, c \in Key : InTree(a, b) /\ InTree(b, c) => InTree(a, c)
  BY <1>1, InTreeTransitive
<1>4. \A a, b, c \in Key : Under(a, b) /\ InTree(b, c) => Under(a, c)
  BY <1>1, UnderTransitive
<1>5. ASSUME NEW a \in Key, NEW b \in Key, NEW c \in Key, InTree(a, c), InTree(b, c)
      PROVE  InTree(a, b) \/ InTree(b, a)
  <2>1. Len(a) \in Nat /\ Len(b) \in Nat
    BY <1>1
  <2>2. CASE Len(a) <= Len(b)
    BY <1>1, <1>5, <2>2, InTreeLinear
  <2>3. CASE Len(b) <= Len(a)
    BY <1>1, <1>5, <2>3, InTreeLinear
  <2> QED BY <2>1, <2>2, <2>3
<1>6. ASSUME NEW a \in Key, NEW b \in Key, Under(a, b)
      PROVE  b # <<>> /\ InTree(a, Parent(b))
  <2>1. InTree(a, b) /\ a # b
    BY <1>6 DEF Under
  <2>2. InTree(a, Parent(b))
    BY <1>1, <2>1, ParentInTree
  <2>3. Len(a) <= Len(b) /\ Len(a) \in Nat /\ Len(b) \in Nat
    BY <1>1, <2>1, InTreeElements
  <2>4. b # <<>>
    <3> SUFFICES ASSUME b = <<>> PROVE FALSE
      OBVIOUS
    <3>1. Len(a) = 0
      BY <2>3
    <3>2. a = <<>>
      BY <1>1, <3>1, EmptySeq
    <3> QED BY <2>1, <3>2
  <2> QED BY <2>2, <2>4
<1> QED BY <1>2, <1>3, <1>4, <1>5, <1>6

\* Where the holder of a directory lies.
LEMMA HolderLies ==
  /\ \A p \in Path : p \in Key /\ HolderOf(p) \in Key /\ HolderOf(p) # <<>> /\ HolderOf(p) \notin Path
  /\ \A p, d \in Path : HolderOf(p) = HolderOf(d) => p = d
  /\ \A p, d \in Path : InTree(p, HolderOf(d)) <=> InTree(p, d)
  /\ \A p, d \in Path : Under(p, HolderOf(d)) <=> InTree(p, d)
  /\ \A p \in Path : Parent(HolderOf(p)) = p /\ Last(HolderOf(p)) = Holder
  /\ \A p \in Path, k \in Key : ~Under(HolderOf(p), k) \/ k \notin Path
<1>1. \A p \in Path : p \in Key /\ HolderOf(p) \in Key /\ HolderOf(p) # <<>>
  BY HolderIs, PathIs
<1>2. \A p \in Path : Parent(HolderOf(p)) = p /\ Last(HolderOf(p)) = Holder
  BY HolderIs
<1>3. \A p \in Path : HolderOf(p) \notin Path
  BY <1>1, <1>2, PathIs
<1>4. ASSUME NEW p \in Path, NEW d \in Path
      PROVE  /\ InTree(p, HolderOf(d)) <=> InTree(p, d)
             /\ Under(p, HolderOf(d)) <=> InTree(p, d)
  <2>1. InTree(p, d) => InTree(p, HolderOf(d))
    BY <1>1, Trees, HolderIs
  <2>2. InTree(p, HolderOf(d)) => Under(p, HolderOf(d))
    BY <1>3 DEF Under
  <2>3. Under(p, HolderOf(d)) => InTree(p, d)
    BY <1>1, <1>2, Trees
  <2>4. Under(p, HolderOf(d)) => InTree(p, HolderOf(d))
    BY DEF Under
  <2> QED BY <2>1, <2>2, <2>3, <2>4
<1>5. ASSUME NEW p \in Path, NEW k \in Path, Under(HolderOf(p), k)
      PROVE  FALSE
  <2> DEFINE h == HolderOf(p)
             S == Names \cup {Holder}
  <2>1. h \in Seq(S) /\ k \in Seq(S) /\ Len(h) = Len(p) + 1 /\ h[Len(p) + 1] = Holder
    <3>1. h \in Seq(S) /\ k \in Seq(S) /\ Len(h) = Len(p) + 1 /\ Last(h) = Holder
      BY HolderIs, PathIs
    <3> HIDE DEF h
    <3> QED BY <3>1 DEF Last
  <2>2. InTree(h, k)
    BY <1>5 DEF Under
  <2> HIDE DEF h, S
  <2>3. Len(h) <= Len(k) /\ \A i \in 1..Len(h) : k[i] = h[i]
    BY <2>1, <2>2, InTreeElements
  <2>4. Len(p) + 1 \in 1..Len(h) /\ Len(p) + 1 \in 1..Len(k)
    BY <2>1, <2>3 DEF Path
  <2>5. k[Len(p) + 1] = Holder
    BY <2>1, <2>3, <2>4
  <2>6. k[Len(p) + 1] \in Names
    BY <2>4, ElementOfSeq DEF Path
  <2> QED BY <2>5, <2>6, TreeAssumption
<1>6. \A p, d \in Path : HolderOf(p) = HolderOf(d) => p = d
  BY <1>2
<1> QED BY <1>1, <1>2, <1>3, <1>4, <1>5, <1>6

\* A key is a file's path or a directory's holder.
LEMMA KeysAre ==
  ASSUME NEW b, NEW n, Stored(b, n)
  PROVE  \A k \in DOMAIN b :
           /\ k \in Key /\ k # <<>> /\ Parent(k) \in Path /\ Parent(k) \in Key
           /\ k \in Path \/ k = HolderOf(Parent(k))
           /\ Under(Parent(k), k) /\ InTree(Parent(k), k)
<1> SUFFICES ASSUME NEW k \in DOMAIN b
             PROVE  /\ k \in Key /\ k # <<>> /\ Parent(k) \in Path /\ Parent(k) \in Key
                    /\ k \in Path \/ k = HolderOf(Parent(k))
                    /\ Under(Parent(k), k) /\ InTree(Parent(k), k)
  OBVIOUS
<1> DEFINE S == Names \cup {Holder}
<1>1. k \in Seq(S) /\ k # <<>> /\ Parent(k) \in Path
  BY DEF Stored, Path
<1>2. k = Append(Parent(k), Last(k)) /\ Last(k) \in S /\ Under(Parent(k), k) /\ InTree(Parent(k), k)
  BY <1>1, ParentIs
<1>3. k \in Key
  <2>1. S \subseteq Names \cup {Holder, ""}
    OBVIOUS
  <2> QED BY <1>1, <2>1, SeqMonotonic DEF Key
<1>4. Last(k) = Holder => k = HolderOf(Parent(k))
  BY <1>2 DEF HolderOf
<1>5. Last(k) \in Names => k \in Path
  BY <1>1, <1>2, AppendProperties DEF Path
<1>6. Parent(k) \in Key
  BY <1>1, PathIs
<1> QED BY <1>1, <1>2, <1>3, <1>4, <1>5, <1>6

\* A tree is well formed where everything has its place.
LEMMA WellFormedIs ==
  ASSUME NEW b, NEW n, Stored(b, n)
  PROVE  WellFormed(b) <=> \A k \in DOMAIN b : Based(b, k)
<1> DEFINE S == Names \cup {Holder, ""}
<1>1. Key = Seq(S)
  BY DEF Key
<1> HIDE DEF S
<1>2. \A k \in DOMAIN b : k \in Key /\ k # <<>> /\ Parent(k) \in Path
  BY KeysAre
<1>3. ASSUME NEW k \in DOMAIN b, NEW i \in 1..Len(k) - 1
      PROVE  LET d == SubSeq(k, 1, i) IN d \in Path /\ d # <<>> /\ Under(d, k)
  <2> DEFINE d == SubSeq(k, 1, i)
             up == Parent(k)
  <2>1. k \in Seq(S) /\ Len(k) \in Nat
    BY <1>1, <1>2
  <2>2. d \in Seq(S) /\ Len(d) = i /\ \A j \in 1..i : d[j] = k[j]
    BY <2>1
  <2>3. up \in Path /\ Len(up) = Len(k) - 1 /\ \A j \in 1..Len(k) - 1 : up[j] = k[j]
    BY <1>2, <2>1 DEF Parent
  <2> HIDE DEF d, up
  <2>4. \A j \in 1..i : d[j] \in Names
    <3>1. \A j \in 1..i : j \in 1..Len(up) /\ d[j] = up[j]
      BY <2>1, <2>2, <2>3
    <3> QED BY <2>3, <3>1, ElementOfSeq DEF Path
  <2>5. d \in Path
    <3>1. d \in [1..i -> Names]
      BY <2>2, <2>4
    <3> QED BY <3>1 DEF Path
  <2>6. InTree(d, k) /\ d # k
    BY <2>1, <2>2, InTreeElements
  <2>7. d # <<>>
    BY <2>2
  <2> QED BY <2>5, <2>6, <2>7 DEF Under, d
<1>4. ASSUME NEW k \in DOMAIN b, NEW d \in Path, d # <<>>, Under(d, k)
      PROVE  Len(d) \in 1..Len(k) - 1 /\ SubSeq(k, 1, Len(d)) = d
  <2>1. k \in Seq(S) /\ d \in Seq(S) /\ Len(k) \in Nat /\ Len(d) \in Nat
    BY <1>1, <1>2, PathIs
  <2>2. InTree(d, k) /\ d # k
    BY <1>4 DEF Under
  <2>3. Len(d) <= Len(k) /\ SubSeq(k, 1, Len(d)) = d
    BY <2>2 DEF InTree
  <2>4. Len(d) # Len(k)
    BY <2>1, <2>2, InTreeElements, SeqEqual
  <2>5. Len(d) # 0
    BY <1>4, <2>1, EmptySeq
  <2> QED BY <2>1, <2>3, <2>4, <2>5
<1>5. WellFormed(b) => \A k \in DOMAIN b : Based(b, k)
  BY <1>4 DEF WellFormed, Based
<1>6. (\A k \in DOMAIN b : Based(b, k)) => WellFormed(b)
  BY <1>3 DEF WellFormed, Based
<1> QED BY <1>5, <1>6

\* What lies below something has a place where that has one.
LEMMA BelowBased ==
  ASSUME NEW b, NEW n, Stored(b, n), WellFormed(b), NEW p \in Path, p # <<>>,
         Parent(p) \notin DOMAIN b, Occupied(b, Parent(p))
  PROVE  Based(b, p)
<1>1. Parent(p) \in Path /\ Parent(p) \in Key /\ p \in Key
  BY PathIs
<1> SUFFICES ASSUME NEW d \in Path, d # <<>>, Under(d, p) PROVE HolderOf(d) \in DOMAIN b
  BY DEF Based
<1>2. InTree(d, Parent(p)) /\ d \in Key
  BY <1>1, Trees, PathIs
<1>3. Parent(p) # <<>>
  <2>1. <<>> \in Key
    BY DEF Key
  <2>2. InTree(d, <<>>) /\ d # <<>> => Under(d, <<>>)
    BY DEF Under
  <2> QED BY <1>2, <2>1, <2>2, Trees
<1>4. PICK k \in DOMAIN b : InTree(Parent(p), k)
  BY <1>3 DEF Occupied
<1>5. k \in Key /\ Under(Parent(p), k)
  BY <1>4, KeysAre DEF Under
<1>6. Under(d, k)
  <2>1. d = Parent(p) => Under(d, k)
    BY <1>5
  <2>2. d # Parent(p) => Under(d, Parent(p))
    BY <1>2 DEF Under
  <2> QED BY <1>1, <1>2, <1>4, <1>5, <2>1, <2>2, Trees
<1>7. Based(b, k)
  BY WellFormedIs
<1> QED BY <1>6, <1>7 DEF Based

\* A place lasts as long as the holders last, and the root of a tree needs none.
LEMMA BasedIs ==
  /\ \A a, b : DOMAIN a \subseteq DOMAIN b => \A p : Based(a, p) => Based(b, p)
  /\ \A b : \A p \in Path : Len(p) = 1 => Based(b, p)
  /\ \A b : \A d \in Path, p \in Key : Based(b, d) /\ p # <<>> /\ Parent(p) = d
                                         /\ (d # <<>> => HolderOf(d) \in DOMAIN b) => Based(b, p)
<1>1. \A a, b : DOMAIN a \subseteq DOMAIN b => \A p : Based(a, p) => Based(b, p)
  BY DEF Based
<1>2. ASSUME NEW b, NEW d \in Path, NEW p \in Key, Based(b, d), p # <<>>, Parent(p) = d,
             d # <<>> => HolderOf(d) \in DOMAIN b
      PROVE  Based(b, p)
  <2> SUFFICES ASSUME NEW e \in Path, e # <<>>, Under(e, p) PROVE HolderOf(e) \in DOMAIN b
    BY DEF Based
  <2>1. InTree(e, d)
    BY <1>2, PathIs, Trees
  <2>2. CASE e = d
    BY <1>2, <2>2
  <2>3. CASE e # d
    BY <1>2, <2>1, <2>3 DEF Based, Under
  <2> QED BY <2>2, <2>3
<1>3. ASSUME NEW b, NEW p \in Path, Len(p) = 1
      PROVE  Based(b, p)
  <2> SUFFICES ASSUME NEW d \in Path, d # <<>>, Under(d, p) PROVE FALSE
    BY DEF Based
  <2>1. InTree(d, Parent(p)) /\ Parent(p) \in Path /\ p # <<>>
    <3>1. p # <<>>
      BY <1>3
    <3> QED BY <3>1, PathIs, Trees
  <2>2. Len(Parent(p)) = 0
    BY <1>3, <2>1 DEF Parent, Path
  <2>3. Len(d) <= 0 /\ Len(d) \in Nat
    BY <2>1, <2>2 DEF InTree, Path
  <2> QED BY <2>3, EmptySeq DEF Path
<1> QED BY <1>1, <1>2, <1>3

-----------------------------------------------------------------------------
(* Holders first: what a step makes of a program.                          *)

\* What clears a key in the front of a program clears it in the program.
LEMMA ClearsInFront ==
  ASSUME NEW b, NEW q, NEW p, NEW n \in Nat, DOMAIN q = 1..n, \A i \in DOMAIN q : p[i] = q[i]
  PROVE  \A k : \A i \in DOMAIN q : Clears(b, q, i, k) => Clears(b, p, i, k)
<1> SUFFICES ASSUME NEW k, NEW i \in DOMAIN q, Clears(b, q, i, k) PROVE Clears(b, p, i, k)
  OBVIOUS
<1>1. p[i] = q[i] /\ \A j \in 1..i - 1 : p[j] = q[j]
  OBVIOUS
<1> DEFINE r == q[i]
           Before(s) == \E j \in 1..i - 1 : Handles(s[j], r.n)
<1>2. Before(q) => Before(p)
  BY <1>1
<1>3. p[i] = r
  BY <1>1
<1> HIDE DEF r
<1>4. Clears(b, q, i, k) <=>
        \/ r.do = "remove" /\ r.n = k
        \/ r.do = "mvlist" /\ InTree(r.n, k)
        \/ r.do = "rmall" /\ Under(r.n, k)
        \/ r.do = "rename" /\ (k = r.n \/ (Under(r.n, k) /\ (r.n \in DOMAIN b => Before(q))))
  BY DEF Clears, r
<1>5. Clears(b, p, i, k) <=>
        \/ r.do = "remove" /\ r.n = k
        \/ r.do = "mvlist" /\ InTree(r.n, k)
        \/ r.do = "rmall" /\ Under(r.n, k)
        \/ r.do = "rename" /\ (k = r.n \/ (Under(r.n, k) /\ (r.n \in DOMAIN b => Before(p))))
  BY <1>3 DEF Clears
<1> HIDE DEF Before
<1> QED BY <1>2, <1>4, <1>5

\* A program goes on to clear what it has to, with q in the place of its first
\* request, where q does what that request was to do and no key is new that
\* matters to what follows.
LEMMA ClearedBecomes ==
  ASSUME Typed, NEW c \in Clients, prog[c] # <<>>, NEW q, Becomes(c, q),
         Cleared(bucket, prog[c]), Cleared(bucket', q),
         \A k \in DOMAIN bucket \cap DOMAIN bucket' :
           Clears(bucket, prog[c], 1, k) => \E j \in DOMAIN q : Clears(bucket', q, j, k),
         \A k \in DOMAIN bucket' \ DOMAIN bucket : \A i \in DOMAIN Tail(prog[c]) :
           LET s == Tail(prog[c])[i] IN ~Bares(s, k) /\ (s.do = "rename" => s.n # k),
         \A n \in DOMAIN bucket' : Handles(Head(prog[c]), n) => \E j \in DOMAIN q : Handles(q[j], n)
  PROVE  Cleared(bucket, prog[c])'
<1> DEFINE p == prog[c]
           r == Head(p)
           rest == Tail(p)
           new == prog'[c]
           b == bucket'
<1>1. /\ DOMAIN new \subseteq Nat \ {0} /\ Len(q) \in Nat /\ Len(rest) \in Nat
      /\ DOMAIN q = 1..Len(q) /\ DOMAIN rest = 1..Len(rest)
  BY BecomesIs
<1>2. /\ \A i \in DOMAIN q : i \in DOMAIN new /\ new[i] = q[i]
      /\ \A i \in DOMAIN rest : i + Len(q) \in DOMAIN new /\ new[i + Len(q)] = rest[i]
  BY BecomesIs
<1>3. \A i \in DOMAIN rest : i + 1 \in DOMAIN p /\ p[i + 1] = rest[i] /\ Waits(rest[i])
  BY BecomesIs
<1>4. \A i \in DOMAIN new : i \in DOMAIN q \/ i - Len(q) \in DOMAIN rest
  BY BecomesIs
<1>5. r = p[1] /\ p \in Seq(Requests(calls))
  BY ProgIs
<1>6. \A i \in DOMAIN p : i = 1 \/ (i - 1 \in DOMAIN rest /\ p[i] = rest[i - 1])
  BY <1>5, FirstAndRest
<1>7. \A k : \A i \in DOMAIN q : Clears(b, q, i, k) => Clears(b, new, i, k)
  BY <1>1, <1>2, ClearsInFront
<1>8. DOMAIN p \subseteq Nat \ {0} /\ DOMAIN p = 1..Len(p) /\ Len(p) \in Nat
  BY <1>5
<1> SUFFICES ASSUME NEW i \in DOMAIN new, NEW k \in DOMAIN b, Bares(new[i], k)
             PROVE  \E j \in 1..i - 1 : Clears(b, new, j, k)
  BY DEF Cleared
<1>9. CASE i \in DOMAIN q
  <2>1. new[i] = q[i]
    BY <1>2, <1>9
  <2>2. PICK j \in 1..i - 1 : Clears(b, q, j, k)
    BY <1>9, <2>1 DEF Cleared
  <2>3. j \in DOMAIN q
    BY <1>1, <1>9, <2>2
  <2> QED BY <1>7, <2>2, <2>3
<1>10. CASE i - Len(q) \in DOMAIN rest
  <2> DEFINE m == i - Len(q)
  <2>1. m \in DOMAIN rest /\ m + Len(q) = i /\ m \in Nat /\ i \in Nat
    BY <1>1, <1>10
  <2> HIDE DEF m
  <2>2. new[i] = rest[m] /\ m + 1 \in DOMAIN p /\ p[m + 1] = rest[m]
    BY <1>2, <1>3, <2>1
  <2>3. k \in DOMAIN bucket
    BY <2>1, <2>2
  <2>4. PICK j \in 1..m : Clears(bucket, p, j, k)
    <3>1. Bares(p[m + 1], k)
      BY <2>2
    <3>2. Cleared(bucket, p) /\ m + 1 \in DOMAIN p
      BY <2>2
    <3>3. \A x \in DOMAIN p : Bares(p[x], k) => \E j \in 1..x - 1 : Clears(bucket, p, j, k)
      BY <2>3 DEF Cleared
    <3>4. PICK x \in DOMAIN p : x = m + 1
      BY <3>2
    <3> HIDE DEF p
    <3>5. \E j \in 1..x - 1 : Clears(bucket, p, j, k)
      <4>1. Bares(p[x], k)
        BY <3>1, <3>4
      <4> QED BY <3>3, <4>1
    <3>6. x - 1 = m
      BY <2>1, <3>4
    <3> QED BY <3>5, <3>6
  <2>5. j \in 1..m /\ j \in DOMAIN p
    BY <1>8, <2>1, <2>2, <2>4
  <2>6. CASE j = 1
    <3>1. PICK l \in DOMAIN q : Clears(b, q, l, k)
      BY <2>3, <2>4, <2>6
    <3>2. l \in 1..i - 1
      BY <1>1, <2>1, <2>5, <3>1
    <3> QED BY <1>7, <3>1, <3>2
  <2>7. CASE j # 1
    <3> DEFINE l == j - 1 + Len(q)
               s == rest[j - 1]
    <3>1. j - 1 \in DOMAIN rest /\ p[j] = s
      BY <1>6, <2>5, <2>7
    <3>2. l \in 1..i - 1 /\ new[l] = s
      <4>1. j \in Nat /\ j > 1 /\ j <= m /\ Len(q) \in Nat
        BY <1>1, <2>1, <2>5, <2>7
      <4>2. l \in 1..i - 1
        BY <2>1, <4>1
      <4>3. new[l] = s
        BY <1>2, <3>1
      <4> QED BY <4>2, <4>3
    <3>3. s.do = "rename" /\ s.n \in DOMAIN b => s.n \in DOMAIN bucket
      BY <3>1
    <3>4. ASSUME \E x \in 1..j - 1 : Handles(p[x], s.n), s.n \in DOMAIN b
          PROVE  \E x \in 1..l - 1 : Handles(new[x], s.n)
      <4>1. PICK x \in 1..j - 1 : Handles(p[x], s.n)
        BY <3>4
      <4>2. x \in DOMAIN p
        BY <1>8, <2>5, <4>1
      <4>3. CASE x = 1
        <5>1. PICK y \in DOMAIN q : Handles(q[y], s.n)
          BY <1>5, <3>4, <4>1, <4>3
        <5>2. y \in 1..l - 1
          BY <1>1, <2>5, <2>7, <5>1
        <5>3. new[y] = q[y]
          BY <1>2, <5>1
        <5> QED BY <5>1, <5>2, <5>3
      <4>4. CASE x # 1
        <5>1. x - 1 \in DOMAIN rest /\ p[x] = rest[x - 1]
          BY <1>6, <4>2, <4>4
        <5>2. x \in Nat /\ x > 1 /\ x < j /\ j \in Nat /\ Len(q) \in Nat
          BY <1>1, <2>5, <4>1, <4>4
        <5>3. x - 1 + Len(q) \in 1..l - 1
          BY <5>2
        <5>4. new[x - 1 + Len(q)] = rest[x - 1]
          BY <1>2, <5>1
        <5> QED BY <4>1, <5>1, <5>3, <5>4
      <4> QED BY <4>3, <4>4
    <3> HIDE DEF l, s
    <3>5. Clears(b, new, l, k)
      BY <2>4, <3>1, <3>2, <3>3, <3>4 DEF Clears
    <3> QED BY <3>2, <3>5
  <2> QED BY <2>6, <2>7
<1> QED BY <1>4, <1>9, <1>10

\* The writes of a program find their places, with q in the place of its first
\* request, where q's do and it makes the directories that request was to make.
LEMMA PlacedBecomes ==
  ASSUME Typed, NEW c \in Clients, prog[c] # <<>>, NEW q, Becomes(c, q),
         \A i \in DOMAIN q : Placeable(bucket', q, i),
         \A i \in DOMAIN Tail(prog[c]) :
           LET s == Tail(prog[c])[i] IN
           s.do = "rename" => \/ Based(bucket', s.to)
                              \/ 1 \in DOMAIN q /\ Makes(q[1], Parent(s.to))
  PROVE  (\A i \in DOMAIN prog[c] : Placeable(bucket, prog[c], i))'
<1> DEFINE rest == Tail(prog[c])
           new == prog'[c]
           b == bucket'
<1>1. /\ DOMAIN new \subseteq Nat \ {0} /\ Len(q) \in Nat /\ Len(rest) \in Nat
      /\ DOMAIN q = 1..Len(q) /\ DOMAIN rest = 1..Len(rest)
  BY BecomesIs
<1>2. /\ \A i \in DOMAIN q : i \in DOMAIN new /\ new[i] = q[i]
      /\ \A i \in DOMAIN rest : i + Len(q) \in DOMAIN new /\ new[i + Len(q)] = rest[i] /\ Waits(rest[i])
  BY BecomesIs
<1>3. \A i \in DOMAIN new : i \in DOMAIN q \/ i - Len(q) \in DOMAIN rest
  BY BecomesIs
<1> SUFFICES ASSUME NEW i \in DOMAIN new PROVE Placeable(b, new, i)
  OBVIOUS
<1>4. CASE i \in DOMAIN q
  <2>1. new[i] = q[i] /\ i \in Nat /\ i >= 1 /\ (i > 1 => 1 \in DOMAIN q) /\ Placeable(b, q, i)
    BY <1>1, <1>2, <1>4
  <2>2. i > 1 => new[1] = q[1]
    BY <1>2, <2>1
  <2> HIDE DEF new, b
  <2> QED BY <2>1, <2>2 DEF Placeable
<1>5. CASE i - Len(q) \in DOMAIN rest
  <2> DEFINE m == i - Len(q)
  <2>1. m \in DOMAIN rest /\ m + Len(q) = i
    BY <1>1, <1>5
  <2>2. 1 \in DOMAIN q => i > 1
    BY <1>1, <2>1
  <2> HIDE DEF m
  <2>3. new[i] = rest[m] /\ Waits(rest[m])
    BY <1>2, <2>1
  <2>4. rest[m].do = "rename" => \/ Based(b, rest[m].to)
                                 \/ 1 \in DOMAIN q /\ Makes(q[1], Parent(rest[m].to))
    BY <2>1
  <2>5. 1 \in DOMAIN q => new[1] = q[1]
    BY <1>2
  <2> HIDE DEF new, b, rest
  <2>6. new[i].do = "rename" => Based(b, new[i].to) \/ (i > 1 /\ Makes(new[1], Parent(new[i].to)))
    BY <2>2, <2>3, <2>4, <2>5
  <2>7. new[i].do \in {"rename", "remove", "rmall"}
    BY <2>3 DEF Waits
  <2> QED BY <2>6, <2>7 DEF Placeable, Makers
<1> QED BY <1>3, <1>4, <1>5

\* A Rename goes on to tell its two names apart, and to make directories within
\* the second.
LEMMA RenameBecomes ==
  ASSUME Typed, NEW c \in Clients, prog[c] # <<>>, NEW q, Becomes(c, q), cur' = cur,
         Distinct(c), MakesWithin(c),
         OnFile(Head(prog[c])) => \A i \in DOMAIN q : OnFile(q[i]),
         cur[c].op = "Rename" /\ Whole(bucket, Head(prog[c]), cur[c]) =>
           \/ \A i \in DOMAIN q : i = 1 /\ Whole(bucket', q[i], cur[c])
           \/ \A i \in DOMAIN q : OnFile(q[i])
           \/ Apart(cur[c]),
         cur[c].op = "Rename" => \A i \in DOMAIN q :
           q[i].do \in Makers \cup {"put"} => InTree(cur[c].to, Place(q[i]))
  PROVE  Distinct(c)' /\ MakesWithin(c)'
<1> DEFINE p == prog[c]
           rest == Tail(prog[c])
           new == prog'[c]
<1>1. /\ DOMAIN new \subseteq Nat \ {0} /\ Len(q) \in Nat /\ Len(rest) \in Nat
      /\ DOMAIN q = 1..Len(q) /\ DOMAIN rest = 1..Len(rest)
  BY BecomesIs
<1>2. /\ \A i \in DOMAIN q : i \in DOMAIN new /\ new[i] = q[i]
      /\ \A i \in DOMAIN rest : i + Len(q) \in DOMAIN new /\ new[i + Len(q)] = rest[i] /\ Waits(rest[i])
  BY BecomesIs
<1>3. \A i \in DOMAIN rest : i + 1 \in DOMAIN p /\ p[i + 1] = rest[i]
  BY BecomesIs
<1>4. \A i \in DOMAIN new : i \in DOMAIN q \/ i - Len(q) \in DOMAIN rest
  BY BecomesIs
<1>5. Head(p) = p[1] /\ 1 \in DOMAIN p
  BY ProgIs
<1>6. ASSUME NEW i \in DOMAIN new, i \notin DOMAIN q
      PROVE  \E m \in DOMAIN rest : new[i] = rest[m]
  <2> DEFINE m == i - Len(q)
  <2>1. m \in DOMAIN rest /\ m + Len(q) = i
    BY <1>1, <1>4, <1>6
  <2> QED BY <1>2, <2>1
<1>7. MakesWithin(c)'
  <2> SUFFICES ASSUME cur[c].op = "Rename", NEW i \in DOMAIN new,
                      new[i].do \in Makers \cup {"put"}
               PROVE  InTree(cur[c].to, Place(new[i]))
    BY DEF MakesWithin
  <2>1. CASE i \in DOMAIN q
    BY <1>2, <2>1
  <2>2. CASE i \notin DOMAIN q
    <3>1. Waits(new[i])
      BY <1>2, <1>6, <2>2
    <3> QED BY <3>1 DEF Waits, Makers
  <2> QED BY <2>1, <2>2
<1>8. ASSUME cur[c].op = "Rename"
      PROVE  \/ \A i \in DOMAIN new : i = 1 /\ Whole(bucket', new[i], cur[c])
             \/ \A i \in DOMAIN new : OnFile(new[i])
             \/ Apart(cur[c])
  <2>1. CASE \A i \in DOMAIN p : i = 1 /\ Whole(bucket, p[i], cur[c])
    <3>1. \A i \in DOMAIN rest : FALSE
      BY <1>1, <1>3, <2>1
    <3>2. \A i \in DOMAIN new : i \in DOMAIN q /\ new[i] = q[i]
      BY <1>2, <1>6, <3>1
    <3>3. Whole(bucket, Head(prog[c]), cur[c])
      BY <1>5, <2>1
    <3>4. \/ \A i \in DOMAIN q : i = 1 /\ Whole(bucket', q[i], cur[c])
          \/ \A i \in DOMAIN q : OnFile(q[i])
          \/ Apart(cur[c])
      BY <1>8, <3>3
    <3> HIDE DEF new
    <3> QED BY <3>2, <3>4
  <2>2. CASE \A i \in DOMAIN p : OnFile(p[i])
    <3>1. \A i \in DOMAIN q : OnFile(q[i])
      BY <1>5, <2>2
    <3>2. \A i \in DOMAIN rest : OnFile(rest[i])
      BY <1>3, <2>2
    <3> HIDE DEF new, rest
    <3> QED BY <1>2, <1>6, <3>1, <3>2
  <2>3. CASE Apart(cur[c])
    BY <2>3
  <2> QED BY <1>8, <2>1, <2>2, <2>3 DEF Distinct
<1>9. Distinct(c)'
  BY <1>8 DEF Distinct
<1> QED BY <1>7, <1>9

\* What is left of a steady program that goes on or stops with a step that
\* leaves the bucket alone.
LEMMA SteadyQuiet ==
  ASSUME Typed, NEW c \in Clients, prog[c] # <<>>, NEW q, Becomes(c, q), UNCHANGED <<bucket, cur>>,
         Steady(c),
         \A i \in DOMAIN q : Placeable(bucket, q, i),
         \A d : Makes(Head(prog[c]), d) => 1 \in DOMAIN q /\ Makes(q[1], d),
         Cleared(bucket, q),
         \A k \in DOMAIN bucket :
           Clears(bucket, prog[c], 1, k) => \E j \in DOMAIN q : Clears(bucket, q, j, k),
         \A n \in DOMAIN bucket : Handles(Head(prog[c]), n) => \E j \in DOMAIN q : Handles(q[j], n),
         OnFile(Head(prog[c])) => \A i \in DOMAIN q : OnFile(q[i]),
         cur[c].op = "Rename" /\ Whole(bucket, Head(prog[c]), cur[c]) =>
           \/ \A i \in DOMAIN q : i = 1 /\ Whole(bucket, q[i], cur[c])
           \/ \A i \in DOMAIN q : OnFile(q[i])
           \/ Apart(cur[c]),
         cur[c].op = "Rename" => \A i \in DOMAIN q :
           q[i].do \in Makers \cup {"put"} => InTree(cur[c].to, Place(q[i]))
  PROVE  Steady(c)'
<1>1. bucket' = bucket /\ cur' = cur
  OBVIOUS
<1>2. Cleared(bucket, prog[c]) /\ Distinct(c) /\ MakesWithin(c)
  BY DEF Steady
<1>3. Distinct(c)' /\ MakesWithin(c)'
  BY <1>1, <1>2, RenameBecomes
<1>4. Cleared(bucket, prog[c])'
  <2>1. Cleared(bucket', q)
    BY <1>1
  <2>2. \A k \in DOMAIN bucket \cap DOMAIN bucket' :
          Clears(bucket, prog[c], 1, k) => \E j \in DOMAIN q : Clears(bucket', q, j, k)
    BY <1>1
  <2>3. DOMAIN bucket' \ DOMAIN bucket = {}
    BY <1>1
  <2>4. \A k \in DOMAIN bucket' \ DOMAIN bucket : \A i \in DOMAIN Tail(prog[c]) :
          LET s == Tail(prog[c])[i] IN ~Bares(s, k) /\ (s.do = "rename" => s.n # k)
    BY <2>3
  <2>5. \A n \in DOMAIN bucket' : Handles(Head(prog[c]), n) => \E j \in DOMAIN q : Handles(q[j], n)
    BY <1>1
  <2> QED BY <1>2, <2>1, <2>2, <2>4, <2>5, ClearedBecomes
<1>5. (\A i \in DOMAIN prog[c] : Placeable(bucket, prog[c], i))'
  <2> DEFINE rest == Tail(prog[c])
             p == prog[c]
  <2>1. \A i \in DOMAIN q : Placeable(bucket', q, i)
    BY <1>1
  <2>2. \A i \in DOMAIN rest : i + 1 \in DOMAIN p /\ p[i + 1] = rest[i] /\ i \in Nat \ {0}
    BY BecomesIs
  <2>3. Head(prog[c]) = p[1]
    BY ProgIs
  <2>4. ASSUME NEW i \in DOMAIN rest, rest[i].do = "rename"
        PROVE  Based(bucket', rest[i].to) \/ (1 \in DOMAIN q /\ Makes(q[1], Parent(rest[i].to)))
    <3>1. Placeable(bucket, p, i + 1) /\ i + 1 # 1
      BY <2>2, <2>4 DEF Steady
    <3>2. p[i + 1] = rest[i]
      BY <2>2, <2>4
    <3> HIDE DEF p, rest
    <3>3. Based(bucket, rest[i].to) \/ Makes(p[1], Parent(rest[i].to))
      BY <2>4, <3>1, <3>2 DEF Placeable
    <3> QED BY <1>1, <2>3, <3>3
  <2> QED BY <2>1, <2>4, PlacedBecomes
<1> QED BY <1>3, <1>4, <1>5 DEF Steady

\* One request that removes nothing takes the place of the first.
LEMMA SteadyOne ==
  ASSUME Typed, NEW c \in Clients, prog[c] # <<>>, NEW x, Becomes(c, <<x>>),
         UNCHANGED <<bucket, cur>>, Steady(c), x.do # "remove",
         Placeable(bucket, <<x>>, 1),
         \A d : Makes(Head(prog[c]), d) => Makes(x, d),
         Head(prog[c]).do \in Makers \cup {"parent"}
           \/ /\ Head(prog[c]).do = "rename" /\ x.do \in {"rename", "mvlist"}
              /\ x.n = Head(prog[c]).n /\ x.to = Head(prog[c]).to,
         x.do = "mvlist" => Occupied(bucket, x.n) /\ ~InTree(x.n, x.to),
         cur[c].op = "Rename" /\ x.do \in Makers \cup {"put"} => InTree(cur[c].to, Place(x))
  PROVE  Steady(c)'
<1> DEFINE q == <<x>>
           r == Head(prog[c])
<1>1. DOMAIN q = {1} /\ q[1] = x
  OBVIOUS
<1>2. r = prog[c][1]
  BY ProgIs
<1> HIDE DEF q
<1>3. Cleared(bucket, q)
  BY <1>1 DEF Cleared, Bares
<1>4. ASSUME NEW k, Clears(bucket, prog[c], 1, k)
      PROVE  \E j \in DOMAIN q : Clears(bucket, q, j, k)
  <2>1. r.do = "rename"
    BY <1>2, <1>4 DEF Clears, Makers
  <2>2. x.do \in {"rename", "mvlist"} /\ x.n = r.n
    BY <2>1 DEF Makers
  <2>3. k = r.n \/ (Under(r.n, k) /\ (r.n \in DOMAIN bucket => \E j \in 1..1 - 1 : Handles(prog[c][j], r.n)))
    BY <1>2, <1>4, <2>1 DEF Clears
  <2>4. k = r.n \/ (Under(r.n, k) /\ r.n \notin DOMAIN bucket)
    BY <2>3
  <2>5. InTree(r.n, k)
    <3>1. r \in Requests(calls)
      BY ProgIs
    <3>2. r.n \in Path
      BY <2>1, <3>1 DEF Requests, Valid
    <3> QED BY <2>4, <3>2, InOwnTree DEF Path, Under
  <2>6. Clears(bucket, q, 1, k)
    BY <1>1, <2>2, <2>4, <2>5 DEF Clears
  <2> QED BY <1>1, <2>6
<1>5. \A n : Handles(r, n) => \E j \in DOMAIN q : Handles(q[j], n)
  BY <1>1 DEF Handles, Makers
<1>6. ~OnFile(r)
  BY DEF OnFile, Makers
<1>7. Whole(bucket, r, cur[c]) => \A i \in DOMAIN q : i = 1 /\ Whole(bucket, q[i], cur[c])
  BY <1>1 DEF Whole, Makers
<1>8. \A i \in DOMAIN q : Placeable(bucket, q, i)
  BY <1>1 DEF q
<1>9. \A d : Makes(r, d) => 1 \in DOMAIN q /\ Makes(q[1], d)
  BY <1>1
<1>10. cur[c].op = "Rename" => \A i \in DOMAIN q :
         q[i].do \in Makers \cup {"put"} => InTree(cur[c].to, Place(q[i]))
  BY <1>1
<1>11. Becomes(c, q)
  BY DEF q
<1> QED BY <1>3, <1>4, <1>5, <1>6, <1>7, <1>8, <1>9, <1>10, <1>11, SteadyQuiet

-----------------------------------------------------------------------------
(* Holders first: steps that leave the bucket alone.                       *)

\* Where no name starts another, a listing tells what is in a tree.
LEMMA PrefixIs ==
  ASSUME ShortOf = {}, NEW b, NEW n, Stored(b, n), NEW p \in Path, p # <<>>
  PROVE  HasPrefix(b, p) <=> \E k \in DOMAIN b : InTree(p, k)
<1> DEFINE S == Names \cup {Holder, ""}
<1>1. Key = Seq(S)
  BY DEF Key
<1> HIDE DEF S
<1>2. ASSUME NEW k \in DOMAIN b
      PROVE  InTree(p, k) <=> /\ Len(k) >= Len(p) /\ SubSeq(k, 1, Len(p) - 1) = Parent(p)
                              /\ p[Len(p)] = k[Len(p)]
  <2>1. k \in Seq(S) /\ p \in Seq(S) /\ Len(k) \in Nat /\ Len(p) \in Nat
    BY <1>1, KeysAre, PathIs
  <2>2. Len(p) >= 1
    BY <2>1, EmptySeq
  <2>3. InTree(p, k) <=> Len(p) <= Len(k) /\ \A i \in 1..Len(p) : k[i] = p[i]
    BY <2>1, InTreeElements
  <2>4. CASE Len(p) <= Len(k)
    <3> DEFINE u == SubSeq(k, 1, Len(p) - 1)
               up == Parent(p)
    <3>1. u \in Seq(S) /\ Len(u) = Len(p) - 1 /\ \A i \in 1..Len(p) - 1 : u[i] = k[i]
      <4> DEFINE m == Len(p) - 1
      <4>1. m \in 0..Len(k)
        BY <2>1, <2>2, <2>4
      <4> HIDE DEF m
      <4>2. SubSeq(k, 1, m) \in Seq(S) /\ Len(SubSeq(k, 1, m)) = m
            /\ \A i \in 1..m : SubSeq(k, 1, m)[i] = k[i]
        BY <2>1, <4>1
      <4> QED BY <4>2 DEF m
    <3>2. up \in Seq(S) /\ Len(up) = Len(p) - 1 /\ \A i \in 1..Len(p) - 1 : up[i] = p[i]
      <4>1. /\ up \in Seq(S) /\ Len(p) = Len(up) + 1 /\ Len(up) \in Nat
            /\ \A i \in 1..Len(up) : up[i] = p[i]
        BY <2>1, ParentIs
      <4>2. Len(up) = Len(p) - 1
        BY <2>1, <4>1
      <4> QED BY <4>1, <4>2
    <3> HIDE DEF u, up
    <3>3. u = up <=> \A i \in 1..Len(p) - 1 : u[i] = up[i]
      BY <3>1, <3>2, SeqEqual
    <3>4. u = up <=> \A i \in 1..Len(p) - 1 : k[i] = p[i]
      BY <3>1, <3>2, <3>3
    <3>5. (\A i \in 1..Len(p) : k[i] = p[i])
            <=> (\A i \in 1..Len(p) - 1 : k[i] = p[i]) /\ k[Len(p)] = p[Len(p)]
      <4>1. \A i \in 1..Len(p) : i \in 1..Len(p) - 1 \/ i = Len(p)
        BY <2>1, <2>2
      <4>2. Len(p) \in 1..Len(p) /\ \A i \in 1..Len(p) - 1 : i \in 1..Len(p)
        BY <2>1, <2>2
      <4> QED BY <4>1, <4>2
    <3> QED BY <2>1, <2>3, <2>4, <3>4, <3>5 DEF u, up
  <2>5. CASE ~(Len(p) <= Len(k))
    BY <2>1, <2>3, <2>5
  <2> QED BY <2>4, <2>5
<1>3. HasPrefix(b, p) <=> \E k \in DOMAIN b :
        /\ Len(k) >= Len(p) /\ SubSeq(k, 1, Len(p) - 1) = Parent(p)
        /\ p[Len(p)] = k[Len(p)]
  BY DEF HasPrefix
<1> QED BY <1>2, <1>3

\* An answer that is true tells whether something is there.
LEMMA AnswerIs ==
  ASSUME ShortOf = {}, Typed, NEW r \in Requests(calls), r.do \in StatKinds,
         NEW what \in {"dir", "file", "missing"}, Answer(r, what),
         what = "missing" => StatName(r) # <<>>
  PROVE  /\ StatName(r) \in Path
         /\ what = "missing" <=> ~Occupied(bucket, StatName(r))
         /\ what = "file" => StatName(r) \in DOMAIN bucket
<1> DEFINE n == StatName(r)
<1>1. Stored(bucket, calls)
  BY DEF Typed, TypeOK
<1>2. n \in Path
  <2>1. r.n \in Path /\ (r.do \in {"mkparent", "parent"} => r.n # <<>>)
    BY DEF Requests, Valid, StatKinds
  <2> QED BY <2>1, PathIs DEF StatName
<1>3. Answer(r, what) <=>
        CASE what = "file" -> n \in DOMAIN bucket
          [] what = "dir" -> n = <<>> \/ HasPrefix(bucket, n)
          [] OTHER -> n # <<>> /\ ~HasPrefix(bucket, n)
  BY DEF Answer
<1>4. n # <<>> => (HasPrefix(bucket, n) <=> \E k \in DOMAIN bucket : InTree(n, k))
  BY <1>1, <1>2, PrefixIs
<1>5. InTree(n, n)
  BY <1>2, InOwnTree DEF Path
<1> HIDE DEF n
<1>6. what = "missing" <=> ~Occupied(bucket, n)
  BY <1>3, <1>4, <1>5 DEF Occupied
<1>7. what = "file" => n \in DOMAIN bucket
  BY <1>3
<1> QED BY <1>2, <1>6, <1>7 DEF n

\* The second request of a Stat.
LEMMA AsksSteady ==
  ASSUME Typed, NEW c \in Clients, Frame(c), Asks(c), Refused(c) \/ Steady(c)
  PROVE  prog'[c] # <<>> => Refused(c)' \/ Steady(c)'
<1> DEFINE r == Head(prog[c])
           x == [r EXCEPT !.at = "list"]
<1>1. /\ x.do = r.do /\ x.n = r.n /\ x.to = r.to /\ x.v = r.v /\ r.do \in StatKinds
      /\ bucket' = bucket /\ x \in Requests(calls)
  BY AsksIs
<1>2. Becomes(c, <<x>>)
  BY AsksIs
<1>3. cur' = cur /\ prog[c] # <<>>
  BY DEF Frame
<1>4. prog[c] \in Seq(Requests(calls)) /\ r = prog[c][1] /\ 1 \in DOMAIN prog[c] /\ r \in Requests(calls)
  BY <1>3, ProgIs
<1> HIDE DEF x, r
<1>5. CASE Refused(c)
  <2>1. prog'[c] = <<x>> \o Tail(prog[c])
    BY <1>2, <1>3, BecomesIs
  <2>2. Head(prog'[c]) = x
    <3>1. Tail(prog[c]) \in Seq(Requests(calls)) /\ <<x>> \in Seq(Requests(calls)) /\ Len(<<x>>) = 1
          /\ <<x>>[1] = x
      BY <1>1, <1>3, ProgIs, OneIs
    <3> DEFINE q == <<x>>
               rest == Tail(prog[c])
    <3> HIDE DEF q, rest
    <3>2. Len(q \o rest) = Len(q) + Len(rest) /\ (q \o rest)[1] = q[1] /\ q \o rest \in Seq(Requests(calls))
      <4>1. q \in Seq(Requests(calls)) /\ rest \in Seq(Requests(calls)) /\ Len(q) = 1
        BY <3>1 DEF q, rest
      <4>2. \A i \in 1..Len(q) + Len(rest) : (q \o rest)[i] = IF i <= Len(q) THEN q[i] ELSE rest[i - Len(q)]
        BY <4>1, ConcatProperties
      <4>3. 1 \in 1..Len(q) + Len(rest) /\ 1 <= Len(q)
        BY <4>1
      <4> QED BY <4>1, <4>2, <4>3, ConcatProperties
    <3>3. Head(q \o rest) = (q \o rest)[1]
      <4> DEFINE w == q \o rest
      <4>1. w \in Seq(Requests(calls)) /\ Len(w) >= 1
        <5>1. Len(q) = 1 /\ Len(rest) \in Nat
          BY <3>1 DEF q, rest
        <5> QED BY <3>2, <5>1
      <4> HIDE DEF w
      <4>2. w # <<>>
        BY <4>1
      <4>3. Head(w) = w[1]
        BY <4>1, <4>2, FirstAndRest
      <4> QED BY <4>3 DEF w
    <3> QED BY <2>1, <3>1, <3>2, <3>3 DEF q, rest
  <2>3. Refused(c)'
    BY <1>1, <1>5, <2>2 DEF Refused, r
  <2> QED BY <2>3
<1>6. CASE Steady(c)
  <2>1. Placeable(bucket, prog[c], 1) /\ MakesWithin(c)
    BY <1>4, <1>6 DEF Steady
  <2>2. Placeable(bucket, <<x>>, 1)
    <3>1. <<x>>[1] = x
      OBVIOUS
    <3> DEFINE q == <<x>>
    <3>2. q[1] = x
      BY <3>1
    <3> HIDE DEF q
    <3>3. Placeable(bucket, q, 1)
      BY <1>1, <1>4, <2>1, <3>2 DEF Placeable, StatKinds
    <3> QED BY <3>3 DEF q
  <2>3. \A d : Makes(r, d) => Makes(x, d)
    BY <1>1 DEF Makes
  <2>4. \/ r.do \in Makers \cup {"parent"}
        \/ r.do = "rename" /\ x.do \in {"rename", "mvlist"} /\ x.n = r.n /\ x.to = r.to
    BY <1>1 DEF Makers, StatKinds
  <2>5. x.do # "remove" /\ x.do # "mvlist"
    BY <1>1 DEF StatKinds
  <2>6. cur[c].op = "Rename" /\ x.do \in Makers \cup {"put"} => InTree(cur[c].to, Place(x))
    BY <1>1, <1>4, <2>1 DEF MakesWithin, Place
  <2>7. Steady(c)'
    BY <1>1, <1>2, <1>3, <1>6, <2>2, <2>3, <2>4, <2>5, <2>6, SteadyOne DEF r
  <2> QED BY <2>7
<1> QED BY <1>5, <1>6

\* What the first request of a steady program is known to be.
LEMMA FirstIs ==
  ASSUME SafeInv, NEW c \in Clients, prog[c] # <<>>
  PROVE  LET r == Head(prog[c]) IN
         /\ Typed /\ r = prog[c][1] /\ 1 \in DOMAIN prog[c] /\ r \in Requests(calls)
         /\ StaysIn(cur[c], r)
         /\ Steady(c) => Placeable(bucket, <<r>>, 1)
         /\ Steady(c) /\ cur[c].op = "Rename" /\ r.do \in Makers \cup {"put"} =>
              InTree(cur[c].to, Place(r))
<1> DEFINE r == Head(prog[c])
<1>1. Typed /\ r = prog[c][1] /\ 1 \in DOMAIN prog[c] /\ r \in Requests(calls)
  BY ProgIs DEF SafeInv
<1>2. StaysIn(cur[c], r)
  BY <1>1 DEF SafeInv, Within
<1>3. Steady(c) => Placeable(bucket, prog[c], 1)
  BY <1>1 DEF Steady
<1>4. Steady(c) /\ cur[c].op = "Rename" /\ r.do \in Makers \cup {"put"} => InTree(cur[c].to, Place(r))
  BY <1>1 DEF Steady, MakesWithin
<1> DEFINE q == <<r>>
<1>5. q[1] = r
  OBVIOUS
<1> HIDE DEF q, r
<1>6. Placeable(bucket, prog[c], 1) => Placeable(bucket, q, 1)
  BY <1>1, <1>5 DEF Placeable
<1> QED BY <1>1, <1>2, <1>3, <1>4, <1>6 DEF q, r

\* What a single request has to find to be placed.
LEMMA PlaceableOne ==
  ASSUME NEW b, NEW x
  PROVE  Placeable(b, <<x>>, 1) <=>
           /\ x.do \in Makers \cup {"parent"} => Ready(b, x.n)
           /\ x.do \in {"opendir", "mkparent"} => ~Occupied(b, x.n)
           /\ x.do = "put" => Based(b, IF x.v = 0 THEN Parent(x.n) ELSE x.n)
           /\ x.do = "copy" => Based(b, x.to)
           /\ x.do \in {"rename", "mvlist"} =>
                Based(b, x.to) \/ (Ready(b, x.to) /\ x.n \notin DOMAIN b)
<1> DEFINE q == <<x>>
<1>1. q[1] = x
  OBVIOUS
<1> HIDE DEF q
<1>2. Placeable(b, q, 1) <=>
           /\ x.do \in Makers \cup {"parent"} => Ready(b, x.n)
           /\ x.do \in {"opendir", "mkparent"} => ~Occupied(b, x.n)
           /\ x.do = "put" => Based(b, IF x.v = 0 THEN Parent(x.n) ELSE x.n)
           /\ x.do = "copy" => Based(b, x.to)
           /\ x.do \in {"rename", "mvlist"} =>
                Based(b, x.to) \/ (Ready(b, x.to) /\ x.n \notin DOMAIN b)
  BY <1>1 DEF Placeable
<1> QED BY <1>2 DEF q

\* What takes the place of a Stat finds its place, and does the Stat's work.
LEMMA TurnSteady ==
  ASSUME ShortOf = {}, SafeInv, NEW c \in Clients, prog[c] # <<>>, Steady(c),
         NEW what, Told(c, what), ~blurred', NEW x, Turn(Head(prog[c]), what, x), Becomes(c, <<x>>),
         UNCHANGED <<bucket, cur>>
  PROVE  Steady(c)'
<1> DEFINE r == Head(prog[c])
           n == StatName(r)
<1>1. /\ Typed /\ r = prog[c][1] /\ r \in Requests(calls) /\ StaysIn(cur[c], r)
      /\ Placeable(bucket, <<r>>, 1)
      /\ cur[c].op = "Rename" /\ r.do \in Makers \cup {"put"} => InTree(cur[c].to, Place(r))
  BY FirstIs
<1>2. /\ what \in {"dir", "file", "missing"} /\ r.do \in StatKinds /\ Answer(r, what)
      /\ (what = "missing" => n # <<>>) /\ Turn(r, what, x)
  BY DEF Told
<1> HIDE DEF r
<1>3. n \in Path /\ (what = "missing" <=> ~Occupied(bucket, n))
  BY <1>1, <1>2, AnswerIs
<1>4. /\ r.do \in Makers \cup {"parent"} => Ready(bucket, r.n)
      /\ r.do \in {"opendir", "mkparent"} => ~Occupied(bucket, r.n)
      /\ r.do = "rename" => Based(bucket, r.to) \/ (Ready(bucket, r.to) /\ r.n \notin DOMAIN bucket)
  BY <1>1, PlaceableOne
<1>5. \A why : Then(r, why).do = why /\ Then(r, why).n = r.n /\ Then(r, why).to = r.to
  BY <1>1 DEF Then, Requests
<1>6. \A k, v : PutObject(k, v).do = "put" /\ PutObject(k, v).n = k /\ PutObject(k, v).v = v
  BY DEF PutObject, Request
<1>7. r.n \in Path /\ (r.do \in {"opendir", "mkparent", "parent"} => r.n # <<>>)
      /\ (r.do = "parent" => r.v # 0)
  BY <1>1, <1>2 DEF Requests, Valid, StatKinds
<1> DEFINE Good ==
      /\ x.do # "remove"
      /\ Placeable(bucket, <<x>>, 1)
      /\ \A d : Makes(r, d) => Makes(x, d)
      /\ \/ r.do \in Makers \cup {"parent"}
         \/ r.do = "rename" /\ x.do \in {"rename", "mvlist"} /\ x.n = r.n /\ x.to = r.to
      /\ x.do = "mvlist" => Occupied(bucket, x.n) /\ ~InTree(x.n, x.to)
      /\ cur[c].op = "Rename" /\ x.do \in Makers \cup {"put"} => InTree(cur[c].to, Place(x))
<1>8. ASSUME (r.do = "mkdir" /\ what = "missing" /\ x = Then(r, "opendir"))
             \/ (r.do = "opendir" /\ x = Then(r, "mkparent"))
      PROVE  Good
  <2>1. x.do \in {"opendir", "mkparent"} /\ x.n = r.n /\ r.do \in {"mkdir", "opendir"}
    BY <1>5, <1>8
  <2>2. ~Occupied(bucket, r.n) /\ Ready(bucket, r.n)
    BY <1>3, <1>4, <1>8 DEF StatName, Makers
  <2>3. Placeable(bucket, <<x>>, 1)
    BY <2>1, <2>2, PlaceableOne
  <2>4. Place(x) = Place(r)
    BY <2>1 DEF Place
  <2>5. \A d : Makes(r, d) => Makes(x, d)
    BY <2>1 DEF Makes, Makers
  <2> HIDE DEF n
  <2> QED BY <1>1, <2>1, <2>3, <2>4, <2>5 DEF Makers
<1>9. ASSUME r.do \in {"opendir", "mkparent"} /\ x = PutObject(HolderOf(r.n), 0)
      PROVE  Good
  <2>1. x.do = "put" /\ x.n = HolderOf(r.n) /\ x.v = 0
    BY <1>6, <1>9
  <2>2. Parent(x.n) = r.n
    BY <1>7, <2>1, HolderIs
  <2>3. Based(bucket, r.n)
    <3>1. CASE r.do = "opendir"
      <4>1. Len(r.n) = 1
        <5>1. Then(r, "mkparent").do # x.do
          BY <1>5, <2>1
        <5> QED BY <1>2, <3>1, <5>1 DEF Turn
      <4> QED BY <1>7, <4>1, BasedIs
    <3>2. CASE r.do = "mkparent"
      <4>1. what # "missing"
        BY <1>2, <3>2 DEF Turn
      <4>2. Occupied(bucket, Parent(r.n))
        BY <1>3, <3>2, <4>1 DEF StatName
      <4>3. Ready(bucket, r.n) /\ r.n # <<>>
        BY <1>4, <1>7, <3>2 DEF Makers
      <4> QED BY <4>2, <4>3 DEF Ready
    <3> QED BY <1>9, <3>1, <3>2
  <2>4. Placeable(bucket, <<x>>, 1)
    BY <2>1, <2>2, <2>3, PlaceableOne DEF Makers
  <2>5. Place(x) = Place(r)
    BY <1>9, <2>1, <2>2 DEF Place
  <2>6. \A d : Makes(r, d) => Makes(x, d)
    BY <1>9, <2>1 DEF Makes, Makers
  <2> HIDE DEF n
  <2> QED BY <1>1, <1>9, <2>1, <2>4, <2>5, <2>6 DEF Makers
<1>10. ASSUME r.do = "rename"
       PROVE  Good
  <2>1. what = "dir" /\ ~Under(r.n, r.to) /\ x = Then(r, "mvlist")
    BY <1>2, <1>10 DEF Turn
  <2>2. x.do = "mvlist" /\ x.n = r.n /\ x.to = r.to
    BY <1>5, <2>1
  <2>3. Occupied(bucket, r.n)
    BY <1>3, <1>10, <2>1 DEF StatName
  <2>4. r.n # r.to
    BY <1>1, <1>10 DEF StaysIn, Writes, Makers
  <2>5. ~InTree(r.n, r.to)
    BY <2>1, <2>4 DEF Under
  <2>6. Placeable(bucket, <<x>>, 1)
    BY <1>4, <1>10, <2>2, PlaceableOne DEF Makers
  <2>7. \A d : ~Makes(r, d)
    BY <1>10 DEF Makes, Makers
  <2> HIDE DEF n
  <2> QED BY <1>10, <2>2, <2>3, <2>5, <2>6, <2>7 DEF Makers
<1>11. ASSUME r.do = "parent"
       PROVE  Good
  <2>1. what # "missing" /\ x = PutObject(r.n, r.v)
    BY <1>2, <1>11 DEF Turn
  <2>2. x.do = "put" /\ x.n = r.n /\ x.v # 0
    BY <1>6, <1>7, <1>11, <2>1
  <2>3. Based(bucket, r.n)
    <3>1. Occupied(bucket, Parent(r.n)) /\ Ready(bucket, r.n) /\ r.n # <<>>
      BY <1>3, <1>4, <1>7, <1>11, <2>1 DEF StatName
    <3> QED BY <3>1 DEF Ready
  <2>4. Placeable(bucket, <<x>>, 1)
    BY <2>2, <2>3, PlaceableOne DEF Makers
  <2>5. cur[c].op # "Rename"
    BY <1>1, <1>11 DEF StaysIn
  <2>6. \A d : ~Makes(r, d)
    BY <1>11 DEF Makes, Makers
  <2> HIDE DEF n
  <2> QED BY <1>11, <2>2, <2>4, <2>5, <2>6
<1>12. Good
  BY <1>2, <1>8, <1>9, <1>10, <1>11 DEF Turn
<1> QED BY <1>1, <1>12, SteadyOne DEF r

\* A Rename that finds a file copies it, and removes it.
LEMMA FileSteady ==
  ASSUME SafeInv, NEW c \in Clients, prog[c] # <<>>, Steady(c), Head(prog[c]).do = "rename",
         Head(prog[c]).n \in DOMAIN bucket,
         Becomes(c, <<CopyObject(Head(prog[c]).n, Head(prog[c]).to), RemoveObject(Head(prog[c]).n)>>),
         UNCHANGED <<bucket, cur>>
  PROVE  Steady(c)'
<1> DEFINE r == Head(prog[c])
           x == CopyObject(r.n, r.to)
           y == RemoveObject(r.n)
           q == <<x, y>>
<1>1. /\ Typed /\ r = prog[c][1] /\ r \in Requests(calls)
      /\ Placeable(bucket, <<r>>, 1)
  BY FirstIs
<1>2. x.do = "copy" /\ x.to = r.to /\ y.do = "remove" /\ y.n = r.n
  BY DEF CopyObject, RemoveObject, Request
<1>3. DOMAIN q = {1, 2} /\ q[1] = x /\ q[2] = y
  BY TwoAre
<1>4. r.n \in Path /\ r.do = "rename" /\ r.n \in DOMAIN bucket
  BY <1>1 DEF Requests, Valid
<1>5. Becomes(c, q)
  OBVIOUS
<1> HIDE DEF q, x, y, r
<1>6. Based(bucket, r.to)
  BY <1>1, <1>4, PlaceableOne
<1>7. \A i \in DOMAIN q : Placeable(bucket, q, i)
  BY <1>2, <1>3, <1>6 DEF Placeable, Makers
<1>8. \A d : ~Makes(r, d)
  BY <1>4 DEF Makes, Makers
<1>9. \A i \in DOMAIN q : OnFile(q[i])
  <2>1. r.n # <<>>
    <3>1. Stored(bucket, calls)
      BY <1>1 DEF Typed, TypeOK
    <3> QED BY <1>4, <3>1, KeysAre
  <2>2. Last(r.n) # Holder
    BY <1>4, <2>1, PathIs
  <2> QED BY <1>2, <1>3, <2>2 DEF OnFile
<1>10. Cleared(bucket, q)
  <2>1. \A k : ~Bares(q[1], k) /\ ~Bares(q[2], k)
    BY <1>2, <1>3, <1>4, HolderLies DEF Bares
  <2> QED BY <1>3, <2>1 DEF Cleared
<1>11. ASSUME NEW k, Clears(bucket, prog[c], 1, k)
       PROVE  \E j \in DOMAIN q : Clears(bucket, q, j, k)
  <2>1. k = r.n \/ (Under(r.n, k) /\ (r.n \in DOMAIN bucket => \E j \in 1..1 - 1 : Handles(prog[c][j], r.n)))
    BY <1>1, <1>4, <1>11 DEF Clears
  <2>2. k = r.n
    BY <1>4, <2>1
  <2>3. Clears(bucket, q, 2, k)
    BY <1>2, <1>3, <2>2 DEF Clears
  <2> QED BY <1>3, <2>3
<1>12. \A n : Handles(r, n) => \E j \in DOMAIN q : Handles(q[j], n)
  BY <1>2, <1>3 DEF Handles
<1>13. \A i \in DOMAIN q : q[i].do \notin Makers \cup {"put"}
  BY <1>2, <1>3 DEF Makers
<1> QED BY <1>1, <1>5, <1>7, <1>8, <1>9, <1>10, <1>11, <1>12, <1>13, SteadyQuiet DEF r

\* c has an answer to a Stat.
LEMMA HearsSteady ==
  ASSUME ShortOf = {}, SafeInv, NEW c \in Clients, Frame(c), Hears(c), ~blurred',
         Refused(c) \/ Steady(c)
  PROVE  prog'[c] # <<>> => Steady(c)'
<1> DEFINE r == Head(prog[c])
<1>1. prog[c] # <<>> /\ cur' = cur
  BY DEF Frame
<1>2. Typed /\ r \in Requests(calls)
  BY <1>1, FirstIs
<1>3. bucket' = bucket
  BY <1>2, HearsIs
<1>4. \/ Stops(c)
      \/ \E what :
           /\ Told(c, what)
           /\ \/ r.do = "opendir" /\ what = "dir" /\ Becomes(c, <<>>)
              \/ \E q \in Requests(calls) :
                   Turn(r, what, q) /\ q.at = "head" /\ Becomes(c, <<q>>)
              \/ /\ r.do = "rename" /\ what = "file" /\ r.n # <<>>
                 /\ Becomes(c, <<CopyObject(r.n, r.to), RemoveObject(r.n)>>)
  BY <1>2, HearsIs
<1>5. CASE Stops(c)
  <2>1. prog'[c] = <<>>
    BY <1>2, <1>5 DEF Stops, Continue, Return, Typed
  <2> QED BY <2>1
<1>6. ASSUME NEW what, Told(c, what),
             \/ r.do = "opendir" /\ what = "dir" /\ Becomes(c, <<>>)
             \/ \E q \in Requests(calls) :
                  Turn(r, what, q) /\ q.at = "head" /\ Becomes(c, <<q>>)
             \/ /\ r.do = "rename" /\ what = "file" /\ r.n # <<>>
                /\ Becomes(c, <<CopyObject(r.n, r.to), RemoveObject(r.n)>>)
      PROVE  Steady(c)'
  <2>1. /\ what \in {"dir", "file", "missing"} /\ r.do \in StatKinds /\ Answer(r, what)
        /\ (what = "missing" => StatName(r) # <<>>)
    BY <1>6 DEF Told
  <2> HIDE DEF r
  <2>2. /\ what = "missing" <=> ~Occupied(bucket, StatName(r))
        /\ what = "file" => StatName(r) \in DOMAIN bucket
    BY <1>2, <2>1, AnswerIs
  <2>3. Steady(c)
    <3> SUFFICES ASSUME Refused(c) PROVE FALSE
      OBVIOUS
    <3>1. r.do = "mkdir" /\ Occupied(bucket, r.n)
      BY DEF Refused, r
    <3>2. what # "missing"
      BY <2>2, <3>1 DEF StatName
    <3> QED BY <1>6, <3>1, <3>2 DEF Turn
  <2>4. CASE r.do = "opendir" /\ what = "dir"
    <3>1. Placeable(bucket, <<r>>, 1)
      BY <1>1, <2>3, FirstIs DEF r
    <3>2. ~Occupied(bucket, r.n)
      BY <2>4, <3>1, PlaceableOne
    <3> QED BY <2>2, <2>4, <3>2 DEF StatName
  <2>5. ASSUME NEW q, Turn(r, what, q), Becomes(c, <<q>>)
        PROVE  Steady(c)'
    BY <1>1, <1>3, <1>6, <2>3, <2>5, TurnSteady DEF r
  <2>6. CASE /\ r.do = "rename" /\ what = "file"
             /\ Becomes(c, <<CopyObject(r.n, r.to), RemoveObject(r.n)>>)
    <3>1. r.n \in DOMAIN bucket
      BY <2>2, <2>6 DEF StatName
    <3> QED BY <1>1, <1>3, <2>3, <2>6, <3>1, FileSteady DEF r
  <2> QED BY <1>6, <2>4, <2>5, <2>6
<1> QED BY <1>4, <1>5, <1>6

\* What lies in a directory is one of its files or lies below one of its
\* directories.
LEMMA Covered ==
  ASSUME NEW b, NEW n, Stored(b, n), NEW d \in Path
  PROVE  \A k \in DOMAIN b : Under(d, k) /\ k # HolderOf(d) =>
           k \in FilesIn(b, d) \/ \E p \in DirsIn(b, d) : Under(p, k)
<1> SUFFICES ASSUME NEW k \in DOMAIN b, Under(d, k), k # HolderOf(d), k \notin FilesIn(b, d)
             PROVE  \E p \in DirsIn(b, d) : Under(p, k)
  OBVIOUS
<1> DEFINE S == Names \cup {Holder, ""}
           p == SubSeq(k, 1, Len(d) + 1)
<1>1. k \in Seq(S) /\ d \in Seq(S) /\ Len(k) \in Nat /\ Len(d) \in Nat
  <2>1. k \in Key /\ d \in Key
    BY KeysAre, PathIs
  <2>2. Key = Seq(S)
    BY DEF Key
  <2> HIDE DEF S
  <2> QED BY <2>1, <2>2
<1> HIDE DEF S
<1>2. Len(d) <= Len(k) /\ Len(d) # Len(k)
  <2>1. InTree(d, k) /\ d # k
    BY DEF Under
  <2>2. Len(d) <= Len(k) /\ \A i \in 1..Len(d) : k[i] = d[i]
    BY <1>1, <2>1, InTreeElements
  <2> QED BY <1>1, <2>1, <2>2, SeqEqual
<1>3. Len(k) # Len(d) + 1
  BY DEF FilesIn
<1>4. Len(k) > Len(d) + 1
  BY <1>1, <1>2, <1>3
<1>5. p \in DirsIn(b, d)
  BY <1>4 DEF DirsIn
<1>6. p \in Seq(S) /\ Len(p) = Len(d) + 1 /\ \A i \in 1..Len(d) + 1 : p[i] = k[i]
  BY <1>1, <1>4
<1> HIDE DEF p
<1>7. InTree(p, k)
  <2>1. Len(p) <= Len(k) /\ \A i \in 1..Len(p) : k[i] = p[i]
    BY <1>1, <1>4, <1>6
  <2> QED BY <1>1, <1>6, <2>1, InTreeElements
<1>8. p # k
  BY <1>1, <1>4, <1>6
<1> QED BY <1>5, <1>7, <1>8 DEF Under

\* The first request of a program that begins with q.
LEMMA HeadBecomes ==
  ASSUME Typed, NEW c \in Clients, prog[c] # <<>>, NEW q, Becomes(c, q), 1 \in DOMAIN q
  PROVE  Head(prog'[c]) = q[1]
<1>1. prog'[c] = q \o Tail(prog[c]) /\ 1 \in DOMAIN prog'[c] /\ prog'[c][1] = q[1]
  BY BecomesIs
<1>2. q \in Seq(Requests(calls)) /\ Tail(prog[c]) \in Seq(Requests(calls))
  BY ProgIs DEF Becomes
<1> DEFINE new == prog'[c]
<1>3. new \in Seq(Requests(calls))
  BY <1>1, <1>2, ConcatProperties
<1> HIDE DEF new
<1>4. Head(new) = new[1]
  BY <1>3
<1> QED BY <1>1, <1>4 DEF new

\* What Rename makes of a listing: it finds something at the new name, or its
\* two names are apart and the entries are gone before the directory.
LEMMA MovesSteady ==
  ASSUME SafeInv, NEW c \in Clients, prog[c] # <<>>, Head(prog[c]).do = "mvlist", Steady(c),
         Becomes(c, Moves(Head(prog[c]), bucket)), UNCHANGED <<bucket, cur>>
  PROVE  Refused(c)' \/ Steady(c)'
<1> DEFINE r == Head(prog[c])
           e == Entries(bucket, r.n)
           q == Moves(r, bucket)
           F == FilesIn(bucket, r.n)
           D == DirsIn(bucket, r.n)
<1>1. /\ Typed /\ r = prog[c][1] /\ r \in Requests(calls) /\ StaysIn(cur[c], r)
      /\ Placeable(bucket, <<r>>, 1) /\ r.do = "mvlist"
  BY FirstIs
<1>2. Stored(bucket, calls) /\ calls \in Nat
  BY ProgIs, <1>1
<1>3. r.n \in Path /\ r.n # <<>> /\ r.to \in Path /\ r.to # <<>>
  BY <1>1 DEF Requests, Valid
<1>4. /\ q \in Seq(Requests(calls)) /\ Len(e) \in Nat /\ DOMAIN q = 1..Len(e) + 3
      /\ q[1] = Request("mkdir", r.to, <<>>, 0)
      /\ \A i \in DOMAIN e : q[i + 1] = MoveOf(e[i], r.to)
      /\ q[Len(e) + 2] = RemoveObject(HolderOf(r.n))
      /\ q[Len(e) + 3] = RemoveObject(r.n)
  BY <1>1, <1>2, MovesAre
<1>5. /\ e \in Seq(F \cup D)
      /\ \A p \in F \cup D : \E i \in DOMAIN e : e[i] = p
      /\ \A p \in F \cap D : \E i, j \in DOMAIN e : i < j /\ e[i] = p /\ e[j] = p
  <2> DEFINE d == r.n
             s == Entries(bucket, d)
             A == FilesIn(bucket, d)
             B == DirsIn(bucket, d)
  <2>1. d \in Path
    BY <1>3
  <2> HIDE DEF d
  <2>2. /\ Entries(bucket, d) \in Seq(FilesIn(bucket, d) \cup DirsIn(bucket, d))
        /\ \A p \in FilesIn(bucket, d) \cup DirsIn(bucket, d) : \E i \in DOMAIN Entries(bucket, d) :
             Entries(bucket, d)[i] = p
        /\ \A p \in FilesIn(bucket, d) \cap DirsIn(bucket, d) : \E i, j \in DOMAIN Entries(bucket, d) :
             i < j /\ Entries(bucket, d)[i] = p /\ Entries(bucket, d)[j] = p
    BY <1>2, <2>1, EntriesAre
  <2> HIDE DEF s, A, B, e, F, D
  <2>3. s = e /\ A = F /\ B = D
    BY DEF s, A, B, e, F, D, d
  <2>4. /\ s \in Seq(A \cup B)
        /\ \A p \in A \cup B : \E i \in DOMAIN s : s[i] = p
        /\ \A p \in A \cap B : \E i, j \in DOMAIN s : i < j /\ s[i] = p /\ s[j] = p
    BY <2>2 DEF s, A, B
  <2> QED BY <2>3, <2>4
<1>6. \A p \in F \cup D : p \in Path /\ p # <<>> /\ Last(p) \in Names /\ Under(r.n, p) /\ Len(p) = Len(r.n) + 1
  <2>1. \A p \in F \cup D : p \in Path /\ p # <<>> /\ Last(p) \in Names /\ Under(r.n, p) /\ Parent(p) = r.n
    BY <1>2, <1>3, EntryIs
  <2>2. \A p \in Path : p # <<>> => Len(p) = Len(Parent(p)) + 1
    BY ParentIs DEF Path
  <2> QED BY <2>1, <2>2
<1>7. \A k \in DOMAIN bucket : Under(r.n, k) /\ k # HolderOf(r.n) =>
        k \in F \/ \E p \in D : Under(p, k)
  BY <1>2, <1>3, Covered
<1>8. \A p \in D : p \in DOMAIN bucket => p \in F
  BY <1>3, <1>6, HolderLies DEF FilesIn
<1>9. Becomes(c, q) /\ bucket' = bucket /\ cur' = cur
  OBVIOUS
<1> HIDE DEF e, q, F, D, r
<1>10. DOMAIN e = 1..Len(e) /\ \A i \in DOMAIN e : e[i] \in F \cup D /\ i \in Nat
  BY <1>5, ElementOfSeq
<1>11. \A i \in DOMAIN q : i = 1 \/ i - 1 \in DOMAIN e \/ i = Len(e) + 2 \/ i = Len(e) + 3
  BY <1>4, <1>10
<1>12. 1 \in DOMAIN q /\ Len(e) + 2 \in DOMAIN q /\ Len(e) + 3 \in DOMAIN q
       /\ \A i \in DOMAIN e : i + 1 \in DOMAIN q /\ i + 1 \in 1..Len(e) + 2 - 1 /\ i + 1 > 1
  BY <1>4, <1>10
<1>13. q[1].do = "mkdir" /\ q[1].n = r.to
  BY <1>4, RequestIs
<1>14. /\ q[Len(e) + 2].do = "remove" /\ q[Len(e) + 2].n = HolderOf(r.n)
       /\ q[Len(e) + 3].do = "remove" /\ q[Len(e) + 3].n = r.n
  BY <1>4, RequestIs DEF RemoveObject
<1>15. \A i \in DOMAIN e : /\ q[i + 1].do = "rename" /\ q[i + 1].n = e[i]
                           /\ q[i + 1].to = Append(r.to, Last(e[i]))
  <2>1. \A p, to : /\ MoveOf(p, to).do = "rename" /\ MoveOf(p, to).n = p
                   /\ MoveOf(p, to).to = Append(to, Last(p))
    BY DEF MoveOf, Request
  <2>2. \A i \in DOMAIN e : q[i + 1] = MoveOf(e[i], r.to)
    BY <1>4
  <2> QED BY <2>1, <2>2
<1>16. CASE Occupied(bucket, r.to)
  <2>1. Head(prog'[c]) = q[1]
    BY <1>1, <1>9, <1>12, HeadBecomes
  <2> QED BY <1>9, <1>13, <1>16, <2>1 DEF Refused
<1>17. CASE ~Occupied(bucket, r.to)
  <2>1. \A i \in DOMAIN q : Placeable(bucket, q, i)
    <3>1. Ready(bucket, r.to)
      BY <1>1, PlaceableOne DEF Ready
    <3>2. Placeable(bucket, q, 1)
      BY <1>13, <3>1 DEF Placeable, Makers
    <3>3. ASSUME NEW i \in DOMAIN q, i - 1 \in DOMAIN e
          PROVE  Placeable(bucket, q, i)
      <4>1. PICK j \in DOMAIN e : j = i - 1
        BY <3>3
      <4>2. i = j + 1 /\ i > 1
        BY <1>10, <1>4, <4>1
      <4>3. q[i].do = "rename" /\ q[i].to = Append(r.to, Last(e[j])) /\ Last(e[j]) \in Names
        BY <1>6, <1>10, <1>15, <4>2
      <4>4. Parent(q[i].to) = r.to
        BY <1>3, <4>3, AppendIs DEF Path
      <4>5. Makes(q[1], r.to)
        BY <1>13 DEF Makes, Makers
      <4> QED BY <4>2, <4>3, <4>4, <4>5 DEF Placeable, Makers
    <3>4. \A i \in DOMAIN q : q[i].do = "remove" => Placeable(bucket, q, i)
      BY DEF Placeable, Makers
    <3> QED BY <1>11, <1>14, <3>2, <3>3, <3>4
  <2>2. ASSUME NEW k \in DOMAIN bucket, Under(r.n, k), k # HolderOf(r.n)
        PROVE  \E j \in 1..Len(e) + 2 - 1 : j \in DOMAIN q /\ Clears(bucket, q, j, k)
    <3>1. CASE k \in F
      <4>1. PICK i \in DOMAIN e : e[i] = k
        BY <1>5, <3>1
      <4>2. PICK x \in DOMAIN q : x = i + 1 /\ x \in 1..Len(e) + 2 - 1
        BY <1>12
      <4>3. q[x].do = "rename" /\ q[x].n = k
        BY <1>15, <4>1, <4>2
      <4>4. Clears(bucket, q, x, k)
        BY <4>3 DEF Clears
      <4> QED BY <4>2, <4>4
    <3>2. ASSUME NEW p \in D, Under(p, k)
          PROVE  \E j \in 1..Len(e) + 2 - 1 : j \in DOMAIN q /\ Clears(bucket, q, j, k)
      <4>1. CASE p \in DOMAIN bucket
        <5>1. PICK i \in DOMAIN e, j \in DOMAIN e : i < j /\ e[i] = p /\ e[j] = p
          BY <1>5, <1>8, <3>2, <4>1
        <5>2. PICK y \in DOMAIN q : y = i + 1
          BY <1>12
        <5>3. PICK x \in DOMAIN q : x = j + 1 /\ x \in 1..Len(e) + 2 - 1
          BY <1>12
        <5>4. y \in 1..x - 1
          BY <1>10, <5>1, <5>2, <5>3
        <5>5. q[x].do = "rename" /\ q[x].n = p /\ q[y].do = "rename" /\ q[y].n = p
          BY <1>15, <5>1, <5>2, <5>3
        <5>6. Handles(q[y], p)
          BY <5>5 DEF Handles
        <5>7. Clears(bucket, q, x, k)
          BY <3>2, <5>4, <5>5, <5>6 DEF Clears
        <5> QED BY <5>3, <5>7
      <4>2. CASE p \notin DOMAIN bucket
        <5>1. PICK i \in DOMAIN e : e[i] = p
          BY <1>5, <3>2
        <5>2. PICK x \in DOMAIN q : x = i + 1 /\ x \in 1..Len(e) + 2 - 1
          BY <1>12
        <5>3. q[x].do = "rename" /\ q[x].n = p
          BY <1>15, <5>1, <5>2
        <5>4. Clears(bucket, q, x, k)
          BY <3>2, <4>2, <5>3 DEF Clears
        <5> QED BY <5>2, <5>4
      <4> QED BY <4>1, <4>2
    <3> QED BY <1>7, <2>2, <3>1, <3>2
  <2>3. Cleared(bucket, q)
    <3> SUFFICES ASSUME NEW i \in DOMAIN q, NEW k \in DOMAIN bucket, Bares(q[i], k)
                 PROVE  \E j \in 1..i - 1 : Clears(bucket, q, j, k)
      BY DEF Cleared
    <3>1. PICK d \in Path : q[i].do = "remove" /\ q[i].n = HolderOf(d) /\ Under(d, k) /\ k # HolderOf(d)
      BY DEF Bares
    <3>2. i # 1
      BY <1>13, <3>1
    <3>3. i - 1 \notin DOMAIN e
      <4> SUFFICES ASSUME NEW j \in DOMAIN e, j = i - 1 PROVE FALSE
        OBVIOUS
      <4>1. i = j + 1
        BY <1>4, <1>10
      <4> QED BY <1>15, <3>1, <4>1
    <3>4. i # Len(e) + 3
      BY <1>3, <1>14, <3>1, HolderLies
    <3>5. i = Len(e) + 2
      BY <1>11, <3>2, <3>3, <3>4
    <3>6. d = r.n
      BY <1>3, <1>14, <3>1, <3>5, HolderLies
    <3>7. \E j \in 1..Len(e) + 2 - 1 : j \in DOMAIN q /\ Clears(bucket, q, j, k)
      BY <2>2, <3>1, <3>6
    <3> QED BY <3>5, <3>7
  <2>4. ASSUME NEW k \in DOMAIN bucket, Clears(bucket, prog[c], 1, k)
        PROVE  \E j \in DOMAIN q : Clears(bucket, q, j, k)
    <3>1. InTree(r.n, k)
      BY <1>1, <2>4 DEF Clears
    <3>2. k = HolderOf(r.n) => Clears(bucket, q, Len(e) + 2, k)
      BY <1>14 DEF Clears
    <3>3. k = r.n => Clears(bucket, q, Len(e) + 3, k)
      BY <1>14 DEF Clears
    <3>4. k # HolderOf(r.n) /\ k # r.n => \E j \in DOMAIN q : Clears(bucket, q, j, k)
      BY <2>2, <3>1 DEF Under
    <3> QED BY <1>12, <3>2, <3>3, <3>4
  <2>5. \A d : ~Makes(r, d)
    BY <1>1 DEF Makes, Makers
  <2>6. \A n : Handles(r, n) => \E j \in DOMAIN q : Handles(q[j], n)
    <3>1. \A n : Handles(r, n) => Handles(q[Len(e) + 3], n)
      BY <1>14 DEF Handles
    <3> QED BY <1>12, <3>1
  <2>7. ~OnFile(r)
    BY <1>1 DEF OnFile
  <2>8. Whole(bucket, r, cur[c]) => Apart(cur[c])
    <3> SUFFICES ASSUME Whole(bucket, r, cur[c]) PROVE Apart(cur[c])
      OBVIOUS
    <3>1. Occupied(bucket, r.n) /\ ~InTree(r.n, r.to) /\ r.n = cur[c].n /\ r.to = cur[c].to
      BY <1>1 DEF Whole
    <3>2. PICK k \in DOMAIN bucket : InTree(r.n, k)
      BY <1>3, <3>1 DEF Occupied
    <3>3. k \in Key /\ r.n \in Key /\ r.to \in Key
      BY <1>2, <1>3, KeysAre, PathIs
    <3>4. ~InTree(r.to, k)
      BY <1>17 DEF Occupied
    <3>5. ~InTree(r.to, r.n)
      BY <3>2, <3>3, <3>4, Trees
    <3> QED BY <3>1, <3>5 DEF Apart
  <2>9. ASSUME cur[c].op = "Rename", NEW i \in DOMAIN q, q[i].do \in Makers \cup {"put"}
        PROVE  InTree(cur[c].to, Place(q[i]))
    <3>1. i = 1
      <4>1. i - 1 \notin DOMAIN e
        <5> SUFFICES ASSUME NEW j \in DOMAIN e, j = i - 1 PROVE FALSE
          OBVIOUS
        <5>1. i = j + 1
          BY <1>4, <1>10
        <5> QED BY <1>15, <2>9, <5>1 DEF Makers
      <4>2. i # Len(e) + 2 /\ i # Len(e) + 3
        BY <1>14, <2>9 DEF Makers
      <4> QED BY <1>11, <4>1, <4>2
    <3>2. InTree(cur[c].to, r.to)
      BY <1>1, <2>9 DEF StaysIn, Writes
    <3> QED BY <1>13, <3>1, <3>2 DEF Place
  <2>10. Steady(c)'
    BY <1>1, <1>9, <2>1, <2>3, <2>4, <2>5, <2>6, <2>7, <2>8, <2>9, SteadyQuiet DEF r
  <2> QED BY <2>10
<1> QED BY <1>16, <1>17

\* What RemoveAll makes of a listing: the entries are gone before the directory.
LEMMA RemovesSteady ==
  ASSUME SafeInv, NEW c \in Clients, prog[c] # <<>>, Head(prog[c]).do = "rmall", Steady(c),
         Becomes(c, Removes(Head(prog[c]), bucket)), UNCHANGED <<bucket, cur>>
  PROVE  Steady(c)'
<1> DEFINE r == Head(prog[c])
           f == SetToSeq(FilesIn(bucket, r.n))
           g == SetToSeq(DirsIn(bucket, r.n))
           q == Removes(r, bucket)
           F == FilesIn(bucket, r.n)
           D == DirsIn(bucket, r.n)
           h == Len(f) + Len(g) + 1
           l == Len(f) + Len(g) + 2
<1>1. /\ Typed /\ r = prog[c][1] /\ r \in Requests(calls) /\ StaysIn(cur[c], r) /\ r.do = "rmall"
  BY FirstIs
<1>2. Stored(bucket, calls) /\ calls \in Nat
  BY ProgIs, <1>1
<1>3. r.n \in Path
  BY <1>1 DEF Requests, Valid
<1>4. /\ q \in Seq(Requests(calls)) /\ Len(f) \in Nat /\ Len(g) \in Nat
      /\ DOMAIN q = 1..l /\ f \in Seq(F) /\ g \in Seq(D)
  BY <1>1, <1>2, RemovesAre
<1>5. /\ \A i \in DOMAIN f : q[i] = RemoveObject(f[i])
      /\ \A i \in DOMAIN g : q[Len(f) + i] = RecursionFor(g[i])
      /\ q[h] = RemoveObject(HolderOf(r.n))
      /\ q[l] = RemoveObject(KeyOf(r.n, TRUE))
  BY <1>1, <1>2, RemovesAre
<1>6. (\A p \in F : p \in Path) /\ \A p \in D : p \in Path
  BY <1>2, <1>3, EntryIs
<1>7. \A k \in DOMAIN bucket : Under(r.n, k) /\ k # HolderOf(r.n) =>
        k \in F \/ \E p \in D : Under(p, k)
  BY <1>2, <1>3, Covered
<1>8. (\A p \in F : \E i \in DOMAIN f : f[i] = p) /\ \A p \in D : \E i \in DOMAIN g : g[i] = p
  <2>1. IsFiniteSet(F) /\ IsFiniteSet(D)
    BY <1>2, <1>3, EntryIs
  <2> HIDE DEF F, D
  <2>2. /\ \A p \in F : \E i \in DOMAIN SetToSeq(F) : SetToSeq(F)[i] = p
        /\ \A p \in D : \E i \in DOMAIN SetToSeq(D) : SetToSeq(D)[i] = p
    BY <2>1, ListingIs
  <2> QED BY <2>2 DEF F, D
<1>9. Becomes(c, q) /\ bucket' = bucket /\ cur' = cur
  OBVIOUS
<1>10. KeyOf(r.n, TRUE) \in Path \/ Last(KeyOf(r.n, TRUE)) # Holder
  <2>1. r.n \in Seq(Names \cup {Holder, ""}) /\ "" \in Names \cup {Holder, ""}
    BY <1>3, PathIs DEF Key
  <2>2. Last(Append(r.n, "")) = ""
    <3> DEFINE S == Names \cup {Holder, ""}
               k == r.n
    <3>1. k \in Seq(S) /\ "" \in S
      BY <2>1
    <3> HIDE DEF S, k
    <3>2. Last(Append(k, "")) = ""
      BY <3>1, AppendIs
    <3> QED BY <3>2 DEF k
  <2> QED BY <1>3, <2>2, TreeAssumption DEF KeyOf
<1>11. h \in Nat /\ l \in Nat /\ l = h + 1 /\ h \in DOMAIN q /\ l \in DOMAIN q
  BY <1>4
<1> HIDE DEF f, g, q, F, D, r
<1>12. /\ DOMAIN f = 1..Len(f) /\ DOMAIN g = 1..Len(g)
       /\ (\A i \in DOMAIN f : f[i] \in F) /\ \A i \in DOMAIN g : g[i] \in D
  BY <1>4, ElementOfSeq
<1>13. /\ \A i \in DOMAIN f : i \in DOMAIN q /\ i \in 1..h - 1
       /\ \A i \in DOMAIN g : Len(f) + i \in DOMAIN q /\ Len(f) + i \in 1..h - 1
  BY <1>4, <1>12
<1>14. \A i \in DOMAIN q : i \in DOMAIN f \/ i - Len(f) \in DOMAIN g \/ i = h \/ i = l
  BY <1>4, <1>12
<1>15. /\ \A i \in DOMAIN f : q[i].do = "remove" /\ q[i].n = f[i]
       /\ q[h].do = "remove" /\ q[h].n = HolderOf(r.n)
       /\ q[l].do = "remove" /\ q[l].n = KeyOf(r.n, TRUE)
  <2>1. \A k : RemoveObject(k).do = "remove" /\ RemoveObject(k).n = k
    BY DEF RemoveObject, Request
  <2> HIDE DEF h, l
  <2> QED BY <1>5, <2>1
<1>16. \A i \in DOMAIN g : q[Len(f) + i].do = "rmall" /\ q[Len(f) + i].n = g[i]
  <2>1. \A p : RecursionFor(p).do = "rmall" /\ RecursionFor(p).n = p
    BY DEF RecursionFor, Request
  <2>2. \A i \in DOMAIN g : q[Len(f) + i] = RecursionFor(g[i])
    BY <1>5
  <2> QED BY <2>1, <2>2
<1>17. \A i \in DOMAIN q : i - Len(f) \in DOMAIN g => q[i].do = "rmall"
  <2> SUFFICES ASSUME NEW i \in DOMAIN q, i - Len(f) \in DOMAIN g PROVE q[i].do = "rmall"
    OBVIOUS
  <2>1. PICK j \in DOMAIN g : j = i - Len(f)
    OBVIOUS
  <2>2. i = Len(f) + j
    BY <1>4, <2>1
  <2> QED BY <1>16, <2>2
<1> HIDE DEF h, l
<1>18. \A i \in DOMAIN q : q[i].do \in {"remove", "rmall"}
  BY <1>14, <1>15, <1>17
<1>19. \A i \in DOMAIN q : Placeable(bucket, q, i)
  BY <1>18 DEF Placeable, Makers
<1>20. ASSUME NEW k \in DOMAIN bucket, Under(r.n, k), k # HolderOf(r.n)
       PROVE  \E j \in 1..h - 1 : j \in DOMAIN q /\ Clears(bucket, q, j, k)
  <2>1. CASE k \in F
    <3>1. PICK i \in DOMAIN f : f[i] = k
      BY <1>8, <2>1
    <3>2. i \in DOMAIN q /\ i \in 1..h - 1 /\ q[i].do = "remove" /\ q[i].n = k
      BY <1>13, <1>15, <3>1
    <3>3. Clears(bucket, q, i, k)
      BY <3>2 DEF Clears
    <3> QED BY <3>2, <3>3
  <2>2. ASSUME NEW p \in D, Under(p, k)
        PROVE  \E j \in 1..h - 1 : j \in DOMAIN q /\ Clears(bucket, q, j, k)
    <3>1. PICK i \in DOMAIN g : g[i] = p
      BY <1>8
    <3>2. PICK x \in DOMAIN q : x = Len(f) + i /\ x \in 1..h - 1
      BY <1>13
    <3>3. q[x].do = "rmall" /\ q[x].n = p
      BY <1>16, <3>1, <3>2
    <3>4. Clears(bucket, q, x, k)
      BY <2>2, <3>3 DEF Clears
    <3> QED BY <3>2, <3>4
  <2> QED BY <1>7, <1>20, <2>1, <2>2
<1>21. Cleared(bucket, q)
  <2> SUFFICES ASSUME NEW i \in DOMAIN q, NEW k \in DOMAIN bucket, Bares(q[i], k)
               PROVE  \E j \in 1..i - 1 : Clears(bucket, q, j, k)
    BY DEF Cleared
  <2>1. PICK d \in Path : q[i].do = "remove" /\ q[i].n = HolderOf(d) /\ Under(d, k) /\ k # HolderOf(d)
    BY DEF Bares
  <2>2. HolderOf(d) \notin Path /\ Last(HolderOf(d)) = Holder
    BY HolderLies
  <2>3. i \notin DOMAIN f
    BY <1>6, <1>12, <1>15, <2>1, <2>2
  <2>4. i - Len(f) \notin DOMAIN g
    BY <1>17, <2>1
  <2>5. i # l
    BY <1>10, <1>15, <2>1, <2>2
  <2>6. i = h
    BY <1>14, <2>3, <2>4, <2>5
  <2>7. d = r.n
    BY <1>3, <1>15, <2>1, <2>6, HolderLies
  <2> QED BY <1>20, <2>1, <2>6, <2>7
<1>22. ASSUME NEW k \in DOMAIN bucket, Clears(bucket, prog[c], 1, k)
       PROVE  \E j \in DOMAIN q : Clears(bucket, q, j, k)
  <2>1. Under(r.n, k)
    BY <1>1, <1>22 DEF Clears
  <2>2. k = HolderOf(r.n) => Clears(bucket, q, h, k)
    BY <1>15 DEF Clears
  <2> QED BY <1>11, <1>20, <2>1, <2>2
<1>23. /\ \A d : ~Makes(r, d)
       /\ \A n : ~Handles(r, n)
       /\ ~OnFile(r)
  BY <1>1 DEF Makes, Makers, Handles, OnFile
<1>24. cur[c].op # "Rename"
  BY <1>1 DEF StaysIn
<1> QED BY <1>1, <1>9, <1>19, <1>21, <1>22, <1>23, <1>24, SteadyQuiet DEF r

\* Steps of a call that leave the bucket alone.
LEMMA QuietSteady ==
  ASSUME ShortOf = {}, SafeInv, NEW c \in Clients, Frame(c), ~blurred',
         Asks(c) \/ Hears(c) \/ Lists(c) \/ GivesUp(c), Refused(c) \/ Steady(c)
  PROVE  bucket' = bucket /\ (prog'[c] # <<>> => Refused(c)' \/ Steady(c)')
<1>1. Typed /\ prog[c] # <<>> /\ cur' = cur
  BY DEF SafeInv, Frame
<1>2. bucket' = bucket
  BY DEF Asks, Hears, Lists, GivesUp
<1>3. CASE Asks(c)
  BY <1>1, <1>2, <1>3, AsksSteady
<1>4. CASE Hears(c)
  BY <1>2, <1>4, HearsSteady
<1>5. CASE Lists(c)
  <2>1. Head(prog[c]).do \in {"mvlist", "rmall"}
    BY <1>5 DEF Lists
  <2>2. Steady(c)
    BY <2>1 DEF Refused
  <2>3. \/ Head(prog[c]).do = "mvlist" /\ Becomes(c, Moves(Head(prog[c]), bucket))
        \/ Head(prog[c]).do = "rmall" /\ Becomes(c, Removes(Head(prog[c]), bucket))
    BY <1>1, <1>5, ListsIs
  <2> QED BY <1>1, <1>2, <2>2, <2>3, MovesSteady, RemovesSteady
<1>6. CASE GivesUp(c)
  <2>1. prog'[c] = <<>>
    BY <1>1, <1>6 DEF GivesUp, Continue, Return, Typed
  <2> QED BY <1>2, <2>1
<1> QED BY <1>2, <1>3, <1>4, <1>5, <1>6

-----------------------------------------------------------------------------
(* Holders first: steps that change the bucket.                            *)

\* What waits behind a write or a removal.
LEMMA LaterIs ==
  ASSUME SafeInv, NEW c \in Clients, prog[c] # <<>>, Steady(c),
         Head(prog[c]).do \in {"put", "copy", "remove"}, NEW i \in DOMAIN Tail(prog[c])
  PROVE  LET r == Head(prog[c]) s == Tail(prog[c])[i] IN
         /\ Waits(s) /\ s \in Requests(calls) /\ StaysIn(cur[c], s)
         /\ cur[c].n \in Path /\ cur[c].to \in Path
         /\ s.do = "rename" => Based(bucket, s.to) \/ Makes(r, Parent(s.to))
         /\ r.do # "remove" \/ s.do = "rename" => cur[c].op = "Rename"
         /\ cur[c].op = "Rename" => OnFile(s) \/ Apart(cur[c])
<1> DEFINE r == Head(prog[c])
           p == prog[c]
           rest == Tail(p)
           s == rest[i]
<1>1. /\ Typed /\ r = p[1] /\ 1 \in DOMAIN p /\ r \in Requests(calls) /\ StaysIn(cur[c], r)
  BY FirstIs
<1>2. /\ p \in Seq(Requests(calls)) /\ rest \in Seq(Requests(calls))
      /\ \A j \in DOMAIN rest : Waits(rest[j])
  BY <1>1, ProgIs
<1>3. i \in Nat /\ i + 1 \in DOMAIN p /\ i + 1 > 1 /\ s = p[i + 1]
  BY <1>2, FirstAndRest
<1>4. Waits(s) /\ s \in Requests(calls)
  BY <1>2, ElementOfSeq
<1>5. StaysIn(cur[c], s)
  BY <1>3 DEF SafeInv, Within
<1>6. cur[c].n \in Path /\ cur[c].to \in Path
  BY <1>1 DEF Typed
<1>7. Placeable(bucket, p, i + 1) /\ i + 1 # 1
  BY <1>3 DEF Steady
<1>8. Distinct(c)
  BY DEF Steady
<1> HIDE DEF r, p, rest, s
<1>9. s.do = "rename" => Based(bucket, s.to) \/ Makes(r, Parent(s.to))
  BY <1>1, <1>3, <1>7 DEF Placeable
<1>10. r.do \in {"put", "copy", "remove"}
  BY DEF r
<1>11. r.do # "remove" \/ s.do = "rename" => cur[c].op = "Rename"
  BY <1>1, <1>4, <1>5, <1>10 DEF StaysIn, Waits, Makers
<1>12. cur[c].op = "Rename" => OnFile(s) \/ Apart(cur[c])
  <2> SUFFICES ASSUME cur[c].op = "Rename" PROVE OnFile(s) \/ Apart(cur[c])
    OBVIOUS
  <2>1. CASE \A j \in DOMAIN p : j = 1 /\ Whole(bucket, p[j], cur[c])
    BY <1>3, <2>1
  <2>2. CASE \A j \in DOMAIN p : OnFile(p[j])
    BY <1>3, <2>2
  <2> QED BY <1>8, <2>1, <2>2 DEF Distinct, p
<1> QED BY <1>4, <1>5, <1>6, <1>9, <1>11, <1>12 DEF r, s, rest, p

\* What lies in the tree that a Rename writes lies in no directory of the tree
\* that it removes.
LEMMA TreesApart ==
  ASSUME NEW call, call.n \in Path, call.to \in Path, Apart(call), NEW k \in Key, InTree(call.to, k)
  PROVE  /\ ~InTree(call.n, k)
         /\ \A d \in Path : InTree(call.n, HolderOf(d)) => ~Under(d, k)
<1>1. call.n \in Key /\ call.to \in Key
  BY PathIs
<1>2. ~InTree(call.n, k)
  BY <1>1, Trees DEF Apart
<1>3. ASSUME NEW d \in Path, InTree(call.n, HolderOf(d)), Under(d, k)
      PROVE  FALSE
  <2>1. InTree(call.n, d) /\ d \in Key /\ InTree(d, k)
    BY <1>3, HolderLies DEF Under
  <2> QED BY <1>1, <1>2, <2>1, Trees
<1> QED BY <1>2, <1>3

\* A file or a holder is written where its directory is marked.
LEMMA WriteSteady ==
  ASSUME SafeInv, Typed', NEW c \in Clients, Frame(c), Steady(c), WellFormed(bucket),
         Head(prog[c]).do \in {"put", "copy"}, Effect(c, Head(prog[c]))
  PROVE  WellFormed(bucket') /\ (Becomes(c, <<>>) => Steady(c)')
<1> DEFINE r == Head(prog[c])
           rest == Tail(prog[c])
           k0 == IF r.do = "put" THEN r.n ELSE r.to
<1>1. prog[c] # <<>> /\ cur' = cur
  BY DEF Frame
<1>2. /\ Typed /\ r = prog[c][1] /\ r \in Requests(calls) /\ StaysIn(cur[c], r)
      /\ Placeable(bucket, <<r>>, 1)
      /\ cur[c].op = "Rename" /\ r.do \in Makers \cup {"put"} => InTree(cur[c].to, Place(r))
  BY <1>1, FirstIs
<1>3. DOMAIN bucket' = DOMAIN bucket \cup {k0} /\ r.do \in {"put", "copy"}
  BY DEF Effect, Placed
<1>4. Stored(bucket, calls) /\ Stored(bucket', calls')
  BY <1>2 DEF Typed, TypeOK
<1> HIDE DEF r
<1>5. k0 \in DOMAIN bucket' /\ k0 \in Key /\ k0 # <<>>
  BY <1>3, <1>4, KeysAre
<1>6. \A p : Based(bucket, p) => Based(bucket', p)
  BY <1>3, BasedIs
<1>7. /\ r.do = "put" /\ r.v = 0 => k0 = HolderOf(Parent(k0)) /\ Parent(k0) \in Path /\ Based(bucket, Parent(k0))
      /\ r.do = "copy" \/ r.v # 0 => k0 \in Path /\ Based(bucket, k0)
  <2>1. CASE r.do = "put" /\ r.v = 0
    <3>1. r.n # <<>> /\ Parent(r.n) \in Path /\ Last(r.n) = Holder
      BY <1>2, <2>1 DEF Requests, Valid
    <3>2. r.n \notin Path
      BY <3>1, PathIs
    <3>3. k0 = HolderOf(Parent(k0))
      BY <1>4, <1>5, <2>1, <3>2, KeysAre
    <3> QED BY <1>2, <2>1, <3>1, <3>3, PlaceableOne
  <2>2. CASE r.do = "put" /\ r.v # 0
    <3>1. r.n \in Path
      BY <1>2, <2>2 DEF Requests, Valid
    <3> QED BY <1>2, <2>2, <3>1, PlaceableOne
  <2>3. CASE r.do = "copy"
    <3>1. r.to \in Path
      BY <1>2 DEF Requests
    <3> QED BY <1>2, <2>3, <3>1, PlaceableOne
  <2> QED BY <1>3, <2>1, <2>2, <2>3
<1> HIDE DEF k0
<1>8. Based(bucket', k0)
  <2>1. CASE r.do = "put" /\ r.v = 0
    <3>1. Based(bucket', Parent(k0)) /\ HolderOf(Parent(k0)) \in DOMAIN bucket' /\ Parent(k0) \in Path
      BY <1>5, <1>6, <1>7, <2>1
    <3> QED BY <1>5, <3>1, BasedIs
  <2>2. CASE r.do = "copy" \/ r.v # 0
    BY <1>6, <1>7, <2>2
  <2> QED BY <1>3, <2>1, <2>2
<1>9. WellFormed(bucket')
  <2>1. \A k \in DOMAIN bucket : Based(bucket, k)
    BY <1>4, WellFormedIs
  <2>2. \A k \in DOMAIN bucket' : Based(bucket', k)
    BY <1>3, <1>6, <1>8, <2>1
  <2> QED BY <1>4, <2>2, WellFormedIs
<1>10. ASSUME NEW i \in DOMAIN rest
       PROVE  LET s == rest[i] IN
              /\ ~Bares(s, k0) /\ (s.do = "rename" => s.n # k0)
              /\ s.do = "rename" => Based(bucket', s.to)
  <2> DEFINE s == rest[i]
             call == cur[c]
  <2>1. /\ Waits(s) /\ s \in Requests(calls) /\ StaysIn(call, s) /\ call.n \in Path /\ call.to \in Path
        /\ s.do = "rename" => Based(bucket, s.to) \/ Makes(r, Parent(s.to))
        /\ r.do # "remove" \/ s.do = "rename" => call.op = "Rename"
        /\ call.op = "Rename" => OnFile(s) \/ Apart(call)
    BY <1>1, LaterIs DEF r
  <2> HIDE DEF s, rest
  <2>2. call.op = "Rename"
    BY <1>3, <2>1
  <2>3. ASSUME s.do = "rename"
        PROVE  Based(bucket', s.to)
    <3>1. CASE Based(bucket, s.to)
      BY <1>6, <3>1
    <3>2. CASE Makes(r, Parent(s.to))
      <4>1. s.to \in Path /\ s.to # <<>> /\ Parent(s.to) \in Path /\ s.to \in Key
        BY <2>1, <2>3, PathIs DEF Requests, Valid
      <4>2. r.do = "put" /\ k0 = HolderOf(Parent(s.to))
        BY <1>3, <3>2 DEF Makes, Makers, k0
      <4>3. Parent(k0) = Parent(s.to) /\ k0 \notin Path
        BY <4>1, <4>2, HolderLies
      <4>4. r.v = 0
        BY <1>7, <4>3
      <4>5. Based(bucket', Parent(s.to)) /\ HolderOf(Parent(s.to)) \in DOMAIN bucket'
        BY <1>5, <1>6, <1>7, <4>2, <4>3, <4>4
      <4> QED BY <4>1, <4>5, BasedIs
    <3> QED BY <2>1, <2>3, <3>1, <3>2
  <2>4. ASSUME OnFile(s)
        PROVE  ~Bares(s, k0) /\ (s.do = "rename" => s.n # k0)
    <3>1. ~Bares(s, k0)
      BY <2>4, HolderLies DEF OnFile, Bares
    <3>2. s.do # "rename"
      BY <2>4 DEF OnFile
    <3> QED BY <3>1, <3>2
  <2>5. ASSUME Apart(call)
        PROVE  ~Bares(s, k0) /\ (s.do = "rename" => s.n # k0)
    <3>1. InTree(call.to, k0)
      <4>1. CASE r.do = "copy"
        BY <1>2, <2>2, <4>1 DEF StaysIn, Writes, k0
      <4>2. CASE r.do = "put"
        <5>1. r.v = 0 /\ Place(r) = Parent(k0)
          BY <1>2, <2>2, <4>2 DEF StaysIn, Place, k0
        <5>2. InTree(call.to, Parent(k0))
          BY <1>2, <2>2, <4>2, <5>1
        <5> QED BY <1>7, <2>1, <4>2, <5>1, <5>2, HolderLies
      <4> QED BY <1>3, <4>1, <4>2
    <3>2. ~InTree(call.n, k0) /\ \A d \in Path : InTree(call.n, HolderOf(d)) => ~Under(d, k0)
      BY <1>5, <2>1, <2>5, <3>1, TreesApart
    <3>3. s.do = "rename" => InTree(call.n, s.n)
      BY <2>1, <2>2 DEF StaysIn, Writes
    <3>4. s.do = "remove" => InTree(call.n, s.n)
      BY <2>1, <2>2 DEF StaysIn
    <3>5. ~Bares(s, k0)
      BY <3>2, <3>4 DEF Bares
    <3> QED BY <3>2, <3>3, <3>5
  <2>6. ~Bares(s, k0) /\ (s.do = "rename" => s.n # k0)
    BY <2>1, <2>2, <2>4, <2>5
  <2> QED BY <2>3, <2>6 DEF s
<1>11. ASSUME Becomes(c, <<>>)
       PROVE  Steady(c)'
  <2> DEFINE q == <<>>
  <2>1. DOMAIN q = {} /\ Becomes(c, q)
    BY <1>11
  <2> HIDE DEF q
  <2>2. Cleared(bucket, prog[c]) /\ Distinct(c) /\ MakesWithin(c)
    BY DEF Steady
  <2>3. ~Whole(bucket, r, cur[c])
    BY <1>3 DEF Whole
  <2>4. Distinct(c)' /\ MakesWithin(c)'
    BY <1>1, <1>2, <2>1, <2>2, <2>3, RenameBecomes DEF r
  <2>5. Cleared(bucket', q)
    BY <2>1 DEF Cleared
  <2>6. \A k : ~Clears(bucket, prog[c], 1, k)
    BY <1>2, <1>3 DEF Clears
  <2>7. \A k \in DOMAIN bucket' \ DOMAIN bucket : \A i \in DOMAIN rest :
          LET s == rest[i] IN ~Bares(s, k) /\ (s.do = "rename" => s.n # k)
    BY <1>3, <1>10
  <2>8. \A n : ~Handles(r, n)
    BY <1>3 DEF Handles
  <2>9. Cleared(bucket, prog[c])'
    BY <1>1, <1>2, <2>1, <2>2, <2>5, <2>6, <2>7, <2>8, ClearedBecomes DEF r
  <2>10. (\A i \in DOMAIN prog[c] : Placeable(bucket, prog[c], i))'
    BY <1>1, <1>2, <1>10, <2>1, PlacedBecomes
  <2> QED BY <2>4, <2>9, <2>10 DEF Steady
<1> QED BY <1>9, <1>11

\* A holder is removed when nothing else is left in its directory.
LEMMA RemoveSteady ==
  ASSUME SafeInv, Typed', NEW c \in Clients, Frame(c), Steady(c), WellFormed(bucket),
         Head(prog[c]).do = "remove", Effect(c, Head(prog[c]))
  PROVE  WellFormed(bucket') /\ (Becomes(c, <<>>) => Steady(c)')
<1> DEFINE r == Head(prog[c])
           rest == Tail(prog[c])
<1>1. prog[c] # <<>> /\ cur' = cur
  BY DEF Frame
<1>2. /\ Typed /\ r = prog[c][1] /\ 1 \in DOMAIN prog[c] /\ r \in Requests(calls) /\ StaysIn(cur[c], r)
  BY <1>1, FirstIs
<1>3. DOMAIN bucket' = DOMAIN bucket \ {r.n} /\ r.do = "remove"
  BY DEF Effect
<1>4. Stored(bucket, calls) /\ Stored(bucket', calls')
  BY <1>2 DEF Typed, TypeOK
<1> HIDE DEF r
<1>5. ASSUME NEW k \in DOMAIN bucket'
      PROVE  ~Bares(r, k)
  <2>1. k \in DOMAIN bucket
    BY <1>3
  <2>2. ASSUME Bares(r, k)
        PROVE  FALSE
    <3>1. \E j \in 1..1 - 1 : Clears(bucket, prog[c], j, k)
      BY <1>2, <2>1, <2>2 DEF Steady, Cleared
    <3> QED BY <3>1
  <2> QED BY <2>2
<1>6. WellFormed(bucket')
  <2>1. \A k \in DOMAIN bucket : Based(bucket, k)
    BY <1>4, WellFormedIs
  <2>2. ASSUME NEW k \in DOMAIN bucket', NEW d \in Path, d # <<>>, Under(d, k)
        PROVE  HolderOf(d) \in DOMAIN bucket'
    <3>1. HolderOf(d) \in DOMAIN bucket
      BY <1>3, <2>1, <2>2 DEF Based
    <3>2. HolderOf(d) # r.n
      BY <1>3, <1>5, <2>2 DEF Bares
    <3> QED BY <1>3, <3>1, <3>2
  <2>3. \A k \in DOMAIN bucket' : Based(bucket', k)
    BY <2>2 DEF Based
  <2> QED BY <1>4, <2>3, WellFormedIs
<1>7. ASSUME NEW i \in DOMAIN rest
      PROVE  rest[i].do = "rename" => Based(bucket', rest[i].to)
  <2> DEFINE s == rest[i]
             call == cur[c]
  <2>1. /\ s \in Requests(calls) /\ StaysIn(call, s) /\ call.n \in Path /\ call.to \in Path
        /\ s.do = "rename" => Based(bucket, s.to) \/ Makes(r, Parent(s.to))
        /\ s.do = "rename" => call.op = "Rename"
        /\ call.op = "Rename" => OnFile(s) \/ Apart(call)
    BY <1>1, LaterIs DEF r
  <2> HIDE DEF s, rest
  <2>2. ASSUME s.do = "rename"
        PROVE  Based(bucket', s.to)
    <3>1. Based(bucket, s.to)
      BY <1>3, <2>1, <2>2 DEF Makes, Makers
    <3>2. Apart(call) /\ call.op = "Rename"
      BY <2>1, <2>2 DEF OnFile
    <3>3. InTree(call.n, r.n) /\ InTree(call.to, s.to)
      BY <1>2, <1>3, <2>1, <2>2, <3>2 DEF StaysIn, Writes
    <3>4. s.to \in Key
      BY <2>1, HolderLies DEF Requests
    <3>5. \A d \in Path : InTree(call.n, HolderOf(d)) => ~Under(d, s.to)
      BY <2>1, <3>2, <3>3, <3>4, TreesApart
    <3>6. ASSUME NEW d \in Path, d # <<>>, Under(d, s.to)
          PROVE  HolderOf(d) \in DOMAIN bucket'
      <4>1. HolderOf(d) \in DOMAIN bucket
        BY <3>1, <3>6 DEF Based
      <4>2. HolderOf(d) # r.n
        BY <3>3, <3>5, <3>6
      <4> QED BY <1>3, <4>1, <4>2
    <3> QED BY <3>6 DEF Based
  <2> QED BY <2>2 DEF s
<1>8. ASSUME Becomes(c, <<>>)
      PROVE  Steady(c)'
  <2> DEFINE q == <<>>
  <2>1. DOMAIN q = {} /\ Becomes(c, q)
    BY <1>8
  <2> HIDE DEF q
  <2>2. Cleared(bucket, prog[c]) /\ Distinct(c) /\ MakesWithin(c)
    BY DEF Steady
  <2>3. ~Whole(bucket, r, cur[c])
    BY <1>3 DEF Whole
  <2>4. Distinct(c)' /\ MakesWithin(c)'
    BY <1>1, <1>2, <2>1, <2>2, <2>3, RenameBecomes DEF r
  <2>5. Cleared(bucket', q)
    BY <2>1 DEF Cleared
  <2>6. \A k \in DOMAIN bucket' : ~Clears(bucket, prog[c], 1, k)
    BY <1>2, <1>3 DEF Clears
  <2>7. DOMAIN bucket' \ DOMAIN bucket = {}
    BY <1>3
  <2>8. \A n \in DOMAIN bucket' : ~Handles(r, n)
    BY <1>3 DEF Handles
  <2>9. Cleared(bucket, prog[c])'
    BY <1>1, <1>2, <2>1, <2>2, <2>5, <2>6, <2>7, <2>8, ClearedBecomes DEF r
  <2>10. (\A i \in DOMAIN prog[c] : Placeable(bucket, prog[c], i))'
    BY <1>1, <1>2, <1>7, <2>1, PlacedBecomes
  <2> QED BY <2>4, <2>9, <2>10 DEF Steady
<1> QED BY <1>6, <1>8

\* Every change of the bucket keeps its directories marked.
LEMMA ChangeSteady ==
  ASSUME SafeInv, Typed', NEW c \in Clients, Frame(c), Changes(c), WellFormed(bucket),
         Refused(c) \/ Steady(c)
  PROVE  WellFormed(bucket') /\ (prog'[c] # <<>> => Steady(c)')
<1>1. Effect(c, Head(prog[c])) /\ Head(prog[c]).do \in {"put", "copy", "remove"} /\ Steady(c)
  BY DEF Changes, Refused
<1>2. WellFormed(bucket') /\ (Becomes(c, <<>>) => Steady(c)')
  BY <1>1, WriteSteady, RemoveSteady
<1>3. Typed /\ prog \in [Clients -> Seq(Requests(calls))]
  BY DEF SafeInv, Typed
<1>4. Becomes(c, <<>>) \/ Stops(c)
  BY <1>3, ChangesIs
<1>5. Stops(c) => prog'[c] = <<>>
  BY <1>3 DEF Stops, Continue, Return
<1> QED BY <1>2, <1>4, <1>5

-----------------------------------------------------------------------------
(* Calls that begin where no other is in progress.                         *)

\* Below a directory without a file's key, or in no directory.
LEMMA ReadyIs ==
  ASSUME NEW b, NEW n, Stored(b, n), WellFormed(b), NEW p \in Path, p # <<>>,
         Stat(b, Parent(p)) # "file"
  PROVE  Parent(p) \notin DOMAIN b /\ Ready(b, p)
<1>1. <<>> \notin DOMAIN b
  BY KeysAre
<1>2. Parent(p) \notin DOMAIN b
  BY <1>1 DEF Stat
<1> QED BY <1>2, BelowBased DEF Ready

\* A program of one request, as a call begins with it.
LEMMA FirstSteady ==
  ASSUME NEW c \in Clients, NEW x, prog'[c] = <<x>>,
         x.do \in {"mkdir", "put", "parent", "rename", "rmall"},
         cur'[c].op = "Rename" => x.do = "rename" /\ x.n = cur'[c].n /\ x.to = cur'[c].to,
         Placeable(bucket', <<x>>, 1)
  PROVE  Steady(c)'
<1> DEFINE q == <<x>>
<1>1. DOMAIN q = {1} /\ q[1] = x /\ prog'[c] = q /\ Placeable(bucket', q, 1)
  OBVIOUS
<1> HIDE DEF q
<1>2. Cleared(bucket, prog[c])'
  BY <1>1 DEF Cleared, Bares
<1>3. Distinct(c)'
  BY <1>1 DEF Distinct, Whole
<1>4. MakesWithin(c)'
  BY <1>1 DEF MakesWithin, Makers
<1>5. (\A i \in DOMAIN prog[c] : Placeable(bucket, prog[c], i))'
  BY <1>1
<1> QED BY <1>2, <1>3, <1>4, <1>5 DEF Steady

\* A call that begins alone can write where it is going to, or will be refused.
LEMMA BeginSteady ==
  ASSUME ShortOf = {}, SafeInv, WellFormed(bucket),
         NEW c \in Clients, NEW op \in Calls, NEW n \in Paths, NEW to \in Paths, Begin(c, op, n, to)
  PROVE  prog'[c] # <<>> => Refused(c)' \/ Steady(c)'
<1> DEFINE call == [op |-> op, n |-> n, to |-> to, v |-> calls + 1]
           p == Program(op, n, to, calls + 1)
           next == IF op = "RemoveAll" /\ n = <<>> THEN Return("errPermission") ELSE Go(p)
<1>1. n \in Path /\ to \in Path /\ op \in Ops
  BY TreeAssumption DEF Path
<1>2. Typed /\ Stored(bucket, calls) /\ calls \in Nat
      /\ prog \in [Clients -> Seq(Requests(calls))]
      /\ cur \in [Clients -> [op : Ops \cup {"none"}, n : Path, to : Path, v : 0..calls]]
  <2>1. calls \in 0..MaxCalls /\ MaxCalls \in Nat /\ Typed
    BY TreeAssumption DEF SafeInv, Typed, TypeOK
  <2> QED BY <2>1 DEF Typed, TypeOK
<1>3. cur' = [cur EXCEPT ![c] = call] /\ prog' = [prog EXCEPT ![c] = next.prog] /\ bucket' = bucket
      /\ Proper(op, n, to)
  BY DEF Begin
<1>4. cur'[c] = call /\ prog'[c] = next.prog
  BY <1>2, <1>3
<1>5. next.prog = <<>> \/ next.prog = p
  BY DEF Return, Go
<1>6. call.op = op /\ call.n = n /\ call.to = to /\ calls + 1 # 0
  BY <1>2
<1> HIDE DEF next, call
<1>7. CASE op = "Mkdir"
  <2> DEFINE x == Request("mkdir", n, <<>>, 0)
  <2>1. x.do = "mkdir" /\ x.n = n
    BY DEF Request
  <2>2. p = <<x>>
    BY <1>7 DEF Program
  <2> HIDE DEF x
  <2>3. CASE Occupied(bucket, n)
    <3>1. prog'[c] # <<>> => Head(prog'[c]) = x
      BY <1>4, <1>5, <2>2
    <3> QED BY <1>3, <2>1, <2>3, <3>1 DEF Refused
  <2>4. CASE ~Occupied(bucket, n)
    <3>1. n # <<>> /\ Stat(bucket, Parent(n)) # "file"
      BY <1>3, <1>7, <2>4 DEF Proper, Occupied
    <3>2. Ready(bucket, n)
      BY <1>1, <1>2, <3>1, ReadyIs
    <3>3. Placeable(bucket, <<x>>, 1)
      BY <2>1, <3>2, PlaceableOne
    <3> QED BY <1>3, <1>4, <1>5, <1>6, <1>7, <2>1, <2>2, <3>3, FirstSteady
  <2> QED BY <2>3, <2>4
<1>8. CASE op = "Create"
  <2>1. n # <<>> /\ Stat(bucket, Parent(n)) # "file"
    BY <1>3, <1>8 DEF Proper
  <2>2. Ready(bucket, n)
    BY <1>1, <1>2, <2>1, ReadyIs
  <2>3. CASE Len(n) = 1
    <3> DEFINE x == PutObject(n, calls + 1)
    <3>1. x.do = "put" /\ x.n = n /\ x.v = calls + 1
      BY DEF PutObject, Request
    <3>2. p = <<x>>
      BY <1>8, <2>3 DEF Program
    <3> HIDE DEF x
    <3>3. Based(bucket, n)
      BY <1>1, <2>3, BasedIs
    <3>4. Placeable(bucket, <<x>>, 1)
      BY <1>6, <3>1, <3>3, PlaceableOne DEF Makers
    <3> QED BY <1>3, <1>4, <1>5, <1>6, <1>8, <3>1, <3>2, <3>4, FirstSteady
  <2>4. CASE Len(n) # 1
    <3> DEFINE x == Request("parent", n, <<>>, calls + 1)
    <3>1. x.do = "parent" /\ x.n = n
      BY DEF Request
    <3>2. p = <<x>>
      BY <1>8, <2>4 DEF Program
    <3> HIDE DEF x
    <3>3. Placeable(bucket, <<x>>, 1)
      BY <2>2, <3>1, PlaceableOne
    <3> QED BY <1>3, <1>4, <1>5, <1>6, <1>8, <3>1, <3>2, <3>3, FirstSteady
  <2> QED BY <2>3, <2>4
<1>9. CASE op = "Rename" /\ n = to
  <2>1. p = <<>>
    BY <1>9 DEF Program
  <2> QED BY <1>4, <1>5, <2>1
<1>10. CASE op = "Rename" /\ n # to
  <2>1. to # <<>> /\ Stat(bucket, Parent(to)) # "file"
    BY <1>3, <1>10 DEF Proper
  <2>2. Parent(to) \notin DOMAIN bucket /\ Ready(bucket, to)
    BY <1>1, <1>2, <2>1, ReadyIs
  <2>3. Based(bucket, to) \/ (Ready(bucket, to) /\ n \notin DOMAIN bucket)
    <3>1. CASE n \in DOMAIN bucket
      <4>1. n # <<>>
        BY <1>2, <3>1, KeysAre
      <4>2. Stat(bucket, n) = "file"
        BY <3>1, <4>1 DEF Stat
      <4>3. Stat(bucket, Parent(to)) = "dir"
        BY <1>3, <1>10, <4>2 DEF Proper
      <4>4. Parent(to) = <<>> \/ HasPrefix(bucket, Parent(to))
        BY <2>2, <4>3 DEF Stat
      <4>5. Parent(to) \in Path
        BY <1>1, <2>1, PathIs
      <4>6. Occupied(bucket, Parent(to))
        BY <1>2, <4>4, <4>5, PrefixIs DEF Occupied
      <4> QED BY <2>1, <2>2, <4>6 DEF Ready
    <3> QED BY <2>2, <3>1
  <2> DEFINE x == Request("rename", n, to, 0)
  <2>4. x.do = "rename" /\ x.n = n /\ x.to = to
    BY DEF Request
  <2>5. p = <<x>>
    BY <1>10 DEF Program
  <2> HIDE DEF x
  <2>6. Placeable(bucket, <<x>>, 1)
    BY <2>3, <2>4, PlaceableOne DEF Makers
  <2> QED BY <1>3, <1>4, <1>5, <1>6, <1>10, <2>4, <2>5, <2>6, FirstSteady
<1>11. CASE op = "RemoveAll"
  <2> DEFINE x == Request("rmall", n, <<>>, 0)
  <2>1. x.do = "rmall" /\ x.n = n
    BY DEF Request
  <2>2. p = <<x>>
    BY <1>11 DEF Program
  <2> HIDE DEF x
  <2>3. Placeable(bucket, <<x>>, 1)
    BY <2>1, PlaceableOne DEF Makers
  <2> QED BY <1>3, <1>4, <1>5, <1>6, <1>11, <2>1, <2>2, <2>3, FirstSteady
<1> QED BY <1>1, <1>7, <1>8, <1>9, <1>10, <1>11 DEF Ops

-----------------------------------------------------------------------------
(* A directory's holder is its first key and its last.                     *)

\* Nothing has begun, and a tree that is not well formed is blurred.
LEMMA HoldersInit == Init => HoldersInv
<1> SUFFICES ASSUME Init, ~blurred PROVE HoldersInv
  BY DEF HoldersInv
<1>1. \A c \in Clients : prog[c] = <<>>
  BY DEF Init
<1>2. WellFormed(bucket)
  BY DEF Init
<1> QED BY <1>1, <1>2 DEF HoldersInv

\* Every step keeps directories marked.
LEMMA HoldersNext ==
  ASSUME ShortOf = {}
  PROVE  SafeInv /\ HoldersInv /\ [Next]_vars => HoldersInv'
<1> SUFFICES ASSUME SafeInv, HoldersInv, [Next]_vars, ~blurred' PROVE HoldersInv'
  BY DEF HoldersInv
<1>1. Typed /\ Typed' /\ prog \in [Clients -> Seq(Requests(calls))]
  BY TypedNext DEF SafeInv, Typed
<1> DEFINE Marked == /\ WellFormed(bucket)
                     /\ \A c, d \in Clients : prog[c] # <<>> /\ prog[d] # <<>> => c = d
                     /\ \A c \in Clients : prog[c] # <<>> => Refused(c) \/ Steady(c)
<1>2. CASE UNCHANGED vars
  <2>1. UNCHANGED <<bucket, prog, cur, blurred>>
    BY <1>2 DEF vars
  <2>2. Marked
    BY <2>1 DEF HoldersInv
  <2>3. \A c \in Clients : (Refused(c) => Refused(c)') /\ (Steady(c) => Steady(c)')
    BY <2>1 DEF Refused, Steady, Distinct, MakesWithin
  <2> QED BY <2>1, <2>2, <2>3 DEF HoldersInv
<1>3. ASSUME NEW c \in Clients, RequestOf(c)
      PROVE  HoldersInv'
  <2>1. Frame(c) /\ (Asks(c) \/ Hears(c) \/ Lists(c) \/ GivesUp(c) \/ Changes(c))
    BY <1>1, <1>3, Steps
  <2>2. ~blurred /\ prog[c] # <<>>
    BY <2>1 DEF Frame
  <2>3. Marked
    BY <2>2 DEF HoldersInv
  <2>4. \A d \in Clients \ {c} : prog[d] = <<>>
    BY <2>2, <2>3
  <2>5. \A d \in Clients \ {c} : prog'[d] = prog[d]
    <3>1. CASE Stops(c)
      BY <1>1, <3>1 DEF Stops, Continue, Return
    <3>2. ASSUME NEW q, Becomes(c, q)
          PROVE  \A d \in Clients \ {c} : prog'[d] = prog[d]
      BY <1>1, <2>2, <3>2, BecomesIs
    <3> QED BY <1>1, <2>1, <3>1, <3>2, StepProgs
  <2>6. WellFormed(bucket') /\ (prog'[c] # <<>> => Refused(c)' \/ Steady(c)')
    <3>1. CASE Changes(c)
      BY <1>1, <2>1, <2>2, <2>3, <3>1, ChangeSteady
    <3>2. CASE Asks(c) \/ Hears(c) \/ Lists(c) \/ GivesUp(c)
      BY <2>1, <2>2, <2>3, <3>2, QuietSteady
    <3> QED BY <2>1, <3>1, <3>2
  <2> QED BY <2>4, <2>5, <2>6 DEF HoldersInv
<1>4. ASSUME NEW c \in Clients, NEW op \in Calls, NEW n \in Paths, NEW to \in Paths, Begin(c, op, n, to)
      PROVE  HoldersInv'
  <2>1. ~blurred /\ (\A d \in Clients : prog[d] = <<>>) /\ bucket' = bucket
    BY <1>4 DEF Begin
  <2>2. \A d \in Clients \ {c} : prog'[d] = <<>>
    BY <1>1, <1>4, <2>1 DEF Begin
  <2>3. WellFormed(bucket)
    BY <2>1 DEF HoldersInv
  <2>4. prog'[c] # <<>> => Refused(c)' \/ Steady(c)'
    BY <1>4, <2>3, BeginSteady
  <2> QED BY <2>1, <2>2, <2>3, <2>4 DEF HoldersInv
<1> QED BY <1>2, <1>3, <1>4 DEF Next, RequestOf

\* Where one client works at a time and no failed Stat is misread, a directory
\* is marked by its holder from before its first entry until after its last
\* (fs.go: the order of the requests of Mkdir, Rename and RemoveAll).  No name
\* may start another: statDirectory lists by prefix without a slash, so that a
\* name that starts a directory's would pass for a directory that has no holder.
THEOREM HoldersKept ==
  ASSUME ShortOf = {}
  PROVE  Spec => []HoldersFirst
<1>1. HoldersInv => HoldersFirst
  BY DEF HoldersInv, HoldersFirst
<1>2. SafeInv /\ HoldersInv /\ [Next]_vars => HoldersInv'
  BY HoldersNext
<1> QED BY <1>1, <1>2, HoldersInit, AlwaysSafe, PTL DEF Spec

-----------------------------------------------------------------------------
(* A call that meets no fault and no other call: the invariant.            *)

\* r is going to write the key k, or a tree that k is in; it takes k away.
Brings(r, k) ==
  \/ r.do \in {"rename", "mvlist"} /\ InTree(r.to, k)
  \/ r.do = "copy" /\ k = r.to
  \/ r.do \in Makers \cup {"put"} /\ k = HolderOf(Place(r))
Takes(r, k) ==
  \/ r.do \in {"rename", "mvlist", "rmall"} /\ InTree(r.n, k)
  \/ r.do = "remove" /\ k = r.n
Taken(p, k) == \E i \in DOMAIN p : Takes(p[i], k)
Brought(p, k) == \E i \in DOMAIN p : Brings(p[i], k)

\* A directory is being made at n in b, or a file.
Making(b, call, p) ==
  LET r == p[1] IN
  /\ DOMAIN p = {1} /\ r.do \in Makers \cup {"put"} /\ Place(r) = call.n
  /\ r.do # "mkdir" => ~Occupied(b, call.n)
  /\ r.do = "put" => Occupied(b, Parent(call.n)) /\ r.n = HolderOf(call.n) /\ r.v = 0
Creating(b, call, p) ==
  LET r == p[1] IN
  /\ DOMAIN p = {1} /\ r.do \in {"parent", "put"} /\ r.n = call.n /\ call.n # <<>>
  /\ r.v = call.v /\ r.v # 0
  /\ r.do = "put" => Occupied(b, Parent(call.n))

\* What is left of t in b once what p has still to do is done: the rest of it.
Removing(t, b, call, p) ==
  /\ call.n # <<>>
  /\ \A k \in DOMAIN b : k \in DOMAIN t /\ b[k] = t[k]
  /\ \A k \in DOMAIN t : ~InTree(call.n, k) => k \in DOMAIN b
  /\ \A k \in DOMAIN b : InTree(call.n, k) => Taken(p, k)

\* A Rename that has yet to find out what it moves.
Looking(t, call, p) ==
  LET r == p[1] IN
  /\ DOMAIN p = {1} /\ r.do \in {"rename", "mvlist"} /\ r.n = call.n /\ r.to = call.to
  /\ r.do = "mvlist" \/ r.at = "list" => call.n \notin DOMAIN t
  /\ r.do = "mvlist" => call.n # <<>> /\ Occupied(t, call.n) /\ ~InTree(call.n, call.to)

\* A Rename of a file: it is copied, then removed.
MovingFile(t, b, call, p) ==
  LET r == p[1] IN
  /\ call.n \in DOMAIN t
  /\ \/ /\ DOMAIN p = {1, 2} /\ r.do = "copy" /\ r.n = call.n /\ r.to = call.to
        /\ p[2].do = "remove" /\ p[2].n = call.n /\ b = t
     \/ /\ DOMAIN p = {1} /\ r.do = "remove" /\ r.n = call.n
        /\ b = Placed(t, call.to, t[call.n])

\* A Rename of a directory to a place that is taken.
Clashing(t, b, call, p) ==
  p[1].do = "mkdir" /\ p[1].n = call.to /\ Occupied(t, call.to) /\ b = t

\* What b holds when p has still to move what is left of call.n in t.
Halfway(t, b, n, to, p) ==
  /\ \A k \in DOMAIN b :
       IF InTree(to, k) THEN Rebased(k, to, n) \in DOMAIN t /\ b[k] = t[Rebased(k, to, n)]
       ELSE k \in DOMAIN t /\ b[k] = t[k]
  /\ \A k \in DOMAIN t : ~InTree(n, k) => k \in DOMAIN b
  /\ \A k \in DOMAIN t : InTree(n, k) =>
       /\ k \in DOMAIN b <=> Taken(p, k)
       /\ Rebased(k, n, to) \in DOMAIN b <=> ~Brought(p, Rebased(k, n, to))

\* What a request moves is there, and where it goes to is free.
Fit(t, b, n, to, r) ==
  /\ Writes(r) => /\ Under(n, r.n) /\ r.to = Rebased(r.n, n, to)
                  /\ \E k \in DOMAIN t : InTree(r.n, k)
  /\ r.do = "copy" => r.n \in DOMAIN t /\ r.n \in DOMAIN b
  /\ r.do = "mvlist" \/ (r.do = "rename" /\ r.at = "list") => r.n \notin DOMAIN t
  /\ r.do \in Makers \cup {"put"} =>
       /\ InTree(to, Place(r)) /\ HolderOf(Rebased(Place(r), to, n)) \in DOMAIN t
       /\ ~Occupied(b, Place(r))
       /\ Place(r) = to => b = t
  /\ r.do = "put" => r.n = HolderOf(Place(r)) /\ r.v = 0

\* No two requests bring the same, or take the same.
Once(t, n, to, p) ==
  \A k \in DOMAIN t : InTree(n, k) =>
    \A i, j \in DOMAIN p :
      \/ Takes(p[i], k) /\ Takes(p[j], k)
      \/ Brings(p[i], Rebased(k, n, to)) /\ Brings(p[j], Rebased(k, n, to))
      => i = j

MovingDir(t, b, call, p) ==
  LET n == call.n to == call.to IN
  /\ ~Occupied(t, to) /\ Halfway(t, b, n, to, p) /\ Once(t, n, to, p)
  /\ \A i \in DOMAIN p : Fit(t, b, n, to, p[i])
  /\ Occupied(t, Parent(to)) \/ (p[1].do \in Makers /\ p[1].n = to)

Renaming(t, b, call, p) ==
  /\ call.to # <<>> /\ call.n # call.to
  /\ call.n \in DOMAIN t => Occupied(t, Parent(call.to)) /\ Stat(t, call.to) # "dir"
  /\ \/ Looking(t, call, p) /\ b = t
     \/ call.n # <<>> /\ ~InTree(call.n, call.to) /\ MovingFile(t, b, call, p)
     \/ /\ call.n # <<>> /\ ~InTree(call.n, call.to)
        /\ call.n \notin DOMAIN t /\ Occupied(t, call.n)
        /\ Clashing(t, b, call, p) \/ MovingDir(t, b, call, p)

Underway(t, b, call, p) ==
  CASE call.op = "Mkdir" -> b = t /\ Making(t, call, p)
    [] call.op = "Create" -> b = t /\ Creating(t, call, p)
    [] call.op = "RemoveAll" -> Removing(t, b, call, p)
    [] call.op = "Rename" -> Renaming(t, b, call, p)
    [] OTHER -> FALSE

\* A call that has returned ret has done what it should; one that has a program
\* left is underway.
Goes(t, b, call, x) ==
  IF x.prog = <<>> THEN [ret |-> x.ret, tree |-> View(b)] = Contract(call, View(t))
  ELSE Underway(t, b, call, x.prog)

\* No directory of t loses its last entry when the tree of n goes, or what goes
\* to to brings it back; all directories in the tree of n have their holders.
Stays(t, n, to) ==
  \A x \in Path : x # <<>> /\ ~InTree(n, x) /\ (\E k \in DOMAIN t : InTree(n, k) /\ InTree(x, k)) =>
    InTree(x, to) \/ \E k \in DOMAIN t : InTree(x, k) /\ ~InTree(n, k)
Marked(t, n) ==
  \A k \in DOMAIN t : \A d \in Path :
    d # <<>> /\ InTree(n, d) /\ Under(d, k) => HolderOf(d) \in DOMAIN t
Plain(t, call) ==
  /\ call.op = "RemoveAll" => Stays(t, call.n, <<>>)
  /\ call.op = "Rename" => Stays(t, call.n, call.to) /\ Marked(t, call.n)

LoneInv ==
  \A c \in alone :
    /\ \A d \in Clients \ {c} : prog[d] = <<>>
    /\ Stored(before, calls) /\ ~Mixed(before)
    /\ Plain(before, cur[c]) =>
         Goes(before, bucket, cur[c], [prog |-> prog[c], ret |-> ret[c]])

-----------------------------------------------------------------------------
(* The tree a bucket shows.                                                *)

\* What Stat says of a path tells what is there.
LEMMA StatIs ==
  ASSUME ShortOf = {}, NEW b, NEW n, Stored(b, n), NEW p \in Path
  PROVE  /\ Stat(b, p) = "missing" <=> ~Occupied(b, p)
         /\ Stat(b, p) = "file" <=> p \in DOMAIN b
         /\ p \in DOMAIN b => Occupied(b, p)
<1>1. <<>> \notin DOMAIN b
  BY KeysAre
<1>2. CASE p = <<>>
  BY <1>1, <1>2 DEF Stat, Occupied
<1>3. CASE p # <<>>
  <2>1. HasPrefix(b, p) <=> \E k \in DOMAIN b : InTree(p, k)
    BY <1>3, PrefixIs
  <2>2. p \in DOMAIN b => \E k \in DOMAIN b : InTree(p, k)
    BY PathIs, Trees
  <2> QED BY <1>3, <2>1, <2>2 DEF Stat, Occupied
<1> QED BY <1>2, <1>3

\* The tree a bucket shows: the root, and everything that something is at or
\* below.
Shown(b) == [p \in {p \in Path : Occupied(b, p)} |-> IF p \in DOMAIN b THEN b[p] ELSE 0]

LEMMA ViewIs ==
  ASSUME ShortOf = {}, NEW b, NEW n, Stored(b, n)
  PROVE  View(b) = Shown(b)
<1> DEFINE places == Paths \cup UNION {Prefixes(PathOf(k)) : k \in DOMAIN b}
           D == {p \in places : Stat(b, p) # "missing"}
<1>1. \A k \in DOMAIN b : PathOf(k) \in Path /\ \A p \in Path : InTree(p, k) => InTree(p, PathOf(k))
  <2> SUFFICES ASSUME NEW k \in DOMAIN b
               PROVE  PathOf(k) \in Path /\ \A p \in Path : InTree(p, k) => InTree(p, PathOf(k))
    OBVIOUS
  <2>1. k \in Key /\ k # <<>> /\ Parent(k) \in Path /\ (k \in Path \/ k = HolderOf(Parent(k)))
    BY KeysAre
  <2>2. CASE k \in Path
    <3>1. Last(k) # Holder
      BY <2>1, <2>2, PathIs
    <3> QED BY <2>2, <3>1 DEF PathOf
  <2>3. CASE k = HolderOf(Parent(k))
    <3>1. Last(k) = Holder
      BY <2>1, <2>3, HolderLies
    <3>2. \A p \in Path : InTree(p, k) => InTree(p, Parent(k))
      BY <2>1, <2>3, HolderLies
    <3> QED BY <2>1, <3>1, <3>2 DEF PathOf
  <2> QED BY <2>1, <2>2, <2>3
<1>2. \A q \in Path : \A p : p \in Prefixes(q) => p \in Path
  BY DEF Prefixes, Path
<1>3. \A q, p \in Path : InTree(p, q) => p \in Prefixes(q)
  <2> SUFFICES ASSUME NEW q \in Path, NEW p \in Path, InTree(p, q) PROVE p \in Prefixes(q)
    OBVIOUS
  <2>1. Len(p) \in 0..Len(q) /\ SubSeq(q, 1, Len(p)) = p
    BY DEF InTree, Path
  <2> QED BY <2>1 DEF Prefixes
<1>4. \A p \in places : p \in Path
  <2>1. \A p \in Paths : p \in Path
    BY TreeAssumption DEF Path
  <2>2. \A k \in DOMAIN b : \A p \in Prefixes(PathOf(k)) : p \in Path
    BY <1>1, <1>2
  <2> QED BY <2>1, <2>2
<1>5. \A p \in Path : Occupied(b, p) => p \in places
  <2> SUFFICES ASSUME NEW p \in Path, Occupied(b, p) PROVE p \in places
    OBVIOUS
  <2>1. CASE p = <<>>
    BY <2>1, TreeAssumption
  <2>2. CASE p # <<>>
    <3>1. PICK k \in DOMAIN b : InTree(p, k)
      BY <2>2 DEF Occupied
    <3>2. p \in Prefixes(PathOf(k))
      BY <1>1, <1>3, <3>1
    <3> QED BY <3>2
  <2> QED BY <2>1, <2>2
<1>6. View(b) = [p \in D |-> IF Stat(b, p) = "file" THEN b[p] ELSE 0]
  BY DEF View
<1> HIDE DEF places
<1>7. D = {p \in Path : Occupied(b, p)}
  BY <1>4, <1>5, StatIs
<1>8. \A p \in D : Stat(b, p) = "file" <=> p \in DOMAIN b
  BY <1>4, StatIs
<1> HIDE DEF D
<1> QED BY <1>6, <1>7, <1>8 DEF Shown

\* What a tree says is at a path.
LEMMA KindIs ==
  ASSUME NEW b, NEW n \in Nat, Stored(b, n), NEW p \in Path
  PROVE  /\ KindIn(Shown(b), p) = "missing" <=> ~Occupied(b, p)
         /\ KindIn(Shown(b), p) = "file" <=> Occupied(b, p) /\ p \in DOMAIN b
         /\ KindIn(Shown(b), p) = "dir" <=> Occupied(b, p) /\ p \notin DOMAIN b
<1>1. p \in DOMAIN b => b[p] # 0
  <2>1. p \in DOMAIN b => p # <<>>
    BY KeysAre
  <2>2. p # <<>> => Last(p) # Holder
    BY PathIs
  <2> QED BY <2>1, <2>2 DEF Stored
<1>2. DOMAIN Shown(b) = {x \in Path : Occupied(b, x)}
  BY DEF Shown
<1>3. p \in DOMAIN Shown(b) => Shown(b)[p] = IF p \in DOMAIN b THEN b[p] ELSE 0
  BY DEF Shown
<1> QED BY <1>1, <1>2, <1>3 DEF KindIn

\* A file or a directory that is made where its parent is.
LEMMA PlacedShown ==
  ASSUME NEW t, NEW n, Stored(t, n), NEW p \in Path, p # <<>>, Occupied(t, Parent(p)),
         NEW k \in {p, HolderOf(p)}, NEW v, k = p \/ (v = 0 /\ p \notin DOMAIN t)
  PROVE  Shown(Placed(t, k, v)) = Placed(Shown(t), p, v)
<1> DEFINE b == Placed(t, k, v)
<1>1. DOMAIN b = DOMAIN t \cup {k} /\ \A x \in DOMAIN b : b[x] = IF x = k THEN v ELSE t[x]
  BY DEF Placed
<1> HIDE DEF b
<1>2. Parent(p) \in Path /\ Parent(p) \in Key /\ p \in Key
  BY PathIs
<1>3. \A x \in Path : InTree(x, k) <=> InTree(x, p)
  BY HolderLies
<1>4. \A x \in Path : InTree(x, p) => x = p \/ Occupied(t, x)
  <2> SUFFICES ASSUME NEW x \in Path, InTree(x, p), x # p PROVE Occupied(t, x)
    OBVIOUS
  <2>1. InTree(x, Parent(p)) /\ x \in Key
    BY <1>2, Trees, PathIs DEF Under
  <2>2. CASE Parent(p) = <<>>
    <3>1. x = <<>>
      <4>1. Len(x) <= 0 /\ Len(x) \in Nat
        BY <2>1, <2>2 DEF InTree, Path
      <4> QED BY <4>1, EmptySeq DEF Path
    <3> QED BY <3>1 DEF Occupied
  <2>3. CASE Parent(p) # <<>>
    <3>1. PICK j \in DOMAIN t : InTree(Parent(p), j)
      BY <2>3 DEF Occupied
    <3>2. j \in Key
      BY KeysAre
    <3>3. InTree(x, j)
      BY <1>2, <2>1, <3>1, <3>2, Trees
    <3> QED BY <3>3 DEF Occupied
  <2> QED BY <2>2, <2>3
<1>5. \A x \in Path : Occupied(b, x) <=> x = p \/ Occupied(t, x)
  <2>1. InTree(p, p)
    BY <1>2, Trees
  <2> QED BY <1>1, <1>3, <1>4, <2>1 DEF Occupied
<1>6. \A x \in Path : x \in DOMAIN b <=> x \in DOMAIN t \/ (x = p /\ k = p)
  BY <1>1, HolderLies
<1>7. \A x \in Path : (IF x \in DOMAIN b THEN b[x] ELSE 0)
                        = IF x = p THEN v ELSE IF x \in DOMAIN t THEN t[x] ELSE 0
  <2> SUFFICES ASSUME NEW x \in Path
               PROVE  (IF x \in DOMAIN b THEN b[x] ELSE 0)
                        = IF x = p THEN v ELSE IF x \in DOMAIN t THEN t[x] ELSE 0
    OBVIOUS
  <2>1. x = k <=> x = p /\ k = p
    BY HolderLies
  <2> QED BY <1>1, <1>6, <2>1
<1> DEFINE S == {x \in Path : Occupied(t, x)}
<1>8. {x \in Path : Occupied(b, x)} = S \cup {p}
  BY <1>5
<1>9. Placed(Shown(t), p, v)
        = [x \in S \cup {p} |-> IF x = p THEN v ELSE IF x \in DOMAIN t THEN t[x] ELSE 0]
  BY DEF Placed, Shown
<1>10. Shown(b) = [x \in S \cup {p} |-> IF x \in DOMAIN b THEN b[x] ELSE 0]
  BY <1>8 DEF Shown
<1> QED BY <1>7, <1>9, <1>10 DEF b

-----------------------------------------------------------------------------
(* Where what is moved lies.                                               *)

\* What lies in the tree of something that is moved.
LEMMA RebasedBelow ==
  ASSUME NEW S, NEW n \in Seq(S), NEW to \in Seq(S), NEW p \in Seq(S), NEW k \in Seq(S),
         InTree(n, p), InTree(p, k)
  PROVE  InTree(Rebased(p, n, to), Rebased(k, n, to))
<1> DEFINE x == Rebased(p, n, to)
           y == Rebased(k, n, to)
<1>1. InTree(n, k)
  BY InTreeTransitive
<1>2. /\ x \in Seq(S) /\ Len(x) = Len(to) + (Len(p) - Len(n))
      /\ y \in Seq(S) /\ Len(y) = Len(to) + (Len(k) - Len(n))
  BY <1>1, RebasedLen
<1>3. /\ \A i \in 1..Len(to) : x[i] = to[i] /\ y[i] = to[i]
      /\ \A i \in 1..Len(p) - Len(n) : x[Len(to) + i] = p[Len(n) + i]
      /\ \A i \in 1..Len(k) - Len(n) : y[Len(to) + i] = k[Len(n) + i]
  <2>1. ASSUME NEW i \in 1..Len(to)
        PROVE  x[i] = to[i] /\ y[i] = to[i]
    BY <1>1, RebasedStart
  <2>2. ASSUME NEW i \in 1..Len(p) - Len(n)
        PROVE  x[Len(to) + i] = p[Len(n) + i]
    BY RebasedRest
  <2>3. ASSUME NEW i \in 1..Len(k) - Len(n)
        PROVE  y[Len(to) + i] = k[Len(n) + i]
    BY <1>1, RebasedRest
  <2> QED BY <2>1, <2>2, <2>3
<1>4. /\ Len(n) <= Len(p) /\ Len(p) <= Len(k) /\ \A i \in 1..Len(p) : k[i] = p[i]
  BY InTreeElements
<1>5. Len(n) \in Nat /\ Len(p) \in Nat /\ Len(k) \in Nat /\ Len(to) \in Nat
  OBVIOUS
<1> HIDE DEF x, y
<1>6. ASSUME NEW i \in 1..Len(x)
      PROVE  y[i] = x[i]
  <2>1. CASE i <= Len(to)
    <3>1. i \in 1..Len(to)
      BY <1>2, <1>5, <2>1
    <3> QED BY <1>3, <3>1
  <2>2. CASE ~(i <= Len(to))
    <3> DEFINE e == i - Len(to)
    <3>1. e \in 1..Len(p) - Len(n) /\ i = Len(to) + e
      BY <1>2, <1>5, <2>2
    <3>2. e \in 1..Len(k) - Len(n) /\ Len(n) + e \in 1..Len(p)
      BY <1>4, <1>5, <3>1
    <3> HIDE DEF e
    <3> QED BY <1>3, <1>4, <3>1, <3>2
  <2> QED BY <2>1, <2>2
<1>7. Len(x) <= Len(y)
  BY <1>2, <1>4, <1>5
<1>8. InTree(x, y)
  BY <1>2, <1>6, <1>7, InTreeElements
<1> QED BY <1>8 DEF x, y

\* What lies directly below something that is moved.
LEMMA RebasedAppend ==
  ASSUME NEW S, NEW n \in Seq(S), NEW to \in Seq(S), NEW p \in Seq(S), NEW e \in S, InTree(n, p)
  PROVE  Rebased(Append(p, e), n, to) = Append(Rebased(p, n, to), e)
<1> DEFINE q == Append(p, e)
           x == Rebased(p, n, to)
           y == Rebased(q, n, to)
           z == Append(x, e)
<1>1. q \in Seq(S) /\ Len(q) = Len(p) + 1 /\ InTree(p, q)
  BY AppendIs
<1>2. \A i \in 1..Len(p) : q[i] = p[i]
  OBVIOUS
<1>3. q[Len(p) + 1] = e
  OBVIOUS
<1> HIDE DEF q
<1>4. InTree(n, q)
  BY <1>1, InTreeTransitive
<1>5. /\ x \in Seq(S) /\ Len(x) = Len(to) + (Len(p) - Len(n))
      /\ y \in Seq(S) /\ Len(y) = Len(to) + (Len(q) - Len(n))
  BY <1>1, <1>4, RebasedLen
<1>6. /\ \A i \in 1..Len(to) : x[i] = to[i] /\ y[i] = to[i]
      /\ \A i \in 1..Len(p) - Len(n) : x[Len(to) + i] = p[Len(n) + i]
      /\ \A i \in 1..Len(q) - Len(n) : y[Len(to) + i] = q[Len(n) + i]
  <2>1. ASSUME NEW i \in 1..Len(to)
        PROVE  x[i] = to[i] /\ y[i] = to[i]
    BY <1>1, <1>4, RebasedStart
  <2>2. ASSUME NEW i \in 1..Len(p) - Len(n)
        PROVE  x[Len(to) + i] = p[Len(n) + i]
    BY RebasedRest
  <2>3. ASSUME NEW i \in 1..Len(q) - Len(n)
        PROVE  y[Len(to) + i] = q[Len(n) + i]
    BY <1>1, <1>4, RebasedRest
  <2> QED BY <2>1, <2>2, <2>3
<1>7. Len(n) \in Nat /\ Len(p) \in Nat /\ Len(to) \in Nat /\ Len(n) <= Len(p)
  BY InTreeElements
<1> HIDE DEF x, y
<1>8. z \in Seq(S) /\ Len(z) = Len(x) + 1 /\ (\A i \in 1..Len(x) : z[i] = x[i]) /\ z[Len(x) + 1] = e
  BY <1>5
<1> HIDE DEF z
<1>9. Len(z) = Len(y)
  BY <1>1, <1>5, <1>7, <1>8
<1>10. ASSUME NEW i \in 1..Len(z)
       PROVE  z[i] = y[i]
  <2>1. CASE i <= Len(to)
    <3>1. i \in 1..Len(to) /\ i \in 1..Len(x)
      BY <1>5, <1>7, <2>1
    <3> QED BY <1>6, <1>8, <3>1
  <2>2. CASE ~(i <= Len(to)) /\ i <= Len(x)
    <3> DEFINE d == i - Len(to)
    <3>1. d \in 1..Len(p) - Len(n) /\ i = Len(to) + d /\ i \in 1..Len(x)
      BY <1>5, <1>7, <2>2
    <3>2. d \in 1..Len(q) - Len(n) /\ Len(n) + d \in 1..Len(p)
      BY <1>1, <1>7, <3>1
    <3> HIDE DEF d
    <3> QED BY <1>2, <1>6, <1>8, <3>1, <3>2
  <2>3. CASE ~(i <= Len(x))
    <3> DEFINE d == i - Len(to)
    <3>0. Len(x) = Len(to) + (Len(p) - Len(n)) /\ Len(x) \in Nat /\ Len(z) = Len(x) + 1
      BY <1>5, <1>8
    <3>1. i = Len(x) + 1 /\ d = Len(p) + 1 - Len(n) /\ i = Len(to) + d
      BY <1>7, <2>3, <3>0
    <3>2. d \in 1..Len(q) - Len(n) /\ Len(n) + d = Len(p) + 1
      BY <1>1, <1>7, <3>1
    <3> HIDE DEF d
    <3> QED BY <1>3, <1>6, <1>8, <3>1, <3>2
  <2> QED BY <2>1, <2>2, <2>3
<1>11. z = y
  BY <1>5, <1>8, <1>9, <1>10, SeqEqual
<1> QED BY <1>11 DEF x, y, z, q

\* Keys and paths that are moved from the tree of n to that of to.
LEMMA Rebases ==
  ASSUME NEW n \in Path, NEW to \in Path
  PROVE  /\ \A p \in Path : InTree(n, p) => Rebased(p, n, to) \in Path
         /\ \A k \in Key : InTree(n, k) =>
              /\ Rebased(k, n, to) \in Key /\ InTree(to, Rebased(k, n, to))
              /\ Rebased(Rebased(k, n, to), to, n) = k
         /\ \A p, k \in Key : InTree(n, p) /\ InTree(p, k) =>
              InTree(Rebased(p, n, to), Rebased(k, n, to))
         /\ \A p, k \in Key : InTree(n, p) /\ InTree(n, k)
                                /\ InTree(Rebased(p, n, to), Rebased(k, n, to)) => InTree(p, k)
         /\ \A p \in Path : InTree(n, p) => Rebased(HolderOf(p), n, to) = HolderOf(Rebased(p, n, to))
         /\ \A p \in Path : p # <<>> /\ InTree(n, Parent(p)) =>
              Rebased(p, n, to) = Append(Rebased(Parent(p), n, to), Last(p))
         /\ Rebased(n, n, to) = to
<1> DEFINE S == Names \cup {Holder, ""}
<1>1. Key = Seq(S) /\ Holder \in S
  BY DEF Key
<1>2. n \in Key /\ to \in Key /\ Path = Seq(Names)
  BY PathIs DEF Path
<1> HIDE DEF S
<1>3. \A p \in Path : InTree(n, p) => Rebased(p, n, to) \in Path
  BY <1>2, RebasedInTree
<1>4. \A k \in Key : InTree(n, k) =>
        /\ Rebased(k, n, to) \in Key /\ InTree(to, Rebased(k, n, to))
        /\ Rebased(Rebased(k, n, to), to, n) = k
  BY <1>1, <1>2, RebasedInTree, RebasedBack
<1>5. \A p, k \in Key : InTree(n, p) /\ InTree(p, k) =>
        InTree(Rebased(p, n, to), Rebased(k, n, to))
  BY <1>1, <1>2, RebasedBelow
<1>6. ASSUME NEW p \in Key, NEW k \in Key, InTree(n, p), InTree(n, k),
             InTree(Rebased(p, n, to), Rebased(k, n, to))
      PROVE  InTree(p, k)
  <2> DEFINE x == Rebased(p, n, to)
             y == Rebased(k, n, to)
  <2>1. x \in Key /\ y \in Key /\ InTree(to, x) /\ InTree(x, y)
        /\ Rebased(x, to, n) = p /\ Rebased(y, to, n) = k
    BY <1>4, <1>6
  <2> HIDE DEF x, y
  <2>2. InTree(Rebased(x, to, n), Rebased(y, to, n))
    BY <1>1, <1>2, <2>1, RebasedBelow
  <2> QED BY <2>1, <2>2
<1>7. \A p \in Path : InTree(n, p) => Rebased(HolderOf(p), n, to) = HolderOf(Rebased(p, n, to))
  <2>1. \A p \in Path : p \in Key
    BY PathIs
  <2> QED BY <1>1, <1>2, <2>1, RebasedAppend DEF HolderOf
<1>8. \A p \in Path : p # <<>> /\ InTree(n, Parent(p)) =>
        Rebased(p, n, to) = Append(Rebased(Parent(p), n, to), Last(p))
  <2> SUFFICES ASSUME NEW p \in Path, p # <<>>, InTree(n, Parent(p))
               PROVE  Rebased(p, n, to) = Append(Rebased(Parent(p), n, to), Last(p))
    OBVIOUS
  <2>1. Parent(p) \in Seq(Names) /\ Last(p) \in Names /\ p = Append(Parent(p), Last(p))
    BY <1>2, ParentIs
  <2>2. \A d \in Seq(Names), e \in Names : InTree(n, d) =>
          Rebased(Append(d, e), n, to) = Append(Rebased(d, n, to), e)
    BY <1>2, RebasedAppend
  <2> QED BY <2>1, <2>2
<1>9. Rebased(n, n, to) = to
  BY <1>2, RebasedSelf
<1> QED BY <1>3, <1>4, <1>5, <1>6, <1>7, <1>8, <1>9

-----------------------------------------------------------------------------
(* The tree that is left, or moved.                                        *)

\* What is shown when everything in the tree of d is gone.
LEMMA WithoutShown ==
  ASSUME NEW t, NEW m, Stored(t, m), NEW d \in Path, d # <<>>, Stays(t, d, <<>>), NEW b,
         \A k \in DOMAIN b : k \in DOMAIN t /\ b[k] = t[k],
         \A k \in DOMAIN t : k \in DOMAIN b <=> ~InTree(d, k)
  PROVE  Shown(b) = WithoutTree(Shown(t), d)
<1>1. \A k \in DOMAIN t : k \in Key
  BY KeysAre
<1>2. ASSUME NEW x \in Path, Occupied(b, x)
      PROVE  Occupied(t, x) /\ ~InTree(d, x)
  <2>1. CASE x = <<>>
    <3>1. ~InTree(d, <<>>)
      <4>1. InTree(d, <<>>) => Len(d) = 0
        BY DEF InTree, Path
      <4> QED BY <4>1, EmptySeq DEF Path
    <3> QED BY <2>1, <3>1 DEF Occupied
  <2>2. CASE x # <<>>
    <3>1. PICK k \in DOMAIN b : InTree(x, k)
      BY <1>2, <2>2 DEF Occupied
    <3>2. k \in DOMAIN t /\ ~InTree(d, k)
      BY <3>1
    <3>3. InTree(d, x) => InTree(d, k)
      BY <1>1, <3>1, <3>2, PathIs, Trees
    <3> QED BY <3>1, <3>2, <3>3 DEF Occupied
  <2> QED BY <2>1, <2>2
<1>3. ASSUME NEW x \in Path, Occupied(t, x), ~InTree(d, x)
      PROVE  Occupied(b, x)
  <2>1. CASE x = <<>>
    BY <2>1 DEF Occupied
  <2>2. CASE x # <<>>
    <3>1. PICK k \in DOMAIN t : InTree(x, k)
      BY <1>3, <2>2 DEF Occupied
    <3>2. CASE ~InTree(d, k)
      BY <3>1, <3>2 DEF Occupied
    <3>3. CASE InTree(d, k)
      <4>1. ~InTree(x, <<>>)
        BY <2>2, EmptySeq DEF InTree, Path
      <4>2. \E j \in DOMAIN t : InTree(x, j) /\ ~InTree(d, j)
        BY <1>3, <2>2, <3>1, <3>3, <4>1 DEF Stays
      <4> QED BY <4>2 DEF Occupied
    <3> QED BY <3>2, <3>3
  <2> QED BY <2>1, <2>2
<1> DEFINE S == {x \in Path : Occupied(t, x)}
           R == {x \in Path : Occupied(b, x)}
           f(x) == IF x \in DOMAIN t THEN t[x] ELSE 0
<1>4. R = {x \in S : ~InTree(d, x)}
  BY <1>2, <1>3
<1>5. \A x \in R : (IF x \in DOMAIN b THEN b[x] ELSE 0) = f(x)
  BY <1>4
<1>6. Shown(t) = [x \in S |-> f(x)] /\ Shown(b) = [x \in R |-> IF x \in DOMAIN b THEN b[x] ELSE 0]
  BY DEF Shown
<1> HIDE DEF S, R, f
<1>7. WithoutTree(Shown(t), d) = [x \in R |-> f(x)]
  BY <1>4, <1>6 DEF WithoutTree
<1> QED BY <1>5, <1>6, <1>7

\* What is shown when everything in the tree of n is in that of to.
LEMMA MovedShown ==
  ASSUME NEW t, NEW m, Stored(t, m), NEW n \in Path, n # <<>>, Occupied(t, n),
         NEW to \in Path, to # <<>>, Occupied(t, Parent(to)), ~InTree(n, to), Stays(t, n, to),
         NEW b,
         \A k \in DOMAIN b :
           /\ k \in Key
           /\ IF InTree(to, k) THEN Rebased(k, to, n) \in DOMAIN t /\ b[k] = t[Rebased(k, to, n)]
              ELSE k \in DOMAIN t /\ ~InTree(n, k) /\ b[k] = t[k],
         \A k \in DOMAIN t : IF InTree(n, k) THEN Rebased(k, n, to) \in DOMAIN b ELSE k \in DOMAIN b
  PROVE  Shown(b) = MovedTree(Shown(t), n, to)
<1> DEFINE Came(x) == \E p \in Path : Occupied(t, p) /\ InTree(n, p) /\ x = Rebased(p, n, to)
           Stayed(x) == Occupied(t, x) /\ ~InTree(n, x)
<1>1. /\ \A k \in DOMAIN t : k \in Key
      /\ n \in Key /\ to \in Key /\ \A p \in Path : p \in Key
  BY KeysAre, PathIs
<1>2. \A p \in Path : InTree(n, p) => Rebased(p, n, to) \in Path /\ p # <<>>
  <2>1. InTree(n, <<>>) => Len(n) = 0
    BY DEF InTree, Path
  <2>2. ~InTree(n, <<>>)
    BY <2>1, EmptySeq DEF Path
  <2> QED BY <2>2, Rebases
<1>3. \A x \in Path : InTree(to, x) => Rebased(x, to, n) \in Path /\ InTree(n, Rebased(x, to, n))
                                         /\ Rebased(Rebased(x, to, n), n, to) = x
  BY <1>1, Rebases
<1>4. ASSUME NEW x \in Path, Occupied(b, x)
      PROVE  Came(x) \/ Stayed(x)
  <2>1. CASE x = <<>>
    BY <1>2, <2>1 DEF Occupied
  <2>2. CASE x # <<>>
    <3>1. PICK k \in DOMAIN b : InTree(x, k)
      BY <1>4, <2>2 DEF Occupied
    <3>2. CASE ~InTree(to, k)
      <4>1. k \in DOMAIN t /\ ~InTree(n, k)
        BY <3>2
      <4>2. InTree(n, x) => InTree(n, k)
        BY <1>1, <3>1, <4>1, Trees
      <4> QED BY <3>1, <4>1, <4>2 DEF Occupied
    <3>3. CASE InTree(to, k) /\ InTree(to, x)
      <4>1. Rebased(k, to, n) \in DOMAIN t /\ k \in Key
        BY <3>3
      <4>2. InTree(Rebased(x, to, n), Rebased(k, to, n))
        BY <1>1, <3>1, <3>3, <4>1, Rebases
      <4>3. Occupied(t, Rebased(x, to, n))
        BY <4>1, <4>2 DEF Occupied
      <4> QED BY <1>3, <3>3, <4>3
    <3>4. CASE InTree(to, k) /\ ~InTree(to, x)
      <4>1. k \in Key
        OBVIOUS
      <4>2. InTree(x, to)
        BY <1>1, <3>1, <3>4, <4>1, Trees
      <4>3. x # to
        BY <1>1, <3>4, Trees
      <4>4. InTree(x, Parent(to))
        BY <1>1, <4>2, <4>3, Trees DEF Under
      <4>5. Parent(to) \in Path
        BY PathIs
      <4>6. Parent(to) # <<>>
        <5>1. InTree(x, <<>>) => Len(x) = 0
          BY DEF InTree, Path
        <5> QED BY <2>2, <4>4, <5>1, EmptySeq DEF Path
      <4>7. PICK j \in DOMAIN t : InTree(Parent(to), j)
        BY <4>6 DEF Occupied
      <4>8. InTree(x, j)
        BY <1>1, <4>4, <4>5, <4>7, Trees
      <4>9. ~InTree(n, x)
        BY <1>1, <4>2, Trees
      <4> QED BY <4>7, <4>8, <4>9 DEF Occupied
    <3> QED BY <3>2, <3>3, <3>4
  <2> QED BY <2>1, <2>2
<1>5. ASSUME NEW x \in Path, Came(x)
      PROVE  Occupied(b, x)
  <2>1. PICK p \in Path : Occupied(t, p) /\ InTree(n, p) /\ x = Rebased(p, n, to)
    BY <1>5
  <2>2. p # <<>>
    BY <1>2, <2>1
  <2>3. PICK k \in DOMAIN t : InTree(p, k)
    BY <2>1, <2>2 DEF Occupied
  <2>4. InTree(n, k)
    BY <1>1, <2>1, <2>3, Trees
  <2>5. InTree(x, Rebased(k, n, to))
    BY <1>1, <2>1, <2>3, Rebases
  <2>6. Rebased(k, n, to) \in DOMAIN b
    BY <2>4
  <2> QED BY <2>5, <2>6 DEF Occupied
<1>6. ASSUME NEW x \in Path, Stayed(x)
      PROVE  Occupied(b, x)
  <2>1. CASE x = <<>>
    BY <2>1 DEF Occupied
  <2>2. CASE x # <<>>
    <3>1. PICK k \in DOMAIN t : InTree(x, k)
      BY <1>6, <2>2 DEF Occupied
    <3>2. CASE ~InTree(n, k)
      BY <3>1, <3>2 DEF Occupied
    <3>3. CASE InTree(n, k)
      <4>1. CASE \E j \in DOMAIN t : InTree(x, j) /\ ~InTree(n, j)
        BY <4>1 DEF Occupied
      <4>2. CASE InTree(x, to)
        <5>1. Rebased(k, n, to) \in DOMAIN b /\ InTree(to, Rebased(k, n, to))
          BY <1>1, <3>3, Rebases
        <5>2. InTree(x, Rebased(k, n, to))
          BY <1>1, <4>2, <5>1, Trees
        <5> QED BY <5>1, <5>2 DEF Occupied
      <4> QED BY <1>6, <2>2, <3>1, <3>3, <4>1, <4>2 DEF Stays
    <3> QED BY <3>2, <3>3
  <2> QED BY <2>1, <2>2
<1> DEFINE T == Shown(t)
           S == {x \in Path : Occupied(t, x)}
           R == {x \in Path : Occupied(b, x)}
           under == {p \in S : InTree(n, p)}
           moved == {Rebased(p, n, to) : p \in under}
           f(x) == IF x \in DOMAIN t THEN t[x] ELSE 0
           g(x) == IF x \in DOMAIN b THEN b[x] ELSE 0
<1>7. R = moved \cup (S \ under)
  BY <1>2, <1>4, <1>5, <1>6
<1>8. T = [x \in S |-> f(x)] /\ Shown(b) = [x \in R |-> g(x)]
  BY DEF Shown
<1>9. \A x \in moved : Rebased(x, to, n) \in S /\ g(x) = f(Rebased(x, to, n))
  <2> SUFFICES ASSUME NEW p \in under
               PROVE  LET x == Rebased(p, n, to) IN
                      Rebased(x, to, n) \in S /\ g(x) = f(Rebased(x, to, n))
    OBVIOUS
  <2> DEFINE x == Rebased(p, n, to)
  <2>1. p \in S /\ p \in Path /\ InTree(n, p) /\ p \in Key
    BY <1>1
  <2>2. x \in Key /\ InTree(to, x) /\ Rebased(x, to, n) = p
    BY <2>1, Rebases
  <2>3. p \in DOMAIN t => x \in DOMAIN b
    BY <2>1
  <2> HIDE DEF x
  <2>4. x \in DOMAIN b => p \in DOMAIN t /\ b[x] = t[p]
    BY <2>2
  <2>5. g(x) = f(p)
    BY <2>3, <2>4
  <2> QED BY <2>1, <2>2, <2>5 DEF x
<1>10. \A x \in S \ under : x \notin moved => g(x) = f(x)
  <2> SUFFICES ASSUME NEW x \in S, ~InTree(n, x), x \notin moved PROVE g(x) = f(x)
    OBVIOUS
  <2>1. x \in Path /\ x \in Key
    BY <1>1
  <2>2. x \in DOMAIN t => x \in DOMAIN b
    OBVIOUS
  <2>3. x \in DOMAIN b => ~InTree(to, x)
    <3> SUFFICES ASSUME x \in DOMAIN b, InTree(to, x) PROVE FALSE
      OBVIOUS
    <3>1. Rebased(x, to, n) \in DOMAIN t
      OBVIOUS
    <3>2. Rebased(x, to, n) \in Path /\ InTree(n, Rebased(x, to, n))
          /\ Rebased(Rebased(x, to, n), n, to) = x
      BY <1>3, <2>1
    <3>3. Occupied(t, Rebased(x, to, n))
      <4>1. InTree(Rebased(x, to, n), Rebased(x, to, n))
        BY <1>1, <3>2, Trees
      <4> QED BY <3>1, <4>1 DEF Occupied
    <3> QED BY <3>2, <3>3
  <2>4. x \in DOMAIN b => x \in DOMAIN t /\ b[x] = t[x]
    BY <2>3
  <2> QED BY <2>2, <2>4
<1>11. DOMAIN T = S
  BY <1>8
<1> HIDE DEF T, S, R, f, g, Came, Stayed
<1>12. MovedTree(T, n, to)
         = [x \in moved \cup (S \ under) |-> IF x \in moved THEN T[Rebased(x, to, n)] ELSE T[x]]
  BY <1>11 DEF MovedTree
<1> HIDE DEF moved, under
<1>13. \A x \in R : g(x) = IF x \in moved THEN T[Rebased(x, to, n)] ELSE T[x]
  <2> SUFFICES ASSUME NEW x \in R PROVE g(x) = IF x \in moved THEN T[Rebased(x, to, n)] ELSE T[x]
    OBVIOUS
  <2>1. CASE x \in moved
    BY <1>8, <1>9, <2>1
  <2>2. CASE x \notin moved
    BY <1>7, <1>8, <1>10, <2>2
  <2> QED BY <2>1, <2>2
<1>14. Shown(b) = MovedTree(T, n, to)
  BY <1>7, <1>8, <1>12, <1>13
<1> QED BY <1>14 DEF T

-----------------------------------------------------------------------------
(* What a call is to do, in terms of what a bucket holds.                  *)

LEMMA MkdirContract ==
  ASSUME NEW t, NEW m \in Nat, Stored(t, m), NEW call, call.op = "Mkdir", call.n \in Path
  PROVE  LET T == Shown(t) n == call.n IN
         /\ Occupied(t, n) => Contract(call, T) = [ret |-> "errExist", tree |-> T]
         /\ ~Occupied(t, n) /\ ~Occupied(t, Parent(n)) =>
              Contract(call, T) = [ret |-> "errNotExist", tree |-> T]
         /\ ~Occupied(t, n) /\ Occupied(t, Parent(n)) =>
              Contract(call, T) = [ret |-> "ok", tree |-> Shown(Placed(t, HolderOf(n), 0))]
<1> DEFINE T == Shown(t)
           n == call.n
<1>1. KindIn(T, n) = "missing" <=> ~Occupied(t, n)
  BY KindIs
<1>2. ~Occupied(t, n) => n # <<>> /\ Parent(n) \in Path /\ n \notin DOMAIN t
  <2>1. n \in DOMAIN t => InTree(n, n)
    BY PathIs, Trees
  <2> QED BY <2>1, PathIs DEF Occupied
<1>3. ~Occupied(t, n) => (KindIn(T, Parent(n)) = "missing" <=> ~Occupied(t, Parent(n)))
  BY <1>2, KindIs
<1>4. ~Occupied(t, n) /\ Occupied(t, Parent(n)) => Shown(Placed(t, HolderOf(n), 0)) = Placed(T, n, 0)
  BY <1>2, PlacedShown
<1> HIDE DEF T
<1>5. Occupied(t, n) => Contract(call, T) = [ret |-> "errExist", tree |-> T]
  BY <1>1 DEF Contract
<1>6. ~Occupied(t, n) /\ ~Occupied(t, Parent(n)) =>
        Contract(call, T) = [ret |-> "errNotExist", tree |-> T]
  BY <1>1, <1>3 DEF Contract
<1>7. ~Occupied(t, n) /\ Occupied(t, Parent(n)) =>
        Contract(call, T) = [ret |-> "ok", tree |-> Placed(T, n, 0)]
  BY <1>1, <1>3 DEF Contract
<1> QED BY <1>4, <1>5, <1>6, <1>7 DEF T

LEMMA CreateContract ==
  ASSUME NEW t, NEW m \in Nat, Stored(t, m), NEW call, call.op = "Create", call.n \in Path,
         call.n # <<>>
  PROVE  LET T == Shown(t) n == call.n IN
         /\ ~Occupied(t, Parent(n)) => Contract(call, T) = [ret |-> "errNotExist", tree |-> T]
         /\ Occupied(t, Parent(n)) =>
              Contract(call, T) = [ret |-> "ok", tree |-> Shown(Placed(t, n, call.v))]
<1> DEFINE T == Shown(t)
           n == call.n
<1>1. Parent(n) \in Path
  BY PathIs
<1>2. KindIn(T, Parent(n)) = "missing" <=> ~Occupied(t, Parent(n))
  BY <1>1, KindIs
<1>3. Occupied(t, Parent(n)) => Shown(Placed(t, n, call.v)) = Placed(T, n, call.v)
  BY PlacedShown
<1> HIDE DEF T
<1>4. ~Occupied(t, Parent(n)) => Contract(call, T) = [ret |-> "errNotExist", tree |-> T]
  BY <1>2 DEF Contract
<1>5. Occupied(t, Parent(n)) => Contract(call, T) = [ret |-> "ok", tree |-> Placed(T, n, call.v)]
  BY <1>2 DEF Contract
<1> QED BY <1>3, <1>4, <1>5 DEF T

LEMMA RemoveAllContract ==
  ASSUME NEW call, call.op = "RemoveAll", NEW T
  PROVE  /\ call.n = <<>> => Contract(call, T) = [ret |-> "errPermission", tree |-> T]
         /\ call.n # <<>> => Contract(call, T) = [ret |-> "ok", tree |-> WithoutTree(T, call.n)]
  BY DEF Contract

LEMMA RenameContract ==
  ASSUME NEW t, NEW m \in Nat, Stored(t, m), NEW call, call.op = "Rename", call.n \in Path,
         call.to \in Path, call.to # <<>>
  PROVE  LET T == Shown(t) n == call.n to == call.to is == Contract(call, T) IN
         /\ n = to => is = [ret |-> "ok", tree |-> T]
         /\ n # to /\ ~Occupied(t, n) => is = [ret |-> "errNotExist", tree |-> T]
         /\ n # to /\ Occupied(t, n) /\ (n = <<>> \/ Under(n, to)) =>
              is = [ret |-> "errPermission", tree |-> T]
         /\ n # to /\ n # <<>> /\ ~Under(n, to) /\ Occupied(t, n) =>
              /\ n \notin DOMAIN t /\ Occupied(t, to) => is = [ret |-> "errExist", tree |-> T]
              /\ n \notin DOMAIN t /\ ~Occupied(t, to) /\ ~Occupied(t, Parent(to)) =>
                   is = [ret |-> "errNotExist", tree |-> T]
              /\ (n \in DOMAIN t \/ ~Occupied(t, to)) /\ Occupied(t, Parent(to)) =>
                   is = [ret |-> "ok", tree |-> MovedTree(T, n, to)]
<1> DEFINE T == Shown(t)
           n == call.n
           to == call.to
<1>1. Parent(to) \in Path
  BY PathIs
<1>2. /\ KindIn(T, n) = "missing" <=> ~Occupied(t, n)
      /\ KindIn(T, n) = "dir" <=> Occupied(t, n) /\ n \notin DOMAIN t
      /\ KindIn(T, to) = "missing" <=> ~Occupied(t, to)
      /\ KindIn(T, Parent(to)) = "missing" <=> ~Occupied(t, Parent(to))
  BY <1>1, KindIs
<1> HIDE DEF T
<1>3. n = to => Contract(call, T) = [ret |-> "ok", tree |-> T]
  BY DEF Contract
<1>4. n # to /\ ~Occupied(t, n) => Contract(call, T) = [ret |-> "errNotExist", tree |-> T]
  BY <1>2 DEF Contract
<1>5. n # to /\ Occupied(t, n) /\ (n = <<>> \/ Under(n, to)) =>
        Contract(call, T) = [ret |-> "errPermission", tree |-> T]
  BY <1>2 DEF Contract
<1>6. ASSUME n # to, n # <<>>, ~Under(n, to), Occupied(t, n)
      PROVE  /\ n \notin DOMAIN t /\ Occupied(t, to) =>
                  Contract(call, T) = [ret |-> "errExist", tree |-> T]
             /\ n \notin DOMAIN t /\ ~Occupied(t, to) /\ ~Occupied(t, Parent(to)) =>
                  Contract(call, T) = [ret |-> "errNotExist", tree |-> T]
             /\ (n \in DOMAIN t \/ ~Occupied(t, to)) /\ Occupied(t, Parent(to)) =>
                  Contract(call, T) = [ret |-> "ok", tree |-> MovedTree(T, n, to)]
  <2>1. Contract(call, T)
          = IF KindIn(T, n) = "dir" /\ KindIn(T, to) # "missing" THEN [ret |-> "errExist", tree |-> T]
            ELSE IF KindIn(T, Parent(to)) = "missing" THEN [ret |-> "errNotExist", tree |-> T]
            ELSE [ret |-> "ok", tree |-> MovedTree(T, n, to)]
    BY <1>2, <1>6 DEF Contract
  <2> QED BY <1>2, <1>6, <2>1
<1> QED BY <1>3, <1>4, <1>5, <1>6 DEF T

-----------------------------------------------------------------------------
(* A step of the only call in progress, where no request fails.            *)

\* A true answer of Stat.
Answered(b, r, what) ==
  /\ r.do \in StatKinds /\ what \in {"dir", "file", "missing"}
  /\ what = "missing" <=> ~Occupied(b, StatName(r))
  /\ what = "file" => StatName(r) \in DOMAIN b
  /\ r.do = "rename" /\ what = "dir" /\ r.n # <<>> => r.at = "list"

\* The first request of p is carried out in b: what it leaves, and what is next.
Step(b, p, b2, x) ==
  LET r == p[1] rest == Tail(p) IN
  \/ /\ r.do \in StatKinds /\ StatName(r) # <<>> /\ (r.do = "rename" => r.n \notin DOMAIN b)
     /\ x = Go(<<[r EXCEPT !.at = "list"]>> \o rest) /\ b2 = b
  \/ \E what : Answered(b, r, what) /\ x = AfterStat(r, what, rest) /\ b2 = b
  \/ r.do = "mvlist" /\ x = Go(Moves(r, b) \o rest) /\ b2 = b
  \/ r.do = "rmall" /\ x = Go(Removes(r, b) \o rest) /\ b2 = b
  \/ r.do = "put" /\ x = Go(rest) /\ b2 = Placed(b, r.n, r.v)
  \/ r.do = "copy" /\ r.n \in DOMAIN b /\ x = Go(rest) /\ b2 = Placed(b, r.to, b[r.n])
  \/ r.do = "copy" /\ r.n \notin DOMAIN b /\ x = Return("err") /\ b2 = b
  \/ r.do = "remove" /\ x = Go(rest) /\ b2 = [k \in DOMAIN b \ {r.n} |-> b[k]]

\* The next state of c's call.
Onward(c) == [prog |-> prog'[c], ret |-> ret'[c]]

LEMMA LoneStep ==
  ASSUME ShortOf = {}, Typed, NEW c \in Clients, RequestOf(c), c \in alone'
  PROVE  /\ prog[c] # <<>> /\ UNCHANGED <<cur, before, calls, alone>>
         /\ \A d \in Clients \ {c} : prog'[d] = prog[d]
         /\ Step(bucket, prog[c], bucket', Onward(c))
<1> DEFINE r == Head(prog[c])
           rest == Tail(prog[c])
           name == StatName(r)
           slash == r.do = "opendir"
<1>1. ~RequestFails(c)
  BY DEF RequestFails
<1>2. /\ prog[c] # <<>> /\ UNCHANGED <<cur, before, calls, alone>>
      /\ \E x : Continue(c, x)
  BY <1>1 DEF RequestOf, StatObject, StatDirectory, Readdir, Change, CopyFromMissing, Doing
<1>3. /\ prog[c] \in Seq(Requests(calls)) /\ r \in Requests(calls) /\ r = prog[c][1]
      /\ rest \in Seq(Requests(calls)) /\ Stored(bucket, calls) /\ calls \in Nat
  BY <1>2, ProgIs
<1>4. /\ prog \in [Clients -> Seq(Requests(calls))] /\ ret \in [Clients -> Results]
  BY DEF Typed
<1>5. \A x : Continue(c, x) => prog'[c] = x.prog /\ ret'[c] = x.ret
                                 /\ \A d \in Clients \ {c} : prog'[d] = prog[d]
  BY <1>4 DEF Continue
<1>6. \A d \in Clients \ {c} : prog'[d] = prog[d]
  BY <1>2, <1>5
<1>7. ASSUME NEW x, Continue(c, x), x = [prog |-> x.prog, ret |-> x.ret]
      PROVE  Onward(c) = x
  BY <1>5, <1>7 DEF Onward
<1>8. \A q : Go(q) = [prog |-> Go(q).prog, ret |-> Go(q).ret]
  BY DEF Go
<1>9. \A e : Return(e) = [prog |-> Return(e).prog, ret |-> Return(e).ret]
  BY DEF Return
<1>10. \A what \in {"dir", "file", "missing"} :
         r.do \in StatKinds /\ Continue(c, AfterStat(r, what, rest)) =>
           Onward(c) = AfterStat(r, what, rest)
  <2> SUFFICES ASSUME NEW what \in {"dir", "file", "missing"}, r.do \in StatKinds,
                      Continue(c, AfterStat(r, what, rest))
               PROVE  Onward(c) = AfterStat(r, what, rest)
    OBVIOUS
  <2> DEFINE x == AfterStat(r, what, rest)
  <2>1. Ends(x) \/ (\E q : x = Go(q))
    BY AfterStatIs
  <2> HIDE DEF x
  <2>2. x = [prog |-> x.prog, ret |-> x.ret]
    BY <1>8, <1>9, <2>1 DEF Ends
  <2> QED BY <1>7, <2>2 DEF x
<1>11. r.do \in StatKinds => name \in Path /\ (name \in DOMAIN bucket => name # <<>>)
                               /\ (name # <<>> /\ KeyOf(name, slash) \in DOMAIN bucket => name \in DOMAIN bucket)
  <2> SUFFICES ASSUME r.do \in StatKinds
               PROVE  name \in Path /\ (name \in DOMAIN bucket => name # <<>>)
                        /\ (name # <<>> /\ KeyOf(name, slash) \in DOMAIN bucket => name \in DOMAIN bucket)
    OBVIOUS
  <2>1. r.n \in Path /\ (r.do \in {"mkparent", "parent"} => r.n # <<>>)
    BY <1>3 DEF Requests, Valid, StatKinds
  <2>2. name \in Path
    BY <2>1, PathIs DEF StatName
  <2>3. <<>> \notin DOMAIN bucket
    BY <1>3, KeysAre
  <2>4. KeyOf(name, slash) \in DOMAIN bucket => name \in DOMAIN bucket
    BY <1>3, <2>2, NoSlash
  <2> QED BY <2>2, <2>3, <2>4
<1>12. r.do \in StatKinds => /\ HasPrefix(bucket, name) /\ name # <<>> => Occupied(bucket, name)
                             /\ ~HasPrefix(bucket, name) /\ name # <<>> => ~Occupied(bucket, name)
                             /\ name \in DOMAIN bucket => Occupied(bucket, name)
                             /\ name = <<>> => Occupied(bucket, name)
  BY <1>3, <1>11, PrefixIs, StatIs DEF Occupied
<1> HIDE DEF rest
<1>13. CASE StatObject(c)
  <2>1. r.do \in StatKinds /\ r.at = "head" /\ bucket' = bucket
    BY <1>13 DEF StatObject, Doing
  <2>2. CASE name = <<>>
    <3>1. Continue(c, AfterStat(r, "dir", rest))
      BY <1>13, <2>2 DEF StatObject, rest
    <3>2. r.do = "rename" => r.n = <<>>
      BY <2>2 DEF StatName
    <3>3. Answered(bucket, r, "dir")
      BY <1>12, <2>1, <2>2, <3>2 DEF Answered
    <3>4. Onward(c) = AfterStat(r, "dir", rest)
      BY <1>10, <2>1, <3>1
    <3> QED BY <1>2, <1>3, <1>6, <2>1, <3>3, <3>4 DEF Step, rest
  <2>3. CASE name # <<>> /\ KeyOf(name, slash) \in DOMAIN bucket
    <3>1. Continue(c, AfterStat(r, "file", rest))
      BY <1>13, <2>3 DEF StatObject, rest
    <3>2. Answered(bucket, r, "file")
      BY <1>11, <1>12, <2>1, <2>3 DEF Answered
    <3>3. Onward(c) = AfterStat(r, "file", rest)
      BY <1>10, <2>1, <3>1
    <3> QED BY <1>2, <1>3, <1>6, <2>1, <3>2, <3>3 DEF Step, rest
  <2>4. CASE name # <<>> /\ KeyOf(name, slash) \notin DOMAIN bucket
    <3>1. Continue(c, Go(<<[r EXCEPT !.at = "list"]>> \o rest))
      BY <1>13, <2>4 DEF StatObject, rest
    <3>2. r.do = "rename" => r.n \notin DOMAIN bucket
      BY <2>4 DEF StatName, KeyOf
    <3>3. Onward(c) = Go(<<[r EXCEPT !.at = "list"]>> \o rest)
      BY <1>7, <1>8, <3>1
    <3> QED BY <1>2, <1>3, <1>6, <2>1, <2>4, <3>2, <3>3 DEF Step, rest
  <2> QED BY <2>2, <2>3, <2>4
<1>14. CASE StatDirectory(c)
  <2>1. r.do \in StatKinds /\ r.at = "list" /\ bucket' = bucket /\ name # <<>>
    BY <1>3, <1>14 DEF StatDirectory, Doing, Requests, Valid
  <2> DEFINE what == IF HasPrefix(bucket, name) THEN "dir" ELSE "missing"
  <2>2. Continue(c, AfterStat(r, what, rest))
    BY <1>14 DEF StatDirectory, rest
  <2>3. Answered(bucket, r, what)
    BY <1>12, <2>1 DEF Answered
  <2>4. what \in {"dir", "file", "missing"}
    OBVIOUS
  <2> HIDE DEF what
  <2>5. Onward(c) = AfterStat(r, what, rest)
    BY <1>10, <2>1, <2>2, <2>4
  <2> QED BY <1>2, <1>3, <1>6, <2>1, <2>3, <2>5 DEF Step, rest
<1>15. CASE Readdir(c)
  <2>1. r.do \in {"mvlist", "rmall"} /\ bucket' = bucket
        /\ Continue(c, Go(IF r.do = "mvlist" THEN RenameAfterList(r, bucket, rest)
                          ELSE RemoveAllAfterList(r, bucket, rest)))
    BY <1>15 DEF Readdir, Doing, rest
  <2>2. Lists(c)
    BY <1>15 DEF Readdir, Lists, Doing, rest
  <2>3. Frame(c)
    BY <1>15, Steps DEF RequestOf
  <2>4. \/ r.do = "mvlist" /\ Becomes(c, Moves(r, bucket))
        \/ r.do = "rmall" /\ Becomes(c, Removes(r, bucket))
    BY <2>2, <2>3, ListsIs
  <2>5. \/ r.do = "mvlist" /\ Continue(c, Go(Moves(r, bucket) \o rest))
        \/ r.do = "rmall" /\ Continue(c, Go(Removes(r, bucket) \o rest))
    BY <2>4 DEF Becomes, rest
  <2>6. \/ r.do = "mvlist" /\ Onward(c) = Go(Moves(r, bucket) \o rest)
        \/ r.do = "rmall" /\ Onward(c) = Go(Removes(r, bucket) \o rest)
    BY <1>7, <1>8, <2>5
  <2> QED BY <1>2, <1>3, <1>6, <2>1, <2>6 DEF Step, rest
<1>16. CASE Change(c)
  <2>1. r.do \in {"put", "copy", "remove"} /\ Possible(r) /\ Effect(c, r) /\ Continue(c, Go(rest))
    BY <1>16 DEF Change, Doing, rest
  <2>2. Onward(c) = Go(rest)
    BY <1>7, <1>8, <2>1
  <2>3. \/ r.do = "put" /\ bucket' = Placed(bucket, r.n, r.v)
        \/ r.do = "copy" /\ r.n \in DOMAIN bucket /\ bucket' = Placed(bucket, r.to, bucket[r.n])
        \/ r.do = "remove" /\ bucket' = [k \in DOMAIN bucket \ {r.n} |-> bucket[k]]
    BY <2>1 DEF Effect, Possible
  <2> QED BY <1>2, <1>3, <1>6, <2>2, <2>3 DEF Step, rest
<1>17. CASE CopyFromMissing(c)
  <2>1. r.do = "copy" /\ r.n \notin DOMAIN bucket /\ Continue(c, Return("err")) /\ bucket' = bucket
    BY <1>17 DEF CopyFromMissing, Doing, Possible
  <2>2. Onward(c) = Return("err")
    BY <1>7, <1>9, <2>1
  <2> QED BY <1>2, <1>3, <1>6, <2>1, <2>2 DEF Step, rest
<1> QED BY <1>1, <1>13, <1>14, <1>15, <1>16, <1>17 DEF RequestOf

-----------------------------------------------------------------------------
(* The only call: Mkdir, Create and RemoveAll.                             *)

\* A program of one request: nothing waits behind it.
LEMMA SingleIs ==
  ASSUME NEW S, NEW p \in Seq(S), DOMAIN p = {1}
  PROVE  Tail(p) = <<>> /\ p # <<>> /\ p[1] \in S /\ \A q \in Seq(S) : q \o Tail(p) = q
<1>1. Len(p) = 1 /\ p # <<>>
  <2> DEFINE m == Len(p)
  <2>1. DOMAIN p = 1..m /\ m \in Nat
    BY LenProperties
  <2> HIDE DEF m
  <2>2. m \in 1..m => m \in {1}
    BY <2>1
  <2>3. 1 \in 1..m
    BY <2>1
  <2>4. m = 1
    BY <2>1, <2>2, <2>3
  <2> QED BY <2>4 DEF m
<1>2. Tail(p) \in Seq(S) /\ Len(Tail(p)) = 0
  BY <1>1
<1>3. Tail(p) = <<>>
  BY <1>2, EmptySeq
<1> QED BY <1>1, <1>3, ConcatEmptySeq

\* A call goes on, is over, or returns an error.
LEMMA GoesIs ==
  ASSUME NEW t, NEW b, NEW call
  PROVE  /\ \A q : q # <<>> => (Goes(t, b, call, Go(q)) <=> Underway(t, b, call, q))
         /\ Goes(t, b, call, Go(<<>>)) <=> [ret |-> "ok", tree |-> View(b)] = Contract(call, View(t))
         /\ \A e : Goes(t, b, call, Return(e))
                     <=> [ret |-> e, tree |-> View(b)] = Contract(call, View(t))
<1>1. \A q : Go(q).prog = q
  BY DEF Go
<1>2. Go(<<>>).ret = "ok"
  BY DEF Go
<1>3. \A e : Return(e).prog = <<>> /\ Return(e).ret = e
  BY DEF Return
<1>4. \A q : q # <<>> => (Goes(t, b, call, Go(q)) <=> Underway(t, b, call, q))
  BY <1>1 DEF Goes
<1>5. Goes(t, b, call, Go(<<>>)) <=> [ret |-> "ok", tree |-> View(b)] = Contract(call, View(t))
  BY <1>1, <1>2 DEF Goes
<1>6. \A e : Goes(t, b, call, Return(e))
               <=> [ret |-> e, tree |-> View(b)] = Contract(call, View(t))
  BY <1>3 DEF Goes
<1> QED BY <1>4, <1>5, <1>6

\* The second request of a Stat differs from the first in nothing else.
LEMMA AskIs ==
  ASSUME NEW m, NEW r \in Requests(m), r.do \in StatKinds
  PROVE  LET q == [r EXCEPT !.at = "list"] IN
         /\ q.do = r.do /\ q.n = r.n /\ q.to = r.to /\ q.v = r.v /\ q.at = "list"
         /\ StatName(r) # <<>> => q \in Requests(m)
<1> DEFINE q == [r EXCEPT !.at = "list"]
           T == [do : Dos, n : Key, to : Path, v : Nat, at : {"head", "list"}]
<1>1. r \in T /\ Valid(r, m)
  BY DEF Requests
<1>2. q \in T /\ q.do = r.do /\ q.n = r.n /\ q.to = r.to /\ q.v = r.v /\ q.at = "list"
  BY <1>1
<1> HIDE DEF q, T
<1>3. StatName(q) = StatName(r)
  BY <1>2 DEF StatName
<1>4. StatName(r) # <<>> => Valid(q, m)
  BY <1>1, <1>2, <1>3 DEF Valid
<1> QED BY <1>2, <1>4 DEF q, T, Requests

\* Mkdir and openDir: something is there, the parent is not, or one request
\* takes the place of another that is about the same directory.
Makings(n, b, r, rest, x) ==
  \/ r.do = "mkdir" /\ Occupied(b, r.n) /\ x = Return("errExist")
  \/ /\ r.do = "mkparent" /\ ~Occupied(b, r.n) /\ ~Occupied(b, Parent(r.n))
     /\ x = Return("errNotExist")
  \/ /\ ~Occupied(b, r.n)
     /\ \E q \in Requests(n) :
          /\ x = Go(<<q>> \o rest)
          /\ q.do \in {"opendir", "mkparent", "put"} /\ Place(q) = r.n
          /\ q.do = "put" => /\ Occupied(b, Parent(r.n)) /\ q.n = HolderOf(r.n) /\ q.v = 0

LEMMA MakerGoesOn ==
  ASSUME NEW m \in Nat, NEW r \in Requests(m), r.do \in Makers, NEW b, NEW what,
         Answered(b, r, what), r.do # "mkdir" => ~Occupied(b, r.n), NEW rest
  PROVE  Makings(m, b, r, rest, AfterStat(r, what, rest))
<1> DEFINE x == AfterStat(r, what, rest)
<1>1. r.do \in StatKinds /\ (what = "missing" <=> ~Occupied(b, StatName(r)))
  BY DEF Answered
<1>2. what = "missing" => StatName(r) # <<>>
  BY <1>1 DEF Occupied
<1>3. \A q : Turn(r, what, q) => q \in Requests(m)
  BY <1>2, TurnTypes
<1>4. r.n \in Path /\ DOMAIN r = {"do", "n", "to", "v", "at"}
  BY DEF Requests, Valid, Makers
<1>5. r.do # "mkparent" => StatName(r) = r.n
  BY DEF StatName, Makers
<1>6. r.do = "mkparent" => StatName(r) = Parent(r.n)
  BY DEF StatName
<1>7. \A why : Then(r, why).do = why /\ Then(r, why).n = r.n
  BY <1>4 DEF Then
<1> DEFINE hold == PutObject(HolderOf(r.n), 0)
<1>8. hold.do = "put" /\ hold.n = HolderOf(r.n) /\ hold.v = 0 /\ Place(hold) = r.n
  BY <1>4, HolderLies DEF PutObject, Request, Place
<1>9. CASE r.do = "mkdir"
  <2>1. CASE Occupied(b, r.n)
    <3>1. x = Return("errExist")
      BY <1>1, <1>5, <1>9, <2>1 DEF AfterStat, MkdirAfterStat
    <3> QED BY <1>9, <2>1, <3>1 DEF Makings
  <2>2. CASE ~Occupied(b, r.n)
    <3> DEFINE q == Then(r, "opendir")
    <3>1. what = "missing"
      BY <1>1, <1>5, <1>9, <2>2
    <3>2. x = Go(<<q>> \o rest) /\ Turn(r, what, q)
      BY <1>9, <3>1 DEF AfterStat, MkdirAfterStat, Turn
    <3>3. q \in Requests(m) /\ q.do = "opendir" /\ q.n = r.n
      BY <1>3, <1>7, <3>2
    <3> HIDE DEF q
    <3>4. Place(q) = r.n
      BY <3>3 DEF Place
    <3> QED BY <2>2, <3>2, <3>3, <3>4 DEF Makings
  <2> QED BY <2>1, <2>2
<1>10. CASE r.do = "opendir"
  <2>1. what = "missing"
    BY <1>1, <1>5, <1>10
  <2>2. CASE Len(r.n) = 1
    <3>1. x = Go(<<hold>> \o rest) /\ Turn(r, what, hold)
      BY <1>10, <2>1, <2>2 DEF AfterStat, MkdirAfterStat, Turn
    <3>2. Occupied(b, Parent(r.n))
      <4>1. Parent(r.n) = <<>>
        BY <1>4, <2>2 DEF Parent, Path
      <4> QED BY <4>1 DEF Occupied
    <3> QED BY <1>3, <1>8, <1>10, <3>1, <3>2 DEF Makings
  <2>3. CASE Len(r.n) # 1
    <3> DEFINE q == Then(r, "mkparent")
    <3>1. x = Go(<<q>> \o rest) /\ Turn(r, what, q)
      BY <1>10, <2>1, <2>3 DEF AfterStat, MkdirAfterStat, Turn
    <3>2. q \in Requests(m) /\ q.do = "mkparent" /\ q.n = r.n
      BY <1>3, <1>7, <3>1
    <3> HIDE DEF q
    <3>3. Place(q) = r.n
      BY <3>2 DEF Place
    <3> QED BY <1>10, <3>1, <3>2, <3>3 DEF Makings
  <2> QED BY <2>2, <2>3
<1>11. CASE r.do = "mkparent"
  <2>1. CASE Occupied(b, Parent(r.n))
    <3>1. what # "missing"
      BY <1>1, <1>6, <1>11, <2>1
    <3>2. x = Go(<<hold>> \o rest) /\ Turn(r, what, hold)
      BY <1>11, <3>1 DEF AfterStat, MkdirAfterStat, Turn
    <3> QED BY <1>3, <1>8, <1>11, <2>1, <3>2 DEF Makings
  <2>2. CASE ~Occupied(b, Parent(r.n))
    <3>1. x = Return("errNotExist")
      BY <1>1, <1>6, <1>11, <2>2 DEF AfterStat, MkdirAfterStat
    <3> QED BY <1>11, <2>2, <3>1 DEF Makings
  <2> QED BY <2>1, <2>2
<1> QED BY <1>9, <1>10, <1>11 DEF Makers, Makings

\* Mkdir does what it should.
LEMMA MkdirGoes ==
  ASSUME ShortOf = {}, NEW m \in Nat, NEW t, Stored(t, m), NEW call, call.op = "Mkdir", call.n \in Path,
         NEW p \in Seq(Requests(m)), Making(t, call, p), NEW b, NEW x, Step(t, p, b, x), Stored(b, m)
  PROVE  Goes(t, b, call, x)
<1> DEFINE r == p[1]
           rest == Tail(p)
           n == call.n
<1>1. /\ rest = <<>> /\ r \in Requests(m)
      /\ \A q \in Requests(m) : <<q>> \o rest = <<q>>
  <2>1. rest = <<>> /\ r \in Requests(m) /\ \A q \in Seq(Requests(m)) : q \o rest = q
    BY SingleIs DEF Making
  <2>2. \A q \in Requests(m) : <<q>> \in Seq(Requests(m))
    BY OneIs
  <2> QED BY <2>1, <2>2
<1>2. /\ r.do \in Makers \cup {"put"} /\ Place(r) = n
      /\ r.do # "mkdir" => ~Occupied(t, n)
      /\ r.do = "put" => Occupied(t, Parent(n)) /\ r.n = HolderOf(n) /\ r.v = 0
  BY DEF Making
<1>3. View(t) = Shown(t) /\ View(b) = Shown(b)
  BY ViewIs
<1>4. \A q : <<q>> # <<>> /\ DOMAIN <<q>> = {1} /\ <<q>>[1] = q
  OBVIOUS
<1>5. ASSUME NEW q \in Requests(m), q.do \in Makers \cup {"put"}, Place(q) = n,
             q.do # "mkdir" => ~Occupied(t, n),
             q.do = "put" => Occupied(t, Parent(n)) /\ q.n = HolderOf(n) /\ q.v = 0
      PROVE  Goes(t, t, call, Go(<<q>> \o rest))
  <2> DEFINE s == <<q>>
  <2>1. s # <<>> /\ DOMAIN s = {1} /\ s[1] = q /\ s \o rest = s
    BY <1>1, <1>4
  <2> HIDE DEF s
  <2>2. Making(t, call, s)
    BY <1>5, <2>1 DEF Making
  <2>3. Underway(t, t, call, s)
    BY <2>2 DEF Underway
  <2>4. Goes(t, t, call, Go(s))
    BY <2>1, <2>3, GoesIs
  <2> QED BY <2>1, <2>4 DEF s
<1> HIDE DEF r, rest
<1>6. ASSUME r.do = "put"
      PROVE  Goes(t, b, call, x)
  <2>1. x = Go(<<>>) /\ b = Placed(t, HolderOf(n), 0)
    BY <1>1, <1>2, <1>6 DEF Step, Answered, StatKinds, r, rest
  <2>2. Contract(call, View(t)) = [ret |-> "ok", tree |-> View(b)]
    BY <1>2, <1>3, <1>6, <2>1, MkdirContract
  <2> QED BY <2>1, <2>2, GoesIs
<1>7. ASSUME r.do \in Makers
      PROVE  Goes(t, b, call, x)
  <2>1. r.n = n
    BY <1>2, <1>7 DEF Place, Makers
  <2>2. \/ x = Go(<<[r EXCEPT !.at = "list"]>> \o rest) /\ b = t
        \/ \E what : Answered(t, r, what) /\ x = AfterStat(r, what, rest) /\ b = t
    BY <1>7 DEF Step, Makers, r, rest
  <2>3. CASE x = Go(<<[r EXCEPT !.at = "list"]>> \o rest) /\ b = t
    <3> DEFINE q == [r EXCEPT !.at = "list"]
    <3>1. q.do = r.do /\ q.n = r.n
      BY <1>1, <1>7, AskIs DEF Makers, StatKinds
    <3> HIDE DEF q
    <3>2. q.do \in Makers /\ Place(q) = n
      BY <1>7, <2>1, <3>1 DEF Place, Makers
    <3>3. Making(t, call, <<q>>)
      <4> DEFINE s == <<q>>
      <4>1. DOMAIN s = {1} /\ s[1] = q
        BY <1>4
      <4> HIDE DEF s
      <4>2. Making(t, call, s)
        BY <1>2, <3>1, <3>2, <4>1 DEF Making, Makers
      <4> QED BY <4>2 DEF s
    <3>4. <<q>> \o <<>> = <<q>>
      OBVIOUS
    <3>5. Goes(t, t, call, Go(<<q>>))
      BY <1>4, <3>3, GoesIs DEF Underway
    <3> QED BY <1>1, <2>3, <3>4, <3>5 DEF q
  <2>4. ASSUME NEW what, Answered(t, r, what), x = AfterStat(r, what, rest), b = t
        PROVE  Goes(t, b, call, x)
    <3>1. \/ r.do = "mkdir" /\ Occupied(t, n) /\ x = Return("errExist")
          \/ /\ r.do = "mkparent" /\ ~Occupied(t, n) /\ ~Occupied(t, Parent(n))
             /\ x = Return("errNotExist")
          \/ /\ ~Occupied(t, n)
             /\ \E q \in Requests(m) :
                  /\ x = Go(<<q>> \o rest)
                  /\ q.do \in {"opendir", "mkparent", "put"} /\ Place(q) = n
                  /\ q.do = "put" => /\ Occupied(t, Parent(n)) /\ q.n = HolderOf(n) /\ q.v = 0
      <4>1. r.do # "mkdir" => ~Occupied(t, r.n)
        BY <1>2, <2>1
      <4>2. r \in Requests(m)
        BY <1>1
      <4>3. Makings(m, t, r, rest, AfterStat(r, what, rest))
        BY <1>7, <2>4, <4>1, <4>2, MakerGoesOn
      <4>4. Makings(m, t, r, rest, x)
        BY <2>4, <4>3
      <4> QED BY <2>1, <4>4 DEF Makings
    <3>2. CASE r.do = "mkdir" /\ Occupied(t, n) /\ x = Return("errExist")
      <4>1. Contract(call, View(t)) = [ret |-> "errExist", tree |-> View(b)]
        BY <1>3, <2>4, <3>2, MkdirContract
      <4> QED BY <3>2, <4>1, GoesIs
    <3>3. CASE ~Occupied(t, n) /\ ~Occupied(t, Parent(n)) /\ x = Return("errNotExist")
      <4>1. Contract(call, View(t)) = [ret |-> "errNotExist", tree |-> View(b)]
        BY <1>3, <2>4, <3>3, MkdirContract
      <4> QED BY <3>3, <4>1, GoesIs
    <3>4. ASSUME ~Occupied(t, n), NEW q \in Requests(m), x = Go(<<q>> \o rest),
                 q.do \in {"opendir", "mkparent", "put"}, Place(q) = n,
                 q.do = "put" => /\ Occupied(t, Parent(n)) /\ q.n = HolderOf(n) /\ q.v = 0
          PROVE  Goes(t, b, call, x)
      BY <1>5, <2>4, <3>4 DEF Makers
    <3> QED BY <3>1, <3>2, <3>3, <3>4
  <2> QED BY <2>2, <2>3, <2>4
<1> QED BY <1>2, <1>6, <1>7

\* Create does what it should.
LEMMA CreateGoes ==
  ASSUME ShortOf = {}, NEW m \in Nat, NEW t, Stored(t, m), NEW call, call.op = "Create", call.n \in Path,
         NEW p \in Seq(Requests(m)), Creating(t, call, p), NEW b, NEW x, Step(t, p, b, x), Stored(b, m)
  PROVE  Goes(t, b, call, x)
<1> DEFINE r == p[1]
           rest == Tail(p)
           n == call.n
<1>1. rest = <<>> /\ r \in Requests(m)
  BY SingleIs DEF Creating
<1>2. /\ r.do \in {"parent", "put"} /\ r.n = n /\ n # <<>> /\ r.v = call.v /\ r.v # 0
      /\ r.do = "put" => Occupied(t, Parent(n))
  BY DEF Creating
<1>3. View(t) = Shown(t) /\ View(b) = Shown(b)
  BY ViewIs
<1>4. ASSUME NEW q, q.do \in {"parent", "put"}, q.n = n, q.v = call.v,
             q.do = "put" => Occupied(t, Parent(n))
      PROVE  Goes(t, t, call, Go(<<q>> \o rest))
  <2> DEFINE s == <<q>>
  <2>1. s # <<>> /\ DOMAIN s = {1} /\ s[1] = q /\ s \o <<>> = s
    OBVIOUS
  <2> HIDE DEF s
  <2>2. Creating(t, call, s)
    BY <1>2, <1>4, <2>1 DEF Creating
  <2>3. Underway(t, t, call, s)
    BY <2>2 DEF Underway
  <2>4. Goes(t, t, call, Go(s))
    BY <2>1, <2>3, GoesIs
  <2> QED BY <1>1, <2>1, <2>4 DEF s
<1> HIDE DEF r, rest
<1>5. ASSUME r.do = "put"
      PROVE  Goes(t, b, call, x)
  <2>1. x = Go(<<>>) /\ b = Placed(t, n, call.v)
    BY <1>1, <1>2, <1>5 DEF Step, Answered, StatKinds, r, rest
  <2>2. Contract(call, View(t)) = [ret |-> "ok", tree |-> View(b)]
    BY <1>2, <1>3, <1>5, <2>1, CreateContract
  <2> QED BY <2>1, <2>2, GoesIs
<1>6. ASSUME r.do = "parent"
      PROVE  Goes(t, b, call, x)
  <2>1. \/ x = Go(<<[r EXCEPT !.at = "list"]>> \o rest) /\ b = t
        \/ \E what : Answered(t, r, what) /\ x = AfterStat(r, what, rest) /\ b = t
    BY <1>6 DEF Step, r, rest
  <2>2. CASE x = Go(<<[r EXCEPT !.at = "list"]>> \o rest) /\ b = t
    <3> DEFINE q == [r EXCEPT !.at = "list"]
    <3>1. q.do = r.do /\ q.n = r.n /\ q.v = r.v
      BY <1>1, <1>6, AskIs DEF StatKinds
    <3> HIDE DEF q
    <3>2. Goes(t, t, call, Go(<<q>> \o rest))
      BY <1>2, <1>4, <1>6, <3>1
    <3> QED BY <2>2, <3>2 DEF q
  <2>3. ASSUME NEW what, Answered(t, r, what), x = AfterStat(r, what, rest), b = t
        PROVE  Goes(t, b, call, x)
    <3>1. StatName(r) = Parent(n)
      BY <1>2, <1>6 DEF StatName
    <3>2. x = CreateAfterStat(r, what, rest)
      BY <1>6, <2>3 DEF AfterStat
    <3>3. CASE Occupied(t, Parent(n))
      <4> DEFINE q == PutObject(r.n, r.v)
      <4>1. what # "missing"
        BY <2>3, <3>1, <3>3 DEF Answered
      <4>2. x = Go(<<q>> \o rest)
        BY <3>2, <4>1 DEF CreateAfterStat
      <4>3. q.do = "put" /\ q.n = n /\ q.v = call.v
        BY <1>2 DEF PutObject, Request
      <4> HIDE DEF q
      <4> QED BY <1>4, <2>3, <3>3, <4>2, <4>3
    <3>4. CASE ~Occupied(t, Parent(n))
      <4>1. what = "missing"
        BY <2>3, <3>1, <3>4 DEF Answered
      <4>2. x = Return("errNotExist")
        BY <3>2, <4>1 DEF CreateAfterStat
      <4>3. Contract(call, View(t)) = [ret |-> "errNotExist", tree |-> View(b)]
        BY <1>2, <1>3, <2>3, <3>4, CreateContract
      <4> QED BY <4>2, <4>3, GoesIs
    <3> QED BY <3>3, <3>4
  <2> QED BY <2>1, <2>2, <2>3
<1> QED BY <1>2, <1>5, <1>6

-----------------------------------------------------------------------------
(* What a program is going to take and to bring.                           *)

\* What a program does one of its requests does.
LEMMA FrontTaken ==
  ASSUME NEW S, NEW q \in Seq(S), NEW rest \in Seq(S)
  PROVE  /\ q \o rest \in Seq(S)
         /\ \A k : Taken(q \o rest, k) <=> Taken(q, k) \/ Taken(rest, k)
         /\ \A k : Brought(q \o rest, k) <=> Brought(q, k) \/ Brought(rest, k)
         /\ \A i \in DOMAIN (q \o rest) :
              \/ \E j \in DOMAIN q : (q \o rest)[i] = q[j]
              \/ \E j \in DOMAIN rest : (q \o rest)[i] = rest[j]
<1> DEFINE p == q \o rest
<1>1. /\ p \in Seq(S) /\ Len(p) = Len(q) + Len(rest)
      /\ \A i \in 1..Len(q) + Len(rest) : p[i] = IF i <= Len(q) THEN q[i] ELSE rest[i - Len(q)]
  BY ConcatProperties
<1>2. Len(q) \in Nat /\ Len(rest) \in Nat /\ DOMAIN q = 1..Len(q) /\ DOMAIN rest = 1..Len(rest)
  OBVIOUS
<1> HIDE DEF p
<1>3. DOMAIN p = 1..Len(q) + Len(rest)
  BY <1>1
<1>4. \A i \in DOMAIN p : (\E j \in DOMAIN q : p[i] = q[j]) \/ (\E j \in DOMAIN rest : p[i] = rest[j])
  <2> SUFFICES ASSUME NEW i \in DOMAIN p
               PROVE  (\E j \in DOMAIN q : p[i] = q[j]) \/ (\E j \in DOMAIN rest : p[i] = rest[j])
    OBVIOUS
  <2>1. CASE i <= Len(q)
    BY <1>1, <1>2, <1>3, <2>1
  <2>2. CASE ~(i <= Len(q))
    <3>1. i - Len(q) \in DOMAIN rest /\ p[i] = rest[i - Len(q)]
      BY <1>1, <1>2, <1>3, <2>2
    <3> QED BY <3>1
  <2> QED BY <2>1, <2>2
<1>5. /\ \A i \in DOMAIN q : i \in DOMAIN p /\ p[i] = q[i]
      /\ \A i \in DOMAIN rest : i + Len(q) \in DOMAIN p /\ p[i + Len(q)] = rest[i]
  BY <1>1, <1>2, <1>3
<1>6. \A k : Taken(p, k) <=> Taken(q, k) \/ Taken(rest, k)
  BY <1>4, <1>5 DEF Taken
<1>7. \A k : Brought(p, k) <=> Brought(q, k) \/ Brought(rest, k)
  BY <1>4, <1>5 DEF Brought
<1> QED BY <1>1, <1>4, <1>6, <1>7 DEF p

LEMMA FirstTaken ==
  ASSUME NEW S, NEW p \in Seq(S), p # <<>>
  PROVE  /\ \A k : Taken(p, k) <=> Takes(p[1], k) \/ Taken(Tail(p), k)
         /\ \A k : Brought(p, k) <=> Brings(p[1], k) \/ Brought(Tail(p), k)
<1> DEFINE rest == Tail(p)
<1>1. /\ 1 \in DOMAIN p
      /\ \A i \in DOMAIN rest : i + 1 \in DOMAIN p /\ rest[i] = p[i + 1]
      /\ \A i \in DOMAIN p : i = 1 \/ (i - 1 \in DOMAIN rest /\ rest[i - 1] = p[i])
  BY FirstAndRest
<1> HIDE DEF rest
<1>2. \A k : Taken(p, k) <=> Takes(p[1], k) \/ Taken(rest, k)
  BY <1>1 DEF Taken
<1>3. \A k : Brought(p, k) <=> Brings(p[1], k) \/ Brought(rest, k)
  BY <1>1 DEF Brought
<1> QED BY <1>2, <1>3 DEF rest

\* One request.
LEMMA OneTaken ==
  \A q : /\ <<q>> # <<>>
         /\ \A k : Taken(<<q>>, k) <=> Takes(q, k)
         /\ \A k : Brought(<<q>>, k) <=> Brings(q, k)
<1> SUFFICES ASSUME NEW q
             PROVE  /\ <<q>> # <<>>
                    /\ \A k : Taken(<<q>>, k) <=> Takes(q, k)
                    /\ \A k : Brought(<<q>>, k) <=> Brings(q, k)
  OBVIOUS
<1> DEFINE s == <<q>>
<1>1. s # <<>> /\ DOMAIN s = {1} /\ s[1] = q
  OBVIOUS
<1> HIDE DEF s
<1>2. \A k : (Taken(s, k) <=> Takes(q, k)) /\ (Brought(s, k) <=> Brings(q, k))
  BY <1>1 DEF Taken, Brought
<1> QED BY <1>1, <1>2 DEF s

\* Nothing.
LEMMA NoneTaken == \A k : ~Taken(<<>>, k) /\ ~Brought(<<>>, k)
  BY DEF Taken, Brought

-----------------------------------------------------------------------------
(* RemoveAll.                                                              *)

\* What a listing leads to takes what was to be taken.
LEMMA RemovesTake ==
  ASSUME BasePath = TRUE, NEW m \in Nat, NEW b, Stored(b, m), NEW r \in Requests(m), r.do = "rmall"
  PROVE  LET q == Removes(r, b) IN
         /\ q \in Seq(Requests(m)) /\ q # <<>>
         /\ \A k \in DOMAIN b : Takes(r, k) => Taken(q, k)
<1> DEFINE f == SetToSeq(FilesIn(b, r.n))
           g == SetToSeq(DirsIn(b, r.n))
           q == Removes(r, b)
<1>1. r.n \in Path
  BY DEF Requests, Valid
<1>2. /\ q \in Seq(Requests(m)) /\ Len(f) \in Nat /\ Len(g) \in Nat
      /\ DOMAIN q = 1..Len(f) + Len(g) + 2
      /\ f \in Seq(FilesIn(b, r.n)) /\ g \in Seq(DirsIn(b, r.n))
      /\ \A i \in DOMAIN f : q[i] = RemoveObject(f[i])
      /\ \A i \in DOMAIN g : q[Len(f) + i] = RecursionFor(g[i])
      /\ q[Len(f) + Len(g) + 1] = RemoveObject(HolderOf(r.n))
      /\ q[Len(f) + Len(g) + 2] = RemoveObject(KeyOf(r.n, TRUE))
  BY RemovesAre
<1>3. /\ \A x \in FilesIn(b, r.n) : \E i \in DOMAIN f : f[i] = x
      /\ \A x \in DirsIn(b, r.n) : \E i \in DOMAIN g : g[i] = x
  BY <1>1, EntryIs, ListingIs
<1>4. DOMAIN f = 1..Len(f) /\ DOMAIN g = 1..Len(g)
  BY <1>2
<1>5. KeyOf(r.n, TRUE) = r.n
  BY DEF KeyOf
<1>6. \A k : Takes(RemoveObject(k), k)
  BY RequestIs DEF Takes, RemoveObject
<1>7. \A d, k : InTree(d, k) => Takes(RecursionFor(d), k)
  BY RequestIs DEF Takes, RecursionFor
<1> HIDE DEF q, f, g
<1>8. /\ \A i \in DOMAIN f : i \in DOMAIN q
      /\ \A i \in DOMAIN g : Len(f) + i \in DOMAIN q
      /\ Len(f) + Len(g) + 1 \in DOMAIN q /\ Len(f) + Len(g) + 2 \in DOMAIN q
  BY <1>2, <1>4
<1>9. ASSUME NEW k \in DOMAIN b, InTree(r.n, k)
      PROVE  Taken(q, k)
  <2>1. CASE k = r.n
    BY <1>2, <1>5, <1>6, <1>8, <2>1 DEF Taken
  <2>2. CASE k = HolderOf(r.n)
    BY <1>2, <1>6, <1>8, <2>2 DEF Taken
  <2>3. ASSUME k \in FilesIn(b, r.n)
        PROVE  Taken(q, k)
    <3>1. PICK i \in DOMAIN f : f[i] = k
      BY <1>3, <2>3
    <3> QED BY <1>2, <1>6, <1>8, <3>1 DEF Taken
  <2>4. ASSUME NEW d \in DirsIn(b, r.n), Under(d, k)
        PROVE  Taken(q, k)
    <3>1. PICK i \in DOMAIN g : g[i] = d
      BY <1>3
    <3>2. Takes(q[Len(f) + i], k)
      BY <1>2, <1>7, <2>4, <3>1 DEF Under
    <3> QED BY <1>8, <3>2 DEF Taken
  <2> QED BY <1>1, <1>9, <2>1, <2>2, <2>3, <2>4, Covered DEF Under
<1>10. \A k : Takes(r, k) => InTree(r.n, k)
  BY DEF Takes
<1>11. q # <<>>
  BY <1>8
<1> QED BY <1>2, <1>9, <1>10, <1>11 DEF q

\* RemoveAll does what it should.
LEMMA RemoveAllGoes ==
  ASSUME ShortOf = {}, BasePath = TRUE, NEW m \in Nat, NEW t, Stored(t, m),
         NEW call, call.op = "RemoveAll", call.n \in Path, Stays(t, call.n, <<>>),
         NEW p \in Seq(Requests(m)), p # <<>>,
         \A i \in DOMAIN p : p[i].do \in {"rmall", "remove"} /\ InTree(call.n, p[i].n),
         NEW b, Stored(b, m), Removing(t, b, call, p),
         NEW b2, Stored(b2, m), NEW x, Step(b, p, b2, x)
  PROVE  Goes(t, b2, call, x)
<1> DEFINE r == p[1]
           rest == Tail(p)
           n == call.n
<1>1. r \in Requests(m) /\ rest \in Seq(Requests(m)) /\ r.do \in {"rmall", "remove"} /\ InTree(n, r.n)
  BY FirstAndRest
<1>2. \A k : Taken(p, k) <=> Takes(r, k) \/ Taken(rest, k)
  BY FirstTaken
<1>3. /\ n # <<>>
      /\ \A k \in DOMAIN b : k \in DOMAIN t /\ b[k] = t[k]
      /\ \A k \in DOMAIN t : ~InTree(n, k) => k \in DOMAIN b
      /\ \A k \in DOMAIN b : InTree(n, k) => Taken(p, k)
  BY DEF Removing
<1>4. \/ r.do = "rmall" /\ x = Go(Removes(r, b) \o rest) /\ b2 = b
      \/ r.do = "remove" /\ x = Go(rest) /\ b2 = [k \in DOMAIN b \ {r.n} |-> b[k]]
  BY <1>1 DEF Step, Answered, StatKinds
<1> HIDE DEF r, rest
<1>5. ASSUME r.do = "rmall", x = Go(Removes(r, b) \o rest), b2 = b
      PROVE  Goes(t, b2, call, x)
  <2> DEFINE q == Removes(r, b)
             s == q \o rest
  <2>1. q \in Seq(Requests(m)) /\ q # <<>> /\ \A k \in DOMAIN b : Takes(r, k) => Taken(q, k)
    BY <1>1, <1>5, RemovesTake
  <2>2. x = Go(s)
    BY <1>5
  <2> HIDE DEF q
  <2>3. \A k : Taken(s, k) <=> Taken(q, k) \/ Taken(rest, k)
    BY <1>1, <2>1, FrontTaken
  <2>4. s # <<>>
    <3>1. Len(q) \in Nat /\ Len(q) # 0 /\ Len(rest) \in Nat
      BY <1>1, <2>1, EmptySeq
    <3>2. Len(s) = Len(q) + Len(rest)
      BY <1>1, <2>1
    <3> QED BY <3>1, <3>2
  <2> HIDE DEF s
  <2>5. Removing(t, b, call, s)
    BY <1>2, <1>3, <2>1, <2>3 DEF Removing
  <2>6. Underway(t, b, call, s)
    BY <2>5 DEF Underway
  <2> QED BY <1>5, <2>2, <2>4, <2>6, GoesIs
<1>6. ASSUME r.do = "remove", x = Go(rest), b2 = [k \in DOMAIN b \ {r.n} |-> b[k]]
      PROVE  Goes(t, b2, call, x)
  <2>1. DOMAIN b2 = DOMAIN b \ {r.n} /\ \A k \in DOMAIN b2 : b2[k] = b[k]
    BY <1>6
  <2>2. \A k : Takes(r, k) => k = r.n
    BY <1>6 DEF Takes
  <2>3. /\ \A k \in DOMAIN b2 : k \in DOMAIN t /\ b2[k] = t[k]
        /\ \A k \in DOMAIN t : ~InTree(n, k) => k \in DOMAIN b2
        /\ \A k \in DOMAIN b2 : InTree(n, k) => Taken(rest, k)
    BY <1>1, <1>2, <1>3, <2>1, <2>2
  <2>4. CASE rest # <<>>
    <3>1. Underway(t, b2, call, rest)
      BY <1>3, <2>3 DEF Underway, Removing
    <3> QED BY <1>6, <2>4, <3>1, GoesIs
  <2>5. CASE rest = <<>>
    <3>1. \A k : ~Taken(rest, k)
      BY <2>5, NoneTaken
    <3>2. \A k \in DOMAIN t : k \in DOMAIN b2 <=> ~InTree(n, k)
      BY <2>3, <3>1
    <3>3. Shown(b2) = WithoutTree(Shown(t), n)
      BY <1>3, <2>3, <3>2, WithoutShown
    <3>4. View(t) = Shown(t) /\ View(b2) = Shown(b2)
      BY ViewIs
    <3>5. Contract(call, View(t)) = [ret |-> "ok", tree |-> View(b2)]
      BY <1>3, <3>3, <3>4, RemoveAllContract
    <3> QED BY <1>6, <2>5, <3>5, GoesIs
  <2> QED BY <2>4, <2>5
<1> QED BY <1>4, <1>5, <1>6

-----------------------------------------------------------------------------
(* Rename: what a listing leads to.                                        *)

\* The entries of a directory are listed.
LEMMA EntriesListed ==
  ASSUME NEW b, NEW n, Stored(b, n), NEW d \in Path
  PROVE  /\ Entries(b, d) \in Seq(FilesIn(b, d) \cup DirsIn(b, d))
         /\ \A p \in FilesIn(b, d) \cup DirsIn(b, d) : \E i \in DOMAIN Entries(b, d) :
              Entries(b, d)[i] = p
<1>1. /\ Entries(b, d) \in Seq(FilesIn(b, d) \cup DirsIn(b, d))
      /\ \A p \in FilesIn(b, d) \cup DirsIn(b, d) : \E i \in DOMAIN Entries(b, d) :
           Entries(b, d)[i] = p
      /\ \A p \in FilesIn(b, d) \cap DirsIn(b, d) : \E i, j \in DOMAIN Entries(b, d) :
           i < j /\ Entries(b, d)[i] = p /\ Entries(b, d)[j] = p
  BY EntriesAre
<1> QED BY <1>1

\* An entry of a directory lies in it, and goes where the directory goes; two
\* that a key lies in are the same, and are one unless it is a file and a
\* directory at once.
LEMMA EntriesMove ==
  ASSUME NEW m \in Nat, NEW t, ~Mixed(t), NEW b, Stored(b, m), NEW d \in Path, NEW n \in Path,
         NEW to \in Path, InTree(n, d), \A k \in DOMAIN b : InTree(n, k) => k \in DOMAIN t
  PROVE  LET e == Entries(b, d) IN
         /\ Len(e) \in Nat /\ DOMAIN e = 1..Len(e)
         /\ \A i \in DOMAIN e :
              /\ e[i] \in Path /\ e[i] # <<>> /\ Parent(e[i]) = d /\ Under(d, e[i]) /\ Under(n, e[i])
              /\ Append(Rebased(d, n, to), Last(e[i])) = Rebased(e[i], n, to)
              /\ \E k \in DOMAIN t : InTree(e[i], k)
         /\ \A k \in DOMAIN b : Under(d, k) /\ k # HolderOf(d) => \E i \in DOMAIN e : InTree(e[i], k)
         /\ \A k \in Key : \A i, j \in DOMAIN e : InTree(e[i], k) /\ InTree(e[j], k) => i = j
<1> DEFINE e == Entries(b, d)
           S == FilesIn(b, d) \cup DirsIn(b, d)
<1>1. e \in Seq(S) /\ \A x \in S : \E i \in DOMAIN e : e[i] = x
  BY EntriesListed
<1>2. \A i, j \in DOMAIN e : i < j /\ e[i] = e[j] => e[i] \in FilesIn(b, d) /\ e[i] \in DirsIn(b, d)
  <2>1. \A i, j \in DOMAIN Entries(b, d) :
           i < j /\ Entries(b, d)[i] = Entries(b, d)[j] =>
             Mixed(b) /\ Entries(b, d)[i] \in FilesIn(b, d) \cap DirsIn(b, d)
    BY EntriesAre, Zenon
  <2> QED BY <2>1
<1>3. /\ FilesIn(b, d) \subseteq DOMAIN b
      /\ \A p \in S : /\ p \in Path /\ p # <<>> /\ Last(p) \in Names
                      /\ Parent(p) = d /\ Under(d, p) /\ InTree(d, p)
      /\ \A p \in DirsIn(b, d) : \E k \in DOMAIN b : Under(p, k)
  BY EntryIs
<1>4. \A k \in DOMAIN b : Under(d, k) /\ k # HolderOf(d) =>
           k \in FilesIn(b, d) \/ \E p \in DirsIn(b, d) : Under(p, k)
  BY Covered
<1>5. \A k \in DOMAIN b : k \in Key
  BY KeysAre
<1>6. n \in Key /\ d \in Key /\ to \in Key /\ \A p \in S : p \in Key
  BY <1>3, PathIs
<1> HIDE DEF e
<1>7. \A i \in DOMAIN e : e[i] \in S
  BY <1>1, ElementOfSeq
<1>8. Len(e) \in Nat /\ DOMAIN e = 1..Len(e)
  BY <1>1, LenProperties
<1>9. \A p \in S : Under(n, p)
  <2> SUFFICES ASSUME NEW p \in S PROVE Under(n, p)
    OBVIOUS
  <2>1. InTree(n, p)
    BY <1>3, <1>6, Trees
  <2>2. p # n
    <3>1. p = n => InTree(p, d)
      OBVIOUS
    <3>2. Len(d) \in Nat /\ Len(p) = Len(d) + 1
      <4>1. Len(p) = Len(Parent(p)) + 1 /\ Len(Parent(p)) \in Nat
        BY <1>3, ParentIs DEF Path
      <4> QED BY <1>3, <4>1
    <3>3. ~InTree(p, d)
      BY <3>2 DEF InTree
    <3> QED BY <3>1, <3>3
  <2> QED BY <2>1, <2>2 DEF Under
<1>10. \A p \in S : Append(Rebased(d, n, to), Last(p)) = Rebased(p, n, to)
  <2> SUFFICES ASSUME NEW p \in S PROVE Append(Rebased(d, n, to), Last(p)) = Rebased(p, n, to)
    OBVIOUS
  <2>1. p \in Path /\ p # <<>> /\ Parent(p) = d /\ InTree(n, Parent(p))
    BY <1>3
  <2>2. \A q \in Path : q # <<>> /\ InTree(n, Parent(q)) =>
           Rebased(q, n, to) = Append(Rebased(Parent(q), n, to), Last(q))
    BY Rebases
  <2> QED BY <2>1, <2>2
<1>11. \A p \in S : \E k \in DOMAIN t : InTree(p, k)
  <2> SUFFICES ASSUME NEW p \in S PROVE \E k \in DOMAIN t : InTree(p, k)
    OBVIOUS
  <2>1. \E k \in DOMAIN b : InTree(p, k)
    BY <1>3, <1>6, Trees DEF Under
  <2>2. \A k \in DOMAIN b : InTree(p, k) => InTree(n, k)
    BY <1>5, <1>6, <1>9, Trees DEF Under
  <2> QED BY <2>1, <2>2
<1>12. ASSUME NEW k \in DOMAIN b, Under(d, k), k # HolderOf(d)
       PROVE  \E i \in DOMAIN e : InTree(e[i], k)
  <2>1. PICK p \in S : InTree(p, k)
    BY <1>4, <1>5, <1>12, Trees DEF Under
  <2> QED BY <1>1, <2>1
<1>13. ASSUME NEW k \in Key, NEW i \in DOMAIN e, NEW j \in DOMAIN e, InTree(e[i], k), InTree(e[j], k)
       PROVE  i = j
  <2>1. e[i] = e[j]
    <3> DEFINE x == e[i]
               y == e[j]
    <3>1. Len(x) = Len(y)
      <4>1. Len(x) = Len(Parent(x)) + 1 /\ Len(y) = Len(Parent(y)) + 1
        BY <1>3, <1>7, ParentIs DEF Path
      <4> QED BY <1>3, <1>7, <4>1
    <3>2. SubSeq(k, 1, Len(x)) = x /\ SubSeq(k, 1, Len(y)) = y
      BY <1>13 DEF InTree
    <3> QED BY <3>1, <3>2
  <2>2. ASSUME NEW a \in DOMAIN e, NEW c \in DOMAIN e, a < c, e[a] = e[c]
        PROVE  FALSE
    <3> DEFINE p == e[a]
    <3>1. p \in FilesIn(b, d) /\ p \in DirsIn(b, d)
      BY <1>2, <2>2
    <3> HIDE DEF p
    <3>2. p \in DOMAIN b /\ \E l \in DOMAIN b : Under(p, l)
      BY <1>3, <3>1
    <3>3. PICK l \in DOMAIN b : Under(p, l)
      BY <3>2
    <3>4. p \in Key /\ InTree(n, p) /\ InTree(n, l)
      BY <1>5, <1>6, <1>9, <3>1, <3>3, Trees DEF Under
    <3>5. p \in DOMAIN t /\ l \in DOMAIN t
      BY <3>2, <3>4
    <3> QED BY <3>3, <3>5 DEF Mixed
  <2> QED BY <1>8, <2>1, <2>2
<1>14. \A i \in DOMAIN e :
         /\ e[i] \in Path /\ e[i] # <<>> /\ Parent(e[i]) = d /\ Under(d, e[i]) /\ Under(n, e[i])
         /\ Append(Rebased(d, n, to), Last(e[i])) = Rebased(e[i], n, to)
         /\ \E k \in DOMAIN t : InTree(e[i], k)
  BY <1>3, <1>7, <1>9, <1>10, <1>11
<1> QED BY <1>8, <1>12, <1>13, <1>14 DEF e

\* What a request of these kinds takes and brings.
LEMMA RequestsTake ==
  /\ \A p, to, k : /\ Takes(MoveOf(p, to), k) <=> InTree(p, k)
                   /\ Brings(MoveOf(p, to), k) <=> InTree(Append(to, Last(p)), k)
  /\ \A d, k : (Takes(RemoveObject(d), k) <=> k = d) /\ ~Brings(RemoveObject(d), k)
  /\ \A p, k : LET r == Request("mkdir", p, <<>>, 0) IN
       ~Takes(r, k) /\ (Brings(r, k) <=> k = HolderOf(p))
  /\ \A p, to, k : ~Takes(CopyObject(p, to), k) /\ (Brings(CopyObject(p, to), k) <=> k = to)
<1>1. \A p, to, k : /\ Takes(MoveOf(p, to), k) <=> InTree(p, k)
                    /\ Brings(MoveOf(p, to), k) <=> InTree(Append(to, Last(p)), k)
  BY RequestIs DEF MoveOf, Takes, Brings, Makers
<1>2. \A d, k : (Takes(RemoveObject(d), k) <=> k = d) /\ ~Brings(RemoveObject(d), k)
  BY RequestIs DEF RemoveObject, Takes, Brings, Makers
<1>3. \A p, k : LET r == Request("mkdir", p, <<>>, 0) IN
        ~Takes(r, k) /\ (Brings(r, k) <=> k = HolderOf(p))
  BY RequestIs DEF Takes, Brings, Makers, Place
<1>4. \A p, to, k : ~Takes(CopyObject(p, to), k) /\ (Brings(CopyObject(p, to), k) <=> k = to)
  BY RequestIs DEF CopyObject, Takes, Brings, Makers
<1> QED BY <1>1, <1>2, <1>3, <1>4

\* What is made of the listing of a directory that is moved takes and brings
\* what is in it, each once, to where it goes.
LEMMA MovesMove ==
  ASSUME NEW m \in Nat, NEW t, Stored(t, m), ~Mixed(t),
         NEW n \in Path, n # <<>>, Marked(t, n), NEW to \in Path,
         NEW r \in Requests(m), r.do = "mvlist", InTree(n, r.n), r.to = Rebased(r.n, n, to),
         r.n \notin DOMAIN t, \E k \in DOMAIN t : InTree(r.n, k),
         NEW b, Stored(b, m), \A k \in DOMAIN b : InTree(n, k) => k \in DOMAIN t,
         \A k \in DOMAIN t : InTree(r.n, k) => k \in DOMAIN b,
         ~Occupied(b, r.to), r.to = to => b = t
  PROVE  LET q == Moves(r, b) IN
         /\ q \in Seq(Requests(m)) /\ 1 \in DOMAIN q /\ q[1].do = "mkdir" /\ q[1].n = r.to
         /\ \A k \in DOMAIN t : InTree(n, k) =>
              /\ Taken(q, k) <=> InTree(r.n, k)
              /\ Brought(q, Rebased(k, n, to)) <=> InTree(r.n, k)
         /\ Once(t, n, to, q)
         /\ \A i \in DOMAIN q : Fit(t, b, n, to, q[i])
<1> DEFINE d == r.n
           e == Entries(b, d)
           q == Moves(r, b)
           up(k) == Rebased(k, n, to)
<1>1. d \in Path /\ d # <<>> /\ r.to \in Path /\ r.to # <<>>
  BY DEF Requests, Valid
<1>2. /\ q \in Seq(Requests(m)) /\ Len(e) \in Nat /\ DOMAIN q = 1..Len(e) + 3
      /\ q[1] = Request("mkdir", r.to, <<>>, 0)
      /\ \A i \in DOMAIN e : q[i + 1] = MoveOf(e[i], r.to)
      /\ q[Len(e) + 2] = RemoveObject(HolderOf(d))
      /\ q[Len(e) + 3] = RemoveObject(d)
  BY MovesAre
<1>3. /\ DOMAIN e = 1..Len(e)
      /\ \A i \in DOMAIN e :
           /\ e[i] \in Path /\ e[i] # <<>> /\ Parent(e[i]) = d /\ Under(d, e[i]) /\ Under(n, e[i])
           /\ Append(Rebased(d, n, to), Last(e[i])) = Rebased(e[i], n, to)
           /\ \E k \in DOMAIN t : InTree(e[i], k)
  BY <1>1, EntriesMove
<1>4. \A k \in DOMAIN b : Under(d, k) /\ k # HolderOf(d) => \E i \in DOMAIN e : InTree(e[i], k)
  BY <1>1, EntriesMove
<1>5. \A k \in Key : \A i, j \in DOMAIN e : InTree(e[i], k) /\ InTree(e[j], k) => i = j
  BY <1>1, EntriesMove
<1>6. n \in Key /\ to \in Key /\ d \in Key /\ HolderOf(d) \in Key /\ InTree(d, HolderOf(d))
      /\ HolderOf(d) \notin Path /\ InTree(n, HolderOf(d))
  <2>1. n \in Key /\ to \in Key /\ d \in Key
    BY <1>1, PathIs
  <2>2. HolderOf(d) \in Key /\ InTree(d, HolderOf(d)) /\ HolderOf(d) \notin Path
    BY <1>1, HolderIs, HolderLies
  <2> QED BY <2>1, <2>2, Trees
<1>7. \A k \in DOMAIN t : k \in Key
  BY KeysAre
<1>8. \A k \in Key : InTree(n, k) =>
        InTree(to, up(k)) /\ up(k) \in Key /\ Rebased(up(k), to, n) = k
  BY Rebases
<1>9. up(HolderOf(d)) = HolderOf(r.to)
  BY <1>1, Rebases
<1>10. \A p, k \in Key : InTree(n, p) /\ InTree(n, k) => (InTree(up(p), up(k)) <=> InTree(p, k))
  <2>1. \A p, k \in Key : InTree(n, p) /\ InTree(p, k) => InTree(up(p), up(k))
    BY Rebases
  <2>2. \A p, k \in Key : InTree(n, p) /\ InTree(n, k) /\ InTree(up(p), up(k)) => InTree(p, k)
    BY Rebases
  <2> QED BY <2>1, <2>2
<1> HIDE DEF e, q, up
<1>11. /\ \A i \in DOMAIN q : i = 1 \/ (i - 1 \in DOMAIN e /\ i = (i - 1) + 1) \/ i = Len(e) + 2 \/ i = Len(e) + 3
       /\ 1 \in DOMAIN q /\ Len(e) + 2 \in DOMAIN q /\ Len(e) + 3 \in DOMAIN q
       /\ \A i \in DOMAIN e : i + 1 \in DOMAIN q
  BY <1>2, <1>3
<1>12. \A k : /\ ~Takes(q[1], k) /\ (Takes(q[Len(e) + 2], k) <=> k = HolderOf(d))
              /\ (Takes(q[Len(e) + 3], k) <=> k = d)
              /\ \A i \in DOMAIN e : Takes(q[i + 1], k) <=> InTree(e[i], k)
  BY <1>2, RequestsTake
<1>13. ASSUME NEW k \in DOMAIN t, InTree(n, k)
       PROVE  /\ Brings(q[1], up(k)) <=> k = HolderOf(d)
              /\ ~Brings(q[Len(e) + 2], up(k)) /\ ~Brings(q[Len(e) + 3], up(k))
              /\ \A i \in DOMAIN e : Brings(q[i + 1], up(k)) <=> InTree(e[i], k)
  <2>1. up(k) = HolderOf(r.to) <=> k = HolderOf(d)
    BY <1>6, <1>7, <1>8, <1>9, <1>13
  <2>2. \A i \in DOMAIN e : Append(r.to, Last(e[i])) = up(e[i])
    BY <1>3 DEF up
  <2>3. \A i \in DOMAIN e : InTree(up(e[i]), up(k)) <=> InTree(e[i], k)
    <3>1. \A i \in DOMAIN e : e[i] \in Key /\ InTree(n, e[i])
      BY <1>3, PathIs DEF Under
    <3> QED BY <1>7, <1>10, <1>13, <3>1
  <2>4. Brings(q[1], up(k)) <=> up(k) = HolderOf(r.to)
    BY <1>2, RequestsTake
  <2>5. ~Brings(q[Len(e) + 2], up(k)) /\ ~Brings(q[Len(e) + 3], up(k))
    BY <1>2, RequestsTake
  <2>6. \A i \in DOMAIN e : Brings(q[i + 1], up(k)) <=> InTree(Append(r.to, Last(e[i])), up(k))
    BY <1>2, RequestsTake
  <2> QED BY <2>1, <2>2, <2>3, <2>4, <2>5, <2>6
<1>14. \A i \in DOMAIN e : ~InTree(e[i], HolderOf(d))
  <2> SUFFICES ASSUME NEW i \in DOMAIN e, InTree(e[i], HolderOf(d)) PROVE FALSE
    OBVIOUS
  <2>1. InTree(e[i], d)
    BY <1>1, <1>3, HolderLies
  <2>2. Len(e[i]) = Len(d) + 1 /\ Len(d) \in Nat
    <3>1. Len(e[i]) = Len(Parent(e[i])) + 1 /\ Len(Parent(e[i])) \in Nat
      BY <1>3, ParentIs DEF Path
    <3> QED BY <1>3, <3>1
  <2> QED BY <2>1, <2>2 DEF InTree
<1>15. \A k \in Key : \A i \in DOMAIN e : InTree(e[i], k) => InTree(d, k)
  <2>1. \A i \in DOMAIN e : e[i] \in Key /\ InTree(d, e[i])
    BY <1>3, PathIs DEF Under
  <2> QED BY <1>6, <2>1, Trees
<1>16. ASSUME NEW k \in DOMAIN t, InTree(n, k)
       PROVE  /\ Taken(q, k) <=> InTree(d, k)
              /\ Brought(q, up(k)) <=> InTree(d, k)
  <2>1. InTree(d, k) => k = HolderOf(d) \/ \E i \in DOMAIN e : InTree(e[i], k)
    BY <1>4 DEF Under
  <2>2. (\E i \in DOMAIN e : InTree(e[i], k)) => InTree(d, k)
    BY <1>7, <1>15
  <2>3. k # d
    BY <1>16
  <2>4. Taken(q, k) => InTree(d, k)
    BY <1>6, <1>11, <1>12, <2>2, <2>3 DEF Taken
  <2>5. InTree(d, k) => Taken(q, k)
    BY <1>11, <1>12, <2>1 DEF Taken
  <2>6. Brought(q, up(k)) => InTree(d, k)
    BY <1>6, <1>11, <1>13, <1>16, <2>2 DEF Brought
  <2>7. InTree(d, k) => Brought(q, up(k))
    BY <1>11, <1>13, <1>16, <2>1 DEF Brought
  <2> QED BY <2>4, <2>5, <2>6, <2>7
<1>17. Once(t, n, to, q)
  <2> SUFFICES ASSUME NEW k \in DOMAIN t, InTree(n, k), NEW i \in DOMAIN q, NEW j \in DOMAIN q,
                      \/ Takes(q[i], k) /\ Takes(q[j], k)
                      \/ Brings(q[i], up(k)) /\ Brings(q[j], up(k))
               PROVE  i = j
    BY DEF Once, up
  <2>1. k # d /\ k \in Key
    BY <1>7
  <2>2. \A a, c \in DOMAIN e : InTree(e[a], k) /\ InTree(e[c], k) => a = c
    BY <1>5, <2>1
  <2>3. \A a \in DOMAIN e : InTree(e[a], k) => k # HolderOf(d)
    BY <1>14
  <2>4. CASE Takes(q[i], k) /\ Takes(q[j], k)
    <3>1. (i = Len(e) + 2 /\ k = HolderOf(d)) \/ (i - 1 \in DOMAIN e /\ InTree(e[i - 1], k))
      BY <1>11, <1>12, <2>1, <2>4
    <3>2. (j = Len(e) + 2 /\ k = HolderOf(d)) \/ (j - 1 \in DOMAIN e /\ InTree(e[j - 1], k))
      BY <1>11, <1>12, <2>1, <2>4
    <3>3. i \in Nat /\ j \in Nat
      BY <1>2
    <3>4. i - 1 \in DOMAIN e /\ j - 1 \in DOMAIN e => i - 1 = j - 1 \/ k = HolderOf(d)
      BY <2>2, <3>1, <3>2
    <3> QED BY <2>3, <3>1, <3>2, <3>3, <3>4
  <2>5. CASE Brings(q[i], up(k)) /\ Brings(q[j], up(k))
    <3>1. (i = 1 /\ k = HolderOf(d)) \/ (i - 1 \in DOMAIN e /\ InTree(e[i - 1], k))
      BY <1>11, <1>13, <2>5
    <3>2. (j = 1 /\ k = HolderOf(d)) \/ (j - 1 \in DOMAIN e /\ InTree(e[j - 1], k))
      BY <1>11, <1>13, <2>5
    <3>3. i \in Nat /\ j \in Nat
      BY <1>2
    <3>4. i - 1 \in DOMAIN e /\ j - 1 \in DOMAIN e => i - 1 = j - 1 \/ k = HolderOf(d)
      BY <2>2, <3>1, <3>2
    <3> QED BY <2>3, <3>1, <3>2, <3>3, <3>4
  <2> QED BY <2>4, <2>5
<1>18. ASSUME NEW i \in DOMAIN q
       PROVE  Fit(t, b, n, to, q[i])
  <2>1. CASE i = 1
    <3> DEFINE s == q[1]
    <3>1. s.do = "mkdir" /\ s.n = r.to /\ s.at = "head"
      BY <1>2, RequestIs
    <3> HIDE DEF s
    <3>2. Place(s) = r.to /\ ~Writes(s)
      BY <3>1 DEF Place, Writes
    <3>3. Rebased(r.to, to, n) = d /\ InTree(to, r.to)
      BY <1>6, <1>8 DEF up
    <3>4. HolderOf(d) \in DOMAIN t
      <4>1. PICK k \in DOMAIN t : InTree(d, k)
        OBVIOUS
      <4>2. Under(d, k)
        BY <4>1 DEF Under
      <4> QED BY <1>1, <4>2 DEF Marked
    <3>5. Fit(t, b, n, to, s)
      BY <3>1, <3>2, <3>3, <3>4 DEF Fit
    <3> QED BY <2>1, <3>5 DEF s
  <2>2. ASSUME i - 1 \in DOMAIN e, i = (i - 1) + 1
        PROVE  Fit(t, b, n, to, q[i])
    <3> DEFINE s == q[i]
               p == e[i - 1]
    <3>1. s = MoveOf(p, r.to)
      BY <1>2, <2>2
    <3>2. s.do = "rename" /\ s.n = p /\ s.to = Append(r.to, Last(p)) /\ s.at = "head"
      <4> HIDE DEF s, p
      <4> DEFINE u == Append(r.to, Last(p))
      <4>1. s = Request("rename", p, u, 0)
        BY <3>1 DEF MoveOf
      <4> HIDE DEF u
      <4>2. s.do = "rename" /\ s.n = p /\ s.to = u /\ s.at = "head"
        BY <4>1, RequestIs
      <4> QED BY <4>2 DEF u
    <3>3. Under(n, p) /\ Append(r.to, Last(p)) = Rebased(p, n, to) /\ \E k \in DOMAIN t : InTree(p, k)
      BY <1>3, <2>2
    <3> HIDE DEF s, p
    <3>4. Fit(t, b, n, to, s)
      BY <3>2, <3>3 DEF Fit, Writes, Makers
    <3> QED BY <3>4 DEF s
  <2>3. ASSUME i = Len(e) + 2 \/ i = Len(e) + 3
        PROVE  Fit(t, b, n, to, q[i])
    <3> DEFINE s == q[i]
    <3>1. s.do = "remove"
      BY <1>2, <2>3, RequestIs DEF RemoveObject
    <3> HIDE DEF s
    <3>2. Fit(t, b, n, to, s)
      BY <3>1 DEF Fit, Writes, Makers
    <3> QED BY <3>2 DEF s
  <2> QED BY <1>11, <2>1, <2>2, <2>3
<1>19. q[1].do = "mkdir" /\ q[1].n = r.to
  BY <1>2, RequestIs
<1> QED BY <1>2, <1>11, <1>16, <1>17, <1>18, <1>19 DEF q, up

-----------------------------------------------------------------------------
(* Rename of a directory: how its program goes on.                         *)

\* A Rename of a directory to where it may go.
MovesDir(t, call) ==
  /\ call.op = "Rename" /\ call.n \in Path /\ call.to \in Path /\ call.to # <<>> /\ call.n # <<>>
  /\ ~InTree(call.n, call.to) /\ call.n \notin DOMAIN t /\ Occupied(t, call.n) /\ Plain(t, call)

\* The places of two sequences, one after the other.
LEMMA JoinIs ==
  ASSUME NEW S, NEW q \in Seq(S), NEW rest \in Seq(S)
  PROVE  /\ Len(q) \in Nat /\ DOMAIN q = 1..Len(q)
         /\ \A i \in DOMAIN (q \o rest) :
              \/ i \in DOMAIN q /\ (q \o rest)[i] = q[i]
              \/ i - Len(q) \in DOMAIN rest /\ i \in Nat /\ (q \o rest)[i] = rest[i - Len(q)]
         /\ \A i \in DOMAIN q : i \in DOMAIN (q \o rest) /\ (q \o rest)[i] = q[i]
<1> DEFINE p == q \o rest
<1>1. /\ p \in Seq(S) /\ Len(p) = Len(q) + Len(rest)
      /\ \A i \in 1..Len(q) + Len(rest) : p[i] = IF i <= Len(q) THEN q[i] ELSE rest[i - Len(q)]
  BY ConcatProperties
<1>2. Len(q) \in Nat /\ Len(rest) \in Nat /\ DOMAIN q = 1..Len(q) /\ DOMAIN rest = 1..Len(rest)
  OBVIOUS
<1> HIDE DEF p
<1>3. DOMAIN p = 1..Len(q) + Len(rest)
  BY <1>1
<1>4. ASSUME NEW i \in DOMAIN p
      PROVE  \/ i \in DOMAIN q /\ p[i] = q[i]
             \/ i - Len(q) \in DOMAIN rest /\ i \in Nat /\ p[i] = rest[i - Len(q)]
  <2>1. CASE i <= Len(q)
    BY <1>1, <1>2, <1>3, <2>1
  <2>2. CASE ~(i <= Len(q))
    BY <1>1, <1>2, <1>3, <2>2
  <2> QED BY <2>1, <2>2
<1>5. \A i \in DOMAIN q : i \in DOMAIN p /\ p[i] = q[i]
  BY <1>1, <1>2, <1>3
<1> QED BY <1>2, <1>4, <1>5 DEF p

\* What takes the place of a program's first request takes and brings the same,
\* each once.
LEMMA OnceBecomes ==
  ASSUME NEW S, NEW p \in Seq(S), p # <<>>, NEW q \in Seq(S), NEW t, NEW n, NEW to,
         Once(t, n, to, p), Once(t, n, to, q),
         \A k \in DOMAIN t : InTree(n, k) =>
           /\ Taken(q, k) => Takes(p[1], k)
           /\ Brought(q, Rebased(k, n, to)) => Brings(p[1], Rebased(k, n, to))
  PROVE  Once(t, n, to, q \o Tail(p))
<1> DEFINE rest == Tail(p)
           s == q \o rest
           up(k) == Rebased(k, n, to)
<1>1. /\ 1 \in DOMAIN p /\ rest \in Seq(S)
      /\ \A i \in DOMAIN rest : i \in Nat /\ i + 1 \in DOMAIN p /\ i + 1 > 1 /\ rest[i] = p[i + 1]
  BY FirstAndRest
<1> HIDE DEF rest
<1>2. /\ Len(q) \in Nat /\ DOMAIN q = 1..Len(q)
      /\ \A i \in DOMAIN s : \/ i \in DOMAIN q /\ s[i] = q[i]
                             \/ i - Len(q) \in DOMAIN rest /\ i \in Nat /\ s[i] = rest[i - Len(q)]
  BY <1>1, JoinIs
<1> HIDE DEF s
<1> SUFFICES ASSUME NEW k \in DOMAIN t, InTree(n, k), NEW i \in DOMAIN s, NEW j \in DOMAIN s,
                    \/ Takes(s[i], k) /\ Takes(s[j], k)
                    \/ Brings(s[i], up(k)) /\ Brings(s[j], up(k))
             PROVE  i = j
  BY DEF Once, s, rest
<1>3. \A a, c \in DOMAIN p :
        \/ Takes(p[a], k) /\ Takes(p[c], k)
        \/ Brings(p[a], up(k)) /\ Brings(p[c], up(k))
        => a = c
  BY DEF Once
<1>4. \A a, c \in DOMAIN q :
        \/ Takes(q[a], k) /\ Takes(q[c], k)
        \/ Brings(q[a], up(k)) /\ Brings(q[c], up(k))
        => a = c
  BY DEF Once
<1>5. \A a \in DOMAIN q : /\ Takes(q[a], k) => Takes(p[1], k)
                          /\ Brings(q[a], up(k)) => Brings(p[1], up(k))
  BY DEF Taken, Brought
<1> HIDE DEF up
<1>6. ASSUME NEW a \in DOMAIN q, NEW c \in DOMAIN rest,
             \/ Takes(q[a], k) /\ Takes(rest[c], k)
             \/ Brings(q[a], up(k)) /\ Brings(rest[c], up(k))
      PROVE  FALSE
  <2>1. c + 1 \in DOMAIN p /\ c + 1 # 1 /\ rest[c] = p[c + 1]
    BY <1>1
  <2>2. c + 1 = 1
    BY <1>1, <1>3, <1>5, <1>6, <2>1
  <2> QED BY <2>1, <2>2
<1>7. CASE i \in DOMAIN q /\ j \in DOMAIN q /\ s[i] = q[i] /\ s[j] = q[j]
  BY <1>4, <1>7
<1>8. CASE i \in DOMAIN q /\ j - Len(q) \in DOMAIN rest /\ s[i] = q[i] /\ s[j] = rest[j - Len(q)]
  BY <1>6, <1>8
<1>9. CASE j \in DOMAIN q /\ i - Len(q) \in DOMAIN rest /\ s[j] = q[j] /\ s[i] = rest[i - Len(q)]
  BY <1>6, <1>9
<1>10. ASSUME i - Len(q) \in DOMAIN rest, s[i] = rest[i - Len(q)], i \in Nat,
              j - Len(q) \in DOMAIN rest, s[j] = rest[j - Len(q)], j \in Nat
       PROVE  i = j
  <2> DEFINE a == i - Len(q)
             c == j - Len(q)
  <2>1. /\ a + 1 \in DOMAIN p /\ rest[a] = p[a + 1] /\ a \in Nat
        /\ c + 1 \in DOMAIN p /\ rest[c] = p[c + 1] /\ c \in Nat
    BY <1>1, <1>10
  <2>2. s[i] = p[a + 1] /\ s[j] = p[c + 1]
    BY <1>10, <2>1
  <2>3. a + 1 = c + 1
    <3> HIDE DEF a, c
    <3> QED BY <1>3, <2>1, <2>2
  <2> QED BY <1>2, <1>10, <2>1, <2>3
<1> QED BY <1>2, <1>7, <1>8, <1>9, <1>10

\* What is left takes and brings each thing once, and nothing that the first
\* request takes or brings.
LEMMA OnceRest ==
  ASSUME NEW S, NEW p \in Seq(S), p # <<>>, NEW t, NEW n, NEW to, Once(t, n, to, p)
  PROVE  /\ Once(t, n, to, Tail(p))
         /\ \A k \in DOMAIN t : InTree(n, k) =>
              /\ Takes(p[1], k) => ~Taken(Tail(p), k)
              /\ Brings(p[1], Rebased(k, n, to)) => ~Brought(Tail(p), Rebased(k, n, to))
<1> DEFINE rest == Tail(p)
           up(k) == Rebased(k, n, to)
<1>1. /\ 1 \in DOMAIN p /\ rest \in Seq(S)
      /\ \A i \in DOMAIN rest : i \in Nat /\ i + 1 \in DOMAIN p /\ i + 1 # 1 /\ rest[i] = p[i + 1]
  BY FirstAndRest
<1> HIDE DEF rest
<1>2. ASSUME NEW k \in DOMAIN t, InTree(n, k)
      PROVE  \A a, c \in DOMAIN p :
               \/ Takes(p[a], k) /\ Takes(p[c], k)
               \/ Brings(p[a], up(k)) /\ Brings(p[c], up(k))
               => a = c
  BY <1>2 DEF Once
<1>3. ASSUME NEW k \in DOMAIN t, InTree(n, k)
      PROVE  /\ Takes(p[1], k) => ~Taken(rest, k)
             /\ Brings(p[1], up(k)) => ~Brought(rest, up(k))
  <2> HIDE DEF up
  <2>1. \A i \in DOMAIN rest : ~(Takes(p[1], k) /\ Takes(rest[i], k))
    BY <1>1, <1>2, <1>3
  <2>2. \A i \in DOMAIN rest : ~(Brings(p[1], up(k)) /\ Brings(rest[i], up(k)))
    BY <1>1, <1>2, <1>3
  <2> QED BY <2>1, <2>2 DEF Taken, Brought
<1>4. ASSUME NEW k \in DOMAIN t, InTree(n, k), NEW i \in DOMAIN rest, NEW j \in DOMAIN rest,
             \/ Takes(rest[i], k) /\ Takes(rest[j], k)
             \/ Brings(rest[i], up(k)) /\ Brings(rest[j], up(k))
      PROVE  i = j
  <2> HIDE DEF up
  <2>1. i + 1 = j + 1
    BY <1>1, <1>2, <1>4
  <2> QED BY <1>1, <2>1
<1>5. Once(t, n, to, rest)
  BY <1>4 DEF Once
<1> QED BY <1>3, <1>5 DEF rest

\* What waits fits however far the call has come.
LEMMA WaitsFit ==
  ASSUME NEW t, NEW b, NEW b2, NEW n, NEW to, NEW r, Waits(r), Fit(t, b, n, to, r)
  PROVE  Fit(t, b2, n, to, r)
  BY DEF Waits, Fit, Writes, Makers

\* The two names of a Rename of a directory to a place that is free are apart.
LEMMA DirApart ==
  ASSUME NEW m, NEW t, Stored(t, m), NEW call, MovesDir(t, call), ~Occupied(t, call.to)
  PROVE  /\ Apart(call) /\ call.n \in Key /\ call.to \in Key
         /\ \A k \in Key : InTree(call.to, k) => ~InTree(call.n, k)
<1>1. call.n \in Key /\ call.to \in Key
  BY PathIs DEF MovesDir
<1>2. PICK k \in DOMAIN t : InTree(call.n, k)
  BY DEF MovesDir, Occupied
<1>3. k \in Key
  BY KeysAre
<1>4. ~InTree(call.to, call.n)
  BY <1>1, <1>2, <1>3, Trees DEF Occupied
<1>5. Apart(call)
  BY <1>4 DEF Apart, MovesDir
<1> QED BY <1>1, <1>5, TreesApart DEF MovesDir

\* Such a Rename is underway.
LEMMA DirGoes ==
  ASSUME NEW t, NEW b, NEW call, MovesDir(t, call), NEW q, q # <<>>,
         MovingDir(t, b, call, q) \/ Clashing(t, b, call, q)
  PROVE  Goes(t, b, call, Go(q))
<1>1. call.n # call.to
  BY PathIs, Trees DEF MovesDir
<1>2. Renaming(t, b, call, q)
  BY <1>1 DEF Renaming, MovesDir
<1>3. Underway(t, b, call, q)
  BY <1>2 DEF Underway, MovesDir
<1> QED BY <1>3, GoesIs

\* When nothing is left to move, everything has been moved.
LEMMA DirEnds ==
  ASSUME ShortOf = {}, NEW m \in Nat, NEW t, Stored(t, m), NEW b, Stored(b, m),
         NEW call, MovesDir(t, call), ~Occupied(t, call.to), Occupied(t, Parent(call.to)),
         Halfway(t, b, call.n, call.to, <<>>)
  PROVE  Goes(t, b, call, Go(<<>>))
<1> DEFINE n == call.n
           to == call.to
<1>1. n \in Path /\ to \in Path /\ to # <<>> /\ n # <<>> /\ ~InTree(n, to) /\ n \notin DOMAIN t
      /\ Occupied(t, n) /\ call.op = "Rename" /\ Stays(t, n, to)
  BY DEF MovesDir, Plain
<1>2. \A k : ~Taken(<<>>, k) /\ ~Brought(<<>>, k)
  BY NoneTaken
<1>3. \A k \in DOMAIN b :
        /\ k \in Key
        /\ IF InTree(to, k) THEN Rebased(k, to, n) \in DOMAIN t /\ b[k] = t[Rebased(k, to, n)]
           ELSE k \in DOMAIN t /\ ~InTree(n, k) /\ b[k] = t[k]
  <2>1. \A k \in DOMAIN b : k \in Key
    BY KeysAre
  <2> QED BY <1>2, <2>1 DEF Halfway
<1>4. \A k \in DOMAIN t : IF InTree(n, k) THEN Rebased(k, n, to) \in DOMAIN b ELSE k \in DOMAIN b
  BY <1>2 DEF Halfway
<1>5. Shown(b) = MovedTree(Shown(t), n, to)
  BY <1>1, <1>3, <1>4, MovedShown
<1>6. View(t) = Shown(t) /\ View(b) = Shown(b)
  BY ViewIs
<1>7. n # to /\ ~Under(n, to)
  BY <1>1, PathIs, Trees DEF Under
<1>8. Contract(call, View(t)) = [ret |-> "ok", tree |-> View(b)]
  BY <1>1, <1>5, <1>6, <1>7, RenameContract
<1> QED BY <1>8, GoesIs

\* A Rename of a directory goes on with others in the place of its first
\* request.
LEMMA MovingBecomes ==
  ASSUME NEW m, NEW t, NEW b, NEW call, NEW p \in Seq(Requests(m)), p # <<>>,
         MovingDir(t, b, call, p), MovesDir(t, call), NEW q \in Seq(Requests(m)), 1 \in DOMAIN q,
         \A k \in DOMAIN t : InTree(call.n, k) =>
           /\ Taken(q, k) <=> Takes(p[1], k)
           /\ Brought(q, Rebased(k, call.n, call.to)) <=> Brings(p[1], Rebased(k, call.n, call.to)),
         Once(t, call.n, call.to, q), \A i \in DOMAIN q : Fit(t, b, call.n, call.to, q[i]),
         p[1].do \in Makers /\ p[1].n = call.to =>
           Occupied(t, Parent(call.to)) \/ (q[1].do \in Makers /\ q[1].n = call.to)
  PROVE  Goes(t, b, call, Go(q \o Tail(p)))
<1> DEFINE n == call.n
           to == call.to
           rest == Tail(p)
           s == q \o rest
<1>1. /\ rest \in Seq(Requests(m)) /\ 1 \in DOMAIN p
      /\ \A i \in DOMAIN rest : i + 1 \in DOMAIN p /\ rest[i] = p[i + 1]
  BY FirstAndRest
<1>2. /\ ~Occupied(t, to) /\ Halfway(t, b, n, to, p) /\ Once(t, n, to, p)
      /\ \A i \in DOMAIN p : Fit(t, b, n, to, p[i])
      /\ Occupied(t, Parent(to)) \/ (p[1].do \in Makers /\ p[1].n = to)
  BY DEF MovingDir
<1>3. Once(t, n, to, s)
  BY <1>2, OnceBecomes
<1>4. \A k : /\ Taken(p, k) <=> Takes(p[1], k) \/ Taken(rest, k)
             /\ Brought(p, k) <=> Brings(p[1], k) \/ Brought(rest, k)
  BY FirstTaken
<1> HIDE DEF rest
<1>5. /\ \A k : Taken(s, k) <=> Taken(q, k) \/ Taken(rest, k)
      /\ \A k : Brought(s, k) <=> Brought(q, k) \/ Brought(rest, k)
      /\ \A i \in DOMAIN s : (\E j \in DOMAIN q : s[i] = q[j]) \/ (\E j \in DOMAIN rest : s[i] = rest[j])
  <2>1. \A k : Taken(s, k) <=> Taken(q, k) \/ Taken(rest, k)
    BY <1>1, FrontTaken
  <2>2. \A k : Brought(s, k) <=> Brought(q, k) \/ Brought(rest, k)
    BY <1>1, FrontTaken
  <2>3. \A i \in DOMAIN s : (\E j \in DOMAIN q : s[i] = q[j]) \/ (\E j \in DOMAIN rest : s[i] = rest[j])
    BY <1>1, FrontTaken
  <2> QED BY <2>1, <2>2, <2>3
<1>6. 1 \in DOMAIN s /\ s[1] = q[1]
  BY <1>1, JoinIs
<1> HIDE DEF s
<1>7. Halfway(t, b, n, to, s)
  <2>1. \A k \in DOMAIN t : InTree(n, k) =>
          /\ Taken(s, k) <=> Taken(p, k)
          /\ Brought(s, Rebased(k, n, to)) <=> Brought(p, Rebased(k, n, to))
    BY <1>4, <1>5
  <2> QED BY <1>2, <2>1 DEF Halfway
<1>8. \A i \in DOMAIN s : Fit(t, b, n, to, s[i])
  <2>1. \A i \in DOMAIN rest : Fit(t, b, n, to, rest[i])
    BY <1>1, <1>2
  <2> QED BY <1>5, <2>1
<1>9. Occupied(t, Parent(to)) \/ (s[1].do \in Makers /\ s[1].n = to)
  BY <1>2, <1>6
<1>10. MovingDir(t, b, call, s)
  BY <1>2, <1>3, <1>7, <1>8, <1>9 DEF MovingDir
<1>11. s # <<>>
  BY <1>6
<1>12. Goes(t, b, call, Go(s))
  BY <1>10, <1>11, DirGoes
<1> QED BY <1>12 DEF s, rest

\* It goes on behind its first request, or is over.
LEMMA MovingOn ==
  ASSUME ShortOf = {}, NEW m \in Nat, NEW t, Stored(t, m), NEW b, NEW call,
         MovesDir(t, call), NEW p \in Seq(Requests(m)), p # <<>>,
         \A i \in DOMAIN p : i > 1 => Waits(p[i]), MovingDir(t, b, call, p), p[1].do \notin Makers,
         NEW b2, Stored(b2, m), Halfway(t, b2, call.n, call.to, Tail(p))
  PROVE  Goes(t, b2, call, Go(Tail(p)))
<1> DEFINE n == call.n
           to == call.to
           rest == Tail(p)
<1>1. \A i \in DOMAIN rest : i + 1 \in DOMAIN p /\ i + 1 > 1 /\ rest[i] = p[i + 1]
  BY FirstAndRest
<1>2. /\ ~Occupied(t, to) /\ Once(t, n, to, p) /\ Occupied(t, Parent(to))
      /\ \A i \in DOMAIN p : Fit(t, b, n, to, p[i])
  BY DEF MovingDir
<1>3. Once(t, n, to, rest)
  BY <1>2, OnceRest
<1>4. Halfway(t, b2, n, to, rest)
  OBVIOUS
<1> HIDE DEF rest
<1>5. \A i \in DOMAIN rest : Fit(t, b2, n, to, rest[i])
  BY <1>1, <1>2, WaitsFit
<1>6. CASE rest # <<>>
  <2>1. MovingDir(t, b2, call, rest)
    BY <1>2, <1>3, <1>4, <1>5 DEF MovingDir
  <2>2. Goes(t, b2, call, Go(rest))
    BY <1>6, <2>1, DirGoes
  <2> QED BY <2>2 DEF rest
<1>7. CASE rest = <<>>
  <2>1. Goes(t, b2, call, Go(<<>>))
    BY <1>2, <1>4, <1>7, DirEnds
  <2> QED BY <1>7, <2>1 DEF rest
<1> QED BY <1>6, <1>7

\* A file or a holder is brought to where it goes.
LEMMA MovingPut ==
  ASSUME ShortOf = {}, NEW m \in Nat, NEW t, Stored(t, m), NEW b, Stored(b, m),
         NEW call, MovesDir(t, call), NEW p \in Seq(Requests(m)), p # <<>>,
         \A i \in DOMAIN p : i > 1 => Waits(p[i]), MovingDir(t, b, call, p), p[1].do \notin Makers,
         NEW k0 \in Key, NEW w, InTree(call.to, k0), Rebased(k0, call.to, call.n) \in DOMAIN t,
         w = t[Rebased(k0, call.to, call.n)],
         \A k : ~Takes(p[1], k), \A k : Brings(p[1], k) <=> k = k0, Stored(Placed(b, k0, w), m)
  PROVE  Goes(t, Placed(b, k0, w), call, Go(Tail(p)))
<1> DEFINE n == call.n
           to == call.to
           rest == Tail(p)
           b2 == Placed(b, k0, w)
<1>1. /\ ~Occupied(t, to) /\ Halfway(t, b, n, to, p) /\ Once(t, n, to, p)
  BY DEF MovingDir
<1>2. /\ n \in Path /\ to \in Path /\ n \in Key /\ to \in Key
      /\ \A k \in Key : InTree(to, k) => ~InTree(n, k)
  BY <1>1, DirApart DEF MovesDir
<1>3. DOMAIN b2 = DOMAIN b \cup {k0} /\ \A k \in DOMAIN b2 : b2[k] = IF k = k0 THEN w ELSE b[k]
  BY DEF Placed
<1> HIDE DEF b2
<1>4. \A k : /\ Taken(p, k) <=> Takes(p[1], k) \/ Taken(rest, k)
             /\ Brought(p, k) <=> Brings(p[1], k) \/ Brought(rest, k)
  BY FirstTaken
<1>5. \A k \in DOMAIN t : InTree(n, k) /\ Brings(p[1], Rebased(k, n, to)) =>
        ~Brought(rest, Rebased(k, n, to))
  BY <1>1, OnceRest
<1> HIDE DEF rest
<1>6. Halfway(t, b2, n, to, rest)
  <2>1. ASSUME NEW k \in DOMAIN b2
        PROVE  IF InTree(to, k) THEN Rebased(k, to, n) \in DOMAIN t /\ b2[k] = t[Rebased(k, to, n)]
               ELSE k \in DOMAIN t /\ b2[k] = t[k]
    BY <1>1, <1>3 DEF Halfway
  <2>2. \A k \in DOMAIN t : ~InTree(n, k) => k \in DOMAIN b2
    BY <1>1, <1>3 DEF Halfway
  <2>3. ASSUME NEW k \in DOMAIN t, InTree(n, k)
        PROVE  /\ k \in DOMAIN b2 <=> Taken(rest, k)
               /\ Rebased(k, n, to) \in DOMAIN b2 <=> ~Brought(rest, Rebased(k, n, to))
    <3>1. k # k0
      BY <1>2, <2>3
    <3>2. /\ k \in DOMAIN b <=> Taken(p, k)
          /\ Rebased(k, n, to) \in DOMAIN b <=> ~Brought(p, Rebased(k, n, to))
      BY <1>1, <2>3 DEF Halfway
    <3>3. k \in DOMAIN b2 <=> Taken(rest, k)
      BY <1>3, <1>4, <3>1, <3>2
    <3>4. Rebased(k, n, to) \in DOMAIN b2 <=> ~Brought(rest, Rebased(k, n, to))
      BY <1>3, <1>4, <1>5, <2>3, <3>2
    <3> QED BY <3>3, <3>4
  <2> QED BY <2>1, <2>2, <2>3 DEF Halfway
<1>7. Goes(t, b2, call, Go(rest))
  BY <1>6, MovingOn DEF b2, rest
<1> QED BY <1>7 DEF b2, rest

\* What is left behind is removed.
LEMMA MovingRemove ==
  ASSUME ShortOf = {}, NEW m \in Nat, NEW t, Stored(t, m), NEW b, Stored(b, m),
         NEW call, MovesDir(t, call), NEW p \in Seq(Requests(m)), p # <<>>,
         \A i \in DOMAIN p : i > 1 => Waits(p[i]), MovingDir(t, b, call, p), p[1].do = "remove",
         InTree(call.n, p[1].n), NEW b2, b2 = [k \in DOMAIN b \ {p[1].n} |-> b[k]], Stored(b2, m)
  PROVE  Goes(t, b2, call, Go(Tail(p)))
<1> DEFINE n == call.n
           to == call.to
           rest == Tail(p)
           r == p[1]
<1>1. /\ ~Occupied(t, to) /\ Halfway(t, b, n, to, p) /\ Once(t, n, to, p)
  BY DEF MovingDir
<1>2. /\ n \in Path /\ to \in Path /\ n \in Key /\ to \in Key
      /\ \A k \in Key : InTree(to, k) => ~InTree(n, k)
  BY <1>1, DirApart DEF MovesDir
<1>3. DOMAIN b2 = DOMAIN b \ {r.n} /\ \A k \in DOMAIN b2 : b2[k] = b[k]
  OBVIOUS
<1>4. \A k : /\ Taken(p, k) <=> Takes(r, k) \/ Taken(rest, k)
             /\ Brought(p, k) <=> Brings(r, k) \/ Brought(rest, k)
  BY FirstTaken
<1>5. \A k \in DOMAIN t : InTree(n, k) => (Takes(r, k) => ~Taken(rest, k))
  BY <1>1, OnceRest
<1>6. \A k : (Takes(r, k) <=> k = r.n) /\ ~Brings(r, k)
  BY DEF Takes, Brings, Makers
<1>7. \A k \in DOMAIN t : k \in Key
  BY KeysAre
<1>8. r.do \notin Makers /\ InTree(n, r.n)
  BY DEF Makers
<1> HIDE DEF rest, r
<1>9. Halfway(t, b2, n, to, rest)
  <2>1. ASSUME NEW k \in DOMAIN b2
        PROVE  IF InTree(to, k) THEN Rebased(k, to, n) \in DOMAIN t /\ b2[k] = t[Rebased(k, to, n)]
               ELSE k \in DOMAIN t /\ b2[k] = t[k]
    BY <1>1, <1>3 DEF Halfway
  <2>2. \A k \in DOMAIN t : ~InTree(n, k) => k \in DOMAIN b2
    BY <1>1, <1>3, <1>8 DEF Halfway
  <2>3. ASSUME NEW k \in DOMAIN t, InTree(n, k)
        PROVE  /\ k \in DOMAIN b2 <=> Taken(rest, k)
               /\ Rebased(k, n, to) \in DOMAIN b2 <=> ~Brought(rest, Rebased(k, n, to))
    <3>1. Rebased(k, n, to) # r.n
      <4>1. Rebased(k, n, to) \in Key /\ InTree(to, Rebased(k, n, to))
        BY <1>2, <1>7, <2>3, Rebases
      <4> QED BY <1>2, <1>8, <4>1
    <3>2. /\ k \in DOMAIN b <=> Taken(p, k)
          /\ Rebased(k, n, to) \in DOMAIN b <=> ~Brought(p, Rebased(k, n, to))
      BY <1>1, <2>3 DEF Halfway
    <3>3. k \in DOMAIN b2 <=> Taken(rest, k)
      BY <1>3, <1>4, <1>5, <1>6, <2>3, <3>2
    <3>4. Rebased(k, n, to) \in DOMAIN b2 <=> ~Brought(rest, Rebased(k, n, to))
      BY <1>3, <1>4, <1>6, <3>1, <3>2
    <3> QED BY <3>3, <3>4
  <2> QED BY <2>1, <2>2, <2>3 DEF Halfway
<1>10. Goes(t, b2, call, Go(rest))
  BY <1>8, <1>9, MovingOn DEF rest, r
<1> QED BY <1>10 DEF rest

-----------------------------------------------------------------------------
(* Rename of a directory: every step of it.                                *)

\* A Rename of the directory call.n of t is on its way in b.
OnTheWay(m, t, b, call, p) ==
  /\ Stored(t, m) /\ ~Mixed(t) /\ Stored(b, m) /\ MovesDir(t, call)
  /\ p \in Seq(Requests(m)) /\ p # <<>> /\ (\A i \in DOMAIN p : i > 1 => Waits(p[i]))
  /\ MovingDir(t, b, call, p)

LEMMA OnTheWayIs ==
  ASSUME NEW m \in Nat, NEW t, NEW b, NEW call, NEW p, OnTheWay(m, t, b, call, p)
  PROVE  LET n == call.n to == call.to r == p[1] IN
         /\ n \in Path /\ n \in Key /\ to \in Path /\ to \in Key /\ n # <<>> /\ to # <<>>
         /\ r \in Requests(m) /\ Tail(p) \in Seq(Requests(m))
         /\ Fit(t, b, n, to, r) /\ ~Occupied(t, to)
         /\ \A k \in Key : InTree(to, k) => ~InTree(n, k)
         /\ \A k \in DOMAIN b : InTree(n, k) => k \in DOMAIN t /\ b[k] = t[k]
         /\ \A k \in DOMAIN b : InTree(to, k) =>
              LET j == Rebased(k, to, n) IN
              j \in DOMAIN t /\ InTree(n, j) /\ Rebased(j, n, to) = k /\ b[k] = t[j]
         /\ \A k \in DOMAIN t : InTree(n, k) /\ Takes(r, k) => k \in DOMAIN b
         /\ \A k \in DOMAIN t : InTree(n, k) /\ Brings(r, Rebased(k, n, to)) =>
              Rebased(k, n, to) \notin DOMAIN b
<1> DEFINE n == call.n
           to == call.to
           r == p[1]
<1>1. /\ Stored(t, m) /\ Stored(b, m) /\ MovesDir(t, call) /\ MovingDir(t, b, call, p)
      /\ p \in Seq(Requests(m)) /\ p # <<>>
  BY DEF OnTheWay
<1>2. ~Occupied(t, to) /\ Halfway(t, b, n, to, p) /\ \A i \in DOMAIN p : Fit(t, b, n, to, p[i])
  BY <1>1 DEF MovingDir
<1>3. /\ n \in Path /\ n \in Key /\ to \in Path /\ to \in Key /\ n # <<>> /\ to # <<>>
      /\ \A k \in Key : InTree(to, k) => ~InTree(n, k)
  BY <1>1, <1>2, DirApart DEF MovesDir
<1>4. r \in Requests(m) /\ Tail(p) \in Seq(Requests(m)) /\ 1 \in DOMAIN p
  BY <1>1, FirstAndRest
<1>5. \A k \in DOMAIN b : k \in Key
  BY <1>1, KeysAre
<1>6. \A k : /\ Taken(p, k) <=> Takes(r, k) \/ Taken(Tail(p), k)
             /\ Brought(p, k) <=> Brings(r, k) \/ Brought(Tail(p), k)
  BY <1>1, FirstTaken
<1> HIDE DEF r
<1>7. \A k \in DOMAIN b : InTree(n, k) => k \in DOMAIN t /\ b[k] = t[k]
  BY <1>2, <1>3, <1>5 DEF Halfway
<1>8. ASSUME NEW k \in DOMAIN b, InTree(to, k)
      PROVE  LET j == Rebased(k, to, n) IN
             j \in DOMAIN t /\ InTree(n, j) /\ Rebased(j, n, to) = k /\ b[k] = t[j]
  <2>1. InTree(n, Rebased(k, to, n)) /\ Rebased(Rebased(k, to, n), n, to) = k
    BY <1>3, <1>5, <1>8, Rebases
  <2> QED BY <1>2, <1>8, <2>1 DEF Halfway
<1>9. \A k \in DOMAIN t : InTree(n, k) /\ Takes(r, k) => k \in DOMAIN b
  BY <1>2, <1>6 DEF Halfway
<1>10. \A k \in DOMAIN t : InTree(n, k) /\ Brings(r, Rebased(k, n, to)) =>
         Rebased(k, n, to) \notin DOMAIN b
  BY <1>2, <1>6 DEF Halfway
<1> QED BY <1>2, <1>3, <1>4, <1>7, <1>8, <1>9, <1>10 DEF r

\* One request takes the place of the first.
LEMMA MovingTurn ==
  ASSUME NEW m \in Nat, NEW t, NEW b, NEW call, NEW p, OnTheWay(m, t, b, call, p),
         NEW q \in Requests(m), Fit(t, b, call.n, call.to, q),
         \A k : Takes(q, k) <=> Takes(p[1], k), \A k : Brings(q, k) <=> Brings(p[1], k),
         p[1].do \in Makers /\ p[1].n = call.to =>
           Occupied(t, Parent(call.to)) \/ (q.do \in Makers /\ q.n = call.to)
  PROVE  Goes(t, b, call, Go(<<q>> \o Tail(p)))
<1> DEFINE s == <<q>>
<1>1. s \in Seq(Requests(m)) /\ DOMAIN s = {1} /\ s[1] = q
  BY OneIs
<1>2. \A k : (Taken(s, k) <=> Takes(q, k)) /\ (Brought(s, k) <=> Brings(q, k))
  BY OneTaken
<1> HIDE DEF s
<1>3. Once(t, call.n, call.to, s)
  BY <1>1 DEF Once
<1>4. \A i \in DOMAIN s : Fit(t, b, call.n, call.to, s[i])
  BY <1>1
<1>5. 1 \in DOMAIN s
  BY <1>1
<1>6. \A k \in DOMAIN t : InTree(call.n, k) =>
        /\ Taken(s, k) <=> Takes(p[1], k)
        /\ Brought(s, Rebased(k, call.n, call.to)) <=> Brings(p[1], Rebased(k, call.n, call.to))
  BY <1>2
<1>7. p[1].do \in Makers /\ p[1].n = call.to =>
        Occupied(t, Parent(call.to)) \/ (s[1].do \in Makers /\ s[1].n = call.to)
  BY <1>1
<1>8. Goes(t, b, call, Go(s \o Tail(p)))
  BY <1>1, <1>3, <1>4, <1>5, <1>6, <1>7, MovingBecomes DEF OnTheWay
<1> QED BY <1>8 DEF s

\* What a request that makes a directory takes and brings.
LEMMA MakerTakes ==
  \A r : r.do \in Makers \cup {"put"} => \A k : ~Takes(r, k) /\ (Brings(r, k) <=> k = HolderOf(Place(r)))
  BY DEF Takes, Brings, Makers

\* A directory is being made that the moved ones go to: its parent is there
\* already, unless that is where the whole goes.
LEMMA ParentBrought ==
  ASSUME NEW m \in Nat, NEW t, NEW b, NEW call, NEW p, OnTheWay(m, t, b, call, p),
         p[1].do \in Makers, p[1].n # call.to
  PROVE  Occupied(b, Parent(p[1].n))
<1> DEFINE n == call.n
           to == call.to
           r == p[1]
           rest == Tail(p)
           up(k) == Rebased(k, n, to)
<1>1. /\ n \in Path /\ n \in Key /\ to \in Path /\ to \in Key /\ n # <<>> /\ to # <<>>
      /\ r \in Requests(m) /\ rest \in Seq(Requests(m)) /\ Fit(t, b, n, to, r)
  BY OnTheWayIs
<1>2. /\ Stored(t, m) /\ p \in Seq(Requests(m)) /\ p # <<>>
      /\ \A i \in DOMAIN p : i > 1 => Waits(p[i])
      /\ Halfway(t, b, n, to, p) /\ Once(t, n, to, p) /\ Marked(t, n)
  BY DEF OnTheWay, MovingDir, MovesDir, Plain
<1>3. r.n \in Path /\ Place(r) = r.n
  BY <1>1 DEF Requests, Valid, Makers, Place
<1> DEFINE d == Rebased(r.n, to, n)
<1>4. InTree(to, r.n) /\ HolderOf(d) \in DOMAIN t
  BY <1>1, <1>3 DEF Fit, Makers
<1>5. \A i \in DOMAIN rest : i + 1 \in DOMAIN p /\ i + 1 > 1 /\ i + 1 # 1 /\ rest[i] = p[i + 1]
  BY <1>2, FirstAndRest
<1>7. \A k : Brought(p, k) <=> Brings(r, k) \/ Brought(rest, k)
  BY <1>2, FirstTaken
<1>8. \A k \in DOMAIN t : InTree(n, k) => (Brings(r, up(k)) => ~Brought(rest, up(k)))
  BY <1>2, OnceRest
<1>9. \A k : Brings(r, k) <=> k = HolderOf(r.n)
  BY <1>3, MakerTakes
<1> HIDE DEF r, rest
<1>10. r.n # <<>> /\ r.n \in Key /\ Parent(r.n) \in Path /\ Parent(r.n) \in Key
       /\ InTree(to, Parent(r.n))
  <2>1. r.n # <<>>
    <3>1. r.n = <<>> => to = <<>>
      BY <1>1, <1>4, EmptySeq DEF InTree, Path
    <3> QED BY <1>1, <3>1
  <2>2. r.n \in Key /\ Parent(r.n) \in Path /\ Parent(r.n) \in Key
    BY <1>3, <2>1, PathIs
  <2>3. Under(to, r.n)
    BY <1>4 DEF Under, r
  <2>4. InTree(to, Parent(r.n))
    BY <1>1, <2>2, <2>3, Trees
  <2> QED BY <2>1, <2>2, <2>4
<1> DEFINE e == Rebased(Parent(r.n), to, n)
<1>11. /\ d \in Path /\ e \in Path /\ d \in Key /\ e \in Key /\ InTree(n, e) /\ InTree(n, d)
       /\ up(d) = r.n /\ up(e) = Parent(r.n)
  <2>1. d \in Path /\ e \in Path
    <3>1. \A q \in Path : InTree(to, q) => Rebased(q, to, n) \in Path
      BY <1>1, Rebases
    <3> QED BY <1>3, <1>4, <1>10, <3>1
  <2>2. InTree(n, e) /\ InTree(n, d) /\ up(d) = r.n /\ up(e) = Parent(r.n)
    <3>1. \A k \in Key : InTree(to, k) =>
            InTree(n, Rebased(k, to, n)) /\ Rebased(Rebased(k, to, n), n, to) = k
      BY <1>1, Rebases
    <3>2. r.n \in Key /\ InTree(to, r.n) /\ Parent(r.n) \in Key /\ InTree(to, Parent(r.n))
      BY <1>4, <1>10 DEF r
    <3> QED BY <3>1, <3>2
  <2> QED BY <2>1, <2>2, PathIs
<1>12. d = Append(e, Last(r.n))
  <2>1. \A q \in Path : q # <<>> /\ InTree(to, Parent(q)) =>
          Rebased(q, to, n) = Append(Rebased(Parent(q), to, n), Last(q))
    BY <1>1, Rebases
  <2> QED BY <1>3, <1>10, <2>1
<1> HIDE DEF d, e
<1>13. up(HolderOf(e)) = HolderOf(Parent(r.n)) /\ up(HolderOf(d)) = HolderOf(r.n)
  <2>1. \A q \in Path : InTree(n, q) => up(HolderOf(q)) = HolderOf(up(q))
    BY <1>1, Rebases
  <2> HIDE DEF up
  <2> QED BY <1>11, <2>1
<1>14. HolderOf(e) \in DOMAIN t
  <2>1. Under(e, d)
    <3>1. Last(r.n) \in Names
      BY <1>3, <1>10, PathIs
    <3> QED BY <1>11, <1>12, <3>1, AppendIs DEF Path
  <2>2. Under(e, HolderOf(d))
    BY <1>11, <2>1, HolderLies DEF Under
  <2>3. e # <<>>
    <3>1. e = <<>> => n = <<>>
      BY <1>1, <1>11, EmptySeq DEF InTree, Path
    <3> QED BY <1>1, <3>1
  <2> QED BY <1>2, <1>4, <1>11, <2>2, <2>3 DEF Marked
<1>15. InTree(n, HolderOf(e)) /\ InTree(n, HolderOf(d))
  BY <1>1, <1>11, HolderLies
<1>16. ~Brings(r, HolderOf(Parent(r.n)))
  <2>1. HolderOf(Parent(r.n)) = HolderOf(r.n) => Parent(r.n) = r.n
    BY <1>3, <1>10, HolderLies
  <2>2. Parent(r.n) # r.n
    <3>1. Len(r.n) = Len(Parent(r.n)) + 1 /\ Len(Parent(r.n)) \in Nat
      BY <1>3, <1>10, ParentIs DEF Path
    <3> QED BY <3>1
  <2> QED BY <1>9, <2>1, <2>2
<1>17. ~Brought(rest, HolderOf(Parent(r.n)))
  <2> SUFFICES ASSUME NEW i \in DOMAIN rest, Brings(rest[i], HolderOf(Parent(r.n)))
               PROVE  FALSE
    BY DEF Brought
  <2> DEFINE u == rest[i]
  <2>1. Waits(u) /\ u \in Requests(m)
    BY <1>1, <1>2, <1>5, ElementOfSeq
  <2> HIDE DEF u
  <2>2. Brings(u, HolderOf(Parent(r.n)))
    BY DEF u
  <2>3. u.do = "rename" /\ InTree(u.to, HolderOf(Parent(r.n)))
    BY <2>1, <2>2 DEF Waits, Brings, Makers
  <2>4. u.to \in Path /\ u.to \in Key
    BY <2>1, PathIs DEF Requests
  <2>5. InTree(u.to, Parent(r.n))
    BY <1>10, <2>3, <2>4, HolderLies
  <2>6. InTree(Parent(r.n), r.n)
    BY <1>3, <1>10, ParentIs DEF Path
  <2>7. InTree(u.to, r.n)
    BY <1>10, <2>4, <2>5, <2>6, Trees
  <2>8. InTree(u.to, HolderOf(r.n))
    BY <1>3, <2>4, <2>7, HolderLies
  <2>9. Brings(u, HolderOf(r.n))
    BY <2>3, <2>8 DEF Brings
  <2>10. Brought(rest, up(HolderOf(d)))
    BY <1>13, <2>9 DEF Brought, u
  <2>11. Brings(r, up(HolderOf(d)))
    BY <1>9, <1>13
  <2> HIDE DEF up
  <2> QED BY <1>4, <1>8, <1>15, <2>10, <2>11 DEF d
<1>18. HolderOf(Parent(r.n)) \in DOMAIN b
  <2>1. ~Brought(p, up(HolderOf(e)))
    BY <1>7, <1>13, <1>16, <1>17
  <2> QED BY <1>2, <1>13, <1>14, <1>15, <2>1 DEF Halfway
<1>19. InTree(Parent(r.n), HolderOf(Parent(r.n)))
  BY <1>10, HolderIs
<1> QED BY <1>18, <1>19 DEF Occupied, r

\* A request to make a directory that is to be moved fits.
LEMMA MakerFits ==
  ASSUME NEW t, NEW b, NEW n, NEW to, NEW d, InTree(to, d), HolderOf(Rebased(d, to, n)) \in DOMAIN t,
         ~Occupied(b, d), d = to => b = t,
         NEW q, q.do \in Makers \cup {"put"}, Place(q) = d, q.do = "put" => q.n = HolderOf(d) /\ q.v = 0
  PROVE  Fit(t, b, n, to, q)
  BY DEF Fit, Writes, Makers

\* The directory is made where nothing is.
LEMMA DirMakes ==
  ASSUME ShortOf = {}, NEW m \in Nat, NEW t, NEW b, NEW call, NEW p, OnTheWay(m, t, b, call, p),
         p[1].do \in Makers, NEW b2, NEW x, Step(b, p, b2, x)
  PROVE  Goes(t, b2, call, x)
<1> DEFINE n == call.n
           to == call.to
           r == p[1]
           rest == Tail(p)
<1>1. /\ n \in Path /\ to \in Path /\ n # <<>> /\ to # <<>> /\ r \in Requests(m)
      /\ Fit(t, b, n, to, r) /\ ~Occupied(t, to)
  BY OnTheWayIs
<1>2. Place(r) = r.n
  BY DEF Place, Makers
<1>3. /\ InTree(to, r.n) /\ HolderOf(Rebased(r.n, to, n)) \in DOMAIN t
      /\ ~Occupied(b, r.n) /\ (r.n = to => b = t)
  BY <1>1, <1>2 DEF Fit, Makers
<1>4. \A k : ~Takes(r, k) /\ (Brings(r, k) <=> k = HolderOf(r.n))
  BY <1>2, MakerTakes
<1>5. \/ StatName(r) # <<>> /\ x = Go(<<[r EXCEPT !.at = "list"]>> \o rest) /\ b2 = b
      \/ \E what : Answered(b, r, what) /\ x = AfterStat(r, what, rest) /\ b2 = b
  BY DEF Step, Makers
<1>6. r.do \in Makers
  OBVIOUS
<1>7. r.n # to => Occupied(b, Parent(r.n))
  BY ParentBrought
<1> HIDE DEF r, rest
<1>8. ASSUME NEW q \in Requests(m), q.do \in Makers \cup {"put"}, Place(q) = r.n,
             q.do = "put" => Occupied(b, Parent(r.n)) /\ q.n = HolderOf(r.n) /\ q.v = 0
      PROVE  Goes(t, b, call, Go(<<q>> \o rest))
  <2>1. Fit(t, b, n, to, q)
    BY <1>3, <1>8, MakerFits
  <2>2. \A k : ~Takes(q, k) /\ (Brings(q, k) <=> k = HolderOf(r.n))
    BY <1>8, MakerTakes
  <2>3. q.do \in Makers => q.n = r.n
    BY <1>8 DEF Place, Makers
  <2>4. r.n = to => Occupied(t, Parent(to)) \/ (q.do \in Makers /\ q.n = to)
    BY <1>3, <1>8, <2>3
  <2> QED BY <1>4, <2>1, <2>2, <2>4, MovingTurn DEF r, rest
<1>9. ASSUME StatName(r) # <<>>, x = Go(<<[r EXCEPT !.at = "list"]>> \o rest), b2 = b
      PROVE  Goes(t, b2, call, x)
  <2> DEFINE q == [r EXCEPT !.at = "list"]
  <2>1. q \in Requests(m) /\ q.do = r.do /\ q.n = r.n
    BY <1>1, <1>6, <1>9, AskIs DEF Makers, StatKinds
  <2>2. x = Go(<<q>> \o rest)
    BY <1>9
  <2> HIDE DEF q
  <2>3. Place(q) = r.n /\ q.do \in Makers
    BY <1>6, <2>1 DEF Place, Makers
  <2>4. q.do # "put"
    BY <2>3 DEF Makers
  <2> QED BY <1>8, <1>9, <2>1, <2>2, <2>3, <2>4
<1>10. ASSUME NEW what, Answered(b, r, what), x = AfterStat(r, what, rest), b2 = b
       PROVE  Goes(t, b2, call, x)
  <2>1. Makings(m, b, r, rest, AfterStat(r, what, rest))
    BY <1>1, <1>3, <1>6, <1>10, MakerGoesOn
  <2>2. Makings(m, b, r, rest, x)
    BY <1>10, <2>1
  <2>3. CASE ~Occupied(b, Parent(r.n)) /\ x = Return("errNotExist")
    <3>1. r.n = to /\ b = t
      BY <1>3, <1>7, <2>3
    <3>2. MovesDir(t, call) /\ Stored(t, m)
      BY DEF OnTheWay
    <3>3. n # to /\ ~Under(n, to)
      BY <1>1, <3>2, PathIs, Trees DEF MovesDir, Under
    <3>4. Contract(call, Shown(t)) = [ret |-> "errNotExist", tree |-> Shown(t)]
      BY <1>1, <2>3, <3>1, <3>2, <3>3, RenameContract DEF MovesDir
    <3>5. View(t) = Shown(t)
      BY <3>2, ViewIs
    <3> QED BY <1>10, <2>3, <3>1, <3>4, <3>5, GoesIs
  <2>4. ASSUME NEW q \in Requests(m), x = Go(<<q>> \o rest),
               q.do \in {"opendir", "mkparent", "put"}, Place(q) = r.n,
               q.do = "put" => Occupied(b, Parent(r.n)) /\ q.n = HolderOf(r.n) /\ q.v = 0
        PROVE  Goes(t, b2, call, x)
    BY <1>8, <1>10, <2>4 DEF Makers
  <2> QED BY <1>3, <2>2, <2>3, <2>4 DEF Makings
<1> QED BY <1>5, <1>9, <1>10

\* What a Rename on the way knows of the next thing it moves.
LEMMA NextIs ==
  ASSUME NEW m \in Nat, NEW t, NEW b, NEW call, NEW p, OnTheWay(m, t, b, call, p), Writes(p[1])
  PROVE  LET n == call.n to == call.to r == p[1] IN
         /\ r.n \in Path /\ r.n \in Key /\ r.n # <<>> /\ r.to \in Path /\ r.to \in Key
         /\ InTree(n, r.n) /\ Under(n, r.n) /\ r.to = Rebased(r.n, n, to) /\ InTree(to, r.to)
         /\ Rebased(r.to, to, n) = r.n
         /\ r.to # to /\ ~Under(r.n, r.to)
         /\ \E k \in DOMAIN t : InTree(r.n, k)
         /\ \A k \in Key : InTree(r.n, k) => InTree(n, k)
         /\ \A k \in Key : InTree(n, k) => (InTree(r.to, Rebased(k, n, to)) <=> InTree(r.n, k))
<1> DEFINE n == call.n
           to == call.to
           r == p[1]
<1>1. /\ n \in Path /\ n \in Key /\ to \in Path /\ to \in Key /\ n # <<>>
      /\ r \in Requests(m) /\ Fit(t, b, n, to, r)
      /\ \A k \in Key : InTree(to, k) => ~InTree(n, k)
  BY OnTheWayIs
<1>2. Under(n, r.n) /\ r.to = Rebased(r.n, n, to) /\ \E k \in DOMAIN t : InTree(r.n, k)
  BY <1>1 DEF Fit
<1>3. r.n \in Path /\ r.to \in Path
  BY <1>1 DEF Requests, Valid, Writes
<1> HIDE DEF r
<1>4. r.n \in Key /\ r.to \in Key /\ InTree(n, r.n) /\ r.n # n
  BY <1>2, <1>3, PathIs DEF Under
<1>5. \A k \in Key : InTree(n, k) =>
        InTree(to, Rebased(k, n, to)) /\ Rebased(Rebased(k, n, to), to, n) = k
  BY <1>1, Rebases
<1>6. InTree(to, r.to) /\ Rebased(r.to, to, n) = r.n
  BY <1>2, <1>4, <1>5
<1>7. r.n # <<>>
  <2>1. r.n = <<>> => n = <<>>
    BY <1>1, <1>4, EmptySeq DEF InTree, Path
  <2> QED BY <1>1, <2>1
<1>8. r.to # to
  <2>1. Rebased(to, to, n) = n
    BY <1>1, Rebases
  <2> QED BY <1>4, <1>6, <2>1
<1>9. \A k \in Key : InTree(r.n, k) => InTree(n, k)
  BY <1>1, <1>4, Trees
<1>10. ~Under(r.n, r.to)
  BY <1>1, <1>4, <1>6, <1>9 DEF Under
<1>11. \A k \in Key : InTree(r.n, k) => InTree(r.to, Rebased(k, n, to))
  <2>1. \A u, k \in Key : InTree(n, u) /\ InTree(u, k) => InTree(Rebased(u, n, to), Rebased(k, n, to))
    BY <1>1, Rebases
  <2> QED BY <1>2, <1>4, <2>1
<1>12. \A k \in Key : InTree(n, k) /\ InTree(r.to, Rebased(k, n, to)) => InTree(r.n, k)
  <2>1. \A u, k \in Key : InTree(n, u) /\ InTree(n, k)
                             /\ InTree(Rebased(u, n, to), Rebased(k, n, to)) => InTree(u, k)
    BY <1>1, Rebases
  <2> QED BY <1>2, <1>4, <2>1
<1> QED BY <1>2, <1>3, <1>4, <1>6, <1>7, <1>8, <1>9, <1>10, <1>11, <1>12 DEF r

\* What is moved next is looked for, and is there.
LEMMA DirLooks ==
  ASSUME NEW m \in Nat, NEW t, NEW b, NEW call, NEW p, OnTheWay(m, t, b, call, p),
         p[1].do = "rename", NEW b2, NEW x, Step(b, p, b2, x)
  PROVE  Goes(t, b2, call, x)
<1> DEFINE n == call.n
           to == call.to
           r == p[1]
           rest == Tail(p)
<1>1. /\ r.n \in Path /\ r.n \in Key /\ r.n # <<>> /\ InTree(n, r.n) /\ Under(n, r.n)
      /\ r.to = Rebased(r.n, n, to) /\ ~Under(r.n, r.to) /\ InTree(to, r.to) /\ r.to \in Path
      /\ \E k \in DOMAIN t : InTree(r.n, k)
      /\ \A k \in Key : InTree(r.n, k) => InTree(n, k)
      /\ \A k \in Key : InTree(n, k) => (InTree(r.to, Rebased(k, n, to)) <=> InTree(r.n, k))
  BY NextIs DEF Writes
<1>2. /\ r \in Requests(m) /\ Fit(t, b, n, to, r) /\ n \in Path /\ to \in Path /\ r.to # <<>>
      /\ \A k \in DOMAIN b : InTree(n, k) => k \in DOMAIN t /\ b[k] = t[k]
      /\ \A k \in DOMAIN t : InTree(n, k) /\ Takes(r, k) => k \in DOMAIN b
  <2>1. r \in Requests(m) /\ r.to # <<>>
    <3>1. r \in Requests(m)
      BY OnTheWayIs
    <3> QED BY <3>1 DEF Requests, Valid
  <2> QED BY <2>1, OnTheWayIs
<1>3. /\ Stored(t, m) /\ ~Mixed(t) /\ p \in Seq(Requests(m)) /\ p # <<>>
      /\ MovesDir(t, call) /\ MovingDir(t, b, call, p)
  BY DEF OnTheWay
<1>4. \/ StatName(r) # <<>> /\ r.n \notin DOMAIN b /\ x = Go(<<[r EXCEPT !.at = "list"]>> \o rest) /\ b2 = b
      \/ \E what : Answered(b, r, what) /\ x = AfterStat(r, what, rest) /\ b2 = b
  BY DEF Step
<1>5. r.do = "rename" /\ StatName(r) = r.n
  BY DEF StatName
<1>6. \A k : /\ Takes(r, k) <=> InTree(r.n, k)
             /\ Brings(r, k) <=> InTree(r.to, k)
  BY DEF Takes, Brings, Makers
<1>7. \A k \in DOMAIN t : k \in Key
  BY <1>3, KeysAre
<1>8. \A k \in DOMAIN t : InTree(r.n, k) => k \in DOMAIN b
  BY <1>1, <1>2, <1>6, <1>7
<1>9. InTree(r.n, r.n)
  BY <1>1, Trees
<1>10. r.do \notin Makers
  BY DEF Makers
<1> HIDE DEF r, rest
<1>11. ASSUME NEW q \in Requests(m), q.do \in {"rename", "mvlist"}, q.n = r.n, q.to = r.to,
              r.n \notin DOMAIN b
       PROVE  Goes(t, b, call, Go(<<q>> \o rest))
  <2>1. r.n \notin DOMAIN t
    BY <1>8, <1>9, <1>11
  <2>2. Fit(t, b, n, to, q)
    BY <1>1, <1>11, <2>1 DEF Fit, Writes, Makers
  <2>3. \A k : (Takes(q, k) <=> Takes(r, k)) /\ (Brings(q, k) <=> Brings(r, k))
    BY <1>6, <1>11 DEF Takes, Brings, Makers
  <2> QED BY <1>10, <2>2, <2>3, MovingTurn DEF r, rest
<1>12. ASSUME StatName(r) # <<>>, r.n \notin DOMAIN b,
              x = Go(<<[r EXCEPT !.at = "list"]>> \o rest), b2 = b
       PROVE  Goes(t, b2, call, x)
  <2> DEFINE q == [r EXCEPT !.at = "list"]
  <2>1. q \in Requests(m) /\ q.do = r.do /\ q.n = r.n /\ q.to = r.to
    BY <1>2, <1>5, <1>12, AskIs DEF StatKinds
  <2>2. x = Go(<<q>> \o rest)
    BY <1>12
  <2> HIDE DEF q
  <2> QED BY <1>5, <1>11, <1>12, <2>1, <2>2
<1>13. ASSUME NEW what, Answered(b, r, what), x = AfterStat(r, what, rest), b2 = b
       PROVE  Goes(t, b2, call, x)
  <2>1. Occupied(b, r.n)
    BY <1>1, <1>8 DEF Occupied
  <2>2. what \in {"dir", "file"} /\ (what = "file" => r.n \in DOMAIN b)
        /\ (what = "dir" => r.at = "list")
    BY <1>1, <1>5, <1>13, <2>1 DEF Answered
  <2>3. x = Go((IF what = "dir" THEN <<Then(r, "mvlist")>>
                ELSE <<CopyObject(r.n, r.to), RemoveObject(r.n)>>) \o rest)
    BY <1>1, <1>5, <1>13, <2>2 DEF AfterStat, RenameAfterStat
  <2>4. CASE what = "dir"
    <3> DEFINE q == Then(r, "mvlist")
    <3>1. x = Go(<<q>> \o rest)
      BY <2>3, <2>4
    <3>2. Turn(r, what, q)
      BY <1>1, <1>5, <2>4 DEF Turn
    <3>3. q \in Requests(m)
      BY <1>2, <2>4, <3>2, TurnTypes
    <3>4. q.do = "mvlist" /\ q.n = r.n /\ q.to = r.to
      <4>1. DOMAIN r = {"do", "n", "to", "v", "at"}
        BY <1>2 DEF Requests
      <4> QED BY <4>1 DEF Then
    <3> HIDE DEF q
    <3>5. r.n \notin DOMAIN t
      BY <1>5, <2>2, <2>4, <1>2 DEF Fit
    <3>6. r.n \notin DOMAIN b
      BY <1>1, <1>2, <3>5
    <3> QED BY <1>11, <1>13, <3>1, <3>3, <3>4, <3>6
  <2>5. CASE what = "file"
    <3> DEFINE y == CopyObject(r.n, r.to)
               z == RemoveObject(r.n)
               q == <<y, z>>
    <3>1. r.n \in DOMAIN b /\ r.n \in DOMAIN t
      BY <1>1, <1>2, <2>2, <2>5
    <3>2. x = Go(q \o rest)
      BY <2>3, <2>5
    <3>3. y \in Requests(m) /\ z \in Requests(m)
      BY <1>1, <1>2, RequestTypes
    <3>4. y.do = "copy" /\ y.n = r.n /\ y.to = r.to /\ z.do = "remove" /\ z.n = r.n
      BY RequestIs DEF CopyObject, RemoveObject
    <3>5. \A k : /\ ~Takes(y, k) /\ (Brings(y, k) <=> k = r.to)
                 /\ (Takes(z, k) <=> k = r.n) /\ ~Brings(z, k)
      BY RequestsTake
    <3> HIDE DEF y, z
    <3>6. q \in Seq(Requests(m)) /\ DOMAIN q = {1, 2} /\ q[1] = y /\ q[2] = z
      BY <3>3, TwoAre
    <3> HIDE DEF q
    <3>7. \A k \in DOMAIN t : InTree(r.n, k) <=> k = r.n
      BY <1>3, <1>9, <3>1 DEF Mixed, Under
    <3>8. \A k \in DOMAIN t : InTree(n, k) => (Rebased(k, n, to) = r.to <=> k = r.n)
      <4>1. \A k \in Key : InTree(n, k) => Rebased(Rebased(k, n, to), to, n) = k
        BY <1>2, Rebases
      <4> QED BY <1>1, <1>7, <4>1
    <3>9. \A k \in DOMAIN t : InTree(n, k) =>
            /\ Taken(q, k) <=> Takes(r, k)
            /\ Brought(q, Rebased(k, n, to)) <=> Brings(r, Rebased(k, n, to))
      <4>1. \A k : (Taken(q, k) <=> k = r.n) /\ (Brought(q, k) <=> k = r.to)
        BY <3>5, <3>6 DEF Taken, Brought
      <4> QED BY <1>1, <1>6, <1>7, <3>7, <3>8, <4>1
    <3>10. Once(t, n, to, q)
      BY <3>5, <3>6 DEF Once
    <3>11. Fit(t, b, n, to, y) /\ Fit(t, b, n, to, z)
      BY <1>1, <3>1, <3>4 DEF Fit, Writes, Makers
    <3>12. 1 \in DOMAIN q /\ \A i \in DOMAIN q : Fit(t, b, n, to, q[i])
      BY <3>6, <3>11
    <3>13. Goes(t, b, call, Go(q \o rest))
      BY <1>3, <1>10, <3>6, <3>9, <3>10, <3>12, MovingBecomes DEF r, rest
    <3> QED BY <1>13, <3>2, <3>13
  <2> QED BY <2>2, <2>4, <2>5
<1> QED BY <1>4, <1>12, <1>13

\* A directory that is moved next is listed.
LEMMA DirLists ==
  ASSUME NEW m \in Nat, NEW t, NEW b, NEW call, NEW p, OnTheWay(m, t, b, call, p),
         p[1].do = "mvlist", NEW b2, NEW x, Step(b, p, b2, x)
  PROVE  Goes(t, b2, call, x)
<1> DEFINE n == call.n
           to == call.to
           r == p[1]
           rest == Tail(p)
           q == Moves(r, b)
<1>1. /\ r.n \in Path /\ InTree(n, r.n) /\ r.to = Rebased(r.n, n, to) /\ InTree(to, r.to)
      /\ r.to # to /\ r.to \in Path /\ r.to \in Key /\ r.n # <<>>
      /\ \E k \in DOMAIN t : InTree(r.n, k)
      /\ \A k \in Key : InTree(r.n, k) => InTree(n, k)
      /\ \A k \in Key : InTree(n, k) => (InTree(r.to, Rebased(k, n, to)) <=> InTree(r.n, k))
  BY NextIs DEF Writes
<1>2. /\ r \in Requests(m) /\ Fit(t, b, n, to, r) /\ n \in Path /\ to \in Path /\ to \in Key /\ n # <<>>
      /\ \A k \in DOMAIN b : InTree(n, k) => k \in DOMAIN t /\ b[k] = t[k]
      /\ \A k \in DOMAIN t : InTree(n, k) /\ Takes(r, k) => k \in DOMAIN b
  BY OnTheWayIs
<1>3. /\ \A k \in DOMAIN b : InTree(to, k) =>
           LET j == Rebased(k, to, n) IN
           j \in DOMAIN t /\ InTree(n, j) /\ Rebased(j, n, to) = k /\ b[k] = t[j]
      /\ \A k \in DOMAIN t : InTree(n, k) /\ Brings(r, Rebased(k, n, to)) =>
           Rebased(k, n, to) \notin DOMAIN b
  BY OnTheWayIs
<1>4. /\ Stored(t, m) /\ ~Mixed(t) /\ Stored(b, m) /\ p \in Seq(Requests(m))
      /\ p # <<>> /\ MovesDir(t, call) /\ MovingDir(t, b, call, p) /\ Marked(t, n)
  BY DEF OnTheWay, MovesDir, Plain
<1>5. x = Go(q \o rest) /\ b2 = b
  BY DEF Step, Answered, StatKinds
<1>6. r.do = "mvlist" /\ r.do \notin Makers
  BY DEF Makers
<1>7. \A k : /\ Takes(r, k) <=> InTree(r.n, k)
             /\ Brings(r, k) <=> InTree(r.to, k)
  BY DEF Takes, Brings, Makers
<1> HIDE DEF r, rest
<1>8. \A k \in DOMAIN t : k \in Key
  BY <1>4, KeysAre
<1>9. \A k \in DOMAIN b : k \in Key
  BY <1>4, KeysAre
<1>10. r.n \notin DOMAIN t
  BY <1>2, <1>6 DEF Fit
<1>11. \A k \in DOMAIN t : InTree(r.n, k) => k \in DOMAIN b
  BY <1>1, <1>2, <1>7, <1>8
<1>12. ~Occupied(b, r.to)
  <2> SUFFICES ASSUME Occupied(b, r.to) PROVE FALSE
    OBVIOUS
  <2>1. r.to # <<>>
    BY <1>2, <1>6 DEF Requests, Valid
  <2>2. PICK k \in DOMAIN b : InTree(r.to, k)
    BY <2>1 DEF Occupied
  <2>3. InTree(to, k)
    BY <1>1, <1>2, <1>9, <2>2, Trees
  <2>4. Rebased(k, to, n) \in DOMAIN t /\ InTree(n, Rebased(k, to, n)) /\ Rebased(Rebased(k, to, n), n, to) = k
    BY <1>3, <2>3
  <2> QED BY <1>3, <1>7, <2>2, <2>4
<1>13. \A k \in DOMAIN b : InTree(n, k) => k \in DOMAIN t
  BY <1>2
<1>14. /\ q \in Seq(Requests(m)) /\ 1 \in DOMAIN q
       /\ \A k \in DOMAIN t : InTree(n, k) =>
            /\ Taken(q, k) <=> InTree(r.n, k)
            /\ Brought(q, Rebased(k, n, to)) <=> InTree(r.n, k)
       /\ Once(t, n, to, q)
       /\ \A i \in DOMAIN q : Fit(t, b, n, to, q[i])
  BY <1>1, <1>2, <1>4, <1>6, <1>10, <1>11, <1>12, <1>13, MovesMove
<1> HIDE DEF q
<1>15. \A k \in DOMAIN t : InTree(n, k) =>
         /\ Taken(q, k) <=> Takes(r, k)
         /\ Brought(q, Rebased(k, n, to)) <=> Brings(r, Rebased(k, n, to))
  BY <1>1, <1>7, <1>8, <1>14
<1>16. Goes(t, b, call, Go(q \o rest))
  BY <1>4, <1>6, <1>14, <1>15, MovingBecomes DEF r, rest
<1> QED BY <1>5, <1>16

\* What is moved next is put, copied or removed.
LEMMA DirChanges ==
  ASSUME ShortOf = {}, NEW m \in Nat, NEW t, NEW b, NEW call, NEW p, OnTheWay(m, t, b, call, p),
         p[1].do \in {"put", "copy", "remove"}, p[1].do = "remove" => InTree(call.n, p[1].n),
         NEW b2, Stored(b2, m), NEW x, Step(b, p, b2, x)
  PROVE  Goes(t, b2, call, x)
<1> DEFINE n == call.n
           to == call.to
           r == p[1]
           rest == Tail(p)
<1>1. /\ r \in Requests(m) /\ Fit(t, b, n, to, r) /\ n \in Path /\ to \in Path
      /\ \A k \in DOMAIN b : InTree(n, k) => k \in DOMAIN t /\ b[k] = t[k]
  BY OnTheWayIs
<1>2. /\ Stored(t, m) /\ Stored(b, m) /\ p \in Seq(Requests(m))
      /\ p # <<>> /\ MovesDir(t, call) /\ MovingDir(t, b, call, p)
      /\ \A i \in DOMAIN p : i > 1 => Waits(p[i])
  BY DEF OnTheWay
<1>3. r.do \in {"put", "copy", "remove"} /\ r.do \notin Makers
  BY DEF Makers
<1>4. CASE r.do = "put"
  <2> DEFINE d == Place(r)
  <2>1. /\ InTree(to, d) /\ HolderOf(Rebased(d, to, n)) \in DOMAIN t
        /\ r.n = HolderOf(d) /\ r.v = 0
    BY <1>1, <1>4 DEF Fit
  <2>2. d \in Path
    <3>1. Parent(r.n) \in Path
      BY <1>1, <1>4, <2>1, HolderLies DEF Requests, Valid
    <3> QED BY <1>4, <3>1 DEF Place
  <2>3. x = Go(rest) /\ b2 = Placed(b, r.n, 0)
    BY <1>4, <2>1 DEF Step, Answered, StatKinds
  <2>4. r.n \in Key /\ InTree(to, r.n)
    BY <1>1, <2>1, <2>2, HolderLies
  <2>5. Rebased(r.n, to, n) = HolderOf(Rebased(d, to, n)) /\ Rebased(d, to, n) \in Path
    <3>1. /\ \A u \in Path : InTree(to, u) => Rebased(u, to, n) \in Path
          /\ \A u \in Path : InTree(to, u) => Rebased(HolderOf(u), to, n) = HolderOf(Rebased(u, to, n))
      BY <1>1, Rebases
    <3> HIDE DEF d
    <3> QED BY <2>1, <2>2, <3>1
  <2>6. Rebased(r.n, to, n) \in DOMAIN t /\ 0 = t[Rebased(r.n, to, n)]
    <3>1. Last(Rebased(r.n, to, n)) = Holder
      BY <2>5, HolderLies
    <3> QED BY <1>2, <2>1, <2>5, <3>1 DEF Stored
  <2>7. \A k : ~Takes(r, k) /\ (Brings(r, k) <=> k = r.n)
    BY <1>4, <2>1, MakerTakes
  <2> HIDE DEF r, rest, d
  <2>8. Goes(t, Placed(b, r.n, 0), call, Go(rest))
    BY <1>2, <1>3, <2>3, <2>4, <2>6, <2>7, MovingPut DEF r, rest
  <2> QED BY <2>3, <2>8
<1>5. CASE r.do = "copy"
  <2>1. /\ Under(n, r.n) /\ r.to = Rebased(r.n, n, to) /\ r.n \in DOMAIN t /\ r.n \in DOMAIN b
        /\ InTree(to, r.to) /\ Rebased(r.to, to, n) = r.n /\ r.to \in Key
    <3>1. Fit(t, b, n, to, r) /\ Writes(r)
      BY <1>1, <1>5 DEF Writes
    <3>2. InTree(to, r.to) /\ Rebased(r.to, to, n) = r.n /\ r.to \in Key
      BY <3>1, NextIs
    <3> QED BY <1>5, <3>1, <3>2 DEF Fit
  <2>2. x = Go(rest) /\ b2 = Placed(b, r.to, b[r.n])
    BY <1>5, <2>1 DEF Step, Answered, StatKinds
  <2>3. b[r.n] = t[Rebased(r.to, to, n)] /\ Rebased(r.to, to, n) \in DOMAIN t
    BY <1>1, <2>1 DEF Under
  <2>4. \A k : ~Takes(r, k) /\ (Brings(r, k) <=> k = r.to)
    BY <1>5 DEF Takes, Brings, Makers
  <2> DEFINE w == b[r.n]
  <2>5. b2 = Placed(b, r.to, w) /\ w = t[Rebased(r.to, to, n)]
    BY <2>2, <2>3
  <2> HIDE DEF r, rest, w
  <2>6. Goes(t, Placed(b, r.to, w), call, Go(rest))
    BY <1>2, <1>3, <2>1, <2>3, <2>4, <2>5, MovingPut DEF r, rest
  <2> QED BY <2>2, <2>5, <2>6
<1>6. CASE r.do = "remove"
  <2>1. x = Go(rest) /\ b2 = [k \in DOMAIN b \ {r.n} |-> b[k]]
    BY <1>6 DEF Step, Answered, StatKinds
  <2>2. Goes(t, b2, call, Go(rest))
    BY <1>2, <1>6, <2>1, MovingRemove
  <2> QED BY <2>1, <2>2
<1> QED BY <1>3, <1>4, <1>5, <1>6

-----------------------------------------------------------------------------
(* Rename: every step of it.                                               *)

\* Every step of a Rename of a directory to a place that is free.
LEMMA DirStep ==
  ASSUME ShortOf = {}, NEW m \in Nat, NEW t, NEW b, NEW call, NEW p, OnTheWay(m, t, b, call, p),
         StaysIn(call, p[1]), NEW b2, Stored(b2, m), NEW x, Step(b, p, b2, x)
  PROVE  Goes(t, b2, call, x)
<1>1. p[1] \in Requests(m) /\ call.op = "Rename"
  BY OnTheWayIs DEF OnTheWay, MovesDir
<1>2. p[1].do \in Dos
  BY <1>1 DEF Requests
<1>3. p[1].do \notin {"parent", "rmall"} /\ (p[1].do = "remove" => InTree(call.n, p[1].n))
  BY <1>1 DEF StaysIn
<1>4. CASE p[1].do \in Makers
  BY <1>4, DirMakes
<1>5. CASE p[1].do = "rename"
  BY <1>5, DirLooks
<1>6. CASE p[1].do = "mvlist"
  BY <1>6, DirLists
<1>7. CASE p[1].do \in {"put", "copy", "remove"}
  BY <1>3, <1>7, DirChanges
<1> QED BY <1>2, <1>3, <1>4, <1>5, <1>6, <1>7 DEF Dos, StatKinds, Makers

\* Every step of one to a place that is taken.
LEMMA ClashStep ==
  ASSUME ShortOf = {}, NEW m \in Nat, NEW t, Stored(t, m), NEW call, MovesDir(t, call),
         NEW p \in Seq(Requests(m)), p # <<>>, Clashing(t, t, call, p),
         NEW b2, NEW x, Step(t, p, b2, x)
  PROVE  Goes(t, b2, call, x)
<1> DEFINE r == p[1]
           rest == Tail(p)
<1>1. r \in Requests(m) /\ rest \in Seq(Requests(m))
  BY FirstAndRest
<1>2. r.do = "mkdir" /\ r.n = call.to /\ Occupied(t, call.to)
  BY DEF Clashing
<1>3. StatName(r) = r.n
  BY <1>2 DEF StatName
<1> HIDE DEF r, rest
<1>4. b2 = t
  BY <1>2 DEF Step, r
<1>5. CASE x = Go(<<[r EXCEPT !.at = "list"]>> \o rest)
  <2> DEFINE q == [r EXCEPT !.at = "list"]
             s == <<q>> \o rest
  <2>1. q.do = "mkdir" /\ q.n = call.to
    BY <1>1, <1>2, AskIs DEF StatKinds
  <2>2. q \in Requests(m)
    <3>1. StatName(r) # <<>>
      BY <1>2, <1>3 DEF MovesDir
    <3> QED BY <1>1, <1>2, <3>1, AskIs DEF StatKinds
  <2> HIDE DEF q
  <2>3. s # <<>> /\ s[1] = q
    <3>1. <<q>> \in Seq(Requests(m)) /\ DOMAIN <<q>> = {1} /\ <<q>>[1] = q
      BY <2>2, OneIs
    <3>2. 1 \in DOMAIN s /\ s[1] = <<q>>[1]
      BY <1>1, <3>1, JoinIs
    <3> QED BY <3>1, <3>2
  <2> HIDE DEF s
  <2>4. Clashing(t, t, call, s)
    BY <1>2, <2>1, <2>3 DEF Clashing
  <2>5. Goes(t, t, call, Go(s))
    BY <2>3, <2>4, DirGoes
  <2> QED BY <1>4, <1>5, <2>5 DEF s, q
<1>6. ASSUME NEW what, Answered(t, r, what), x = AfterStat(r, what, rest)
      PROVE  Goes(t, b2, call, x)
  <2>1. Makings(m, t, r, rest, x)
    BY <1>1, <1>2, <1>6, MakerGoesOn DEF Makers
  <2>2. x = Return("errExist")
    BY <1>2, <2>1 DEF Makings
  <2>3. call.op = "Rename" /\ call.n # call.to /\ ~Under(call.n, call.to)
    BY PathIs, Trees DEF MovesDir, Under
  <2>4. Contract(call, Shown(t)) = [ret |-> "errExist", tree |-> Shown(t)]
    BY <1>2, <2>3, RenameContract DEF MovesDir
  <2>5. View(t) = Shown(t)
    BY ViewIs
  <2> QED BY <1>4, <2>2, <2>4, <2>5, GoesIs
<1> QED BY <1>2, <1>5, <1>6 DEF Step, r, rest

\* A Rename is underway.
LEMMA RenameGoes ==
  ASSUME NEW t, NEW b, NEW call, call.op = "Rename", NEW q, q # <<>>, Renaming(t, b, call, q)
  PROVE  Goes(t, b, call, Go(q))
<1>1. Underway(t, b, call, q)
  BY DEF Underway
<1> QED BY <1>1, GoesIs

\* What a Rename is about to move: two names, of which the second is no root.
Moving(t, call) ==
  /\ Plain(t, call) /\ call.op = "Rename" /\ call.n \in Path /\ call.to \in Path /\ call.to # <<>>
  /\ call.n # call.to
  /\ call.n \in DOMAIN t => Occupied(t, Parent(call.to)) /\ Stat(t, call.to) # "dir"

\* A Rename that looks for what it moves finds it, or that nothing may be moved.
LEMMA LookingStep ==
  ASSUME ShortOf = {}, NEW m \in Nat, NEW t, Stored(t, m), NEW call, Moving(t, call),
         NEW p \in Seq(Requests(m)), Looking(t, call, p), p[1].do = "rename",
         NEW b2, NEW x, Step(t, p, b2, x)
  PROVE  Goes(t, b2, call, x)
<1> DEFINE r == p[1]
           rest == Tail(p)
           n == call.n
           to == call.to
<1>1. r \in Requests(m) /\ rest = <<>> /\ r.n = n /\ r.to = to
  BY SingleIs DEF Looking
<1>2. \A q \in Requests(m) : /\ <<q>> \o rest = <<q>> /\ <<q>> # <<>> /\ DOMAIN <<q>> = {1}
                             /\ <<q>>[1] = q
  <2> SUFFICES ASSUME NEW q \in Requests(m)
               PROVE  /\ <<q>> \o rest = <<q>> /\ <<q>> # <<>> /\ DOMAIN <<q>> = {1}
                      /\ <<q>>[1] = q
    OBVIOUS
  <2>1. <<q>> \in Seq(Requests(m)) /\ DOMAIN <<q>> = {1} /\ <<q>>[1] = q
    BY OneIs
  <2>2. \A s \in Seq(Requests(m)) : s \o rest = s
    BY SingleIs DEF Looking
  <2> HIDE DEF rest
  <2> QED BY <2>1, <2>2
<1>3. StatName(r) = n
  BY <1>1 DEF StatName
<1>4. View(t) = Shown(t)
  BY ViewIs
<1>5. call.op = "Rename" /\ n \in Path /\ to \in Path /\ to # <<>> /\ n # to
  BY DEF Moving
<1>6. n \in DOMAIN t => Occupied(t, n)
  BY <1>5, StatIs
<1>7. r.at = "list" => n \notin DOMAIN t
  BY DEF Looking
<1>8. \A e : Contract(call, Shown(t)) = [ret |-> e, tree |-> Shown(t)] => Goes(t, t, call, Return(e))
  BY <1>4, GoesIs
<1>9. DOMAIN r = {"do", "n", "to", "v", "at"}
  BY <1>1 DEF Requests
<1>10. b2 = t
  BY DEF Step
<1>11. \A q \in Requests(m) : Looking(t, call, <<q>>) => Goes(t, t, call, Go(<<q>> \o rest))
  <2> SUFFICES ASSUME NEW q \in Requests(m), Looking(t, call, <<q>>)
               PROVE  Goes(t, t, call, Go(<<q>> \o rest))
    OBVIOUS
  <2>1. Renaming(t, t, call, <<q>>)
    BY DEF Renaming, Moving
  <2> QED BY <1>2, <1>5, <2>1, RenameGoes
<1> HIDE DEF r, rest, n, to
<1>12. CASE x = Go(<<[r EXCEPT !.at = "list"]>> \o rest) /\ StatName(r) # <<>> /\ r.n \notin DOMAIN t
  <2> DEFINE q == [r EXCEPT !.at = "list"]
  <2>1. q.do = "rename" /\ q.n = n /\ q.to = to /\ q.at = "list" /\ q \in Requests(m)
    <3>1. r.do = "rename"
      BY DEF r
    <3> QED BY <1>1, <1>12, <3>1, AskIs DEF StatKinds
  <2> HIDE DEF q
  <2>2. DOMAIN <<q>> = {1} /\ <<q>>[1] = q
    BY <1>2, <2>1
  <2>3. Looking(t, call, <<q>>)
    BY <1>1, <1>12, <2>1, <2>2 DEF Looking, n, to
  <2> QED BY <1>10, <1>11, <1>12, <2>1, <2>3 DEF q
<1>13. ASSUME NEW what, Answered(t, r, what), x = AfterStat(r, what, rest)
       PROVE  Goes(t, b2, call, x)
  <2>1. x = RenameAfterStat(r, what, rest)
    BY <1>13 DEF AfterStat, r
  <2>2. what \in {"dir", "file", "missing"} /\ (what = "missing" <=> ~Occupied(t, n))
    BY <1>3, <1>13 DEF Answered
  <2>3. what = "file" => n \in DOMAIN t
    BY <1>3, <1>13 DEF Answered
  <2>4. CASE what = "missing"
    <3>1. x = Return("errNotExist")
      BY <2>1, <2>4 DEF RenameAfterStat
    <3>2. Contract(call, Shown(t)) = [ret |-> "errNotExist", tree |-> Shown(t)]
      BY <1>5, <2>2, <2>4, RenameContract DEF n, to
    <3> QED BY <1>8, <1>10, <3>1, <3>2
  <2>5. CASE what # "missing" /\ (n = <<>> \/ Under(n, to))
    <3>1. x = Return("errPermission")
      BY <1>1, <2>1, <2>5 DEF RenameAfterStat
    <3>2. Contract(call, Shown(t)) = [ret |-> "errPermission", tree |-> Shown(t)]
      BY <1>5, <2>2, <2>5, RenameContract DEF n, to
    <3> QED BY <1>8, <1>10, <3>1, <3>2
  <2>6. CASE what # "missing" /\ n # <<>> /\ ~Under(n, to)
    <3>1. x = Go((IF what = "dir" THEN <<Then(r, "mvlist")>>
                  ELSE <<CopyObject(r.n, r.to), RemoveObject(r.n)>>) \o rest)
      BY <1>1, <2>1, <2>6 DEF RenameAfterStat
    <3>2. ~InTree(n, to)
      BY <1>5, <2>6 DEF Under
    <3>3. CASE what = "dir"
      <4> DEFINE q == Then(r, "mvlist")
      <4>1. q.do = "mvlist" /\ q.n = n /\ q.to = to
        BY <1>1, <1>9 DEF Then
      <4>2. q \in Requests(m)
        <5>1. Turn(r, what, q)
          BY <1>1, <2>6, <3>3 DEF Turn, r
        <5> QED BY <1>1, <3>3, <5>1, TurnTypes
      <4>3. n \notin DOMAIN t
        <5>1. r.at = "list"
          BY <1>1, <1>13, <2>6, <3>3 DEF Answered, r
        <5> QED BY <1>7, <5>1
      <4>4. x = Go(<<q>> \o rest)
        BY <3>1, <3>3
      <4> HIDE DEF q
      <4>5. DOMAIN <<q>> = {1} /\ <<q>>[1] = q
        BY <1>2, <4>2
      <4>6. Looking(t, call, <<q>>)
        BY <2>2, <2>6, <3>2, <4>1, <4>3, <4>5 DEF Looking, n, to
      <4> QED BY <1>10, <1>11, <4>2, <4>4, <4>6
    <3>4. CASE what = "file"
      <4> DEFINE u == CopyObject(n, to)
                 w == RemoveObject(n)
                 q == <<u, w>>
      <4>1. u.do = "copy" /\ u.n = n /\ u.to = to /\ w.do = "remove" /\ w.n = n
        BY RequestIs DEF CopyObject, RemoveObject
      <4>2. u \in Requests(m) /\ w \in Requests(m)
        BY <1>5, <2>6, PathIs, RequestTypes
      <4>3. x = Go(q \o rest)
        BY <1>1, <3>1, <3>4
      <4>4. n \in DOMAIN t
        BY <2>3, <3>4
      <4> HIDE DEF u, w
      <4>5. q \in Seq(Requests(m)) /\ DOMAIN q = {1, 2} /\ q[1] = u /\ q[2] = w
        BY <4>2, TwoAre
      <4>6. q \o rest = q /\ q # <<>>
        BY <4>5, SingleIs DEF Looking, rest
      <4> HIDE DEF q
      <4>7. MovingFile(t, t, call, q)
        BY <4>1, <4>4, <4>5 DEF MovingFile, n, to
      <4>8. Renaming(t, t, call, q)
        BY <2>6, <3>2, <4>7 DEF Renaming, Moving, n, to
      <4> QED BY <1>5, <1>10, <4>3, <4>6, <4>8, RenameGoes
    <3> QED BY <2>2, <2>6, <3>3, <3>4
  <2> QED BY <2>2, <2>4, <2>5, <2>6
<1> QED BY <1>12, <1>13 DEF Step, r, rest

\* A Rename that lists the directory it moves goes on to move what is in it.
LEMMA ListingStep ==
  ASSUME NEW m \in Nat, NEW t, Stored(t, m), ~Mixed(t), NEW call, Moving(t, call),
         NEW p \in Seq(Requests(m)), Looking(t, call, p), p[1].do = "mvlist",
         NEW b2, NEW x, Step(t, p, b2, x)
  PROVE  Goes(t, b2, call, x)
<1> DEFINE r == p[1]
           q == Moves(r, t)
           n == call.n
           to == call.to
<1>1. r \in Requests(m) /\ Tail(p) = <<>> /\ r.n = n /\ r.to = to /\ r.do = "mvlist"
  BY SingleIs DEF Looking
<1>2. n \in Path /\ to \in Path /\ n # <<>> /\ to # <<>> /\ Marked(t, n)
  BY DEF Looking, Moving, Plain
<1>3. n \notin DOMAIN t /\ Occupied(t, n) /\ ~InTree(n, to)
  BY DEF Looking
<1>4. MovesDir(t, call)
  BY <1>2, <1>3 DEF MovesDir, Moving
<1>5. q \in Seq(Requests(m)) /\ 1 \in DOMAIN q /\ q[1] = Request("mkdir", r.to, <<>>, 0)
  <2>1. q \in Seq(Requests(m)) /\ Len(Entries(t, r.n)) \in Nat /\ DOMAIN q = 1..Len(Entries(t, r.n)) + 3
    BY <1>1, MovesAre
  <2>2. q[1] = Request("mkdir", r.to, <<>>, 0)
    BY <1>1, MovesAre
  <2> QED BY <2>1, <2>2
<1>6. q[1].do = "mkdir" /\ q[1].n = to
  BY <1>1, <1>5, RequestIs
<1>7. b2 = t /\ x = Go(q \o Tail(p))
  BY DEF Step, Answered, StatKinds
<1> HIDE DEF q
<1>8. q \o Tail(p) = q /\ q # <<>>
  BY <1>5, SingleIs DEF Looking
<1>9. CASE Occupied(t, to)
  <2>1. Clashing(t, t, call, q)
    BY <1>6, <1>9 DEF Clashing
  <2> QED BY <1>4, <1>7, <1>8, <2>1, DirGoes
<1>10. CASE ~Occupied(t, to)
  <2>1. Rebased(n, n, to) = to
    BY <1>2, Rebases
  <2>2. n \in Key /\ InTree(n, n)
    BY <1>2, PathIs, Trees
  <2>3. \E k \in DOMAIN t : InTree(n, k)
    BY <1>2, <1>3 DEF Occupied
  <2>4. /\ \A k \in DOMAIN t : InTree(n, k) => Taken(q, k) /\ Brought(q, Rebased(k, n, to))
        /\ Once(t, n, to, q)
        /\ \A i \in DOMAIN q : Fit(t, t, n, to, q[i])
    <3>1. InTree(n, r.n) /\ r.to = Rebased(r.n, n, to) /\ r.n \notin DOMAIN t /\ ~Occupied(t, r.to)
      BY <1>1, <1>3, <1>10, <2>1, <2>2
    <3>2. \E k \in DOMAIN t : InTree(r.n, k)
      BY <1>1, <2>3
    <3>3. LET s == Moves(r, t) IN
          /\ \A k \in DOMAIN t : InTree(n, k) =>
               /\ Taken(s, k) <=> InTree(r.n, k)
               /\ Brought(s, Rebased(k, n, to)) <=> InTree(r.n, k)
          /\ Once(t, n, to, s)
          /\ \A i \in DOMAIN s : Fit(t, t, n, to, s[i])
      BY <1>1, <1>2, <3>1, <3>2, MovesMove
    <3> QED BY <1>1, <3>3 DEF q
  <2>5. \A k \in DOMAIN t : ~InTree(to, k)
    BY <1>10 DEF Occupied
  <2>6. \A k \in DOMAIN t : InTree(n, k) => Rebased(k, n, to) \notin DOMAIN t
    <3>1. \A k \in DOMAIN t : k \in Key
      BY KeysAre
    <3> QED BY <1>2, <2>5, <3>1, Rebases
  <2>7. Halfway(t, t, n, to, q)
    BY <2>4, <2>5, <2>6 DEF Halfway
  <2>8. MovingDir(t, t, call, q)
    BY <1>6, <1>10, <2>4, <2>7 DEF MovingDir, Makers
  <2> QED BY <1>4, <1>7, <1>8, <2>8, DirGoes
<1> QED BY <1>9, <1>10

\* A Rename of a file copies it, then removes it.
LEMMA FileStep ==
  ASSUME ShortOf = {}, NEW m \in Nat, NEW t, Stored(t, m), ~Mixed(t),
         NEW call, Moving(t, call), call.n # <<>>, ~InTree(call.n, call.to),
         NEW p \in Seq(Requests(m)), NEW b, MovingFile(t, b, call, p),
         NEW b2, Stored(b2, m), NEW x, Step(b, p, b2, x)
  PROVE  Goes(t, b2, call, x)
<1> DEFINE n == call.n
           to == call.to
<1>1. n \in Path /\ to \in Path /\ n \in Key /\ to \in Key /\ n # to /\ n # <<>> /\ to # <<>>
      /\ Stays(t, n, to)
  BY PathIs DEF Moving, Plain
<1>2. n \in DOMAIN t
  BY DEF MovingFile
<1>3. CASE p[1].do = "copy"
  <2>1. /\ DOMAIN p = {1, 2} /\ p[1].n = n /\ p[1].to = to
        /\ p[2].do = "remove" /\ p[2].n = n /\ b = t
    BY <1>3 DEF MovingFile
  <2>2. x = Go(Tail(p)) /\ b2 = Placed(t, to, t[n])
    BY <1>2, <1>3, <2>1 DEF Step, Answered, StatKinds
  <2>3. DOMAIN Tail(p) = {1} /\ Tail(p)[1] = p[2] /\ Tail(p) # <<>>
    <3>0. 1 \in DOMAIN p
      BY <2>1
    <3>1. p # <<>>
      BY <3>0
    <3> DEFINE q == Tail(p)
    <3>2. \A i \in DOMAIN q : i \in Nat /\ i + 1 \in DOMAIN p /\ i + 1 > 1
      BY <3>1, FirstAndRest
    <3>3. \A i \in DOMAIN p : i = 1 \/ (i - 1 \in DOMAIN q /\ q[i - 1] = p[i])
      BY <3>1, FirstAndRest
    <3> HIDE DEF q
    <3>4. \A i \in DOMAIN q : i = 1
      BY <2>1, <3>2
    <3>5. 2 - 1 \in DOMAIN q /\ q[2 - 1] = p[2]
      BY <2>1, <3>3
    <3>6. 1 \in DOMAIN q /\ q[1] = p[2]
      BY <3>5
    <3>7. DOMAIN q = {1}
      BY <3>4, <3>6
    <3>8. DOMAIN <<>> = {}
      OBVIOUS
    <3>9. q # <<>>
      BY <3>6, <3>8
    <3> QED BY <3>6, <3>7, <3>9 DEF q
  <2>4. MovingFile(t, b2, call, Tail(p))
    BY <1>2, <2>1, <2>2, <2>3 DEF MovingFile
  <2>5. Renaming(t, b2, call, Tail(p))
    BY <2>4 DEF Renaming, Moving
  <2>6. call.op = "Rename"
    BY DEF Moving
  <2> QED BY <2>2, <2>3, <2>5, <2>6, RenameGoes
<1>4. CASE p[1].do # "copy"
  <2>1. DOMAIN p = {1} /\ p[1].do = "remove" /\ p[1].n = n /\ b = Placed(t, to, t[n])
    BY <1>4 DEF MovingFile
  <2>2. x = Go(<<>>) /\ b2 = [k \in DOMAIN b \ {n} |-> b[k]]
    <3>1. Tail(p) = <<>>
      BY <2>1, SingleIs
    <3> QED BY <2>1, <3>1 DEF Step, Answered, StatKinds
  <2>3. DOMAIN b2 = (DOMAIN t \cup {to}) \ {n}
    BY <2>1, <2>2 DEF Placed
  <2>4. \A k \in DOMAIN b2 : b2[k] = IF k = to THEN t[n] ELSE t[k]
    BY <2>1, <2>2 DEF Placed
  <2>5. \A k \in DOMAIN t : k \in Key
    BY KeysAre
  <2>6. Occupied(t, n) /\ Occupied(t, Parent(to)) /\ (Occupied(t, to) => to \in DOMAIN t)
    <3>1. Occupied(t, n)
      BY <1>1, <1>2, StatIs
    <3>2. Stat(t, to) \in {"dir", "file", "missing"} /\ Stat(t, to) # "dir"
      BY <1>2 DEF Moving, Stat
    <3>3. (Stat(t, to) = "missing" <=> ~Occupied(t, to)) /\ (Stat(t, to) = "file" <=> to \in DOMAIN t)
      BY <1>1, StatIs
    <3> QED BY <1>2, <3>1, <3>2, <3>3 DEF Moving
  <2>7. \A j, k \in DOMAIN t : InTree(j, k) => k = j
    BY DEF Mixed, Under
  <2>8. \A k \in DOMAIN t : InTree(to, k) => k = to
    BY <1>1, <2>6, <2>7 DEF Occupied
  <2>9. Rebased(to, to, n) = n /\ Rebased(n, n, to) = to /\ InTree(to, to)
    BY <1>1, Rebases, Trees
  <2> HIDE DEF n, to
  <2>10. \A k \in DOMAIN b2 :
           /\ k \in Key
           /\ IF InTree(to, k) THEN Rebased(k, to, n) \in DOMAIN t /\ b2[k] = t[Rebased(k, to, n)]
              ELSE k \in DOMAIN t /\ ~InTree(n, k) /\ b2[k] = t[k]
    <3> SUFFICES ASSUME NEW k \in DOMAIN b2
                 PROVE  /\ k \in Key
                        /\ IF InTree(to, k)
                           THEN Rebased(k, to, n) \in DOMAIN t /\ b2[k] = t[Rebased(k, to, n)]
                           ELSE k \in DOMAIN t /\ ~InTree(n, k) /\ b2[k] = t[k]
      OBVIOUS
    <3>1. k # n /\ (k = to \/ k \in DOMAIN t) /\ b2[k] = IF k = to THEN t[n] ELSE t[k]
      BY <2>3, <2>4
    <3>2. CASE k = to
      BY <1>1, <1>2, <2>9, <3>1, <3>2
    <3>3. CASE k # to
      BY <1>2, <2>5, <2>7, <2>8, <3>1, <3>3
    <3> QED BY <3>2, <3>3
  <2>11. \A k \in DOMAIN t : IF InTree(n, k) THEN Rebased(k, n, to) \in DOMAIN b2 ELSE k \in DOMAIN b2
    <3>1. n \in Key /\ InTree(n, n)
      BY <1>1, Trees
    <3> QED BY <1>1, <1>2, <2>3, <2>7, <2>9, <3>1
  <2>12. Shown(b2) = MovedTree(Shown(t), n, to)
    <3>1. ~InTree(n, to)
      BY DEF n, to
    <3> QED BY <1>1, <2>6, <2>10, <2>11, <3>1, MovedShown
  <2>13. Contract(call, Shown(t)) = [ret |-> "ok", tree |-> MovedTree(Shown(t), n, to)]
    <3>1. ~Under(n, to) /\ call.op = "Rename"
      BY DEF n, to, Under, Moving
    <3> QED BY <1>1, <1>2, <2>6, <3>1, RenameContract DEF n, to
  <2>14. View(t) = Shown(t) /\ View(b2) = Shown(b2)
    BY ViewIs
  <2> QED BY <2>2, <2>12, <2>13, <2>14, GoesIs
<1> QED BY <1>3, <1>4

\* Rename does what it should.
LEMMA RenameStep ==
  ASSUME ShortOf = {}, NEW m \in Nat, NEW t, Stored(t, m), ~Mixed(t),
         NEW call, Plain(t, call), call.op = "Rename", call.n \in Path, call.to \in Path,
         NEW p \in Seq(Requests(m)), p # <<>>, \A i \in DOMAIN p : i > 1 => Waits(p[i]),
         StaysIn(call, p[1]), NEW b, Stored(b, m), Renaming(t, b, call, p),
         NEW b2, Stored(b2, m), NEW x, Step(b, p, b2, x)
  PROVE  Goes(t, b2, call, x)
<1>1. Moving(t, call)
  BY DEF Renaming, Moving
<1>2. CASE Looking(t, call, p) /\ b = t
  <2>1. p[1].do \in {"rename", "mvlist"}
    BY <1>2 DEF Looking
  <2>2. CASE p[1].do = "rename"
    BY <1>1, <1>2, <2>2, LookingStep
  <2>3. CASE p[1].do = "mvlist"
    BY <1>1, <1>2, <2>3, ListingStep
  <2> QED BY <2>1, <2>2, <2>3
<1>3. CASE call.n # <<>> /\ ~InTree(call.n, call.to) /\ MovingFile(t, b, call, p)
  BY <1>1, <1>3, FileStep
<1>4. ASSUME call.n # <<>>, ~InTree(call.n, call.to), call.n \notin DOMAIN t, Occupied(t, call.n)
      PROVE  MovesDir(t, call)
  BY <1>1, <1>4 DEF MovesDir, Moving
<1>5. CASE MovesDir(t, call) /\ Clashing(t, b, call, p)
  <2>1. b = t /\ Occupied(t, call.to)
    BY <1>5 DEF Clashing
  <2> QED BY <1>5, <2>1, ClashStep
<1>6. CASE MovesDir(t, call) /\ MovingDir(t, b, call, p)
  <2>1. OnTheWay(m, t, b, call, p)
    BY <1>6 DEF OnTheWay
  <2> QED BY <2>1, DirStep
<1> QED BY <1>2, <1>3, <1>4, <1>5, <1>6 DEF Renaming

-----------------------------------------------------------------------------
(* Every step of a call that meets no fault and no other call.             *)

\* A call that is underway does what it should, or goes on to.
LEMMA UnderwayStep ==
  ASSUME ShortOf = {}, BasePath = TRUE,
         NEW m \in Nat, NEW t, Stored(t, m), ~Mixed(t),
         NEW call, Plain(t, call), call.n \in Path, call.to \in Path,
         NEW p \in Seq(Requests(m)), p # <<>>, \A i \in DOMAIN p : i > 1 => Waits(p[i]),
         \A i \in DOMAIN p : StaysIn(call, p[i]),
         NEW b, Stored(b, m), Underway(t, b, call, p),
         NEW b2, Stored(b2, m), NEW x, Step(b, p, b2, x)
  PROVE  Goes(t, b2, call, x)
<1>1. CASE call.op = "Mkdir"
  <2>1. b = t /\ Making(t, call, p)
    BY <1>1 DEF Underway
  <2> QED BY <1>1, <2>1, MkdirGoes
<1>2. CASE call.op = "Create"
  <2>1. b = t /\ Creating(t, call, p)
    BY <1>2 DEF Underway
  <2> QED BY <1>2, <2>1, CreateGoes
<1>3. CASE call.op = "RemoveAll"
  <2>1. Removing(t, b, call, p)
    BY <1>3 DEF Underway
  <2>2. \A i \in DOMAIN p : p[i].do \in {"rmall", "remove"} /\ InTree(call.n, p[i].n)
    BY <1>3 DEF StaysIn
  <2>3. Stays(t, call.n, <<>>)
    BY <1>3 DEF Plain
  <2> QED BY <1>3, <2>1, <2>2, <2>3, RemoveAllGoes
<1>4. CASE call.op = "Rename"
  <2>1. Renaming(t, b, call, p)
    BY <1>4 DEF Underway
  <2>2. StaysIn(call, p[1])
    BY FirstAndRest
  <2> QED BY <1>4, <2>1, <2>2, RenameStep
<1> QED BY <1>1, <1>2, <1>3, <1>4 DEF Underway

LEMMA CallsAre == Typed => Stored(bucket, calls) /\ calls \in Nat
<1>1. Typed => Stored(bucket, calls) /\ calls \in 0..MaxCalls
  BY DEF Typed, TypeOK
<1>2. MaxCalls \in Nat
  BY TreeAssumption
<1> QED BY <1>1, <1>2

\* A call that begins while no other is in progress is underway, or over.
LEMMA BeginGoes ==
  ASSUME ShortOf = {}, Typed, NEW c \in Clients, NEW op \in Calls, NEW n \in Paths, NEW to \in Paths,
         Begin(c, op, n, to)
  PROVE  Goes(bucket, bucket, cur'[c], Onward(c))
<1> DEFINE t == bucket
           v == calls + 1
           call == [op |-> op, n |-> n, to |-> to, v |-> v]
           p == Program(op, n, to, v)
           next == IF op = "RemoveAll" /\ n = <<>> THEN Return("errPermission") ELSE Go(p)
<1>1. cur'[c] = call
  BY DEF Begin, Typed
<1>2. Onward(c) = next
  <2>1. prog'[c] = next.prog /\ ret'[c] = next.ret
    BY DEF Begin, Typed
  <2>2. next = [prog |-> next.prog, ret |-> next.ret]
    BY DEF Go, Return
  <2> QED BY <2>1, <2>2 DEF Onward
<1>3. Stored(t, calls) /\ calls \in Nat /\ v # 0
  BY CallsAre
<1>4. n \in Path /\ to \in Path /\ n \in Key
  BY TreeAssumption, PathIs DEF Path
<1>5. View(t) = Shown(t)
  BY <1>3, ViewIs
<1>6. op \in Ops /\ Proper(op, n, to)
  BY TreeAssumption DEF Begin
<1>7. call.op = op /\ call.n = n /\ call.to = to /\ call.v = v
  OBVIOUS
<1>8. \A q \in Requests(calls + 1) : DOMAIN <<q>> = {1} /\ <<q>>[1] = q /\ <<q>> # <<>>
  BY OneIs, OneTaken
<1> HIDE DEF v, call
<1>9. \A q \in Requests(calls + 1) : Underway(t, t, call, <<q>>) => Goes(t, t, call, Go(<<q>>))
  BY <1>8, GoesIs
<1>10. CASE op = "Mkdir"
  <2> DEFINE r == Request("mkdir", n, <<>>, 0)
  <2>1. next = Go(<<r>>)
    BY <1>10 DEF Program
  <2>2. r \in Requests(calls + 1)
    BY <1>3, <1>4, RequestTypes
  <2>3. r.do = "mkdir" /\ Place(r) = n
    BY RequestIs DEF Place
  <2> HIDE DEF r
  <2>4. Making(t, call, <<r>>)
    BY <1>7, <1>8, <2>2, <2>3 DEF Making, Makers
  <2>5. Underway(t, t, call, <<r>>)
    BY <1>7, <1>10, <2>4 DEF Underway
  <2> QED BY <1>1, <1>2, <1>9, <2>1, <2>2, <2>5
<1>11. CASE op = "Create"
  <2> DEFINE r == IF Len(n) = 1 THEN PutObject(n, v) ELSE Request("parent", n, <<>>, v)
  <2>1. n # <<>>
    BY <1>6, <1>11 DEF Proper
  <2>2. next = Go(<<r>>)
    BY <1>11 DEF Program
  <2>3. r \in Requests(calls + 1)
    <3>1. v \in 1..calls + 1
      BY <1>3 DEF v
    <3>2. PutObject(n, v) \in Requests(calls + 1) /\ Request("parent", n, <<>>, v) \in Requests(calls + 1)
      BY <1>3, <1>4, <2>1, <3>1, RequestTypes
    <3> QED BY <3>2
  <2>4. r.n = n /\ r.v = v /\ r.do = IF Len(n) = 1 THEN "put" ELSE "parent"
    BY RequestIs DEF PutObject
  <2>5. Len(n) = 1 => Occupied(t, Parent(n))
    <3>1. n \in Seq(Names) /\ Len(n) = Len(Parent(n)) + 1 /\ Len(Parent(n)) \in Nat /\ Parent(n) \in Seq(Names)
      BY <1>4, <2>1, ParentIs DEF Path
    <3>2. Len(n) = 1 => Parent(n) = <<>>
      <4> DEFINE q == Parent(n)
      <4>1. q \in Seq(Names) /\ (Len(n) = 1 => Len(q) = 0)
        BY <3>1
      <4> HIDE DEF q
      <4>2. Len(q) = 0 => q = <<>>
        BY <4>1
      <4> QED BY <4>1, <4>2 DEF q
    <3> QED BY <3>2 DEF Occupied
  <2> HIDE DEF r
  <2>6. Creating(t, call, <<r>>)
    BY <1>3, <1>7, <1>8, <2>1, <2>3, <2>4, <2>5 DEF Creating
  <2>7. Underway(t, t, call, <<r>>)
    BY <1>7, <1>11, <2>6 DEF Underway
  <2> QED BY <1>1, <1>2, <1>9, <2>2, <2>3, <2>7
<1>12. CASE op = "RemoveAll" /\ n = <<>>
  <2>1. next = Return("errPermission")
    BY <1>12
  <2>2. Contract(call, View(t)) = [ret |-> "errPermission", tree |-> View(t)]
    BY <1>7, <1>12, RemoveAllContract
  <2> QED BY <1>1, <1>2, <2>1, <2>2, GoesIs
<1>13. CASE op = "RemoveAll" /\ n # <<>>
  <2> DEFINE r == Request("rmall", n, <<>>, 0)
  <2>1. next = Go(<<r>>)
    BY <1>13 DEF Program
  <2>2. r \in Requests(calls + 1)
    BY <1>3, <1>4, RequestTypes DEF RecursionFor
  <2>3. r.do = "rmall" /\ r.n = n
    BY RequestIs
  <2> HIDE DEF r
  <2>4. \A k : Taken(<<r>>, k) <=> InTree(n, k)
    BY <2>3, OneTaken DEF Takes
  <2>5. Removing(t, t, call, <<r>>)
    BY <1>7, <1>13, <2>4 DEF Removing
  <2>6. Underway(t, t, call, <<r>>)
    BY <1>7, <1>13, <2>5 DEF Underway
  <2> QED BY <1>1, <1>2, <1>9, <2>1, <2>2, <2>6
<1>14. CASE op = "Rename"
  <2>1. to # <<>>
    BY <1>6, <1>14 DEF Proper
  <2>2. CASE n = to
    <3>1. next = Go(<<>>)
      BY <1>14, <2>2 DEF Program
    <3>2. Contract(call, Shown(t)) = [ret |-> "ok", tree |-> Shown(t)]
      BY <1>3, <1>4, <1>7, <1>14, <2>1, <2>2, RenameContract
    <3> QED BY <1>1, <1>2, <1>5, <3>1, <3>2, GoesIs
  <2>3. CASE n # to
    <3> DEFINE r == Request("rename", n, to, 0)
    <3>1. next = Go(<<r>>)
      BY <1>14, <2>3 DEF Program
    <3>2. r \in Requests(calls + 1)
      BY <1>3, <1>4, <2>1, RequestTypes
    <3>3. r.do = "rename" /\ r.n = n /\ r.to = to /\ r.at = "head"
      BY RequestIs
    <3> HIDE DEF r
    <3>4. Looking(t, call, <<r>>)
      BY <1>7, <1>8, <3>2, <3>3 DEF Looking
    <3>5. n \in DOMAIN t => Occupied(t, Parent(to)) /\ Stat(t, to) # "dir"
      <4>1. n \in DOMAIN t => Stat(t, n) = "file"
        BY <1>3, <1>4, StatIs
      <4>2. n \in DOMAIN t => Stat(t, to) # "dir" /\ Stat(t, Parent(to)) = "dir"
        BY <1>6, <1>14, <4>1 DEF Proper
      <4>3. Parent(to) \in Path
        BY <1>4, <2>1, PathIs
      <4>4. Stat(t, Parent(to)) = "missing" <=> ~Occupied(t, Parent(to))
        BY <1>3, <4>3, StatIs
      <4> QED BY <4>2, <4>4
    <3>6. Renaming(t, t, call, <<r>>)
      BY <1>7, <2>1, <2>3, <3>4, <3>5 DEF Renaming
    <3>7. Underway(t, t, call, <<r>>)
      BY <1>7, <1>14, <3>6 DEF Underway
    <3> QED BY <1>1, <1>2, <1>9, <3>1, <3>2, <3>7
  <2> QED BY <2>2, <2>3
<1> QED BY <1>6, <1>10, <1>11, <1>12, <1>13, <1>14 DEF Ops

\* The call is over, or underway, after every step.
LEMMA LoneNext ==
  ASSUME ShortOf = {}, BasePath = TRUE, SafeInv, LoneInv, [Next]_vars
  PROVE  LoneInv'
<1>1. Typed /\ Typed'
  BY TypedNext DEF SafeInv
<1>2. CASE UNCHANGED vars
  <2>1. UNCHANGED <<bucket, prog, cur, ret, alone, before, calls>>
    BY <1>2 DEF vars
  <2> SUFFICES ASSUME NEW e \in alone'
               PROVE  /\ \A d \in Clients \ {e} : prog'[d] = <<>>
                      /\ Stored(before', calls') /\ ~Mixed(before')
                      /\ Plain(before', cur'[e]) =>
                           Goes(before', bucket', cur'[e], [prog |-> prog'[e], ret |-> ret'[e]])
    BY DEF LoneInv
  <2> QED BY <2>1 DEF LoneInv
<1>3. ASSUME NEW c \in Clients, RequestOf(c)
      PROVE  LoneInv'
  <2> SUFFICES ASSUME NEW e \in alone'
               PROVE  /\ \A d \in Clients \ {e} : prog'[d] = <<>>
                      /\ Stored(before', calls') /\ ~Mixed(before')
                      /\ Plain(before', cur'[e]) =>
                           Goes(before', bucket', cur'[e], Onward(e))
    BY DEF LoneInv, Onward
  <2>1. Frame(c)
    BY <1>1, <1>3, Steps
  <2>2. e \in alone /\ prog[c] # <<>>
    BY <2>1 DEF Frame
  <2>3. \A d \in Clients \ {e} : prog[d] = <<>>
    BY <2>2 DEF LoneInv
  <2>4. c = e
    BY <2>2, <2>3
  <2>5. /\ UNCHANGED <<cur, before, calls>>
        /\ \A d \in Clients \ {c} : prog'[d] = prog[d]
        /\ Step(bucket, prog[c], bucket', Onward(c))
    BY <1>1, <1>3, <2>4, LoneStep
  <2>6. Stored(before, calls) /\ ~Mixed(before)
    BY <2>2 DEF LoneInv
  <2>7. Plain(before, cur[c]) => Underway(before, bucket, cur[c], prog[c])
    <3>1. Plain(before, cur[c]) =>
            Goes(before, bucket, cur[c], [prog |-> prog[c], ret |-> ret[c]])
      BY <2>2, <2>4 DEF LoneInv
    <3> QED BY <2>2, <3>1 DEF Goes
  <2>8. /\ cur[c].n \in Path /\ cur[c].to \in Path /\ calls \in Nat /\ Stored(bucket, calls)
        /\ prog[c] \in Seq(Requests(calls)) /\ \A i \in DOMAIN prog[c] : i > 1 => Waits(prog[c][i])
    BY <1>1, <2>2, ProgIs DEF Typed
  <2>9. \A i \in DOMAIN prog[c] : StaysIn(cur[c], prog[c][i])
    BY DEF SafeInv, Within
  <2>10. Stored(bucket', calls)
    BY <1>1, <2>5 DEF Typed, TypeOK
  <2>11. Plain(before, cur[c]) => Goes(before, bucket', cur[c], Onward(c))
    BY <2>2, <2>5, <2>6, <2>7, <2>8, <2>9, <2>10, UnderwayStep
  <2> QED BY <2>3, <2>4, <2>5, <2>6, <2>11
<1>4. ASSUME NEW c \in Clients, NEW op \in Calls, NEW n \in Paths, NEW to \in Paths, Begin(c, op, n, to)
      PROVE  LoneInv'
  <2> SUFFICES ASSUME NEW e \in alone'
               PROVE  /\ \A d \in Clients \ {e} : prog'[d] = <<>>
                      /\ Stored(before', calls') /\ ~Mixed(before')
                      /\ Plain(before', cur'[e]) =>
                           Goes(before', bucket', cur'[e], Onward(e))
    BY DEF LoneInv, Onward
  <2>1. e = c /\ alone' = {c}
    BY <1>4 DEF Begin
  <2>2. ~Mixed(bucket) /\ \A d \in Clients : prog[d] = <<>>
    BY <1>4, <2>1 DEF Begin
  <2>3. before' = bucket /\ bucket' = bucket /\ calls' = calls + 1
    BY <1>4, <2>1 DEF Begin
  <2>4. \A d \in Clients \ {c} : prog'[d] = <<>>
    BY <1>1, <1>4, <2>2 DEF Begin, Typed
  <2>5. Stored(bucket, calls + 1)
    <3>1. Stored(bucket, calls) /\ calls \in Nat
      BY <1>1, CallsAre
    <3> QED BY <3>1, LaterTypes
  <2>6. Goes(bucket, bucket, cur'[c], Onward(c))
    BY <1>1, <1>4, BeginGoes
  <2> QED BY <2>1, <2>2, <2>3, <2>4, <2>5, <2>6
<1> QED BY <1>2, <1>3, <1>4 DEF Next, RequestOf

\* What is said of the paths above a name is said of their prefixes.
LEMMA RootedStays ==
  ASSUME NEW t, NEW m, Stored(t, m), NEW call, call.n \in Path, Rooted(t, call)
  PROVE  /\ call.op = "RemoveAll" => Stays(t, call.n, <<>>)
         /\ call.op = "Rename" => Stays(t, call.n, call.to)
<1> DEFINE n == call.n
<1>1. ASSUME call.op \in {"RemoveAll", "Rename"}, NEW x \in Path, x # <<>>, ~InTree(n, x),
             NEW k \in DOMAIN t, InTree(n, k), InTree(x, k)
      PROVE  \/ call.op = "Rename" /\ InTree(x, call.to)
             \/ \E j \in DOMAIN t : InTree(x, j) /\ ~InTree(n, j)
  <2>1. n \in Key /\ x \in Key /\ k \in Key
    BY KeysAre, PathIs
  <2>2. InTree(x, n) /\ x # n
    BY <1>1, <2>1, Trees
  <2>3. Len(x) \in 0..Len(n) /\ SubSeq(n, 1, Len(x)) = x
    BY <2>2 DEF InTree, Path
  <2>4. x \in Prefixes(n) \ {<<>>, n}
    BY <1>1, <2>2, <2>3 DEF Prefixes
  <2> QED BY <1>1, <2>4 DEF Rooted
<1> QED BY <1>1 DEF Stays

\* A call that meets no fault and no other call does what the test suite asks
\* of it (fs.go, file.go: Mkdir, OpenFile, Rename, RemoveAll and Stat together,
\* request by request), from every tree that earlier calls, failed ones too,
\* leave behind, but: where a path is a file and a directory at once; where the
\* tree it takes away is the last entry of a directory without a holder; and,
\* for a Rename, where a directory in the tree it moves has no holder.  No name
\* may start another, for statDirectory lists by prefix without a slash, and
\* the endpoint has a base path: without it RemoveAll leaves a file in its place,
\* for the key it removes ends in a slash.
THEOREM ContractKept ==
  ASSUME ShortOf = {}, BasePath = TRUE
  PROVE  Spec => []((\A c \in alone : cur[c].op = "Rename" => Marked(before, cur[c].n))
                      => ContractHolds)
<1>1. Typed /\ LoneInv /\ (\A c \in alone : cur[c].op = "Rename" => Marked(before, cur[c].n))
        => ContractHolds
  <2> SUFFICES ASSUME Typed, LoneInv, NEW c \in alone, prog[c] = <<>>, Rooted(before, cur[c]),
                      cur[c].op = "Rename" => Marked(before, cur[c].n)
               PROVE  AsTheSuiteAsks(c)
    BY DEF ContractHolds
  <2>1. cur[c].n \in Path /\ Stored(before, calls)
    BY DEF LoneInv, Typed, TypeOK
  <2>2. Plain(before, cur[c])
    BY <2>1, RootedStays DEF Plain
  <2>3. Goes(before, bucket, cur[c], [prog |-> prog[c], ret |-> ret[c]])
    BY <2>2 DEF LoneInv
  <2> QED BY <2>3 DEF Goes, AsTheSuiteAsks
<1>2. Init => LoneInv
  BY DEF Init, LoneInv
<1>3. SafeInv /\ LoneInv /\ [Next]_vars => LoneInv'
  BY LoneNext
<1>4. SafeInv => Typed
  BY DEF SafeInv
<1> QED BY <1>1, <1>2, <1>3, <1>4, AlwaysSafe, PTL DEF Spec
=============================================================================
