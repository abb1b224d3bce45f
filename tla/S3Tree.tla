-------------------------------- MODULE S3Tree --------------------------------
(***************************************************************************)
(* The namespace of the S3 backend (pkg/filesystem/s3/fs.go and the        *)
(* opening half of file.go): a directory tree kept in a flat bucket.       *)
(*                                                                         *)
(* A path is a sequence of names, the root is <<>>; an object key is the   *)
(* path of a file, or of a directory followed by the holder ".fs_dir".     *)
(* Every call is a program of S3 requests: a client runs the first request *)
(* of its program, and the answer decides what the rest of the program is. *)
(* One step is one request, so calls of different clients interleave       *)
(* request by request, and any request may fail, carried out or not.       *)
(***************************************************************************)
EXTENDS Tree, SequencesExt

CONSTANTS
  Clients,     \* the callers of the file system
  Names,       \* the names files and directories may have
  Holder,      \* the name ".fs_dir"
  ShortOf,     \* pairs <<x, y>> of names where the string x starts y
  BasePath,    \* the endpoint has a path below the bucket: fsys.prefix
  Paths,       \* the paths clients use, the root among them
  Start,       \* what earlier calls may have left: buckets, and how many calls
  Calls,       \* the calls clients make: a subset of Ops
  MaxCalls,    \* bound: calls begun
  MaxFaults    \* bound: requests that fail

Ops == {"Mkdir", "Create", "Rename", "RemoveAll"}

ASSUME TreeAssumption ==
  /\ Holder \notin Names /\ "" \notin Names \cup {Holder}
  /\ ShortOf \subseteq Names \X Names
  /\ BasePath \in BOOLEAN
  /\ Calls \subseteq Ops
  /\ <<>> \in Paths /\ \A p \in Paths : p \in Seq(Names)
  /\ MaxCalls \in Nat /\ MaxFaults \in Nat

VARIABLES
  bucket,   \* the stored objects: a function from keys to contents
  prog,     \* prog[c]: the requests c has still to make
  cur,      \* cur[c]: the call c is in, or made last
  ret,      \* ret[c]: what that call returned; "none" while it runs
  alone,    \* the client whose call was the last to begin, if that call met no
            \* other call and no fault and began where no path was a file and a
            \* directory at once; {} otherwise (history)
  before,   \* the bucket when that call began (history)
  safe,     \* contents written that no call was asked to remove, while no path
            \* is a file and a directory at once (history)
  blurred,  \* calls overlapped, or a failed Stat was taken for an answer that
            \* was not true (history)
  calls,    \* calls begun; also the contents a Create writes
  faults    \* requests failed

vars == <<bucket, prog, cur, ret, before, alone, safe, blurred, calls, faults>>

-----------------------------------------------------------------------------
(* Keys, listings and Stat.                                                *)

HolderOf(p) == Append(p, Holder)

\* The key of a call's name: path.Join drops a trailing slash, but without a
\* base path only the leading slash is trimmed, and "name/" is no file's key.
KeyOf(p, slash) == IF slash /\ ~BasePath THEN Append(p, "") ELSE p

\* ListObjects with the prefix name and no slash after it, as statDirectory asks.
HasPrefix(b, p) ==
  \E k \in DOMAIN b :
    /\ Len(k) >= Len(p) /\ SubSeq(k, 1, Len(p) - 1) = Parent(p)
    /\ LET x == p[Len(p)] y == k[Len(p)] IN x = y \/ <<x, y>> \in ShortOf

\* What Stat says of p in a bucket at rest.
Stat(b, p) ==
  CASE p = <<>> -> "dir"
    [] p # <<>> /\ p \in DOMAIN b -> "file"
    [] OTHER -> IF HasPrefix(b, p) THEN "dir" ELSE "missing"

\* Readdir: the files directly below d and the directories directly below d.
FilesIn(b, d) == {k \in DOMAIN b : Len(k) = Len(d) + 1 /\ Under(d, k) /\ k # HolderOf(d)}
DirsIn(b, d) == {SubSeq(k, 1, Len(d) + 1) : k \in {k \in DOMAIN b : Len(k) > Len(d) + 1 /\ Under(d, k)}}

\* The tree a user sees: what Stat says is there, directories as 0 and files as
\* their contents.
PathOf(k) == IF Last(k) = Holder THEN Parent(k) ELSE k
View(b) ==
  LET places == Paths \cup UNION {Prefixes(PathOf(k)) : k \in DOMAIN b}
  IN [p \in {p \in places : Stat(b, p) # "missing"} |-> IF Stat(b, p) = "file" THEN b[p] ELSE 0]

-----------------------------------------------------------------------------
(* Programs.  A request is a record: n is its name, to a second name, v the  *)
(* contents it writes; at tells the two requests of a Stat apart.            *)

Request(do, n, to, v) == [do |-> do, n |-> n, to |-> to, v |-> v, at |-> "head"]
PutObject(k, v) == Request("put", k, <<>>, v)
CopyObject(n, to) == Request("copy", n, to, 0)
\* forceRemove asks for ForceDelete, which drops every version of an object: a
\* bucket holds one here.
RemoveObject(k) == Request("remove", k, <<>>, 0)

\* The requests that are Stats, by what Stat is called for, and its argument.
StatKinds == {"mkdir", "opendir", "mkparent", "parent", "rename"}
StatName(r) == IF r.do \in {"mkparent", "parent"} THEN Parent(r.n) ELSE r.n

\* Mutant: the holder is forgotten.
ForceRemoveKeepsHolder(n, slash) == <<RemoveObject(KeyOf(n, slash))>>

\* forceRemove of a directory, its holder first.
ForceRemoveDir(n, slash) == <<RemoveObject(HolderOf(n)), RemoveObject(KeyOf(n, slash))>>

\* The requests a call begins with.
Program(op, n, to, v) ==
  CASE op = "Mkdir" -> <<Request("mkdir", n, <<>>, 0)>>
    [] op = "Create" ->
         IF Len(n) = 1 THEN <<PutObject(n, v)>> ELSE <<Request("parent", n, <<>>, v)>>
    [] op = "Rename" -> IF n = to THEN <<>> ELSE <<Request("rename", n, to, 0)>>
    [] op = "RemoveAll" -> <<Request("rmall", n, <<>>, 0)>>

\* What a call does next: go on with a program, or return an error.
Go(p) == [prog |-> p, ret |-> IF p = <<>> THEN "ok" ELSE "none"]
Return(e) == [prog |-> <<>>, ret |-> e]
Then(r, why) == [r EXCEPT !.do = why, !.at = "head"]

\* Mutant: the holder is put under the directory's own key.
MkdirPutsBareKey(r, what, rest) ==
  CASE r.do = "mkdir" ->
         IF what = "missing" THEN Go(<<Then(r, "opendir")>> \o rest) ELSE Return("errExist")
    [] r.do = "opendir" -> Go(<<PutObject(r.n, 0)>> \o rest)
    [] r.do = "mkparent" -> Go(<<PutObject(r.n, 0)>> \o rest)

\* Mkdir and openDir once Stat has answered with what.
MkdirAfterStat(r, what, rest) ==
  CASE r.do = "mkdir" ->
         IF what = "missing" THEN Go(<<Then(r, "opendir")>> \o rest) ELSE Return("errExist")
    [] r.do = "opendir" ->
         CASE what = "dir" -> Go(rest)
           [] what = "file" -> Return("errExist")
           [] OTHER -> Go(<<IF Len(r.n) = 1 THEN PutObject(HolderOf(r.n), 0)
                            ELSE Then(r, "mkparent")>> \o rest)
    [] r.do = "mkparent" ->
         IF what = "missing" THEN Return("errNotExist")
         ELSE Go(<<PutObject(HolderOf(r.n), 0)>> \o rest)

\* Mutant: the old object is removed before it is copied.
RenameRemovesFirst(r, what, rest) ==
  CASE what = "missing" -> Return("errNotExist")
    [] what # "missing" /\ (r.n = <<>> \/ Under(r.n, r.to)) -> Return("errPermission")
    [] OTHER -> Go((IF what = "dir" THEN <<Then(r, "mvlist")>>
                    ELSE <<RemoveObject(r.n), CopyObject(r.n, r.to)>>) \o rest)

\* Rename once Stat has answered for the old name.
RenameAfterStat(r, what, rest) ==
  CASE what = "missing" -> Return("errNotExist")
    [] what # "missing" /\ (r.n = <<>> \/ Under(r.n, r.to)) -> Return("errPermission")
    [] OTHER -> Go((IF what = "dir" THEN <<Then(r, "mvlist")>>
                    ELSE <<CopyObject(r.n, r.to), RemoveObject(r.n)>>) \o rest)

\* openFileForWrite once Stat has answered for the parent.
CreateAfterStat(r, what, rest) ==
  IF what = "missing" THEN Return("errNotExist") ELSE Go(<<PutObject(r.n, r.v)>> \o rest)

AfterStat(r, what, rest) ==
  CASE r.do = "rename" -> RenameAfterStat(r, what, rest)
    [] r.do = "parent" -> CreateAfterStat(r, what, rest)
    [] OTHER -> MkdirAfterStat(r, what, rest)

\* The requests for the entries of a directory.
Renames(s, to) == [i \in DOMAIN s |-> Request("rename", s[i], Append(to, Last(s[i])), 0)]
Removals(s) == [i \in DOMAIN s |-> RemoveObject(s[i])]
Recursions(s) == [i \in DOMAIN s |-> Request("rmall", s[i], <<>>, 0)]

\* Rename of a directory once Readdir has answered: make the new directory,
\* rename every entry into it, remove the old one.
RenameAfterList(r, b, rest) ==
  <<Request("mkdir", r.to, <<>>, 0)>>
    \o Renames(SetToSeq(FilesIn(b, r.n)) \o SetToSeq(DirsIn(b, r.n)), r.to)
    \o ForceRemoveDir(r.n, FALSE) \o rest

\* Mutant: the directory is removed before its entries.
RemoveAllHolderFirst(r, b, rest) ==
  ForceRemoveDir(r.n, TRUE) \o Removals(SetToSeq(FilesIn(b, r.n)))
    \o Recursions(SetToSeq(DirsIn(b, r.n))) \o rest

\* RemoveAll once Readdir has answered: the entries, then the directory.
RemoveAllAfterList(r, b, rest) ==
  Removals(SetToSeq(FilesIn(b, r.n))) \o Recursions(SetToSeq(DirsIn(b, r.n)))
    \o ForceRemoveDir(r.n, TRUE) \o rest

-----------------------------------------------------------------------------
(* Footprints, for the history variable safe.                              *)

\* The keys a call may replace or remove when it succeeds.
Replaces(call, k) ==
  CASE call.op = "Create" -> k = call.n
    [] call.op = "RemoveAll" -> InTree(call.n, k)
    [] call.op = "Rename" -> call.n # call.to /\ InTree(call.to, k)
    [] OTHER -> FALSE

\* Some path is a file and a directory at once.
Mixed(b) == \E j, k \in DOMAIN b : Under(j, k)

\* Another call in progress may remove what c writes at k.
AtRisk(c, k) ==
  \E d \in Clients \ {c} :
    /\ prog[d] # <<>>
    /\ Replaces(cur[d], k) \/ (cur[d].op = "Rename" /\ InTree(cur[d].n, k))

-----------------------------------------------------------------------------
(* Calls.                                                                  *)

\* No key lies below a directory without its holder.
WellFormed(b) ==
  \A k \in DOMAIN b : \A i \in 1..Len(k) - 1 : HolderOf(SubSeq(k, 1, i)) \in DOMAIN b

\* A bucket after n calls: every key is a file or the holder of a directory,
\* every holder is empty and every file is one a Create wrote.
Stored(b, n) ==
  /\ IsFiniteSet(DOMAIN b)
  /\ \A k \in DOMAIN b :
       /\ k \in Seq(Names \cup {Holder}) /\ k # <<>> /\ Parent(k) \in Seq(Names)
       /\ b[k] \in IF Last(k) = Holder THEN {0} ELSE 1..n

ASSUME StartAssumption ==
  \A s \in Start : s.calls \in 0..MaxCalls /\ Stored(s.bucket, s.calls)

\* The calls looked at: nothing is created below a file or in place of a
\* directory, and what is moved stays within the paths in use.  Neither the code
\* nor a front asks that a file is moved into a directory that is there; a file
\* moved elsewhere is left to Gateway.
Proper(op, n, to) ==
  LET below(p) == p # <<>> /\ Stat(bucket, Parent(p)) # "file"
  IN CASE op = "Mkdir" -> n = <<>> \/ below(n)
       [] op = "Create" -> below(n) /\ Stat(bucket, n) # "dir"
       [] op = "Rename" ->
            /\ below(to)
            /\ Stat(bucket, n) = "file" =>
                 Stat(bucket, to) # "dir" /\ Stat(bucket, Parent(to)) = "dir"
            /\ \A k \in DOMAIN bucket :
                 Under(n, k) => Rebased(k, n, to) \in Paths \cup {HolderOf(p) : p \in Paths}
       [] OTHER -> TRUE

Begin(c, op, n, to) ==
  LET call == [op |-> op, n |-> n, to |-> to, v |-> calls + 1]
      p == Program(op, n, to, calls + 1)
      next == IF op = "RemoveAll" /\ n = <<>> THEN Return("errPermission") ELSE Go(p)
  IN /\ prog[c] = <<>> /\ calls < MaxCalls /\ Proper(op, n, to)
     /\ (op = "Rename") \/ (to = <<>>)
     /\ calls' = calls + 1
     /\ cur' = [cur EXCEPT ![c] = call]
     /\ prog' = [prog EXCEPT ![c] = next.prog]
     /\ ret' = [ret EXCEPT ![c] = next.ret]
     /\ alone' = IF ~Mixed(bucket) /\ \A d \in Clients : prog[d] = <<>> THEN {c} ELSE {}
     /\ before' = IF alone' = {c} THEN bucket ELSE <<>>
     /\ safe' = safe \ {bucket[k] : k \in {k \in DOMAIN bucket : Replaces(call, k)}}
     /\ blurred' = (blurred \/ \E d \in Clients : prog[d] # <<>>)
     /\ UNCHANGED <<bucket, faults>>

\* Client c goes on as next says.
Continue(c, next) ==
  /\ prog' = [prog EXCEPT ![c] = next.prog]
  /\ ret' = [ret EXCEPT ![c] = next.ret]

Doing(c, kinds) == prog[c] # <<>> /\ Head(prog[c]).do \in kinds

\* Stat, first request: StatObject.  The root needs none.
StatObject(c) ==
  LET r == Head(prog[c])
      n == StatName(r)
      hit == KeyOf(n, r.do = "opendir") \in DOMAIN bucket
  IN /\ Doing(c, StatKinds) /\ r.at = "head"
     /\ CASE n = <<>> -> Continue(c, AfterStat(r, "dir", Tail(prog[c])))
          [] n # <<>> /\ hit -> Continue(c, AfterStat(r, "file", Tail(prog[c])))
          [] OTHER -> Continue(c, Go(<<[r EXCEPT !.at = "list"]>> \o Tail(prog[c])))
     /\ UNCHANGED <<bucket, cur, before, alone, safe, blurred, calls, faults>>

\* Stat, second request: statDirectory lists what begins with the name.
StatDirectory(c) ==
  LET r == Head(prog[c])
      what == IF HasPrefix(bucket, StatName(r)) THEN "dir" ELSE "missing"
  IN /\ Doing(c, StatKinds) /\ r.at = "list"
     /\ Continue(c, AfterStat(r, what, Tail(prog[c])))
     /\ UNCHANGED <<bucket, cur, before, alone, safe, blurred, calls, faults>>

\* Readdir(0) of Rename and RemoveAll.
Readdir(c) ==
  LET r == Head(prog[c])
      rest == Tail(prog[c])
  IN /\ Doing(c, {"mvlist", "rmall"})
     /\ Continue(c, Go(IF r.do = "mvlist" THEN RenameAfterList(r, bucket, rest)
                       ELSE RemoveAllAfterList(r, bucket, rest)))
     /\ UNCHANGED <<bucket, cur, before, alone, safe, blurred, calls, faults>>

\* The effect of a PutObject, CopyObject or RemoveObject.
Effect(c, r) ==
  CASE r.do = "put" ->
         /\ bucket' = Placed(bucket, r.n, r.v)
         /\ safe' = IF Mixed(bucket') THEN {}
                    ELSE IF r.v = 0 THEN safe
                    ELSE IF AtRisk(c, r.n) THEN safe \ {r.v} ELSE safe \cup {r.v}
    [] r.do = "copy" ->
         /\ bucket' = Placed(bucket, r.to, bucket[r.n])
         /\ safe' = IF Mixed(bucket') THEN {}
                    ELSE IF AtRisk(c, r.to) THEN safe \ {bucket[r.n]} ELSE safe
    [] r.do = "remove" ->
         /\ bucket' = [k \in DOMAIN bucket \ {r.n} |-> bucket[k]]
         /\ UNCHANGED safe

\* CopyObject of a key that is gone answers with an error.
Possible(r) == r.do = "copy" => r.n \in DOMAIN bucket

Change(c) ==
  LET r == Head(prog[c]) IN
  /\ Doing(c, {"put", "copy", "remove"}) /\ Possible(r)
  /\ Effect(c, r)
  /\ Continue(c, Go(Tail(prog[c])))
  /\ UNCHANGED <<cur, before, alone, blurred, calls, faults>>

CopyFromMissing(c) ==
  /\ Doing(c, {"copy"}) /\ ~Possible(Head(prog[c]))
  /\ Continue(c, Return("err"))
  /\ UNCHANGED <<bucket, cur, before, alone, safe, blurred, calls, faults>>

\* A request fails.  Mkdir goes on to openDir when its own Stat fails, as if
\* nothing were there, and statDirectory takes the error of its listing for an
\* entry of it, as if something were: misread, where that is not so.
RequestFails(c) ==
  LET r == Head(prog[c])
      listing == r.do \in StatKinds /\ r.at = "list"
      misread == \/ listing /\ ~HasPrefix(bucket, StatName(r))
                 \/ r.do = "mkdir" /\ ~listing /\ Stat(bucket, r.n) # "missing"
  IN /\ prog[c] # <<>> /\ faults < MaxFaults
     /\ StatName(r) # <<>>
     /\ faults' = faults + 1
     /\ alone' = alone \ {c}
     /\ blurred' = (blurred \/ misread)
     /\ Continue(c, IF listing THEN AfterStat(r, "dir", Tail(prog[c]))
                    ELSE IF r.do = "mkdir" THEN Go(<<Then(r, "opendir")>> \o Tail(prog[c]))
                    ELSE Return("err"))
     /\ \/ UNCHANGED <<bucket, safe>>
        \/ r.do \in {"put", "copy", "remove"} /\ Possible(r) /\ Effect(c, r)
     /\ UNCHANGED <<cur, before, calls>>

Init ==
  /\ \E s \in Start :
       /\ bucket = s.bucket /\ calls = s.calls
       /\ safe = IF Mixed(s.bucket) THEN {}
                 ELSE {s.bucket[k] : k \in DOMAIN s.bucket} \ {0}
       /\ blurred = ~WellFormed(s.bucket)
  /\ prog = [c \in Clients |-> <<>>]
  /\ cur = [c \in Clients |-> [op |-> "none", n |-> <<>>, to |-> <<>>, v |-> 0]]
  /\ ret = [c \in Clients |-> "none"]
  /\ before = <<>>
  /\ alone = {}
  /\ faults = 0

Next ==
  \E c \in Clients :
    \/ \E op \in Calls, n \in Paths, to \in Paths : Begin(c, op, n, to)
    \/ StatObject(c)
    \/ StatDirectory(c)
    \/ Readdir(c)
    \/ Change(c)
    \/ CopyFromMissing(c)
    \/ RequestFails(c)

Spec == Init /\ [][Next]_vars

-----------------------------------------------------------------------------
(* What the calls promise.                                                 *)

Results == {"none", "ok", "err", "errExist", "errNotExist", "errPermission"}

\* The bucket holds files that Creates wrote and the holders of directories.
TypeOK ==
  /\ Stored(bucket, calls)
  /\ \A c \in Clients : ret[c] \in Results
  /\ \A c \in Clients : prog[c] # <<>> => ret[c] = "none"
  /\ alone \subseteq Clients /\ safe \subseteq 1..calls
  /\ blurred \in BOOLEAN /\ calls \in 0..MaxCalls /\ faults \in 0..MaxFaults

KindIn(t, p) == IF p \notin DOMAIN t THEN "missing" ELSE IF t[p] = 0 THEN "dir" ELSE "file"

\* What the test suite expects of a call made in tree t: its result and the
\* tree it leaves (testutil/test_full_fs.go).
Contract(call, t) ==
  LET n == call.n
      to == call.to
      kind(p) == KindIn(t, p)
      ok(tree) == [ret |-> "ok", tree |-> tree]
      fails(e) == [ret |-> e, tree |-> t]
      put(what) == IF kind(n) # "missing" /\ call.op = "Mkdir" THEN fails("errExist")
                   ELSE IF kind(Parent(n)) = "missing" THEN fails("errNotExist")
                   ELSE ok(Placed(t, n, what))
  IN CASE call.op = "Mkdir" -> put(0)
       [] call.op = "Create" -> put(call.v)
       [] call.op = "RemoveAll" ->
            IF n = <<>> THEN fails("errPermission") ELSE ok(WithoutTree(t, n))
       [] call.op = "Rename" ->
            CASE n = to -> ok(t)
              [] n # to /\ kind(n) = "missing" -> fails("errNotExist")
              [] n # to /\ kind(n) # "missing" /\ (n = <<>> \/ Under(n, to)) ->
                   fails("errPermission")
              [] OTHER ->
                   IF kind(n) = "dir" /\ kind(to) # "missing" THEN fails("errExist")
                   ELSE IF kind(Parent(to)) = "missing" THEN fails("errNotExist")
                   ELSE ok(MovedTree(t, n, to))

\* No directory of b loses its last entry when call takes away the tree it is
\* about: what is above that tree has another entry, its holder or anything else,
\* or the tree comes back below it.
Rooted(b, call) ==
  call.op \in {"RemoveAll", "Rename"} /\ (\E k \in DOMAIN b : InTree(call.n, k)) =>
    \A d \in Prefixes(call.n) \ {<<>>, call.n} :
      \/ \E k \in DOMAIN b : InTree(d, k) /\ ~InTree(call.n, k)
      \/ call.op = "Rename" /\ InTree(d, call.to)

AsTheSuiteAsks(c) ==
  [ret |-> ret[c], tree |-> View(bucket)] = Contract(cur[c], View(before))

\* A call that meets no fault and no other call does what the test suite asks
\* of it (fs.go, Mkdir, OpenFile, Rename, RemoveAll and Stat together), from
\* every tree that earlier calls, failed ones too, leave behind but two: where
\* calls that overlapped have made a path a file and a directory at once, and
\* where a listing that failed and was taken for a directory (fs.go:233) has left
\* a directory without its holder, whose last entry the call takes away.
ContractHolds ==
  \A c \in alone : prog[c] = <<>> /\ Rooted(before, cur[c]) => AsTheSuiteAsks(c)

\* No file is lost that no call was asked to remove or replace, whichever
\* requests of a Rename or RemoveAll fail and wherever calls on other files
\* fall between them (fs.go, copy before remove; children before the holder).
\* Where calls that overlap have made a path a file and a directory at once,
\* Rename handles it twice and this is not promised.
SafeContentsSurvive ==
  \A v \in safe : \E k \in DOMAIN bucket : bucket[k] = v

\* As long as one client works at a time and no failed Stat is misread, a
\* directory is marked by its holder from before its first entry until after
\* its last, so that removing an entry never makes it vanish (fs.go, the order
\* of the requests of Mkdir, Rename and RemoveAll).
HoldersFirst ==
  ~blurred => WellFormed(bucket)
=============================================================================
