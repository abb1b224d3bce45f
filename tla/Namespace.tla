------------------------------ MODULE Namespace ------------------------------
(***************************************************************************)
(* The namespaces of the WebDAV and the FTP backend                        *)
(* (pkg/filesystem/webdav/webdav_fs.go, pkg/filesystem/ftp/fs.go) and what *)
(* is built on any backend: MkdirAll, Write and WalkDir                    *)
(* (pkg/filesystem/util.go), the import and the export of an archive       *)
(* (pkg/tar).                                                              *)
(*                                                                         *)
(* The server keeps a tree with real directories and carries out one       *)
(* request at a time.  A call is a program of requests, as in S3Tree: the  *)
(* answer to the first one decides the rest.  A call made by another call  *)
(* is a part of its program.                                               *)
(***************************************************************************)
EXTENDS Tree, SequencesExt

CONSTANTS
  Clients,    \* the callers
  Names,      \* the names of files and directories
  Paths,      \* the paths in use: sequences of names, the root <<>> among them
  Backends,   \* a subset of {"webdav", "ftp"}
  Base,       \* the base path of the FTP file system
  Trees,      \* the trees the file system may start with
  Sizes,      \* Sizes[v]: the length of contents v
  Written,    \* Written[k]: the contents the k-th call writes, if it is a Create
  Calls,      \* the calls clients may make
  MaxCalls,   \* bound: calls begun
  MaxFaults   \* bound: requests that fail

Dir == 0
Cut == Len(Sizes)   \* the contents that stand for the cut off beginning of any file

\* There is a root, and a directory above everything.
IsTree(t) ==
  /\ <<>> \in DOMAIN t /\ t[<<>>] = Dir
  /\ \A p \in DOMAIN t : t[p] \in {Dir} \cup DOMAIN Sizes
  /\ \A p \in DOMAIN t : \A k \in 0..Len(p) - 1 :
       SubSeq(p, 1, k) \in DOMAIN t /\ t[SubSeq(p, 1, k)] = Dir

ASSUME NamespaceAssumption ==
  /\ Backends \subseteq {"webdav", "ftp"}
  /\ Paths \subseteq Seq(Names) /\ Base \in Seq(Names)
  /\ \A t \in Trees : DOMAIN t \subseteq Paths /\ IsFiniteSet(DOMAIN t) /\ IsTree(t)
  /\ Sizes \in Seq(Nat) /\ Sizes # <<>> /\ Written \in Seq(DOMAIN Sizes)
  /\ Len(Written) >= MaxCalls
  /\ Calls \subseteq {"Mkdir", "MkdirAll", "Create", "RemoveAll", "Rename", "Export", "Import"}
  /\ MaxCalls \in Nat /\ MaxFaults \in Nat

VARIABLES
  backend,  \* which backend the clients use
  tree,     \* the server's tree: Dir, or the contents of a file
  flight,   \* WebDAV: the PUTs nobody waits for, as <<path, contents>>
  prog,     \* prog[c]: the requests c has still to make
  cur,      \* cur[c]: the call c is in, or made last
  ret,      \* ret[c]: what it returned; "none" while it runs
  archive,  \* archive[c]: the entries c has exported, as <<path, contents>>
  alone,    \* the client whose call was the last to begin, if it met no other
            \* call and no fault; {} otherwise (history)
  before,   \* the server's tree when it began (history)
  still,    \* still[c]: the files that are as they were when c's call began (history)
  calm,     \* no RemoveAll and no Rename has been called (history)
  calls,    \* calls begun
  faults    \* requests that failed

history == <<alone, before, still, calm>>
vars == <<backend, tree, flight, prog, cur, ret, archive, history, calls, faults>>

-----------------------------------------------------------------------------
(* The server.  Its tree begins above the base path, and requests name the *)
(* server's paths.                                                         *)

\* Sub, and what callers see of tree t through it.
FullName(n) == IF backend = "ftp" THEN Base \o n ELSE n
Seen(t) ==
  LET root == FullName(<<>>)
  IN [p \in {Rebased(q, root, <<>>) : q \in {q \in DOMAIN t : InTree(root, q)}} |-> t[FullName(p)]]

KindIn(t, p) ==
  IF p \notin DOMAIN t THEN "missing" ELSE IF t[p] = Dir THEN "dir" ELSE "file"
Kind(p) == KindIn(tree, p)

Children(d) == ChildrenIn(tree, d)

\* Whether the server can carry a request out.  MOVE is sent with Overwrite: F;
\* an FTP server renames a file over a file.
Possible(r) ==
  LET n == r.n to == r.to IN
  CASE r.do = "mkdir" -> Kind(n) = "missing" /\ Kind(Parent(n)) = "dir"
    [] r.do = "put" -> n # <<>> /\ Kind(n) # "dir" /\ Kind(Parent(n)) = "dir"
    [] r.do = "delete" -> Kind(n) # "missing"
    [] r.do = "dele" -> Kind(n) = "file"
    [] r.do = "rmd" -> Kind(n) = "dir" /\ Children(n) = {}
    [] r.do = "move" ->
         /\ n # <<>> /\ to # <<>> /\ Kind(n) # "missing" /\ Kind(Parent(to)) = "dir"
         /\ ~Under(n, to)
         /\ \/ Kind(to) = "missing"
            \/ backend = "ftp" /\ Kind(n) = "file" /\ Kind(to) = "file"

Effect(r) ==
  CASE r.do = "mkdir" -> Placed(tree, r.n, Dir)
    [] r.do = "put" -> Placed(tree, r.n, r.v)
    [] r.do \in {"delete", "dele", "rmd"} -> WithoutTree(tree, r.n)
    [] r.do = "move" -> MovedTree(tree, r.n, r.to)

Changes == {"mkdir", "delete", "dele", "rmd", "move"}

-----------------------------------------------------------------------------
(* Programs.                                                               *)

Request(do, why, n, to, v) == [do |-> do, why |-> why, n |-> n, to |-> to, v |-> v]
Look(why, n) == Request("look", why, n, <<>>, 0)
Act(do, n) == Request(do, "", n, <<>>, 0)
Put(n, v) == Request("put", "", n, <<>>, v)

\* Mutant: the handler of an error runs although there was none.
GoIntoHandler(p) == [prog |-> p, ret |-> IF p = <<>> THEN "ok" ELSE "none"]

\* What a call does next.  A "catch" is a handler of errors and no request: it
\* is passed over as long as all goes well.
Go(p) ==
  LET live == {i \in DOMAIN p : p[i].do # "catch"}
      rest == IF live = {} THEN <<>>
              ELSE SubSeq(p, CHOOSE i \in live : \A j \in live : i =< j, Len(p))
  IN [prog |-> rest, ret |-> IF rest = <<>> THEN "ok" ELSE "none"]

\* Mutant: MkdirAll does not look again when Mkdir fails.
FailAtOnce(e, p) == [prog |-> <<>>, ret |-> e]

\* An error ends the call, or goes to the next handler: the second look of
\* MkdirAll, which keeps the error in why.
Fail(e, p) ==
  LET at == {i \in DOMAIN p : p[i].do = "catch"} IN
  IF at = {} THEN [prog |-> <<>>, ret |-> e]
  ELSE LET i == CHOOSE i \in at : \A j \in at : i =< j
       IN [prog |-> <<Look(e, p[i].n)>> \o SubSeq(p, i + 1, Len(p)), ret |-> "none"]

\* The errors of a refused request: FTP answers 550, which normalizeError takes
\* for "not there"; WebDAV answers with a status that is no os error.
Refused == IF backend = "ftp" THEN "errNotExist" ELSE "err"

Each(S, Op(_)) == LET s == SetToSeq(S) IN [i \in DOMAIN s |-> Op(s[i])]

\* FTP makes the directory at once; WebDAV opens name/ with O_CREATE.
MakeDir(n) == IF backend = "ftp" THEN Act("mkdir", n) ELSE Look("opendir", n)

\* Mkdir once its Stat has answered: any error is taken for "missing".  The
\* Mkdir of a MkdirAll leaves a handler behind for its own errors.
Mkdir(r, a, rest) ==
  LET then == (IF r.why = "mkdirAll" THEN <<Act("catch", r.n)>> ELSE <<>>) \o rest
  IN IF a \in {"dir", "file"} THEN Fail("errExist", then) ELSE Go(<<MakeDir(r.n)>> \o then)

\* WebDAV openDir: a directory made meanwhile is as good; else the parent is
\* looked at, the directory made, and looked at once more.
OpenDir(r, a, rest) ==
  LET make == <<Act("mkdir", r.n), Look("made", r.n)>>
      parent == IF Len(r.n) = 1 THEN make ELSE <<Look("mkparent", r.n)>>
  IN CASE a = "err" -> Fail("err", rest)
       [] a = "missing" /\ r.why = "opendir" -> Go(parent \o rest)
       [] a = "missing" /\ r.why # "opendir" -> Fail("errNotExist", rest)
       [] a \in {"dir", "file"} /\ r.why = "mkparent" -> Go(make \o rest)
       [] a = "file" /\ r.why = "opendir" -> Fail("errExist", rest)
       [] OTHER -> Go(rest)

\* OpenFile for writing, up to the upload: the parent must be there; FTP looks
\* at the file too, and STOR begins with the first Write.
Create(r, a, rest) ==
  CASE a = "err" -> Fail("err", rest)
    [] r.why = "parent" /\ a = "missing" -> Fail("errNotExist", rest)
    [] r.why = "parent" /\ a \in {"dir", "file"} /\ backend = "ftp" ->
         Go(<<[r EXCEPT !.why = "entry"]>> \o rest)
    [] OTHER -> Go(<<Put(r.n, r.v)>> \o rest)

\* Mutant: a directory is removed without what is in it.
FtpRemoveFlat(r, a, rest) ==
  IF a = "missing" THEN Go(<<>>)
  ELSE IF a = "err" THEN Fail("err", rest)
  ELSE Go(<<Act(IF a = "dir" THEN "rmd" ELSE "dele", r.n)>> \o rest)

\* FTP RemoveAll, and RemoveDirRecur of the client library, once they know what
\* is there.
FtpRemove(r, a, rest) ==
  CASE a = "missing" -> Go(<<>>)
    [] a = "err" -> Fail("err", rest)
    [] a = "file" -> Go(<<Act("dele", r.n)>> \o rest)
    [] a = "dir" -> Go(<<Act("rmlist", r.n)>> \o rest)

\* Whether MkdirAll of n begins with that of its parent, which is not the root.
Above(n) == Len(n) > Len(FullName(<<>>)) + 1

\* Mutant: a file in the way passes for the directory.
MkdirAllAnyKind(r, a, rest) ==
  LET parent == IF Above(r.n) THEN <<Look("all", Parent(r.n))>> ELSE <<>> IN
  IF a \in {"dir", "file"} THEN Go(rest)
  ELSE IF r.why = "all" THEN Go(parent \o <<Look("mkdirAll", r.n)>> \o rest)
  ELSE Fail(r.why, rest)

\* MkdirAll once Stat has answered; why "all" is the first look, and any other
\* the second one, after Mkdir has failed with the error why.
MkdirAll(r, a, rest) ==
  LET mkdir == <<Look("mkdirAll", r.n)>> IN
  CASE r.why = "all" /\ a = "dir" -> Go(rest)
    [] r.why = "all" /\ a = "file" -> Fail("errNotDir", rest)
    [] r.why = "all" /\ a \in {"missing", "err"} ->
         Go((IF Above(r.n) THEN <<Look("all", Parent(r.n))>> ELSE <<>>) \o mkdir \o rest)
    [] OTHER -> IF a = "dir" THEN Go(rest) ELSE Fail(r.why, rest)

\* WalkDir, once the root has been looked at.  ExportAsTar answers every error
\* of WalkDir with nil: what cannot be listed is left out.
Walk(r, a, rest) ==
  CASE a = "dir" -> Go(<<Act("list", r.n)>> \o rest)
    [] a = "file" -> Go(<<Request("export", "", r.n, <<>>, tree[r.n])>> \o rest)
    [] OTHER -> Go(rest)

\* Mutant: an entry that is a directory is taken for a file that is empty.
WalkFlat(d, rest) ==
  Go(Each({p \in Children(d) : Kind(p) = "file"},
          LAMBDA p : Request("export", "", p, <<>>, tree[p])) \o rest)

\* ReadDir has answered: the entries in turn, as they are listed.
WalkEntries(d, rest) ==
  Go(Each(Children(d), LAMBDA p : IF Kind(p) = "dir" THEN Act("list", p)
                                  ELSE Request("export", "", p, <<>>, tree[p])) \o rest)

\* One archive entry of writeFile: its directory, then the file.
ImportEntry(to, e) ==
  LET n == to \o e[1]
  IN Request("look", IF Parent(n) = FullName(<<>>) THEN "parent" ELSE "import", n, <<>>, e[2])

Import(to, entries) ==
  (IF to = FullName(<<>>) THEN <<>> ELSE <<Look("all", to)>>)
    \o Each(entries, LAMBDA e : ImportEntry(to, e))

\* The first look of the MkdirAll of an entry's directory has answered.
ImportDir(r, a, rest) ==
  MkdirAll(Look("all", Parent(r.n)), a, <<[r EXCEPT !.why = "parent"]>> \o rest)

\* What a call begins with.  The names are the server's.
Program(c, op, n, to, v) ==
  CASE op = "Mkdir" -> Go(<<Look("mkdir", n)>>)
    [] op = "MkdirAll" -> Go(<<Look("all", n)>>)
    [] op = "Create" ->
         Go(<<IF backend = "webdav" /\ Len(n) = 1 THEN Put(n, v)
              ELSE Request("look", "parent", n, <<>>, v)>>)
    [] op = "RemoveAll" ->
         IF n = <<>> THEN Fail("errPermission", <<>>)
         ELSE Go(<<IF backend = "ftp" THEN Look("remove", n) ELSE Act("delete", n)>>)
    [] op = "Rename" ->
         IF backend = "webdav" /\ n = to THEN Go(<<>>)
         ELSE Go(<<Request("move", "", n, to, 0)>>)
    [] op = "Export" -> Go(<<Look("walk", n)>>)
    [] op = "Import" -> Go(Import(n, archive[c]))

After(r, a, rest) ==
  CASE r.why \in {"mkdir", "mkdirAll"} -> Mkdir(r, a, rest)
    [] r.why \in {"opendir", "mkparent", "made"} -> OpenDir(r, a, rest)
    [] r.why \in {"parent", "entry"} -> Create(r, a, rest)
    [] r.why = "remove" -> FtpRemove(r, a, rest)
    [] r.why = "walk" -> Walk(r, a, rest)
    [] r.why = "import" -> ImportDir(r, a, rest)
    [] OTHER -> MkdirAll(r, a, rest)

-----------------------------------------------------------------------------
(* Steps.                                                                  *)

Files(t) == {<<p, t[p]>> : p \in {p \in DOMAIN t : t[p] # Dir}}

\* The tree becomes t, and the files that change are no longer still.
Becomes(t) ==
  /\ tree' = t
  /\ still' = [c \in Clients |-> still[c] \cap Files(Seen(t))]

\* Nothing is created below a file or over a directory, and FTP's server
\* decides about renames onto what is there.
Proper(op, n, to) ==
  LET t == Seen(tree)
      below(p) == p # <<>> /\ KindIn(t, Parent(p)) # "file"
  IN CASE op = "Mkdir" -> n = <<>> \/ below(n)
       [] op = "Create" -> below(n) /\ KindIn(t, n) # "dir"
       [] op = "Rename" ->
            /\ below(to) /\ n # to
            /\ backend = "ftp" => KindIn(t, to) = "missing"
            /\ \A p \in DOMAIN t : Under(n, p) => Rebased(p, n, to) \in Paths
       [] OTHER -> TRUE

Begin(c, op, n, to) ==
  LET v == Written[calls + 1]
      next == Program(c, op, FullName(n), FullName(to), v)
  IN /\ prog[c] = <<>> /\ calls < MaxCalls /\ Proper(op, n, to)
     /\ op # "Rename" => to = <<>>
     /\ op = "Import" => \A e \in archive[c] : n \o e[1] \in Paths
     /\ calls' = calls + 1
     /\ cur' = [cur EXCEPT ![c] = [op |-> op, n |-> n, to |-> to, v |-> v]]
     /\ prog' = [prog EXCEPT ![c] = next.prog]
     /\ ret' = [ret EXCEPT ![c] = next.ret]
     /\ archive' = [archive EXCEPT ![c] = IF op = "Export" THEN {} ELSE @]
     /\ alone' = IF flight = {} /\ \A d \in Clients : prog[d] = <<>> THEN {c} ELSE {}
     /\ before' = IF alone' = {c} THEN tree ELSE <<>>
     /\ still' = [still EXCEPT ![c] = IF op = "Export" THEN Files(Seen(tree)) ELSE {}]
     /\ calm' = (calm /\ op \notin {"RemoveAll", "Rename"})
     /\ UNCHANGED <<backend, tree, flight, faults>>

Continue(c, next) ==
  /\ prog' = [prog EXCEPT ![c] = next.prog]
  /\ ret' = [ret EXCEPT ![c] = next.ret]

Doing(c, kinds) == prog[c] # <<>> /\ Head(prog[c]).do \in kinds

\* What a look is at.
Looked(r) == IF r.why \in {"parent", "mkparent", "import"} THEN Parent(r.n) ELSE r.n

\* Stat, GetEntry: one look at the tree.
Looks(c) ==
  LET r == Head(prog[c]) IN
  /\ Doing(c, {"look"})
  /\ Continue(c, After(r, Kind(Looked(r)), Tail(prog[c])))
  /\ UNCHANGED <<backend, tree, flight, cur, archive, history, calls, faults>>

\* ReadDir of a walk, and the listing of RemoveDirRecur.
Lists(c) ==
  LET r == Head(prog[c])
      rest == Tail(prog[c])
      remove(p) == Act(IF Kind(p) = "dir" THEN "rmlist" ELSE "dele", p)
  IN /\ Doing(c, {"list", "rmlist"})
     /\ Continue(c, CASE r.do = "list" -> WalkEntries(r.n, rest)
                      [] r.do = "rmlist" /\ Kind(r.n) = "dir" ->
                           Go(Each(Children(r.n), remove) \o <<Act("rmd", r.n)>> \o rest)
                      [] OTHER -> Go(<<>>))
     /\ UNCHANGED <<backend, tree, flight, cur, archive, history, calls, faults>>

\* A request that changes the tree.
Does(c) ==
  LET r == Head(prog[c]) IN
  /\ Doing(c, Changes) /\ Possible(r)
  /\ Becomes(Effect(r))
  /\ Continue(c, Go(Tail(prog[c])))
  /\ UNCHANGED <<backend, flight, cur, archive, alone, before, calm, calls, faults>>

\* A request the server refuses: what is gone already counts as removed.
IsRefused(c) ==
  LET r == Head(prog[c]) IN
  /\ Doing(c, Changes) /\ ~Possible(r)
  /\ Continue(c, IF r.do \in {"delete", "dele", "rmd"} THEN Go(<<>>)
                 ELSE Fail(Refused, Tail(prog[c])))
  /\ UNCHANGED <<backend, tree, flight, cur, archive, history, calls, faults>>

\* Write and Close.  A WebDAV PUT goes on after Close; a refused transfer may
\* fail the Write or go unnoticed.
Uploads(c) ==
  LET r == Head(prog[c]) IN
  /\ Doing(c, {"put"})
  /\ \/ /\ Continue(c, Go(Tail(prog[c])))
        /\ IF backend = "webdav"
           THEN /\ flight' = flight \cup {<<r.n, r.v>>}
                /\ UNCHANGED <<tree, still>>
           ELSE Becomes(IF Possible(r) THEN Effect(r) ELSE tree) /\ UNCHANGED flight
     \/ /\ ~Possible(r)
        /\ Continue(c, Fail("err", Tail(prog[c])))
        /\ UNCHANGED <<flight, tree, still>>
  /\ UNCHANGED <<backend, cur, archive, alone, before, calm, calls, faults>>

\* A PUT reaches the server, at any time after its call.
Lands ==
  \E w \in flight :
    LET r == Put(w[1], w[2]) IN
    /\ flight' = flight \ {w}
    /\ Becomes(IF Possible(r) THEN Effect(r) ELSE tree)
    /\ UNCHANGED <<backend, prog, cur, ret, archive, alone, before, calm, calls, faults>>

\* The callback of ExportAsTar for a file listed with contents r.v: the header
\* has the size listed, the data are what is there now.
Exports(c) ==
  LET r == Head(prog[c])
      rel == Rebased(r.n, FullName(cur[c].n), <<>>)
      now == tree[r.n]
      short == Kind(r.n) # "file" \/ Sizes[now] < Sizes[r.v]
  IN /\ Doing(c, {"export"})
     /\ IF short
        THEN /\ Continue(c, Fail("err", Tail(prog[c])))
             /\ UNCHANGED archive
        ELSE /\ Continue(c, Go(Tail(prog[c])))
             /\ archive' = [archive EXCEPT ![c] =
                              @ \cup {<<rel, IF Sizes[now] = Sizes[r.v] THEN now ELSE Cut>>}]
     /\ UNCHANGED <<backend, tree, flight, cur, history, calls, faults>>

\* What Stat makes of a failed look: FTP takes a 450 or a 550 for "not there",
\* whatever it was for; the status of a WebDAV response is an error.
FailedLook == IF backend = "ftp" THEN {"err", "missing"} ELSE {"err"}

\* A request fails, carried out or not.  A failed listing is an empty one to a
\* walk; a failed removal may count as one of what is gone; a failed upload may
\* go unnoticed.
RequestFails(c) ==
  LET r == Head(prog[c])
      rest == Tail(prog[c])
      removal == r.do \in {"rmlist", "dele", "rmd"}
  IN /\ prog[c] # <<>> /\ faults < MaxFaults
     /\ faults' = faults + 1
     /\ alone' = alone \ {c}
     /\ \/ r.do = "look" /\ \E a \in FailedLook : Continue(c, After(r, a, rest))
        \/ r.do \in {"list", "put"} /\ Continue(c, Go(rest))
        \/ removal /\ Continue(c, Go(<<>>))
        \/ r.do \notin {"look", "list"} /\ Continue(c, Fail("err", rest))
     /\ \/ UNCHANGED <<tree, still>>
        \/ r.do \in Changes /\ Possible(r) /\ Becomes(Effect(r))
     /\ UNCHANGED <<backend, flight, cur, archive, before, calm, calls>>

Init ==
  /\ backend \in Backends
  /\ \E t \in Trees :
       LET root == FullName(<<>>)
       IN tree = [p \in Prefixes(root) \cup {FullName(p) : p \in DOMAIN t} |->
                    IF InTree(root, p) THEN t[Rebased(p, root, <<>>)] ELSE Dir]
  /\ flight = {} /\ alone = {} /\ before = <<>> /\ calm = TRUE
  /\ prog = [c \in Clients |-> <<>>]
  /\ cur = [c \in Clients |-> [op |-> "none", n |-> <<>>, to |-> <<>>, v |-> Cut]]
  /\ ret = [c \in Clients |-> "none"]
  /\ archive = [c \in Clients |-> {}]
  /\ still = [c \in Clients |-> {}]
  /\ calls = 0 /\ faults = 0

Next ==
  \/ \E c \in Clients :
       \/ \E op \in Calls, n \in Paths, to \in Paths : Begin(c, op, n, to)
       \/ Looks(c)
       \/ Lists(c)
       \/ Does(c)
       \/ IsRefused(c)
       \/ Uploads(c)
       \/ Exports(c)
       \/ RequestFails(c)
  \/ Lands

Spec == Init /\ [][Next]_vars

-----------------------------------------------------------------------------
(* What the calls promise.                                                 *)

Results == {"none", "ok", "err", "errExist", "errNotExist", "errPermission", "errNotDir"}

\* The server keeps a tree, a call runs as long as it has requests to make, no
\* handler is taken for one, and archives hold contents.
TypeOK ==
  /\ backend \in Backends
  /\ IsTree(tree)
  /\ \A c \in Clients : ret[c] \in Results /\ (prog[c] # <<>> => ret[c] = "none")
  /\ \A c \in Clients : ~Doing(c, {"catch"})
  /\ \A c \in Clients : \A e \in archive[c] : e[2] \in DOMAIN Sizes
  /\ alone \subseteq Clients /\ calls \in 0..MaxCalls /\ faults \in 0..MaxFaults

Exported(t, n) == {<<Rebased(f[1], n, <<>>), f[2]>> : f \in {f \in Files(t) : InTree(n, f[1])}}
Error == Results \ {"none", "ok"}

\* Whether the outcome of a call made in tree t, its result r, the tree t2 and
\* the archive a, is what the test suite asks for (testutil/test_full_fs.go).
Keeps(call, t, r, t2, a) ==
  LET n == call.n to == call.to
      kind(p) == KindIn(t, p)
      is(e, u) == r \in e /\ t2 = u
      put(v) == IF kind(n) # "missing" /\ call.op = "Mkdir" THEN is({"errExist"}, t)
                ELSE IF kind(Parent(n)) = "missing" THEN is({"errNotExist"}, t)
                ELSE is({"ok"}, Placed(t, n, v))
      dirs == {p \in Prefixes(n) : kind(p) = "missing"}
  IN CASE call.op = "Mkdir" -> put(Dir)
       [] call.op = "Create" -> put(call.v)
       [] call.op = "MkdirAll" ->
            IF \E p \in Prefixes(n) : kind(p) = "file" THEN is(Error, t)
            ELSE is({"ok"}, [p \in DOMAIN t \cup dirs |-> IF p \in dirs THEN Dir ELSE t[p]])
       [] call.op = "RemoveAll" ->
            IF FullName(n) = <<>> THEN is({"errPermission"}, t) ELSE is({"ok"}, WithoutTree(t, n))
       [] call.op = "Rename" ->
            IF \/ n = <<>> \/ kind(n) = "missing" \/ Under(n, to)
               \/ kind(to) # "missing" \/ kind(Parent(to)) # "dir"
            THEN is(Error, t) ELSE is({"ok"}, MovedTree(t, n, to))
       [] call.op = "Export" -> is({"ok"}, t) /\ a = Exported(t, n)
       [] call.op = "Import" ->
            (\A e \in a : e[1] # <<>> /\ \A f \in a : e = f \/ ~InTree(e[1], f[1]))
              /\ (\A e \in a : \A p \in Prefixes(Parent(n \o e[1])) : kind(p) # "file")
              /\ (\A e \in a : kind(n \o e[1]) # "dir")
              /\ (\A p \in Prefixes(n) : kind(p) # "file")
            => r = "ok" /\ \A e \in a : n \o e[1] \in DOMAIN t2 /\ t2[n \o e[1]] = e[2]

\* A call that meets no fault and no other call has the result and the tree the
\* test suite asks for, once its upload has landed: with WebDAV and with FTP, for
\* the calls of the interface and for MkdirAll, export and import built on them.
\* Behind a base path RemoveAll of the root is no error but removes the base
\* path, and what is called after that is not bound.
ContractHolds ==
  \A c \in alone :
    prog[c] = <<>> /\ flight = {} /\ KindIn(Seen(before), <<>>) = "dir" =>
      Keeps(cur[c], Seen(before), ret[c], Seen(tree), archive[c])

\* MkdirAll never loses a race: beside any calls that only create, whichever
\* directories others make first, it fails only if a file is in the way
\* (util.go, the second Stat after a failed Mkdir).
MkdirAllNeverLosesRace ==
  \A c \in Clients :
    prog[c] = <<>> /\ cur[c].op = "MkdirAll" /\ calm /\ faults = 0 =>
      ret[c] = "ok" \/ \E p \in Prefixes(cur[c].n) : Kind(FullName(p)) = "file"

\* MkdirAll returns nil only if the directory is there, also when a Stat or a
\* Mkdir fails on the way (util.go, IsDir after each Stat).
MkdirAllOkMeansDirectory ==
  \A c \in Clients :
    ret[c] = "ok" /\ cur[c].op = "MkdirAll" /\ calm => Kind(FullName(cur[c].n)) = "dir"

\* An export that returns nil and met no fault has every file nobody touched
\* meanwhile, whole, however the tree around it changed (util.go, walkDir;
\* exporter.go).
UntouchedFilesExported ==
  \A c \in Clients :
    ret[c] = "ok" /\ cur[c].op = "Export" /\ faults = 0 =>
      \A f \in still[c] :
        InTree(cur[c].n, f[1]) => <<Rebased(f[1], cur[c].n, <<>>), f[2]>> \in archive[c]
=============================================================================
