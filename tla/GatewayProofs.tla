---------------------------- MODULE GatewayProofs ----------------------------
(***************************************************************************)
(* What the fronts keep over any tree of files, with any number of handles *)
(* and any bounds.  The invariant that carries the theorems relates every  *)
(* handle to the file at its path, the READs in flight to the position of  *)
(* their file, what is gone to the files that are open for writing, and    *)
(* every RemoveAll and Rename to what it has still to do: what it is to    *)
(* take along is at its old path or at its new one, and what it is to take *)
(* away is still on its list.                                              *)
(***************************************************************************)
EXTENDS Gateway, TreeProofs

-----------------------------------------------------------------------------
(* The inductive invariant.                                                *)

Row ==
  [st : {"free", "stat", "open", "closing", "done"}, front : {"fuse", "ftp", "dav"},
   n : Paths, mode : {"r", "w"}, new : BOOLEAN, up : {"idle", "running", "failed"},
   pos : Nat, data : Contents, tidy : BOOLEAN, clean : BOOLEAN, last : Nat \X (Blocks \cup {"0x00", "eof", "none"}),
   ret : {"none", "ok", "err", "refused"}]

Owings == UNION {[D -> Contents] : D \in SUBSET FilePaths}

CallRow ==
  [op : {"none", "remove", "rename"}, n : Paths, to : Paths, todo : SUBSET Paths,
   listed : SUBSET DirPaths, due : SUBSET FilePaths, owed : Owings, leaves : SUBSET Paths]

Counted == calls \in 0..MaxCalls /\ faults \in 0..MaxFaults

Typed ==
  /\ IsTree(tree)
  /\ file \in [Handles -> Row]
  /\ reading \in [Handles -> SUBSET (Nat \X BOOLEAN)]
  /\ call \in [Callers -> CallRow]
  /\ DOMAIN promise \subseteq FilePaths /\ gone \subseteq Paths
  /\ Counted

\* What a handle has been through so far.
Phase(h) ==
  LET f == file[h] IN
  /\ f.st = "free" => f.mode = "r"
  /\ f.st # "free" => f.n \in FilePaths
  /\ f.st = "stat" => f.front = "ftp"
  /\ f.st = "done" => f.ret # "none"
  /\ f.front = "dav" => f.mode = "w" /\ f.new
  /\ f.front = "dav" /\ f.ret = "refused" => f.st \in {"closing", "done"}
  /\ f.up # "idle" => f.mode = "w" /\ f.st \in {"open", "closing", "done"}
  /\ f.up = "running" => f.data # <<>>
  /\ f.mode = "w" => Len(f.data) =< MaxBlocks
  /\ reading[h] # {} => f.mode = "r" /\ f.st = "open"

\* A reader has the file as it was opened, unless somebody has changed it, and if
\* it is tidy it has one READ in flight, at the position where it has sought.
Reader(h) ==
  LET f == file[h] IN
  f.mode = "r" =>
    /\ f.st # "free" /\ f.clean => f.n \in DOMAIN tree /\ tree[f.n] = f.data
    /\ f.tidy => /\ \A r, s \in reading[h] : r = s
                 /\ \A r \in reading[h] : r[2] => f.pos = r[1]
                 /\ f.last[2] # "none" => f.last[2] = At(f.data, f.last[1])

\* What a PUT has begun to write is there, unless somebody has changed it.
Put(h) ==
  LET f == file[h] IN
  f.front = "dav" /\ f.clean =>
    /\ f.data # <<>> => f.n \in DOMAIN tree
    /\ f.ret = "refused" => f.data = <<>>

Handle(h) == Phase(h) /\ Reader(h) /\ Put(h)

Writing(h) == file[h].mode = "w" /\ file[h].st # "done"

\* No upload and no rename will put anything at or below p.
Shut(p) ==
  /\ \A h \in Handles : Writing(h) => ~InTree(p, file[h].n)
  /\ \A c \in Callers : ~Aims(call[c], p)

\* What a call works on is what it was asked for.
Shape(k) ==
  /\ \A p \in k.todo \cup k.listed \cup k.due : InTree(k.n, p)
  /\ k.op = "none" => k.todo = {} /\ k.listed = {}
  /\ k.op # "none" => k.n # <<>>
  /\ k.due # {} => k.op = "rename"
  /\ \A p, q \in k.due : p = q
  /\ k.op = "rename" =>
       /\ ~Meets(k.n, k.to)
       /\ \A p \in AtOrBelow(k.n) : NewPlace(k, p) \in IF p \in FilePaths THEN FilePaths ELSE DirPaths

\* A promise that a rename takes along is still on its list, or kept at the new path.
\* Nobody else works there.
Owes(c) ==
  LET k == call[c] IN
  \A p \in DOMAIN k.owed :
    LET q == NewPlace(k, p) IN
    /\ k.op = "rename" /\ InTree(k.n, p)
    /\ p \in DOMAIN tree => tree[p] = k.owed[p]
    /\ \/ p \in DOMAIN tree /\ p \notin k.due /\ \E d \in k.todo : InTree(d, p)
       \/ q \in DOMAIN tree /\ tree[q] = k.owed[p]
    /\ \A o \in Callers \ {c} : ~Works(call[o], p) /\ ~Works(call[o], q)

\* The call has still to remove x.
Pending(k, x) == (\E d \in k.todo : InTree(d, x)) \/ x \in k.due \/ x \in k.listed

\* What a call is to take away is pending, and nobody adds to it.
Takes(k) ==
  \A p \in k.leaves :
    InTree(k.n, p) /\ Shut(p) /\ \A x \in DOMAIN tree : InTree(p, x) => Pending(k, x)

Job(c) == Shape(call[c]) /\ Owes(c) /\ Takes(call[c])

Gone == \A p \in gone : Shut(p) /\ \A x \in DOMAIN tree : ~InTree(p, x)

\* What is promised is there, and no call works on it.
Promised ==
  \A m \in DOMAIN promise :
    m \in DOMAIN tree /\ tree[m] = promise[m] /\ \A c \in Callers : ~Works(call[c], m)

Names == (\A c \in Callers : Job(c)) /\ Gone /\ Promised

IndInv == Typed /\ (\A h \in Handles : Handle(h)) /\ Names

-----------------------------------------------------------------------------
(* Paths and kinds.                                                        *)

LEMMA PathTypes ==
  /\ Paths \subseteq Seq(STRING) /\ FilePaths \subseteq Paths /\ DirPaths \subseteq Paths
  /\ FilePaths \cap DirPaths = {} /\ <<>> \in Paths
BY GatewayAssumption DEF Paths

\* What another path lies below is a path for directories...
LEMMA AboveIsDir ==
  ASSUME NEW p \in Paths, NEW d \in Seq(STRING), InTree(d, p), d # p
  PROVE  d \in DirPaths
<1>1. p \in Seq(STRING)
  BY PathTypes
<1>2. Len(d) <= Len(p) /\ \A i \in 1..Len(d) : p[i] = d[i]
  BY <1>1, InTreeElements
<1>3. Len(d) # Len(p)
  BY <1>1, <1>2, SeqEqual
<1>4. Len(d) \in 0..Len(p) - 1
  BY <1>1, <1>2, <1>3
<1>5. SubSeq(p, 1, Len(d)) = d
  BY DEF InTree
<1> QED BY <1>4, <1>5, GatewayAssumption DEF Paths

\* ...so nothing lies below a path for files.
LEMMA NoneBelowFile ==
  ASSUME NEW p \in FilePaths, NEW q \in Paths, InTree(p, q)
  PROVE  p = q
BY PathTypes, AboveIsDir

\* What a file holds is not what stands for a directory.
LEMMA ContentsNotDir ==
  ASSUME NEW data \in Contents
  PROVE  data # Dir
<1> SUFFICES ASSUME data = <<"directory">> PROVE FALSE
  BY DEF Dir
<1>1. Len(data) = 1 /\ data[1] = "directory"
  OBVIOUS
<1>2. data[1] \in Blocks \cup {"0x00"}
  BY <1>1 DEF Contents
<1> QED BY <1>1, <1>2, GatewayAssumption

\* A path the tree does not have is of no kind.
LEMMA KindMissing ==
  ASSUME IsTree(tree), NEW p \in Paths
  PROVE  Kind(p) = "missing" <=> \A q \in DOMAIN tree : ~InTree(p, q)
<1>1. InTree(p, p)
  BY PathTypes, InOwnTree
<1> QED BY <1>1 DEF Kind

\* A path for a file is a file exactly when the tree has it, and is else missing: nothing
\* is stored below it.
LEMMA KindFile ==
  ASSUME IsTree(tree), NEW p \in FilePaths
  PROVE  Kind(p) = IF p \in DOMAIN tree THEN "file" ELSE "missing"
<1>1. CASE p \in DOMAIN tree
  BY <1>1, PathTypes, ContentsNotDir DEF Kind, IsTree
<1>2. CASE p \notin DOMAIN tree
  <2>1. \A q \in DOMAIN tree : ~InTree(p, q)
    BY <1>2, PathTypes, NoneBelowFile DEF IsTree
  <2> QED BY <1>2, <2>1 DEF Kind
<1> QED BY <1>1, <1>2

\* A path for a directory is never a file.
LEMMA KindDir ==
  ASSUME IsTree(tree), NEW p \in DirPaths
  PROVE  Kind(p) \in {"dir", "missing"}
BY DEF Kind, IsTree

-----------------------------------------------------------------------------
(* What a step leaves alone.                                               *)

\* The handle h is as it was, unless somebody has changed its file.
Kept(h) ==
  /\ file'[h].clean \in BOOLEAN /\ file'[h] = [file[h] EXCEPT !.clean = file'[h].clean]
  /\ reading'[h] = reading[h]
  /\ file'[h].clean =>
       /\ file[h].clean
       /\ file[h].n \in FilePaths \cap DOMAIN tree =>
            file[h].n \in DOMAIN tree' /\ tree'[file[h].n] = tree[file[h].n]

\* What is claimed of a handle carries over to a step that leaves the handle alone and,
\* where it claims something of the tree, the file of the handle too.
LEMMA KeptHandle ==
  ASSUME Typed, NEW h \in Handles, Handle(h), Kept(h)
  PROVE  file'[h] \in Row /\ Handle(h)'
<1> DEFINE f == file[h]
           g == file'[h]
<1>1. f \in Row
  BY DEF Typed
<1>2. /\ g \in Row
      /\ g.st = f.st /\ g.front = f.front /\ g.n = f.n /\ g.mode = f.mode /\ g.new = f.new
      /\ g.up = f.up /\ g.pos = f.pos /\ g.data = f.data /\ g.tidy = f.tidy /\ g.last = f.last
      /\ g.ret = f.ret /\ reading'[h] = reading[h] /\ (g.clean => f.clean)
  BY <1>1 DEF Kept, Row
<1>3. g.clean /\ f.n \in FilePaths \cap DOMAIN tree => f.n \in DOMAIN tree' /\ tree'[f.n] = tree[f.n]
  BY DEF Kept
<1>4. Phase(h)'
  BY <1>2 DEF Handle, Phase
<1>5. Reader(h)'
  <2>1. f.st # "free" => f.n \in FilePaths
    BY DEF Handle, Phase
  <2>2. f.mode = "r" /\ f.st # "free" /\ f.clean => f.n \in DOMAIN tree /\ tree[f.n] = f.data
    BY DEF Handle, Reader
  <2>3. f.mode = "r" /\ f.st # "free" /\ g.clean => f.n \in DOMAIN tree' /\ tree'[f.n] = f.data
    BY <1>2, <1>3, <2>1, <2>2
  <2>4. f.mode = "r" /\ f.tidy =>
          /\ \A r, s \in reading[h] : r = s
          /\ \A r \in reading[h] : r[2] => f.pos = r[1]
          /\ f.last[2] # "none" => f.last[2] = At(f.data, f.last[1])
    BY DEF Handle, Reader
  <2> QED BY <1>2, <2>3, <2>4 DEF Reader
<1>6. Put(h)'
  <2>1. f.front = "dav" /\ f.clean => (f.data # <<>> => f.n \in DOMAIN tree) /\ (f.ret = "refused" => f.data = <<>>)
    BY DEF Handle, Put
  <2>2. f.front = "dav" => f.n \in FilePaths
    BY DEF Handle, Phase
  <2> QED BY <1>2, <1>3, <2>1, <2>2 DEF Put
<1> QED BY <1>2, <1>4, <1>5, <1>6 DEF Handle

\* A handle that is kept is open for writing only if it was, at the same path.
LEMMA KeptWriting ==
  ASSUME Typed, NEW h \in Handles, Kept(h)
  PROVE  file'[h].n = file[h].n /\ Writing(h)' = Writing(h)
BY DEF Kept, Typed, Row, Writing

\* A step that changes one handle, and one that changes none.
LEMMA OthersKept ==
  ASSUME Typed, \A o \in Handles : Handle(o), NEW h \in Handles,
         file' = [o \in Handles |-> file'[o]], \A o \in Handles \ {h} : Kept(o),
         file'[h] \in Row, Handle(h)'
  PROVE  file' \in [Handles -> Row] /\ \A o \in Handles : Handle(o)'
<1>1. ASSUME NEW o \in Handles PROVE file'[o] \in Row /\ Handle(o)'
  <2>1. CASE o = h
    BY <2>1
  <2>2. CASE o # h
    BY <2>2, KeptHandle
  <2> QED BY <2>1, <2>2
<1> QED BY <1>1

\* A step that leaves every handle alone, and every file a handle claims something of,
\* keeps the claims of all handles.
LEMMA AllKept ==
  ASSUME Typed, \A o \in Handles : Handle(o),
         file' = [o \in Handles |-> file'[o]], \A o \in Handles : Kept(o)
  PROVE  file' \in [Handles -> Row] /\ \A o \in Handles : Handle(o)'
<1>1. ASSUME NEW o \in Handles PROVE file'[o] \in Row /\ Handle(o)'
  BY KeptHandle
<1> QED BY <1>1

\* Touched changes only what is said of handles whose file the step may have changed.
LEMMA TouchedKept ==
  ASSUME Typed, NEW S, file' = Touched(S), reading' = reading,
         \A p \in FilePaths \cap DOMAIN tree : p \notin S => p \in DOMAIN tree' /\ tree'[p] = tree[p]
  PROVE  file' = [h \in Handles |-> file'[h]] /\ \A h \in Handles : Kept(h)
<1>1. file' = [h \in Handles |-> [file[h] EXCEPT !.clean = @ /\ file[h].n \notin S]]
  BY DEF Touched
<1>2. file' = [h \in Handles |-> file'[h]]
  BY <1>1
<1> SUFFICES ASSUME NEW h \in Handles PROVE Kept(h)
  BY <1>2
<1>3. file[h] \in Row
  BY DEF Typed
<1>4. file'[h] = [file[h] EXCEPT !.clean = file[h].clean /\ file[h].n \notin S]
  BY <1>1
<1>5. file[h].clean \in BOOLEAN /\ (file'[h].clean <=> file[h].clean /\ file[h].n \notin S)
      /\ file'[h].clean \in BOOLEAN /\ file'[h] = [file[h] EXCEPT !.clean = file'[h].clean]
  BY <1>3, <1>4 DEF Row
<1> QED BY <1>5 DEF Kept

\* A handle stores its file.
LEMMA StoredAt ==
  ASSUME Typed, NEW h \in Handles, file[h].n \in FilePaths, NEW g, NEW data \in Contents,
         Len(data) =< MaxBlocks, Stored(h, data, g), reading' = reading
  PROVE  /\ IsTree(tree')
         /\ DOMAIN tree' = DOMAIN tree \cup {file[h].n} /\ tree'[file[h].n] = data
         /\ \A p \in DOMAIN tree : p # file[h].n => tree'[p] = tree[p]
         /\ file' = [o \in Handles |-> file'[o]] /\ file'[h] = g
         /\ \A o \in Handles \ {h} : Kept(o)
<1> DEFINE n == file[h].n
<1>1. tree' = Placed(tree, n, data)
  BY DEF Stored
<1>2. /\ DOMAIN tree' = DOMAIN tree \cup {n} /\ tree'[n] = data
      /\ \A p \in DOMAIN tree : p # n => tree'[p] = tree[p]
  BY <1>1 DEF Placed
<1>3. IsTree(tree')
  BY <1>2, PathTypes DEF IsTree, Typed
<1>4. file' = [Touched({n}) EXCEPT ![h] = g]
  BY DEF Stored
<1>5. file' = [o \in Handles |-> file'[o]] /\ file'[h] = g
  BY <1>4 DEF Touched
<1>6. ASSUME NEW o \in Handles \ {h} PROVE Kept(o)
  <2>1. file[o] \in Row
    BY DEF Typed
  <2>2. file'[o] = [file[o] EXCEPT !.clean = file[o].clean /\ file[o].n \notin {n}]
    BY <1>4 DEF Touched
  <2>3. file[o].clean \in BOOLEAN /\ (file'[o].clean <=> file[o].clean /\ file[o].n # n)
        /\ file'[o].clean \in BOOLEAN /\ file'[o] = [file[o] EXCEPT !.clean = file'[o].clean]
    BY <2>1, <2>2 DEF Row
  <2> QED BY <1>2, <2>3 DEF Kept
<1> QED BY <1>2, <1>3, <1>5, <1>6

\* A handle changes and the tree does not.
LEMMA OneChanged ==
  ASSUME Typed, NEW h \in Handles, NEW g, file' = [file EXCEPT ![h] = g], tree' = tree,
         \A o \in Handles \ {h} : reading'[o] = reading[o]
  PROVE  /\ file' = [o \in Handles |-> file'[o]] /\ file'[h] = g
         /\ \A o \in Handles \ {h} : Kept(o)
<1>1. file' = [o \in Handles |-> file'[o]] /\ file'[h] = g
  BY DEF Typed
<1>2. ASSUME NEW o \in Handles \ {h} PROVE Kept(o)
  <2>1. file[o] \in Row /\ file'[o] = file[o]
    BY DEF Typed
  <2>2. file'[o].clean \in BOOLEAN /\ file'[o] = [file[o] EXCEPT !.clean = file'[o].clean]
    BY <2>1 DEF Row
  <2> QED BY <2>1, <2>2 DEF Kept
<1> QED BY <1>1, <1>2

-----------------------------------------------------------------------------
(* Calls in progress.                                                      *)

\* The step leaves alone what is at p.
Same(p) == (p \in DOMAIN tree' <=> p \in DOMAIN tree) /\ (p \in DOMAIN tree => tree'[p] = tree[p])

\* It begins no file and no call.
NoNewWriter == \A h \in Handles : Writing(h)' => Writing(h) /\ file'[h].n = file[h].n
NoNewWork ==
  \A c \in Callers : call'[c].op # "none" =>
    call'[c].op = call[c].op /\ call'[c].n = call[c].n /\ call'[c].to = call[c].to

LEMMA ShutKept ==
  ASSUME NoNewWriter, NoNewWork, NEW p, Shut(p)
  PROVE  Shut(p)'
BY DEF NoNewWriter, NoNewWork, Shut, Aims

LEMMA WorksKept ==
  ASSUME NoNewWork, NEW c \in Callers, NEW p, Works(call'[c], p)
  PROVE  Works(call[c], p)
BY DEF NoNewWork, Works

\* The row of a call.
LEMMA CallTypes ==
  ASSUME Typed, NEW c \in Callers
  PROVE  /\ call[c] \in CallRow
         /\ call[c].n \in Paths /\ call[c].to \in Paths
         /\ call[c].n \in Seq(STRING) /\ call[c].to \in Seq(STRING)
         /\ call[c].todo \subseteq Paths /\ call[c].listed \subseteq DirPaths
         /\ call[c].due \subseteq FilePaths /\ call[c].leaves \subseteq Paths
         /\ call[c].owed \in Owings /\ DOMAIN call[c].owed \subseteq FilePaths
<1>1. call[c] \in CallRow
  BY DEF Typed
<1>2. call[c].owed \in Owings
  BY <1>1 DEF CallRow
<1>3. DOMAIN call[c].owed \subseteq FilePaths
  BY <1>2 DEF Owings
<1> QED BY <1>1, <1>2, <1>3, PathTypes DEF CallRow

\* Less of a history of promises is one too.
LEMMA WithoutOwings ==
  ASSUME NEW f \in Owings, NEW S
  PROVE  /\ Without(f, S) \in Owings /\ DOMAIN Without(f, S) = DOMAIN f \ S
         /\ \A p \in DOMAIN f \ S : Without(f, S)[p] = f[p]
<1>1. PICK D \in SUBSET FilePaths : f \in [D -> Contents]
  BY DEF Owings
<1>2. Without(f, S) \in [D \ S -> Contents] /\ D \ S \in SUBSET FilePaths
  BY <1>1 DEF Without
<1> QED BY <1>1, <1>2 DEF Owings, Without

\* A call that has not been made is of its type, and has nothing to do.
LEMMA IdleTypes ==
  /\ Idle \in CallRow /\ Idle.op = "none" /\ Idle.n = <<>> /\ Idle.to = <<>>
  /\ Idle.todo = {} /\ Idle.listed = {} /\ Idle.due = {} /\ DOMAIN Idle.owed = {} /\ Idle.leaves = {}
<1>1. <<>> \in [{} -> Contents] /\ {} \in SUBSET FilePaths
  OBVIOUS
<1>2. <<>> \in Owings
  BY <1>1 DEF Owings
<1> QED BY <1>2, PathTypes DEF Idle, CallRow

LEMMA IdleJob ==
  ASSUME NEW c \in Callers, call'[c] = Idle
  PROVE  Job(c)'
<1>1. Shape(call'[c])
  BY IdleTypes DEF Shape
<1>2. Owes(c)'
  BY IdleTypes DEF Owes
<1>3. Takes(call[c])'
  BY IdleTypes DEF Takes
<1> QED BY <1>1, <1>2, <1>3 DEF Job

\* Two paths that do not meet have nothing below both.
LEMMA Apart ==
  ASSUME NEW n \in Seq(STRING), NEW to \in Seq(STRING), ~Meets(n, to), NEW p \in Seq(STRING),
         InTree(n, p), InTree(to, p)
  PROVE  FALSE
<1>1. Len(n) \in Nat /\ Len(to) \in Nat
  OBVIOUS
<1>2. CASE Len(n) <= Len(to)
  BY <1>2, InTreeLinear DEF Meets
<1>3. CASE Len(to) <= Len(n)
  BY <1>3, InTreeLinear DEF Meets
<1> QED BY <1>1, <1>2, <1>3

\* Where a rename takes what is below its old name.
LEMMA NewPlaces ==
  ASSUME Typed, NEW c \in Callers, Shape(call[c]), call[c].op = "rename"
  PROVE  \A p \in Paths : InTree(call[c].n, p) =>
           /\ NewPlace(call[c], p) \in Paths /\ NewPlace(call[c], p) \in Seq(STRING)
           /\ p \in FilePaths => NewPlace(call[c], p) \in FilePaths
           /\ p \in DirPaths => NewPlace(call[c], p) \in DirPaths
           /\ InTree(call[c].to, NewPlace(call[c], p))
           /\ ~InTree(call[c].n, NewPlace(call[c], p))
           /\ Rebased(NewPlace(call[c], p), call[c].to, call[c].n) = p
<1> DEFINE k == call[c]
<1> SUFFICES ASSUME NEW p \in Paths, InTree(k.n, p)
             PROVE  /\ NewPlace(k, p) \in Paths /\ NewPlace(k, p) \in Seq(STRING)
                    /\ p \in FilePaths => NewPlace(k, p) \in FilePaths
                    /\ p \in DirPaths => NewPlace(k, p) \in DirPaths
                    /\ InTree(k.to, NewPlace(k, p))
                    /\ ~InTree(k.n, NewPlace(k, p))
                    /\ Rebased(NewPlace(k, p), k.to, k.n) = p
  OBVIOUS
<1>1. k.n \in Seq(STRING) /\ k.to \in Seq(STRING) /\ p \in Seq(STRING)
  BY CallTypes, PathTypes
<1>2. ~Meets(k.n, k.to) /\ NewPlace(k, p) \in IF p \in FilePaths THEN FilePaths ELSE DirPaths
  BY DEF Shape, AtOrBelow
<1>3. NewPlace(k, p) \in Seq(STRING) /\ InTree(k.to, NewPlace(k, p))
  BY <1>1, RebasedInTree DEF NewPlace
<1>4. Rebased(NewPlace(k, p), k.to, k.n) = p
  BY <1>1, RebasedBack DEF NewPlace
<1>5. ~InTree(k.n, NewPlace(k, p))
  BY <1>1, <1>2, <1>3, Apart
<1> QED BY <1>2, <1>3, <1>4, <1>5, PathTypes

\* A call that goes on where it is, with what it owes left alone.
Abides(c) ==
  /\ call'[c] \in CallRow
  /\ call'[c].op = call[c].op /\ call'[c].n = call[c].n /\ call'[c].to = call[c].to
  /\ call'[c].todo = call[c].todo /\ call'[c].listed = call[c].listed /\ call'[c].due = call[c].due
  /\ \A p \in DOMAIN call'[c].owed :
       /\ p \in DOMAIN call[c].owed /\ call'[c].owed[p] = call[c].owed[p]
       /\ Same(p) /\ Same(NewPlace(call[c], p))
       /\ \A o \in Callers \ {c} : ~Works(call'[o], p) /\ ~Works(call'[o], NewPlace(call[c], p))
  /\ \A p \in call'[c].leaves :
       /\ p \in call[c].leaves /\ Shut(p)'
       /\ \A x \in DOMAIN tree' : InTree(p, x) => x \in DOMAIN tree

LEMMA CallKept ==
  ASSUME Typed, NEW c \in Callers, Job(c), Abides(c)
  PROVE  Job(c)'
<1> DEFINE k == call[c]
           g == call'[c]
<1>1. /\ g.op = k.op /\ g.n = k.n /\ g.to = k.to /\ g.todo = k.todo /\ g.listed = k.listed /\ g.due = k.due
  BY DEF Abides
<1>2. Shape(g)
  BY <1>1 DEF Job, Shape, NewPlace
<1>3. Owes(c)'
  <2> SUFFICES ASSUME NEW p \in DOMAIN g.owed
               PROVE  /\ g.op = "rename" /\ InTree(g.n, p)
                      /\ p \in DOMAIN tree' => tree'[p] = g.owed[p]
                      /\ \/ p \in DOMAIN tree' /\ p \notin g.due /\ \E d \in g.todo : InTree(d, p)
                         \/ NewPlace(g, p) \in DOMAIN tree' /\ tree'[NewPlace(g, p)] = g.owed[p]
                      /\ \A o \in Callers \ {c} : ~Works(call'[o], p) /\ ~Works(call'[o], NewPlace(g, p))
    BY DEF Owes
  <2>1. /\ p \in DOMAIN k.owed /\ g.owed[p] = k.owed[p] /\ Same(p) /\ Same(NewPlace(k, p))
        /\ \A o \in Callers \ {c} : ~Works(call'[o], p) /\ ~Works(call'[o], NewPlace(k, p))
    BY DEF Abides
  <2>2. /\ k.op = "rename" /\ InTree(k.n, p)
        /\ p \in DOMAIN tree => tree[p] = k.owed[p]
        /\ \/ p \in DOMAIN tree /\ p \notin k.due /\ \E d \in k.todo : InTree(d, p)
           \/ NewPlace(k, p) \in DOMAIN tree /\ tree[NewPlace(k, p)] = k.owed[p]
    BY <2>1 DEF Job, Owes
  <2>3. NewPlace(g, p) = NewPlace(k, p)
    BY <1>1 DEF NewPlace
  <2> HIDE DEF g, k
  <2> QED BY <1>1, <2>1, <2>2, <2>3 DEF Same
<1>4. Takes(call[c])'
  <2> SUFFICES ASSUME NEW p \in g.leaves
               PROVE  /\ InTree(g.n, p) /\ Shut(p)'
                      /\ \A x \in DOMAIN tree' : InTree(p, x) => Pending(g, x)
    BY DEF Takes
  <2>1. p \in k.leaves /\ Shut(p)' /\ \A x \in DOMAIN tree' : InTree(p, x) => x \in DOMAIN tree
    BY DEF Abides
  <2>2. InTree(k.n, p) /\ \A x \in DOMAIN tree : InTree(p, x) => Pending(k, x)
    BY <2>1 DEF Job, Takes
  <2> QED BY <1>1, <2>1, <2>2 DEF Pending
<1> QED BY <1>2, <1>3, <1>4 DEF Job

\* What is gone stays gone, and what is promised is kept, by a step that adds nothing to
\* the one and leaves the other alone, or promises what is there.
LEMMA HistoryKept ==
  ASSUME \A p \in gone' : Shut(p)' /\ \A x \in DOMAIN tree' : InTree(p, x) => x \in DOMAIN tree,
         gone' \subseteq gone, Gone, Promised,
         \A m \in DOMAIN promise' :
           \/ /\ m \in DOMAIN promise /\ promise'[m] = promise[m] /\ Same(m)
              /\ \A c \in Callers : ~Works(call'[c], m)
           \/ /\ m \in DOMAIN tree' /\ tree'[m] = promise'[m]
              /\ \A c \in Callers : ~Works(call'[c], m)
  PROVE  Gone' /\ Promised'
<1>1. Gone'
  BY DEF Gone
<1>2. Promised'
  BY DEF Promised, Same
<1> QED BY <1>1, <1>2

\* The call g is k with shorter histories.
Shortened(g, k, S, L) ==
  /\ g \in CallRow
  /\ g.op = k.op /\ g.n = k.n /\ g.to = k.to
  /\ g.todo = k.todo /\ g.listed = k.listed /\ g.due = k.due
  /\ g.leaves = k.leaves \ L
  /\ \A p \in DOMAIN g.owed :
       /\ p \in DOMAIN k.owed /\ g.owed[p] = k.owed[p]
       /\ p \notin S /\ NewPlace(k, p) \notin S

LEMMA DisturbedCall ==
  ASSUME Typed, NEW c \in Callers, NEW S, NEW L
  PROVE  Shortened(Disturbed(call[c], S, L), call[c], S, L)
<1> DEFINE k == call[c]
           g == Disturbed(k, S, L)
           out == {p \in Paths : p \in S \/ NewPlace(k, p) \in S}
           owed == Without(k.owed, out)
           leaves == k.leaves \ L
<1>1. k \in CallRow /\ k.owed \in Owings /\ DOMAIN k.owed \subseteq FilePaths /\ k.leaves \subseteq Paths
  BY CallTypes
<1>2. owed \in Owings /\ DOMAIN owed = DOMAIN k.owed \ out /\ \A p \in DOMAIN k.owed \ out : owed[p] = k.owed[p]
  BY <1>1, WithoutOwings
<1>3. g = [k EXCEPT !.owed = owed, !.leaves = leaves]
  BY DEF Disturbed
<1>4. leaves \subseteq Paths
  BY <1>1
<1>5. \A p \in DOMAIN owed : p \in DOMAIN k.owed /\ owed[p] = k.owed[p] /\ p \notin S /\ NewPlace(k, p) \notin S
  BY <1>1, <1>2, PathTypes
<1>6. leaves = k.leaves \ L
  OBVIOUS
<1> HIDE DEF g, owed, leaves
<1>7. /\ g \in CallRow /\ g.op = k.op /\ g.n = k.n /\ g.to = k.to
      /\ g.todo = k.todo /\ g.listed = k.listed /\ g.due = k.due /\ g.leaves = leaves /\ g.owed = owed
  BY <1>1, <1>2, <1>3, <1>4 DEF CallRow
<1> QED BY <1>5, <1>6, <1>7 DEF Shortened, g

\* A step of a handle or of Mkdir keeps what is said of the calls, what is gone and what
\* is promised: it changes the paths in S, and adds only where the paths in L lie above.
LEMMA DisturbedKeeps ==
  ASSUME Typed, Names, NEW S, NEW L, call' = AllDisturbed(S, L),
         \A p \in FilePaths : p \notin S => Same(p),
         \A p \in Paths : p \notin L /\ Shut(p) => Shut(p)',
         \A p \in Paths, x \in DOMAIN tree' : p \notin L /\ Shut(p) /\ InTree(p, x) => x \in DOMAIN tree,
         gone' \subseteq gone \ L,
         \A m \in DOMAIN promise' :
           \/ m \in DOMAIN promise /\ promise'[m] = promise[m] /\ Same(m)
           \/ /\ m \in DOMAIN tree' /\ tree'[m] = promise'[m]
              /\ \A c \in Callers : ~Works(call[c], m)
  PROVE  call' \in [Callers -> CallRow] /\ Names'
<1>1. ASSUME NEW c \in Callers
      PROVE  /\ call'[c] \in CallRow
             /\ call'[c].op = call[c].op /\ call'[c].n = call[c].n /\ call'[c].to = call[c].to
             /\ call'[c].todo = call[c].todo /\ call'[c].listed = call[c].listed
             /\ call'[c].due = call[c].due /\ call'[c].leaves = call[c].leaves \ L
             /\ \A p \in DOMAIN call'[c].owed :
                  /\ p \in DOMAIN call[c].owed /\ call'[c].owed[p] = call[c].owed[p]
                  /\ p \notin S /\ NewPlace(call[c], p) \notin S
  <2>1. call'[c] = Disturbed(call[c], S, L)
    BY DEF AllDisturbed
  <2>2. Shortened(call'[c], call[c], S, L)
    BY <2>1, DisturbedCall
  <2> QED BY <2>2 DEF Shortened
<1>2. call' = [c \in Callers |-> call'[c]]
  BY DEF AllDisturbed
<1>3. \A c \in Callers : \A p : Works(call'[c], p) <=> Works(call[c], p)
  BY <1>1 DEF Works
<1>4. ASSUME NEW c \in Callers PROVE Job(c)'
  <2>1. Job(c)
    BY DEF Names
  <2>2. ASSUME NEW p \in DOMAIN call'[c].owed
        PROVE  /\ p \in DOMAIN call[c].owed /\ call'[c].owed[p] = call[c].owed[p]
               /\ Same(p) /\ Same(NewPlace(call[c], p))
               /\ \A o \in Callers \ {c} : ~Works(call'[o], p) /\ ~Works(call'[o], NewPlace(call[c], p))
    <3>1. /\ p \in DOMAIN call[c].owed /\ call'[c].owed[p] = call[c].owed[p]
          /\ p \notin S /\ NewPlace(call[c], p) \notin S
      BY <1>1, <2>2
    <3>2. /\ call[c].op = "rename" /\ InTree(call[c].n, p)
          /\ \A o \in Callers \ {c} : ~Works(call[o], p) /\ ~Works(call[o], NewPlace(call[c], p))
      BY <2>1, <3>1 DEF Job, Owes
    <3>3. p \in FilePaths /\ p \in Paths
      BY <3>1, CallTypes, PathTypes
    <3>4. NewPlace(call[c], p) \in FilePaths
      BY <2>1, <3>2, <3>3, NewPlaces DEF Job
    <3> QED BY <1>3, <3>1, <3>2, <3>3, <3>4
  <2>3. ASSUME NEW p \in call'[c].leaves
        PROVE  /\ p \in call[c].leaves /\ Shut(p)'
               /\ \A x \in DOMAIN tree' : InTree(p, x) => x \in DOMAIN tree
    <3>1. p \in call[c].leaves /\ p \notin L
      BY <1>1, <2>3
    <3>2. p \in Paths
      BY <3>1, CallTypes
    <3>3. Shut(p)
      BY <2>1, <3>1 DEF Job, Takes
    <3> QED BY <3>1, <3>2, <3>3
  <2>4. Abides(c)
    BY <1>1, <2>2, <2>3 DEF Abides
  <2> QED BY <2>1, <2>4, CallKept
<1>5. Gone' /\ Promised'
  <2>1. ASSUME NEW p \in gone'
        PROVE  Shut(p)' /\ \A x \in DOMAIN tree' : InTree(p, x) => x \in DOMAIN tree
    <3>1. p \in gone /\ p \in Paths /\ p \notin L
      BY DEF Typed
    <3>2. Shut(p)
      BY <3>1 DEF Names, Gone
    <3> QED BY <3>1, <3>2
  <2>2. \A m \in DOMAIN promise : \A c \in Callers : ~Works(call'[c], m)
    BY <1>3 DEF Names, Promised
  <2>3. \A m \in DOMAIN promise' :
          \/ /\ m \in DOMAIN promise /\ promise'[m] = promise[m] /\ Same(m)
             /\ \A c \in Callers : ~Works(call'[c], m)
          \/ /\ m \in DOMAIN tree' /\ tree'[m] = promise'[m]
             /\ \A c \in Callers : ~Works(call'[c], m)
    BY <1>3, <2>2
  <2> QED BY <2>1, <2>3, HistoryKept DEF Names
<1>6. call' \in [Callers -> CallRow]
  BY <1>1, <1>2
<1> QED BY <1>4, <1>5, <1>6 DEF Names

\* A step that changes no name and begins no file for writing.
LEMMA QuietNames ==
  ASSUME Typed, Names, UNCHANGED <<tree, call, promise, gone>>, NoNewWriter
  PROVE  Names'
<1>1. NoNewWork
  BY DEF NoNewWork
<1>2. \A p : Shut(p) => Shut(p)'
  BY <1>1, ShutKept
<1>3. ASSUME NEW c \in Callers PROVE Job(c)'
  <2>1. Job(c)
    BY DEF Names
  <2>2. Abides(c)
    BY <1>2, <2>1, CallTypes DEF Abides, Job, Owes, Takes, Same
  <2> QED BY <2>1, <2>2, CallKept
<1>4. Gone' /\ Promised'
  <2>1. \A p \in gone' : Shut(p)' /\ \A x \in DOMAIN tree' : InTree(p, x) => x \in DOMAIN tree
    BY <1>2 DEF Names, Gone
  <2>2. \A m \in DOMAIN promise' :
          /\ m \in DOMAIN promise /\ promise'[m] = promise[m] /\ Same(m)
          /\ \A c \in Callers : ~Works(call'[c], m)
    BY DEF Names, Promised, Same
  <2> QED BY <2>1, <2>2, HistoryKept DEF Names
<1> QED BY <1>3, <1>4 DEF Names

\* A request of c changes what is at x, where c works, and adds something only where it
\* aims: the other calls, what is gone and what is promised are as they were.
LEMMA OthersAbide ==
  ASSUME Typed, IsTree(tree'), Names, NEW c \in Callers, NEW k \in CallRow, call' = [call EXCEPT ![c] = k],
         k.op # "none" => k.op = call[c].op /\ k.n = call[c].n /\ k.to = call[c].to,
         NoNewWriter, UNCHANGED <<promise, gone>>,
         NEW x \in Paths, Works(call[c], x), \A y : y # x => Same(y),
         x \in DOMAIN tree' /\ x \notin DOMAIN tree => call[c].op = "rename" /\ InTree(call[c].to, x)
  PROVE  /\ call' \in [Callers -> CallRow] /\ call'[c] = k
         /\ \A o \in Callers \ {c} : Job(o)'
         /\ Gone' /\ Promised'
         /\ \A p \in Paths : Shut(p) =>
              Shut(p)' /\ \A y \in DOMAIN tree' : InTree(p, y) => y \in DOMAIN tree
         /\ \A o \in Callers \ {c} : call'[o] = call[o]
<1>1. /\ call' \in [Callers -> CallRow] /\ call'[c] = k
      /\ \A o \in Callers \ {c} : call'[o] = call[o]
  BY DEF Typed
<1>2. NoNewWork
  BY <1>1 DEF NoNewWork
<1>3. ASSUME NEW p \in Paths, Shut(p)
      PROVE  Shut(p)' /\ \A y \in DOMAIN tree' : InTree(p, y) => y \in DOMAIN tree
  <2>1. Shut(p)'
    BY <1>2, <1>3, ShutKept
  <2>2. ASSUME NEW y \in DOMAIN tree', InTree(p, y), y \notin DOMAIN tree PROVE FALSE
    <3>1. y = x
      BY <2>2 DEF Same
    <3>2. call[c].op = "rename" /\ InTree(call[c].to, x) /\ InTree(p, x)
      BY <2>2, <3>1
    <3>3. p \in Seq(STRING) /\ x \in Seq(STRING) /\ call[c].to \in Seq(STRING)
      BY PathTypes, CallTypes
    <3>4. Meets(p, call[c].to)
      BY <3>2, <3>3, Apart
    <3> QED BY <1>3, <3>2, <3>4 DEF Shut, Aims
  <2> QED BY <2>1, <2>2
<1>4. ASSUME NEW o \in Callers \ {c} PROVE Job(o)'
  <2>1. Job(o) /\ call'[o] = call[o]
    BY <1>1 DEF Names
  <2>2. ASSUME NEW p \in DOMAIN call[o].owed
        PROVE  /\ Same(p) /\ Same(NewPlace(call[o], p))
               /\ \A a \in Callers \ {o} : ~Works(call'[a], p) /\ ~Works(call'[a], NewPlace(call[o], p))
    <3>1. \A a \in Callers \ {o} : ~Works(call[a], p) /\ ~Works(call[a], NewPlace(call[o], p))
      BY <2>1 DEF Job, Owes
    <3>2. p # x /\ NewPlace(call[o], p) # x
      BY <3>1
    <3>3. \A a \in Callers \ {o} : ~Works(call'[a], p) /\ ~Works(call'[a], NewPlace(call[o], p))
      BY <1>2, <3>1, WorksKept
    <3> QED BY <3>2, <3>3
  <2>3. ASSUME NEW p \in call[o].leaves
        PROVE  Shut(p)' /\ \A y \in DOMAIN tree' : InTree(p, y) => y \in DOMAIN tree
    <3>1. p \in Paths
      BY CallTypes
    <3>2. Shut(p)
      BY <2>1 DEF Job, Takes
    <3> QED BY <1>3, <3>1, <3>2
  <2>4. Abides(o)
    BY <2>1, <2>2, <2>3, CallTypes DEF Abides
  <2> QED BY <2>1, <2>4, CallKept
<1>5. Gone' /\ Promised'
  <2>1. ASSUME NEW p \in gone'
        PROVE  Shut(p)' /\ \A y \in DOMAIN tree' : InTree(p, y) => y \in DOMAIN tree
    <3>1. p \in gone /\ p \in Paths
      BY DEF Typed
    <3>2. Shut(p)
      BY <3>1 DEF Names, Gone
    <3> QED BY <1>3, <3>1, <3>2
  <2>2. ASSUME NEW m \in DOMAIN promise'
        PROVE  /\ m \in DOMAIN promise /\ promise'[m] = promise[m] /\ Same(m)
               /\ \A a \in Callers : ~Works(call'[a], m)
    <3>1. m \in DOMAIN promise /\ \A a \in Callers : ~Works(call[a], m)
      BY DEF Names, Promised
    <3>2. m # x
      BY <3>1
    <3>3. \A a \in Callers : ~Works(call'[a], m)
      BY <1>2, <3>1, WorksKept
    <3> QED BY <3>1, <3>2, <3>3
  <2> QED BY <2>1, <2>2, HistoryKept DEF Names
<1> QED BY <1>1, <1>3, <1>4, <1>5

\* A request of a call keeps the invariant if it does so for the call itself when it
\* succeeds.
LEMMA RequestsKeep ==
  ASSUME IndInv, NEW c \in Callers, NEW t, IsTree(t), NEW S, NEW k \in CallRow, Requests(c, t, S, k),
         k.op = call[c].op, k.n = call[c].n, k.to = call[c].to,
         NEW x \in Paths, Works(call[c], x), x \in FilePaths => t = tree \/ x \in S,
         \A y : y # x => (y \in DOMAIN t <=> y \in DOMAIN tree) /\ (y \in DOMAIN tree => t[y] = tree[y]),
         x \in DOMAIN t /\ x \notin DOMAIN tree => call[c].op = "rename" /\ InTree(call[c].to, x),
         /\ tree' = t /\ call'[c] = k
         /\ \A o \in Callers \ {c} : call'[o] = call[o]
         /\ \A p \in Paths : Shut(p) =>
              Shut(p)' /\ \A y \in DOMAIN tree' : InTree(p, y) => y \in DOMAIN tree
         => Job(c)'
  PROVE  IndInv'
<1> USE DEF IndInv
<1>1. /\ UNCHANGED <<reading, promise, gone, calls>>
      /\ \/ tree' = t /\ file' = Touched(S)
         \/ UNCHANGED <<tree, file>>
      /\ \/ tree' = t /\ call' = [call EXCEPT ![c] = k] /\ UNCHANGED faults
         \/ call' = [call EXCEPT ![c] = Idle] /\ faults < MaxFaults /\ faults' = faults + 1
  BY DEF Requests
<1>2. IsTree(tree') /\ \A y : y # x => Same(y)
  BY <1>1 DEF Typed, Same, IsTree
<1>3. file' = [h \in Handles |-> file'[h]] /\ \A h \in Handles : Kept(h)
  <2>1. CASE tree' = t /\ file' = Touched(S)
    <3>1. \A p \in FilePaths \cap DOMAIN tree : p \notin S => p \in DOMAIN tree' /\ tree'[p] = tree[p]
      BY <2>1
    <3> QED BY <1>1, <2>1, <3>1, TouchedKept
  <2>2. CASE UNCHANGED <<tree, file>>
    <3>1. file' = [h \in Handles |-> file'[h]]
      BY <2>2 DEF Typed
    <3>2. ASSUME NEW h \in Handles PROVE Kept(h)
      <4>1. file[h] \in Row /\ file'[h] = file[h] /\ reading'[h] = reading[h]
        BY <1>1, <2>2 DEF Typed
      <4>2. file'[h].clean \in BOOLEAN /\ file'[h] = [file[h] EXCEPT !.clean = file'[h].clean]
        BY <4>1 DEF Row
      <4> QED BY <2>2, <4>1, <4>2 DEF Kept
    <3> QED BY <3>1, <3>2
  <2> QED BY <1>1, <2>1, <2>2
<1>4. file' \in [Handles -> Row] /\ \A h \in Handles : Handle(h)'
  BY <1>3, AllKept
<1>5. NoNewWriter
  BY <1>3, KeptWriting DEF NoNewWriter
<1>6. Counted'
  BY <1>1, GatewayAssumption DEF Typed, Counted
<1>7. x \in DOMAIN tree' /\ x \notin DOMAIN tree => call[c].op = "rename" /\ InTree(call[c].to, x)
  BY <1>1
<1>8. CASE tree' = t /\ call' = [call EXCEPT ![c] = k]
  <2>1. /\ call' \in [Callers -> CallRow] /\ call'[c] = k
        /\ \A o \in Callers \ {c} : Job(o)'
        /\ Gone' /\ Promised'
        /\ \A p \in Paths : Shut(p) =>
             Shut(p)' /\ \A y \in DOMAIN tree' : InTree(p, y) => y \in DOMAIN tree
        /\ \A o \in Callers \ {c} : call'[o] = call[o]
    BY <1>1, <1>2, <1>5, <1>7, <1>8, OthersAbide
  <2>2. Job(c)'
    BY <1>8, <2>1
  <2>3. Names'
    BY <2>1, <2>2 DEF Names
  <2>4. Typed'
    BY <1>1, <1>2, <1>4, <1>6, <2>1 DEF Typed
  <2> QED BY <1>4, <2>3, <2>4
<1>9. CASE call' = [call EXCEPT ![c] = Idle]
  <2>1. Idle \in CallRow /\ Idle.op = "none"
    BY IdleTypes
  <2>2. /\ call' \in [Callers -> CallRow] /\ call'[c] = Idle
        /\ \A o \in Callers \ {c} : Job(o)'
        /\ Gone' /\ Promised'
    BY <1>1, <1>2, <1>5, <1>7, <1>9, <2>1, OthersAbide
  <2>3. Job(c)'
    BY <2>2, IdleJob
  <2>4. Names'
    BY <2>2, <2>3 DEF Names
  <2>5. Typed'
    BY <1>1, <1>2, <1>4, <1>6, <2>2 DEF Typed
  <2> QED BY <1>4, <2>4, <2>5
<1> QED BY <1>1, <1>8, <1>9

\* A call after a request that succeeded: where what it owes is, and what is pending.
LEMMA OwnJob ==
  ASSUME Typed, NEW c \in Callers, Job(c), NEW g, call'[c] = g,
         g.op = call[c].op, g.n = call[c].n, g.to = call[c].to,
         g.owed = call[c].owed, g.leaves = call[c].leaves, Shape(g),
         \A o \in Callers \ {c} : call'[o] = call[o],
         \A p \in Paths : Shut(p) =>
           Shut(p)' /\ \A y \in DOMAIN tree' : InTree(p, y) => y \in DOMAIN tree,
         \A m \in DOMAIN call[c].owed :
           /\ m \in DOMAIN tree' => tree'[m] = call[c].owed[m]
           /\ \/ m \in DOMAIN tree' /\ m \notin g.due /\ \E d \in g.todo : InTree(d, m)
              \/ /\ NewPlace(call[c], m) \in DOMAIN tree'
                 /\ tree'[NewPlace(call[c], m)] = call[c].owed[m],
         \A y \in DOMAIN tree' : y \in DOMAIN tree /\ Pending(call[c], y) => Pending(g, y)
  PROVE  Job(c)'
<1> DEFINE k == call[c]
<1>1. \A p : NewPlace(g, p) = NewPlace(k, p)
  BY DEF NewPlace
<1>2. Owes(c)'
  <2> SUFFICES ASSUME NEW p \in DOMAIN g.owed
               PROVE  /\ g.op = "rename" /\ InTree(g.n, p)
                      /\ p \in DOMAIN tree' => tree'[p] = g.owed[p]
                      /\ \/ p \in DOMAIN tree' /\ p \notin g.due /\ \E d \in g.todo : InTree(d, p)
                         \/ NewPlace(g, p) \in DOMAIN tree' /\ tree'[NewPlace(g, p)] = g.owed[p]
                      /\ \A o \in Callers \ {c} : ~Works(call'[o], p) /\ ~Works(call'[o], NewPlace(g, p))
    BY DEF Owes
  <2>1. /\ k.op = "rename" /\ InTree(k.n, p)
        /\ \A o \in Callers \ {c} : ~Works(call[o], p) /\ ~Works(call[o], NewPlace(k, p))
    BY DEF Job, Owes
  <2> QED BY <1>1, <2>1
<1>3. Takes(call[c])'
  <2> SUFFICES ASSUME NEW p \in g.leaves
               PROVE  /\ InTree(g.n, p) /\ Shut(p)'
                      /\ \A x \in DOMAIN tree' : InTree(p, x) => Pending(g, x)
    BY DEF Takes
  <2>1. InTree(k.n, p) /\ Shut(p) /\ \A x \in DOMAIN tree : InTree(p, x) => Pending(k, x)
    BY DEF Job, Takes
  <2>2. p \in Paths
    BY CallTypes
  <2> QED BY <2>1, <2>2
<1> QED BY <1>2, <1>3 DEF Job

\* What an operation on a call sees of it.
LEMMA JobFacts ==
  ASSUME Typed, Names, NEW c \in Callers
  PROVE  /\ Job(c) /\ Shape(call[c])
         /\ \A p \in call[c].todo \cup call[c].listed \cup call[c].due :
              p \in Paths /\ InTree(call[c].n, p) /\ call[c].op # "none" /\ Works(call[c], p)
         /\ \A m \in DOMAIN call[c].owed : m \in FilePaths /\ m \in Paths /\ InTree(call[c].n, m)
              /\ call[c].op = "rename"
<1>1. Job(c) /\ Shape(call[c])
  BY DEF Names, Job
<1>2. \A p \in call[c].todo \cup call[c].listed \cup call[c].due :
              p \in Paths /\ InTree(call[c].n, p) /\ call[c].op # "none" /\ Works(call[c], p)
  BY <1>1, CallTypes, PathTypes DEF Shape, Works
<1>3. \A m \in DOMAIN call[c].owed : m \in FilePaths /\ m \in Paths /\ InTree(call[c].n, m)
              /\ call[c].op = "rename"
  BY <1>1, CallTypes, PathTypes DEF Job, Owes
<1> QED BY <1>1, <1>2, <1>3

\* The CopyObject of a rename keeps the invariant: what is owed of the file is at its new
\* path from then on, and the file is due to be removed.
LEMMA CopyKeeps ==
  ASSUME IndInv, NEW c \in Callers, NEW p \in call[c].todo, Copy(c, p)
  PROVE  IndInv'
<1> DEFINE k == call[c]
           q == NewPlace(k, p)
           t == Placed(tree, q, tree[p])
           g == [k EXCEPT !.todo = @ \ {p}, !.due = {p}]
<1> USE DEF IndInv
<1>1. /\ k.op = "rename" /\ p \in FilePaths /\ p \in DOMAIN tree /\ k.due = {}
      /\ Requests(c, t, {q}, g)
  BY DEF Copy
<1>2. Job(c) /\ Shape(k) /\ InTree(k.n, p) /\ p \in Paths
  BY JobFacts
<1>3. /\ g \in CallRow /\ g.op = k.op /\ g.n = k.n /\ g.to = k.to /\ g.todo = k.todo \ {p}
      /\ g.listed = k.listed /\ g.due = {p} /\ g.owed = k.owed /\ g.leaves = k.leaves
  BY <1>1, CallTypes DEF CallRow
<1>4. q \in FilePaths /\ q \in Paths /\ InTree(k.to, q) /\ ~InTree(k.n, q)
  BY <1>1, <1>2, NewPlaces
<1>5. /\ DOMAIN t = DOMAIN tree \cup {q} /\ t[q] = tree[p]
      /\ \A y : y # q => (y \in DOMAIN t <=> y \in DOMAIN tree) /\ (y \in DOMAIN tree => t[y] = tree[y])
  BY DEF Placed
<1> HIDE DEF g, t, q
<1>6. IsTree(t)
  BY <1>1, <1>4, <1>5, PathTypes DEF IsTree, Typed
<1>7. Works(k, q) /\ q \in {q}
  BY <1>1, <1>4 DEF Works
<1>8. ASSUME tree' = t, call'[c] = g, \A o \in Callers \ {c} : call'[o] = call[o],
             \A x \in Paths : Shut(x) =>
               Shut(x)' /\ \A y \in DOMAIN tree' : InTree(x, y) => y \in DOMAIN tree
      PROVE  Job(c)'
  <2>1. Shape(g)
    BY <1>1, <1>2, <1>3 DEF Shape, NewPlace
  <2>2. ASSUME NEW m \in DOMAIN k.owed
        PROVE  /\ m \in DOMAIN tree' => tree'[m] = k.owed[m]
               /\ \/ m \in DOMAIN tree' /\ m \notin g.due /\ \E d \in g.todo : InTree(d, m)
                  \/ NewPlace(k, m) \in DOMAIN tree' /\ tree'[NewPlace(k, m)] = k.owed[m]
    <3>1. m \in FilePaths /\ m \in Paths /\ InTree(k.n, m)
      BY JobFacts
    <3>2. /\ m \in DOMAIN tree => tree[m] = k.owed[m]
          /\ \/ m \in DOMAIN tree /\ m \notin k.due /\ \E d \in k.todo : InTree(d, m)
             \/ NewPlace(k, m) \in DOMAIN tree /\ tree[NewPlace(k, m)] = k.owed[m]
      BY <1>2 DEF Job, Owes
    <3>3. m # q
      BY <1>4, <3>1
    <3>4. CASE m = p
      BY <1>1, <1>5, <1>8, <3>2, <3>3, <3>4 DEF q
    <3>5. CASE m # p
      <4>1. NewPlace(k, m) # q
        <5>1. Rebased(NewPlace(k, m), k.to, k.n) = m
          BY <1>1, <1>2, <3>1, NewPlaces
        <5>2. Rebased(q, k.to, k.n) = p
          BY <1>1, <1>2, NewPlaces DEF q
        <5> QED BY <3>5, <5>1, <5>2
      <4>2. ~InTree(p, m)
        BY <1>1, <3>1, <3>5, NoneBelowFile
      <4> QED BY <1>3, <1>5, <1>8, <3>2, <3>3, <3>5, <4>1, <4>2
    <3> QED BY <3>4, <3>5
  <2>3. ASSUME NEW y \in DOMAIN tree', y \in DOMAIN tree, Pending(k, y) PROVE Pending(g, y)
    <3>1. y \in Paths
      BY <2>3, PathTypes DEF Typed, IsTree
    <3>2. InTree(p, y) => y = p
      BY <1>1, <3>1, NoneBelowFile
    <3> QED BY <1>1, <1>3, <2>3, <3>2 DEF Pending
  <2> QED BY <1>2, <1>3, <1>8, <2>1, <2>2, <2>3, OwnJob
<1>9. q \in DOMAIN t /\ q \notin DOMAIN tree => k.op = "rename" /\ InTree(k.to, q)
  BY <1>1, <1>4
<1> QED BY <1>1, <1>3, <1>4, <1>5, <1>6, <1>7, <1>8, <1>9, RequestsKeep

-----------------------------------------------------------------------------
(* The requests of a call.                                                 *)

\* What lies below a directory lies at or below one of its entries.
LEMMA ChildOnTheWay ==
  ASSUME Typed, NEW d \in DirPaths, NEW x \in DOMAIN tree, InTree(d, x), x # d
  PROVE  \E e \in Children(d) : InTree(e, x)
<1> DEFINE e == SubSeq(x, 1, Len(d) + 1)
<1>1. x \in Paths /\ x \in Seq(STRING) /\ d \in Seq(STRING)
  BY PathTypes DEF Typed, IsTree
<1>2. Len(d) <= Len(x) /\ (\A i \in 1..Len(d) : x[i] = d[i]) /\ Len(d) \in Nat /\ Len(x) \in Nat
  BY <1>1, InTreeElements
<1>3. Len(d) # Len(x)
  BY <1>1, <1>2, SeqEqual
<1>4. e \in Seq(STRING) /\ Len(e) = Len(d) + 1 /\ \A i \in 1..Len(d) + 1 : e[i] = x[i]
  BY <1>1, <1>2, <1>3
<1>5. e \in Paths
  <2>1. CASE Len(d) + 1 = Len(x)
    <3>1. e = x
      BY <1>1, <1>4, <2>1, SeqEqual
    <3> QED BY <1>1, <3>1
  <2>2. CASE Len(d) + 1 # Len(x)
    <3>1. Len(d) + 1 \in 0..Len(x) - 1
      BY <1>2, <1>3, <2>2
    <3> QED BY <1>1, <3>1, GatewayAssumption DEF Paths
  <2> QED BY <2>1, <2>2
<1> HIDE DEF e
<1>6. InTree(e, x)
  <2>1. Len(e) <= Len(x) /\ \A i \in 1..Len(e) : x[i] = e[i]
    BY <1>2, <1>3, <1>4
  <2> QED BY <1>1, <1>4, <2>1, InTreeElements
<1>7. InTree(d, e)
  <2>1. Len(d) <= Len(e) /\ \A i \in 1..Len(d) : e[i] = d[i]
    BY <1>2, <1>4
  <2> QED BY <1>1, <1>4, <2>1, InTreeElements
<1>8. Kind(e) # "missing"
  BY <1>5, <1>6, KindMissing DEF Typed
<1> QED BY <1>4, <1>5, <1>6, <1>7, <1>8 DEF Children

\* A directory is listed, and made at its new path: what was pending below it still is.
LEMMA EnterKeeps ==
  ASSUME IndInv, NEW c \in Callers, NEW d \in call[c].todo, Enter(c, d)
  PROVE  IndInv'
<1> DEFINE k == call[c]
           q == NewPlace(k, d)
           t == IF k.op = "rename" /\ Kind(q) = "missing" THEN Placed(tree, q, Dir) ELSE tree
           g == [k EXCEPT !.todo = (@ \ {d}) \cup Children(d), !.listed = @ \cup {d}]
           x == IF k.op = "rename" THEN q ELSE d
<1> USE DEF IndInv
<1>1. d \in DirPaths /\ k.due = {} /\ Requests(c, t, {}, g)
  BY DEF Enter
<1>2. Job(c) /\ Shape(k) /\ InTree(k.n, d) /\ d \in Paths /\ Works(k, d) /\ k.op # "none"
  BY JobFacts
<1>3. Children(d) \subseteq Paths /\ \A e \in Children(d) : InTree(d, e)
  BY DEF Children
<1>4. /\ g \in CallRow /\ g.op = k.op /\ g.n = k.n /\ g.to = k.to
      /\ g.todo = (k.todo \ {d}) \cup Children(d)
      /\ g.listed = k.listed \cup {d} /\ g.due = {} /\ g.owed = k.owed /\ g.leaves = k.leaves
  <2>1. (k.todo \ {d}) \cup Children(d) \subseteq Paths /\ k.listed \cup {d} \subseteq DirPaths
    BY <1>1, <1>3, CallTypes
  <2> QED BY <1>1, <2>1, CallTypes DEF CallRow
<1>5. k.op = "rename" => q \in DirPaths /\ q \in Paths /\ InTree(k.to, q)
  BY <1>1, <1>2, NewPlaces
<1>6. x \in Paths /\ x \in DirPaths /\ x \notin FilePaths /\ Works(k, x)
  BY <1>1, <1>2, <1>5, PathTypes DEF Works
<1>7. /\ \A y : y # x => (y \in DOMAIN t <=> y \in DOMAIN tree) /\ (y \in DOMAIN tree => t[y] = tree[y])
      /\ x \in DOMAIN t /\ x \notin DOMAIN tree => k.op = "rename" /\ InTree(k.to, x)
      /\ IsTree(t)
  <2>1. CASE k.op = "rename" /\ Kind(q) = "missing"
    <3>1. t = Placed(tree, q, Dir) /\ x = q
      BY <2>1
    <3>2. /\ DOMAIN t = DOMAIN tree \cup {q} /\ t[q] = Dir
          /\ \A y \in DOMAIN tree : y # q => t[y] = tree[y]
      BY <3>1 DEF Placed
    <3> QED BY <1>5, <2>1, <3>1, <3>2, PathTypes DEF IsTree, Typed
  <2>2. CASE ~(k.op = "rename" /\ Kind(q) = "missing")
    BY <2>2 DEF Typed
  <2> QED BY <2>1, <2>2
<1> HIDE DEF g, t, q
<1>8. ASSUME tree' = t, call'[c] = g, \A o \in Callers \ {c} : call'[o] = call[o],
             \A p \in Paths : Shut(p) =>
               Shut(p)' /\ \A y \in DOMAIN tree' : InTree(p, y) => y \in DOMAIN tree
      PROVE  Job(c)'
  <2>1. Shape(g)
    <3>1. \A e \in Children(d) : InTree(k.n, e)
      BY <1>2, <1>3, CallTypes, PathTypes, InTreeTransitive
    <3> QED BY <1>1, <1>2, <1>4, <3>1 DEF Shape, NewPlace
  <2>2. ASSUME NEW m \in DOMAIN k.owed
        PROVE  /\ m \in DOMAIN tree' => tree'[m] = k.owed[m]
               /\ \/ m \in DOMAIN tree' /\ m \notin g.due /\ \E e \in g.todo : InTree(e, m)
                  \/ NewPlace(k, m) \in DOMAIN tree' /\ tree'[NewPlace(k, m)] = k.owed[m]
    <3>1. m \in FilePaths /\ m \in Paths /\ InTree(k.n, m) /\ k.op = "rename"
      BY JobFacts
    <3>2. /\ m \in DOMAIN tree => tree[m] = k.owed[m]
          /\ \/ m \in DOMAIN tree /\ m \notin k.due /\ \E e \in k.todo : InTree(e, m)
             \/ NewPlace(k, m) \in DOMAIN tree /\ tree[NewPlace(k, m)] = k.owed[m]
      BY <1>2 DEF Job, Owes
    <3>3. NewPlace(k, m) \in FilePaths
      BY <1>2, <3>1, NewPlaces
    <3>4. m # x /\ NewPlace(k, m) # x /\ m # d
      BY <1>1, <1>6, <3>1, <3>3, PathTypes
    <3>5. (m \in DOMAIN tree' <=> m \in DOMAIN tree) /\ (m \in DOMAIN tree => tree'[m] = tree[m])
      BY <1>7, <1>8, <3>4
    <3>6. /\ NewPlace(k, m) \in DOMAIN tree' <=> NewPlace(k, m) \in DOMAIN tree
          /\ NewPlace(k, m) \in DOMAIN tree => tree'[NewPlace(k, m)] = tree[NewPlace(k, m)]
      BY <1>7, <1>8, <3>4
    <3>7. m \in DOMAIN tree /\ (\E e \in k.todo : InTree(e, m)) => \E e \in g.todo : InTree(e, m)
      BY <1>1, <1>4, <3>4, ChildOnTheWay
    <3> QED BY <1>4, <3>2, <3>5, <3>6, <3>7
  <2>3. ASSUME NEW y \in DOMAIN tree', y \in DOMAIN tree, Pending(k, y) PROVE Pending(g, y)
    <3>1. CASE \E e \in k.todo : InTree(e, y)
      <4>1. PICK e \in k.todo : InTree(e, y)
        BY <3>1
      <4>2. CASE e = d /\ y # d
        BY <1>1, <1>4, <2>3, <4>1, <4>2, ChildOnTheWay DEF Pending
      <4>3. CASE ~(e = d /\ y # d)
        BY <1>4, <4>1, <4>3 DEF Pending
      <4> QED BY <4>2, <4>3
    <3>2. CASE ~\E e \in k.todo : InTree(e, y)
      BY <1>1, <1>4, <2>3, <3>2 DEF Pending
    <3> QED BY <3>1, <3>2
  <2> QED BY <1>2, <1>4, <1>8, <2>1, <2>2, <2>3, OwnJob
<1> HIDE DEF x
<1> QED BY <1>1, <1>4, <1>6, <1>7, <1>8, RequestsKeep

\* What a request that removes x leaves of the tree.
LEMMA WithoutOne ==
  ASSUME IsTree(tree), NEW x
  PROVE  LET t == Without(tree, {x}) IN
         /\ IsTree(t) /\ x \notin DOMAIN t
         /\ \A y : y # x => (y \in DOMAIN t <=> y \in DOMAIN tree) /\ (y \in DOMAIN tree => t[y] = tree[y])
BY DEF Without, IsTree

\* A file is removed: a rename has copied it.
LEMMA DeleteKeeps ==
  ASSUME IndInv, NEW c \in Callers, NEW p \in call[c].todo \cup call[c].due, Delete(c, p)
  PROVE  IndInv'
<1> DEFINE k == call[c]
           t == Without(tree, {p})
           g == [k EXCEPT !.todo = @ \ {p}, !.due = {}]
<1> USE DEF IndInv
<1>1. /\ p \in IF k.op = "rename" THEN k.due ELSE k.todo \cap FilePaths
      /\ Requests(c, t, {p}, g)
  BY DEF Delete
<1>2. Job(c) /\ Shape(k) /\ p \in Paths /\ InTree(k.n, p) /\ Works(k, p)
  BY JobFacts
<1>3. p \in FilePaths
  BY <1>1, CallTypes
<1>4. /\ g \in CallRow /\ g.op = k.op /\ g.n = k.n /\ g.to = k.to /\ g.todo = k.todo \ {p}
      /\ g.listed = k.listed /\ g.due = {} /\ g.owed = k.owed /\ g.leaves = k.leaves
  BY CallTypes DEF CallRow
<1>5. /\ IsTree(t) /\ p \notin DOMAIN t
      /\ \A y : y # p => (y \in DOMAIN t <=> y \in DOMAIN tree) /\ (y \in DOMAIN tree => t[y] = tree[y])
  BY WithoutOne DEF Typed
<1> HIDE DEF g, t
<1>6. ASSUME tree' = t, call'[c] = g, \A o \in Callers \ {c} : call'[o] = call[o],
             \A x \in Paths : Shut(x) =>
               Shut(x)' /\ \A y \in DOMAIN tree' : InTree(x, y) => y \in DOMAIN tree
      PROVE  Job(c)'
  <2>1. Shape(g)
    BY <1>2, <1>4 DEF Shape, NewPlace
  <2>2. ASSUME NEW m \in DOMAIN k.owed
        PROVE  /\ m \in DOMAIN tree' => tree'[m] = k.owed[m]
               /\ \/ m \in DOMAIN tree' /\ m \notin g.due /\ \E d \in g.todo : InTree(d, m)
                  \/ NewPlace(k, m) \in DOMAIN tree' /\ tree'[NewPlace(k, m)] = k.owed[m]
    <3>1. m \in FilePaths /\ m \in Paths /\ InTree(k.n, m) /\ k.op = "rename"
      BY JobFacts
    <3>2. /\ m \in DOMAIN tree => tree[m] = k.owed[m]
          /\ \/ m \in DOMAIN tree /\ m \notin k.due /\ \E d \in k.todo : InTree(d, m)
             \/ NewPlace(k, m) \in DOMAIN tree /\ tree[NewPlace(k, m)] = k.owed[m]
      BY <1>2 DEF Job, Owes
    <3>3. NewPlace(k, m) # p
      BY <1>2, <3>1, NewPlaces
    <3>4. m # p => ~InTree(p, m)
      BY <1>3, <3>1, NoneBelowFile
    <3> QED BY <1>1, <1>4, <1>5, <1>6, <3>1, <3>2, <3>3, <3>4
  <2>3. ASSUME NEW y \in DOMAIN tree', y \in DOMAIN tree, Pending(k, y) PROVE Pending(g, y)
    <3>1. y \in Paths /\ y # p
      BY <1>5, <1>6, <2>3, PathTypes DEF Typed, IsTree
    <3>2. ~InTree(p, y)
      BY <1>3, <3>1, NoneBelowFile
    <3>3. y \notin k.due
      BY <1>1, <1>2, <3>1 DEF Shape
    <3> QED BY <1>4, <2>3, <3>2, <3>3 DEF Pending
  <2> QED BY <1>2, <1>4, <1>6, <2>1, <2>2, <2>3, OwnJob
<1>7. p \in {p}
  OBVIOUS
<1> QED BY <1>1, <1>2, <1>4, <1>5, <1>6, <1>7, RequestsKeep

\* The holder of a directory is removed, after everything that was found below.
LEMMA LeaveKeeps ==
  ASSUME IndInv, NEW c \in Callers, NEW d \in call[c].listed, Leave(c, d)
  PROVE  IndInv'
<1> DEFINE k == call[c]
           t == Without(tree, {d})
           g == [k EXCEPT !.listed = @ \ {d}]
<1> USE DEF IndInv
<1>1. Requests(c, t, {}, g)
  BY DEF Leave
<1>2. Job(c) /\ Shape(k) /\ d \in Paths /\ InTree(k.n, d) /\ Works(k, d)
  BY JobFacts
<1>3. d \in DirPaths /\ d \notin FilePaths
  BY CallTypes, PathTypes
<1>4. /\ g \in CallRow /\ g.op = k.op /\ g.n = k.n /\ g.to = k.to /\ g.todo = k.todo
      /\ g.listed = k.listed \ {d} /\ g.due = k.due /\ g.owed = k.owed /\ g.leaves = k.leaves
  BY CallTypes DEF CallRow
<1>5. /\ IsTree(t) /\ d \notin DOMAIN t
      /\ \A y : y # d => (y \in DOMAIN t <=> y \in DOMAIN tree) /\ (y \in DOMAIN tree => t[y] = tree[y])
  BY WithoutOne DEF Typed
<1> HIDE DEF g, t
<1>6. ASSUME tree' = t, call'[c] = g, \A o \in Callers \ {c} : call'[o] = call[o],
             \A x \in Paths : Shut(x) =>
               Shut(x)' /\ \A y \in DOMAIN tree' : InTree(x, y) => y \in DOMAIN tree
      PROVE  Job(c)'
  <2>1. Shape(g)
    BY <1>2, <1>4 DEF Shape, NewPlace
  <2>2. ASSUME NEW m \in DOMAIN k.owed
        PROVE  /\ m \in DOMAIN tree' => tree'[m] = k.owed[m]
               /\ \/ m \in DOMAIN tree' /\ m \notin g.due /\ \E e \in g.todo : InTree(e, m)
                  \/ NewPlace(k, m) \in DOMAIN tree' /\ tree'[NewPlace(k, m)] = k.owed[m]
    <3>1. m \in FilePaths /\ m \in Paths /\ InTree(k.n, m) /\ k.op = "rename"
      BY JobFacts
    <3>2. /\ m \in DOMAIN tree => tree[m] = k.owed[m]
          /\ \/ m \in DOMAIN tree /\ m \notin k.due /\ \E e \in k.todo : InTree(e, m)
             \/ NewPlace(k, m) \in DOMAIN tree /\ tree[NewPlace(k, m)] = k.owed[m]
      BY <1>2 DEF Job, Owes
    <3>3. NewPlace(k, m) # d /\ m # d
      BY <1>2, <1>3, <3>1, NewPlaces
    <3> QED BY <1>4, <1>5, <1>6, <3>2, <3>3
  <2>3. ASSUME NEW y \in DOMAIN tree', y \in DOMAIN tree, Pending(k, y) PROVE Pending(g, y)
    BY <1>4, <1>5, <1>6, <2>3 DEF Pending
  <2> QED BY <1>2, <1>4, <1>6, <2>1, <2>2, <2>3, OwnJob
<1> QED BY <1>1, <1>2, <1>3, <1>4, <1>5, <1>6, RequestsKeep

\* What is said of the handles holds if a step leaves them and the tree alone.
LEMMA HandlesSame ==
  ASSUME Typed, \A h \in Handles : Handle(h), UNCHANGED <<tree, file, reading>>
  PROVE  /\ IsTree(tree') /\ file' \in [Handles -> Row] /\ reading' \in [Handles -> SUBSET (Nat \X BOOLEAN)]
         /\ (\A h \in Handles : Handle(h)') /\ NoNewWriter
         /\ \A h \in Handles : Writing(h)' <=> Writing(h)
BY DEF Typed, IsTree, Handle, Phase, Reader, Put, NoNewWriter, Writing

\* A rename that is refused has nothing to do any more.
LEMMA RefusedKeeps ==
  ASSUME IndInv, NEW c \in Callers, Refused(c)
  PROVE  IndInv'
<1> USE DEF IndInv
<1>1. /\ call[c].op = "rename" /\ call' = [call EXCEPT ![c] = Idle]
      /\ UNCHANGED <<tree, file, reading, promise, gone, calls, faults>>
  BY DEF Refused
<1>2. call[c].n \in Paths /\ Works(call[c], call[c].n)
  BY <1>1, CallTypes, InOwnTree DEF Works
<1>3. IsTree(tree') /\ NoNewWriter /\ file' \in [Handles -> Row] /\ (\A h \in Handles : Handle(h)')
  BY <1>1, HandlesSame
<1>4. Idle \in CallRow /\ Idle.op = "none" /\ (\A y : Same(y))
  BY <1>1, IdleTypes DEF Same
<1>5. /\ call' \in [Callers -> CallRow] /\ call'[c] = Idle
      /\ \A o \in Callers \ {c} : Job(o)'
      /\ Gone' /\ Promised'
  BY <1>1, <1>2, <1>3, <1>4, OthersAbide
<1>6. Job(c)'
  BY <1>5, IdleJob
<1>7. Names'
  BY <1>5, <1>6 DEF Names
<1>8. Typed'
  BY <1>1, <1>3, <1>5 DEF Typed, Counted
<1> QED BY <1>3, <1>7, <1>8

\* A call returns: nothing is pending, so what it was to take away is gone and what it
\* owes is at the new paths.
LEMMA ReturnsKeeps ==
  ASSUME IndInv, NEW c \in Callers, Returns(c)
  PROVE  IndInv'
<1> DEFINE k == call[c]
           moved == MovedTree(k.owed, k.n, k.to)
<1> USE DEF IndInv
<1>1. /\ k.op # "none" /\ k.todo = {} /\ k.listed = {} /\ k.due = {}
      /\ promise' = [p \in DOMAIN moved \cup DOMAIN promise |->
           IF p \in DOMAIN moved THEN moved[p] ELSE promise[p]]
      /\ gone' = gone \cup k.leaves
      /\ call' = [call EXCEPT ![c] = Idle]
      /\ UNCHANGED <<tree, file, reading, calls, faults>>
  BY DEF Returns
<1>2. IsTree(tree') /\ NoNewWriter /\ file' \in [Handles -> Row] /\ (\A h \in Handles : Handle(h)')
  BY <1>1, HandlesSame
<1>3. /\ Idle \in CallRow /\ call' \in [Callers -> CallRow] /\ call'[c] = Idle
      /\ \A o \in Callers \ {c} : call'[o] = call[o]
  BY <1>1, IdleTypes DEF Typed
<1>4. NoNewWork /\ \A p : ~Works(call'[c], p)
  BY <1>3, IdleTypes DEF NoNewWork, Works
<1>5. \A p : Shut(p) => Shut(p)'
  BY <1>2, <1>4, ShutKept
<1>6. ASSUME NEW o \in Callers PROVE Job(o)'
  <2>1. CASE o = c
    BY <1>3, <2>1, IdleJob
  <2>2. CASE o # c
    <3>1. Job(o) /\ call'[o] = call[o]
      BY <1>3, <2>2 DEF Names
    <3>2. \A a \in Callers : \A p : ~Works(call[a], p) => ~Works(call'[a], p)
      BY <1>4, WorksKept
    <3>3. Abides(o)
      BY <1>1, <1>3, <1>5, <3>1, <3>2, CallTypes DEF Abides, Job, Owes, Takes, Same
    <3> QED BY <3>1, <3>3, CallKept
  <2> QED BY <2>1, <2>2
<1>7. Gone'
  <2> SUFFICES ASSUME NEW p \in gone' PROVE Shut(p)' /\ \A x \in DOMAIN tree : ~InTree(p, x)
    BY <1>1 DEF Gone
  <2>1. CASE p \in gone
    BY <1>5, <2>1 DEF Names, Gone
  <2>2. CASE p \in k.leaves
    <3>1. Shut(p) /\ \A x \in DOMAIN tree : InTree(p, x) => Pending(k, x)
      BY <2>2 DEF Names, Job, Takes
    <3>2. \A x : ~Pending(k, x)
      BY <1>1 DEF Pending
    <3> QED BY <1>5, <3>1, <3>2
  <2> QED BY <1>1, <2>1, <2>2
<1>8. ASSUME NEW m \in DOMAIN moved
      PROVE  /\ m \in FilePaths /\ m \in DOMAIN tree /\ tree[m] = moved[m]
             /\ \A o \in Callers : ~Works(call'[o], m)
  <2>1. Job(c) /\ Shape(k) /\ \A p \in DOMAIN k.owed : p \in FilePaths /\ p \in Paths /\ InTree(k.n, p) /\ k.op = "rename"
    BY JobFacts
  <2>2. PICK p \in DOMAIN k.owed : InTree(k.n, p) /\ m = Rebased(p, k.n, k.to)
    BY <2>1, MovedPaths
  <2>3. k.n \in Seq(STRING) /\ k.to \in Seq(STRING) /\ p \in Seq(STRING)
    BY <2>1, <2>2, CallTypes, PathTypes
  <2>4. moved[m] = k.owed[p]
    BY <2>2, <2>3, MovedContent
  <2>5. m = NewPlace(k, p)
    BY <2>2 DEF NewPlace
  <2>6. m \in FilePaths
    BY <2>1, <2>2, <2>5, NewPlaces
  <2>7. m \in DOMAIN tree /\ tree[m] = k.owed[p]
    BY <1>1, <2>1, <2>2, <2>5 DEF Job, Owes
  <2>8. \A o \in Callers \ {c} : ~Works(call[o], m)
    BY <2>1, <2>2, <2>5 DEF Job, Owes
  <2> QED BY <1>3, <1>4, <2>4, <2>6, <2>7, <2>8
<1> HIDE DEF moved
<1>9. ASSUME NEW m \in DOMAIN promise'
      PROVE  /\ m \in FilePaths /\ m \in DOMAIN tree /\ tree[m] = promise'[m]
             /\ \A o \in Callers : ~Works(call'[o], m)
  <2>1. CASE m \in DOMAIN moved
    <3>1. promise'[m] = moved[m]
      BY <1>1, <2>1
    <3> QED BY <1>8, <2>1, <3>1
  <2>2. CASE m \notin DOMAIN moved
    <3>1. m \in DOMAIN promise /\ promise'[m] = promise[m]
      BY <1>1, <2>2
    <3>2. m \in FilePaths /\ m \in DOMAIN tree /\ tree[m] = promise[m] /\ \A o \in Callers : ~Works(call[o], m)
      BY <3>1 DEF Typed, Names, Promised
    <3>3. \A o \in Callers : ~Works(call'[o], m)
      BY <1>4, <3>2, WorksKept
    <3> QED BY <3>1, <3>2, <3>3
  <2> QED BY <2>1, <2>2
<1>10. Promised'
  BY <1>1, <1>9 DEF Promised
<1>11. Names'
  BY <1>6, <1>7, <1>10 DEF Names
<1>12. gone' \subseteq Paths
  BY <1>1, CallTypes DEF Typed
<1>13. Typed'
  BY <1>1, <1>2, <1>3, <1>9, <1>12 DEF Typed, Counted
<1> QED BY <1>2, <1>11, <1>13
\* A call begins that works in S only and aims at L only: nothing is promised in S any
\* more, nothing is said to be gone in L.
LEMMA CallBegins ==
  ASSUME IndInv, NEW c \in Callers, NEW g \in CallRow, NEW S, NEW L,
         call' = [AllDisturbed(S, L) EXCEPT ![c] = g],
         promise' = Without(promise, S), gone' = gone \ L,
         calls < MaxCalls, calls' = calls + 1, UNCHANGED <<tree, file, reading, faults>>,
         \A p \in Paths : Works(g, p) => p \in S,
         \A p \in Paths : Aims(g, p) => p \in L,
         (\A o \in Callers \ {c} : Shortened(call'[o], call[o], S, L)) /\ call'[c] = g => Job(c)'
  PROVE  IndInv'
<1> USE DEF IndInv
<1>1. IsTree(tree') /\ NoNewWriter /\ file' \in [Handles -> Row] /\ (\A h \in Handles : Handle(h)')
  BY HandlesSame
<1>2. call'[c] = g /\ \A o \in Callers \ {c} : Shortened(call'[o], call[o], S, L)
  BY DisturbedCall DEF AllDisturbed
<1>3. call' \in [Callers -> CallRow]
  BY <1>2 DEF AllDisturbed, Shortened
<1>4. ASSUME NEW p \in Paths, p \notin S, NEW o \in Callers, ~Works(call[o], p) PROVE ~Works(call'[o], p)
  BY <1>2, <1>4 DEF Shortened, Works
<1>5. ASSUME NEW p \in Paths, p \notin L, Shut(p) PROVE Shut(p)'
  <2>1. \A h \in Handles : Writing(h)' => ~InTree(p, file'[h].n)
    BY <1>1, <1>5 DEF Shut, NoNewWriter
  <2>2. ASSUME NEW o \in Callers PROVE ~Aims(call'[o], p)
    <3>1. CASE o = c
      BY <1>2, <1>5, <3>1
    <3>2. CASE o # c
      BY <1>2, <1>5, <3>2 DEF Shut, Aims, Shortened
    <3> QED BY <3>1, <3>2
  <2> QED BY <2>1, <2>2 DEF Shut
<1>6. ASSUME NEW o \in Callers \ {c} PROVE Job(o)'
  <2>1. Job(o)
    BY DEF Names
  <2>2. ASSUME NEW p \in DOMAIN call'[o].owed
        PROVE  /\ p \in DOMAIN call[o].owed /\ call'[o].owed[p] = call[o].owed[p]
               /\ Same(p) /\ Same(NewPlace(call[o], p))
               /\ \A a \in Callers \ {o} : ~Works(call'[a], p) /\ ~Works(call'[a], NewPlace(call[o], p))
    <3>1. /\ p \in DOMAIN call[o].owed /\ call'[o].owed[p] = call[o].owed[p]
          /\ p \notin S /\ NewPlace(call[o], p) \notin S
      BY <1>2 DEF Shortened
    <3>2. p \in Paths /\ InTree(call[o].n, p) /\ call[o].op = "rename"
      BY <3>1, JobFacts
    <3>3. NewPlace(call[o], p) \in Paths
      BY <2>1, <3>2, NewPlaces DEF Job
    <3>4. \A a \in Callers \ {o} : ~Works(call[a], p) /\ ~Works(call[a], NewPlace(call[o], p))
      BY <2>1, <3>1 DEF Job, Owes
    <3> QED BY <1>4, <3>1, <3>2, <3>3, <3>4 DEF Same
  <2>3. ASSUME NEW p \in call'[o].leaves
        PROVE  p \in call[o].leaves /\ Shut(p)' /\ \A x \in DOMAIN tree' : InTree(p, x) => x \in DOMAIN tree
    <3>1. p \in call[o].leaves /\ p \notin L
      BY <1>2 DEF Shortened
    <3>2. p \in Paths /\ Shut(p)
      BY <2>1, <3>1, CallTypes DEF Job, Takes
    <3> QED BY <1>5, <3>1, <3>2
  <2>4. Abides(o)
    BY <1>2, <2>2, <2>3 DEF Abides, Shortened
  <2> QED BY <2>1, <2>4, CallKept
<1>7. Gone' /\ Promised'
  <2>1. ASSUME NEW p \in gone'
        PROVE  Shut(p)' /\ \A x \in DOMAIN tree' : InTree(p, x) => x \in DOMAIN tree
    BY <1>5 DEF Typed, Names, Gone
  <2>2. ASSUME NEW m \in DOMAIN promise'
        PROVE  /\ m \in DOMAIN promise /\ promise'[m] = promise[m] /\ Same(m)
               /\ \A o \in Callers : ~Works(call'[o], m)
    <3>1. m \in DOMAIN promise /\ m \notin S /\ promise'[m] = promise[m]
      BY DEF Without
    <3>2. m \in Paths /\ \A o \in Callers : ~Works(call[o], m)
      BY <3>1, PathTypes DEF Typed, Names, Promised
    <3> QED BY <1>4, <3>1, <3>2 DEF Same
  <2>3. gone' \subseteq gone
    OBVIOUS
  <2> QED BY <2>1, <2>2, <2>3, HistoryKept DEF Names
<1>8. Job(c)'
  BY <1>2
<1>9. Names'
  BY <1>6, <1>7, <1>8 DEF Names
<1>10. Typed'
  <2>1. DOMAIN promise' \subseteq FilePaths /\ gone' \subseteq Paths
    BY DEF Typed, Without
  <2>2. Counted'
    BY GatewayAssumption DEF Typed, Counted
  <2> QED BY <1>1, <1>3, <2>1, <2>2 DEF Typed
<1> QED BY <1>1, <1>9, <1>10

\* What a call is to take away when it begins is pending, since it is to work on n.
LEMMA SettledTakes ==
  ASSUME Typed, NEW c \in Callers, NEW g, call'[c] = g, UNCHANGED <<tree, file>>,
         NEW n \in Paths, g.n = n, n \in g.todo, g.leaves = Settled(n),
         \A o \in Callers \ {c} : call'[o].op = call[o].op /\ call'[o].to = call[o].to,
         \A p \in AtOrBelow(n) : ~Aims(g, p)
  PROVE  Takes(call[c])'
<1> SUFFICES ASSUME NEW p \in Settled(n)
             PROVE  InTree(n, p) /\ Shut(p)' /\ \A x \in DOMAIN tree' : InTree(p, x) => Pending(g, x)
  BY DEF Takes
<1>1. /\ p \in Paths /\ InTree(n, p) /\ p \in AtOrBelow(n)
      /\ \A h \in Handles : Writing(h) => ~InTree(p, file[h].n)
      /\ \A o \in Callers : ~Aims(call[o], p)
  BY DEF Settled, AtOrBelow, Writing, Is
<1>2. \A h \in Handles : Writing(h)' => ~InTree(p, file'[h].n)
  BY <1>1 DEF Writing
<1>3. \A o \in Callers : ~Aims(call'[o], p)
  BY <1>1 DEF Aims
<1>4. ASSUME NEW x \in DOMAIN tree', InTree(p, x) PROVE Pending(g, x)
  <2>1. x \in Seq(STRING) /\ p \in Seq(STRING) /\ n \in Seq(STRING)
    BY <1>1, PathTypes DEF Typed, IsTree
  <2>2. InTree(n, x)
    BY <1>1, <1>4, <2>1, InTreeTransitive
  <2> QED BY <2>2 DEF Pending
<1> QED BY <1>1, <1>2, <1>3, <1>4 DEF Shut

LEMMA RemoveKeeps ==
  ASSUME IndInv, NEW c \in Callers, NEW n \in Paths, Remove(c, n)
  PROVE  IndInv'
<1> DEFINE leaves == Settled(n)
           g == [Idle EXCEPT !.op = "remove", !.n = n, !.todo = {n}, !.leaves = leaves]
           S == AtOrBelow(n)
<1> USE DEF IndInv
<1>1. /\ call[c].op = "none" /\ calls < MaxCalls /\ n # <<>> /\ calls' = calls + 1
      /\ call' = [AllDisturbed(S, {}) EXCEPT ![c] = g] /\ promise' = Without(promise, S)
      /\ UNCHANGED <<tree, file, reading, gone, faults>>
  BY DEF Remove
<1>2. leaves \subseteq Paths
  BY DEF Settled, AtOrBelow
<1> HIDE DEF leaves
<1>3. /\ g \in CallRow /\ g.op = "remove" /\ g.n = n /\ g.todo = {n} /\ g.listed = {} /\ g.due = {}
      /\ DOMAIN g.owed = {} /\ g.leaves = leaves
  BY <1>2, IdleTypes DEF CallRow
<1>4. \A p \in Paths : (Works(g, p) => p \in S) /\ ~Aims(g, p)
  BY <1>3 DEF Works, Aims, AtOrBelow
<1> HIDE DEF g
<1>5. ASSUME \A o \in Callers \ {c} : Shortened(call'[o], call[o], S, {}), call'[c] = g
      PROVE  Job(c)'
  <2>1. InTree(n, n)
    BY PathTypes, InOwnTree
  <2>2. Shape(g)
    BY <1>1, <1>3, <2>1 DEF Shape
  <2>3. Owes(c)'
    BY <1>3, <1>5 DEF Owes
  <2>4. \A o \in Callers \ {c} : call'[o].op = call[o].op /\ call'[o].to = call[o].to
    BY <1>5 DEF Shortened
  <2>5. Takes(call[c])'
    <3>1. g.leaves = Settled(n) /\ n \in g.todo /\ \A p \in AtOrBelow(n) : ~Aims(g, p)
      BY <1>3, <1>4 DEF leaves, AtOrBelow
    <3> QED BY <1>1, <1>3, <1>5, <2>4, <3>1, SettledTakes
  <2> QED BY <1>5, <2>2, <2>3, <2>5 DEF Job
<1>6. gone' = gone \ {}
  BY <1>1
<1> HIDE DEF S
<1> QED BY <1>1, <1>3, <1>4, <1>5, <1>6, CallBegins

\* A rename begins: it owes what was promised at or below its old name, but what another
\* call may change at the new path.
LEMMA RenameKeeps ==
  ASSUME IndInv, NEW c \in Callers, NEW n \in Paths, NEW to \in Paths, Rename(c, n, to)
  PROVE  IndInv'
<1> DEFINE leaves == Settled(n)
           known == {p \in DOMAIN promise \cap AtOrBelow(n) :
                       ~\E o \in Callers : Works(call[o], Rebased(p, n, to))}
           owed == [p \in known |-> promise[p]]
           g == [Idle EXCEPT !.op = "rename", !.n = n, !.to = to, !.todo = {n}, !.owed = owed,
                             !.leaves = leaves]
           S == AtOrBelow(n) \cup AtOrBelow(to)
           L == {p \in Paths : Meets(p, to)}
<1> USE DEF IndInv
<1>1. /\ call[c].op = "none" /\ calls < MaxCalls /\ n # <<>> /\ calls' = calls + 1 /\ ~Meets(n, to)
      /\ \A p \in AtOrBelow(n) : Rebased(p, n, to) \in IF p \in FilePaths THEN FilePaths ELSE DirPaths
      /\ call' = [AllDisturbed(S, L) EXCEPT ![c] = g] /\ promise' = Without(promise, S)
      /\ gone' = gone \ L
      /\ UNCHANGED <<tree, file, reading, faults>>
  BY DEF Rename
<1>2. leaves \subseteq Paths
  BY DEF Settled, AtOrBelow
<1>3. /\ owed \in Owings /\ DOMAIN owed = known
      /\ \A p \in known :
           /\ p \in FilePaths /\ InTree(n, p) /\ p \in AtOrBelow(n)
           /\ p \in DOMAIN tree /\ tree[p] = owed[p]
           /\ \A o \in Callers : ~Works(call[o], p) /\ ~Works(call[o], Rebased(p, n, to))
  <2>1. ASSUME NEW p \in known
        PROVE  /\ p \in FilePaths /\ InTree(n, p) /\ p \in AtOrBelow(n)
               /\ p \in DOMAIN tree /\ tree[p] = promise[p] /\ promise[p] \in Contents
               /\ \A o \in Callers : ~Works(call[o], p) /\ ~Works(call[o], Rebased(p, n, to))
    <3>1. p \in FilePaths /\ p \in DOMAIN tree /\ tree[p] = promise[p] /\ \A o \in Callers : ~Works(call[o], p)
      BY DEF Typed, Names, Promised
    <3>2. tree[p] \in Contents
      BY <3>1, PathTypes DEF Typed, IsTree
    <3> QED BY <3>1, <3>2 DEF AtOrBelow
  <2>2. owed \in [known -> Contents] /\ known \in SUBSET FilePaths
    BY <2>1
  <2> HIDE DEF known
  <2> QED BY <2>1, <2>2 DEF Owings
<1> HIDE DEF leaves, known, owed
<1>4. /\ g \in CallRow /\ g.op = "rename" /\ g.n = n /\ g.to = to /\ g.todo = {n} /\ g.listed = {}
      /\ g.due = {} /\ g.owed = owed /\ g.leaves = leaves
  BY <1>2, <1>3, IdleTypes DEF CallRow
<1>5. \A p \in Paths : (Works(g, p) => p \in S) /\ (Aims(g, p) => p \in L)
  BY <1>4 DEF Works, Aims, AtOrBelow
<1>6. n \in Seq(STRING) /\ to \in Seq(STRING) /\ InTree(n, n)
  BY PathTypes, InOwnTree
<1>7. ASSUME NEW p \in AtOrBelow(n) PROVE ~Aims(g, p)
  <2>1. p \in Seq(STRING) /\ InTree(n, p)
    BY PathTypes DEF AtOrBelow
  <2>2. ~InTree(to, p)
    BY <1>1, <1>6, <2>1, Apart
  <2>3. ~InTree(p, to)
    BY <1>1, <1>6, <2>1, InTreeTransitive DEF Meets
  <2> QED BY <1>4, <2>2, <2>3 DEF Aims, Meets
<1> HIDE DEF g
<1>8. ASSUME \A o \in Callers \ {c} : Shortened(call'[o], call[o], S, L), call'[c] = g
      PROVE  Job(c)'
  <2>1. Shape(g)
    BY <1>1, <1>4, <1>6 DEF Shape, NewPlace
  <2>2. \A o \in Callers \ {c} :
          call'[o].op = call[o].op /\ call'[o].to = call[o].to /\ call'[o].n = call[o].n
    BY <1>8 DEF Shortened
  <2>3. Owes(c)'
    <3> SUFFICES ASSUME NEW p \in DOMAIN g.owed
                 PROVE  /\ g.op = "rename" /\ InTree(g.n, p)
                        /\ p \in DOMAIN tree' => tree'[p] = g.owed[p]
                        /\ \/ p \in DOMAIN tree' /\ p \notin g.due /\ \E d \in g.todo : InTree(d, p)
                           \/ NewPlace(g, p) \in DOMAIN tree' /\ tree'[NewPlace(g, p)] = g.owed[p]
                        /\ \A o \in Callers \ {c} : ~Works(call'[o], p) /\ ~Works(call'[o], NewPlace(g, p))
      BY <1>8 DEF Owes
    <3>1. p \in known /\ NewPlace(g, p) = Rebased(p, n, to)
      BY <1>3, <1>4 DEF NewPlace
    <3>2. \A o \in Callers \ {c} : ~Works(call'[o], p) /\ ~Works(call'[o], NewPlace(g, p))
      BY <1>3, <2>2, <3>1 DEF Works
    <3> QED BY <1>1, <1>3, <1>4, <3>1, <3>2
  <2>4. Takes(call[c])'
    <3>1. g.leaves = Settled(n) /\ n \in g.todo
      BY <1>4 DEF leaves
    <3> QED BY <1>1, <1>4, <1>7, <1>8, <2>2, <3>1, SettledTakes
  <2> QED BY <1>8, <2>1, <2>3, <2>4 DEF Job
<1> HIDE DEF S, L
<1> QED BY <1>1, <1>4, <1>5, <1>8, CallBegins

-----------------------------------------------------------------------------
(* The file of the backend.                                                *)

\* A request may fail.
MayFail == faults' = faults \/ (faults < MaxFaults /\ faults' = faults + 1)

\* What is said less of a call does not change where it aims.
LEMMA DisturbedAims ==
  ASSUME Typed, NEW S, NEW L, call' = AllDisturbed(S, L)
  PROVE  \A c \in Callers : \A p : Aims(call'[c], p) <=> Aims(call[c], p)
<1> SUFFICES ASSUME NEW c \in Callers, NEW p PROVE Aims(call'[c], p) <=> Aims(call[c], p)
  OBVIOUS
<1>1. call'[c] = Disturbed(call[c], S, L)
  BY DEF AllDisturbed
<1>2. Shortened(call'[c], call[c], S, L)
  BY <1>1, DisturbedCall
<1> QED BY <1>2 DEF Shortened, Aims

\* A step that changes one handle and stores nothing.
LEMMA QuietKeeps ==
  ASSUME IndInv, NEW h \in Handles, file' = [file EXCEPT ![h] = file'[h]], file'[h] \in Row,
         reading' \in [Handles -> SUBSET (Nat \X BOOLEAN)],
         \A o \in Handles \ {h} : reading'[o] = reading[o],
         UNCHANGED <<tree, call, promise, gone, calls>>,
         MayFail,
         file'[h].n = file[h].n, file'[h].mode = file[h].mode,
         file[h].st = "done" => file'[h].st = "done", Handle(h)'
  PROVE  IndInv'
<1> USE DEF IndInv
<1>1. /\ file' = [o \in Handles |-> file'[o]]
      /\ \A o \in Handles \ {h} : Kept(o)
  BY OneChanged
<1>2. file' \in [Handles -> Row] /\ \A o \in Handles : Handle(o)'
  BY <1>1, OthersKept
<1>3. Counted'
  BY GatewayAssumption DEF MayFail, Typed, Counted
<1>4. Typed'
  BY <1>2, <1>3 DEF Typed, IsTree
<1>5. NoNewWriter
  <2>1. (Writing(h)' => Writing(h)) /\ file'[h].n = file[h].n
    BY DEF Writing
  <2> QED BY <1>1, <2>1, KeptWriting DEF NoNewWriter
<1>6. Names'
  BY <1>5, QuietNames
<1> QED BY <1>2, <1>4, <1>6

LEMMA OpenedKeeps ==
  ASSUME IndInv, NEW h \in Handles, NEW front, NEW n, NEW mode \in {"r", "w"},
         NEW st \in {"open", "stat"}, NEW new \in BOOLEAN, NEW tidy \in BOOLEAN,
         Opened(h, front, n, mode, st, new, tidy),
         st = "stat" => front = "ftp", front = "dav" => mode = "w" /\ new
  PROVE  IndInv'
<1> DEFINE g == [Free EXCEPT !.st = st, !.front = front, !.n = n, !.mode = mode, !.new = new,
                             !.tidy = tidy, !.data = IF mode = "r" THEN tree[n] ELSE <<>>]
           L == IF mode = "w" THEN AtOrAbove(n) ELSE {}
<1> USE DEF IndInv
<1>1. /\ file[h].st = "free" /\ front \in {"fuse", "ftp", "dav"} /\ n \in FilePaths
      /\ mode = "r" => Kind(n) = "file"
      /\ file' = [file EXCEPT ![h] = g]
      /\ gone' = gone \ L /\ call' = AllDisturbed({}, L)
      /\ UNCHANGED <<tree, reading, promise, calls, faults>>
  BY GatewayAssumption DEF Opened, Is
<1>2. mode = "r" => n \in DOMAIN tree /\ tree[n] \in Contents /\ Len(tree[n]) =< MaxBlocks
  BY <1>1, KindFile, PathTypes DEF Typed, IsTree
<1>3. reading[h] = {}
  BY <1>1 DEF Handle, Phase
<1>4. /\ g.st = st /\ g.front = front /\ g.n = n /\ g.mode = mode /\ g.new = new /\ g.up = "idle"
      /\ g.data = (IF mode = "r" THEN tree[n] ELSE <<>>) /\ g.last = <<0, "none">> /\ g.ret = "none"
      /\ g \in Row
  <2>1. (IF mode = "r" THEN tree[n] ELSE <<>>) \in Contents /\ n \in Paths
    BY <1>1, <1>2, PathTypes DEF Contents
  <2> DEFINE data == IF mode = "r" THEN tree[n] ELSE <<>>
  <2> HIDE DEF data
  <2>2. g = [Free EXCEPT !.st = st, !.front = front, !.n = n, !.mode = mode, !.new = new,
                         !.tidy = tidy, !.data = data]
    BY DEF data
  <2> HIDE DEF g
  <2>3. data \in Contents
    BY <2>1 DEF data
  <2>4. g = [st |-> st, front |-> front, n |-> n, mode |-> mode, new |-> new, up |-> "idle",
             pos |-> 0, data |-> data, tidy |-> tidy, clean |-> TRUE, last |-> <<0, "none">>,
             ret |-> "none"]
    BY <2>2 DEF Free
  <2>5. <<0, "none">> \in Nat \X (Blocks \cup {"0x00", "eof", "none"})
    OBVIOUS
  <2>6. g \in Row
    BY <1>1, <2>1, <2>3, <2>4, <2>5 DEF Row
  <2> QED BY <2>4, <2>6 DEF data
<1>5. /\ file' = [o \in Handles |-> file'[o]] /\ file'[h] = g
      /\ \A o \in Handles \ {h} : Kept(o)
  BY <1>1, OneChanged DEF Typed
<1> HIDE DEF g
<1>6. Handle(h)'
  <2>1. Phase(h)'
    BY <1>1, <1>3, <1>4, <1>5, GatewayAssumption DEF Phase
  <2>2. Reader(h)'
    BY <1>1, <1>2, <1>3, <1>4, <1>5 DEF Reader
  <2>3. Put(h)'
    BY <1>4, <1>5 DEF Put
  <2> QED BY <2>1, <2>2, <2>3 DEF Handle
<1>7. file' \in [Handles -> Row] /\ \A o \in Handles : Handle(o)'
  BY <1>4, <1>5, <1>6, OthersKept
<1>8. ASSUME NEW p \in Paths, p \notin L, Shut(p) PROVE Shut(p)'
  <2>1. ASSUME NEW o \in Handles, Writing(o)' PROVE ~InTree(p, file'[o].n)
    <3>1. CASE o = h
      BY <1>4, <1>5, <1>8, <2>1, <3>1 DEF Writing, AtOrAbove
    <3>2. CASE o # h
      BY <1>5, <1>8, <2>1, <3>2, KeptWriting DEF Shut
    <3> QED BY <3>1, <3>2
  <2>2. \A c \in Callers : ~Aims(call'[c], p)
    BY <1>1, <1>8, DisturbedAims DEF Shut
  <2> QED BY <2>1, <2>2 DEF Shut
<1> HIDE DEF L
<1>9. call' \in [Callers -> CallRow] /\ Names'
  <2>1. \A p : Same(p)
    BY <1>1 DEF Same
  <2>2. \A m \in DOMAIN promise' : m \in DOMAIN promise /\ promise'[m] = promise[m] /\ Same(m)
    BY <1>1, <2>1
  <2>3. \A p \in Paths, x \in DOMAIN tree' : p \notin L /\ Shut(p) /\ InTree(p, x) => x \in DOMAIN tree
    BY <1>1
  <2> QED BY <1>1, <1>8, <2>1, <2>2, <2>3, DisturbedKeeps
<1>10. Typed'
  BY <1>1, <1>7, <1>9 DEF Typed, Counted, IsTree
<1> QED BY <1>7, <1>9, <1>10

\* A step of a handle that is open for writing, which may store the file at its path.
LEMMA StoreKeeps ==
  ASSUME IndInv, NEW h \in Handles, Writing(h), file[h].n \in FilePaths, NEW g \in Row,
         g.n = file[h].n, g.mode = "w",
         NEW data \in Contents, Len(data) =< MaxBlocks,
         Stored(h, data, g) \/ Unstored(h, g), reading' = reading, gone' = gone, Counted',
         call' = AllDisturbed({file[h].n}, {}), DOMAIN promise' \subseteq FilePaths, Handle(h)',
         \A m \in DOMAIN promise' :
           \/ m # file[h].n /\ m \in DOMAIN promise /\ promise'[m] = promise[m]
           \/ /\ m \in DOMAIN tree' /\ tree'[m] = promise'[m]
              /\ \A c \in Callers : ~Works(call[c], m)
  PROVE  IndInv'
<1> USE DEF IndInv
<1>1. /\ file' = [o \in Handles |-> file'[o]] /\ file'[h] = g /\ \A o \in Handles \ {h} : Kept(o)
      /\ IsTree(tree')
      /\ DOMAIN tree' \subseteq DOMAIN tree \cup {file[h].n}
      /\ DOMAIN tree \subseteq DOMAIN tree'
      /\ \A m \in DOMAIN tree : m # file[h].n => m \in DOMAIN tree' /\ tree'[m] = tree[m]
  <2>1. CASE Stored(h, data, g)
    <3>1. /\ IsTree(tree')
          /\ DOMAIN tree' = DOMAIN tree \cup {file[h].n} /\ tree'[file[h].n] = data
          /\ \A p \in DOMAIN tree : p # file[h].n => tree'[p] = tree[p]
          /\ file' = [o \in Handles |-> file'[o]] /\ file'[h] = g
          /\ \A o \in Handles \ {h} : Kept(o)
      BY <2>1, StoredAt
    <3> QED BY <3>1
  <2>2. CASE Unstored(h, g)
    <3>1. file' = [file EXCEPT ![h] = g] /\ tree' = tree
      BY <2>2 DEF Unstored
    <3>2. /\ file' = [o \in Handles |-> file'[o]] /\ file'[h] = g
          /\ \A o \in Handles \ {h} : Kept(o)
      BY <3>1, OneChanged
    <3> QED BY <3>1, <3>2 DEF Typed, IsTree
  <2> QED BY <2>1, <2>2
<1>2. file' \in [Handles -> Row] /\ \A o \in Handles : Handle(o)'
  BY <1>1, OthersKept
<1>3. NoNewWriter
  BY <1>1, KeptWriting DEF NoNewWriter, Writing
<1>4. \A m : m # file[h].n => Same(m)
  BY <1>1 DEF Same
<1>5. ASSUME NEW p \in Paths, Shut(p)
      PROVE  Shut(p)' /\ \A x \in DOMAIN tree' : InTree(p, x) => x \in DOMAIN tree
  <2>1. \A c \in Callers : ~Aims(call'[c], p)
    BY <1>5, DisturbedAims DEF Shut
  <2>2. Shut(p)'
    BY <1>3, <1>5, <2>1 DEF Shut, NoNewWriter
  <2>3. ~InTree(p, file[h].n)
    BY <1>5 DEF Shut
  <2> QED BY <1>1, <2>2, <2>3
<1>6. call' \in [Callers -> CallRow] /\ Names'
  <2>1. \A p \in FilePaths : p \notin {file[h].n} => Same(p)
    BY <1>4
  <2>2. \A m \in DOMAIN promise' :
          \/ m \in DOMAIN promise /\ promise'[m] = promise[m] /\ Same(m)
          \/ /\ m \in DOMAIN tree' /\ tree'[m] = promise'[m]
             /\ \A c \in Callers : ~Works(call[c], m)
    BY <1>4
  <2>3. gone' \subseteq gone \ {}
    OBVIOUS
  <2> QED BY <1>5, <2>1, <2>2, <2>3, DisturbedKeeps
<1>7. Typed'
  BY <1>1, <1>2, <1>6 DEF Typed
<1> QED BY <1>2, <1>6, <1>7

\* A Write that stores the placeholder, or buffers a block, keeps the invariant: the
\* only path it changes is the handle's own, and it is a file from then on.
LEMMA WritesKeeps ==
  ASSUME IndInv, NEW h \in Handles, NEW b \in Data, NEW inOrder \in BOOLEAN, Writes(h, b, inOrder)
  PROVE  IndInv'
<1> DEFINE f == file[h]
           taken == [f EXCEPT !.up = "running", !.data = Append(@, b), !.tidy = @ /\ inOrder]
           refused == [f EXCEPT !.up = "failed", !.ret = "err"]
<1> USE DEF IndInv
<1>1. /\ f.st = "open" /\ f.mode = "w" /\ f.up # "failed" /\ Len(f.data) < MaxBlocks
      /\ promise' = Without(promise, {f.n}) /\ call' = AllDisturbed({f.n}, {})
      /\ \/ FirstWrite(h, taken) /\ UNCHANGED faults
         \/ /\ faults < MaxFaults /\ faults' = faults + 1
            /\ FirstWrite(h, refused) \/ Unstored(h, refused)
      /\ UNCHANGED <<reading, gone, calls>>
  BY DEF Writes
<1>2. f \in Row /\ f.n \in FilePaths /\ f.data \in Contents /\ MaxBlocks \in Nat
  BY <1>1, GatewayAssumption DEF Typed, Handle, Phase, Row
<1>3. Append(f.data, b) \in Contents /\ Len(Append(f.data, b)) =< MaxBlocks /\ Append(f.data, b) # <<>>
  <2>1. f.data \in Seq(Blocks \cup {"0x00"}) /\ b \in Blocks \cup {"0x00"}
    BY <1>2, GatewayAssumption DEF Contents
  <2>2. /\ Append(f.data, b) \in Seq(Blocks \cup {"0x00"}) /\ Append(f.data, b) # <<>>
        /\ Len(Append(f.data, b)) = Len(f.data) + 1 /\ Len(f.data) \in Nat
    BY <2>1, AppendProperties
  <2>3. Len(f.data) < MaxBlocks /\ MaxBlocks \in Nat
    BY <1>1, <1>2
  <2> QED BY <2>2, <2>3 DEF Contents
<1>4. Placeholder \in Contents /\ Len(Placeholder) =< MaxBlocks
  BY GatewayAssumption DEF Placeholder, Contents
<1>5. Counted'
  BY <1>1, GatewayAssumption DEF Typed, Counted
<1>6. DOMAIN promise' \subseteq FilePaths /\ Writing(h)
  BY <1>1 DEF Typed, Without, Writing
<1>7. /\ taken \in Row /\ taken.st = "open" /\ taken.front = f.front /\ taken.n = f.n
      /\ taken.mode = "w" /\ taken.new = f.new /\ taken.up = "running"
      /\ taken.data = Append(f.data, b) /\ taken.clean = f.clean /\ taken.ret = f.ret
  BY <1>1, <1>2, <1>3 DEF Row
<1>8. /\ refused \in Row /\ refused.st = "open" /\ refused.front = f.front /\ refused.n = f.n
      /\ refused.mode = "w" /\ refused.new = f.new /\ refused.up = "failed"
      /\ refused.data = f.data /\ refused.clean = f.clean /\ refused.ret = "err"
  BY <1>1, <1>2 DEF Row
<1> HIDE DEF taken, refused
<1>9. /\ f.front = "dav" => f.new /\ f.ret # "refused"
      /\ f.up # "running" => f.up = "idle"
      /\ f.up = "running" => f.data # <<>>
      /\ f.front = "dav" /\ f.clean /\ f.data # <<>> => f.n \in DOMAIN tree
  BY <1>1, <1>2 DEF Handle, Phase, Put, Row
<1>10. reading[h] = {}
  BY <1>1 DEF Handle, Phase
<1>11. ASSUME NEW g \in {taken, refused},
              Stored(h, Placeholder, g) \/ Unstored(h, g),
              g = taken /\ f.new /\ f.up = "idle" => Stored(h, Placeholder, g)
       PROVE  IndInv'
  <2>1. g \in Row /\ g.n = f.n /\ g.mode = "w" /\ g.front = f.front /\ g.clean = f.clean
    BY <1>7, <1>8
  <2>2. file'[h] = g /\ DOMAIN tree \subseteq DOMAIN tree'
        /\ (Stored(h, Placeholder, g) => f.n \in DOMAIN tree')
    <3>1. CASE Stored(h, Placeholder, g)
      <4>1. Typed /\ file[h].n \in FilePaths /\ reading' = reading
        BY <1>1, <1>2
      <4>2. DOMAIN tree' = DOMAIN tree \cup {f.n} /\ file'[h] = g
        BY <1>4, <3>1, <4>1, StoredAt
      <4> QED BY <4>2
    <3>2. CASE ~Stored(h, Placeholder, g)
      BY <1>11, <3>2 DEF Unstored, Typed
    <3> QED BY <3>1, <3>2
  <2>3. Phase(h)'
    <3>1. g.st = "open" /\ g.up # "idle" /\ Len(g.data) =< MaxBlocks /\ (g.up = "running" => g.data # <<>>)
          /\ g.new = f.new /\ (g.ret = "refused" => f.ret = "refused")
      BY <1>1, <1>2, <1>3, <1>7, <1>8 DEF Contents
    <3> QED BY <1>1, <1>2, <1>9, <1>10, <2>1, <2>2, <3>1 DEF Phase
  <2>4. Reader(h)'
    BY <2>1, <2>2 DEF Reader
  <2>5. Put(h)'
    <3>1. CASE g = taken
      <4>1. f.front = "dav" /\ f.clean => f.n \in DOMAIN tree'
        BY <1>9, <1>11, <2>2, <3>1
      <4> QED BY <1>7, <1>9, <2>1, <2>2, <3>1, <4>1 DEF Put
    <3>2. CASE g = refused
      BY <1>8, <1>9, <2>1, <2>2, <3>2 DEF Put
    <3> QED BY <3>1, <3>2
  <2>6. Handle(h)'
    BY <2>3, <2>4, <2>5 DEF Handle
  <2>7. \A m \in DOMAIN promise' : m # f.n /\ m \in DOMAIN promise /\ promise'[m] = promise[m]
    BY <1>1 DEF Without
  <2> QED BY <1>1, <1>2, <1>4, <1>5, <1>6, <1>11, <2>1, <2>6, <2>7, StoreKeeps
<1>12. CASE FirstWrite(h, taken)
  BY <1>11, <1>12 DEF FirstWrite
<1>13. CASE FirstWrite(h, refused) \/ Unstored(h, refused)
  <2>1. taken # refused
    BY <1>7, <1>8
  <2> QED BY <1>11, <1>13, <2>1 DEF FirstWrite
<1> QED BY <1>1, <1>12, <1>13

\* A Close, whose upload is carried out or not, keeps the invariant.
LEMMA CloseKeeps ==
  ASSUME IndInv, NEW h \in Handles, Close(h)
  PROVE  IndInv'
<1> DEFINE f == file[h]
           n == f.n
<1> USE DEF IndInv
<1>1. f.st = "closing" /\ UNCHANGED <<reading, gone, calls>> /\ f \in Row /\ n \in FilePaths
  BY DEF Close, Typed, Handle, Phase
<1>2. reading[h] = {} /\ (f.up # "idle" => f.mode = "w")
      /\ f.data \in Contents /\ (f.mode = "w" => Len(f.data) =< MaxBlocks)
  BY <1>1 DEF Handle, Phase, Row
<1>3. ASSUME NEW ret \in {"ok", "err"}
      PROVE  LET g == Ended(h, ret) IN
             /\ g \in Row /\ g.st = "done" /\ g.front = f.front /\ g.n = n /\ g.mode = f.mode
             /\ g.new = f.new /\ g.up = f.up /\ g.pos = f.pos /\ g.data = f.data /\ g.tidy = f.tidy
             /\ g.clean = f.clean /\ g.last = f.last /\ g.ret # "none"
             /\ (g.ret = "refused" => f.ret = "refused")
  BY <1>1 DEF Ended, Row
\* The handle after a step that stores nothing, or the file.
<1>4. ASSUME NEW ret \in {"ok", "err"}, file'[h] = Ended(h, ret),
             n \in DOMAIN tree => n \in DOMAIN tree',
             f.mode = "r" => tree' = tree
      PROVE  Handle(h)'
  <2> DEFINE g == file'[h]
  <2>1. /\ g.st = "done" /\ g.front = f.front /\ g.n = n /\ g.mode = f.mode
        /\ g.new = f.new /\ g.up = f.up /\ g.pos = f.pos /\ g.data = f.data /\ g.tidy = f.tidy
        /\ g.clean = f.clean /\ g.last = f.last /\ g.ret # "none"
        /\ (g.ret = "refused" => f.ret = "refused")
    BY <1>3, <1>4
  <2> HIDE DEF g
  <2>2. Phase(h)'
    <3>1. /\ f.front = "dav" => f.mode = "w" /\ f.new
          /\ f.up # "idle" => f.mode = "w"
          /\ f.up = "running" => f.data # <<>>
          /\ f.mode = "w" => Len(f.data) =< MaxBlocks
      BY DEF Handle, Phase
    <3> QED BY <1>1, <1>2, <2>1, <3>1 DEF Phase, g
  <2>3. Reader(h)'
    <3>1. f.mode = "r" /\ f.clean => n \in DOMAIN tree /\ tree[n] = f.data
      BY <1>1 DEF Handle, Reader
    <3>2. f.mode = "r" /\ f.tidy /\ f.last[2] # "none" => f.last[2] = At(f.data, f.last[1])
      BY DEF Handle, Reader
    <3> QED BY <1>1, <1>2, <1>4, <2>1, <3>1, <3>2 DEF Reader, g
  <2>4. Put(h)'
    BY <1>4, <2>1 DEF Put, Handle, g
  <2> QED BY <2>2, <2>3, <2>4 DEF Handle
\* It has nothing to store...
<1>5. ASSUME NEW ret \in {"ok", "err"}, Unstored(h, Ended(h, ret)), UNCHANGED <<call, promise, faults>>
      PROVE  IndInv'
  <2>1. file' = [file EXCEPT ![h] = Ended(h, ret)] /\ tree' = tree
    BY <1>5 DEF Unstored
  <2>2. file'[h] = Ended(h, ret)
    BY <2>1 DEF Typed
  <2>3. /\ file'[h] \in Row /\ Handle(h)' /\ file'[h].st = "done"
        /\ file'[h].n = file[h].n /\ file'[h].mode = file[h].mode
    BY <1>3, <1>4, <2>1, <2>2
  <2>4. /\ reading' \in [Handles -> SUBSET (Nat \X BOOLEAN)]
        /\ \A o \in Handles \ {h} : reading'[o] = reading[o]
    BY <1>1 DEF Typed
  <2> QED BY <1>1, <1>5, <2>1, <2>2, <2>3, <2>4, QuietKeeps DEF MayFail
\* ...or stores its file, if the request does not fail.
<1>6. ASSUME NEW ret \in {"ok", "err"}, Counted', f.mode = "w", call' = AllDisturbed({n}, {}),
             Stored(h, f.data, Ended(h, ret)) \/ Unstored(h, Ended(h, ret)),
             \/ promise' = Without(promise, {n})
             \/ /\ promise' = Placed(promise, n, f.data) /\ Stored(h, f.data, Ended(h, ret))
                /\ \A c \in Callers : ~Works(call[c], n)
      PROVE  IndInv'
  <2>1. Writing(h) /\ Len(f.data) =< MaxBlocks
    BY <1>1, <1>2, <1>6 DEF Writing
  <2>2. /\ file'[h] = Ended(h, ret) /\ DOMAIN tree \subseteq DOMAIN tree'
        /\ Stored(h, f.data, Ended(h, ret)) => n \in DOMAIN tree' /\ tree'[n] = f.data
    <3>1. CASE Stored(h, f.data, Ended(h, ret))
      <4>1. Typed /\ file[h].n \in FilePaths /\ reading' = reading /\ f.data \in Contents
        BY <1>1, <1>2
      <4>2. Len(f.data) =< MaxBlocks
        BY <2>1
      <4>3. DOMAIN tree' = DOMAIN tree \cup {n} /\ tree'[n] = f.data
        BY <3>1 DEF Stored, Placed
      <4>4. file'[h] = Ended(h, ret)
        BY <3>1, <4>1, <4>2, StoredAt
      <4> QED BY <4>3, <4>4
    <3>2. CASE ~Stored(h, f.data, Ended(h, ret))
      BY <1>6, <3>2 DEF Unstored, Typed
    <3> QED BY <3>1, <3>2
  <2>3. Ended(h, ret) \in Row /\ Ended(h, ret).n = n /\ Ended(h, ret).mode = "w"
    BY <1>3, <1>6
  <2>4. Handle(h)'
    BY <1>4, <1>6, <2>2
  <2>5. DOMAIN promise' \subseteq FilePaths
    BY <1>1, <1>6 DEF Placed, Without, Typed
  <2>6. \A m \in DOMAIN promise' :
          \/ m # n /\ m \in DOMAIN promise /\ promise'[m] = promise[m]
          \/ /\ m \in DOMAIN tree' /\ tree'[m] = promise'[m]
             /\ \A c \in Callers : ~Works(call[c], m)
    <3>1. CASE promise' = Without(promise, {n})
      BY <3>1 DEF Without
    <3>2. CASE promise' = Placed(promise, n, f.data) /\ Stored(h, f.data, Ended(h, ret))
                 /\ \A c \in Callers : ~Works(call[c], n)
      BY <2>2, <3>2 DEF Placed
    <3> QED BY <1>6, <3>1, <3>2
  <2> QED BY <1>1, <1>2, <1>6, <2>1, <2>3, <2>4, <2>5, <2>6, StoreKeeps
<1>7. CASE UNCHANGED <<call, promise, faults>> /\ \E ret \in {"ok", "err"} : Unstored(h, Ended(h, ret))
  BY <1>5, <1>7
<1>8. CASE /\ f.up = "running" /\ Stored(h, f.data, Ended(h, "ok")) /\ UNCHANGED faults
           /\ call' = AllDisturbed({n}, {})
           /\ \/ promise' = Without(promise, {n})
              \/ promise' = Placed(promise, n, f.data) /\ ~\E c \in Callers : Works(call[c], n)
  <2>1. Counted'
    BY <1>1, <1>8 DEF Typed, Counted
  <2> QED BY <1>2, <1>6, <1>8, <2>1
<1>9. CASE /\ f.up = "running" /\ faults < MaxFaults /\ faults' = faults + 1
           /\ call' = AllDisturbed({n}, {}) /\ promise' = Without(promise, {n})
           /\ Stored(h, f.data, Ended(h, "err")) \/ Unstored(h, Ended(h, "err"))
  <2>1. Counted'
    BY <1>1, <1>9, GatewayAssumption DEF Typed, Counted
  <2> QED BY <1>2, <1>6, <1>9, <2>1
<1>10. \/ UNCHANGED <<call, promise, faults>> /\ \E ret \in {"ok", "err"} : Unstored(h, Ended(h, ret))
       \/ /\ f.up = "running" /\ Stored(h, f.data, Ended(h, "ok")) /\ UNCHANGED faults
          /\ call' = AllDisturbed({n}, {})
          /\ \/ promise' = Without(promise, {n})
             \/ promise' = Placed(promise, n, f.data) /\ ~\E c \in Callers : Works(call[c], n)
       \/ /\ f.up = "running" /\ faults < MaxFaults /\ faults' = faults + 1
          /\ call' = AllDisturbed({n}, {}) /\ promise' = Without(promise, {n})
          /\ Stored(h, f.data, Ended(h, "err")) \/ Unstored(h, Ended(h, "err"))
  BY DEF Close
<1> QED BY <1>7, <1>8, <1>9, <1>10

-----------------------------------------------------------------------------
(* Reads, and what a front does to a file next.                            *)

\* A READ that the kernel sends keeps the invariant: it enters the reads in flight.
LEMMA FuseReadKeeps ==
  ASSUME IndInv, NEW h \in Handles, NEW off \in 0..MaxBlocks, FuseRead(h, off)
  PROVE  IndInv'
<1> DEFINE f == file[h]
           g == file'[h]
           tidy == f.tidy /\ reading[h] = {} /\ (off = 0 => f.pos = 0)
<1>1. /\ f.st = "open" /\ f.mode = "r" /\ off \in Nat /\ f \in Row
      /\ f.tidy \in BOOLEAN /\ Typed /\ Handle(h)
  BY GatewayAssumption DEF FuseRead, IndInv, Typed, Row
<1>2. /\ reading' = [reading EXCEPT ![h] = @ \cup {<<off, off = 0>>}]
      /\ UNCHANGED <<tree, call, promise, gone, calls, faults>>
      /\ file' = [file EXCEPT ![h].tidy = @ /\ reading[h] = {} /\ (off = 0 => file[h].pos = 0)]
  BY DEF FuseRead
<1>3. /\ file' = [file EXCEPT ![h] = g] /\ g = [f EXCEPT !.tidy = tidy]
  BY <1>1, <1>2 DEF Typed
<1>4. /\ g \in Row /\ g.st = f.st /\ g.front = f.front /\ g.n = f.n /\ g.mode = f.mode
      /\ g.new = f.new /\ g.up = f.up /\ g.pos = f.pos /\ g.data = f.data /\ g.clean = f.clean
      /\ g.last = f.last /\ g.ret = f.ret /\ (g.tidy <=> tidy)
  BY <1>1, <1>3 DEF Row
<1>5. <<off, off = 0>> \in Nat \X BOOLEAN
  BY <1>1
<1>6. /\ reading' \in [Handles -> SUBSET (Nat \X BOOLEAN)]
      /\ reading'[h] = reading[h] \cup {<<off, off = 0>>}
      /\ \A o \in Handles \ {h} : reading'[o] = reading[o]
  BY <1>1, <1>2, <1>5 DEF Typed
<1> HIDE DEF g
<1>7. Phase(h)'
  BY <1>1, <1>4, <1>6 DEF Handle, Phase, g
<1>8. Reader(h)'
  <2>1. f.clean => f.n \in DOMAIN tree /\ tree[f.n] = f.data
    BY <1>1 DEF Handle, Reader
  <2>2. f.tidy /\ f.last[2] # "none" => f.last[2] = At(f.data, f.last[1])
    BY <1>1 DEF Handle, Reader
  <2>3. ASSUME g.tidy
        PROVE  /\ \A r, s \in reading'[h] : r = s
               /\ \A r \in reading'[h] : r[2] => f.pos = r[1]
    <3>1. reading'[h] = {<<off, off = 0>>} /\ (off = 0 => f.pos = 0)
      BY <1>4, <1>6, <2>3
    <3>2. <<off, off = 0>>[1] = off /\ (<<off, off = 0>>[2] <=> off = 0)
      OBVIOUS
    <3> DEFINE read == <<off, off = 0>>
    <3>3. read[2] => f.pos = read[1]
      <4>1. CASE off = 0
        BY <3>1, <3>2, <4>1
      <4>2. CASE off # 0
        BY <3>2, <4>2
      <4> QED BY <4>1, <4>2
    <3> HIDE DEF read
    <3>4. reading'[h] = {read}
      BY <3>1 DEF read
    <3> QED BY <3>3, <3>4
  <2> QED BY <1>1, <1>2, <1>4, <2>1, <2>2, <2>3 DEF Reader, g
<1>9. Put(h)'
  BY <1>1, <1>2, <1>4 DEF Handle, Put, g
<1> QED BY <1>1, <1>2, <1>3, <1>4, <1>6, <1>7, <1>8, <1>9, QuietKeeps DEF MayFail, Handle, g

\* The Seek of a READ keeps the invariant: alone in flight, it leaves the position at the
\* offset that was asked for.
LEMMA SeekKeeps ==
  ASSUME IndInv, NEW h \in Handles, NEW r \in reading[h], Seek(h, r)
  PROVE  IndInv'
<1> DEFINE f == file[h]
           g == file'[h]
<1>1. /\ f.st = "open" /\ f.mode = "r" /\ r \in Nat \X BOOLEAN /\ f \in Row /\ Typed /\ Handle(h)
  BY DEF IndInv, Typed, Handle, Phase
<1>2. /\ reading' = [reading EXCEPT ![h] = (@ \ {r}) \cup {<<r[1], TRUE>>}]
      /\ UNCHANGED <<tree, call, promise, gone, calls, faults>>
      /\ file' = [file EXCEPT ![h].pos = r[1]]
  BY DEF Seek
<1>3. r[1] \in Nat /\ <<r[1], TRUE>> \in Nat \X BOOLEAN
  BY <1>1
<1>4. file' = [file EXCEPT ![h] = g] /\ g = [f EXCEPT !.pos = r[1]]
  BY <1>1, <1>2 DEF Typed
<1>5. /\ g \in Row /\ g.st = f.st /\ g.front = f.front /\ g.n = f.n /\ g.mode = f.mode
      /\ g.new = f.new /\ g.up = f.up /\ g.pos = r[1] /\ g.data = f.data /\ g.clean = f.clean
      /\ g.last = f.last /\ g.ret = f.ret /\ g.tidy = f.tidy
  BY <1>1, <1>3, <1>4 DEF Row
<1>6. /\ reading' \in [Handles -> SUBSET (Nat \X BOOLEAN)]
      /\ reading'[h] = (reading[h] \ {r}) \cup {<<r[1], TRUE>>}
      /\ \A o \in Handles \ {h} : reading'[o] = reading[o]
  BY <1>1, <1>2, <1>3 DEF Typed
<1> HIDE DEF g
<1>7. Phase(h)'
  BY <1>1, <1>5, <1>6 DEF Handle, Phase, g
<1>8. Reader(h)'
  <2>1. f.clean => f.n \in DOMAIN tree /\ tree[f.n] = f.data
    BY <1>1 DEF Handle, Reader
  <2>2. f.tidy => /\ \A s, t \in reading[h] : s = t
                  /\ f.last[2] # "none" => f.last[2] = At(f.data, f.last[1])
    BY <1>1 DEF Handle, Reader
  <2>3. ASSUME f.tidy
        PROVE  /\ \A s, t \in reading'[h] : s = t
               /\ \A s \in reading'[h] : s[2] => r[1] = s[1]
    <3>1. reading'[h] = {<<r[1], TRUE>>}
      BY <1>6, <2>2, <2>3
    <3> QED BY <3>1
  <2> QED BY <1>1, <1>2, <1>5, <2>1, <2>2, <2>3 DEF Reader, g
<1>9. Put(h)'
  BY <1>1, <1>2, <1>5 DEF Handle, Put, g
<1> QED BY <1>1, <1>2, <1>4, <1>5, <1>6, <1>7, <1>8, <1>9, QuietKeeps DEF MayFail, Handle, g

\* What is read at a position of a file is a sequence of its blocks.
LEMMA AtTypes ==
  ASSUME NEW data \in Contents, NEW k \in Nat
  PROVE  At(data, k) \in Blocks \cup {"0x00", "eof", "none"}
<1>1. CASE k < Len(data)
  <2>1. data[k + 1] \in Blocks \cup {"0x00"}
    BY <1>1 DEF Contents
  <2> QED BY <1>1, <2>1 DEF At
<1>2. CASE ~(k < Len(data))
  BY <1>2 DEF At
<1> QED BY <1>1, <1>2

\* The Read of a READ keeps the invariant: alone in flight, it reads where its Seek left
\* the position.
LEMMA ReadKeeps ==
  ASSUME IndInv, NEW h \in Handles, NEW r \in reading[h], Read(h, r)
  PROVE  IndInv'
<1> DEFINE f == file[h]
           g == file'[h]
           next == IF f.pos < Len(f.data) THEN f.pos + 1 ELSE f.pos
           last == IF f.clean THEN <<r[1], At(tree[f.n], f.pos)>> ELSE Free.last
<1>1. /\ f.st = "open" /\ f.mode = "r" /\ r \in Nat \X BOOLEAN /\ f \in Row /\ Typed /\ Handle(h)
      /\ f.data \in Contents /\ f.pos \in Nat /\ r[1] \in Nat
  BY DEF IndInv, Typed, Handle, Phase, Row
<1>2. /\ reading' = [reading EXCEPT ![h] = @ \ {r}] /\ r[2]
      /\ UNCHANGED <<tree, call, promise, gone, calls, faults>>
      /\ file' = [file EXCEPT ![h].pos = IF @ < Len(f.data) THEN @ + 1 ELSE @,
                              ![h].last = IF f.clean THEN <<r[1], At(tree[f.n], f.pos)>> ELSE Free.last]
  BY DEF Read
<1>3. f.clean => f.n \in DOMAIN tree /\ tree[f.n] = f.data
  BY <1>1 DEF Handle, Reader
<1>4. next \in Nat /\ last \in Nat \X (Blocks \cup {"0x00", "eof", "none"})
  <2>1. next \in Nat
    BY <1>1
  <2>2. CASE f.clean
    <3>1. At(tree[f.n], f.pos) \in Blocks \cup {"0x00", "eof", "none"}
      BY <1>1, <1>3, <2>2, AtTypes
    <3> QED BY <1>1, <2>1, <2>2, <3>1
  <2>3. CASE ~f.clean
    <3>1. last = <<0, "none">>
      BY <2>3 DEF Free
    <3> QED BY <2>1, <3>1
  <2> QED BY <2>2, <2>3
<1>5. file' = [file EXCEPT ![h] = g] /\ g = [f EXCEPT !.pos = next, !.last = last]
  BY <1>1, <1>2 DEF Typed
<1>6. f.tidy /\ last[2] # "none" => last[2] = At(f.data, last[1])
  <2>1. CASE f.clean /\ f.tidy
    <3>1. f.pos = r[1]
      BY <1>1, <1>2, <2>1 DEF Handle, Reader
    <3> QED BY <1>3, <2>1, <3>1
  <2>2. CASE ~f.clean
    BY <2>2 DEF Free
  <2> QED BY <2>1, <2>2
<1> HIDE DEF next, last
<1>7. /\ g \in Row /\ g.st = f.st /\ g.front = f.front /\ g.n = f.n /\ g.mode = f.mode
      /\ g.new = f.new /\ g.up = f.up /\ g.data = f.data /\ g.clean = f.clean
      /\ g.last = last /\ g.ret = f.ret /\ g.tidy = f.tidy
  BY <1>1, <1>4, <1>5 DEF Row
<1>8. /\ reading' \in [Handles -> SUBSET (Nat \X BOOLEAN)]
      /\ reading'[h] = reading[h] \ {r}
      /\ \A o \in Handles \ {h} : reading'[o] = reading[o]
  BY <1>1, <1>2 DEF Typed
<1> HIDE DEF g
<1>9. Phase(h)'
  BY <1>1, <1>7, <1>8 DEF Handle, Phase, g
<1>10. Reader(h)'
  <2>1. f.tidy => reading'[h] = {}
    BY <1>1, <1>8 DEF Handle, Reader
  <2> QED BY <1>1, <1>2, <1>3, <1>6, <1>7, <2>1 DEF Reader, g
<1>11. Put(h)'
  BY <1>1, <1>2, <1>7 DEF Handle, Put, g
<1> QED BY <1>1, <1>2, <1>5, <1>7, <1>8, <1>9, <1>10, <1>11, QuietKeeps DEF MayFail, Handle, g

\* A READ that fails keeps the invariant: it says nothing of what was read.
LEMMA ReadFailsKeeps ==
  ASSUME IndInv, NEW h \in Handles, NEW r \in reading[h], ReadFails(h, r)
  PROVE  IndInv'
<1> DEFINE f == file[h]
           g == file'[h]
<1>1. /\ f.st = "open" /\ f.mode = "r" /\ f \in Row /\ Typed /\ Handle(h)
  BY DEF IndInv, Typed, Handle, Phase
<1>2. /\ reading' = [reading EXCEPT ![h] = @ \ {r}]
      /\ faults < MaxFaults /\ faults' = faults + 1
      /\ UNCHANGED <<tree, call, promise, gone, calls>>
      /\ file' = [file EXCEPT ![h].last = Free.last]
  BY DEF ReadFails
<1>3. Free.last = <<0, "none">> /\ Free.last \in Nat \X (Blocks \cup {"0x00", "eof", "none"})
  BY DEF Free
<1>4. file' = [file EXCEPT ![h] = g] /\ g = [f EXCEPT !.last = Free.last]
  BY <1>1, <1>2 DEF Typed
<1>5. /\ g \in Row /\ g.st = f.st /\ g.front = f.front /\ g.n = f.n /\ g.mode = f.mode
      /\ g.new = f.new /\ g.up = f.up /\ g.pos = f.pos /\ g.data = f.data /\ g.clean = f.clean
      /\ g.last = <<0, "none">> /\ g.ret = f.ret /\ g.tidy = f.tidy
  BY <1>1, <1>3, <1>4 DEF Row
<1>6. /\ reading' \in [Handles -> SUBSET (Nat \X BOOLEAN)]
      /\ reading'[h] = reading[h] \ {r}
      /\ \A o \in Handles \ {h} : reading'[o] = reading[o]
  BY <1>1, <1>2 DEF Typed
<1> HIDE DEF g
<1>7. Phase(h)'
  BY <1>1, <1>5, <1>6 DEF Handle, Phase, g
<1>8. Reader(h)'
  <2>1. f.clean => f.n \in DOMAIN tree /\ tree[f.n] = f.data
    BY <1>1 DEF Handle, Reader
  <2>2. f.tidy => reading'[h] = {}
    BY <1>1, <1>6 DEF Handle, Reader
  <2> QED BY <1>1, <1>2, <1>5, <2>1, <2>2 DEF Reader, g
<1>9. Put(h)'
  BY <1>1, <1>2, <1>5 DEF Handle, Put, g
<1> QED BY <1>1, <1>2, <1>4, <1>5, <1>6, <1>7, <1>8, <1>9, QuietKeeps DEF MayFail, Handle, g

\* A Read of the FTP server keeps the invariant: nothing else moves its position.
LEMMA FtpReadKeeps ==
  ASSUME IndInv, NEW h \in Handles, FtpRead(h)
  PROVE  IndInv'
<1> DEFINE f == file[h]
<1>1. /\ f.st = "open" /\ f.mode = "r" /\ reading[h] = {} /\ f \in Row /\ Typed /\ Handle(h)
      /\ f.pos \in Nat /\ <<f.pos, TRUE>> \in Nat \X BOOLEAN
  BY DEF FtpRead, Is, IndInv, Typed, Row
<1>2. /\ reading' = [reading EXCEPT ![h] = {<<f.pos, TRUE>>}]
      /\ UNCHANGED <<tree, file, call, promise, gone, calls, faults>>
  BY DEF FtpRead
<1>3. /\ reading' \in [Handles -> SUBSET (Nat \X BOOLEAN)]
      /\ reading'[h] = {<<f.pos, TRUE>>}
      /\ \A o \in Handles \ {h} : reading'[o] = reading[o]
  BY <1>1, <1>2 DEF Typed
<1>4. Phase(h)'
  BY <1>1, <1>2 DEF Handle, Phase
<1>5. Reader(h)'
  <2>1. /\ \A s, t \in reading'[h] : s = t
        /\ \A s \in reading'[h] : s[2] => f.pos = s[1]
    BY <1>3
  <2>2. f.clean => f.n \in DOMAIN tree /\ tree[f.n] = f.data
    BY <1>1 DEF Handle, Reader
  <2>3. f.tidy /\ f.last[2] # "none" => f.last[2] = At(f.data, f.last[1])
    BY <1>1 DEF Handle, Reader
  <2> QED BY <1>2, <2>1, <2>2, <2>3 DEF Reader
<1>6. Put(h)'
  BY <1>1, <1>2 DEF Handle, Put
<1>7. file' = [file EXCEPT ![h] = file'[h]] /\ file'[h] = f
  BY <1>1, <1>2 DEF Typed
<1> QED BY <1>1, <1>2, <1>3, <1>4, <1>5, <1>6, <1>7, QuietKeeps DEF MayFail, Handle

\* A step that changes how far a handle is, and what its front has been answered.
LEMMA PhaseKeeps ==
  ASSUME IndInv, NEW h \in Handles, NEW st \in {"open", "closing", "done"},
         NEW ret \in {"none", "ok", "err", "refused"},
         file' = [file EXCEPT ![h].st = st, ![h].ret = ret],
         UNCHANGED <<tree, reading, call, promise, gone, calls>>,
         MayFail,
         file[h].st \notin {"free", "done"}, st = "open" => file[h].front = "ftp",
         reading[h] = {}, st = "done" => ret # "none",
         file[h].front = "dav" /\ ret = "refused" => st # "open" /\ (file[h].clean => file[h].data = <<>>)
  PROVE  IndInv'
<1> DEFINE f == file[h]
           g == file'[h]
<1>1. f \in Row /\ Typed /\ Handle(h)
  BY DEF IndInv, Typed
<1>2. file' = [file EXCEPT ![h] = g] /\ g = [f EXCEPT !.st = st, !.ret = ret]
  BY <1>1 DEF Typed
<1>3. /\ g \in Row /\ g.st = st /\ g.front = f.front /\ g.n = f.n /\ g.mode = f.mode
      /\ g.new = f.new /\ g.up = f.up /\ g.pos = f.pos /\ g.data = f.data /\ g.clean = f.clean
      /\ g.last = f.last /\ g.ret = ret /\ g.tidy = f.tidy
  <2>1. [f EXCEPT !.st = st] \in Row
    BY <1>1 DEF Row
  <2>2. [[f EXCEPT !.st = st] EXCEPT !.ret = ret] \in Row
    BY <2>1 DEF Row
  <2>3. g = [[f EXCEPT !.st = st] EXCEPT !.ret = ret]
    BY <1>1, <1>2 DEF Row
  <2>4. /\ g.st = st /\ g.front = f.front /\ g.n = f.n /\ g.mode = f.mode
        /\ g.new = f.new /\ g.up = f.up /\ g.pos = f.pos /\ g.data = f.data /\ g.clean = f.clean
        /\ g.last = f.last /\ g.ret = ret /\ g.tidy = f.tidy
    <3> HIDE DEF g
    <3> QED BY <1>1, <2>3 DEF Row
  <2> QED BY <2>2, <2>3, <2>4
<1> HIDE DEF g
<1>4. Phase(h)'
  BY <1>1, <1>3 DEF Handle, Phase, g
<1>5. Reader(h)'
  <2>1. f.mode = "r" /\ f.clean => f.n \in DOMAIN tree /\ tree[f.n] = f.data
    BY <1>1 DEF Handle, Reader
  <2>2. f.mode = "r" /\ f.tidy /\ f.last[2] # "none" => f.last[2] = At(f.data, f.last[1])
    BY <1>1 DEF Handle, Reader
  <2> QED BY <1>3, <2>1, <2>2 DEF Reader, g
<1>6. Put(h)'
  BY <1>1, <1>3 DEF Handle, Put, g
<1>7. /\ reading' \in [Handles -> SUBSET (Nat \X BOOLEAN)]
      /\ \A o \in Handles \ {h} : reading'[o] = reading[o]
  BY <1>1 DEF Typed
<1> QED BY <1>1, <1>2, <1>3, <1>4, <1>5, <1>6, <1>7, QuietKeeps DEF MayFail, Handle, g

\* close(2), the end of a transfer and the end of a PUT keep the invariant: the Close that
\* is due is another phase of the handle.
LEMMA ClosesKeeps ==
  ASSUME IndInv, NEW h \in Handles, Closes(h)
  PROVE  IndInv'
<1>1. file[h] \in Row /\ file \in [Handles -> Row]
  BY DEF IndInv, Typed
<1>2. /\ file[h].st = "open" /\ file[h].front # "dav" /\ reading[h] = {}
      /\ file' = [file EXCEPT ![h].st = "closing"]
      /\ UNCHANGED <<tree, reading, call, promise, gone, calls, faults>>
  BY DEF Closes, Is
<1> DEFINE ret == file[h].ret
<1>3. ret \in {"none", "ok", "err", "refused"}
  BY <1>1 DEF Row
<1>4. file' = [file EXCEPT ![h].st = "closing", ![h].ret = ret]
  BY <1>1, <1>2 DEF Row
<1> HIDE DEF ret
<1> QED BY <1>2, <1>3, <1>4, PhaseKeeps DEF MayFail

\* The Stat of the adaptor keeps the invariant, whether the file is there, or not, or
\* the Stat fails.
LEMMA FtpStatKeeps ==
  ASSUME IndInv, NEW h \in Handles, FtpStat(h)
  PROVE  IndInv'
<1>1. file[h] \in Row /\ Handle(h)
  BY DEF IndInv, Typed
<1>2. PICK st \in {"open", "done"}, ret \in {"none", "ok", "err", "refused"} :
        /\ file' = [file EXCEPT ![h].st = st, ![h].ret = ret] /\ (st = "done" => ret # "none")
        /\ MayFail
  <2> DEFINE there == Kind(file[h].n) = "file"
             st == IF there THEN "open" ELSE "done"
             ret == IF there THEN file[h].ret ELSE "refused"
  <2>1. \/ file' = [file EXCEPT ![h].st = st, ![h].ret = ret] /\ faults' = faults
        \/ /\ file' = [file EXCEPT ![h].st = "done", ![h].ret = "err"]
           /\ faults < MaxFaults /\ faults' = faults + 1
    BY DEF FtpStat
  <2>2. st \in {"open", "done"} /\ ret \in {"none", "ok", "err", "refused"} /\ (st = "done" => ret # "none")
    BY <1>1 DEF Row
  <2> HIDE DEF st, ret
  <2> QED BY <2>1, <2>2 DEF MayFail
<1>3. file[h].st = "stat" /\ UNCHANGED <<tree, reading, call, promise, gone, calls>>
  BY DEF FtpStat, Is
<1>4. file[h].front = "ftp" /\ reading[h] = {}
  BY <1>1, <1>3 DEF Handle, Phase
<1> QED BY <1>2, <1>3, <1>4, PhaseKeeps

\* The Stat of WebDAV's PUT keeps the invariant; that it finds the file is Put.
LEMMA DavStatKeeps ==
  ASSUME IndInv, NEW h \in Handles, DavStat(h)
  PROVE  IndInv'
<1>1. file[h] \in Row /\ Handle(h) /\ IsTree(tree)
  BY DEF IndInv, Typed
<1>2. /\ file[h].st = "open" /\ file[h].front = "dav"
      /\ UNCHANGED <<tree, reading, call, promise, gone, calls>>
  BY DEF DavStat, Is
<1>3. reading[h] = {} /\ file[h].n \in FilePaths /\ file[h].ret # "refused"
  BY <1>1, <1>2 DEF Handle, Phase
<1>4. PICK ret \in {"none", "ok", "err", "refused"} :
        /\ file' = [file EXCEPT ![h].st = "closing", ![h].ret = ret]
        /\ ret = "refused" /\ file[h].clean => file[h].data = <<>>
        /\ MayFail
  <2> DEFINE found == IF file[h].ret = "none" /\ Kind(file[h].n) # "file" THEN "refused" ELSE file[h].ret
             failed == IF file[h].ret = "none" THEN "err" ELSE file[h].ret
  <2>1. \/ file' = [file EXCEPT ![h].st = "closing", ![h].ret = found] /\ faults' = faults
        \/ /\ file' = [file EXCEPT ![h].st = "closing", ![h].ret = failed]
           /\ faults < MaxFaults /\ faults' = faults + 1
    <3>1. file \in [Handles -> Row]
      BY DEF IndInv, Typed
    <3> QED BY <3>1 DEF DavStat
  <2>2. found \in {"none", "ok", "err", "refused"} /\ failed \in {"none", "ok", "err", "refused"}
        /\ failed # "refused"
    BY <1>1, <1>3 DEF Row
  <2>3. found = "refused" /\ file[h].clean => file[h].data = <<>>
    BY <1>1, <1>2, <1>3, KindFile DEF Handle, Put
  <2> HIDE DEF found, failed
  <2> QED BY <2>1, <2>2, <2>3 DEF MayFail
<1> QED BY <1>2, <1>3, <1>4, PhaseKeeps

\* A Mkdir keeps the invariant: it adds a directory where nothing was.
LEMMA MkdirKeeps ==
  ASSUME IndInv, NEW n \in Paths, Mkdir(n)
  PROVE  IndInv'
<1> USE DEF IndInv
<1>1. /\ calls < MaxCalls /\ calls' = calls + 1 /\ n \in DirPaths /\ Kind(Parent(n)) = "dir"
      /\ tree' = Placed(tree, n, Dir) /\ gone' = gone \ AtOrAbove(n)
      /\ call' = AllDisturbed({}, AtOrAbove(n))
      /\ UNCHANGED <<file, reading, promise, faults>>
  BY DEF Mkdir
<1>2. /\ DOMAIN tree' = DOMAIN tree \cup {n} /\ tree'[n] = Dir
      /\ \A p \in DOMAIN tree : p # n => tree'[p] = tree[p]
  BY <1>1 DEF Placed
<1>3. ASSUME NEW h \in Handles PROVE Kept(h)
  <2>1. file[h] \in Row /\ file'[h] = file[h] /\ reading'[h] = reading[h]
    BY <1>1 DEF Typed
  <2>2. file'[h].clean \in BOOLEAN /\ file'[h] = [file[h] EXCEPT !.clean = file'[h].clean]
    BY <2>1 DEF Row
  <2> QED BY <1>1, <1>2, <2>1, <2>2, PathTypes DEF Kept
<1>4. file' = [h \in Handles |-> file'[h]]
  BY <1>1 DEF Typed
<1>5. file' \in [Handles -> Row] /\ \A h \in Handles : Handle(h)'
  BY <1>3, <1>4, AllKept
<1>6. call' \in [Callers -> CallRow] /\ Names'
  <2>1. \A p : p # n => Same(p)
    BY <1>2 DEF Same
  <2>2. \A p \in FilePaths : Same(p)
    BY <1>1, <2>1, PathTypes
  <2>3. \A p \in Paths : Shut(p) => Shut(p)'
    BY <1>1, DisturbedAims DEF Shut, Writing
  <2>4. \A p \in Paths, x \in DOMAIN tree' :
          p \notin AtOrAbove(n) /\ Shut(p) /\ InTree(p, x) => x \in DOMAIN tree
    BY <1>2 DEF AtOrAbove
  <2>5. \A m \in DOMAIN promise' : m \in DOMAIN promise /\ promise'[m] = promise[m] /\ Same(m)
    BY <1>1, <2>2 DEF Typed
  <2> QED BY <1>1, <2>2, <2>3, <2>4, <2>5, DisturbedKeeps
<1>7. Typed'
  <2>1. IsTree(tree')
    BY <1>1, <1>2 DEF Typed, IsTree
  <2>2. Counted'
    BY <1>1, GatewayAssumption DEF Typed, Counted
  <2> QED BY <1>1, <1>5, <1>6, <2>1, <2>2 DEF Typed
<1> QED BY <1>5, <1>6, <1>7

-----------------------------------------------------------------------------
(* The invariant holds in every state.                                     *)

LEMMA InitEstablishes == Init => IndInv
<1> SUFFICES ASSUME Init PROVE IndInv
  OBVIOUS
<1>1. /\ tree \in Trees /\ file = [h \in Handles |-> Free] /\ reading = [h \in Handles |-> {}]
      /\ call = [c \in Callers |-> Idle] /\ promise = <<>> /\ gone = {} /\ calls = 0 /\ faults = 0
  BY DEF Init
<1>2. Free \in Row
  <2>1. Free.data = <<>> /\ <<>> \in Contents
    BY DEF Free, Contents
  <2>2. <<0, "none">> \in Nat \X (Blocks \cup {"0x00", "eof", "none"})
    OBVIOUS
  <2> QED BY <2>1, <2>2, PathTypes DEF Free, Row
<1>3. DOMAIN promise = {}
  BY <1>1
<1>4. Typed
  BY <1>1, <1>2, <1>3, IdleTypes, GatewayAssumption DEF Typed, Counted
<1>5. ASSUME NEW h \in Handles PROVE Handle(h)
  <2>1. file[h] = Free /\ reading[h] = {}
    BY <1>1
  <2> QED BY <2>1 DEF Handle, Phase, Reader, Put, Free
<1>6. Gone /\ Promised
  BY <1>1, <1>3 DEF Gone, Promised
<1>7. ASSUME NEW c \in Callers PROVE Job(c)
  <2>1. call[c] = Idle
    BY <1>1
  <2>2. Shape(call[c])
    BY <2>1, IdleTypes DEF Shape
  <2>3. Owes(c) /\ Takes(call[c])
    BY <2>1, IdleTypes DEF Owes, Takes
  <2> QED BY <2>2, <2>3 DEF Job
<1> QED BY <1>4, <1>5, <1>6, <1>7 DEF IndInv, Names

\* Every step keeps the invariant: one lemma per action, put together.
LEMMA StepKeeps == IndInv /\ [Next]_vars => IndInv'
<1> SUFFICES ASSUME IndInv, [Next]_vars PROVE IndInv'
  OBVIOUS
<1>1. ASSUME NEW h \in Handles, NEW n \in FilePaths, FuseCreate(h, n) PROVE IndInv'
  BY <1>1, OpenedKeeps DEF FuseCreate
<1>2. ASSUME NEW h \in Handles, NEW n \in FilePaths, DavPut(h, n) PROVE IndInv'
  BY <1>2, OpenedKeeps DEF DavPut
<1>3. ASSUME NEW h \in Handles, NEW n \in FilePaths, NEW mode \in {"r", "w"}, FtpOpen(h, n, mode)
      PROVE IndInv'
  <2>1. (mode = "w") \in BOOLEAN
    OBVIOUS
  <2> QED BY <1>3, <2>1, OpenedKeeps DEF FtpOpen
<1>4. ASSUME NEW h \in Handles, NEW n \in FilePaths, NEW mode \in {"r", "w"}, NEW trunc \in BOOLEAN,
             FuseOpen(h, n, mode, trunc)
      PROVE IndInv'
  <2>1. (mode = "r" \/ trunc) \in BOOLEAN
    OBVIOUS
  <2> QED BY <1>4, <2>1, OpenedKeeps DEF FuseOpen
<1>5. ASSUME NEW h \in Handles, NEW off \in 0..MaxBlocks, NEW b \in Data, FuseWrite(h, off, b)
      PROVE IndInv'
  <2>1. (off = Len(file[h].data)) \in BOOLEAN
    OBVIOUS
  <2> QED BY <1>5, <2>1, WritesKeeps DEF FuseWrite
<1>6. ASSUME NEW h \in Handles, NEW b \in Data, FtpWrite(h, b) \/ DavWrite(h, b) PROVE IndInv'
  BY <1>6, WritesKeeps DEF FtpWrite, DavWrite
<1>7. ASSUME NEW h \in Handles, NEW off \in 0..MaxBlocks, FuseRead(h, off) PROVE IndInv'
  BY <1>7, FuseReadKeeps
<1>8. ASSUME NEW h \in Handles, NEW r \in reading[h], Seek(h, r) \/ Read(h, r) \/ ReadFails(h, r)
      PROVE IndInv'
  BY <1>8, SeekKeeps, ReadKeeps, ReadFailsKeeps
<1>9. ASSUME NEW h \in Handles, FtpRead(h) \/ FtpStat(h) \/ DavStat(h) \/ Closes(h) \/ Close(h)
      PROVE IndInv'
  BY <1>9, FtpReadKeeps, FtpStatKeeps, DavStatKeeps, ClosesKeeps, CloseKeeps
<1>10. ASSUME NEW c \in Callers, NEW n \in Paths, Remove(c, n) PROVE IndInv'
  BY <1>10, RemoveKeeps
<1>11. ASSUME NEW c \in Callers, NEW n \in Paths, NEW to \in Paths, Rename(c, n, to) PROVE IndInv'
  BY <1>11, RenameKeeps
<1>12. ASSUME NEW c \in Callers, NEW p \in call[c].todo, Enter(c, p) \/ Copy(c, p) PROVE IndInv'
  BY <1>12, EnterKeeps, CopyKeeps
<1>13. ASSUME NEW c \in Callers, NEW p \in call[c].todo \cup call[c].due, Delete(c, p) PROVE IndInv'
  BY <1>13, DeleteKeeps
<1>14. ASSUME NEW c \in Callers, NEW d \in call[c].listed, Leave(c, d) PROVE IndInv'
  BY <1>14, LeaveKeeps
<1>15. ASSUME NEW c \in Callers, Refused(c) \/ Returns(c) PROVE IndInv'
  BY <1>15, RefusedKeeps, ReturnsKeeps
<1>16. ASSUME NEW n \in Paths, Mkdir(n) PROVE IndInv'
  BY <1>16, MkdirKeeps
<1>17. CASE UNCHANGED vars
  <2>1. UNCHANGED <<tree, file, reading, call, promise, gone, calls, faults>>
    BY <1>17 DEF vars
  <2>2. (\A h \in Handles : Handle(h)') /\ NoNewWriter /\ Typed'
    BY <2>1, HandlesSame DEF IndInv, Typed, Counted
  <2>3. Names'
    BY <2>1, <2>2, QuietNames DEF IndInv
  <2> QED BY <2>2, <2>3 DEF IndInv
<1>18. CASE Next
  BY <1>1, <1>2, <1>3, <1>4, <1>5, <1>6, <1>7, <1>8, <1>9, <1>10, <1>11, <1>12, <1>13, <1>14,
     <1>15, <1>16, <1>18 DEF Next
<1> QED BY <1>17, <1>18

\* The invariant holds in every state, whichever the clients' requests.
THEOREM Invariance == Spec => []IndInv
<1> QED BY InitEstablishes, StepKeeps, PTL DEF Spec

-----------------------------------------------------------------------------
(* What it means.                                                          *)

\* Files are files and directories directories, a reader uploads nothing and a writer
\* reads nothing, every file that is done has been answered, and only a rename removes
\* what it has copied: the requests of the fronts and the end of a file (fuse/file.go,
\* Release), and those of RemoveAll and Rename (s3/fs.go).
THEOREM TypeCorrect == Spec => []TypeOK
<1>1. IndInv => TypeOK
  <2> SUFFICES ASSUME IndInv PROVE TypeOK
    OBVIOUS
  <2>1. ASSUME NEW h \in Handles
        PROVE  /\ file[h].st \in {"free", "stat", "open", "closing", "done"}
               /\ file[h].ret \in {"none", "ok", "err", "refused"}
               /\ file[h].up # "idle" => file[h].mode = "w" /\ file[h].st \in {"open", "closing", "done"}
               /\ reading[h] # {} => file[h].mode = "r" /\ file[h].st = "open"
               /\ file[h].st = "done" => file[h].ret # "none"
    <3>1. file[h] \in Row /\ Phase(h)
      BY DEF IndInv, Typed, Handle
    <3> QED BY <3>1 DEF Row, Phase
  <2>2. ASSUME NEW c \in Callers
        PROVE  /\ call[c].todo \subseteq Paths /\ call[c].listed \subseteq DirPaths
               /\ call[c].due \subseteq FilePaths /\ (call[c].due # {} => call[c].op = "rename")
    <3>1. Typed /\ Shape(call[c])
      BY DEF IndInv, Names, Job
    <3> QED BY <3>1, CallTypes DEF Shape
  <2>3. IsTree(tree) /\ DOMAIN promise \subseteq FilePaths /\ gone \subseteq Paths
        /\ calls \in 0..MaxCalls /\ faults \in 0..MaxFaults
    BY DEF IndInv, Typed, Counted
  <2> QED BY <2>1, <2>2, <2>3 DEF TypeOK
<1> QED BY <1>1, Invariance, PTL

\* READs of a file that nobody else changes, sent one after the other and none at 0 but
\* the first, get the block at their offset: each seeks before it reads (fuse/file.go, Read).
THEOREM ReadsWhereAsked == Spec => []ReadsAtOffset
<1>1. IndInv => ReadsAtOffset
  BY DEF IndInv, Handle, Reader, ReadsAtOffset
<1> QED BY <1>1, Invariance, PTL

\* What was stored by one writer, in order and with success, while no RemoveAll and no
\* Rename worked there, is what the file has until it is written, removed, renamed or
\* replaced; a Rename that succeeds has copied it, whole, to its new path (s3/file.go,
\* Close; s3/fs.go, Rename).
THEOREM StoredStays == Spec => []StoredWhole
<1>1. IndInv => StoredWhole
  BY DEF IndInv, Names, Promised, StoredWhole
<1> QED BY <1>1, Invariance, PTL

\* What a RemoveAll or a Rename that has succeeded found at or below its name, with no
\* file open for writing there and no rename on its way there, is gone, and stays so until
\* somebody opens a file for writing, makes a directory or begins to rename something
\* there (s3/fs.go, RemoveAll and Rename; fuse/file.go, Release).
THEOREM GoneStays == Spec => []GoneStaysGone
<1>1. IndInv => GoneStaysGone
  <2> SUFFICES ASSUME IndInv, NEW p \in gone PROVE Kind(p) = "missing"
    BY DEF GoneStaysGone
  <2>1. IsTree(tree) /\ p \in Paths
    BY DEF IndInv, Typed
  <2>2. \A x \in DOMAIN tree : ~InTree(p, x)
    BY DEF IndInv, Names, Gone
  <2> QED BY <2>1, <2>2, KindMissing
<1> QED BY <1>1, Invariance, PTL

\* The Stat of a PUT with a body finds its file, unless somebody else has changed
\* it: the placeholder is there before the first Write returns (s3/file.go, Write).
THEOREM PutFindsFile == Spec => []PutStatFindsFile
<1>1. IndInv => PutStatFindsFile
  <2> SUFFICES ASSUME IndInv, NEW h \in Handles, file[h].front = "dav", file[h].ret = "refused"
               PROVE file[h].data = <<>> \/ ~file[h].clean
    BY DEF PutStatFindsFile
  <2> QED BY DEF IndInv, Handle, Put
<1> QED BY <1>1, Invariance, PTL
=============================================================================
