------------------------------- MODULE Gateway -------------------------------
(***************************************************************************)
(* What unifs serves an S3 file system to: the kernel, through the FUSE    *)
(* node and file (pkg/fuse); FTP clients, through the adaptor of           *)
(* pkg/aferofsutil; WebDAV clients, through the handler of                 *)
(* golang.org/x/net/webdav (cmd/unifs/webdav.go).                          *)
(*                                                                         *)
(* What interleaves here are the requests of the clients: reads of one     *)
(* handle that the kernel has in flight together, a RELEASE that follows   *)
(* close(2), the calls a handler makes one by one, and, beside them all,   *)
(* the requests by which a Rename copies and then removes file by file and *)
(* a RemoveAll removes.  An upload stores the whole file in Close (S3Upload *)
(* has its goroutine).                                                     *)
(***************************************************************************)
EXTENDS Tree

CONSTANTS
  FilePaths,  \* paths for files
  DirPaths,   \* paths for directories, the root <<>> among them
  Trees,      \* the trees the file system may start with
  Blocks,     \* what files hold, in units of one read or write
  Data,       \* the blocks that clients write
  MaxBlocks,  \* bound: blocks of a file
  Handles,    \* the files clients may open, each once
  Fronts,     \* a subset of {"fuse", "ftp", "dav"}
  Callers,    \* clients that remove and rename, one call at a time each
  MaxCalls,   \* bound: calls that change names
  MaxFaults,  \* bound: requests that fail
  MaxEvents   \* bound: files opened, calls that change names and requests that fail

Dir == <<"directory">>
Placeholder == <<"0x00">>  \* what S3 stores while a new file is uploaded

Contents == Seq(Blocks \cup {"0x00"})

\* Files are at the paths for files and directories at those for directories.
IsTree(t) ==
  \A p \in DOMAIN t :
    IF p \in DirPaths THEN t[p] = Dir
    ELSE p \in FilePaths /\ t[p] \in Contents /\ Len(t[p]) =< MaxBlocks

ASSUME GatewayAssumption ==
  /\ FilePaths \cup DirPaths \subseteq Seq(STRING) /\ FilePaths \cap DirPaths = {}
  /\ <<>> \in DirPaths  \* and so is every path that has another path below it
  /\ \A p \in FilePaths \cup DirPaths : \A k \in 0..Len(p) - 1 : SubSeq(p, 1, k) \in DirPaths
  /\ \A t \in Trees : <<>> \in DOMAIN t /\ IsTree(t)
  /\ "directory" \notin Blocks /\ Data \subseteq Blocks
  /\ Fronts \subseteq {"fuse", "ftp", "dav"}
  /\ MaxBlocks \in Nat \ {0} /\ MaxCalls \in Nat /\ MaxFaults \in Nat /\ MaxEvents \in Nat

VARIABLES
  tree,     \* the file system
  file,     \* file[h]: the file h and how far it is
  reading,  \* reading[h]: the READs of h in flight, as <<offset, whether it has sought>>
  call,     \* call[c]: the RemoveAll or Rename that c waits for
  promise,  \* the files last stored by a tidy upload of one writer (history)
  gone,     \* what was removed while no file was open for writing below (history)
  calls,    \* calls that change names, so far
  faults    \* requests that failed

vars == <<tree, file, reading, call, promise, gone, calls, faults>>

Free ==
  [st |-> "free",    \* "stat": not yet looked at; "open"; "closing": Close is due; "done"
   front |-> "fuse", n |-> <<>>,
   mode |-> "r",     \* or "w"
   new |-> FALSE,    \* opened with O_CREATE
   up |-> "idle",    \* the upload: "idle", "running", or "failed"
   pos |-> 0,        \* where the next Read of the backend's file reads
   data |-> <<>>,    \* "w": the blocks written; "r": the file when it was opened (history)
   tidy |-> TRUE,    \* its user reads and writes in order (history)
   clean |-> TRUE,   \* nobody else has changed the path since (history)
   last |-> <<0, "none">>,  \* the last READ answered: its offset, its block (history)
   ret |-> "none"]   \* the answer to the last request of its front

Idle ==
  [op |-> "none",    \* or "remove", "rename"
   n |-> <<>>, to |-> <<>>,
   todo |-> {},      \* what is to be removed or renamed
   listed |-> {},    \* the directories that were listed and are to be removed after the rest
   due |-> {},       \* the file that was copied and is to be removed next
   owed |-> <<>>,    \* the promises a rename takes along, at their old paths (history)
   leaves |-> {}]    \* what will be gone when the call succeeds (history)

Paths == FilePaths \cup DirPaths

\* Objects imply the directories above them; a directory of its own has an
\* object too, the holder.
Kind(p) ==
  IF p \in DOMAIN tree /\ tree[p] # Dir THEN "file"
  ELSE IF \E q \in DOMAIN tree : InTree(p, q) THEN "dir" ELSE "missing"

\* The kernel and the servers look a name up before they use it.
Lookup(n) == Kind(n) # "missing"

Is(h, st) == file[h].st = st

\* The bound on all of them together.
AnotherEvent == calls + faults + Cardinality({h \in Handles : ~Is(h, "free")}) < MaxEvents

Writers(n) == {h \in Handles : file[h].up = "running" /\ ~Is(h, "done") /\ file[h].n = n}

Without(f, S) == [p \in DOMAIN f \ S |-> f[p]]
Meets(p, q) == InTree(p, q) \/ InTree(q, p)
AtOrBelow(n) == {p \in Paths : InTree(n, p)}
AtOrAbove(n) == {p \in Paths : InTree(p, n)}

\* The call k may put something at, above or below p; it may change what is at p.
Aims(k, p) == k.op = "rename" /\ Meets(p, k.to)
Works(k, p) ==
  \/ k.op # "none" /\ InTree(k.n, p)
  \/ k.op = "rename" /\ InTree(k.to, p)

\* What is at or below n, with no file open for writing and no rename to come below.
Settled(n) ==
  {p \in AtOrBelow(n) :
     /\ Kind(p) # "missing"
     /\ ~\E h \in Handles : file[h].mode = "w" /\ ~Is(h, "done") /\ InTree(p, file[h].n)
     /\ ~\E c \in Callers : Aims(call[c], p)}

\* The files, once the paths in S have been changed.
Touched(S) == [h \in Handles |-> [file[h] EXCEPT !.clean = @ /\ file[h].n \notin S]]

NewPlace(k, p) == Rebased(p, k.n, k.to)

\* The call k, once others change the paths in S and open those in L: what was promised
\* of the ones, and would be gone of the others, is no more.
Disturbed(k, S, L) ==
  [k EXCEPT !.owed = Without(@, {p \in Paths : p \in S \/ NewPlace(k, p) \in S}),
            !.leaves = @ \ L]

AllDisturbed(S, L) == [c \in Callers |-> Disturbed(call[c], S, L)]

-----------------------------------------------------------------------------
(* The backend's file: OpenFile, Write and Close of pkg/filesystem/s3.     *)

Opened(h, front, n, mode, st, new, tidy) ==
  /\ Is(h, "free") /\ AnotherEvent /\ front \in Fronts /\ n \in FilePaths
  /\ IF mode = "r" THEN Kind(n) = "file" ELSE Kind(n) # "dir" /\ Kind(Parent(n)) = "dir"
  /\ file' = [file EXCEPT ![h] = [Free EXCEPT
       !.st = st, !.front = front, !.n = n, !.mode = mode, !.new = new, !.tidy = tidy,
       !.data = IF mode = "r" THEN tree[n] ELSE <<>>]]
  /\ LET opened == IF mode = "w" THEN AtOrAbove(n) ELSE {}
     IN gone' = gone \ opened /\ call' = AllDisturbed({}, opened)
  /\ UNCHANGED <<tree, reading, promise, calls, faults>>

\* data is stored at the path of h, and h becomes g.
Stored(h, data, g) ==
  /\ tree' = Placed(tree, file[h].n, data)
  /\ file' = [Touched({file[h].n}) EXCEPT ![h] = g]

Unstored(h, g) ==
  /\ file' = [file EXCEPT ![h] = g]
  /\ UNCHANGED tree

\* Mutant: nothing is stored before Close.
NoPlaceholder(h, g) == Unstored(h, g)

\* The first Write stores a placeholder if the file was opened with O_CREATE.
FirstWrite(h, g) ==
  IF file[h].up = "idle" /\ file[h].new THEN Stored(h, Placeholder, g) ELSE Unstored(h, g)

\* A Write: the backend knows no offset, b is what comes next.
Writes(h, b, inOrder) ==
  LET f == file[h]
      taken == [f EXCEPT !.up = "running", !.data = Append(@, b), !.tidy = @ /\ inOrder]
      refused == [f EXCEPT !.up = "failed", !.ret = "err"]
  IN /\ f.st = "open" /\ f.mode = "w" /\ f.up # "failed" /\ Len(f.data) < MaxBlocks
     /\ promise' = Without(promise, {f.n}) /\ call' = AllDisturbed({f.n}, {})
     /\ \/ FirstWrite(h, taken) /\ UNCHANGED faults
        \/ /\ faults < MaxFaults /\ AnotherEvent /\ faults' = faults + 1
           /\ FirstWrite(h, refused) \/ Unstored(h, refused)
     /\ UNCHANGED <<reading, gone, calls>>

\* Mutant: a file ends without an answer.
EndedUnanswered(h, ret) == [file[h] EXCEPT !.st = "done"]

Ended(h, ret) == [file[h] EXCEPT !.st = "done", !.ret = IF @ = "none" THEN ret ELSE @]

\* Close, when the front gets to it: RELEASE, the end of a transfer, of a PUT.  It
\* promises nothing of a file that a call in progress may rename, remove or replace.
Close(h) ==
  LET f == file[h]
      sole == Writers(f.n) = {h} /\ ~\E c \in Callers : Works(call[c], f.n)
      without == promise' = Without(promise, {f.n}) /\ call' = AllDisturbed({f.n}, {})
  IN /\ f.st = "closing"
     /\ \/ /\ f.up = "idle"
           /\ Unstored(h, Ended(h, "ok"))
           /\ UNCHANGED <<call, promise, faults>>
        \/ /\ f.up = "running"
           /\ Stored(h, f.data, Ended(h, "ok"))
           /\ \/ ~(f.tidy /\ sole) /\ without
              \/ f.tidy /\ sole /\ promise' = Placed(promise, f.n, f.data) /\ call' = AllDisturbed({f.n}, {})
           /\ UNCHANGED faults
        \/ /\ f.up = "failed"
           /\ Unstored(h, Ended(h, "err"))
           /\ UNCHANGED <<call, promise, faults>>
        \/ /\ f.up = "running" /\ faults < MaxFaults /\ AnotherEvent /\ faults' = faults + 1
           /\ Stored(h, f.data, Ended(h, "err")) \/ Unstored(h, Ended(h, "err"))
           /\ without
     /\ UNCHANGED <<reading, gone, calls>>

-----------------------------------------------------------------------------
(* FUSE.                                                                   *)

\* A new file, and one that is there: the kernel truncates that with a SETATTR,
\* which does nothing.  Without it, what is written replaces the whole file too.
FuseCreate(h, n) == Opened(h, "fuse", n, "w", "open", TRUE, TRUE)
\* One for reading and writing is opened for reading (s3/fs.go), and its WRITEs are refused.
FuseOpen(h, n, mode, trunc) ==
  /\ Kind(n) = "file"
  /\ Opened(h, "fuse", n, mode, "open", FALSE, mode = "r" \/ trunc)

\* WRITE: the kernel asks for an offset, the backend appends.  (One that would take the
\* file over 2^63 bytes is refused.)
FuseWrite(h, off, b) ==
  /\ file[h].front = "fuse" /\ off =< Len(file[h].data)
  /\ Writes(h, b, off = Len(file[h].data))

\* READ of a part of the file: the kernel may have two in flight.  An offset of 0
\* is not sought.
FuseRead(h, off) ==
  LET f == file[h] IN
  /\ f.front = "fuse" /\ f.st = "open" /\ f.mode = "r" /\ off < Len(f.data)
  /\ Cardinality(reading[h]) < 2
  /\ reading' = [reading EXCEPT ![h] = @ \cup {<<off, off = 0>>}]
  /\ file' = [file EXCEPT ![h].tidy = @ /\ reading[h] = {} /\ (off = 0 => f.pos = 0)]
  /\ UNCHANGED <<tree, call, promise, gone, calls, faults>>

\* Mutant: the offset is not sought.
SeekNowhere(h, r) ==
  /\ ~r[2] /\ r \in reading[h]
  /\ reading' = [reading EXCEPT ![h] = (@ \ {r}) \cup {<<r[1], TRUE>>}]
  /\ UNCHANGED <<tree, file, call, promise, gone, calls, faults>>

Seek(h, r) ==
  /\ ~r[2] /\ r \in reading[h]
  /\ reading' = [reading EXCEPT ![h] = (@ \ {r}) \cup {<<r[1], TRUE>>}]
  /\ file' = [file EXCEPT ![h].pos = r[1]]
  /\ UNCHANGED <<tree, call, promise, gone, calls, faults>>

At(data, k) == IF k < Len(data) THEN data[k + 1] ELSE "eof"

\* The Read.  What a file that has been changed gives is left open.
Read(h, r) ==
  LET f == file[h] IN
  /\ r[2] /\ r \in reading[h]
  /\ reading' = [reading EXCEPT ![h] = @ \ {r}]
  /\ file' = [file EXCEPT ![h].pos = IF @ < Len(f.data) THEN @ + 1 ELSE @,
                          ![h].last = IF f.clean THEN <<r[1], At(tree[f.n], f.pos)>> ELSE Free.last]
  /\ UNCHANGED <<tree, call, promise, gone, calls, faults>>

\* A READ whose Seek or Read fails gets no block, and the position stays.  (The file of
\* the backend may go on failing; that it may work again is more than it promises.)
ReadFails(h, r) ==
  /\ r \in reading[h] /\ faults < MaxFaults /\ AnotherEvent /\ faults' = faults + 1
  /\ reading' = [reading EXCEPT ![h] = @ \ {r}]
  /\ file' = [file EXCEPT ![h].last = Free.last]
  /\ UNCHANGED <<tree, call, promise, gone, calls>>

\* The kernel sends RELEASE after close(2) has returned.
Closes(h) ==
  /\ Is(h, "open") /\ file[h].front # "dav" /\ reading[h] = {}
  /\ file' = [file EXCEPT ![h].st = "closing"]
  /\ UNCHANGED <<tree, reading, call, promise, gone, calls, faults>>

-----------------------------------------------------------------------------
(* FTP: STOR and RETR open a file through the adaptor, which looks at it    *)
(* next.                                                                   *)

FtpOpen(h, n, mode) == Opened(h, "ftp", n, mode, "stat", mode = "w", TRUE)

\* If it is not there, or the Stat fails, the file is dropped and not closed.
FtpStat(h) ==
  /\ Is(h, "stat")
  /\ \/ /\ file' = [file EXCEPT
            ![h].st = IF Kind(file[h].n) = "file" THEN "open" ELSE "done",
            ![h].ret = IF Kind(file[h].n) = "file" THEN @ ELSE "refused"]
        /\ UNCHANGED faults
     \/ /\ faults < MaxFaults /\ AnotherEvent /\ faults' = faults + 1
        /\ file' = [file EXCEPT ![h].st = "done", ![h].ret = "err"]
  /\ UNCHANGED <<tree, reading, call, promise, gone, calls>>

FtpWrite(h, b) == file[h].front = "ftp" /\ Writes(h, b, TRUE)

\* The transfer of a RETR reads on from where it is.
FtpRead(h) ==
  /\ file[h].front = "ftp" /\ Is(h, "open") /\ file[h].mode = "r" /\ reading[h] = {}
  /\ reading' = [reading EXCEPT ![h] = {<<file[h].pos, TRUE>>}]
  /\ UNCHANGED <<tree, file, call, promise, gone, calls, faults>>

-----------------------------------------------------------------------------
(* WebDAV: a PUT has the lock of its path.                                 *)

DavPut(h, n) ==
  /\ \A g \in Handles : file[g].front = "dav" /\ file[g].n = n => Is(g, "done")
  /\ Opened(h, "dav", n, "w", "open", TRUE, TRUE)

DavWrite(h, b) == file[h].front = "dav" /\ Writes(h, b, TRUE)

\* The body is copied: Stat, and then Close whatever it says.
DavStat(h) ==
  /\ file[h].front = "dav" /\ Is(h, "open")
  /\ \/ /\ file' = [file EXCEPT
            ![h].st = "closing",
            ![h].ret = IF @ = "none" /\ Kind(file[h].n) # "file" THEN "refused" ELSE @]
        /\ UNCHANGED faults
     \/ /\ faults < MaxFaults /\ AnotherEvent /\ faults' = faults + 1
        /\ file' = [file EXCEPT ![h].st = "closing", ![h].ret = IF @ = "none" THEN "err" ELSE @]
  /\ UNCHANGED <<tree, reading, call, promise, gone, calls>>

-----------------------------------------------------------------------------
(* Names, whichever the front.                                             *)

\* UNLINK and RMDIR, DELE and RMD, DELETE: each is RemoveAll.
Remove(c, n) ==
  /\ call[c].op = "none" /\ calls < MaxCalls /\ AnotherEvent /\ n # <<>> /\ Lookup(n)
  /\ call' = [AllDisturbed(AtOrBelow(n), {}) EXCEPT
       ![c] = [Idle EXCEPT !.op = "remove", !.n = n, !.todo = {n}, !.leaves = Settled(n)]]
  /\ promise' = Without(promise, AtOrBelow(n))
  /\ calls' = calls + 1
  /\ UNCHANGED <<tree, file, reading, gone, faults>>

\* RENAME, RNTO, MOVE; a MOVE to what is there removes that before.  A rename to a
\* path below is refused, and one to a directory above ends at its Mkdir (unless the
\* Stat of that fails, which is left out).
Rename(c, n, to) ==
  LET changed == AtOrBelow(n) \cup AtOrBelow(to)
      reached == {p \in Paths : Meets(p, to)}
      known == {p \in DOMAIN promise \cap AtOrBelow(n) :
                  ~\E o \in Callers : Works(call[o], Rebased(p, n, to))}
  IN /\ call[c].op = "none" /\ calls < MaxCalls /\ AnotherEvent /\ n # <<>> /\ Lookup(n) /\ ~Meets(n, to)
     /\ \A p \in AtOrBelow(n) :  \* there are paths for what is moved
          Rebased(p, n, to) \in IF p \in FilePaths THEN FilePaths ELSE DirPaths
     /\ call' = [AllDisturbed(changed, reached) EXCEPT
          ![c] = [Idle EXCEPT !.op = "rename", !.n = n, !.to = to, !.todo = {n},
                              !.owed = [p \in known |-> promise[p]], !.leaves = Settled(n)]]
     /\ promise' = Without(promise, changed)
     /\ gone' = gone \ reached
     /\ calls' = calls + 1
     /\ UNCHANGED <<tree, file, reading, faults>>

\* A request of c that makes the tree t, changes the files in S and leaves the call at
\* k.  If it fails, carried out or not, the call ends.
Requests(c, t, S, k) ==
  /\ \/ /\ tree' = t /\ file' = Touched(S)
        /\ call' = [call EXCEPT ![c] = k]
        /\ UNCHANGED faults
     \/ /\ faults < MaxFaults /\ AnotherEvent /\ faults' = faults + 1
        /\ call' = [call EXCEPT ![c] = Idle]
        /\ \/ tree' = t /\ file' = Touched(S)
           \/ UNCHANGED <<tree, file>>
  /\ UNCHANGED <<reading, promise, gone, calls>>

Children(d) == {p \in Paths : Len(p) = Len(d) + 1 /\ InTree(d, p) /\ Kind(p) # "missing"}

\* A directory is listed, and a rename makes the new one.  Mkdir looks twice: where a
\* directory is found by the second look only, the rename goes on into it.
Enter(c, d) ==
  LET k == call[c]
      q == NewPlace(k, d)
  IN /\ d \in k.todo \cap DirPaths /\ k.due = {}
     /\ k.op = "rename" => Kind(d) = "dir" /\ Kind(Parent(q)) = "dir"
     /\ Requests(c,
          IF k.op = "rename" /\ Kind(q) = "missing" THEN Placed(tree, q, Dir) ELSE tree, {},
          [k EXCEPT !.todo = (@ \ {d}) \cup Children(d), !.listed = @ \cup {d}])

\* Mutant: the error of CopyObject is dropped.
CopyUnchecked(c, p) ==
  LET k == call[c]
      copied == [k EXCEPT !.todo = @ \ {p}, !.due = {p}]
  IN /\ k.op = "rename" /\ p \in k.todo \cap FilePaths \cap DOMAIN tree /\ k.due = {}
     /\ \/ Requests(c, Placed(tree, NewPlace(k, p), tree[p]), {NewPlace(k, p)}, copied)
        \/ /\ faults < MaxFaults /\ AnotherEvent /\ faults' = faults + 1
           /\ call' = [call EXCEPT ![c] = copied]
           /\ UNCHANGED <<tree, file, reading, promise, gone, calls>>

\* A rename copies a file, whatever is at its new path or above it...
Copy(c, p) ==
  LET k == call[c] IN
  /\ k.op = "rename" /\ p \in k.todo \cap FilePaths \cap DOMAIN tree /\ k.due = {}
  /\ Requests(c, Placed(tree, NewPlace(k, p), tree[p]), {NewPlace(k, p)},
       [k EXCEPT !.todo = @ \ {p}, !.due = {p}])

\* Mutant: what was copied is not removed.
DeleteCopied(c, p) ==
  LET k == call[c] IN
  /\ p \in IF k.op = "rename" THEN k.due ELSE k.todo \cap FilePaths
  /\ Requests(c, IF k.op = "rename" THEN tree ELSE Without(tree, {p}), {p},
       [k EXCEPT !.todo = @ \ {p}, !.due = {}])

\* ...and then removes it.  A RemoveAll removes the files it has found.
Delete(c, p) ==
  LET k == call[c] IN
  /\ p \in IF k.op = "rename" THEN k.due ELSE k.todo \cap FilePaths
  /\ Requests(c, Without(tree, {p}), {p}, [k EXCEPT !.todo = @ \ {p}, !.due = {}])

\* The holder of a directory is removed after everything that was found below.
Leave(c, d) ==
  LET k == call[c] IN
  /\ d \in k.listed /\ k.due = {}
  /\ \A p \in k.todo \cup k.listed : InTree(d, p) => p = d
  /\ Requests(c, Without(tree, {d}), {}, [k EXCEPT !.listed = @ \ {d}])

\* A rename finds what it was to rename gone, or no place for a directory.
Refused(c) ==
  LET k == call[c] IN
  /\ k.op = "rename" /\ k.due = {}
  /\ \E p \in k.todo :
       \/ Kind(p) = "missing"
       \/ p \in DirPaths /\ (Kind(NewPlace(k, p)) # "missing" \/ Kind(Parent(NewPlace(k, p))) # "dir")
  /\ call' = [call EXCEPT ![c] = Idle]
  /\ UNCHANGED <<tree, file, reading, promise, gone, calls, faults>>

\* The call has done everything: what was promised at the old paths is at the new ones.
Returns(c) ==
  LET k == call[c]
      moved == MovedTree(k.owed, k.n, k.to)
  IN /\ k.op # "none" /\ k.todo = {} /\ k.listed = {} /\ k.due = {}
     /\ promise' = [p \in DOMAIN moved \cup DOMAIN promise |->
          IF p \in DOMAIN moved THEN moved[p] ELSE promise[p]]
     /\ gone' = gone \cup k.leaves
     /\ call' = [call EXCEPT ![c] = Idle]
     /\ UNCHANGED <<tree, file, reading, calls, faults>>

\* MKDIR, MKD, MKCOL.
Mkdir(n) ==
  /\ calls < MaxCalls /\ AnotherEvent /\ n \in DirPaths /\ Kind(n) = "missing" /\ Kind(Parent(n)) = "dir"
  /\ tree' = Placed(tree, n, Dir)
  /\ gone' = gone \ AtOrAbove(n) /\ call' = AllDisturbed({}, AtOrAbove(n))
  /\ calls' = calls + 1
  /\ UNCHANGED <<file, reading, promise, faults>>

Init ==
  /\ tree \in Trees
  /\ file = [h \in Handles |-> Free]
  /\ reading = [h \in Handles |-> {}]
  /\ call = [c \in Callers |-> Idle]
  /\ promise = <<>> /\ gone = {}
  /\ calls = 0 /\ faults = 0

Next ==
  \/ \E h \in Handles :
       \/ \E n \in FilePaths : FuseCreate(h, n) \/ DavPut(h, n)
       \/ \E n \in FilePaths, mode \in {"r", "w"} : FtpOpen(h, n, mode)
       \/ \E n \in FilePaths, mode \in {"r", "w"}, trunc \in BOOLEAN : FuseOpen(h, n, mode, trunc)
       \/ \E off \in 0..MaxBlocks, b \in Data : FuseWrite(h, off, b)
       \/ \E b \in Data : FtpWrite(h, b) \/ DavWrite(h, b)
       \/ \E off \in 0..MaxBlocks : FuseRead(h, off)
       \/ \E r \in reading[h] : Seek(h, r) \/ Read(h, r) \/ ReadFails(h, r)
       \/ FtpRead(h)
       \/ FtpStat(h)
       \/ DavStat(h)
       \/ Closes(h)
       \/ Close(h)
  \/ \E c \in Callers :
       \/ \E n \in Paths : Remove(c, n)
       \/ \E n, to \in Paths : Rename(c, n, to)
       \/ \E p \in call[c].todo : Enter(c, p) \/ Copy(c, p)
       \/ \E p \in call[c].todo \cup call[c].due : Delete(c, p)
       \/ \E d \in call[c].listed : Leave(c, d)
       \/ Refused(c)
       \/ Returns(c)
  \/ \E n \in Paths : Mkdir(n)

Spec == Init /\ [][Next]_vars

-----------------------------------------------------------------------------
\* Files are files and directories directories, a reader uploads nothing and a
\* writer reads nothing, every file that is done has been answered, and only a rename
\* removes what it has copied.
TypeOK ==
  /\ IsTree(tree)
  /\ \A h \in Handles :
       LET f == file[h] IN
       /\ f.st \in {"free", "stat", "open", "closing", "done"}
       /\ f.ret \in {"none", "ok", "err", "refused"}
       /\ f.up # "idle" => f.mode = "w" /\ f.st \in {"open", "closing", "done"}
       /\ reading[h] # {} => f.mode = "r" /\ f.st = "open"
       /\ f.st = "done" => f.ret # "none"
  /\ \A c \in Callers :
       LET k == call[c] IN
       /\ k.todo \subseteq Paths /\ k.listed \subseteq DirPaths /\ k.due \subseteq FilePaths
       /\ k.due # {} => k.op = "rename"
  /\ DOMAIN promise \subseteq FilePaths /\ gone \subseteq Paths
  /\ calls \in 0..MaxCalls /\ faults \in 0..MaxFaults

\* READs that the kernel sends one after the other, none at 0 but the first, are
\* answered with the block at their offset, and so are the reads of a RETR, while
\* nobody changes the file (fuse/file.go, Seek before Read).
ReadsAtOffset ==
  \A h \in Handles :
    file[h].mode = "r" /\ file[h].tidy /\ file[h].last[2] # "none" =>
      file[h].last[2] = At(file[h].data, file[h].last[1])

\* Once RELEASE, a STOR or a PUT of a file written in order has succeeded, with nobody
\* else uploading to it and no RemoveAll or Rename of it or onto it under way, the file
\* has what was written until it is written, removed, renamed or replaced again; and
\* once a Rename of it has succeeded, request by request beside all others, it has that
\* at its new path (s3/file.go, Close; s3/fs.go, Rename).
StoredWhole ==
  \A n \in DOMAIN promise : n \in DOMAIN tree /\ tree[n] = promise[n]

\* What was there when a RemoveAll or a Rename began, with no file open for writing at
\* or below it and no rename under way to a path at, above or below it, is gone once
\* the call has succeeded.  It stays so until somebody opens a file for writing, makes
\* a directory or renames something there: no upload outlives its RELEASE (s3/fs.go,
\* Rename and RemoveAll; fuse/file.go, Release).
GoneStaysGone == \A p \in gone : Kind(p) = "missing"

\* The Stat of a PUT finds the file although its upload ends with Close: the
\* placeholder is stored before the first Write returns (s3/file.go).  It may fail
\* if there was no body, or if somebody else removes the file.
PutStatFindsFile ==
  \A h \in Handles :
    file[h].front = "dav" /\ file[h].ret = "refused" => file[h].data = <<>> \/ ~file[h].clean
=============================================================================
