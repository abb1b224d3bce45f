# A verification project for unifs

unifs puts one interface, `filesystem.FileSystem` (webdav's: `Mkdir`, `OpenFile`,
`RemoveAll`, `Rename`, `Stat`), in front of S3, FTP, WebDAV and local storage, and
serves it through FUSE, a CSI driver, an FTP server and a WebDAV server.  This
directory holds TLA+ models of the parts where that interface is hard to keep, TLC
configurations that check them on small instances, and TLAPS proofs of what matters
most about them.

## 1. Inventory

| Component | Source | State it keeps | Operations | What is hard | What makes it correct |
|---|---|---|---|---|---|
| S3 upload | `s3/file.go` | per handle: pipe, error channel, upload goroutine; in the bucket: the object | `OpenFile` for writing, `Write`, `Close` | two requests per file, a goroutine beside the caller, errors known only at the end, several handles on one key | nil from `Close` means stored; errors reach `Close`; readers see whole files; nothing blocks for ever |
| S3 namespace | `s3/fs.go`, `s3/file.go` | keys of a flat bucket; a directory is the object `.fs_dir` in it | `Mkdir`, `OpenFile`, `Rename`, `RemoveAll`, `Stat`, `Readdir` | every call is many requests, any of which may fail or be interleaved with other clients' | the call's result and the tree after it; no file lost; directories marked as long as they have entries |
| FTP handle | `ftp/file.go`, `ftp/fs.go`, `ftp/client.go` | per handle: a `sync.Once`, `f.err`, offset, one stream, its connection, the STOR goroutine | `OpenFile`, `Seek`, `Read`, `Write`, `Close` | unsynchronised `f.err`, shared once, connections on error paths | no panic, no hang, no connection left, what `f.err` says |
| FTP namespace | `ftp/fs.go`, `ftp/client.go`, `ftp/config.go` | the pool configuration behind a mutex | one connection per call | the mutex is held while dialing; check-then-act | result of each call, behind a base path too; one slow server |
| WebDAV handle | `webdav/file.go`, `webdav/client/client.go`, `webdav/client/file.go` | pipe and PUT goroutine; position and response body | `Write`, `Close`, `Read`, `Seek` | nobody waits for the PUT | no mixture of handles, whole files from finished PUTs; nil from `Close` means stored (it does not) |
| WebDAV namespace | `webdav/webdav_fs.go`, `webdav/config.go` | a cached client | single requests after a `Stat`; `Mkdir` looks three times around its MKCOL | uploads that land after `Close`; other clients between the looks; a client cached before it is checked | result of each call once its upload has landed |
| Core | `filesystem/util.go`, `fs_sub.go`, ... | none | `MkdirAll`, `WalkDir`, `Write`, `Sub` | concurrent `MkdirAll`; a tree that changes under a walk; guards behind `Sub` | the directory exists afterwards, whoever made it; a walk meets what stays |
| CSI node, mounter, mount daemon | `csidriver/server_node.go`, `csidriver/mounter`, `cmd/unifs/mount.go` | kernel mounts, daemon processes | publish, unpublish, wait for the mount | processes, timeouts, retries | where calls alternate and succeed, published means mounted once and unpublished means no mount, now or later; every call is answered |
| CSI identity, controller, server | `csidriver/driver.go`, ... | the gRPC server | volume ids, shutdown | shutdown against a deadline | ids round-trip; shutdown ends |
| FUSE | `fuse/*.go` | inodes, open handles | kernel requests | offsets over streaming handles, requests in flight together, the upload that ends in RELEASE, after close(2) | reads in order get the block at their offset, what is written in order is stored whole, what is removed stays gone |
| FTP server, afero adaptor; WebDAV server | `ftp/server.go`, `aferofsutil`; `cmd/unifs/webdav.go` | open files | STOR, RETR, PUT, commands on names | a `Stat` of a file that is not stored before `Close` | an upload that is answered is stored |
| Tar | `tar/*.go` | none | import, export | partial imports, dropped errors, files that change between listing and reading | an import without faults has stored its files; an export has every file that nobody touched |
| Endpoint, units, backend selection | `strfmt`, `units`, `filesystem/api` | none | parse, format, select | boundaries | round trips |

Interaction: `api.FileSystemBackend` picks a backend; servers, FUSE, tar and the core
utilities call it through the interface only, so the properties of a backend's handles
and calls are what everything above builds on.  Hence the order of the plan: backends
first, and among them the one with the most logic of its own, S3.

`PROJECT.json` lists the components with their state of modelling and, under `hazards`,
what in this code is hard to reach with a test, at its line.

## 2. Plan

1. **S3Upload** over **AtomicPut**, with proofs (done).
2. **S3Tree** (done).
3. **FtpFile** (done).
4. **WebdavFile** (done).
5. **CsiNode** (done).
6. **Namespace** over **Tree**: the WebDAV and the FTP backend's trees with `Sub`,
   `MkdirAll`, `Write`, `WalkDir`, import and export (done).
7. **Gateway** over **Tree**: FUSE, the FTP server's adaptor and WebDAV's PUT over the
   S3 file system, its `RemoveAll` and `Rename` request by request (done).
8. Proofs: S3Upload implements AtomicPut, `SoleWriterReadsBack` (**S3UploadProofs**);
   the safety invariants of FtpFile, WebdavFile, CsiNode and Gateway
   (**FtpFileProofs**, **WebdavFileProofs**, **CsiNodeProofs**, **GatewayProofs** over
   **TreeProofs**), those of S3Tree (**S3TreeProofs**) and those of Namespace
   (**NamespaceProofs**; done).
9. The backends' configurations (clients that are cached, the lock of FTP's `Conn`);
   endpoint and size parsing as operators.

## 3. Modules

### AtomicPut - what writing a file promises

Bytes are accepted while a handle is open; `Close` seals it; a sealed handle's bytes
are stored all together, once, or not at all; `Close` answers nil only after they were.
A creating handle may put a placeholder once, before it is sealed.

### S3Upload - `s3/file.go`, the write path

| Model | Code |
|---|---|
| `pw`, `errCh`, `err` | `f.pw`, the one-slot `f.errCh`, the goroutine's `err` |
| `call`, `arg`, `sent` | the call the user of a handle is in, its argument, how much the pipe's reader has taken |
| `up` | where the goroutine is: placeholder, streaming, last request, the two deferred calls |
| `got`, `object` | what `PutObject` has read; the bucket's object |
| `acked`, `answer`, `stored` | history: bytes acknowledged, the first answer of `Close`, what this handle's upload put |

One action per step that another party can observe: opening, entering `Write` (with its
`sync.Once`), the pipe's hand-over of any number of bytes, the return or failure of
`Write`, the two halves of `Close`, each request (carried out and acknowledged, carried
out and answered with an error, not carried out), the deferred send and the deferred
`pr.Close`, in the order Go runs them.  A streaming `PutObject` makes its object visible
at its last request, as S3 does.  Data are short sequences over three byte values.
Handles are not written to after `Close`; a second `Close` is modelled, and blocks, as
in the code.

### S3Tree - `s3/fs.go`, the namespace

A call is a *program*: a sequence of requests whose head is executed in one step and
whose answer decides the rest (`MkdirAfterStat`, `RenameAfterStat`, `RenameAfterList`,
`RemoveAllAfterList`, ...).  The recursion of `Rename` and `RemoveAll` is the program
growing at its front.  `Stat` is its two requests, `StatObject` and the listing of
`statDirectory`.  Any request may fail, carried out or not; a failed listing inside
`Stat` is taken for a directory and a failed first `Stat` of `Mkdir` for nothing being
there, as in the code.  Paths are
sequences of names, file contents are the number of the `Create` that wrote them, and
`ShortOf` says which names are string prefixes of which - the only thing about strings
the code depends on.  `BasePath` is the endpoint's path below the bucket.

`Proper` says which calls are looked at: nothing is created below a file or over a
directory, and a file is not renamed onto a directory or into a missing one.  S3 has no
directories to refuse that, and neither the code nor the fronts check it: a file may be
renamed into a directory that is not there and brings it back, which is in Gateway.
`forceRemove` asks for `ForceDelete`, which drops every version of an object; the model's
bucket holds one of each.  `safe` is the set of
contents that no call was asked to remove or replace; a write that another call in
progress may remove (the target of a concurrent `Create`, `RemoveAll` or `Rename`) does
not enter it, since the code promises nothing there, and `safe` is empty while some
path is a file and a directory at once, which only calls that overlap bring about.
`blurred` becomes true when calls overlap or a failed `Stat` is taken for an answer that
is not true, and is true from the start where some directory of the starting tree has no
holder; `HoldersFirst` speaks of what happens before.

`Contract` is the reference: the result and the tree the table of
`testutil/test_full_fs.go` asks for, for every call in every tree.  It is asked of a call
that meets no fault and no other call (`alone`), compared with the bucket in which it
began (`before`), from every bucket that earlier calls, failed ones too, leave, but two
kinds.  One is a bucket in which a path is a file and a directory at once (`Mixed`, a
condition in `Begin`): the calls of the code look at such a path as a file, and what they
leave of the directory depends on which of its entries they list first.  The other is a
bucket in which the tree that a `RemoveAll` or a `Rename` takes away is the last entry of
a directory that has no holder (`~Rooted`, a condition in `ContractHolds`): a failed
listing that is taken for a directory (`s3/fs.go:233`) lets a `Create` leave such a
directory behind, and it goes with its last entry.  There the code breaks the contract:
without `Rooted`, TLC finds a `Create` of `/a/a` whose listing fails, and then a `RemoveAll`
of `/a/a`, alone and without a fault, that returns nil and takes `/a` with it.  In every
other bucket with directories that lack their holders the contract is asked and kept; one
of them is among the starting trees.  `View` is the
tree that `Stat` shows of a bucket, of every path in use and every place a key lies at or
below.

### FtpFile - `ftp/file.go`, one handle

The caller (`pc`), the goroutine of `Write` (`stor`) and the server's file.  The once
that `Read` and `Write` share, `f.err`, the two closers, `f.offset` in unsigned
arithmetic of `Word` values (2^64 in the code), and the connections: dialed, closed,
and `lost`, which are those no variable refers to any more (a refused RETR, a refused
login).  `f.err` is written by the goroutine without synchronisation, so the caller may
read the old value (`SeenErr`).  The server truncates the file when it accepts a STOR,
writes what it is sent at any later time, and answers only when it has written all; it
refuses an offset behind the end of the file.  A handle is not used after `Close`
except for another `Close`.

### WebdavFile - `webdav/file.go`, `webdav/client`, the handles of one name

| Model | Code |
|---|---|
| `call`, `arg`, `put`, `got` | the call the user of a writing handle is in; the goroutine of `OpenWrite`, from `sending` to `done`, and what its transport has read from the pipe |
| `remote` | the server's file |
| `rd`, `size`, `pos`, `seeked`, `body` | the reader: `f.info.Size()`, `f.pos`, `f.seeked`, `f.lastBody` |
| `acked`, `landed`, `read`, `eof`, `from`, `plain` | history |

The server is external: the `Handler` of `golang.org/x/net/webdav`, which
`cmd/unifs/webdav.go` and the tests run.  It locks the name for the length of a PUT (a
second PUT and a DELETE are refused), truncates the file when it accepts the PUT, stores
what arrives and keeps it when the body breaks off.  A GET is answered with the file as
it is then; `plain` is lost when it changes under a reader.  `Ranged` is `setRange` as
`Read` calls it, the range 0-0 after a `Seek` to the start included.  A closed reader is
not used again.  What the code drops is dropped: the PUT's error and status, the GET's
status, the body's error.

### CsiNode - `csidriver/server_node.go`, `csidriver/mounter`, `cmd/unifs/mount.go`, `csidriver/driver.go`

One target path; its mounts are a stack of daemons (`mounts`).  A publish is `MkdirAll`,
`cmd.Run`, which leaves a daemon behind, and the polling of `waitForMount`: `Mounted`,
`Sleep`, `TimesOut` and `WaitFails` are the four ways through its loop, `Ticks` is the
timeout in intervals.  An unpublish is the two checks of `FuseUnmount` in one step and
`umount` in another.  A daemon starts, then mounts or fails; unmounted, it waits for a
signal (`waiting`); killed, it leaves its mount behind, and every stat of the path fails
(`Unreachable`).  `Shutdown` is the select, its goroutine and the unbuffered channel
between them.  Requests refused for a missing argument change nothing and are left out.
`tidy` says that calls alternated without overlap and were all answered OK: that is when
the node service keeps its bargain.  Where they overlap or time out it does not (a late
daemon mounts after the unpublish, a second mount covers the first), and only
`ServedMounts` and the liveness properties are claimed.

### Tree - paths and trees

What Namespace and Gateway share: parents, subtrees, what a placing, a move or a removal
makes of a tree, each as an explicit function of the paths it has afterwards.  S3Tree
has keys in place of a tree and uses its operators on paths.

### Namespace - `webdav/webdav_fs.go`, `ftp/fs.go`, `filesystem/util.go`, `fs_sub.go`, `tar`

| Model | Code |
|---|---|
| `tree` | the server's tree, with real directories, above the base path too |
| `prog[c]` | the requests the call of client `c` has still to make |
| `Look` and `why` | a `Stat` or `GetEntry`, and what it is for |
| `"catch"` | the second look of `MkdirAll` after a `Mkdir` that failed |
| `flight` | the PUTs of WebDAV that go on after `Close` |
| `archive[c]` | what client `c` has exported, and imports |
| `alone`, `before`, `still`, `calm` | history |

A call is a program of requests, as in S3Tree, and a call made by another call is a part
of its program: `MkdirAll` is `Look("all")` and, if nothing is there, the same for the
parent and a `Mkdir` that leaves a handler behind; `ExportAsTar` is a walk whose listing
puts its entries in front of the rest; `ImportFrom` is one request per entry, which
turns into the `MkdirAll` of its directory and a `Create` when its turn comes
(`ImportDir`).  `Go` passes over the handlers, `Fail` runs to the next one.  The servers are
external: one carries out a request at a time, refuses what does not fit its tree, and
is trusted with no more.  WebDAV's refusals are errors that are no os errors, FTP's are
all "not there" (`Refused`, `FailedLook`).  `RemoveAll` of FTP is the library's
`RemoveDirRecur`: list, then remove one by one.

Paths are sequences over `Names`, as many and as long as one likes; `IsTree` says of a
tree that everything in it lies below directories only.

`FullName` is `Sub`: the FTP backend with a path in its endpoint is `Sub(fs, path)`, so
the guard of `RemoveAll` sees the base path and not the root.  `Seen` is the way back:
what callers see of a tree of the server.
`Proper` restricts what callers ask for, as in S3Tree.  `Written` gives the contents of
the k-th `Create`, and `Sizes` their lengths, since the export sends the size that was
listed; `Cut` stands for the beginning of a longer file.

`Base` is the base path, of any number of names (two in the run); the directories of the
base path are there when the file system is made.

For a path below a file x/net's handler answers 405, and the client an error that is no
"not there"; the WebDAV server of the model answers "missing" for it, like the FTP one.
The test suite has no such case.

`Keeps` is the reference: `testutil/test_full_fs.go` for the calls of the interface, and
for `MkdirAll`, export and import what their callers rely on.  `ContractHolds` asks it of
a call that meets no fault and no other call (`alone`), between the server's tree when
it began (`before`) and the tree when its upload has landed, both as callers see them.
It asks nothing where the root that callers see is no directory: behind a base path
`RemoveAll` of the root is not refused and removes the base path itself, and an import
may then put a file there.  That `RemoveAll` is bound, like every call that begins
with a root.

### Gateway - `fuse`, `aferofsutil`, `cmd/unifs/webdav.go` over `s3/fs.go`

| Model | Code |
|---|---|
| `tree` | the S3 file system: a file's blocks, or a holder; an object implies its directories |
| `file[h]` | an open file: its front, its state, its upload, `pos` of minio's `Object` |
| `reading[h]` | READs the kernel has in flight: before and after their `Seek` |
| `"closing"` | RELEASE, the end of a transfer, the end of a PUT's body: `Close` is due |
| `call[c]` | the `RemoveAll` or `Rename` a client waits for: what it has still to look at (`todo`), the directories it has listed (`listed`), the file it has copied and not yet removed (`due`) |
| `promise`, `gone`, `owed` and `leaves` of a call, `data` of a reader, `tidy`, `clean`, `last` | history |

The upload of a file is reduced to what S3Upload shows of it: the first `Write` stores the
placeholder if the file was opened with `O_CREATE`, and `Close` stores the whole file or
fails with it stored or not.  `RemoveAll` and `Rename` are here request by request, with
every other request of every front in between: `Enter` lists a directory, and a `Rename`
makes the new one; `Copy` is `CopyObject`, `Delete` the `RemoveObject` that follows it or
takes what a `RemoveAll` has found; `Leave` removes a holder, after all that was found
below; `Refused` is a `Rename` that finds nothing at the old name or something at the
new one; `Returns` is the answer.  Each request may fail, carried out or not, and ends the
call where it stands (`Requests`).  As in the code, a `Rename` of a file asks nothing of
its new name: it replaces a file, or brings a missing directory back.  So an upload that
ends between `Copy` and `Delete` is removed, as it is in the code.

Of the fronts, the `Seek` and the `Read` of a READ are two steps, either may fail, and
`off > 0` is the code's condition for the first; RELEASE follows close(2) at any time; the
adaptor's `Stat` comes between `OpenFile` and the first `Write`, WebDAV's between the last
`Write` and `Close`, and either may fail.  The kernel truncates a file it opens for writing
with a SETATTR, which the code answers and ignores; what is then written replaces the
whole file, as it does without, and `tidy` is lost without.  Removing a directory is
`RemoveAll`, whoever asks.

What the model joins or leaves open: what a call has to do is a set, so that the entries
of a directory come in any order and the directories of a tree may be worked on in turns;
a listing and the `Mkdir` of the new directory are one step (`Mkdir` looks twice, and
where only its second look finds a directory the `Rename` goes on into that, which `Enter`
allows), as are `Stat` and `CopyObject`; what is read from a file that was changed since it
was opened is not told.  Left out: a `Rename` to a path below, which is refused, and to
a directory above, which ends at its `Mkdir`; a `Rename` of a name to itself, which does
nothing; a file opened with `O_RDWR` and no `O_CREATE`, which S3 opens for reading
(`s3/fs.go:62`); a WRITE refused with EFBIG.

What is promised, and what is not:

- `StoredWhole` speaks of files whose upload was answered, was the only one, was written in
  order, and ended with no `Rename` or `RemoveAll` of the file or onto it under way
  (`Works`): one that ends in the middle of such a call may be copied or removed half-way,
  and TLC finds the loss in seven states without this condition.  From then on it holds
  beside everything: a `Rename` takes the promise along (`owed`) and must have kept it when
  it succeeds, and loses it if others work at the old or the new path meanwhile
  (`Disturbed`).  While the `Rename` is under way, and after one that failed, nothing is
  promised of what it moves.
- `GoneStaysGone` speaks of what was there when a `RemoveAll` or `Rename` began, with no
  file open for writing at or below it and no `Rename` under way that may put something
  there (`Settled`).  It must be gone when the call succeeds, and stay so until a file is
  opened for writing, a directory made or a `Rename` begun that reaches it; a `Rename` reaches
  whatever lies at, above or below its new name, since it may bring back the
  directories above.
- `ReadsAtOffset` speaks of READs one after the other, none at 0 but the first, of a file
  that nobody has changed since it was opened.

Files and directories have paths of their own (`FilePaths`, `DirPaths`), so that what a
client opens for writing is never a directory's name; `GatewayAssumption` asks that
the path of everything that has something below it is a directory's.  A `Rename` is
made only where every path that moves has one of its kind to go to.  `Blocks` is what
files hold and `Data` what clients write; telling them apart lets a read that is
answered with another block be seen.

## 4. Runs

| Run | Instance | Shows |
|---|---|---|
| `s3_upload` | 2 handles, 2 `Write`s and 2 `Close`s on one and 1 `Write` on the other, payloads of 0 and 2 bytes, object there or not, with fairness | `CloseOkMeansStored`, `SoleWriterReadsBack`, `ErrorsReachClose`, `WholeFilesOnly`, that S3Upload implements AtomicPut; `WritesReturn`, `FirstCloseReturns`, `ClosedLeavesNoGoroutine` |
| `s3_upload_new_file` | as above, expected to fail | the placeholder replaces existing files, against the comment in `Write` |
| `s3_tree` | 2 interchangeable clients, 2 calls from trees that up to three calls have left, directories without holders among them, 8 paths on 3 levels, 1 failing request; 1 million states | `ContractHolds`, `SafeContentsSurvive`, `HoldersFirst` under every interleaving of requests |
| `s3_tree_no_base` | no base path, expected to fail | `RemoveAll` of a file returns nil and leaves it |
| `s3_tree_prefix` | names `a` and `ab`, expected to fail | `Stat` of a missing name shows a directory |
| `ftp_file` | 1 handle, 3 calls, 2 `Close`s, file of 3 bytes or none, 16-value words, with fairness | `QuietErrMeansStored`, `PanicOnlyOnMixedUse`, `CloseReleases`, `ReadsFollowSeek`, `CallsReturn` |
| `ftp_file_silent` | the same, expected to fail | `Close` returns nil although STOR failed |
| `webdav_file` | 2 writing handles of 2 `Write`s, a reader with 2 `Read`s and a `Seek`, 1 `RemoveAll`, with fairness; 0.5 million states | `OneHandlesFile`, `LandedIsWhole`, `PlainReads`, `WritesReturn`, `ClosedPutsEnd` |
| `webdav_file_close` | the same, expected to fail | `Close` returns nil before the PUT is carried out |
| `csi_node` | 2 callers, 3 publishes, 2 unpublishes, a timeout of 2 intervals, 1 killed daemon, with fairness | `TidyCycle`, `ServedMounts`, `CallsReturn`, `ShutdownEnds` |
| `namespace` | WebDAV, and FTP behind a base path of two names; 2 interchangeable callers, 2 calls, 7 paths on 3 levels, 2 trees, 1 failing request; 0.4 million states | `ContractHolds`, `MkdirAllNeverLosesRace`, `MkdirAllOkMeansDirectory`, `UntouchedFilesExported` |
| `gateway` | up to 2 files of up to 2 blocks, opened by the kernel, an FTP or a WebDAV client, 2 callers with up to 2 `RemoveAll`s, `Rename`s and `Mkdir`s, from one tree to a directory that is not there, 1 failing request, at most 3 of these events together; 1.3 million states | `ReadsAtOffset`, `StoredWhole`, `GoneStaysGone`, `PutStatFindsFile` |

The bounds: two handles are what interleaving needs, since the handles of S3Upload share
only the object; two `Write`s make a second one that may find the goroutine gone, and a
payload of two bytes one that is half taken.  The starting trees of S3Tree are what up
to three calls leave, a `Rename` that broke off among them, so that two more calls reach
the deepest case (make a directory, fill it, have a `Rename` or `RemoveAll` break off,
call again); three levels make its recursion recurse.  Three calls of FtpFile are a
`Seek` and two uses of a stream.  In WebdavFile a second `Write` makes a file that can
be cut in the middle, and one `Seek` and two `Read`s a `Seek` before, between or after
them.  In CsiNode three publishes and two unpublishes make a cycle, a retry beside it
and a stack of three.  In Namespace a `MkdirAll` of three names meets another one
half-way, and one call beside an export can change any part of the tree under it; in
Gateway two files are two writers on one name, or a writer and a reader, with every
request of a rename between theirs, and two callers two renames that cross, or a rename
and a removal of what it moves, with an upload beside them.  `MaxEvents` of 3 allows two
files and a call, a file and two calls, or any two of these and a request that fails, each
with all its steps; what more of them together do is covered by the proofs, which have no
bound.  All counters are bounded in
guards (`MaxWrites`, `MaxCloses`, `MaxCalls`, `MaxFaults`, `MaxBlocks`, `MaxReads`,
`MaxSeeks`, `MaxRemoves`, `MaxPublishes`, `MaxUnpublishes`, `MaxKills`, `MaxEvents`); the
systems may stop at their bounds, and callers need never call, so deadlock is not checked.

Fairness: weak fairness of the goroutine's and the store's steps and of the return of a
call that can return.  The Go scheduler runs what can run, and the clients of minio,
jlaffaye/ftp and net/http answer every request, with an error at worst.  In CsiNode it is
weak fairness of a call's own steps (its waits are counted) and of the goroutine of
`Shutdown`; nothing makes a daemon mount.  Nothing forces a caller to write or close, a
stream to fail, or a server to accept.

Every property has a mutant in `PROJECT.json`: a plausible slip in the code (a `Close`
that does not wait, an unbuffered channel, a remove before the copy, a forgotten
holder) under which TLC finds the property violated.

## 5. Proofs

`S3UploadProofs` proves, for every set of handles, every set of payloads and all bounds,
under `ConstantsAssumption` only:

- `TypeCorrect`: `TypeOK` is an invariant;
- `Invariance`: so is `IndInv`;
- `CloseOkStored`, `ErrorsReported`: `CloseOkMeansStored` and `ErrorsReachClose`;
- `WholeFiles`: the action property `WholeFilesOnly`;
- `Refinement`: S3Upload implements AtomicPut (`RefinesAtomicPut`);
- `SoleWriter`: `SoleWriterReadsBack` is an invariant.

None of the safety properties is inductive.  That a nil answer means "stored" depends on
where the goroutine's error was before: `IndInv` says, per handle, that what `PutObject`
has read is what was acknowledged plus what the current `Write` has handed over
(`Transfer`), that caller, pipe and goroutine keep step - a goroutine exists exactly
when the pipe does, its last request comes only after `Close` has closed the pipe
(`Lifecycle`) - and that the error is in `err`, then in the channel, then in the answer,
and nowhere else, and that no error means stored (`Outcome`).  The proof rests on a
frame lemma: a step of one handle leaves every other handle's variables alone
(`StepsAreLocal`), so the invariant needs to be shown only for the handle that moves;
one lemma covers the caller's actions (`CallerHandleInv`), one the goroutine's
(`UploadHandleInv`), with the concatenation argument of the pipe (`HandOver`) apart.

The refinement goes by handle too.  Under the mapping of `Abstract`, the step of a handle
leaves what AtomicPut sees of every other handle alone (`SameAbove`), and is itself one
of five kinds (`OwnStep`): invisible, a move of the phase, bytes accepted, the placeholder
asked for, the file stored.  The caller's actions (`CallerStepsAbove`) and the goroutine's
(`UploadStepsAbove`) are shown to be of these kinds, where `IndInv` says that a
placeholder is only asked for through a creating handle that is being written to, that a
first `Close` finds no answer, and that an upload is put only while `Close` waits;
`StepAbove` turns each kind into AtomicPut's action.  `SoleWriter` needs a second
invariant, `ReadsBack`: from the moment an upload has succeeded, and as long as no other
has started, the object is what `PutObject` read - the placeholder of the same handle is
behind it.

`FtpFileProofs`, under `FtpAssumption`: `TypeCorrect`, `QuietErrStores`,
`PanicsOnlyOnMixedUse`, `ClosedReleases` and `ReadsInOrder` are the invariants
`TypeOK`, `QuietErrMeansStored`, `PanicOnlyOnMixedUse`, `CloseReleases` and
`ReadsFollowSeek`.  The invariant they rest on counts connections by who holds them - the
RETR, the goroutine, nobody (`Accounts`); says which states of the once, the closers and
the goroutine go together (`Streams`) and what the caller must have done to get there
(`Uses`); that STOR has taken what `Write` acknowledged and what it has handed over
(`Transfer`, as in S3Upload); and how far the RETR is (`Stream`).

`WebdavFileProofs`, under `WebdavAssumption`: `TypeCorrect`, `FileOfOneHandle`,
`LandedWhole` and `ReadsPlainly` are `TypeOK`, `OneHandlesFile`, `LandedIsWhole` and
`PlainReads`.  `OneHandlesFile` is not inductive: that the file is the beginning of what
one handle wrote is kept by a server that stores one PUT at a time, from a transport
that has taken no more than was acknowledged (`Puts`, `Storing`); `Position` says
that a body, with what was read from it, is the rest of the file from where the `Seek`
led.

`CsiNodeProofs`, under `CsiAssumption`: `TypeCorrect`, `TidyCycles` and `MountsServed` are
`TypeOK`, `TidyCycle` and `ServedMounts`.  `Stack` and `Killed` say that every mount has
a daemon of its own, which serves or was killed.  `Tidy` follows a call through its
steps: `mkdir` and `run` find nothing mounted and nothing on its way, `wait` finds one
daemon that has mounted or will, `stat` and `umount` the mount of the publish before.

`GatewayProofs`, under `GatewayAssumption`, over the lemmas on paths and trees of
`TreeProofs`: `TypeCorrect`, `ReadsWhereAsked`, `StoredStays`, `GoneStays` and
`PutFindsFile` are `TypeOK`, `ReadsAtOffset`, `StoredWhole`, `GoneStaysGone` and
`PutStatFindsFile`, for any number of handles and of calls under way at once, trees of any
size and depth and any failing requests.  The invariant says

- of each handle what its phase allows (`Phase`), that a reader whose file nobody changed
  has it, and that its only READ, once sought, is at the position (`Reader`), that a PUT
  that has written has its file (`Put`);
- of each call that it works on what it was asked for and that old and new name lie apart
  (`Shape`); that what a `Rename` takes along is either still on its list at the old path
  or already whole at the new one, and that no other call works at either (`Owes`); that
  whatever lies in what the call is to take away is still to be removed (`Takes`,
  `Pending`), and that no upload and no other call adds to it (`Shut`);
- of what is gone that nothing lies there and nobody may put something there (`Gone`);
- of what is promised that it is there and no call works on it (`Promised`).

None of the last four is inductive alone: that a promise is kept at the new path rests
on what the `Rename` had still to do at every step before, and that something is gone on
what was pending.  The proof has two frames.  A step changes one handle, and every other
one is `Kept` unless its file was changed (`TouchedKept`); and a step of a call, or of a
handle, leaves every other call `Abides`, since what it changes is away from what that
call relies on, or has been struck from its `owed` and `leaves` (`DisturbedKeeps`,
`OthersAbide`). `RequestsKeep` and `OwnJob` reduce a request to what it does to the
call's own list; `EnterKeeps`, `CopyKeeps`, `DeleteKeeps`, `LeaveKeeps` show that, where
what was on the way to a path is on the way through one of the entries that a listing
puts in the directory's place (`ChildOnTheWay`), and `ReturnsKeeps` turns a call with an
empty list into what is promised and what is gone.

`NamespaceProofs`, under `NamespaceAssumption`, over `TreeProofs`: `TypeCorrect`,
`MkdirAllOkMeansDirectoryHolds`, `MkdirAllNeverLosesRaceHolds`,
`UntouchedFilesExportedHolds` and `ContractKept` are `TypeOK`,
`MkdirAllOkMeansDirectory`, `MkdirAllNeverLosesRace`, `UntouchedFilesExported` and
`ContractHolds`.  A program may be of any length,
so the invariants say what the requests of each kind of call are, and where in it they
stand:

- `Typed`: what each request's fields may be (`Valid`), that a program never begins with
  a handler, and that until something is removed or renamed no program has a request
  that removes or renames (`Gentle`).  `Go` and `Fail` keep this for sequences of any
  length (`GoTypes`, `FailTypes`), and the server's requests keep the tree a tree
  (`PlacedFine`, `WithoutFine`, `MovedFine`).
- `Makes`: every `MkdirAll` of m is at one of the points a `MkdirAll` can come to
  (`Going`).  While it looks at or makes the first k names of m, its requests are one of
  eight short programs in front of `Chain(m, k)`, the `Mkdir`s of the longer beginnings
  (`GoingAt`).  Each point carries what is known there: that the parent is a directory
  once its turn has passed, that something is there once a `Mkdir` has been refused.
  These facts stay true beside other calls because nothing gentle removes what is there
  or turns a directory into a file (`CalmKeeps`, `KindsStay`), which is also why the
  root stays (`RootStays`).  That the second look finds a directory or a file, and so
  no race is lost, is the point after the refusal.
- `Gathers`: for every file that is still as it was when the export began, its entry is
  in the archive, or a request still to make leads to it (`Finds`): a look or a
  listing above it, or its own export.  Every step hands this on: a directory that
  leads to a file has an entry that leads to it (`EntryLeads`), as the file is there.
- `LoneInv`, for the contract: no other client has a request left, and the call that is
  alone `Goes` on as it should from the tree `t` it began in to the tree `b` there is now:
  it has kept the contract, or it is `Underway`.

`Underway` has a case for each call.  `Making` (`Mkdir`), `Creating` and `Moving` (`Rename`)
are short lists of points, each with what the looks so far have shown of `t`.  `MkdirAll`
is at a point of `GoingAt`, as in `Makes`, and `b` is `t` with some of the directories
made (`Grown`).  `Emptying`, FTP's `RemoveDirRecur`, says that what is left in `b` is what
was not to be removed and what a request still to make takes (`Takes`), each thing taken
once, and that an `rmd` comes behind the requests that empty its directory.  `Exporting`
is `Gathers` again, and that nothing else gets into the archive.  `Importing` says that
whatever is not stored is on its way or that a request still to make brings it
(`Uploading`), behind a `MkdirAll` of one of the directories needed (`Needed`), or not;
and that there is `Room`: nothing is where a directory has to be made or a file to be
stored that cannot stay.  Where the tree or the archive leaves no room the test suite
asks nothing (`NoRoom`), and so does the invariant.

The proof has three lemmas per call.  The call begins `Underway` (`MkdirBegins`, ...,
`ImportBegins`; `BeginGoes`), a step of its client keeps it so or ends it with the
contract kept (`MkdirTurn`, ..., `ImportTurn`; `UnderwayTurn`), and so does a PUT that lands
(`CreateLands`, `ImportLands`; `UnderwayLands`).  A fault or another call's beginning ends
being alone.  That a tree of the server which ends as it should looks to the caller as it
should is shown once for each kind of change (`SeenPlaced`, `SeenWithout`, `SeenMoved`):
`FullName` is one-to-one and keeps what lies below what.

`S3TreeProofs`, under `TreeAssumption` and `StartAssumption` (names are not the
holder's; every starting tree is one that calls may have left: `Stored`): `TypeCorrect`,
`NoFileLost`, `HoldersKept` and `ContractKept` are `TypeOK`, `SafeContentsSurvive`,
`HoldersFirst` and `ContractHolds`, the last two under assumptions that are given below.
Here too a program may be of any length.  `Steps` reduces every step to one of five
kinds - the second request of a `Stat` is asked for, an answer is heard, a listing is
read, the call gives up, the bucket changes - and `HearsIs`, `ListsIs`, `MovesAre`,
`RemovesAre` say which requests take the place of the first (`Becomes`).  `Typed` gives
the fields of every request (`Valid`), and that only a `Rename`, a removal or a
recursion waits behind another request.  `SafeInv` is the inductive invariant of
`SafeContentsSurvive`:

- `Harboured`: what is safe has a key that no program is about to remove, except one
  that copies it in the request before.  This alone gives the property.
- `Within`: a call stays within its paths: a `Rename` removes and reads only at or below
  its old name and writes only at or below its new one, a `RemoveAll` removes only at or
  below its name.  With `AtRisk` this keeps other calls away from what is written.
- `Fresh`: a `Create` in progress has not written yet, so that no other file has what it
  writes.
- `Unreplaced`: a safe file lies where no call in progress may replace it, or where
  a `Rename` has put it and will not write again.
- `DirFound`: what a `Rename` takes for a directory is not a safe file, though
  `StatObject` and the listing are two requests with other calls between them.
- `Tidy`: behind a request that moves something, no request removes a file but
  what was moved or what it lay below (`Ordered`); and the places a `Rename` writes to
  are apart, unless a path was listed twice, as a file and as a directory - then nothing
  below the old name is safe any more.

Requests that leave the bucket alone need only that what takes the first one's place
`Follows` (`MovesFollow` for a listing: entries of one directory go to places that are
apart); a write is shown to overwrite nothing safe (`PutIs`), and a copy to be
neither removed nor written over by the call that makes it (`CopyStays`), where a tree
that would be a file and a directory at once is the case that `Mixed` excludes.

`HoldersKept` is `HoldersFirst`, under the further assumption that no name starts another
(`ShortOf = {}`): with names `a` and `ab`, the file `ab` makes `Stat` say that `a` is a
directory (see section 6), and a `Mkdir` below `a` then succeeds where there is no holder.  Its
invariant `HoldersInv` speaks of the one client that works while nothing is blurred:

- `Placeable`: where a request writes, every directory above has its holder (`Based`).  A
  request that has yet to ask for the parent needs this only in case it is there
  (`Ready`), and the renamed entries of a directory rely on the `Mkdir` in front of
  them (`Makes`).
- `Cleared`: whatever lies in a directory whose holder is going to be removed is removed
  by a request before that one, or by those that such a request will be replaced by
  (`Clears`).  `Covered` says that a listing names everything below the directory but its
  holder.  A path that is a file and a directory at once is listed twice, and its first
  `Rename` handles only the file; so it is the second that clears what is below.
- `Distinct` and `MakesWithin`: once a `Rename` works on a directory, the old and the new
  name lie apart, and all that it writes, the holders of new directories too, lies at
  the new one; so nothing it writes comes to lie in a directory that it removes.

A `Mkdir` that will find something there writes nothing (`Refused`).  Failed requests are
in the invariant: a call that gives up leaves a well formed tree at every point.

`ContractKept` is `ContractHolds`, under the assumptions that no name starts another and
that the endpoint has a base path (`BasePath`): the two runs that are expected to fail
show that it holds of neither kind of bucket without.  Of a `Rename` the theorem speaks
only if every directory within the tree that moves has its holder (`Marked`), which the
property does not ask for: the invariant matches the keys of the old tree and of the new
one by one, and the `Mkdir`s of a `Rename` put holders that the old tree did not have.
TLC checks those `Rename`s, too.  With `Rooted`, that a directory above keeps another
entry, `Stays` says that what is above what a call takes away is still there
(`RootedStays`); where it is not, the contract fails (see section 6).  `ViewIs` first replaces
what `Stat` shows by what a bucket holds (`Shown`): a path is there if something is at
or below it.  `PlacedShown`, `WithoutShown` and `MovedShown` say what a tree looks like
when a key has been put, when everything at or below a path has gone, and when it has
moved; these are the three ends a call may come to.  `LoneInv` is the invariant; it
relates, for the call that is alone, the bucket `t` it began in, the bucket `b` there is
now, and the requests it still has to make:

- `Making`, `Creating`: nothing has changed yet, and what the next request relies on - that
  nothing is there, that the parent is - is true of `t`.
- `Removing`: `b` is `t` but for keys of the tree that is removed, and every such key that is
  left will be taken by a request still to make (`Taken`).
- `Looking`, `MovingFile`, `Clashing`: a `Rename` that does not know yet what it moves, that
  copies a file, or that will be refused.
- `MovingDir`: a `Rename` of a directory, half-way.  A key of the old tree is there as
  long as a request will take it, and is at its new place as soon as no request will bring
  it there any more (`Halfway`, `Brought`); each is taken and brought by one request only
  (`Once`), so that a request that is done with has done its part; what a request moves
  is still there and what it writes to is free (`Fit`).

The induction over the length of the program, which the provers cannot do, is in `Taken`
and `Brought`: they quantify over the requests that are left, `FirstTaken` takes the first
one off and `FrontTaken` puts those of a listing in its place, which take and bring what
the one they replace took and brought (`RemovesTake`, `MovesMove`).  When the program is
empty, nothing is taken or brought, and the invariant is the contract (`DirEnds`).

What the proofs and the runs changed in the models: two guards of `Ranged` overlapped
for an empty file; `TypeOK` of Gateway was false for constants TLC was not given, where
a `Rename` had no path to move something to or a file's path lay above another path;
Namespace did not say what its paths were made of, nor that its starting trees were
trees, and an import unfolded all its entries at once; what `Seen` shows of a tree in
Namespace was cut to the paths in use, so that a tree with something elsewhere would
have passed for another; S3Tree did not say what its starting trees hold, `safe`,
`blurred` and `ContractHolds` promised too much where a path is a file and a directory
at once, and the tree that calls are compared with left out what a `Rename` beside a
`Create` may move out of the paths in use.  Every inductive invariant was checked by TLC
first, on the instance of its run (`HoldersInv`, which is about one client at a time,
with one client, six calls and two faults).

Only model-checked: liveness (fairness and `ENABLED` are outside the prover's reach).
Every invariant and every action property of the runs that pass, and the refinement of
AtomicPut, is proved.
`HoldersFirst` and `ContractHolds` of S3Tree are proved where no name starts another, the
latter where the endpoint has a base path too; elsewhere they do not hold.  Of a
`Rename` of a tree in which a directory has no holder, `ContractHolds` is only
model-checked.

## 6. What the models found

1. The placeholder, meant for new files, replaces existing ones (`s3/file.go:258`).
2. Without a base path, S3 `RemoveAll` of a file removes nothing and returns nil
   (`s3/fs.go:168` with `path`).
3. S3 `Stat` takes a longer sibling name for a directory (`s3/fs.go:229`).
4. FTP `Close` returns nil when the transfer failed (`ftp/file.go:135`).
5. WebDAV `Close` returns before the PUT is carried out, and never learns that it was
   not (`webdav/client/client.go:114`).

More were found while modelling and are in no run of their own.  A failed listing passes
for a directory (`s3/fs.go:233`): a `Create` in a directory that is missing succeeds, and
the directory it leaves has no holder and vanishes when its last entry is removed or
renamed (`Rooted` of S3Tree).  A STOR of a new file is
refused by the FTP server over S3, always: the adaptor asks the file for its `Stat` as
soon as it is open, and S3 has nothing before the first `Write`
(`aferofsutil/adaptor.go:79`; `FtpStat` of Gateway).  And READs that the kernel has in
flight together on one handle are answered with each other's blocks, as is one at the
offset 0 after others (`fuse/file.go:29`; `FuseRead` and `Seek` of Gateway):
`ReadsAtOffset` holds for READs one after the other and no further.

Nor has `Rename` a look at the directory its new name lies in (`s3/fs.go:120`): a file
renamed into a directory that has been removed brings it back; and an upload that ends
between the copy and the remove of a `Rename` of its name is lost (`Copy`, `Delete` and
`Close` of Gateway).

And two that TLC shows on instances of S3Tree larger than its run, which `safe` and
`blurred` leave out.  A path that a `Create` and a `Mkdir` in each other's way have made
a file and a directory at once is listed twice by the `Rename` of its parent and moved
twice; when another call has put a directory in its old place by then, the second move
replaces the file the first one moved (`s3/fs.go:112`).  And `Mkdir` takes any error of
its own `Stat` for a directory that is missing (`s3/fs.go:29`), so that a `Rename` of a
directory onto one that exists, which is refused otherwise, merges the two when that
`Stat` fails; when the one is below the other, the holder it removes last is that of a
directory with new entries in it.

## 7. Not modelled

- Configurations: `Config.Client` of WebDAV keeps its client before it is checked,
  `Config.Conn` of FTP holds its lock while it dials, `AsFileSystem` of S3 builds its
  client once.  They run before the calls modelled here; the models have no clock to
  show a slow dial.
- Formats: endpoints, sizes, volume ids, the XML documents of WebDAV, tar headers.
- Pre-signed URLs, request metadata, permissions and times: no state of this code.
- Portions of a directory: `Readdir(n)` with n > 0 (S3 and WebDAV answer one entry too
  many, FTP none); the callers modelled ask for all.
- The default base `.` of `ExportAsTar`: WebDAV lists `.` as its own entry and the walk
  would not end.  Exports in Namespace start at a path of the tree.
- Of the FTP server: `driver.Stop`, `WaitGracefully` and the count of clients, which
  nothing calls; `Shutdown` stops the library's server.
- FUSE over the FTP and the WebDAV backend: their handles are FtpFile and WebdavFile.
- `O_APPEND`, which S3 and WebDAV refuse and FTP ignores.
- The torn read of the two words of `f.err`, an interface value written while it is
  read, is reduced to its two whole values.
- A WebDAV server that stores PUTs in another way than x/net's, and a body that mixes
  two versions of a file because it changed during the GET.
- Wrappers that only delegate (local, logging, in-memory), the command line, generated
  code, benchmarks.
