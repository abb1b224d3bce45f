------------------------------ MODULE WebdavFile ------------------------------
(***************************************************************************)
(* The file handles of the WebDAV backend (pkg/filesystem/webdav/file.go,  *)
(* client/client.go and client/file.go) on one name of the server.         *)
(*                                                                         *)
(* A writing handle starts its PUT when it is opened: a goroutine streams  *)
(* the reading end of an io.Pipe to the server and drops error and status. *)
(* Write rendezvouses with the stream, Close only closes the pipe.  A      *)
(* reading handle asks for the size when it is opened (PROPFIND), for a    *)
(* body at its first Read (GET), and keeps that body.                      *)
(*                                                                         *)
(* The server is the one cmd/unifs/webdav.go and the tests run, the        *)
(* Handler of golang.org/x/net/webdav: a PUT holds a lock on the name,     *)
(* truncates the file when it is accepted, stores what arrives, and leaves *)
(* what it has when the body breaks off.                                   *)
(*                                                                         *)
(* A file is a sequence of chunks, each the argument of one Write.  Any    *)
(* request may fail; a body may break off; handles interleave freely.      *)
(* Forming a request does not fail: its URL is the String of a parsed one. *)
(***************************************************************************)
EXTENDS Integers, Sequences, SequencesExt

CONSTANTS
  Writers,    \* handles opened for writing
  Chunks,     \* Chunks[w]: the arguments of w's Writes
  Page,       \* the chunk of an error page
  Previous,   \* what the server may hold at the start
  Seeks,      \* the arguments <<offset, whence>> of Seek
  MaxWrites,  \* bound: calls of Write per handle
  MaxReads,   \* bound: calls of Read
  MaxSeeks,   \* bound: calls of Seek
  MaxRemoves  \* bound: calls of RemoveAll

NoFile == [exists |-> FALSE, data |-> <<>>]
Stored(d) == [exists |-> TRUE, data |-> d]
NoBody == [open |-> FALSE, data |-> <<>>]
Body(d) == [open |-> TRUE, data |-> d]

Chunk == UNION {Chunks[w] : w \in Writers}

ASSUME WebdavAssumption ==
  /\ Page \notin Chunk
  /\ \A o \in Previous : o.exists \in BOOLEAN /\ o.data \in Seq(Chunk)
  /\ \A s \in Seeks : s[1] \in Int /\ s[2] \in 0..2
  /\ MaxWrites \in Nat /\ MaxReads \in Nat /\ MaxSeeks \in Nat /\ MaxRemoves \in Nat

VARIABLES
  remote,   \* the server's file
  call,     \* call[w]: the call the user of w is in; "closed" after Close
  arg,      \* arg[w]: the argument of the current Write (Page: none)
  put,      \* put[w]: where w's PUT is
  got,      \* got[w]: what the PUT has read from the pipe
  acked,    \* acked[w]: what Write told its callers it had written (history)
  landed,   \* landed[w]: w's PUT was carried out to its end (history)
  writes,   \* writes[w]: calls of Write so far
  rd,       \* the reader: none, open, closed
  size,     \* f.info.Size()
  pos,      \* f.pos
  from,     \* f.pos when the body was asked for (history)
  seeked,   \* f.seeked
  body,     \* f.lastBody: what is left of it
  read,     \* the chunks Read returned (history)
  eof,      \* the last Read returned io.EOF (history)
  plain,    \* while reading: no Seek after a Read, no fault, no change (history)
  reads,    \* calls of Read on the open handle
  seeks,    \* calls of Seek on the open handle
  removes   \* calls of RemoveAll so far

writerVars == <<call, arg, put, got, acked, landed, writes>>
readerVars == <<rd, size, pos, from, seeked, body, read, eof, reads, seeks>>
vars == <<remote, writerVars, readerVars, plain, removes>>

PutStates == {"none", "sending", "storing", "done"}

TypeOK ==
  /\ remote.exists \in BOOLEAN /\ remote.data \in Seq(Chunk)
  /\ call \in [Writers -> {"none", "idle", "writing", "closed"}]
  /\ arg \in [Writers -> Chunk \cup {Page}]
  /\ put \in [Writers -> PutStates]
  /\ got \in [Writers -> Seq(Chunk)] /\ acked \in [Writers -> Seq(Chunk)]
  /\ landed \in [Writers -> BOOLEAN]
  /\ writes \in [Writers -> 0..MaxWrites]
  /\ rd \in {"none", "open", "closed"}
  /\ size \in Nat /\ pos \in Nat /\ from \in Nat /\ seeked \in BOOLEAN
  /\ body.open \in BOOLEAN /\ body.data \in Seq(Chunk \cup {Page})
  /\ read \in Seq(Chunk \cup {Page}) /\ eof \in BOOLEAN /\ plain \in BOOLEAN
  /\ reads \in 0..MaxReads /\ seeks \in 0..MaxSeeks /\ removes \in 0..MaxRemoves

Init ==
  /\ remote \in Previous
  /\ call = [w \in Writers |-> "none"]
  /\ arg = [w \in Writers |-> Page]
  /\ put = [w \in Writers |-> "none"]
  /\ got = [w \in Writers |-> <<>>]
  /\ acked = [w \in Writers |-> <<>>]
  /\ landed = [w \in Writers |-> FALSE]
  /\ writes = [w \in Writers |-> 0]
  /\ rd = "none" /\ size = 0 /\ pos = 0 /\ from = 0 /\ seeked = FALSE
  /\ body = NoBody /\ read = <<>> /\ eof = FALSE /\ plain = TRUE
  /\ reads = 0 /\ seeks = 0 /\ removes = 0

\* The server's file becomes f: an open reader is no longer a plain one.
Becomes(f) ==
  /\ remote' = f
  /\ plain' = (plain /\ (rd # "open" \/ f = remote))

-----------------------------------------------------------------------------
(* Writing.                                                                *)

\* OpenFile with O_WRONLY, O_RDWR or O_CREATE: the pipe, and the PUT at once.
OpenWrite(w) ==
  /\ call[w] = "none"
  /\ call' = [call EXCEPT ![w] = "idle"]
  /\ put' = [put EXCEPT ![w] = "sending"]
  /\ UNCHANGED <<remote, arg, got, acked, landed, writes, readerVars, plain, removes>>

\* Write enters the pipe.
Write(w, c) ==
  /\ call[w] = "idle" /\ writes[w] < MaxWrites
  /\ call' = [call EXCEPT ![w] = "writing"]
  /\ arg' = [arg EXCEPT ![w] = c]
  /\ writes' = [writes EXCEPT ![w] = @ + 1]
  /\ UNCHANGED <<remote, put, got, acked, landed, readerVars, plain, removes>>

\* Mutant: a chunk that is handed over is sent again.
WriteReturnsTwice(w) ==
  /\ call[w] = "writing" /\ put[w] \in {"sending", "storing"}
  /\ call' = [call EXCEPT ![w] = "idle"]
  /\ arg' = [arg EXCEPT ![w] = Page]
  /\ got' = [got EXCEPT ![w] = @ \o <<arg[w], arg[w]>>]
  /\ acked' = [acked EXCEPT ![w] = Append(@, arg[w])]
  /\ UNCHANGED <<remote, put, landed, writes, readerVars, plain, removes>>

\* The transport reads the chunk and Write returns.
WriteReturns(w) ==
  /\ call[w] = "writing" /\ put[w] \in {"sending", "storing"}
  /\ call' = [call EXCEPT ![w] = "idle"]
  /\ arg' = [arg EXCEPT ![w] = Page]
  /\ got' = [got EXCEPT ![w] = Append(@, arg[w])]
  /\ acked' = [acked EXCEPT ![w] = Append(@, arg[w])]
  /\ UNCHANGED <<remote, put, landed, writes, readerVars, plain, removes>>

\* The transport has closed the body: Write fails.
WriteFails(w) ==
  /\ call[w] = "writing" /\ put[w] = "done"
  /\ call' = [call EXCEPT ![w] = "idle"]
  /\ arg' = [arg EXCEPT ![w] = Page]
  /\ UNCHANGED <<remote, put, got, acked, landed, writes, readerVars, plain, removes>>

\* Close closes the pipe and returns nil, wherever the PUT is.
Close(w) ==
  /\ call[w] = "idle"
  /\ call' = [call EXCEPT ![w] = "closed"]
  /\ UNCHANGED <<remote, arg, put, got, acked, landed, writes, readerVars, plain, removes>>

\* A PUT, and a DELETE, need the name's lock; another PUT may hold it.
Locked == \E v \in Writers : put[v] = "storing"

\* The server takes the PUT and truncates the file...
PutAccepted(w) ==
  /\ put[w] = "sending" /\ ~Locked
  /\ put' = [put EXCEPT ![w] = "storing"]
  /\ Becomes(Stored(<<>>))
  /\ UNCHANGED <<call, arg, got, acked, landed, writes, readerVars, removes>>

\* ...and stores the chunks that arrive.
PutStores(w) ==
  /\ put[w] = "storing" /\ Len(remote.data) < Len(got[w])
  /\ Becomes(Stored(Append(remote.data, got[w][Len(remote.data) + 1])))
  /\ UNCHANGED <<writerVars, readerVars, removes>>

\* Mutant: the PUT ends with the first chunk, not with the pipe.
PutEndsEarly(w) ==
  /\ put[w] = "storing" /\ remote.data = got[w]
  /\ call[w] = "closed" \/ got[w] # <<>>
  /\ put' = [put EXCEPT ![w] = "done"]
  /\ landed' = [landed EXCEPT ![w] = TRUE]
  /\ UNCHANGED <<remote, call, arg, got, acked, writes, readerVars, plain, removes>>

\* Mutant: the end of an empty pipe is not sent.
PutEndsIfAny(w) ==
  /\ put[w] = "storing" /\ call[w] = "closed" /\ remote.data = got[w] /\ got[w] # <<>>
  /\ put' = [put EXCEPT ![w] = "done"]
  /\ landed' = [landed EXCEPT ![w] = TRUE]
  /\ UNCHANGED <<remote, call, arg, got, acked, writes, readerVars, plain, removes>>

\* The pipe has ended and the server has it all; its answer is dropped.
PutEnds(w) ==
  /\ put[w] = "storing" /\ call[w] = "closed" /\ remote.data = got[w]
  /\ put' = [put EXCEPT ![w] = "done"]
  /\ landed' = [landed EXCEPT ![w] = TRUE]
  /\ UNCHANGED <<remote, call, arg, got, acked, writes, readerVars, plain, removes>>

\* The name is locked: the server refuses the PUT, and nobody is told.
PutRefused(w) ==
  /\ put[w] = "sending" /\ Locked
  /\ put' = [put EXCEPT ![w] = "done"]
  /\ UNCHANGED <<remote, call, arg, got, acked, landed, writes, readerVars, plain, removes>>

\* Mutant: the goroutine returns from an error without closing the pipe's reader.
PutFailsOpen(w) ==
  /\ put[w] \in {"sending", "storing"}
  /\ put' = [put EXCEPT ![w] = "none"]
  /\ UNCHANGED <<remote, call, arg, got, acked, landed, writes, readerVars, plain, removes>>

\* The PUT breaks off: the transport closes the body, nobody is told, and the
\* server keeps what it has.
PutFails(w) ==
  /\ put[w] \in {"sending", "storing"}
  /\ put' = [put EXCEPT ![w] = "done"]
  /\ UNCHANGED <<remote, call, arg, got, acked, landed, writes, readerVars, plain, removes>>

\* RemoveAll: DELETE, where a missing file is no error.
RemoveAll ==
  /\ removes < MaxRemoves /\ ~Locked
  /\ removes' = removes + 1
  /\ Becomes(NoFile)
  /\ UNCHANGED <<writerVars, readerVars>>

-----------------------------------------------------------------------------
(* Reading.                                                                *)

\* Open: PROPFIND for the size; a missing file does not open.
Open ==
  /\ rd = "none" /\ remote.exists
  /\ rd' = "open" /\ size' = Len(remote.data)
  /\ UNCHANGED <<remote, writerVars, pos, from, seeked, body, read, eof, plain, reads, seeks, removes>>

\* The position a Seek asks for.
SeekTo(off, whence) ==
  CASE whence = 0 -> off
    [] whence = 1 -> pos + off
    [] OTHER -> size + off

\* Mutant: a negative position is accepted.
SeekAnywhere(off, whence) ==
  /\ rd = "open" /\ seeks < MaxSeeks
  /\ pos' = SeekTo(off, whence) /\ seeked' = TRUE
  /\ seeks' = seeks + 1 /\ plain' = (plain /\ ~body.open)
  /\ UNCHANGED <<remote, writerVars, rd, size, from, body, read, eof, reads, removes>>

\* Seek: a negative position is refused; an open body stays as it is.
Seek(off, whence) ==
  /\ rd = "open" /\ seeks < MaxSeeks /\ SeekTo(off, whence) >= 0
  /\ pos' = SeekTo(off, whence) /\ seeked' = TRUE
  /\ seeks' = seeks + 1 /\ plain' = (plain /\ ~body.open)
  /\ UNCHANGED <<remote, writerVars, rd, size, from, body, read, eof, reads, removes>>

\* What setRange asks for: all of the file without a Seek; after a Seek to the
\* start, the range 0-0, one chunk; else everything from the position on.  An
\* empty file has no ranges, and is sent as it is.
Ranged ==
  CASE ~seeked \/ remote.data = <<>> -> remote.data
    [] seeked /\ remote.data # <<>> /\ pos = 0 -> SubSeq(remote.data, 1, 1)
    [] OTHER -> SubSeq(remote.data, pos + 1, Len(remote.data))

\* Mutant: io.EOF only behind the size.
TakeFromLate(b, n) ==
  /\ n <= Len(b) /\ (n > 0 \/ b = <<>>)
  /\ read' = read \o SubSeq(b, 1, n)
  /\ body' = Body(SubSeq(b, n + 1, Len(b)))
  /\ pos' = pos + n
  /\ eof' = (pos + n > size)

\* Read takes n chunks of the body b, none when it has ended; pos counts them,
\* and io.EOF depends on the size alone: the error of the body is dropped.
TakeFrom(b, n) ==
  /\ n <= Len(b) /\ (n > 0 \/ b = <<>>)
  /\ read' = read \o SubSeq(b, 1, n)
  /\ body' = Body(SubSeq(b, n + 1, Len(b)))
  /\ pos' = pos + n
  /\ eof' = (pos + n >= size)

Reading ==
  /\ rd = "open" /\ reads < MaxReads
  /\ reads' = reads + 1
  /\ UNCHANGED <<remote, writerVars, rd, size, seeked, seeks, removes>>

\* The range starts behind the end of a file that has one.
Unsatisfiable == seeked /\ pos > 0 /\ Len(remote.data) > 0 /\ pos >= Len(remote.data)

\* The first Read: GET, and the body is kept.
ReadFirst(n) ==
  /\ Reading /\ ~body.open /\ remote.exists /\ ~Unsatisfiable
  /\ TakeFrom(Ranged, n)
  /\ from' = pos
  /\ UNCHANGED plain

\* Status 416 is io.EOF, and no body is kept.
ReadUnsatisfiable ==
  /\ Reading /\ ~body.open /\ remote.exists /\ Unsatisfiable
  /\ eof' = TRUE
  /\ UNCHANGED <<pos, from, body, read, plain>>

\* Any other refusal (missing by now, an error of the server) has a body too,
\* and the status is not looked at.
ReadErrorPage(n) ==
  /\ Reading /\ ~body.open
  /\ TakeFrom(<<Page>>, n)
  /\ from' = pos
  /\ plain' = FALSE

\* The GET cannot be made: Read fails, and the next one tries again.
ReadFails ==
  /\ Reading /\ ~body.open
  /\ eof' = FALSE
  /\ UNCHANGED <<pos, from, body, read, plain>>

\* A later Read: the next chunks of the body, whatever Seek said meanwhile.
ReadNext(n) ==
  /\ Reading /\ body.open
  /\ TakeFrom(body.data, n)
  /\ UNCHANGED <<from, plain>>

\* The connection breaks and the rest of the body is lost.
BodyBreaks ==
  /\ rd = "open" /\ body.open /\ body.data # <<>>
  /\ body' = Body(<<>>) /\ plain' = FALSE
  /\ UNCHANGED <<remote, writerVars, rd, size, pos, from, seeked, read, eof, reads, seeks, removes>>

\* Close: the body is closed, and nobody uses the handle any more.
CloseReader ==
  /\ rd = "open"
  /\ rd' = "closed" /\ size' = 0 /\ pos' = 0 /\ from' = 0 /\ seeked' = FALSE
  /\ body' = NoBody /\ read' = <<>> /\ eof' = FALSE /\ reads' = 0 /\ seeks' = 0
  /\ plain' = TRUE
  /\ UNCHANGED <<remote, writerVars, removes>>

-----------------------------------------------------------------------------
Writer(w) ==
  \/ OpenWrite(w)
  \/ \E c \in Chunks[w] : Write(w, c)
  \/ Close(w)

\* The steps the transport, the server and a Write under way take.
PutStep(w) ==
  \/ WriteReturns(w)
  \/ WriteFails(w)
  \/ PutAccepted(w)
  \/ PutStores(w)
  \/ PutEnds(w)
  \/ PutRefused(w)

Reader ==
  \/ Open
  \/ \E s \in Seeks : Seek(s[1], s[2])
  \/ \E n \in 0..Len(remote.data) : ReadFirst(n)
  \/ ReadUnsatisfiable
  \/ ReadErrorPage(1)
  \/ ReadFails
  \/ \E n \in 0..Len(body.data) : ReadNext(n)
  \/ BodyBreaks
  \/ CloseReader

Next ==
  \/ \E w \in Writers : Writer(w) \/ PutStep(w) \/ PutFails(w)
  \/ RemoveAll
  \/ Reader

Spec == Init /\ [][Next]_vars

\* The transport carries its request on, and the server answers it.
Fairness == \A w \in Writers : WF_vars(PutStep(w))

FairSpec == Spec /\ Fairness

-----------------------------------------------------------------------------
(* What the handles promise.                                               *)

\* Whatever broke off and however handles overlap, the file is what the server
\* held at the start or the beginning of what Write acknowledged on one handle:
\* never a mixture, and no chunk twice (client.go, OpenWrite; file.go, Write).
OneHandlesFile ==
  remote.exists =>
    \/ remote \in Previous
    \/ \E w \in Writers : call[w] # "none" /\ IsPrefix(remote.data, acked[w])

\* A PUT that the server carried out to its end belongs to a closed handle, and
\* stored all that Write acknowledged; it stays, without other calls.
LandedIsWhole ==
  \A w \in Writers :
    landed[w] =>
      /\ call[w] = "closed"
      /\ removes = 0 /\ (\A v \in Writers \ {w} : call[v] = "none") =>
           remote = Stored(acked[w])

\* No Write waits for ever for a transport that has gone.
WritesReturn ==
  \A w \in Writers : call[w] = "writing" ~> call[w] = "idle"

\* Every PUT comes to an end once its handle is closed: none is left behind.
ClosedPutsEnd ==
  \A w \in Writers : call[w] = "closed" ~> put[w] = "done"

\* A reader that seeks only before it reads, and not to the start, and meets no
\* fault and no change, reads the file from its position on, chunk after chunk,
\* and is told io.EOF exactly when nothing is left (client/file.go, Read; setRange;
\* the size that client.go, Open, asked for).
PlainReads ==
  rd = "open" /\ plain /\ body.open /\ ~(seeked /\ from = 0) =>
    /\ read \o body.data = SubSeq(remote.data, from + 1, Len(remote.data))
    /\ eof <=> (body.data = <<>>)

\* What the test suite takes for granted: a file that was written and closed
\* without an error, by the only writer, is there.
CloseOkMeansStored ==
  \A w \in Writers :
    /\ call[w] = "closed" /\ Len(acked[w]) = writes[w] /\ removes = 0
    /\ \A v \in Writers \ {w} : call[v] = "none"
    => remote = Stored(acked[w])
=============================================================================
