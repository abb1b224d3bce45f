-------------------------------- MODULE FtpFile --------------------------------
(***************************************************************************)
(* A handle of the FTP backend (pkg/filesystem/ftp/file.go), from OpenFile *)
(* (fs.go) to Close, with the connections it dials (client.go).            *)
(*                                                                         *)
(* The first Read or Write dials a connection, behind a sync.Once that the *)
(* two share.  Read then streams a RETR; Write hands its bytes through an  *)
(* io.Pipe to a goroutine that runs STOR and keeps its error in f.err,     *)
(* which the caller reads without a lock.  Close ends the stream and waits *)
(* for the goroutine, but returns the error of the pipe.                   *)
(*                                                                         *)
(* One handle and one caller: every handle has its own connections, and    *)
(* handles meet only in the server's file.  The server may refuse or break *)
(* off anything.                                                           *)
(***************************************************************************)
EXTENDS Integers, Sequences

CONSTANTS
  Byte,       \* the values a byte takes
  Payloads,   \* the arguments of Write
  Previous,   \* what the server may hold under the name at the start
  Seeks,      \* the arguments <<offset, whence>> of Seek
  Word,       \* the number of values of a uint64
  MaxCalls,   \* bound: calls of Read, Write and Seek
  MaxCloses   \* bound: calls of Close

NoFile == [exists |-> FALSE, data |-> <<>>]
Stored(d) == [exists |-> TRUE, data |-> d]
Files == [exists : BOOLEAN, data : Seq(Byte)]

ASSUME FtpAssumption ==
  /\ \A p \in Payloads : p \in Seq(Byte)
  /\ \A o \in Previous : o \in Files
  /\ \A s \in Seeks : s[1] \in Int /\ s[2] \in 0..2
  /\ Word \in Nat \ {0}
  /\ MaxCalls \in Nat /\ MaxCloses \in Nat

VARIABLES
  remote,  \* the server's file
  flag,    \* the access mode of OpenFile
  size,    \* f.entry.Size: the size OpenFile saw
  pc,      \* where the caller is
  once,    \* f.once has run
  ferr,    \* f.err
  rc,      \* f.readCloser
  wc,      \* f.writeCloser, "closed" while Close waits for the goroutine
  offset,  \* f.offset
  pos,     \* where in the file the RETR stream is
  start,   \* where it began (history)
  read,    \* the bytes Read returned (history)
  arg,     \* the argument of the current Write
  sent,    \* the bytes of it STOR has taken
  acked,   \* the bytes Write told its caller it had written (history)
  stor,    \* where the goroutine is
  base,    \* the bytes in front of the stream: those below the offset of STOR
  got,     \* the bytes STOR has taken from the pipe
  conns,   \* connections dialed and not closed
  lost,    \* connections nothing refers to any more (history)
  used,    \* the kinds of calls made: read, write (history)
  werr,    \* a Write has returned an error (history)
  calls,   \* calls of Read, Write and Seek so far
  closes   \* calls of Close so far

readVars == <<rc, pos, start, read>>
writeVars == <<wc, arg, sent, acked>>
storVars == <<remote, stor, base, got>>
connVars == <<conns, lost>>
openVars == <<flag, size>>
countVars == <<used, werr, calls, closes>>
vars == <<remote, flag, size, pc, once, ferr, rc, wc, offset, pos, start, read,
          arg, sent, acked, stor, base, got, conns, lost, used, werr, calls, closes>>

Modes == {"O_RDONLY", "O_WRONLY", "O_RDWR"}
PCs == {"none", "idle", "reading", "check", "writing", "written", "closing", "panic"}
StorStates == {"none", "command", "stream", "reply", "quit", "rclose", "wgdone", "done"}

TypeOK ==
  /\ remote \in Files
  /\ flag \in Modes /\ size \in Nat
  /\ pc \in PCs /\ once \in BOOLEAN
  /\ ferr \in {"nil", "err"}
  /\ rc \in {"nil", "open"} /\ wc \in {"nil", "open", "closed"}
  /\ offset \in 0..Word - 1
  /\ pos \in Nat /\ start \in Nat /\ read \in Seq(Byte)
  /\ arg \in Seq(Byte) /\ sent \in 0..Len(arg) /\ acked \in Seq(Byte)
  /\ stor \in StorStates /\ base \in Seq(Byte) /\ got \in Seq(Byte)
  /\ conns \in Nat /\ lost \in Nat
  /\ used \subseteq {"read", "write"} /\ werr \in BOOLEAN
  /\ calls \in 0..MaxCalls /\ closes \in 0..MaxCloses

Init ==
  /\ remote \in Previous
  /\ flag = "O_RDONLY" /\ size = 0
  /\ pc = "none" /\ once = FALSE /\ ferr = "nil"
  /\ rc = "nil" /\ wc = "nil"
  /\ offset = 0 /\ pos = 0 /\ start = 0 /\ read = <<>>
  /\ arg = <<>> /\ sent = 0 /\ acked = <<>>
  /\ stor = "none" /\ base = <<>> /\ got = <<>>
  /\ conns = 0 /\ lost = 0
  /\ used = {} /\ werr = FALSE /\ calls = 0 /\ closes = 0

-----------------------------------------------------------------------------
(* Connections.                                                            *)

\* Pool.Conn fails: the dial, or the login of a connection that was dialed and
\* that nobody closes.
DialFails ==
  \/ UNCHANGED connVars
  \/ conns' = conns + 1 /\ lost' = lost + 1

\* OpenFile: a connection of its own, closed on return, asks for the entry.  A
\* missing file opens only with O_CREATE.
OpenFile(mode, create) ==
  /\ pc = "none" /\ (remote.exists \/ create)
  /\ pc' = "idle" /\ flag' = mode /\ size' = Len(remote.data)
  /\ UNCHANGED <<remote, once, ferr, offset, readVars, writeVars, stor, base, got,
                 connVars, countVars>>

\* OpenFile cannot get its connection, or the entry (at most one loss is counted).
OpenFileFails ==
  /\ pc = "none" /\ lost = 0
  /\ DialFails
  /\ UNCHANGED <<openVars, storVars, pc, once, ferr, offset, readVars, writeVars, countVars>>

-----------------------------------------------------------------------------
(* The caller.                                                             *)

\* A Read or a Write begins.  A handle is not used once it has been closed.
Enter(kind) ==
  /\ pc = "idle" /\ closes = 0 /\ calls < MaxCalls
  /\ calls' = calls + 1
  /\ used' = used \cup {kind}
  /\ UNCHANGED <<openVars, offset, werr, closes>>

\* Mutant: the offset is signed, and may become negative.
SeekToSigned(off, whence) ==
  CASE whence = 0 -> off
    [] whence = 1 -> offset + off
    [] OTHER -> size - off

\* Seek only sets f.offset, in uint64 arithmetic.
SeekTo(off, whence) ==
  CASE whence = 0 -> off % Word
    [] whence = 1 -> (offset + off) % Word
    [] OTHER -> (size - off) % Word

Seek(off, whence) ==
  /\ pc = "idle" /\ closes = 0 /\ calls < MaxCalls
  /\ calls' = calls + 1
  /\ offset' = IF whence = 2 /\ size = 0 THEN offset ELSE SeekTo(off, whence)
  /\ UNCHANGED <<openVars, storVars, pc, once, ferr, readVars, writeVars, connVars, used, werr, closes>>

\* What the caller may read in f.err: the goroutine stores its error there
\* without synchronisation, so that the caller may still see nil.
SeenErr == IF ferr = "err" /\ stor # "none" THEN {"nil", "err"} ELSE {ferr}

\* Read enters the once: dial, then RETR from f.offset.
ReadOnce ==
  /\ Enter("read") /\ ~once /\ remote.exists
  /\ pc' = "reading" /\ once' = TRUE
  /\ rc' = "open" /\ pos' = offset /\ start' = offset
  /\ conns' = conns + 1
  /\ UNCHANGED <<storVars, ferr, read, writeVars, lost>>

\* Mutant: a refused RETR leaves f.err nil.
RetrRefusedUnseen ==
  /\ Enter("read") /\ ~once
  /\ pc' = "reading" /\ once' = TRUE
  /\ conns' = conns + 1 /\ lost' = lost + 1
  /\ UNCHANGED <<storVars, ferr, readVars, writeVars>>

\* The RETR is refused: the error is kept, the connection is not closed.
RetrRefused ==
  /\ Enter("read") /\ ~once
  /\ pc' = "reading" /\ once' = TRUE /\ ferr' = "err"
  /\ conns' = conns + 1 /\ lost' = lost + 1
  /\ UNCHANGED <<storVars, readVars, writeVars>>

\* Read when the once has run.
ReadAgain ==
  /\ Enter("read") /\ once
  /\ pc' = "reading"
  /\ UNCHANGED <<storVars, once, ferr, readVars, writeVars, connVars>>

\* Mutant: the stream starts over with every Read.
ReadFromStart(k) ==
  /\ pc = "reading" /\ rc = "open" /\ "nil" \in SeenErr
  /\ pc' = "idle"
  /\ start + k <= Len(remote.data)
  /\ read' = read \o SubSeq(remote.data, start + 1, start + k)
  /\ pos' = start + k
  /\ UNCHANGED <<openVars, storVars, once, ferr, offset, rc, start, writeVars, connVars, countVars>>

\* Read returns the next k bytes of the stream, none at its end.
ReadReturns(k) ==
  /\ pc = "reading" /\ rc = "open" /\ "nil" \in SeenErr
  /\ pc' = "idle"
  /\ IF pos + k <= Len(remote.data)
     THEN /\ read' = read \o SubSeq(remote.data, pos + 1, pos + k)
          /\ pos' = pos + k
     ELSE UNCHANGED <<read, pos>>
  /\ UNCHANGED <<openVars, storVars, once, ferr, offset, rc, start, writeVars, connVars, countVars>>

\* Write enters the once: dial, make the pipe, start the goroutine.
WriteOnce(p) ==
  /\ Enter("write") /\ flag # "O_RDONLY" /\ ~once
  /\ pc' = "check" /\ arg' = p /\ sent' = 0
  /\ once' = TRUE /\ wc' = "open" /\ stor' = "command"
  /\ conns' = conns + 1
  /\ UNCHANGED <<remote, ferr, readVars, acked, base, got, lost>>

\* Write when the once has run.
WriteAgain(p) ==
  /\ Enter("write") /\ flag # "O_RDONLY" /\ once
  /\ pc' = "check" /\ arg' = p /\ sent' = 0
  /\ UNCHANGED <<storVars, once, ferr, readVars, wc, acked, connVars>>

\* The once of Read or Write cannot get a connection.
OnceFails(kind) ==
  /\ Enter(kind) /\ ~once /\ (kind = "write" => flag # "O_RDONLY")
  /\ pc' = IF kind = "read" THEN "reading" ELSE "check"
  /\ once' = TRUE /\ ferr' = "err"
  /\ DialFails
  /\ UNCHANGED <<storVars, readVars, writeVars>>

Return ==
  UNCHANGED <<openVars, storVars, once, ferr, offset, readVars, wc, arg, sent, connVars,
              used, calls, closes>>

\* Read or Write sees f.err and returns it.
ReturnsErr ==
  /\ pc \in {"reading", "check"} /\ "err" \in SeenErr
  /\ pc' = "idle" /\ werr' = (werr \/ pc = "check")
  /\ Return /\ UNCHANGED acked

\* Read or Write sees no error, and its closer is nil.
NilDereference ==
  /\ "nil" \in SeenErr
  /\ (pc = "reading" /\ rc = "nil") \/ (pc = "check" /\ wc = "nil")
  /\ pc' = "panic"
  /\ Return /\ UNCHANGED <<acked, werr>>

\* Write sees no error and enters the pipe.
WriteEnters ==
  /\ pc = "check" /\ wc # "nil" /\ "nil" \in SeenErr
  /\ pc' = "writing"
  /\ Return /\ UNCHANGED <<acked, werr>>

\* The pipe's Write returns: all of p was taken.
WriteReturns ==
  /\ pc = "written"
  /\ pc' = "idle"
  /\ acked' = acked \o arg
  /\ Return /\ UNCHANGED werr

\* The pipe's Write fails: the goroutine has closed the reading end.
WriteFails ==
  /\ pc = "writing" /\ stor \in {"wgdone", "done"}
  /\ pc' = "idle" /\ werr' = TRUE
  /\ acked' = acked \o SubSeq(arg, 1, sent)
  /\ Return

Closing ==
  /\ pc = "idle" /\ closes < MaxCloses
  /\ closes' = closes + 1
  /\ UNCHANGED <<openVars, storVars, once, ferr, offset, pos, start, read, arg,
                 sent, acked, used, werr, calls>>

\* Close when no stream is open: never read or written, failed, or closed before.
CloseUnused ==
  /\ Closing /\ rc = "nil" /\ wc = "nil"
  /\ UNCHANGED <<pc, rc, wc, connVars>>

\* Close of a RETR: the response and its connection.
CloseRead ==
  /\ Closing /\ rc = "open"
  /\ rc' = "nil" /\ conns' = conns - 1
  /\ UNCHANGED <<pc, wc, lost>>

\* Mutant: Close closes the pipe and does not wait.
CloseWriteNoWait ==
  /\ Closing /\ wc = "open"
  /\ wc' = "nil"
  /\ UNCHANGED <<pc, rc, connVars>>

\* Close of a STOR: close the pipe, then wait for the goroutine.
CloseWrite ==
  /\ Closing /\ wc = "open"
  /\ pc' = "closing" /\ wc' = "closed"
  /\ UNCHANGED <<rc, connVars>>

\* The wait ends.  The pipe's Close has no error, so Close returns nil.
CloseReturns ==
  /\ pc = "closing" /\ stor = "done"
  /\ pc' = "idle" /\ wc' = "nil"
  /\ UNCHANGED <<openVars, storVars, once, ferr, offset, readVars, arg, sent, acked,
                 connVars, countVars>>

-----------------------------------------------------------------------------
(* The goroutine of Write, and the server.                                 *)

callerVars == <<openVars, once, offset, readVars, wc, arg, acked, countVars>>

\* The server accepts REST and STOR: what lies behind the offset is gone.
StorAccepted ==
  /\ stor = "command" /\ offset <= Len(remote.data)
  /\ base' = SubSeq(remote.data, 1, offset)
  /\ remote' = Stored(base')
  /\ stor' = "stream"
  /\ UNCHANGED <<callerVars, pc, ferr, sent, got, connVars>>

\* STOR takes k bytes from the pipe and sends them.
PipeRead(k) ==
  LET n == sent + k IN
  /\ stor = "stream" /\ pc = "writing" /\ wc = "open"
  /\ n <= Len(arg) /\ (k > 0 \/ arg = <<>>)
  /\ got' = got \o SubSeq(arg, sent + 1, n)
  /\ sent' = n
  /\ pc' = IF n = Len(arg) THEN "written" ELSE pc
  /\ UNCHANGED <<callerVars, remote, ferr, stor, base, connVars>>

PipeReads == \E k \in 0..Len(arg) : PipeRead(k)

\* The server writes what it has been sent.
ServerWrites ==
  /\ stor \in {"stream", "reply"} /\ remote # Stored(base \o got)
  /\ remote' = Stored(base \o got)
  /\ UNCHANGED <<callerVars, pc, ferr, sent, stor, base, got, connVars>>

\* The pipe has ended: STOR closes the data connection and reads the reply.
PipeEOF ==
  /\ stor = "stream" /\ wc = "closed"
  /\ stor' = "reply"
  /\ UNCHANGED <<callerVars, pc, ferr, remote, sent, base, got, connVars>>

\* The server answers that it has stored the file.
StorReplies ==
  /\ stor = "reply" /\ remote = Stored(base \o got)
  /\ stor' = "quit"
  /\ UNCHANGED <<callerVars, pc, ferr, remote, sent, base, got, connVars>>

\* Mutant: the error of StorFrom is dropped.
StorFailsUnseen ==
  /\ stor \in {"command", "stream", "reply"}
  /\ stor' = "quit"
  /\ UNCHANGED <<callerVars, pc, ferr, remote, sent, base, got, connVars>>

\* StorFrom fails, at any point, and its error goes to f.err.
StorFails ==
  /\ stor \in {"command", "stream", "reply"}
  /\ stor' = "quit" /\ ferr' = "err"
  /\ UNCHANGED <<callerVars, pc, remote, sent, base, got, connVars>>

\* The deferred conn.Close.
Quit ==
  /\ stor = "quit"
  /\ stor' = "rclose" /\ conns' = conns - 1
  /\ UNCHANGED <<callerVars, pc, ferr, remote, sent, base, got, lost>>

\* The deferred r.Close, which fails a Write in the pipe.
CloseReader ==
  /\ stor = "rclose"
  /\ stor' = "wgdone"
  /\ UNCHANGED <<callerVars, pc, ferr, remote, sent, base, got, connVars>>

\* Mutant: wg.Done is skipped when STOR has failed.
WgDoneOnSuccess ==
  /\ stor = "wgdone" /\ ferr = "nil"
  /\ stor' = "done"
  /\ UNCHANGED <<callerVars, pc, ferr, remote, sent, base, got, connVars>>

\* The deferred wg.Done, which Close waits for.
WgDone ==
  /\ stor = "wgdone"
  /\ stor' = "done"
  /\ UNCHANGED <<callerVars, pc, ferr, remote, sent, base, got, connVars>>

-----------------------------------------------------------------------------
\* The calls somebody has to make.
Call ==
  \/ \E mode \in Modes, create \in BOOLEAN : OpenFile(mode, create)
  \/ OpenFileFails
  \/ \E s \in Seeks : Seek(s[1], s[2])
  \/ ReadOnce
  \/ RetrRefused
  \/ ReadAgain
  \/ \E p \in Payloads : WriteOnce(p) \/ WriteAgain(p)
  \/ \E kind \in {"read", "write"} : OnceFails(kind)
  \/ CloseUnused
  \/ CloseRead
  \/ CloseWrite

\* The steps of a call that is under way.
CallStep ==
  \/ \E k \in 0..Len(remote.data) : ReadReturns(k)
  \/ ReturnsErr
  \/ NilDereference
  \/ WriteEnters
  \/ WriteReturns
  \/ WriteFails
  \/ CloseReturns

\* The steps the goroutine and the server take; a stream need not break off.
StorStep ==
  \/ StorAccepted
  \/ PipeReads
  \/ ServerWrites
  \/ PipeEOF
  \/ StorReplies
  \/ Quit
  \/ CloseReader
  \/ WgDone

Next == Call \/ CallStep \/ StorStep \/ StorFails

Spec == Init /\ [][Next]_vars

\* The scheduler runs what can run; the server answers, and answers a STOR it
\* does not carry out with an error.
Fairness ==
  /\ WF_vars(CallStep)
  /\ WF_vars(StorStep)
  /\ WF_vars(stor = "command" /\ StorFails)

FairSpec == Spec /\ Fairness

-----------------------------------------------------------------------------
(* What a handle promises.                                                 *)

Closed == pc = "idle" /\ closes > 0

\* When Close has returned and f.err is nil, the server holds exactly the bytes
\* Write acknowledged, behind what the file had below the offset (file.go,
\* Write and the two Close).
QuietErrMeansStored ==
  Closed /\ stor # "none" /\ ferr = "nil" => remote = Stored(base \o acked)

\* A handle panics only when it is both read and written, which the once they
\* share does not support: no failed dial, refused command or error seen late
\* makes it do so (file.go, Read and Write).
PanicOnlyOnMixedUse ==
  pc = "panic" => used = {"read", "write"}

\* Close leaves nothing behind: no goroutine, and no connection but those that
\* were lost to a refused RETR or login (file.go, the closers and the deferred
\* function).
CloseReleases ==
  Closed => stor \in {"none", "done"} /\ conns = lost

\* The bytes Read returns are the file's, one after the other, from where the
\* Seeks before the first Read had led (file.go, Seek and Read).
ReadsFollowSeek ==
  read = SubSeq(remote.data, start + 1, start + Len(read))

\* No Write blocks for ever, even when STOR breaks off while it is in the pipe,
\* and every Close returns, whether STOR succeeded, failed, or never took a byte
\* (file.go, the deferred r.Close and wg.Done).
CallsReturn ==
  /\ pc \in {"check", "writing"} ~> pc \in {"idle", "panic"}
  /\ pc = "closing" ~> pc = "idle"

\* What the test suites take for granted: they write a file, check that every
\* Write and Close returned nil, and then read back what they wrote.
CloseOkMeansStored ==
  Closed /\ stor # "none" /\ ~werr => remote = Stored(base \o acked)
=============================================================================
