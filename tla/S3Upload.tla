------------------------------- MODULE S3Upload -------------------------------
(***************************************************************************)
(* The write path of the S3 backend (pkg/filesystem/s3/file.go).           *)
(*                                                                         *)
(* A handle opened for writing uploads in the background: its first Write  *)
(* makes an io.Pipe, a one-slot error channel and a goroutine that first   *)
(* puts a one-byte placeholder (when the handle was opened with O_CREATE)  *)
(* and then lets PutObject stream the reading end of the pipe.  Write      *)
(* rendezvouses with that reader; Close ends the stream and waits for the  *)
(* goroutine's error.                                                      *)
(*                                                                         *)
(* All handles of the model name the same object, in a directory that      *)
(* exists; each is used by one caller at a time, and different handles     *)
(* interleave freely.  The store may refuse a request, or carry it out and *)
(* still answer with an error.                                             *)
(***************************************************************************)
EXTENDS Integers, Sequences

CONSTANTS
  Handles,    \* handles on the object (results of OpenFile)
  Byte,       \* the values a byte takes
  Zero,       \* the byte 0x00 of the placeholder
  Payloads,   \* the arguments of Write
  Previous,   \* what the bucket may hold under the name at the start
  MaxWrites,  \* bound: MaxWrites[h] calls of Write of handle h
  MaxCloses   \* bound: calls of Close per handle

\* An object of the bucket: absent, or present with its contents.
NoObject == [exists |-> FALSE, data |-> <<>>]
Object(d) == [exists |-> TRUE, data |-> d]
Objects == [exists : BOOLEAN, data : Seq(Byte)]

Placeholder == Object(<<Zero>>)

ASSUME ConstantsAssumption ==
  /\ Zero \in Byte
  /\ \A p \in Payloads : p \in Seq(Byte)
  /\ \A o \in Previous : o \in Objects
  /\ MaxWrites \in [Handles -> Nat]
  /\ MaxCloses \in Nat

VARIABLES
  object,  \* the bucket's object under the name
  flags,   \* flags[h]: the flags h was opened with
  call,    \* call[h]: the call the user of h is in
  arg,     \* arg[h]: the argument p of the current Write
  sent,    \* sent[h]: the bytes of p the reader has taken
  pw,      \* pw[h]: the writing end of the pipe, f.pw
  up,      \* up[h]: where the upload goroutine is
  err,     \* err[h]: the goroutine's variable err
  errCh,   \* errCh[h]: the buffer of f.errCh
  got,     \* got[h]: what PutObject has read from the pipe
  acked,   \* acked[h]: the bytes Write told its callers it had written
  answer,  \* answer[h]: what the first Close returned
  stored,  \* stored[h]: what h's streaming PutObject put (history)
  writes,  \* writes[h]: calls of Write so far
  closes   \* closes[h]: calls of Close so far

callerVars == <<call, arg, acked, answer, writes, closes>>
vars == <<object, flags, call, arg, sent, pw, up, err, errCh, got, acked,
          answer, stored, writes, closes>>

CallStates == {"none", "idle", "writing", "written", "closing"}
UpStates == {"none", "placeholder", "stream", "commit", "report", "prclose", "done"}
Errors == {"ok", "err"}  \* "ok" is the nil error
OpenFlags == {"O_WRONLY", "O_CREATE"}

TypeOK ==
  /\ object \in Objects
  /\ flags \in [Handles -> OpenFlags]
  /\ call \in [Handles -> CallStates]
  /\ arg \in [Handles -> Seq(Byte)]
  /\ sent \in [Handles -> Nat] /\ \A h \in Handles : sent[h] <= Len(arg[h])
  /\ pw \in [Handles -> {"nil", "open", "closed"}]
  /\ up \in [Handles -> UpStates]
  /\ err \in [Handles -> Errors]
  /\ errCh \in [Handles -> {<<>>, <<"ok">>, <<"err">>}]
  /\ got \in [Handles -> Seq(Byte)]
  /\ acked \in [Handles -> Seq(Byte)]
  /\ answer \in [Handles -> Errors \cup {"none"}]
  /\ stored \in [Handles -> Objects]
  /\ writes \in [Handles -> Nat]
  /\ closes \in [Handles -> 0..MaxCloses]

Init ==
  /\ object \in Previous
  /\ flags = [h \in Handles |-> "O_WRONLY"]
  /\ call = [h \in Handles |-> "none"]
  /\ arg = [h \in Handles |-> <<>>]
  /\ sent = [h \in Handles |-> 0]
  /\ pw = [h \in Handles |-> "nil"]
  /\ up = [h \in Handles |-> "none"]
  /\ err = [h \in Handles |-> "ok"]
  /\ errCh = [h \in Handles |-> <<>>]
  /\ got = [h \in Handles |-> <<>>]
  /\ acked = [h \in Handles |-> <<>>]
  /\ answer = [h \in Handles |-> "none"]
  /\ stored = [h \in Handles |-> NoObject]
  /\ writes = [h \in Handles |-> 0]
  /\ closes = [h \in Handles |-> 0]

-----------------------------------------------------------------------------
(* The caller of a handle.                                                 *)

\* OpenFile with O_WRONLY, with or without O_CREATE: nothing is sent to the
\* bucket before the first Write.
OpenFileForWrite(h, fl) ==
  /\ call[h] = "none"
  /\ call' = [call EXCEPT ![h] = "idle"]
  /\ flags' = [flags EXCEPT ![h] = fl]
  /\ UNCHANGED <<object, arg, sent, pw, up, err, errCh, got, acked, answer,
                 stored, writes, closes>>

\* writeInitOnce: the first Write makes the pipe and starts the goroutine.
WriteInitOnce(h) ==
  IF pw[h] = "nil"
  THEN /\ pw' = [pw EXCEPT ![h] = "open"]
       /\ up' = [up EXCEPT ![h] = IF flags[h] = "O_CREATE" THEN "placeholder" ELSE "stream"]
  ELSE UNCHANGED <<pw, up>>

\* Mutant: the count of bytes taken is not reset for a new Write.
WriteKeepsCount(h, p) ==
  /\ call[h] = "idle" /\ closes[h] = 0 /\ writes[h] < MaxWrites[h]
  /\ WriteInitOnce(h)
  /\ call' = [call EXCEPT ![h] = "writing"]
  /\ arg' = [arg EXCEPT ![h] = p]
  /\ writes' = [writes EXCEPT ![h] = @ + 1]
  /\ UNCHANGED <<object, flags, sent, err, errCh, got, acked, answer, stored, closes>>

\* Write: start the upload once, then enter pw.Write.  A handle is not
\* written to once it has been closed (the contract of io.WriteCloser).
Write(h, p) ==
  /\ call[h] = "idle" /\ closes[h] = 0 /\ writes[h] < MaxWrites[h]
  /\ WriteInitOnce(h)
  /\ call' = [call EXCEPT ![h] = "writing"]
  /\ arg' = [arg EXCEPT ![h] = p]
  /\ sent' = [sent EXCEPT ![h] = 0]
  /\ writes' = [writes EXCEPT ![h] = @ + 1]
  /\ UNCHANGED <<object, flags, err, errCh, got, acked, answer, stored, closes>>

\* pw.Write returns len(p), nil: the reader has taken all of p.
WriteReturns(h) ==
  /\ call[h] = "written"
  /\ call' = [call EXCEPT ![h] = "idle"]
  /\ acked' = [acked EXCEPT ![h] = @ \o arg[h]]
  /\ UNCHANGED <<object, flags, arg, sent, pw, up, err, errCh, got, answer,
                 stored, writes, closes>>

\* pw.Write returns the bytes taken so far and io.ErrClosedPipe: the goroutine
\* has closed the reading end.
WriteFails(h) ==
  /\ call[h] = "writing" /\ up[h] = "done"
  /\ call' = [call EXCEPT ![h] = "idle"]
  /\ acked' = [acked EXCEPT ![h] = @ \o SubSeq(arg[h], 1, sent[h])]
  /\ UNCHANGED <<object, flags, arg, sent, pw, up, err, errCh, got, answer,
                 stored, writes, closes>>

\* Close of a handle nothing was written to: there is no pipe and no object.
CloseUnused(h) ==
  /\ call[h] = "idle" /\ pw[h] = "nil" /\ closes[h] < MaxCloses
  /\ closes' = [closes EXCEPT ![h] = @ + 1]
  /\ answer' = [answer EXCEPT ![h] = "ok"]
  /\ UNCHANGED <<object, flags, call, arg, sent, pw, up, err, errCh, got,
                 acked, stored, writes>>

\* Mutant: Close closes the pipe and returns nil without waiting for errCh.
CloseWithoutWaiting(h) ==
  /\ call[h] = "idle" /\ pw[h] # "nil" /\ closes[h] < MaxCloses
  /\ pw' = [pw EXCEPT ![h] = "closed"]
  /\ answer' = [answer EXCEPT ![h] = "ok"]
  /\ closes' = [closes EXCEPT ![h] = @ + 1]
  /\ UNCHANGED <<object, flags, call, arg, sent, up, err, errCh, got, acked,
                 stored, writes>>

\* Close: pw.Close (which never fails), then wait for errCh.
Close(h) ==
  /\ call[h] = "idle" /\ pw[h] # "nil" /\ closes[h] < MaxCloses
  /\ pw' = [pw EXCEPT ![h] = "closed"]
  /\ call' = [call EXCEPT ![h] = "closing"]
  /\ closes' = [closes EXCEPT ![h] = @ + 1]
  /\ UNCHANGED <<object, flags, arg, sent, up, err, errCh, got, acked, answer,
                 stored, writes>>

\* return <-f.errCh.  Nothing is ever sent a second time, so a second Close
\* waits for ever.
CloseReturns(h) ==
  /\ call[h] = "closing" /\ errCh[h] # <<>>
  /\ call' = [call EXCEPT ![h] = "idle"]
  /\ answer' = [answer EXCEPT ![h] = Head(errCh[h])]
  /\ errCh' = [errCh EXCEPT ![h] = Tail(@)]
  /\ UNCHANGED <<object, flags, arg, sent, pw, up, err, got, acked, stored,
                 writes, closes>>

-----------------------------------------------------------------------------
(* The upload goroutine of a handle.                                       *)

\* Leave the body of the goroutine with e in err.
Leave(h, e) ==
  /\ up' = [up EXCEPT ![h] = "report"]
  /\ err' = [err EXCEPT ![h] = e]

\* The first PutObject, of the placeholder, answered without an error.
PutPlaceholder(h) ==
  /\ up[h] = "placeholder"
  /\ object' = Placeholder
  /\ up' = [up EXCEPT ![h] = "stream"]
  /\ UNCHANGED <<callerVars, flags, sent, pw, err, errCh, got, stored>>

\* Mutant: the early return after the placeholder skips the send on errCh.
PlaceholderFailsUnreported(h) ==
  /\ up[h] = "placeholder"
  /\ object' \in {object, Placeholder}
  /\ err' = [err EXCEPT ![h] = "err"]
  /\ up' = [up EXCEPT ![h] = "prclose"]
  /\ UNCHANGED <<callerVars, flags, sent, pw, errCh, got, stored>>

\* The first PutObject answered with an error, carried out or not: return.
PlaceholderFails(h) ==
  /\ up[h] = "placeholder"
  /\ object' \in {object, Placeholder}
  /\ Leave(h, "err")
  /\ UNCHANGED <<callerVars, flags, sent, pw, errCh, got, stored>>

\* The streaming PutObject reads k bytes from the pipe; a Write blocked on
\* them goes on when its last byte, or its empty argument, has been read.
PipeRead(h, k) ==
  LET n == sent[h] + k IN
  /\ up[h] = "stream" /\ call[h] = "writing" /\ pw[h] = "open"
  /\ n <= Len(arg[h]) /\ (k > 0 \/ arg[h] = <<>>)
  /\ got' = [got EXCEPT ![h] = @ \o SubSeq(arg[h], sent[h] + 1, n)]
  /\ sent' = [sent EXCEPT ![h] = n]
  /\ call' = [call EXCEPT ![h] = IF n = Len(arg[h]) THEN "written" ELSE @]
  /\ UNCHANGED <<object, flags, arg, pw, up, err, errCh, acked, answer,
                 stored, writes, closes>>

PipeReads(h) == \E k \in 0..Len(arg[h]) : PipeRead(h, k)

\* Mutant: the end of the stream goes unnoticed when nothing was read.
PipeEOFNeedsData(h) ==
  /\ up[h] = "stream" /\ pw[h] = "closed" /\ got[h] # <<>>
  /\ up' = [up EXCEPT ![h] = "commit"]
  /\ UNCHANGED <<callerVars, object, flags, sent, pw, err, errCh, got, stored>>

\* The reader sees the end of the stream: the writing end was closed.
PipeEOF(h) ==
  /\ up[h] = "stream" /\ pw[h] = "closed"
  /\ up' = [up EXCEPT ![h] = "commit"]
  /\ UNCHANGED <<callerVars, object, flags, sent, pw, err, errCh, got, stored>>

\* Mutant: the placeholder is put beside the stream and may land last.
CommitBeforePlaceholder(h) ==
  /\ up[h] = "commit"
  /\ object' \in {Object(got[h]), Placeholder}
  /\ stored' = [stored EXCEPT ![h] = Object(got[h])]
  /\ \E e \in Errors : Leave(h, e)
  /\ UNCHANGED <<callerVars, flags, sent, pw, errCh, got>>

\* Mutant: the last byte of the last, short part is dropped.
CommitDropsTail(h) ==
  LET kept == SubSeq(got[h], 1, Len(got[h]) - 1) IN
  /\ up[h] = "commit"
  /\ object' = Object(kept)
  /\ stored' = [stored EXCEPT ![h] = Object(kept)]
  /\ \E e \in Errors : Leave(h, e)
  /\ UNCHANGED <<callerVars, flags, sent, pw, errCh, got>>

\* PutObject makes the object it has read visible, as a whole.
CommitObject(h) ==
  /\ up[h] = "commit"
  /\ object' = Object(got[h])
  /\ stored' = [stored EXCEPT ![h] = Object(got[h])]
  /\ \E e \in Errors : Leave(h, e)
  /\ UNCHANGED <<callerVars, flags, sent, pw, errCh, got>>

\* Mutant: an upload that fails keeps the parts it had.
StreamFailsKeepingParts(h) ==
  /\ up[h] = "stream"
  /\ object' = Object(got[h])
  /\ Leave(h, "err")
  /\ UNCHANGED <<callerVars, flags, sent, pw, errCh, got, stored>>

\* PutObject gives up while it streams: a part could not be uploaded.
StreamFails(h) ==
  /\ up[h] = "stream"
  /\ Leave(h, "err")
  /\ UNCHANGED <<callerVars, object, flags, sent, pw, errCh, got, stored>>

\* PutObject fails at its last request, and the object stays what it was.
CommitFails(h) ==
  /\ up[h] = "commit"
  /\ Leave(h, "err")
  /\ UNCHANGED <<callerVars, object, flags, sent, pw, errCh, got, stored>>

\* Mutant: the deferred send evaluates err when it is deferred.
ReportEvaluatedEarly(h) ==
  /\ up[h] = "report" /\ Len(errCh[h]) < 1
  /\ errCh' = [errCh EXCEPT ![h] = Append(@, "ok")]
  /\ up' = [up EXCEPT ![h] = "prclose"]
  /\ UNCHANGED <<callerVars, object, flags, sent, pw, err, got, stored>>

\* Mutant: an errCh without a buffer, where the send waits for Close.
ReportUnbuffered(h) ==
  /\ up[h] = "report" /\ call[h] = "closing"
  /\ errCh' = [errCh EXCEPT ![h] = Append(@, err[h])]
  /\ up' = [up EXCEPT ![h] = "prclose"]
  /\ UNCHANGED <<callerVars, object, flags, sent, pw, err, got, stored>>

\* The deferred send on f.errCh, which has room for one error.
Report(h) ==
  /\ up[h] = "report" /\ Len(errCh[h]) < 1
  /\ errCh' = [errCh EXCEPT ![h] = Append(@, err[h])]
  /\ up' = [up EXCEPT ![h] = "prclose"]
  /\ UNCHANGED <<callerVars, object, flags, sent, pw, err, got, stored>>

\* The deferred pr.Close, after the send: blocked and later Writes fail.
ClosePipeReader(h) ==
  /\ up[h] = "prclose"
  /\ up' = [up EXCEPT ![h] = "done"]
  /\ UNCHANGED <<callerVars, object, flags, sent, pw, err, errCh, got, stored>>

-----------------------------------------------------------------------------
Caller(h) ==
  \/ \E fl \in OpenFlags : OpenFileForWrite(h, fl)
  \/ \E p \in Payloads : Write(h, p)
  \/ WriteReturns(h)
  \/ WriteFails(h)
  \/ CloseUnused(h)
  \/ Close(h)
  \/ CloseReturns(h)

\* The steps the goroutine and the store take unless they are stopped.
UploadStep(h) ==
  \/ PutPlaceholder(h)
  \/ PlaceholderFails(h)
  \/ PipeReads(h)
  \/ PipeEOF(h)
  \/ CommitObject(h)
  \/ CommitFails(h)
  \/ Report(h)
  \/ ClosePipeReader(h)

Next == \E h \in Handles : Caller(h) \/ UploadStep(h) \/ StreamFails(h)

Spec == Init /\ [][Next]_vars

\* The Go scheduler runs every goroutine that can run, and the store answers
\* every request (with an error, maybe).  Nobody has to call Write or Close,
\* and no stream has to fail.
Fairness ==
  \A h \in Handles :
    /\ WF_vars(UploadStep(h))
    /\ WF_vars(WriteReturns(h) \/ WriteFails(h) \/ CloseReturns(h))

FairSpec == Spec /\ Fairness

-----------------------------------------------------------------------------
(* What the write path promises.                                           *)

\* Close returning nil means the upload was carried out, with exactly the
\* bytes Write acknowledged: none lost, repeated or reordered (file.go, Write
\* and Close).
CloseOkMeansStored ==
  \A h \in Handles :
    answer[h] = "ok" /\ pw[h] # "nil" => stored[h] = Object(acked[h])

\* With no other writer about, what a successful Close leaves under the name is
\* the file and not its placeholder (file.go, the order of the two PutObject).
SoleWriterReadsBack ==
  \A h \in Handles :
    /\ answer[h] = "ok" /\ pw[h] # "nil"
    /\ \A g \in Handles \ {h} : up[g] = "none"
    => object = Object(acked[h])

\* Readers never see part of a file: the object only ever changes to the
\* placeholder, or to all that was written through a handle that is being
\* closed (file.go, the goroutine of Write).
WholeFilesOnly ==
  [][object' # object =>
       \/ object' = Placeholder
       \/ \E h \in Handles : call[h] = "closing" /\ object' = Object(acked[h])]_vars

\* A failed upload is never silent: once the goroutine has an error, no Close
\* answers nil, whichever request failed (file.go, errCh).
ErrorsReachClose ==
  \A h \in Handles : err[h] = "err" => answer[h] # "ok"

\* No Write blocks for ever, even when the upload fails while it waits: the
\* goroutine reports first, without waiting for Close, and then closes the pipe.
WritesReturn ==
  \A h \in Handles : call[h] = "writing" ~> call[h] = "idle"

\* The first Close of every handle returns.
FirstCloseReturns ==
  \A h \in Handles : call[h] = "closing" /\ closes[h] = 1 ~> answer[h] # "none"

\* A handle that is closed leaves no goroutine behind.
ClosedLeavesNoGoroutine ==
  \A h \in Handles : pw[h] = "closed" ~> up[h] = "done"

\* The inductive invariant behind the safety properties, for one handle.
\* Transfer: what PutObject has read is what Write has acknowledged and what
\* the current Write has handed over.
Handed(h) ==
  IF call[h] \in {"writing", "written"} THEN SubSeq(arg[h], 1, sent[h]) ELSE <<>>

Transfer(h) ==
  /\ got[h] = acked[h] \o Handed(h)
  /\ call[h] = "written" => sent[h] = Len(arg[h])
  /\ pw[h] = "nil" => got[h] = <<>>

\* Lifecycle: how the caller, the pipe and the goroutine keep step.
Lifecycle(h) ==
  /\ pw[h] = "nil" <=> up[h] = "none"
  /\ pw[h] = "open" <=> (pw[h] # "nil" /\ closes[h] = 0)
  /\ call[h] = "none" => pw[h] = "nil" /\ closes[h] = 0
  /\ call[h] \in {"writing", "written"} => pw[h] = "open"
  /\ call[h] = "closing" => pw[h] = "closed"
  /\ up[h] = "placeholder" => call[h] = "writing" /\ flags[h] = "O_CREATE"
  /\ up[h] = "commit" => pw[h] = "closed"
  /\ closes[h] = 0 => answer[h] = "none"
  /\ pw[h] = "nil" => answer[h] \in {"none", "ok"}

\* Outcome: where the goroutine's error is until Close has answered with it,
\* and what no error means.
Outcome(h) ==
  /\ up[h] \in {"none", "placeholder", "stream", "commit"} =>
       err[h] = "ok" /\ stored[h] = NoObject
  /\ up[h] \notin {"prclose", "done"} =>
       /\ errCh[h] = <<>>
       /\ pw[h] # "nil" => answer[h] = "none"
       /\ pw[h] = "closed" => call[h] = "closing"
  /\ up[h] \in {"prclose", "done"} /\ answer[h] = "none" =>
       /\ errCh[h] # <<>>
       /\ pw[h] = "closed" => call[h] = "closing"
  /\ errCh[h] # <<>> => errCh[h] = <<err[h]>> /\ answer[h] = "none"
  /\ pw[h] # "nil" /\ answer[h] # "none" => answer[h] = err[h]
  /\ up[h] \in {"report", "prclose", "done"} /\ err[h] = "ok" =>
       pw[h] = "closed" /\ stored[h] = Object(got[h])

IndInv == TypeOK /\ \A h \in Handles : Transfer(h) /\ Lifecycle(h) /\ Outcome(h)

\* The upload refines AtomicPut: its handles' phases are read off the calls,
\* the placeholder's request off the goroutine.
Phase(h) ==
  IF call[h] = "none" THEN "new"
  ELSE IF answer[h] # "none" THEN answer[h]
  ELSE IF pw[h] = "closed" THEN "sealed" ELSE "open"

Abstract == INSTANCE AtomicPut WITH
  phase <- [h \in Handles |-> Phase(h)],
  data <- acked,
  reserved <- [h \in Handles |-> flags[h] = "O_CREATE" /\ up[h] \notin {"none", "placeholder"}],
  put <- [h \in Handles |-> stored[h].exists]

\* The whole write path does what AtomicPut says: pipe, goroutine, channel and
\* two requests behave as one atomic store of the acknowledged bytes.
RefinesAtomicPut == Abstract!Spec

\* The comment in Write: "when create new file to put 0x00 as placeholder".
\* The placeholder would replace no file that is already there.
PlaceholderOnlyForNewFile ==
  [][object' = Placeholder /\ object' # object => object = NoObject]_vars
=============================================================================
