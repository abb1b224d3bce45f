--------------------------- MODULE S3UploadProofs ---------------------------
(***************************************************************************)
(* Proofs about S3Upload, for any handles, bytes, payloads and bounds:     *)
(* its types, what a nil Close means, that it implements AtomicPut, and    *)
(* that a handle without rivals reads back what it wrote.                  *)
(***************************************************************************)
EXTENDS S3Upload, SequenceTheorems, TLAPS

-----------------------------------------------------------------------------
(* Type correctness.                                                       *)

\* The initial states of the write path are well typed.
LEMMA InitTypeOK == Init => TypeOK
  BY ConstantsAssumption DEF Init, TypeOK, CallStates, UpStates, Errors, OpenFlags,
     Objects, NoObject

\* Every call of Write, Close and OpenFile keeps the state well typed.
LEMMA CallerTypeOK ==
  ASSUME TypeOK, NEW h \in Handles, Caller(h)
  PROVE  TypeOK'
<1> USE DEF TypeOK, CallStates, UpStates, Errors, OpenFlags
<1>1. CASE \E fl \in OpenFlags : OpenFileForWrite(h, fl)
  BY <1>1 DEF OpenFileForWrite
<1>2. CASE \E p \in Payloads : Write(h, p)
  <2>1. PICK p \in Payloads : Write(h, p)
    BY <1>2
  <2>2. p \in Seq(Byte) /\ 0 <= Len(p)
    BY ConstantsAssumption
  <2>3. pw' \in [Handles -> {"nil", "open", "closed"}] /\ up' \in [Handles -> UpStates]
    BY <2>1, ZenonT(40) DEF Write, WriteInitOnce
  <2>4. writes' \in [Handles -> Nat]
    BY <2>1, ConstantsAssumption DEF Write
  <2>5. \A g \in Handles : sent'[g] <= Len(arg'[g])
    BY <2>1, <2>2 DEF Write
  <2> QED BY <2>1, <2>2, <2>3, <2>4, <2>5 DEF Write
<1>3. CASE WriteReturns(h)
  BY <1>3 DEF WriteReturns
<1>4. CASE WriteFails(h)
  <2>1. SubSeq(arg[h], 1, sent[h]) \in Seq(Byte)
    OBVIOUS
  <2> QED BY <1>4, <2>1 DEF WriteFails
<1>5. CASE CloseUnused(h)
  BY <1>5, ConstantsAssumption DEF CloseUnused
<1>6. CASE Close(h)
  BY <1>6, ConstantsAssumption DEF Close
<1>7. CASE CloseReturns(h)
  <2>1. errCh[h] = <<"ok">> \/ errCh[h] = <<"err">>
    BY <1>7 DEF CloseReturns
  <2>2. Tail(errCh[h]) = <<>>
    <3>1. \A e : Tail(<<e>>) = <<>>
      OBVIOUS
    <3> QED BY <2>1, <3>1
  <2>3. Head(errCh[h]) \in {"ok", "err"}
    BY <2>1
  <2> QED BY <1>7, <2>2, <2>3 DEF CloseReturns
<1> QED BY <1>1, <1>2, <1>3, <1>4, <1>5, <1>6, <1>7 DEF Caller

\* The placeholder is an object, of one byte.
LEMMA PlaceholderType == Placeholder \in Objects
<1>1. <<Zero>> \in Seq(Byte)
  BY ConstantsAssumption
<1> QED BY <1>1 DEF Placeholder, Object, Objects

\* Every step of the upload goroutine keeps the state well typed.
LEMMA UploadTypeOK ==
  ASSUME TypeOK, NEW h \in Handles, UploadStep(h) \/ StreamFails(h)
  PROVE  TypeOK'
<1> USE DEF TypeOK, CallStates, UpStates, Errors, callerVars
<1>1. CASE PutPlaceholder(h)
  BY <1>1, PlaceholderType DEF PutPlaceholder
<1>2. CASE PlaceholderFails(h)
  BY <1>2, PlaceholderType DEF PlaceholderFails, Leave
<1>3. CASE PipeReads(h)
  <2>1. PICK k \in 0..Len(arg[h]) : PipeRead(h, k)
    BY <1>3 DEF PipeReads
  <2>2. SubSeq(arg[h], sent[h] + 1, sent[h] + k) \in Seq(Byte)
    BY <2>1 DEF PipeRead
  <2>3. \A g \in Handles : sent'[g] <= Len(arg'[g])
    BY <2>1 DEF PipeRead
  <2>4. got' \in [Handles -> Seq(Byte)]
    <3>1. got[h] \o SubSeq(arg[h], sent[h] + 1, sent[h] + k) \in Seq(Byte)
      BY <2>2
    <3> QED BY <2>1, <3>1 DEF PipeRead
  <2>5. call' \in [Handles -> CallStates] /\ sent' \in [Handles -> Nat]
    BY <2>1 DEF PipeRead
  <2> QED BY <2>1, <2>3, <2>4, <2>5 DEF PipeRead
<1>4. CASE PipeEOF(h)
  BY <1>4 DEF PipeEOF
<1>5. CASE CommitObject(h)
  BY <1>5 DEF CommitObject, Object, Objects, Leave
<1>6. CASE CommitFails(h)
  BY <1>6 DEF CommitFails, Leave
<1>7. CASE Report(h)
  <2>1. errCh[h] = <<>>
    BY <1>7 DEF Report
  <2>2. Append(errCh[h], err[h]) \in {<<"ok">>, <<"err">>}
    BY <2>1
  <2> QED BY <1>7, <2>2 DEF Report
<1>8. CASE ClosePipeReader(h)
  BY <1>8 DEF ClosePipeReader
<1>9. CASE StreamFails(h)
  BY <1>9 DEF StreamFails, Leave
<1> QED BY <1>1, <1>2, <1>3, <1>4, <1>5, <1>6, <1>7, <1>8, <1>9 DEF UploadStep

\* Type correctness of the write path: in particular the error channel never
\* holds more than its one slot, and the pipe never hands over more than the
\* argument of the Write it serves.
THEOREM TypeCorrect == Spec => []TypeOK
<1>1. Init => TypeOK
  BY InitTypeOK
<1>2. TypeOK /\ [Next]_vars => TypeOK'
  <2> SUFFICES ASSUME TypeOK, [Next]_vars PROVE TypeOK'
    OBVIOUS
  <2>1. CASE Next
    BY <2>1, CallerTypeOK, UploadTypeOK DEF Next
  <2>2. CASE UNCHANGED vars
    BY <2>2 DEF vars, TypeOK
  <2> QED BY <2>1, <2>2
<1> QED BY <1>1, <1>2, PTL DEF Spec

-----------------------------------------------------------------------------
(* The inductive invariant.  A step belongs to one handle h; the conjuncts  *)
(* for every other handle carry over because nothing of theirs changes.     *)

HandleInv(h) == Transfer(h) /\ Lifecycle(h) /\ Outcome(h)

Same(g) ==
  /\ flags'[g] = flags[g] /\ call'[g] = call[g] /\ arg'[g] = arg[g] /\ sent'[g] = sent[g]
  /\ pw'[g] = pw[g] /\ up'[g] = up[g] /\ err'[g] = err[g] /\ errCh'[g] = errCh[g]
  /\ got'[g] = got[g] /\ acked'[g] = acked[g] /\ answer'[g] = answer[g]
  /\ stored'[g] = stored[g] /\ closes'[g] = closes[g]

\* A handle whose state does not change keeps its invariant.
LEMMA Frame ==
  ASSUME NEW g \in Handles, HandleInv(g), Same(g)
  PROVE  HandleInv(g)'
  BY DEF HandleInv, Same, Transfer, Handed, Lifecycle, Outcome

\* The steps of one handle leave every other handle's state alone.
LEMMA StepsAreLocal ==
  ASSUME TypeOK, NEW h \in Handles, NEW g \in Handles, g # h,
         Caller(h) \/ UploadStep(h) \/ StreamFails(h)
  PROVE  Same(g)
<1> USE DEF TypeOK, Same, callerVars
<1>1. CASE Caller(h)
  BY <1>1, SMTT(40) DEF Caller, OpenFileForWrite, Write, WriteInitOnce, WriteReturns, WriteFails,
     CloseUnused, Close, CloseReturns
<1>2. CASE UploadStep(h)
  BY <1>2 DEF UploadStep, PutPlaceholder, PlaceholderFails, PipeReads, PipeRead, PipeEOF,
     CommitObject, CommitFails, Report, ClosePipeReader, Leave
<1>3. CASE StreamFails(h)
  BY <1>3 DEF StreamFails, Leave
<1> QED BY <1>1, <1>2, <1>3

\* The invariant holds before any handle is opened.
LEMMA InitIndInv == Init => IndInv
<1> SUFFICES ASSUME Init PROVE IndInv
  OBVIOUS
<1>1. TypeOK
  BY InitTypeOK
<1>2. ASSUME NEW h \in Handles PROVE HandleInv(h)
  BY <1>2 DEF Init, HandleInv, Transfer, Handed, Lifecycle, Outcome
<1> QED BY <1>1, <1>2 DEF IndInv, HandleInv

\* Opening, writing through and closing a handle keep its invariant.
LEMMA CallerHandleInv ==
  ASSUME TypeOK, TypeOK', NEW h \in Handles, HandleInv(h), Caller(h)
  PROVE  HandleInv(h)'
<1> USE DEF TypeOK, HandleInv, CallStates, UpStates, Errors
<1>1. CASE \E fl \in OpenFlags : OpenFileForWrite(h, fl)
  BY <1>1 DEF OpenFileForWrite, Transfer, Handed, Lifecycle, Outcome
<1>2. CASE \E p \in Payloads : Write(h, p)
  <2>1. PICK p \in Payloads : Write(h, p)
    BY <1>2
  <2>2. SubSeq(p, 1, 0) = <<>>
    BY SubSeqEmpty
  <2>3. Transfer(h)'
    BY <2>1, <2>2 DEF Write, WriteInitOnce, Transfer, Handed, Lifecycle
  <2>4. Lifecycle(h)'
    BY <2>1 DEF Write, WriteInitOnce, Lifecycle, Outcome
  <2>5. Outcome(h)'
    BY <2>1 DEF Write, WriteInitOnce, Lifecycle, Outcome
  <2> QED BY <2>3, <2>4, <2>5
<1>3. CASE WriteReturns(h)
  <2>1. SubSeq(arg[h], 1, sent[h]) = arg[h]
    BY <1>3, SubSeqFull DEF WriteReturns, Transfer
  <2>2. Transfer(h)'
    BY <1>3, <2>1 DEF WriteReturns, Transfer, Handed, Lifecycle
  <2>3. Lifecycle(h)' /\ Outcome(h)'
    BY <1>3 DEF WriteReturns, Lifecycle, Outcome
  <2> QED BY <2>2, <2>3
<1>4. CASE WriteFails(h)
  <2>1. Transfer(h)'
    BY <1>4 DEF WriteFails, Transfer, Handed, Lifecycle
  <2>2. Lifecycle(h)' /\ Outcome(h)'
    BY <1>4 DEF WriteFails, Lifecycle, Outcome
  <2> QED BY <2>1, <2>2
<1>5. CASE CloseUnused(h)
  <2>1. Transfer(h)'
    BY <1>5 DEF CloseUnused, Transfer, Handed
  <2>2. Lifecycle(h)' /\ Outcome(h)'
    BY <1>5 DEF CloseUnused, Lifecycle, Outcome
  <2> QED BY <2>1, <2>2
<1>6. CASE Close(h)
  <2>1. Transfer(h)'
    BY <1>6 DEF Close, Transfer, Handed, Lifecycle
  <2>2. Lifecycle(h)'
    BY <1>6 DEF Close, Lifecycle, Outcome
  <2>3. Outcome(h)'
    BY <1>6 DEF Close, Lifecycle, Outcome
  <2> QED BY <2>1, <2>2, <2>3
<1>7. CASE CloseReturns(h)
  <2>1. errCh[h] = <<err[h]>> /\ answer[h] = "none"
    BY <1>7 DEF CloseReturns, Outcome
  <2>2. Head(errCh[h]) = err[h] /\ Tail(errCh[h]) = <<>>
    <3>1. \A e : Head(<<e>>) = e /\ Tail(<<e>>) = <<>>
      OBVIOUS
    <3> QED BY <2>1, <3>1
  <2>3. Transfer(h)'
    BY <1>7 DEF CloseReturns, Transfer, Handed
  <2>4. Lifecycle(h)'
    BY <1>7, <2>1, <2>2 DEF CloseReturns, Lifecycle
  <2>5. up[h] \in {"prclose", "done"}
    BY <1>7 DEF CloseReturns, Outcome
  <2>6. Outcome(h)'
    BY <1>7, <2>1, <2>2, <2>5 DEF CloseReturns, Lifecycle, Outcome
  <2> QED BY <2>3, <2>4, <2>6
<1> QED BY <1>1, <1>2, <1>3, <1>4, <1>5, <1>6, <1>7 DEF Caller

\* Handing over the bytes of p up to m and then those up to n appends the bytes
\* up to n.
LEMMA HandOver ==
  ASSUME NEW a \in Seq(Byte), NEW p \in Seq(Byte),
         NEW m \in 0..Len(p), NEW n \in m..Len(p)
  PROVE  (a \o SubSeq(p, 1, m)) \o SubSeq(p, m + 1, n) = a \o SubSeq(p, 1, n)
<1> DEFINE before == SubSeq(p, 1, m)
           more == SubSeq(p, m + 1, n)
<1>1. before \o more = SubSeq(p, 1, n)
  BY ConcatAdjacentSubSeq
<1>2. before \in Seq(Byte)
  OBVIOUS
<1>3. more \in Seq(Byte)
  OBVIOUS
<1> HIDE DEF before, more
<1>4. (a \o before) \o more = a \o (before \o more)
  BY <1>2, <1>3, ConcatAssociative, SMTT(40)
<1> QED BY <1>1, <1>4 DEF before, more

\* The steps of the goroutine and of the store keep the handle's invariant.
LEMMA UploadHandleInv ==
  ASSUME TypeOK, TypeOK', NEW h \in Handles, HandleInv(h),
         UploadStep(h) \/ StreamFails(h)
  PROVE  HandleInv(h)'
<1> USE DEF TypeOK, HandleInv, CallStates, UpStates, Errors, callerVars
<1>0. /\ up \in [Handles -> UpStates] /\ err \in [Handles -> Errors]
      /\ errCh \in [Handles -> {<<>>, <<"ok">>, <<"err">>}]
      /\ stored \in [Handles -> Objects] /\ answer \in [Handles -> Errors \cup {"none"}]
  OBVIOUS
<1>1. CASE PutPlaceholder(h)
  BY <1>1 DEF PutPlaceholder, Transfer, Handed, Lifecycle, Outcome
<1>2. CASE PlaceholderFails(h)
  BY <1>2 DEF PlaceholderFails, Leave, Transfer, Handed, Lifecycle, Outcome
<1>3. CASE PipeReads(h)
  <2>1. PICK k \in 0..Len(arg[h]) : PipeRead(h, k)
    BY <1>3 DEF PipeReads
  <2> DEFINE n == sent[h] + k
  <2>2. /\ arg[h] \in Seq(Byte) /\ acked[h] \in Seq(Byte)
        /\ sent[h] \in 0..Len(arg[h]) /\ n \in sent[h]..Len(arg[h])
    BY <2>1 DEF PipeRead
  <2>3. got[h] = acked[h] \o SubSeq(arg[h], 1, sent[h])
    BY <2>1 DEF PipeRead, Transfer, Handed
  <2>4. got'[h] = got[h] \o SubSeq(arg[h], sent[h] + 1, n)
    <3> DEFINE more == got[h] \o SubSeq(arg[h], sent[h] + 1, n)
    <3>1. got \in [Handles -> Seq(Byte)]
      OBVIOUS
    <3>2. got' = [got EXCEPT ![h] = more]
      BY <2>1 DEF PipeRead
    <3> HIDE DEF HandleInv, more
    <3>3. got'[h] = more
      BY <3>1, <3>2
    <3> QED BY <3>3 DEF more
  <2>5. got'[h] = acked[h] \o SubSeq(arg[h], 1, n)
    <3>1. (acked[h] \o SubSeq(arg[h], 1, sent[h])) \o SubSeq(arg[h], sent[h] + 1, n)
            = acked[h] \o SubSeq(arg[h], 1, n)
      <4> HIDE DEF TypeOK, HandleInv, n
      <4> QED BY <2>2, HandOver
    <3> QED BY <2>3, <2>4, <3>1
  <2>6. call'[h] \in {"writing", "written"} /\ sent'[h] = n
    BY <2>1 DEF PipeRead
  <2>7. Transfer(h)'
    BY <2>1, <2>5, <2>6, ZenonT(40) DEF PipeRead, Transfer, Handed, Lifecycle
  <2>8. Lifecycle(h)' /\ Outcome(h)'
    BY <2>1 DEF PipeRead, Lifecycle, Outcome
  <2> QED BY <2>7, <2>8
<1>4. CASE PipeEOF(h)
  BY <1>4 DEF PipeEOF, Transfer, Handed, Lifecycle, Outcome
<1>5. CASE CommitObject(h)
  <2>1. PICK e \in Errors : Leave(h, e)
    BY <1>5 DEF CommitObject
  <2>2. Transfer(h)' /\ Lifecycle(h)'
    BY <1>5, <2>1 DEF CommitObject, Leave, Transfer, Handed, Lifecycle
  <2>3. Outcome(h)'
    BY <1>5, <2>1 DEF CommitObject, Leave, Lifecycle, Outcome
  <2> QED BY <2>2, <2>3
<1>6. CASE CommitFails(h)
  <2>1. Transfer(h)' /\ Lifecycle(h)'
    BY <1>6 DEF CommitFails, Leave, Transfer, Handed, Lifecycle
  <2>2. Outcome(h)'
    BY <1>6 DEF CommitFails, Leave, Lifecycle, Outcome
  <2> QED BY <2>1, <2>2
<1>7. CASE Report(h)
  <2>1. errCh[h] = <<>>
    BY <1>7 DEF Report
  <2>2. Append(errCh[h], err[h]) = <<err[h]>>
    BY <2>1
  <2>3. Transfer(h)' /\ Lifecycle(h)'
    <3>1. Transfer(h)'
      BY <1>7 DEF Report, Transfer, Handed
    <3>2. Lifecycle(h)'
      BY <1>7 DEF Report, Lifecycle
    <3> QED BY <3>1, <3>2
  <2>4. Outcome(h)'
    <3> HIDE DEF TypeOK
    <3> QED BY <1>0, <1>7, <2>2 DEF Report, Lifecycle, Outcome
  <2> QED BY <2>3, <2>4
<1>8. CASE ClosePipeReader(h)
  <2>1. Transfer(h)' /\ Lifecycle(h)'
    BY <1>8 DEF ClosePipeReader, Transfer, Handed, Lifecycle
  <2>2. Outcome(h)'
    BY <1>8 DEF ClosePipeReader, Lifecycle, Outcome
  <2> QED BY <2>1, <2>2
<1>9. CASE StreamFails(h)
  <2>1. Transfer(h)' /\ Lifecycle(h)'
    BY <1>9, SMTT(30) DEF StreamFails, Leave, Transfer, Handed, Lifecycle
  <2>2. Outcome(h)'
    <3> HIDE DEF TypeOK
    <3> QED BY <1>0, <1>9 DEF StreamFails, Leave, Lifecycle, Outcome
  <2> QED BY <2>1, <2>2
<1> QED BY <1>1, <1>2, <1>3, <1>4, <1>5, <1>6, <1>7, <1>8, <1>9 DEF UploadStep

\* The invariant is inductive.
THEOREM Invariance == Spec => []IndInv
<1>1. Init => IndInv
  BY InitIndInv
<1>2. IndInv /\ [Next]_vars => IndInv'
  <2> SUFFICES ASSUME IndInv, [Next]_vars PROVE IndInv'
    OBVIOUS
  <2>0. TypeOK /\ \A g \in Handles : HandleInv(g)
    BY DEF IndInv, HandleInv
  <2>1. CASE Next
    <3>1. PICK h \in Handles : Caller(h) \/ UploadStep(h) \/ StreamFails(h)
      BY <2>1 DEF Next
    <3>2. TypeOK'
      BY <2>0, <3>1, CallerTypeOK, UploadTypeOK
    <3>3. HandleInv(h)'
      BY <2>0, <3>1, <3>2, CallerHandleInv, UploadHandleInv
    <3>4. ASSUME NEW g \in Handles, g # h PROVE HandleInv(g)'
      BY <2>0, <3>1, <3>4, StepsAreLocal, Frame
    <3> QED BY <3>2, <3>3, <3>4 DEF IndInv, HandleInv
  <2>2. CASE UNCHANGED vars
    <3>1. TypeOK'
      BY <2>0, <2>2 DEF vars, TypeOK
    <3>2. ASSUME NEW g \in Handles PROVE HandleInv(g)'
      BY <2>0, <2>2, Frame DEF vars, Same
    <3> QED BY <3>1, <3>2 DEF IndInv, HandleInv
  <2> QED BY <2>1, <2>2
<1> QED BY <1>1, <1>2, PTL DEF Spec

\* A nil error from Close means the acknowledged bytes, all of them and no
\* others, were stored.
THEOREM CloseOkStored == Spec => []CloseOkMeansStored
<1>1. IndInv => CloseOkMeansStored
  <2> SUFFICES ASSUME IndInv, NEW h \in Handles, answer[h] = "ok", pw[h] # "nil"
               PROVE  stored[h] = Object(acked[h])
    BY DEF CloseOkMeansStored
  <2>1. err[h] = "ok" /\ up[h] \in {"report", "prclose", "done"} /\ pw[h] = "closed"
    BY DEF IndInv, Outcome, Lifecycle, TypeOK, UpStates
  <2>2. stored[h] = Object(got[h])
    BY <2>1 DEF IndInv, Outcome
  <2>3. call[h] \notin {"writing", "written"}
    BY <2>1 DEF IndInv, Lifecycle
  <2>4. got[h] = acked[h] \o <<>> /\ acked[h] \in Seq(Byte)
    BY <2>3 DEF IndInv, Transfer, Handed, TypeOK
  <2> QED BY <2>2, <2>4, ConcatEmptySeq
<1> QED BY <1>1, Invariance, PTL

\* An upload error is never answered with nil.
THEOREM ErrorsReported == Spec => []ErrorsReachClose
<1>1. IndInv => ErrorsReachClose
  BY DEF IndInv, ErrorsReachClose, Outcome, Lifecycle
<1> QED BY <1>1, Invariance, PTL

\* The object readers see is never part of a file.
THEOREM WholeFiles == Spec => WholeFilesOnly
<1>1. IndInv /\ [Next]_vars =>
        [object' # object =>
           \/ object' = Placeholder
           \/ \E h \in Handles : call[h] = "closing" /\ object' = Object(acked[h])]_vars
  <2> SUFFICES ASSUME IndInv, Next, object' # object, object' # Placeholder
               PROVE  \E h \in Handles : call[h] = "closing" /\ object' = Object(acked[h])
    BY DEF vars
  <2>1. PICK h \in Handles : Caller(h) \/ UploadStep(h) \/ StreamFails(h)
    BY DEF Next
  <2>2. up[h] = "commit" /\ object' = Object(got[h])
    BY <2>1 DEF Caller, OpenFileForWrite, Write, WriteReturns, WriteFails, CloseUnused, Close,
       CloseReturns, UploadStep, PutPlaceholder, PlaceholderFails, PipeReads, PipeRead, PipeEOF,
       CommitObject, CommitFails, Report, ClosePipeReader, StreamFails
  <2>3. call[h] = "closing"
    BY <2>2 DEF IndInv, Lifecycle, Outcome
  <2>4. got[h] = acked[h] \o <<>> /\ acked[h] \in Seq(Byte)
    BY <2>3 DEF IndInv, Transfer, Handed, TypeOK
  <2> QED BY <2>2, <2>3, <2>4, ConcatEmptySeq
<1> QED BY <1>1, Invariance, PTL DEF Spec, WholeFilesOnly

-----------------------------------------------------------------------------
(* The refinement.  The mapping is taken apart by handle: a step of h       *)
(* changes no other handle's abstract state, and h's own step is one of     *)
(* AtomicPut or leaves its abstract state alone.                            *)

Reserved(h) == flags[h] = "O_CREATE" /\ up[h] \notin {"none", "placeholder"}
Put(h) == stored[h].exists

\* What AtomicPut sees of a handle.
SameAbove(g) ==
  /\ Phase(g)' = Phase(g)
  /\ acked'[g] = acked[g]
  /\ Reserved(g)' = Reserved(g)
  /\ Put(g)' = Put(g)

\* A handle whose state does not change looks the same to AtomicPut.
LEMMA SameIsSameAbove ==
  ASSUME NEW g \in Handles, Same(g)
  PROVE  SameAbove(g)
  BY DEF Same, SameAbove, Phase, Reserved, Put

\* What a step of h is to AtomicPut: none of its actions, or the one that
\* changes h's phase, bytes, reservation or store, and nothing else of h.
Quiet(h) == SameAbove(h) /\ object' = object

\* Open, Seal, AnswerOk, AnswerErr or CloseUnused.
MovesPhase(h) ==
  /\ \/ Phase(h) = "new" /\ Phase(h)' = "open"
     \/ Phase(h) = "open" /\ Phase(h)' = "sealed"
     \/ Phase(h) = "sealed" /\ Phase(h)' = "ok" /\ Put(h)
     \/ Phase(h) = "sealed" /\ Phase(h)' = "err"
     \/ Phase(h) = "open" /\ Phase(h)' = "ok" /\ acked[h] = <<>> /\ ~Reserved(h)
  /\ acked'[h] = acked[h] /\ Reserved(h)' = Reserved(h) /\ Put(h)' = Put(h)
  /\ object' = object

Accepts(h) ==
  /\ Phase(h) = "open" /\ Phase(h)' = Phase(h)
  /\ Len(acked[h]) <= Len(acked'[h])
  /\ SubSeq(acked'[h], 1, Len(acked[h])) = acked[h]
  /\ Reserved(h)' = Reserved(h) /\ Put(h)' = Put(h) /\ object' = object

Reserves(h) ==
  /\ Phase(h) = "open" /\ Phase(h)' = Phase(h)
  /\ ~Reserved(h) /\ Reserved(h)'
  /\ object' \in {object, Placeholder}
  /\ acked'[h] = acked[h] /\ Put(h)' = Put(h)

Stores(h) ==
  /\ Phase(h) = "sealed" /\ Phase(h)' = Phase(h)
  /\ ~Put(h) /\ Put(h)' = TRUE
  /\ object' = Object(acked[h])
  /\ acked'[h] = acked[h] /\ Reserved(h)' = Reserved(h)

OwnStep(h) == Quiet(h) \/ MovesPhase(h) \/ Accepts(h) \/ Reserves(h) \/ Stores(h)

\* The bytes accepted before stay at the front of those accepted after.
LEMMA AppendKeepsFront ==
  ASSUME NEW a \in Seq(Byte), NEW b \in Seq(Byte)
  PROVE  Len(a) <= Len(a \o b) /\ SubSeq(a \o b, 1, Len(a)) = a
<1>1. Len(a \o b) = Len(a) + Len(b) /\ Len(a) \in Nat /\ Len(b) \in Nat
  BY ConcatProperties, LenProperties
<1>2. CASE Len(a) = 0
  <2>1. a = <<>> /\ SubSeq(a \o b, 1, 0) = <<>>
    BY <1>2, EmptySeq, SubSeqEmpty
  <2> QED BY <1>1, <1>2, <2>1
<1>3. CASE Len(a) # 0
  <2>1. 1 \in 1..Len(a) /\ Len(a) \in 1..Len(a)
    BY <1>1, <1>3
  <2>2. SubSeq(a \o b, 1, Len(a)) = SubSeq(a, 1, Len(a))
    BY <2>1, SubSeqOfConcat1
  <2>3. SubSeq(a, 1, Len(a)) = a
    BY SubSeqFull
  <2> QED BY <1>1, <2>2, <2>3
<1> QED BY <1>2, <1>3

\* The calls on a handle are steps of AtomicPut, or none.
LEMMA CallerStepsAbove ==
  ASSUME TypeOK, NEW h \in Handles, HandleInv(h), Caller(h)
  PROVE  OwnStep(h)
<1> USE DEF HandleInv, CallStates, UpStates, Errors
<1>1. CASE \E fl \in OpenFlags : OpenFileForWrite(h, fl)
  BY <1>1 DEF OpenFileForWrite, TypeOK, Lifecycle, OwnStep, MovesPhase, Phase, Reserved, Put
<1>2. CASE \E p \in Payloads : Write(h, p)
  <2>1. PICK p \in Payloads : Write(h, p)
    BY <1>2
  <2>2. SameAbove(h) /\ object' = object
    BY <2>1 DEF Write, WriteInitOnce, TypeOK, Lifecycle, SameAbove, Phase, Reserved, Put
  <2> QED BY <2>2 DEF OwnStep, Quiet
<1>3. CASE WriteReturns(h)
  <2>1. Phase(h) = "open" /\ Phase(h)' = Phase(h) /\ Reserved(h)' = Reserved(h)
        /\ Put(h)' = Put(h) /\ object' = object
    BY <1>3 DEF WriteReturns, TypeOK, Lifecycle, Phase, Reserved, Put
  <2>2. acked'[h] = acked[h] \o arg[h] /\ acked[h] \in Seq(Byte) /\ arg[h] \in Seq(Byte)
    BY <1>3 DEF WriteReturns, TypeOK
  <2> QED BY <2>1, <2>2, AppendKeepsFront DEF OwnStep, Accepts
<1>4. CASE WriteFails(h)
  <2>1. Phase(h) = "open" /\ Phase(h)' = Phase(h) /\ Reserved(h)' = Reserved(h)
        /\ Put(h)' = Put(h) /\ object' = object
    BY <1>4 DEF WriteFails, TypeOK, Lifecycle, Phase, Reserved, Put
  <2> DEFINE taken == SubSeq(arg[h], 1, sent[h])
  <2>2. acked'[h] = acked[h] \o taken /\ acked[h] \in Seq(Byte) /\ taken \in Seq(Byte)
    BY <1>4 DEF WriteFails, TypeOK
  <2> HIDE DEF taken
  <2> QED BY <2>1, <2>2, AppendKeepsFront DEF OwnStep, Accepts
<1>5. CASE CloseUnused(h)
  <2>1. CASE answer[h] = "none"
    <3>1. acked[h] \o <<>> = <<>> /\ acked[h] \in Seq(Byte)
      BY <1>5 DEF CloseUnused, TypeOK, Transfer, Handed
    <3>2. acked[h] = <<>>
      BY <3>1, ConcatEmptySeq
    <3> QED BY <1>5, <2>1, <3>2 
           DEF CloseUnused, TypeOK, Lifecycle, OwnStep, MovesPhase, Phase, Reserved, Put
  <2>2. CASE answer[h] # "none"
    <3>1. answer[h] = "ok"
      BY <1>5, <2>2 DEF CloseUnused, Lifecycle
    <3> QED BY <1>5, <2>2, <3>1 
           DEF CloseUnused, TypeOK, Lifecycle, OwnStep, Quiet, SameAbove, Phase, Reserved, Put
  <2> QED BY <2>1, <2>2
<1>6. CASE Close(h)
  BY <1>6 DEF Close, TypeOK, Lifecycle, Outcome, OwnStep, Quiet, MovesPhase, SameAbove,
     Phase, Reserved, Put
<1>7. CASE CloseReturns(h)
  <2>1. errCh[h] = <<err[h]>> /\ answer[h] = "none"
    BY <1>7 DEF CloseReturns, Outcome
  <2>2. Head(errCh[h]) = err[h]
    BY <2>1
  <2>3. err[h] \in Errors /\ up[h] \in {"prclose", "done"} /\ pw[h] = "closed"
    BY <1>7 DEF CloseReturns, TypeOK, Lifecycle, Outcome
  <2>4. err[h] = "ok" => Put(h)
    BY <2>3 DEF Outcome, Put, Object
  <2>5. Phase(h) = "sealed" /\ Phase(h)' = err[h]
    BY <1>7, <2>1, <2>2, <2>3 DEF CloseReturns, TypeOK, Phase
  <2> QED BY <1>7, <2>3, <2>4, <2>5 DEF CloseReturns, OwnStep, MovesPhase, Reserved, Put
<1> QED BY <1>1, <1>2, <1>3, <1>4, <1>5, <1>6, <1>7 DEF Caller

\* So are the steps of the goroutine and of the store.
LEMMA UploadStepsAbove ==
  ASSUME TypeOK, NEW h \in Handles, HandleInv(h), UploadStep(h) \/ StreamFails(h)
  PROVE  OwnStep(h)
<1> USE DEF HandleInv, CallStates, UpStates, Errors, callerVars
<1>1. CASE PutPlaceholder(h) \/ PlaceholderFails(h)
  <2>1. Phase(h) = "open" /\ ~Reserved(h)
    BY <1>1 DEF PutPlaceholder, PlaceholderFails, TypeOK, Lifecycle, Phase, Reserved
  <2>2. Phase(h)' = Phase(h) /\ Reserved(h)' /\ acked'[h] = acked[h] /\ Put(h)' = Put(h)
    BY <1>1 DEF PutPlaceholder, PlaceholderFails, Leave, TypeOK, Lifecycle, Phase, Reserved, Put
  <2>3. object' \in {object, Placeholder}
    BY <1>1 DEF PutPlaceholder, PlaceholderFails
  <2> QED BY <2>1, <2>2, <2>3 DEF OwnStep, Reserves
<1>2. CASE PipeReads(h)
  <2>1. PICK k \in 0..Len(arg[h]) : PipeRead(h, k)
    BY <1>2 DEF PipeReads
  <2>2. SameAbove(h) /\ object' = object
    BY <2>1 DEF PipeRead, TypeOK, SameAbove, Phase, Reserved, Put
  <2> QED BY <2>2 DEF OwnStep, Quiet
<1>3. CASE PipeEOF(h) \/ CommitFails(h) \/ Report(h) \/ ClosePipeReader(h) \/ StreamFails(h)
  <2>1. SameAbove(h) /\ object' = object
    BY <1>3 DEF PipeEOF, CommitFails, Report, ClosePipeReader, StreamFails, Leave, TypeOK,
       SameAbove, Phase, Reserved, Put
  <2> QED BY <2>1 DEF OwnStep, Quiet
<1>4. CASE CommitObject(h)
  <2>1. Phase(h) = "sealed" /\ ~Put(h) /\ call[h] = "closing"
    BY <1>4 DEF CommitObject, TypeOK, Lifecycle, Outcome, Phase, Put, NoObject
  <2>2. got[h] = acked[h] \o <<>> /\ acked[h] \in Seq(Byte)
    BY <2>1 DEF Transfer, Handed, TypeOK
  <2>3. object' = Object(acked[h])
    BY <1>4, <2>2, ConcatEmptySeq DEF CommitObject
  <2>4. /\ Phase(h)' = Phase(h) /\ acked'[h] = acked[h]
        /\ Reserved(h)' = Reserved(h) /\ Put(h)' = TRUE
    BY <1>4 DEF CommitObject, Leave, TypeOK, Phase, Reserved, Put, Object
  <2> QED BY <2>1, <2>3, <2>4 DEF OwnStep, Stores
<1> QED BY <1>1, <1>2, <1>3, <1>4 DEF UploadStep

\* A step of one handle, seen as AtomicPut sees it.
LEMMA StepAbove ==
  ASSUME TypeOK, TypeOK', NEW h \in Handles, OwnStep(h),
         \A g \in Handles \ {h} : SameAbove(g)
  PROVE  [Abstract!Next]_(Abstract!vars)
<1> DEFINE ph == [g \in Handles |-> Phase(g)]
           re == [g \in Handles |-> flags[g] = "O_CREATE" /\ up[g] \notin {"none", "placeholder"}]
           pu == [g \in Handles |-> stored[g].exists]
<1>1. ASSUME NEW g \in Handles
      PROVE  /\ ph[g] = Phase(g) /\ ph'[g] = Phase(g)'
             /\ re[g] = Reserved(g) /\ re'[g] = Reserved(g)'
             /\ pu[g] = Put(g) /\ pu'[g] = Put(g)'
  BY DEF Reserved, Put
<1>2. acked \in [Handles -> Seq(Byte)] /\ acked' \in [Handles -> Seq(Byte)]
  BY DEF TypeOK
<1>3. Phase(h)' = Phase(h) => ph' = ph
  BY DEF SameAbove
<1>4. acked'[h] = acked[h] => acked' = acked
  BY <1>2 DEF SameAbove
<1>5. Reserved(h)' = Reserved(h) => re' = re
  BY DEF SameAbove, Reserved
<1>6. Put(h)' = Put(h) => pu' = pu
  BY DEF SameAbove, Put
<1>7. \A p : Phase(h)' = p => ph' = [ph EXCEPT ![h] = p]
  BY DEF SameAbove
<1>8. acked' = [acked EXCEPT ![h] = acked'[h]]
  BY <1>2 DEF SameAbove
<1>9. Reserved(h)' => re' = [re EXCEPT ![h] = TRUE]
  BY DEF SameAbove, Reserved
<1>10. Put(h)' = TRUE => pu' = [pu EXCEPT ![h] = TRUE]
  BY DEF SameAbove, Put
<1>11. CASE Quiet(h)
  BY <1>3, <1>4, <1>5, <1>6, <1>11 DEF Quiet, SameAbove, Abstract!vars
<1>12. CASE MovesPhase(h)
  <2>1. /\ acked' = acked /\ re' = re /\ pu' = pu /\ object' = object
        /\ ph[h] = Phase(h) /\ ph' = [ph EXCEPT ![h] = Phase(h)']
    BY <1>1, <1>4, <1>5, <1>6, <1>7, <1>12 DEF MovesPhase
  <2>2. Abstract!Next
    BY <1>1, <1>12, <2>1
       DEF MovesPhase, Abstract!Next, Abstract!Open, Abstract!Seal, Abstract!AnswerOk,
           Abstract!AnswerErr, Abstract!CloseUnused
  <2> QED BY <2>2
<1>13. CASE Accepts(h)
  <2>1. Abstract!Accept(h)
    BY <1>1, <1>2, <1>3, <1>5, <1>6, <1>8, <1>13 DEF Accepts, Abstract!Accept
  <2> QED BY <2>1 DEF Abstract!Next
<1>14. CASE Reserves(h)
  <2>1. Abstract!Reserve(h)
    BY <1>1, <1>3, <1>4, <1>6, <1>9, <1>14
       DEF Reserves, Abstract!Reserve, Placeholder, Object, Abstract!Placeholder, Abstract!Object
  <2> QED BY <2>1 DEF Abstract!Next
<1>15. CASE Stores(h)
  <2>1. Abstract!Store(h)
    BY <1>1, <1>3, <1>4, <1>5, <1>10, <1>15 DEF Stores, Abstract!Store, Object, Abstract!Object
  <2> QED BY <2>1 DEF Abstract!Next
<1> QED BY <1>11, <1>12, <1>13, <1>14, <1>15 DEF OwnStep

\* The write path does what AtomicPut says, whatever the handles, the payloads
\* and the failures: pipe, goroutine, error channel and the two requests amount
\* to one store of the acknowledged bytes, before Close answers nil (Write and
\* Close of file.go).
THEOREM Refinement == Spec => RefinesAtomicPut
<1>1. Init => Abstract!Init
  <2> SUFFICES ASSUME Init PROVE Abstract!Init
    OBVIOUS
  <2>1. \A h \in Handles : Phase(h) = "new"
    BY DEF Init, Phase
  <2> QED BY <2>1 DEF Init, Abstract!Init, NoObject
<1>2. IndInv /\ TypeOK' /\ [Next]_vars => [Abstract!Next]_(Abstract!vars)
  <2> SUFFICES ASSUME IndInv, TypeOK', [Next]_vars
               PROVE  [Abstract!Next]_(Abstract!vars)
    OBVIOUS
  <2>1. TypeOK /\ \A g \in Handles : HandleInv(g)
    BY DEF IndInv, HandleInv
  <2>2. CASE Next
    <3>1. PICK h \in Handles : Caller(h) \/ UploadStep(h) \/ StreamFails(h)
      BY <2>2 DEF Next
    <3>2. OwnStep(h)
      BY <2>1, <3>1, CallerStepsAbove, UploadStepsAbove
    <3>3. \A g \in Handles \ {h} : SameAbove(g)
      BY <2>1, <3>1, StepsAreLocal, SameIsSameAbove
    <3> QED BY <2>1, <3>2, <3>3, StepAbove
  <2>3. CASE UNCHANGED vars
    BY <2>3 DEF vars, Abstract!vars, Phase
  <2> QED BY <2>2, <2>3
<1> QED BY <1>1, <1>2, Invariance, TypeCorrect, PTL DEF Spec, Abstract!Spec, RefinesAtomicPut

-----------------------------------------------------------------------------
(* Reading back.                                                           *)

\* From the moment an upload succeeded the object is its contents, as long as
\* no other handle has started one.
Alone(h) == \A g \in Handles \ {h} : up[g] = "none"

Uploaded(h) == up[h] \in {"report", "prclose", "done"} /\ err[h] = "ok"

ReadsBack == \A h \in Handles : Alone(h) /\ Uploaded(h) => object = Object(got[h])

\* A handle whose upload has not started, and does not start, does not touch
\* the object.
LEMMA IdleTouchesNothing ==
  ASSUME TypeOK, NEW h \in Handles, Caller(h) \/ UploadStep(h) \/ StreamFails(h),
         up[h] = "none"
  PROVE  object' = object
  BY DEF Caller, OpenFileForWrite, Write, WriteReturns, WriteFails, CloseUnused, Close,
     CloseReturns, UploadStep, PutPlaceholder, PlaceholderFails, PipeReads, PipeRead, PipeEOF,
     CommitObject, CommitFails, Report, ClosePipeReader, StreamFails

\* The step in which an upload succeeds puts its contents, and no later step of
\* the same handle puts anything.
LEMMA OwnUpload ==
  ASSUME TypeOK, NEW h \in Handles, Caller(h) \/ UploadStep(h) \/ StreamFails(h),
         HandleInv(h), Uploaded(h)'
  PROVE  \/ object' = Object(got[h]) /\ got'[h] = got[h]
         \/ Uploaded(h) /\ object' = object /\ got'[h] = got[h]
<1> USE DEF Uploaded, HandleInv, callerVars
<1>1. CASE Caller(h)
  BY <1>1 DEF Caller, OpenFileForWrite, Write, WriteInitOnce, WriteReturns, WriteFails,
     CloseUnused, Close, CloseReturns, TypeOK
<1>2. CASE UploadStep(h)
  BY <1>2 DEF UploadStep, PutPlaceholder, PlaceholderFails, PipeReads, PipeRead, PipeEOF,
     CommitObject, CommitFails, Report, ClosePipeReader, Leave, TypeOK
<1>3. CASE StreamFails(h)
  BY <1>3 DEF StreamFails, Leave, TypeOK
<1> QED BY <1>1, <1>2, <1>3

\* With no other writer about, what a nil Close leaves under the name is the
\* file and not its placeholder (the order of the two PutObject in Write).
THEOREM SoleWriter == Spec => []SoleWriterReadsBack
<1>1. Init => ReadsBack
  BY DEF Init, ReadsBack, Uploaded
<1>2. IndInv /\ ReadsBack /\ [Next]_vars => ReadsBack'
  <2> SUFFICES ASSUME IndInv, ReadsBack, [Next]_vars, NEW h \in Handles,
                      Alone(h)', Uploaded(h)'
               PROVE  object' = Object(got'[h])
    BY DEF ReadsBack, Object
  <2>1. TypeOK /\ \A g \in Handles : HandleInv(g)
    BY DEF IndInv, HandleInv
  <2>2. CASE Next
    <3>1. PICK k \in Handles : Caller(k) \/ UploadStep(k) \/ StreamFails(k)
      BY <2>2 DEF Next
    <3>2. \A g \in Handles : up'[g] = "none" => up[g] = "none"
      <4>1. \A g \in Handles \ {k} : up'[g] = up[g]
        BY <2>1, <3>1, StepsAreLocal DEF Same
      <4>2. up'[k] = "none" => up[k] = "none"
        BY <2>1, <3>1 DEF Caller, OpenFileForWrite, Write, WriteInitOnce, WriteReturns,
           WriteFails, CloseUnused, Close, CloseReturns, UploadStep, PutPlaceholder,
           PlaceholderFails, PipeReads, PipeRead, PipeEOF, CommitObject, CommitFails, Report,
           ClosePipeReader, StreamFails, Leave, TypeOK, callerVars
      <4> QED BY <4>1, <4>2
    <3>3. Alone(h)
      BY <3>2 DEF Alone
    <3>4. CASE k = h
      <4>1. \/ object' = Object(got[h]) /\ got'[h] = got[h]
            \/ Uploaded(h) /\ object' = object /\ got'[h] = got[h]
        BY <2>1, <3>1, <3>4, OwnUpload
      <4> QED BY <3>3, <4>1 DEF ReadsBack
    <3>5. CASE k # h
      <4>1. object' = object
        BY <2>1, <3>1, <3>3, <3>5, IdleTouchesNothing DEF Alone
      <4>2. got'[h] = got[h] /\ Uploaded(h)
        BY <2>1, <3>1, <3>5, StepsAreLocal DEF Same, Uploaded
      <4> QED BY <3>3, <4>1, <4>2 DEF ReadsBack
    <3> QED BY <3>4, <3>5
  <2>3. CASE UNCHANGED vars
    BY <2>3 DEF vars, ReadsBack, Alone, Uploaded
  <2> QED BY <2>2, <2>3
<1>3. IndInv /\ ReadsBack => SoleWriterReadsBack
  <2> SUFFICES ASSUME IndInv, ReadsBack, NEW h \in Handles, answer[h] = "ok", pw[h] # "nil",
                      \A g \in Handles \ {h} : up[g] = "none"
               PROVE  object = Object(acked[h])
    BY DEF SoleWriterReadsBack
  <2>1. Uploaded(h) /\ pw[h] = "closed"
    BY DEF IndInv, Outcome, Lifecycle, TypeOK, UpStates, Uploaded
  <2>2. object = Object(got[h])
    BY <2>1 DEF ReadsBack, Alone
  <2>3. got[h] = acked[h] \o <<>> /\ acked[h] \in Seq(Byte)
    BY <2>1 DEF IndInv, Transfer, Handed, TypeOK, Lifecycle
  <2> QED BY <2>2, <2>3, ConcatEmptySeq
<1> QED BY <1>1, <1>2, <1>3, Invariance, PTL DEF Spec
=============================================================================
