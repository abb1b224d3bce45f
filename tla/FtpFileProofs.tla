---------------------------- MODULE FtpFileProofs ----------------------------
(***************************************************************************)
(* Proofs about FtpFile: what a handle promises, for any bytes, payloads,  *)
(* files, word size and bounds.                                            *)
(***************************************************************************)
EXTENDS FtpFile, SequenceTheorems, TLAPS

-----------------------------------------------------------------------------
(* The inductive invariant.                                                *)

\* The goroutine's states in which its connection is still open, and those in
\* which its transfer is over.
Connected == {"command", "stream", "reply", "quit"}
Over == {"quit", "rclose", "wgdone", "done"}

\* Every connection is the RETR's, the goroutine's, or lost.
Accounts ==
  conns = lost + (IF rc = "open" THEN 1 ELSE 0) + (IF stor \in Connected THEN 1 ELSE 0)

\* What the once has made, and when the closers are set.
Streams ==
  /\ ~once => rc = "nil" /\ stor = "none" /\ read = <<>>
  /\ rc = "open" => stor = "none"
  /\ wc = "open" => stor # "none" /\ closes = 0
  /\ wc = "nil" => stor \in {"none", "done"}
  /\ wc = "nil" /\ stor # "none" => closes > 0
  /\ wc = "closed" <=> pc = "closing"
  /\ pc = "closing" => closes > 0
  /\ stor = "none" => wc = "nil"
  /\ closes > 0 => rc = "nil" /\ pc \in {"idle", "closing"}
  /\ pc \in {"writing", "written"} => wc = "open"
  /\ pc \in {"reading", "check"} => once

\* What the caller has used the handle for.
Uses ==
  /\ pc = "reading" \/ rc = "open" => "read" \in used
  /\ pc = "check" \/ stor # "none" => "write" \in used
  /\ once /\ stor = "none" /\ ferr = "nil" /\ closes = 0 => rc = "open"
  /\ pc = "panic" => used = {"read", "write"}

\* What STOR has taken is what Write has acknowledged and what the current
\* Write has handed over.
Handed == IF pc \in {"writing", "written"} THEN SubSeq(arg, 1, sent) ELSE <<>>

Transfer ==
  /\ got = acked \o Handed
  /\ ~once \/ pc = "check" => sent = 0
  /\ pc = "written" => sent = Len(arg)
  /\ stor = "none" => got = <<>>
  /\ stor \in Over /\ ferr = "nil" => remote = Stored(base \o got)

\* The RETR is as far as Read has come.
Stream ==
  /\ read # <<>> => stor = "none"
  /\ rc = "open" => pos = start + Len(read)
  /\ ReadsFollowSeek

IndInv == TypeOK /\ Accounts /\ Streams /\ Uses /\ Transfer /\ Stream

\* The invariant holds before the file is opened.
LEMMA InitIndInv == Init => IndInv
<1> SUFFICES ASSUME Init PROVE IndInv
  OBVIOUS
<1>1. TypeOK
  <2>1. remote \in Files /\ 0 \in 0..Word - 1 /\ 0 \in 0..MaxCalls /\ 0 \in 0..MaxCloses
    BY FtpAssumption DEF Init
  <2>2. <<>> \in Seq(Byte) /\ 0 \in 0..Len(<<>>)
    OBVIOUS
  <2> QED BY <2>1, <2>2 DEF Init, TypeOK, Modes, PCs, StorStates
<1>2. Accounts /\ Streams /\ Uses
  BY DEF Init, Accounts, Streams, Uses, Connected
<1>3. Transfer
  BY DEF Init, Transfer, Handed, Over
<1>4. Stream
  <2>1. start = 0 /\ Len(<<>>) = 0 /\ SubSeq(remote.data, 0 + 1, 0 + 0) = <<>>
    BY SubSeqEmpty DEF Init
  <2> QED BY <2>1 DEF Init, Stream, ReadsFollowSeek
<1> QED BY <1>1, <1>2, <1>3, <1>4 DEF IndInv

-----------------------------------------------------------------------------
(* Control: connections, streams, uses.                                    *)

\* The caller, its calls and the goroutine keep step.
LEMMA StreamsKept ==
  ASSUME TypeOK, Streams, Next
  PROVE  Streams'
<1> USE DEF Streams, StorStates
<1>0. /\ closes \in Nat /\ conns \in Nat /\ lost \in Nat
      /\ stor \in StorStates /\ pc \in PCs
      /\ rc \in {"nil", "open"} /\ wc \in {"nil", "open", "closed"}
  BY FtpAssumption DEF TypeOK
<1>1. CASE \E mode \in Modes, create \in BOOLEAN : OpenFile(mode, create)
  BY <1>0, <1>1 DEF OpenFile, readVars, writeVars, connVars, countVars
<1>2. CASE OpenFileFails
  BY <1>0, <1>2
     DEF OpenFileFails, DialFails, openVars, storVars, readVars, writeVars, connVars,
         countVars
<1>3. CASE \E s \in Seeks : Seek(s[1], s[2])
  BY <1>0, <1>3 DEF Seek, openVars, storVars, readVars, writeVars, connVars
<1>4. CASE ReadOnce
  BY <1>0, <1>4 DEF ReadOnce, Enter, openVars, storVars, writeVars
<1>5. CASE RetrRefused
  BY <1>0, <1>5 DEF RetrRefused, Enter, openVars, storVars, readVars, writeVars
<1>6. CASE ReadAgain
  BY <1>0, <1>6 DEF ReadAgain, Enter, openVars, storVars, readVars, writeVars, connVars
<1>7. CASE \E p \in Payloads : WriteOnce(p)
  BY <1>0, <1>7 DEF WriteOnce, Enter, openVars, readVars
<1>8. CASE \E p \in Payloads : WriteAgain(p)
  BY <1>0, <1>8 DEF WriteAgain, Enter, openVars, storVars, readVars, connVars
<1>9. CASE \E kind \in {"read", "write"} : OnceFails(kind)
  BY <1>0, <1>9
     DEF OnceFails, Enter, DialFails, openVars, storVars, readVars, writeVars, connVars
<1>10. CASE CloseUnused
  BY <1>0, <1>10 DEF CloseUnused, Closing, openVars, storVars, connVars
<1>11. CASE CloseRead
  BY <1>0, <1>11 DEF CloseRead, Closing, openVars, storVars
<1>12. CASE CloseWrite
  BY <1>0, <1>12 DEF CloseWrite, Closing, openVars, storVars, connVars
<1>13. CASE \E k \in 0..Len(remote.data) : ReadReturns(k)
  BY <1>0, <1>13 DEF ReadReturns, openVars, storVars, writeVars, connVars, countVars
<1>14. CASE ReturnsErr
  BY <1>0, <1>14 DEF ReturnsErr, Return, openVars, storVars, readVars, connVars
<1>15. CASE NilDereference
  BY <1>0, <1>15 DEF NilDereference, Return, openVars, storVars, readVars, connVars
<1>16. CASE WriteEnters
  BY <1>0, <1>16 DEF WriteEnters, Return, openVars, storVars, readVars, connVars
<1>17. CASE WriteReturns
  BY <1>0, <1>17 DEF WriteReturns, Return, openVars, storVars, readVars, connVars
<1>18. CASE WriteFails
  BY <1>0, <1>18 DEF WriteFails, Return, openVars, storVars, readVars, connVars
<1>19. CASE CloseReturns
  BY <1>0, <1>19 DEF CloseReturns, openVars, storVars, readVars, connVars, countVars
<1>20. CASE StorAccepted
  BY <1>0, <1>20 DEF StorAccepted, callerVars, openVars, readVars, connVars, countVars
<1>21. CASE PipeReads
  BY <1>0, <1>21
     DEF PipeReads, PipeRead, callerVars, openVars, readVars, connVars, countVars
<1>22. CASE ServerWrites
  BY <1>0, <1>22 DEF ServerWrites, callerVars, openVars, readVars, connVars, countVars
<1>23. CASE PipeEOF
  BY <1>0, <1>23 DEF PipeEOF, callerVars, openVars, readVars, connVars, countVars
<1>24. CASE StorReplies
  BY <1>0, <1>24 DEF StorReplies, callerVars, openVars, readVars, connVars, countVars
<1>25. CASE StorFails
  BY <1>0, <1>25 DEF StorFails, callerVars, openVars, readVars, connVars, countVars
<1>26. CASE Quit
  BY <1>0, <1>26 DEF Quit, callerVars, openVars, readVars, countVars
<1>27. CASE CloseReader
  BY <1>0, <1>27 DEF CloseReader, callerVars, openVars, readVars, connVars, countVars
<1>28. CASE WgDone
  BY <1>0, <1>28 DEF WgDone, callerVars, openVars, readVars, connVars, countVars
<1> QED BY <1>1, <1>2, <1>3, <1>4, <1>5, <1>6, <1>7, <1>8, <1>9, <1>10, <1>11, <1>12, <1>13, <1>14,
     <1>15, <1>16, <1>17, <1>18, <1>19, <1>20, <1>21, <1>22, <1>23, <1>24, <1>25, <1>26, <1>27, <1>28
     DEF Next, Call, CallStep, StorStep

\* No connection goes unaccounted for.
LEMMA AccountsKept ==
  ASSUME TypeOK, Streams, Accounts, Next
  PROVE  Accounts'
<1> USE DEF Accounts, Connected, Streams, StorStates
<1>0. /\ closes \in Nat /\ conns \in Nat /\ lost \in Nat
      /\ stor \in StorStates /\ pc \in PCs
      /\ rc \in {"nil", "open"} /\ wc \in {"nil", "open", "closed"}
  BY FtpAssumption DEF TypeOK
<1>1. CASE \E mode \in Modes, create \in BOOLEAN : OpenFile(mode, create)
  BY <1>0, <1>1 DEF OpenFile, readVars, writeVars, connVars, countVars
<1>2. CASE OpenFileFails
  BY <1>0, <1>2
     DEF OpenFileFails, DialFails, openVars, storVars, readVars, writeVars, connVars,
         countVars
<1>3. CASE \E s \in Seeks : Seek(s[1], s[2])
  BY <1>0, <1>3 DEF Seek, openVars, storVars, readVars, writeVars, connVars
<1>4. CASE ReadOnce
  BY <1>0, <1>4 DEF ReadOnce, Enter, openVars, storVars, writeVars
<1>5. CASE RetrRefused
  BY <1>0, <1>5 DEF RetrRefused, Enter, openVars, storVars, readVars, writeVars
<1>6. CASE ReadAgain
  BY <1>0, <1>6 DEF ReadAgain, Enter, openVars, storVars, readVars, writeVars, connVars
<1>7. CASE \E p \in Payloads : WriteOnce(p)
  BY <1>0, <1>7 DEF WriteOnce, Enter, openVars, readVars
<1>8. CASE \E p \in Payloads : WriteAgain(p)
  BY <1>0, <1>8 DEF WriteAgain, Enter, openVars, storVars, readVars, connVars
<1>9. CASE \E kind \in {"read", "write"} : OnceFails(kind)
  BY <1>0, <1>9
     DEF OnceFails, Enter, DialFails, openVars, storVars, readVars, writeVars, connVars
<1>10. CASE CloseUnused
  BY <1>0, <1>10 DEF CloseUnused, Closing, openVars, storVars, connVars
<1>11. CASE CloseRead
  BY <1>0, <1>11 DEF CloseRead, Closing, openVars, storVars
<1>12. CASE CloseWrite
  BY <1>0, <1>12 DEF CloseWrite, Closing, openVars, storVars, connVars
<1>13. CASE \E k \in 0..Len(remote.data) : ReadReturns(k)
  BY <1>0, <1>13 DEF ReadReturns, openVars, storVars, writeVars, connVars, countVars
<1>14. CASE ReturnsErr
  BY <1>0, <1>14 DEF ReturnsErr, Return, openVars, storVars, readVars, connVars
<1>15. CASE NilDereference
  BY <1>0, <1>15 DEF NilDereference, Return, openVars, storVars, readVars, connVars
<1>16. CASE WriteEnters
  BY <1>0, <1>16 DEF WriteEnters, Return, openVars, storVars, readVars, connVars
<1>17. CASE WriteReturns
  BY <1>0, <1>17 DEF WriteReturns, Return, openVars, storVars, readVars, connVars
<1>18. CASE WriteFails
  BY <1>0, <1>18 DEF WriteFails, Return, openVars, storVars, readVars, connVars
<1>19. CASE CloseReturns
  BY <1>0, <1>19 DEF CloseReturns, openVars, storVars, readVars, connVars, countVars
<1>20. CASE StorAccepted
  BY <1>0, <1>20 DEF StorAccepted, callerVars, openVars, readVars, connVars, countVars
<1>21. CASE PipeReads
  BY <1>0, <1>21
     DEF PipeReads, PipeRead, callerVars, openVars, readVars, connVars, countVars
<1>22. CASE ServerWrites
  BY <1>0, <1>22 DEF ServerWrites, callerVars, openVars, readVars, connVars, countVars
<1>23. CASE PipeEOF
  BY <1>0, <1>23 DEF PipeEOF, callerVars, openVars, readVars, connVars, countVars
<1>24. CASE StorReplies
  BY <1>0, <1>24 DEF StorReplies, callerVars, openVars, readVars, connVars, countVars
<1>25. CASE StorFails
  BY <1>0, <1>25 DEF StorFails, callerVars, openVars, readVars, connVars, countVars
<1>26. CASE Quit
  BY <1>0, <1>26 DEF Quit, callerVars, openVars, readVars, countVars
<1>27. CASE CloseReader
  BY <1>0, <1>27 DEF CloseReader, callerVars, openVars, readVars, connVars, countVars
<1>28. CASE WgDone
  BY <1>0, <1>28 DEF WgDone, callerVars, openVars, readVars, connVars, countVars
<1> QED BY <1>1, <1>2, <1>3, <1>4, <1>5, <1>6, <1>7, <1>8, <1>9, <1>10, <1>11, <1>12, <1>13, <1>14,
     <1>15, <1>16, <1>17, <1>18, <1>19, <1>20, <1>21, <1>22, <1>23, <1>24, <1>25, <1>26, <1>27, <1>28
     DEF Next, Call, CallStep, StorStep

\* A handle that is only read, or only written, keeps the closer its calls need.
LEMMA UsesKept ==
  ASSUME TypeOK, Streams, Uses, Next
  PROVE  Uses'
<1> USE DEF Uses, Streams, StorStates, PCs
<1>0. /\ closes \in Nat /\ conns \in Nat /\ lost \in Nat
      /\ stor \in StorStates /\ pc \in PCs
      /\ rc \in {"nil", "open"} /\ wc \in {"nil", "open", "closed"}
      /\ ferr \in {"nil", "err"} /\ used \subseteq {"read", "write"}
  BY FtpAssumption DEF TypeOK
<1>1. CASE \E mode \in Modes, create \in BOOLEAN : OpenFile(mode, create)
  BY <1>0, <1>1 DEF OpenFile, readVars, writeVars, connVars, countVars
<1>2. CASE OpenFileFails
  BY <1>0, <1>2
     DEF OpenFileFails, DialFails, openVars, storVars, readVars, writeVars, connVars,
         countVars
<1>3. CASE \E s \in Seeks : Seek(s[1], s[2])
  BY <1>0, <1>3 DEF Seek, openVars, storVars, readVars, writeVars, connVars
<1>4. CASE ReadOnce
  BY <1>0, <1>4 DEF ReadOnce, Enter, openVars, storVars, writeVars
<1>5. CASE RetrRefused
  BY <1>0, <1>5 DEF RetrRefused, Enter, openVars, storVars, readVars, writeVars
<1>6. CASE ReadAgain
  BY <1>0, <1>6 DEF ReadAgain, Enter, openVars, storVars, readVars, writeVars, connVars
<1>7. CASE \E p \in Payloads : WriteOnce(p)
  BY <1>0, <1>7 DEF WriteOnce, Enter, openVars, readVars
<1>8. CASE \E p \in Payloads : WriteAgain(p)
  BY <1>0, <1>8 DEF WriteAgain, Enter, openVars, storVars, readVars, connVars
<1>9. CASE \E kind \in {"read", "write"} : OnceFails(kind)
  BY <1>0, <1>9
     DEF OnceFails, Enter, DialFails, openVars, storVars, readVars, writeVars, connVars
<1>10. CASE CloseUnused
  BY <1>0, <1>10 DEF CloseUnused, Closing, openVars, storVars, connVars
<1>11. CASE CloseRead
  BY <1>0, <1>11 DEF CloseRead, Closing, openVars, storVars
<1>12. CASE CloseWrite
  BY <1>0, <1>12 DEF CloseWrite, Closing, openVars, storVars, connVars
<1>13. CASE \E k \in 0..Len(remote.data) : ReadReturns(k)
  BY <1>0, <1>13 DEF ReadReturns, openVars, storVars, writeVars, connVars, countVars
<1>14. CASE ReturnsErr
  BY <1>0, <1>14 DEF ReturnsErr, Return, openVars, storVars, readVars, connVars
<1>15. CASE NilDereference
  <2>1. closes = 0 /\ once
    BY <1>0, <1>15 DEF NilDereference
  <2>2. stor = "none" => rc = "open"
    BY <1>0, <2>1, <1>15 DEF NilDereference, SeenErr
  <2>3. "read" \in used /\ "write" \in used
    <3>1. CASE pc = "reading" /\ rc = "nil"
      BY <1>0, <2>2, <3>1
    <3>2. CASE pc = "check" /\ wc = "nil"
      BY <1>0, <2>1, <2>2, <3>2
    <3> QED BY <3>1, <3>2, <1>15 DEF NilDereference
  <2>4. used = {"read", "write"}
    BY <1>0, <2>3
  <2> QED BY <1>0, <2>4, <1>15 DEF NilDereference, Return, openVars, storVars, readVars, connVars
<1>16. CASE WriteEnters
  BY <1>0, <1>16 DEF WriteEnters, Return, openVars, storVars, readVars, connVars
<1>17. CASE WriteReturns
  BY <1>0, <1>17 DEF WriteReturns, Return, openVars, storVars, readVars, connVars
<1>18. CASE WriteFails
  BY <1>0, <1>18 DEF WriteFails, Return, openVars, storVars, readVars, connVars
<1>19. CASE CloseReturns
  BY <1>0, <1>19 DEF CloseReturns, openVars, storVars, readVars, connVars, countVars
<1>20. CASE StorAccepted
  BY <1>0, <1>20 DEF StorAccepted, callerVars, openVars, readVars, connVars, countVars
<1>21. CASE PipeReads
  BY <1>0, <1>21
     DEF PipeReads, PipeRead, callerVars, openVars, readVars, connVars, countVars
<1>22. CASE ServerWrites
  BY <1>0, <1>22 DEF ServerWrites, callerVars, openVars, readVars, connVars, countVars
<1>23. CASE PipeEOF
  BY <1>0, <1>23 DEF PipeEOF, callerVars, openVars, readVars, connVars, countVars
<1>24. CASE StorReplies
  BY <1>0, <1>24 DEF StorReplies, callerVars, openVars, readVars, connVars, countVars
<1>25. CASE StorFails
  BY <1>0, <1>25 DEF StorFails, callerVars, openVars, readVars, connVars, countVars
<1>26. CASE Quit
  BY <1>0, <1>26 DEF Quit, callerVars, openVars, readVars, countVars
<1>27. CASE CloseReader
  BY <1>0, <1>27 DEF CloseReader, callerVars, openVars, readVars, connVars, countVars
<1>28. CASE WgDone
  BY <1>0, <1>28 DEF WgDone, callerVars, openVars, readVars, connVars, countVars
<1> QED BY <1>1, <1>2, <1>3, <1>4, <1>5, <1>6, <1>7, <1>8, <1>9, <1>10, <1>11, <1>12, <1>13, <1>14,
     <1>15, <1>16, <1>17, <1>18, <1>19, <1>20, <1>21, <1>22, <1>23, <1>24, <1>25, <1>26, <1>27, <1>28
     DEF Next, Call, CallStep, StorStep

\* What STOR takes from the pipe continues what it took before.
LEMMA HandOver ==
  ASSUME NEW a \in Seq(Byte), NEW p \in Seq(Byte), NEW m \in 0..Len(p), NEW n \in m..Len(p)
  PROVE  (a \o SubSeq(p, 1, m)) \o SubSeq(p, m + 1, n) = a \o SubSeq(p, 1, n)
<1> DEFINE before == SubSeq(p, 1, m)
           more == SubSeq(p, m + 1, n)
<1>1. before \o more = SubSeq(p, 1, n)
  BY ConcatAdjacentSubSeq
<1>2. before \in Seq(Byte) /\ more \in Seq(Byte)
  OBVIOUS
<1> HIDE DEF before, more
<1>3. (a \o before) \o more = a \o (before \o more)
  BY <1>2, ConcatAssociative, SMTT(40)
<1> QED BY <1>1, <1>3 DEF before, more

\* No byte is lost, repeated or reordered between Write and the server.
LEMMA TransferKept ==
  ASSUME TypeOK, TypeOK', Streams, Transfer, Next
  PROVE  Transfer'
<1> USE DEF Transfer, Handed, Streams, StorStates, Over
<1>0. /\ arg \in Seq(Byte) /\ acked \in Seq(Byte) /\ got \in Seq(Byte) /\ base \in Seq(Byte)
      /\ sent \in 0..Len(arg) /\ remote \in Files /\ stor \in StorStates /\ pc \in PCs
      /\ wc \in {"nil", "open", "closed"} /\ ferr \in {"nil", "err"}
  BY FtpAssumption DEF TypeOK
<1>1. CASE \E mode \in Modes, create \in BOOLEAN : OpenFile(mode, create)
  BY <1>0, <1>1 DEF OpenFile, readVars, writeVars, connVars, countVars
<1>2. CASE OpenFileFails
  BY <1>0, <1>2
     DEF OpenFileFails, DialFails, openVars, storVars, readVars, writeVars, connVars,
         countVars
<1>3. CASE \E s \in Seeks : Seek(s[1], s[2])
  BY <1>0, <1>3 DEF Seek, openVars, storVars, readVars, writeVars, connVars
<1>4. CASE ReadOnce
  BY <1>0, <1>4 DEF ReadOnce, Enter, openVars, storVars, writeVars
<1>5. CASE RetrRefused
  BY <1>0, <1>5 DEF RetrRefused, Enter, openVars, storVars, readVars, writeVars
<1>6. CASE ReadAgain
  BY <1>0, <1>6 DEF ReadAgain, Enter, openVars, storVars, readVars, writeVars, connVars
<1>7. CASE \E p \in Payloads : WriteOnce(p)
  BY <1>0, <1>7 DEF WriteOnce, Enter, openVars, readVars
<1>8. CASE \E p \in Payloads : WriteAgain(p)
  BY <1>0, <1>8 DEF WriteAgain, Enter, openVars, storVars, readVars, connVars
<1>9. CASE \E kind \in {"read", "write"} : OnceFails(kind)
  <2> PICK kind \in {"read", "write"} : OnceFails(kind)
    BY <1>9
  <2>1. pc = "idle" /\ pc' \in {"reading", "check"} /\ sent = 0 /\ once'
    BY <1>0 DEF OnceFails, Enter
  <2> QED
    BY <1>0, <2>1
       DEF OnceFails, Enter, DialFails, openVars, storVars, readVars, writeVars, connVars
<1>10. CASE CloseUnused
  BY <1>0, <1>10 DEF CloseUnused, Closing, openVars, storVars, connVars
<1>11. CASE CloseRead
  BY <1>0, <1>11 DEF CloseRead, Closing, openVars, storVars
<1>12. CASE CloseWrite
  BY <1>0, <1>12 DEF CloseWrite, Closing, openVars, storVars, connVars
<1>13. CASE \E k \in 0..Len(remote.data) : ReadReturns(k)
  BY <1>0, <1>13 DEF ReadReturns, openVars, storVars, writeVars, connVars, countVars
<1>14. CASE ReturnsErr
  BY <1>0, <1>14 DEF ReturnsErr, Return, openVars, storVars, readVars, connVars
<1>15. CASE NilDereference
  BY <1>0, <1>15 DEF NilDereference, Return, openVars, storVars, readVars, connVars
<1>16. CASE WriteEnters
  BY <1>0, <1>16 DEF WriteEnters, Return, openVars, storVars, readVars, connVars
<1>17. CASE WriteReturns
  BY <1>0, <1>17 DEF WriteReturns, Return, openVars, storVars, readVars, connVars
<1>18. CASE WriteFails
  BY <1>0, <1>18 DEF WriteFails, Return, openVars, storVars, readVars, connVars
<1>19. CASE CloseReturns
  BY <1>0, <1>19 DEF CloseReturns, openVars, storVars, readVars, connVars, countVars
<1>20. CASE StorAccepted
  BY <1>0, <1>20 DEF StorAccepted, callerVars, openVars, readVars, connVars, countVars
<1>21. CASE PipeReads
  <2> PICK k \in 0..Len(arg) : PipeRead(k)
    BY <1>21 DEF PipeReads
  <2> DEFINE n == sent + k
  <2>1. /\ stor = "stream" /\ pc = "writing"
        /\ got' = got \o SubSeq(arg, sent + 1, n) /\ sent' = n
        /\ pc' = IF n = Len(arg) THEN "written" ELSE pc
    BY DEF PipeRead
  <2>2. UNCHANGED <<arg, acked, stor, base, once, ferr, remote>>
    BY DEF PipeRead, callerVars
  <2>3. n \in sent..Len(arg)
    BY <1>0 DEF PipeRead
  <2>4. got = acked \o SubSeq(arg, 1, sent)
    BY <2>1
  <2> HIDE DEF n
  <2>5. got' = acked \o SubSeq(arg, 1, n)
    <3>1. (acked \o SubSeq(arg, 1, sent)) \o SubSeq(arg, sent + 1, n) = acked \o SubSeq(arg, 1, n)
      BY <1>0, <2>3, HandOver, ZenonT(40)
    <3> QED BY <2>1, <2>4, <3>1
  <2>6. pc' \in {"writing", "written"} /\ (pc' = "written" => n = Len(arg))
    BY <2>1
  <2> QED BY <1>0, <2>1, <2>2, <2>5, <2>6
<1>22. CASE ServerWrites
  BY <1>0, <1>22 DEF ServerWrites, callerVars, openVars, readVars, connVars, countVars
<1>23. CASE PipeEOF
  BY <1>0, <1>23 DEF PipeEOF, callerVars, openVars, readVars, connVars, countVars
<1>24. CASE StorReplies
  BY <1>0, <1>24 DEF StorReplies, callerVars, openVars, readVars, connVars, countVars
<1>25. CASE StorFails
  BY <1>0, <1>25 DEF StorFails, callerVars, openVars, readVars, connVars, countVars
<1>26. CASE Quit
  BY <1>0, <1>26 DEF Quit, callerVars, openVars, readVars, countVars
<1>27. CASE CloseReader
  BY <1>0, <1>27 DEF CloseReader, callerVars, openVars, readVars, connVars, countVars
<1>28. CASE WgDone
  BY <1>0, <1>28 DEF WgDone, callerVars, openVars, readVars, connVars, countVars
<1> QED BY <1>1, <1>2, <1>3, <1>4, <1>5, <1>6, <1>7, <1>8, <1>9, <1>10, <1>11, <1>12, <1>13, <1>14,
     <1>15, <1>16, <1>17, <1>18, <1>19, <1>20, <1>21, <1>22, <1>23, <1>24, <1>25, <1>26, <1>27, <1>28
     DEF Next, Call, CallStep, StorStep

\* The RETR goes on where the last Read ended.
LEMMA StreamKept ==
  ASSUME TypeOK, TypeOK', Streams, Stream, Next
  PROVE  Stream'
<1> USE DEF Stream, Streams, StorStates, ReadsFollowSeek
<1>0. /\ read \in Seq(Byte) /\ pos \in Nat /\ start \in Nat /\ stor \in StorStates /\ remote \in Files
      /\ rc \in {"nil", "open"}
  BY FtpAssumption DEF TypeOK
<1>1. CASE \E mode \in Modes, create \in BOOLEAN : OpenFile(mode, create)
  BY <1>0, <1>1 DEF OpenFile, readVars, writeVars, connVars, countVars
<1>2. CASE OpenFileFails
  BY <1>0, <1>2
     DEF OpenFileFails, DialFails, openVars, storVars, readVars, writeVars, connVars,
         countVars
<1>3. CASE \E s \in Seeks : Seek(s[1], s[2])
  BY <1>0, <1>3 DEF Seek, openVars, storVars, readVars, writeVars, connVars
<1>4. CASE ReadOnce
  <2>1. /\ read = <<>> /\ read' = <<>> /\ stor' = "none" /\ pos' = start' /\ start' \in Nat
        /\ remote' = remote
    BY <1>0, <1>4 DEF ReadOnce, Enter, storVars, TypeOK
  <2>2. start' + Len(read') = start' /\ SubSeq(remote'.data, start' + 1, start' + Len(read')) = <<>>
    <3>1. SubSeq(remote'.data, start' + 1, start') = <<>>
      <4> DEFINE m == start'
      <4> m \in Nat
        BY DEF TypeOK
      <4> HIDE DEF m
      <4>1. SubSeq(remote'.data, m + 1, m) = <<>>
        BY SubSeqEmpty
      <4> QED BY <4>1 DEF m
    <3>2. Len(read') = 0 /\ start' \in Nat
      BY <2>1 DEF TypeOK
    <3>3. start' + Len(read') = start'
      <4> DEFINE m == start'
                 l == Len(read')
      <4>1. m \in Nat /\ l = 0
        BY <3>2
      <4> HIDE DEF m, l
      <4>2. m + l = m
        BY <4>1
      <4> QED BY <4>2 DEF m, l
    <3> QED BY <3>1, <3>3
  <2> QED BY <2>1, <2>2
<1>5. CASE RetrRefused
  BY <1>0, <1>5 DEF RetrRefused, Enter, openVars, storVars, readVars, writeVars
<1>6. CASE ReadAgain
  BY <1>0, <1>6 DEF ReadAgain, Enter, openVars, storVars, readVars, writeVars, connVars
<1>7. CASE \E p \in Payloads : WriteOnce(p)
  BY <1>0, <1>7 DEF WriteOnce, Enter, openVars, readVars
<1>8. CASE \E p \in Payloads : WriteAgain(p)
  BY <1>0, <1>8 DEF WriteAgain, Enter, openVars, storVars, readVars, connVars
<1>9. CASE \E kind \in {"read", "write"} : OnceFails(kind)
  BY <1>0, <1>9
     DEF OnceFails, Enter, DialFails, openVars, storVars, readVars, writeVars, connVars
<1>10. CASE CloseUnused
  BY <1>0, <1>10 DEF CloseUnused, Closing, openVars, storVars, connVars
<1>11. CASE CloseRead
  BY <1>0, <1>11 DEF CloseRead, Closing, openVars, storVars
<1>12. CASE CloseWrite
  BY <1>0, <1>12 DEF CloseWrite, Closing, openVars, storVars, connVars
<1>13. CASE \E k \in 0..Len(remote.data) : ReadReturns(k)
  <2> PICK k \in 0..Len(remote.data) : ReadReturns(k)
    BY <1>13
  <2> DEFINE n == pos + k
  <2>1. rc = "open" /\ stor = "none" /\ UNCHANGED <<stor, start, remote, rc, once>>
    BY <1>0, <1>13 DEF ReadReturns, storVars
  <2>2. CASE n <= Len(remote.data)
    <3>1. read' = read \o SubSeq(remote.data, pos + 1, n) /\ pos' = n
      BY <2>2 DEF ReadReturns
    <3>2. read = SubSeq(remote.data, start + 1, pos) /\ pos >= start
      BY <1>0, <2>1
    <3>3. read' = SubSeq(remote.data, start + 1, n)
      BY <1>0, <2>2, <3>1, <3>2, ConcatAdjacentSubSeq, SMTT(30) DEF Files
    <3>4. Len(read') = n - start
      <4>1. remote.data \in Seq(Byte) /\ start + 1 \in 1..Len(remote.data) + 1 /\ n \in start..Len(remote.data)
        BY <1>0, <2>2, <3>2 DEF Files
      <4> QED BY <1>0, <3>3, <4>1
    <3>5. start + Len(read') = n
      BY <1>0, <2>2, <3>2, <3>4
    <3> QED BY <1>0, <2>1, <3>1, <3>3, <3>5
  <2>3. CASE ~(n <= Len(remote.data))
    BY <1>0, <2>1, <2>3 DEF ReadReturns
  <2> QED BY <2>2, <2>3
<1>14. CASE ReturnsErr
  BY <1>0, <1>14 DEF ReturnsErr, Return, openVars, storVars, readVars, connVars
<1>15. CASE NilDereference
  BY <1>0, <1>15 DEF NilDereference, Return, openVars, storVars, readVars, connVars
<1>16. CASE WriteEnters
  BY <1>0, <1>16 DEF WriteEnters, Return, openVars, storVars, readVars, connVars
<1>17. CASE WriteReturns
  BY <1>0, <1>17 DEF WriteReturns, Return, openVars, storVars, readVars, connVars
<1>18. CASE WriteFails
  BY <1>0, <1>18 DEF WriteFails, Return, openVars, storVars, readVars, connVars
<1>19. CASE CloseReturns
  BY <1>0, <1>19 DEF CloseReturns, openVars, storVars, readVars, connVars, countVars
<1>20. CASE StorAccepted
  BY <1>0, <1>20 DEF StorAccepted, callerVars, openVars, readVars, connVars, countVars
<1>21. CASE PipeReads
  BY <1>0, <1>21
     DEF PipeReads, PipeRead, callerVars, openVars, readVars, connVars, countVars
<1>22. CASE ServerWrites
  BY <1>0, <1>22 DEF ServerWrites, callerVars, openVars, readVars, connVars, countVars
<1>23. CASE PipeEOF
  BY <1>0, <1>23 DEF PipeEOF, callerVars, openVars, readVars, connVars, countVars
<1>24. CASE StorReplies
  BY <1>0, <1>24 DEF StorReplies, callerVars, openVars, readVars, connVars, countVars
<1>25. CASE StorFails
  BY <1>0, <1>25 DEF StorFails, callerVars, openVars, readVars, connVars, countVars
<1>26. CASE Quit
  BY <1>0, <1>26 DEF Quit, callerVars, openVars, readVars, countVars
<1>27. CASE CloseReader
  BY <1>0, <1>27 DEF CloseReader, callerVars, openVars, readVars, connVars, countVars
<1>28. CASE WgDone
  BY <1>0, <1>28 DEF WgDone, callerVars, openVars, readVars, connVars, countVars
<1> QED BY <1>1, <1>2, <1>3, <1>4, <1>5, <1>6, <1>7, <1>8, <1>9, <1>10, <1>11, <1>12, <1>13, <1>14,
     <1>15, <1>16, <1>17, <1>18, <1>19, <1>20, <1>21, <1>22, <1>23, <1>24, <1>25, <1>26, <1>27, <1>28
     DEF Next, Call, CallStep, StorStep

\* Types are kept; a connection that is closed was open.
LEMMA TypeKept ==
  ASSUME TypeOK, Accounts, Next
  PROVE  TypeOK'
<1> USE DEF TypeOK, Modes, PCs, StorStates
<1>0. FtpAssumption
  BY FtpAssumption
<1>1. CASE \E mode \in Modes, create \in BOOLEAN : OpenFile(mode, create)
  <2>1. Len(remote.data) \in Nat
    BY DEF Files
  <2> QED BY <2>1, <1>1 DEF OpenFile, readVars, writeVars, connVars, countVars
<1>2. CASE OpenFileFails
  BY <1>0, <1>2
     DEF OpenFileFails, DialFails, openVars, storVars, readVars, writeVars, connVars,
         countVars
<1>3. CASE \E s \in Seeks : Seek(s[1], s[2])
  <2> PICK s \in Seeks : Seek(s[1], s[2])
    BY <1>3
  <2>1. \A x \in Int : x % Word \in 0..Word - 1
    BY FtpAssumption
  <2>2. size \in Int /\ offset \in Int /\ s[1] \in Int /\ s[2] \in 0..2
    BY FtpAssumption
  <2>3. SeekTo(s[1], s[2]) \in 0..Word - 1
    <3>1. s[1] \in Int /\ offset + s[1] \in Int /\ size - s[1] \in Int
      BY <2>2
    <3> QED BY <2>1, <3>1 DEF SeekTo
  <2>4. offset' \in 0..Word - 1 /\ calls' \in 0..MaxCalls
    BY <2>3, FtpAssumption DEF Seek
  <2> QED BY <2>4 DEF Seek, openVars, storVars, readVars, writeVars, connVars
<1>4. CASE ReadOnce
  BY <1>0, <1>4 DEF ReadOnce, Enter, openVars, storVars, writeVars
<1>5. CASE RetrRefused
  BY <1>0, <1>5 DEF RetrRefused, Enter, openVars, storVars, readVars, writeVars
<1>6. CASE ReadAgain
  BY <1>0, <1>6 DEF ReadAgain, Enter, openVars, storVars, readVars, writeVars, connVars
<1>7. CASE \E p \in Payloads : WriteOnce(p)
  <2> PICK p \in Payloads : WriteOnce(p)
    BY <1>7
  <2>1. p \in Seq(Byte) /\ 0 \in 0..Len(p)
    BY FtpAssumption
  <2>2. arg' \in Seq(Byte) /\ sent' \in 0..Len(arg') /\ calls' \in 0..MaxCalls
    BY <2>1, FtpAssumption DEF WriteOnce, Enter
  <2> QED BY <2>2 DEF WriteOnce, Enter, openVars, readVars
<1>8. CASE \E p \in Payloads : WriteAgain(p)
  <2> PICK p \in Payloads : WriteAgain(p)
    BY <1>8
  <2>1. p \in Seq(Byte) /\ 0 \in 0..Len(p)
    BY FtpAssumption
  <2>2. arg' \in Seq(Byte) /\ sent' \in 0..Len(arg') /\ calls' \in 0..MaxCalls
    BY <2>1, FtpAssumption DEF WriteAgain, Enter
  <2> QED BY <2>2 DEF WriteAgain, Enter, openVars, storVars, readVars, connVars
<1>9. CASE \E kind \in {"read", "write"} : OnceFails(kind)
  BY <1>0, <1>9
     DEF OnceFails, Enter, DialFails, openVars, storVars, readVars, writeVars, connVars
<1>10. CASE CloseUnused
  BY <1>0, <1>10 DEF CloseUnused, Closing, openVars, storVars, connVars
<1>11. CASE CloseRead
  <2>1. rc = "open" /\ conns > 0
    BY <1>11 DEF Accounts, CloseRead, Connected
  <2>2. conns' \in Nat /\ closes' \in 0..MaxCloses
    BY <2>1, FtpAssumption, <1>11 DEF CloseRead, Closing
  <2> QED BY <2>2, <1>11 DEF CloseRead, Closing, openVars, storVars
<1>12. CASE CloseWrite
  BY <1>0, <1>12 DEF CloseWrite, Closing, openVars, storVars, connVars
<1>13. CASE \E k \in 0..Len(remote.data) : ReadReturns(k)
  <2> PICK k \in 0..Len(remote.data) : ReadReturns(k)
    BY <1>13
  <2>1. read' \in Seq(Byte) /\ pos' \in Nat
    <3>1. CASE pos + k <= Len(remote.data)
      <4>1. SubSeq(remote.data, pos + 1, pos + k) \in Seq(Byte)
        BY <3>1 DEF Files
      <4>2. read' = read \o SubSeq(remote.data, pos + 1, pos + k) /\ pos' = pos + k
        BY <3>1 DEF ReadReturns
      <4>3. pos + k \in Nat
        OBVIOUS
      <4> QED BY <4>1, <4>2, <4>3
    <3>2. CASE ~(pos + k <= Len(remote.data))
      BY <3>2 DEF ReadReturns
    <3> QED BY <3>1, <3>2
  <2> QED BY <2>1 DEF ReadReturns, openVars, storVars, writeVars, connVars, countVars
<1>14. CASE ReturnsErr
  BY <1>0, <1>14 DEF ReturnsErr, Return, openVars, storVars, readVars, connVars
<1>15. CASE NilDereference
  BY <1>0, <1>15 DEF NilDereference, Return, openVars, storVars, readVars, connVars
<1>16. CASE WriteEnters
  BY <1>0, <1>16 DEF WriteEnters, Return, openVars, storVars, readVars, connVars
<1>17. CASE WriteReturns
  BY <1>0, <1>17 DEF WriteReturns, Return, openVars, storVars, readVars, connVars
<1>18. CASE WriteFails
  <2>1. SubSeq(arg, 1, sent) \in Seq(Byte)
    OBVIOUS
  <2> QED BY <2>1, <1>18 DEF WriteFails, Return, openVars, storVars, readVars, connVars
<1>19. CASE CloseReturns
  BY <1>0, <1>19 DEF CloseReturns, openVars, storVars, readVars, connVars, countVars
<1>20. CASE StorAccepted
  <2>1. base' \in Seq(Byte) /\ remote' \in Files
    BY <1>20 DEF StorAccepted, Files, Stored
  <2> QED BY <2>1, <1>20 DEF StorAccepted, callerVars, openVars, readVars, connVars, countVars
<1>21. CASE PipeReads
  <2> PICK k \in 0..Len(arg) : PipeRead(k)
    BY <1>21 DEF PipeReads
  <2>1. sent + k \in 0..Len(arg) /\ SubSeq(arg, sent + 1, sent + k) \in Seq(Byte)
    BY DEF PipeRead
  <2> QED BY <2>1 DEF PipeRead, callerVars, openVars, readVars, connVars, countVars
<1>22. CASE ServerWrites
  <2>1. remote' \in Files
    BY <1>22 DEF ServerWrites, Files, Stored
  <2> QED BY <2>1, <1>22 DEF ServerWrites, callerVars, openVars, readVars, connVars, countVars
<1>23. CASE PipeEOF
  BY <1>0, <1>23 DEF PipeEOF, callerVars, openVars, readVars, connVars, countVars
<1>24. CASE StorReplies
  BY <1>0, <1>24 DEF StorReplies, callerVars, openVars, readVars, connVars, countVars
<1>25. CASE StorFails
  BY <1>0, <1>25 DEF StorFails, callerVars, openVars, readVars, connVars, countVars
<1>26. CASE Quit
  <2>1. conns > 0
    BY <1>26 DEF Accounts, Quit, Connected
  <2> QED BY <2>1, <1>26 DEF Quit, callerVars, openVars, readVars, countVars
<1>27. CASE CloseReader
  BY <1>0, <1>27 DEF CloseReader, callerVars, openVars, readVars, connVars, countVars
<1>28. CASE WgDone
  BY <1>0, <1>28 DEF WgDone, callerVars, openVars, readVars, connVars, countVars
<1> QED BY <1>1, <1>2, <1>3, <1>4, <1>5, <1>6, <1>7, <1>8, <1>9, <1>10, <1>11, <1>12, <1>13, <1>14,
     <1>15, <1>16, <1>17, <1>18, <1>19, <1>20, <1>21, <1>22, <1>23, <1>24, <1>25, <1>26, <1>27, <1>28
     DEF Next, Call, CallStep, StorStep

-----------------------------------------------------------------------------
(* What a handle promises.                                                 *)

\* The invariant holds in every state of every handle.
LEMMA Invariance == Spec => []IndInv
<1>1. Init => IndInv
  BY InitIndInv
<1>2. IndInv /\ [Next]_vars => IndInv'
  <2> SUFFICES ASSUME IndInv, [Next]_vars PROVE IndInv'
    OBVIOUS
  <2>1. CASE Next
    <3>1. TypeOK /\ Accounts /\ Streams /\ Uses /\ Transfer /\ Stream
      BY DEF IndInv
    <3>2. TypeOK'
      BY <2>1, <3>1, TypeKept
    <3>3. Streams' /\ Accounts' /\ Uses'
      BY <2>1, <3>1, StreamsKept, AccountsKept, UsesKept
    <3>4. Transfer' /\ Stream'
      BY <2>1, <3>1, <3>2, TransferKept, StreamKept
    <3> QED BY <3>2, <3>3, <3>4 DEF IndInv
  <2>2. CASE UNCHANGED vars
    BY <2>2, SMTT(30)
       DEF vars, IndInv, TypeOK, Accounts, Streams, Uses, Transfer, Handed, Stream, ReadsFollowSeek
  <2> QED BY <2>1, <2>2
<1> QED BY <1>1, <1>2, PTL DEF Spec

\* The type invariant of the handle: in particular no count falls below zero,
\* no call of Close closes a connection twice (file.go).
THEOREM TypeCorrect == Spec => []TypeOK
<1>1. IndInv => TypeOK
  BY DEF IndInv
<1> QED BY <1>1, Invariance, PTL

\* When Close has returned and f.err is nil, the server holds exactly the bytes
\* Write acknowledged: what STOR took is what was acknowledged, as Close is not
\* called inside a Write, and STOR ended without an error only after the server
\* had written all of it (file.go, Write and Close).
THEOREM QuietErrStores == Spec => []QuietErrMeansStored
<1>1. IndInv => QuietErrMeansStored
  <2> SUFFICES ASSUME IndInv, Closed, stor # "none", ferr = "nil"
               PROVE  remote = Stored(base \o acked)
    BY DEF QuietErrMeansStored
  <2>1. stor = "done"
    BY DEF IndInv, TypeOK, Streams, Closed
  <2>2. remote = Stored(base \o got)
    BY <2>1 DEF IndInv, Transfer, Over
  <2>3. got = acked \o <<>> /\ acked \in Seq(Byte)
    BY DEF IndInv, TypeOK, Transfer, Handed, Closed
  <2>4. got = acked
    BY <2>3, ConcatEmptySeq
  <2> QED BY <2>2, <2>4
<1> QED BY <1>1, Invariance, PTL

\* A handle panics only when it is both read and written: a once that has run
\* left an error that is seen, a response to read from, or a pipe to write to
\* (file.go, Read and Write).
THEOREM PanicsOnlyOnMixedUse == Spec => []PanicOnlyOnMixedUse
<1>1. IndInv => PanicOnlyOnMixedUse
  BY DEF IndInv, Uses, PanicOnlyOnMixedUse
<1> QED BY <1>1, Invariance, PTL

\* Close leaves no goroutine and no connection behind but those that were lost
\* to a refused RETR or login (file.go, the closers).
THEOREM ClosedReleases == Spec => []CloseReleases
<1>1. IndInv => CloseReleases
  BY DEF IndInv, TypeOK, Accounts, Streams, Closed, CloseReleases, Connected
<1> QED BY <1>1, Invariance, PTL

\* Read returns the file's bytes one after the other from where RETR began
\* (file.go, Seek and Read).
THEOREM ReadsInOrder == Spec => []ReadsFollowSeek
<1>1. IndInv => ReadsFollowSeek
  BY DEF IndInv, Stream
<1> QED BY <1>1, Invariance, PTL
=============================================================================
