-------------------------- MODULE WebdavFileProofs --------------------------
(***************************************************************************)
(* Proofs about WebdavFile: what the file handles promise, for any number  *)
(* of writers, any chunks, files and bounds.                               *)
(***************************************************************************)
EXTENDS WebdavFile, SequenceTheorems, TLAPS

-----------------------------------------------------------------------------
(* The inductive invariant.                                                *)

\* A handle's PUT begins when it is opened, and takes what Write hands over; a
\* PUT that was carried out is over; the lock lets one of them store.
Puts ==
  /\ \A w \in Writers :
       /\ call[w] = "none" <=> put[w] = "none"
       /\ acked[w] = got[w]
       /\ call[w] = "writing" => arg[w] \in Chunk
       /\ landed[w] => put[w] = "done" /\ call[w] = "closed"
  /\ \A v, w \in Writers : put[v] = "storing" /\ put[w] = "storing" => v = w

\* While a PUT stores, the server has the beginning of what it has taken.
Storing ==
  \A w \in Writers :
    put[w] = "storing" => remote = Stored(remote.data) /\ IsPrefix(remote.data, got[w])

\* What is left of a body, behind what was read, is the rest of the file d from f.
RestOf(d, f, r, b) ==
  r \o b = SubSeq(d, f + 1, Len(d)) /\ (f <= Len(d) \/ b = <<>>)

\* The body is opened by the first Read, where Seek has led; while nothing
\* happens to a reader, its position counts what it has read.
Position ==
  /\ ~body.open => read = <<>>
  /\ rd # "open" => ~body.open
  /\ ~seeked /\ ~body.open => pos = 0
  /\ rd = "open" /\ plain => size = Len(remote.data)
  /\ rd = "open" /\ plain /\ body.open /\ ~(seeked /\ from = 0) =>
       /\ pos = from + Len(read)
       /\ RestOf(remote.data, from, read, body.data)
       /\ eof <=> (body.data = <<>>)

IndInv == TypeOK /\ Puts /\ Storing /\ OneHandlesFile /\ LandedIsWhole /\ Position

-----------------------------------------------------------------------------
(* Prefixes.                                                               *)

\* One sequence is the beginning of another.
LEMMA PrefixElements ==
  ASSUME NEW S, NEW s \in Seq(S), NEW t \in Seq(S)
  PROVE  IsPrefix(s, t) <=> Len(s) <= Len(t) /\ \A i \in 1..Len(s) : s[i] = t[i]
<1>1. CASE Len(s) <= Len(t)
  <2> DEFINE p == SubSeq(t, 1, Len(s))
  <2>1. p \in Seq(S) /\ Len(p) = Len(s) /\ \A i \in 1..Len(s) : p[i] = t[i]
    BY <1>1
  <2>2. SubSeq(s, 1, Len(s)) = s
    BY SubSeqFull
  <2>3. s = p <=> \A i \in 1..Len(s) : s[i] = p[i]
    BY <2>1, SeqEqual
  <2> QED BY <1>1, <2>1, <2>2, <2>3 DEF IsPrefix
<1>2. CASE ~(Len(s) <= Len(t))
  BY <1>2 DEF IsPrefix
<1> QED BY <1>1, <1>2

\* A truncated file is the beginning of anything.
LEMMA EmptyIsPrefix ==
  ASSUME NEW S, NEW t \in Seq(S)
  PROVE  IsPrefix(<<>>, t)
<1> DEFINE e == <<>>
<1>1. e \in Seq(S) /\ Len(e) = 0
  OBVIOUS
<1> HIDE DEF e
<1>2. Len(e) <= Len(t) /\ \A i \in 1..Len(e) : e[i] = t[i]
  BY <1>1
<1>3. IsPrefix(e, t)
  BY <1>1, <1>2, PrefixElements
<1> QED BY <1>3 DEF e

\* It stays one when more is handed over...
LEMMA PrefixOfAppend ==
  ASSUME NEW S, NEW s \in Seq(S), NEW t \in Seq(S), NEW c \in S, IsPrefix(s, t)
  PROVE  IsPrefix(s, Append(t, c))
<1> DEFINE u == Append(t, c)
<1>1. u \in Seq(S) /\ Len(u) = Len(t) + 1 /\ \A i \in 1..Len(t) : u[i] = t[i]
  OBVIOUS
<1>2. Len(s) <= Len(t) /\ \A i \in 1..Len(s) : s[i] = t[i]
  BY PrefixElements
<1> HIDE DEF u
<1>3. Len(s) <= Len(u) /\ \A i \in 1..Len(s) : s[i] = u[i]
  BY <1>1, <1>2
<1>4. IsPrefix(s, u)
  BY <1>1, <1>3, PrefixElements
<1> QED BY <1>4 DEF u

\* ...and when the next chunk of what was handed over is stored.
LEMMA PrefixGrows ==
  ASSUME NEW S, NEW s \in Seq(S), NEW t \in Seq(S), IsPrefix(s, t), Len(s) < Len(t)
  PROVE  IsPrefix(Append(s, t[Len(s) + 1]), t)
<1> DEFINE c == t[Len(s) + 1]
<1>1. c \in S
  OBVIOUS
<1>2. \A i \in 1..Len(s) : s[i] = t[i]
  BY PrefixElements
<1>3. Append(s, c) \in Seq(S) /\ Len(Append(s, c)) = Len(s) + 1
      /\ \A i \in 1..Len(s) : Append(s, c)[i] = s[i] /\ Append(s, c)[Len(s) + 1] = c
  BY <1>1
<1>4. Append(s, c)[Len(s) + 1] = c
  BY <1>1
<1>5. \A i \in 1..Len(s) + 1 : Append(s, c)[i] = t[i]
  BY <1>2, <1>3, <1>4
<1>6. Len(Append(s, c)) <= Len(t)
  BY <1>3
<1> HIDE DEF c
<1>7. IsPrefix(Append(s, c), t)
  BY <1>3, <1>5, <1>6, PrefixElements
<1> QED BY <1>7 DEF c

-----------------------------------------------------------------------------
(* Who touches what.                                                       *)

\* A reader does not touch the file, nor any writer.
LEMMA ReaderLeaves == Reader => UNCHANGED <<remote, writerVars, removes>>
<1>1. (\E n \in 0..Len(remote.data) : ReadFirst(n)) => Reading
  BY DEF ReadFirst
<1>2. (\E n \in 0..Len(body.data) : ReadNext(n)) => Reading
  BY DEF ReadNext
<1>3. ReadUnsatisfiable \/ ReadErrorPage(1) \/ ReadFails => Reading
  BY DEF ReadUnsatisfiable, ReadErrorPage, ReadFails
<1>4. Reading => UNCHANGED <<remote, writerVars, removes>>
  BY DEF Reading
<1> QED BY <1>1, <1>2, <1>3, <1>4 DEF Reader, Open, Seek, BodyBreaks, CloseReader

\* A writer, its PUT and RemoveAll do not touch a reader but through the file.
LEMMA WritersLeave ==
  ASSUME TypeOK, (\E w \in Writers : Writer(w) \/ PutStep(w) \/ PutFails(w)) \/ RemoveAll
  PROVE  Becomes(remote') /\ UNCHANGED readerVars
<1> USE DEF Becomes
<1>0. plain \in BOOLEAN
  BY DEF TypeOK
<1>1. ASSUME NEW w \in Writers, Writer(w)
      PROVE  Becomes(remote') /\ UNCHANGED readerVars
  BY <1>0, <1>1 DEF Writer, OpenWrite, Write, Close
<1>2. ASSUME NEW w \in Writers, PutStep(w) \/ PutFails(w)
      PROVE  Becomes(remote') /\ UNCHANGED readerVars
  BY <1>0, <1>2
     DEF PutStep, PutFails, WriteReturns, WriteFails, PutAccepted, PutStores, PutEnds, PutRefused
<1>3. CASE RemoveAll
  BY <1>3 DEF RemoveAll
<1> QED BY <1>1, <1>2, <1>3

-----------------------------------------------------------------------------
(* The writers.                                                            *)

\* What Write acknowledged is what the PUT took, and one PUT stores at a time.
LEMMA PutsKept ==
  ASSUME TypeOK, Puts, Next
  PROVE  Puts'
<1> USE DEF Puts, PutStates
<1>0. /\ call \in [Writers -> {"none", "idle", "writing", "closed"}]
      /\ arg \in [Writers -> Chunk \cup {Page}]
      /\ put \in [Writers -> PutStates] /\ landed \in [Writers -> BOOLEAN]
      /\ got \in [Writers -> Seq(Chunk)] /\ acked \in [Writers -> Seq(Chunk)]
  BY DEF TypeOK
<1>1. ASSUME NEW w \in Writers, Writer(w) \/ PutStep(w) \/ PutFails(w)
      PROVE  Puts'
  <2>1. CASE OpenWrite(w)
    BY <1>0, <2>1 DEF OpenWrite
  <2>2. CASE \E c \in Chunks[w] : Write(w, c)
    <3>1. Chunks[w] \subseteq Chunk
      BY DEF Chunk
    <3> QED BY <1>0, <3>1, <2>2 DEF Write
  <2>3. CASE Close(w)
    BY <1>0, <2>3 DEF Close
  <2>4. CASE WriteReturns(w)
    BY <1>0, <2>4 DEF WriteReturns
  <2>5. CASE WriteFails(w)
    BY <1>0, <2>5 DEF WriteFails
  <2>6. CASE PutAccepted(w)
    BY <1>0, <2>6 DEF PutAccepted, Locked
  <2>7. CASE PutStores(w)
    BY <1>0, <2>7 DEF PutStores, writerVars
  <2>8. CASE PutEnds(w)
    BY <1>0, <2>8 DEF PutEnds
  <2>9. CASE PutRefused(w)
    BY <1>0, <2>9 DEF PutRefused
  <2>10. CASE PutFails(w)
    BY <1>0, <2>10 DEF PutFails
  <2> QED BY <1>1, <2>1, <2>2, <2>3, <2>4, <2>5, <2>6, <2>7, <2>8, <2>9, <2>10 DEF Writer, PutStep
<1>2. CASE RemoveAll
  BY <1>0, <1>2 DEF RemoveAll, writerVars
<1>3. CASE Reader
  BY <1>0, <1>3, ReaderLeaves DEF writerVars
<1> QED BY <1>1, <1>2, <1>3 DEF Next

\* While a PUT stores, nobody else touches the file.
LEMMA StoringKept ==
  ASSUME TypeOK, Puts, Storing, Next
  PROVE  Storing'
<1> USE DEF Puts, Storing, PutStates, Becomes, Stored
<1>0. /\ call \in [Writers -> {"none", "idle", "writing", "closed"}]
      /\ arg \in [Writers -> Chunk \cup {Page}]
      /\ put \in [Writers -> PutStates] /\ landed \in [Writers -> BOOLEAN]
      /\ got \in [Writers -> Seq(Chunk)] /\ acked \in [Writers -> Seq(Chunk)]
      /\ remote.data \in Seq(Chunk)
  BY DEF TypeOK
<1>1. ASSUME NEW w \in Writers, Writer(w) \/ PutStep(w) \/ PutFails(w)
      PROVE  Storing'
  <2>1. CASE OpenWrite(w)
    BY <1>0, <2>1 DEF OpenWrite
  <2>2. CASE \E c \in Chunks[w] : Write(w, c)
    BY <1>0, <2>2 DEF Write
  <2>3. CASE Close(w)
    BY <1>0, <2>3 DEF Close
  <2>4. CASE WriteReturns(w)
    <3>1. \A v \in Writers : put[v] = "storing" => IsPrefix(remote.data, got'[v])
      <4> SUFFICES ASSUME NEW v \in Writers, put[v] = "storing"
                   PROVE  IsPrefix(remote.data, got'[v])
        OBVIOUS
      <4>1. CASE v = w
        <5>1. arg[w] \in Chunk /\ got'[w] = Append(got[w], arg[w]) /\ IsPrefix(remote.data, got[w])
          BY <1>0, <2>4, <4>1 DEF WriteReturns
        <5> QED BY <1>0, <4>1, <5>1, PrefixOfAppend
      <4>2. CASE v # w
        BY <1>0, <2>4, <4>2 DEF WriteReturns
      <4> QED BY <4>1, <4>2
    <3> QED BY <1>0, <3>1, <2>4 DEF WriteReturns
  <2>5. CASE WriteFails(w)
    BY <1>0, <2>5 DEF WriteFails
  <2>6. CASE PutAccepted(w)
    <3>1. \A v \in Writers : put'[v] = "storing" => v = w
      BY <1>0, <2>6 DEF PutAccepted, Locked
    <3>2. remote' = Stored(<<>>) /\ remote'.data = <<>> /\ got' = got
      BY <2>6 DEF PutAccepted
    <3>3. IsPrefix(<<>>, got[w])
      BY <1>0, EmptyIsPrefix
    <3> QED BY <3>1, <3>2, <3>3
  <2>7. CASE PutStores(w)
    <3> DEFINE d == Append(remote.data, got[w][Len(remote.data) + 1])
    <3>1. \A v \in Writers : put'[v] = "storing" => v = w
      BY <1>0, <2>7 DEF PutStores, writerVars
    <3>2. remote' = Stored(d) /\ remote'.data = d /\ got' = got
      BY <2>7 DEF PutStores, writerVars
    <3>3. IsPrefix(d, got[w])
      BY <1>0, <2>7, PrefixGrows DEF PutStores
    <3> QED BY <3>1, <3>2, <3>3
  <2>8. CASE PutEnds(w)
    BY <1>0, <2>8 DEF PutEnds
  <2>9. CASE PutRefused(w)
    BY <1>0, <2>9 DEF PutRefused
  <2>10. CASE PutFails(w)
    BY <1>0, <2>10 DEF PutFails
  <2> QED BY <1>1, <2>1, <2>2, <2>3, <2>4, <2>5, <2>6, <2>7, <2>8, <2>9, <2>10 DEF Writer, PutStep
<1>2. CASE RemoveAll
  BY <1>0, <1>2 DEF RemoveAll, Locked, writerVars
<1>3. CASE Reader
  BY <1>0, <1>3, ReaderLeaves DEF writerVars
<1> QED BY <1>1, <1>2, <1>3 DEF Next

\* Each step leaves the file to one handle.
LEMMA OneHandleKept ==
  ASSUME TypeOK, Puts, Storing, OneHandlesFile, Next
  PROVE  OneHandlesFile'
<1> USE DEF Puts, Storing, OneHandlesFile, PutStates, Becomes, Stored
<1>0. /\ call \in [Writers -> {"none", "idle", "writing", "closed"}]
      /\ arg \in [Writers -> Chunk \cup {Page}]
      /\ put \in [Writers -> PutStates] /\ landed \in [Writers -> BOOLEAN]
      /\ got \in [Writers -> Seq(Chunk)] /\ acked \in [Writers -> Seq(Chunk)]
      /\ remote.data \in Seq(Chunk)
  BY DEF TypeOK
<1>1. ASSUME NEW w \in Writers, Writer(w) \/ PutStep(w) \/ PutFails(w)
      PROVE  OneHandlesFile'
  <2>1. CASE OpenWrite(w)
    BY <1>0, <2>1 DEF OpenWrite
  <2>2. CASE \E c \in Chunks[w] : Write(w, c)
    BY <1>0, <2>2 DEF Write
  <2>3. CASE Close(w)
    BY <1>0, <2>3 DEF Close
  <2>4. CASE WriteReturns(w)
    <3>1. \A v \in Writers : IsPrefix(remote.data, acked[v]) => IsPrefix(remote.data, acked'[v])
      <4> SUFFICES ASSUME NEW v \in Writers, IsPrefix(remote.data, acked[v])
                   PROVE  IsPrefix(remote.data, acked'[v])
        OBVIOUS
      <4>1. CASE v = w
        <5>1. arg[w] \in Chunk /\ acked'[w] = Append(acked[w], arg[w])
          BY <1>0, <2>4 DEF WriteReturns
        <5> QED BY <1>0, <4>1, <5>1, PrefixOfAppend
      <4>2. CASE v # w
        BY <1>0, <2>4, <4>2 DEF WriteReturns
      <4> QED BY <4>1, <4>2
    <3> QED BY <1>0, <3>1, <2>4 DEF WriteReturns
  <2>5. CASE WriteFails(w)
    BY <1>0, <2>5 DEF WriteFails
  <2>6. CASE PutAccepted(w)
    <3>1. remote'.data = <<>> /\ UNCHANGED <<call, acked>> /\ call[w] # "none"
      BY <1>0, <2>6 DEF PutAccepted
    <3>2. IsPrefix(<<>>, acked[w])
      BY <1>0, EmptyIsPrefix
    <3> QED BY <3>1, <3>2
  <2>7. CASE PutStores(w)
    <3> DEFINE d == Append(remote.data, got[w][Len(remote.data) + 1])
    <3>1. remote'.data = d /\ UNCHANGED <<call, acked>> /\ call[w] # "none" /\ acked[w] = got[w]
      BY <1>0, <2>7 DEF PutStores, writerVars
    <3>2. IsPrefix(d, got[w])
      BY <1>0, <2>7, PrefixGrows DEF PutStores
    <3> QED BY <3>1, <3>2
  <2>8. CASE PutEnds(w)
    BY <1>0, <2>8 DEF PutEnds
  <2>9. CASE PutRefused(w)
    BY <1>0, <2>9 DEF PutRefused
  <2>10. CASE PutFails(w)
    BY <1>0, <2>10 DEF PutFails
  <2> QED BY <1>1, <2>1, <2>2, <2>3, <2>4, <2>5, <2>6, <2>7, <2>8, <2>9, <2>10 DEF Writer, PutStep
<1>2. CASE RemoveAll
  BY <1>2 DEF RemoveAll, NoFile
<1>3. CASE Reader
  BY <1>0, <1>3, ReaderLeaves DEF writerVars
<1> QED BY <1>1, <1>2, <1>3 DEF Next

\* A file that was carried over whole stays, but for other calls.
LEMMA LandedKept ==
  ASSUME TypeOK, Puts, Storing, LandedIsWhole, Next
  PROVE  LandedIsWhole'
<1> USE DEF Puts, Storing, LandedIsWhole, PutStates, Becomes, Stored
<1>0. /\ call \in [Writers -> {"none", "idle", "writing", "closed"}]
      /\ arg \in [Writers -> Chunk \cup {Page}]
      /\ put \in [Writers -> PutStates] /\ landed \in [Writers -> BOOLEAN]
      /\ got \in [Writers -> Seq(Chunk)] /\ acked \in [Writers -> Seq(Chunk)]
      /\ remote.data \in Seq(Chunk)
      /\ removes \in Nat
  BY WebdavAssumption DEF TypeOK
<1>1. ASSUME NEW w \in Writers, Writer(w) \/ PutStep(w) \/ PutFails(w)
      PROVE  LandedIsWhole'
  <2>1. CASE OpenWrite(w)
    BY <1>0, <2>1 DEF OpenWrite
  <2>2. CASE \E c \in Chunks[w] : Write(w, c)
    BY <1>0, <2>2 DEF Write
  <2>3. CASE Close(w)
    BY <1>0, <2>3 DEF Close
  <2>4. CASE WriteReturns(w)
    BY <1>0, <2>4 DEF WriteReturns
  <2>5. CASE WriteFails(w)
    BY <1>0, <2>5 DEF WriteFails
  <2>6. CASE PutAccepted(w)
    BY <1>0, <2>6 DEF PutAccepted
  <2>7. CASE PutStores(w)
    BY <1>0, <2>7 DEF PutStores, writerVars
  <2>8. CASE PutEnds(w)
    BY <1>0, <2>8 DEF PutEnds
  <2>9. CASE PutRefused(w)
    BY <1>0, <2>9 DEF PutRefused
  <2>10. CASE PutFails(w)
    BY <1>0, <2>10 DEF PutFails
  <2> QED BY <1>1, <2>1, <2>2, <2>3, <2>4, <2>5, <2>6, <2>7, <2>8, <2>9, <2>10 DEF Writer, PutStep
<1>2. CASE RemoveAll
  BY <1>0, <1>2 DEF RemoveAll, writerVars
<1>3. CASE Reader
  BY <1>0, <1>3, ReaderLeaves DEF writerVars
<1> QED BY <1>1, <1>2, <1>3 DEF Next

\* A body is a part of the file.
LEMMA RangedIsFile ==
  ASSUME remote.data \in Seq(Chunk), pos \in Nat
  PROVE  Ranged \in Seq(Chunk)
<1>1. CASE ~seeked \/ remote.data = <<>>
  <2>1. Ranged = remote.data
    BY <1>1 DEF Ranged
  <2> QED BY <2>1
<1>2. CASE seeked /\ pos = 0 /\ remote.data # <<>>
  <2>1. SubSeq(remote.data, 1, 1) \in Seq(Chunk)
    BY <1>2
  <2> QED BY <1>2, <2>1 DEF Ranged
<1>3. CASE seeked /\ pos # 0 /\ remote.data # <<>>
  <2>1. SubSeq(remote.data, pos + 1, Len(remote.data)) \in Seq(Chunk)
    BY <1>3
  <2> QED BY <1>3, <2>1 DEF Ranged
<1> QED BY <1>1, <1>2, <1>3

\* Types are kept.
LEMMA TypeKept ==
  ASSUME TypeOK, Puts, Position, Next
  PROVE  TypeOK'
<1> USE DEF TypeOK, PutStates
<1>0. WebdavAssumption
  BY WebdavAssumption
<1>1. ASSUME NEW w \in Writers, Writer(w) \/ PutStep(w) \/ PutFails(w)
      PROVE  TypeOK'
  <2>1. CASE OpenWrite(w)
    BY <1>0, <2>1 DEF OpenWrite, readerVars
  <2>2. CASE \E c \in Chunks[w] : Write(w, c)
    <3> PICK c \in Chunks[w] : Write(w, c)
      BY <2>2
    <3>1. c \in Chunk
      BY DEF Chunk
    <3>2. writes' \in [Writers -> 0..MaxWrites]
      BY <1>0 DEF Write
    <3> QED BY <3>1, <3>2 DEF Write, readerVars
  <2>3. CASE Close(w)
    BY <1>0, <2>3 DEF Close, readerVars
  <2>4. CASE WriteReturns(w)
    <3>1. arg[w] \in Chunk /\ Append(got[w], arg[w]) \in Seq(Chunk) /\ Append(acked[w], arg[w]) \in Seq(Chunk)
      BY <2>4 DEF WriteReturns, Puts
    <3> QED BY <3>1, <2>4 DEF WriteReturns, readerVars
  <2>5. CASE WriteFails(w)
    BY <1>0, <2>5 DEF WriteFails, readerVars
  <2>6. CASE PutAccepted(w)
    BY <2>6 DEF PutAccepted, Becomes, Stored, readerVars
  <2>7. CASE PutStores(w)
    <3>1. Append(remote.data, got[w][Len(remote.data) + 1]) \in Seq(Chunk)
      BY <2>7 DEF PutStores
    <3> QED BY <3>1, <2>7 DEF PutStores, Becomes, Stored, readerVars, writerVars
  <2>8. CASE PutEnds(w)
    BY <1>0, <2>8 DEF PutEnds, readerVars
  <2>9. CASE PutRefused(w)
    BY <1>0, <2>9 DEF PutRefused, readerVars
  <2>10. CASE PutFails(w)
    BY <1>0, <2>10 DEF PutFails, readerVars
  <2> QED BY <1>1, <2>1, <2>2, <2>3, <2>4, <2>5, <2>6, <2>7, <2>8, <2>9, <2>10 DEF Writer, PutStep
<1>2. CASE RemoveAll
  BY <1>0, <1>2 DEF RemoveAll, writerVars, readerVars, Becomes, NoFile
<1>3. CASE Reader
  <2>1. CASE Open
    <3>1. Len(remote.data) \in Nat
      OBVIOUS
    <3> QED BY <2>1, <3>1 DEF Open, writerVars
  <2>2. CASE \E s \in Seeks : Seek(s[1], s[2])
    <3> PICK s \in Seeks : Seek(s[1], s[2])
      BY <2>2
    <3>1. SeekTo(s[1], s[2]) \in Nat
      <4>1. s[1] \in Int /\ pos + s[1] \in Int /\ size + s[1] \in Int
        BY <1>0
      <4>2. SeekTo(s[1], s[2]) \in Int
        BY <4>1 DEF SeekTo
      <4> QED BY <4>2 DEF Seek
    <3>2. pos' \in Nat /\ seeks' \in 0..MaxSeeks
      BY <1>0, <3>1 DEF Seek
    <3> QED BY <3>2 DEF Seek, writerVars
  <2>3. ASSUME NEW b \in Seq(Chunk \cup {Page}), NEW n \in 0..Len(b), Reading, TakeFrom(b, n),
               from' \in Nat, plain' \in BOOLEAN
        PROVE  TypeOK'
    <3>1. SubSeq(b, 1, n) \in Seq(Chunk \cup {Page}) /\ SubSeq(b, n + 1, Len(b)) \in Seq(Chunk \cup {Page})
      OBVIOUS
    <3>2. /\ read' \in Seq(Chunk \cup {Page}) /\ body'.open \in BOOLEAN
          /\ body'.data \in Seq(Chunk \cup {Page}) /\ pos' \in Nat /\ eof' \in BOOLEAN
      BY <2>3, <3>1 DEF TakeFrom, Body
    <3>3. reads' \in 0..MaxReads
      BY <1>0, <2>3 DEF Reading
    <3> QED BY <2>3, <3>2, <3>3 DEF Reading, writerVars
  <2>4. CASE \E n \in 0..Len(remote.data) : ReadFirst(n)
    <3> PICK n \in 0..Len(remote.data) : ReadFirst(n)
      BY <2>4
    <3>1. Ranged \in Seq(Chunk)
      BY RangedIsFile
    <3>2. Ranged \in Seq(Chunk \cup {Page})
      BY <3>1
    <3>3. n \in 0..Len(Ranged)
      BY <3>1 DEF ReadFirst, TakeFrom
    <3> QED BY <2>3, <3>2, <3>3 DEF ReadFirst
  <2>5. CASE ReadUnsatisfiable
    <3>1. reads' \in 0..MaxReads
      BY <1>0, <2>5 DEF ReadUnsatisfiable, Reading
    <3> QED BY <2>5, <3>1 DEF ReadUnsatisfiable, Reading, writerVars
  <2>6. CASE ReadErrorPage(1)
    <3>1. <<Page>> \in Seq(Chunk \cup {Page}) /\ 1 \in 0..Len(<<Page>>)
      OBVIOUS
    <3> QED BY <2>3, <2>6, <3>1 DEF ReadErrorPage
  <2>7. CASE ReadFails
    <3>1. reads' \in 0..MaxReads
      BY <1>0, <2>7 DEF ReadFails, Reading
    <3> QED BY <2>7, <3>1 DEF ReadFails, Reading, writerVars
  <2>8. CASE \E n \in 0..Len(body.data) : ReadNext(n)
    BY <2>3, <2>8 DEF ReadNext
  <2>9. CASE BodyBreaks
    <3>1. body'.open = TRUE /\ body'.data = <<>> /\ <<>> \in Seq(Chunk \cup {Page})
      BY <2>9 DEF BodyBreaks, Body
    <3> QED BY <2>9, <3>1 DEF BodyBreaks, writerVars
  <2>10. CASE CloseReader
    <3>1. body'.open = FALSE /\ body'.data = <<>> /\ <<>> \in Seq(Chunk \cup {Page})
      BY <2>10 DEF CloseReader, NoBody
    <3>2. 0 \in 0..MaxReads /\ 0 \in 0..MaxSeeks
      BY <1>0
    <3> QED BY <2>10, <3>1, <3>2 DEF CloseReader, writerVars
  <2> QED BY <1>3, <2>1, <2>2, <2>4, <2>5, <2>6, <2>7, <2>8, <2>9, <2>10 DEF Reader
<1> QED BY <1>1, <1>2, <1>3 DEF Next

-----------------------------------------------------------------------------
(* The reader.                                                             *)

\* Taking the next chunks of a body leaves all of them in one piece.
LEMMA TakeSplits ==
  ASSUME NEW S, NEW r \in Seq(S), NEW b \in Seq(S), NEW n \in 0..Len(b)
  PROVE  /\ (r \o SubSeq(b, 1, n)) \o SubSeq(b, n + 1, Len(b)) = r \o b
         /\ Len(r \o SubSeq(b, 1, n)) = Len(r) + n
         /\ SubSeq(b, n + 1, Len(b)) = <<>> <=> n = Len(b)
<1> DEFINE taken == SubSeq(b, 1, n)
           left == SubSeq(b, n + 1, Len(b))
<1>1. taken \in Seq(S) /\ left \in Seq(S)
  OBVIOUS
<1>6. Len(taken) = n
  OBVIOUS
<1>2. taken \o left = b
  <2>1. 1 \in 1..Len(b) + 1 /\ n \in (1 - 1)..Len(b) /\ Len(b) \in n..Len(b)
    OBVIOUS
  <2>2. taken \o left = SubSeq(b, 1, Len(b))
    BY <2>1, ConcatAdjacentSubSeq
  <2> QED BY <2>2, SubSeqFull
<1>3. left = <<>> <=> n = Len(b)
  <2>1. left = <<>> <=> Len(left) = 0
    BY <1>1, EmptySeq
  <2>2. Len(left) = Len(b) - n
    OBVIOUS
  <2> QED BY <2>1, <2>2
<1> HIDE DEF taken, left
<1>4. (r \o taken) \o left = r \o (taken \o left)
  BY <1>1, ConcatAssociative, SMTT(40)
<1>5. Len(r \o taken) = Len(r) + n
  BY <1>1, <1>6
<1> QED BY <1>2, <1>3, <1>4, <1>5 DEF taken, left

\* What was read and what is left stay the rest of the file...
LEMMA RestTaken ==
  ASSUME NEW S, NEW d, NEW f, NEW r \in Seq(S), NEW b \in Seq(S), NEW n \in 0..Len(b),
         RestOf(d, f, r, b)
  PROVE  RestOf(d, f, r \o SubSeq(b, 1, n), SubSeq(b, n + 1, Len(b)))
<1>1. (r \o SubSeq(b, 1, n)) \o SubSeq(b, n + 1, Len(b)) = r \o b
  BY TakeSplits
<1>2. b = <<>> => SubSeq(b, n + 1, Len(b)) = <<>>
  <2>1. b = <<>> => Len(b) = 0 /\ n = 0
    OBVIOUS
  <2>2. SubSeq(b, n + 1, Len(b)) = <<>> <=> n = Len(b)
    BY TakeSplits
  <2> QED BY <2>1, <2>2
<1> QED BY <1>1, <1>2 DEF RestOf

\* ...and the count tells when nothing is left.
LEMMA RestEnds ==
  ASSUME NEW S, NEW d \in Seq(S), NEW f \in Nat, NEW r \in Seq(S), NEW b \in Seq(S),
         RestOf(d, f, r, b)
  PROVE  f + Len(r) >= Len(d) <=> b = <<>>
<1>1. Len(r) + Len(b) = IF f <= Len(d) THEN Len(d) - f ELSE 0
  <2>1. Len(r \o b) = Len(r) + Len(b)
    OBVIOUS
  <2>2. Len(SubSeq(d, f + 1, Len(d))) = IF f <= Len(d) THEN Len(d) - f ELSE 0
    <3> DEFINE l == Len(d)
    <3>1. \A i \in f + 1..l : d[i] \in S
      OBVIOUS
    <3>2. Len(SubSeq(d, f + 1, l)) = IF f + 1 <= l THEN l - (f + 1) + 1 ELSE 0
      BY <3>1, SubSeqProperties
    <3> QED BY <3>2
  <2> QED BY <2>1, <2>2 DEF RestOf
<1>2. b = <<>> <=> Len(b) = 0
  BY EmptySeq
<1>3. Len(r) \in Nat /\ Len(b) \in Nat /\ Len(d) \in Nat
  OBVIOUS
<1>4. CASE f <= Len(d)
  BY <1>1, <1>2, <1>3, <1>4
<1>5. CASE ~(f <= Len(d))
  BY <1>2, <1>3, <1>5 DEF RestOf
<1> QED BY <1>4, <1>5

\* What the first Read asks for is the rest of the file, where it can be read.
LEMMA RangedIsRest ==
  ASSUME remote.data \in Seq(Chunk), pos \in Nat, ~seeked => pos = 0, ~Unsatisfiable,
         ~(seeked /\ pos = 0)
  PROVE  RestOf(remote.data, pos, <<>>, Ranged)
<1>1. Ranged = SubSeq(remote.data, pos + 1, Len(remote.data))
  <2>1. CASE ~seeked
    <3>1. Ranged = remote.data /\ pos = 0
      BY <2>1 DEF Ranged
    <3> QED BY <3>1, SubSeqFull
  <2>2. CASE seeked /\ remote.data = <<>>
    <3>1. Ranged = <<>>
      BY <2>2 DEF Ranged
    <3>2. SubSeq(remote.data, pos + 1, Len(remote.data)) = <<>>
      BY <2>2, SubSeqEmpty
    <3> QED BY <3>1, <3>2
  <2>3. CASE seeked /\ remote.data # <<>>
    BY <2>3 DEF Ranged
  <2> QED BY <2>1, <2>2, <2>3
<1>2. pos <= Len(remote.data) \/ Ranged = <<>>
  <2>1. CASE ~seeked
    BY <2>1
  <2>2. CASE seeked /\ remote.data = <<>>
    BY <2>2 DEF Ranged
  <2>3. CASE seeked /\ remote.data # <<>>
    <3>1. Len(remote.data) > 0
      BY <2>3
    <3> QED BY <2>3, <3>1 DEF Unsatisfiable
  <2> QED BY <2>1, <2>2, <2>3
<1>3. <<>> \o Ranged = Ranged
  BY RangedIsFile, ConcatEmptySeq
<1> QED BY <1>1, <1>2, <1>3 DEF RestOf

\* A reader that nothing happens to reads the file in order.
LEMMA ReaderKept ==
  ASSUME TypeOK, Position, Next
  PROVE  Position'
<1> DEFINE S == Chunk \cup {Page}
           Plain == rd = "open" /\ plain /\ ~(seeked /\ from = 0)
<1> USE DEF Position
<1>1. ASSUME \/ \E w \in Writers : Writer(w) \/ PutStep(w) \/ PutFails(w)
             \/ RemoveAll
      PROVE  Position'
  <2>1. Becomes(remote') /\ UNCHANGED readerVars
    BY <1>1, WritersLeave
  <2> QED BY <2>1 DEF Becomes, readerVars, TypeOK
<1>2. CASE Open
  BY <1>2 DEF Open
<1>3. CASE \E s \in Seeks : Seek(s[1], s[2])
  BY <1>3 DEF Seek
<1>4. CASE \E n \in 0..Len(remote.data) : ReadFirst(n)
  <2> PICK n \in 0..Len(remote.data) : ReadFirst(n)
    BY <1>4
  <2>1. /\ read = <<>> /\ body'.open /\ rd' = rd /\ rd = "open" /\ UNCHANGED <<remote, size, seeked, plain>>
        /\ from' = pos /\ pos' = pos + n /\ (~seeked => pos = 0)
    BY DEF ReadFirst, Reading, TakeFrom, Body
  <2>2. ASSUME Plain'
        PROVE  /\ pos' = from' + Len(read')
               /\ RestOf(remote'.data, from', read', body'.data)
               /\ eof' <=> (body'.data = <<>>)
    <3>1. size = Len(remote.data) /\ ~(seeked /\ pos = 0)
      BY <2>1, <2>2
    <3>2. remote.data \in Seq(Chunk) /\ remote.data \in Seq(S) /\ pos \in Nat /\ ~Unsatisfiable
      BY DEF TypeOK, ReadFirst
    <3>3. RestOf(remote.data, pos, read, Ranged)
      BY <2>1, <3>1, <3>2, RangedIsRest
    <3>4. read \in Seq(S) /\ Ranged \in Seq(S) /\ n \in 0..Len(Ranged)
      <4>1. Ranged \in Seq(Chunk)
        BY <3>2, RangedIsFile
      <4> QED BY <4>1 DEF ReadFirst, TakeFrom, TypeOK
    <3>5. /\ read' = read \o SubSeq(Ranged, 1, n) /\ body'.data = SubSeq(Ranged, n + 1, Len(Ranged))
          /\ eof' = (pos + n >= size)
      BY DEF ReadFirst, TakeFrom, Body
    <3>6. RestOf(remote.data, pos, read', body'.data)
      BY <3>3, <3>4, <3>5, RestTaken
    <3>7. read' \in Seq(S) /\ body'.data \in Seq(S) /\ Len(read') = Len(read) + n
      <4>1. Len(read \o SubSeq(Ranged, 1, n)) = Len(read) + n
        BY <3>4, TakeSplits
      <4> QED BY <3>4, <3>5, <4>1
    <3>8. pos + Len(read') >= Len(remote.data) <=> body'.data = <<>>
      BY <3>2, <3>6, <3>7, RestEnds
    <3>9. Len(read') = n
      BY <2>1, <3>4, <3>7
    <3> QED BY <2>1, <3>1, <3>5, <3>6, <3>8, <3>9
  <2> QED BY <2>1, <2>2
<1>5. CASE ReadUnsatisfiable \/ ReadFails
  BY <1>5 DEF ReadUnsatisfiable, ReadFails, Reading
<1>6. CASE ReadErrorPage(1)
  BY <1>6 DEF ReadErrorPage, Reading, TakeFrom, Body
<1>7. CASE \E n \in 0..Len(body.data) : ReadNext(n)
  <2> PICK n \in 0..Len(body.data) : ReadNext(n)
    BY <1>7
  <2>1. /\ body.open /\ body'.open /\ rd' = rd /\ rd = "open" /\ UNCHANGED <<remote, size, seeked, plain, from>>
        /\ pos' = pos + n
    BY DEF ReadNext, Reading, TakeFrom, Body
  <2>2. ASSUME Plain'
        PROVE  /\ pos' = from' + Len(read')
               /\ RestOf(remote'.data, from', read', body'.data)
               /\ eof' <=> (body'.data = <<>>)
    <3>1. size = Len(remote.data) /\ pos = from + Len(read) /\ RestOf(remote.data, from, read, body.data)
      BY <2>1, <2>2
    <3>2. remote.data \in Seq(S) /\ read \in Seq(S) /\ body.data \in Seq(S) /\ from \in Nat
      BY DEF TypeOK
    <3>3. /\ read' = read \o SubSeq(body.data, 1, n) /\ body'.data = SubSeq(body.data, n + 1, Len(body.data))
          /\ eof' = (pos + n >= size)
      BY DEF ReadNext, TakeFrom, Body
    <3>4. RestOf(remote.data, from, read', body'.data)
      BY <3>1, <3>2, <3>3, RestTaken
    <3>5. read' \in Seq(S) /\ body'.data \in Seq(S) /\ Len(read') = Len(read) + n
      <4>1. Len(read \o SubSeq(body.data, 1, n)) = Len(read) + n
        BY <3>2, TakeSplits
      <4>2. /\ SubSeq(body.data, 1, n) \in Seq(S)
            /\ SubSeq(body.data, n + 1, Len(body.data)) \in Seq(S)
        BY <3>2
      <4>3. read \o SubSeq(body.data, 1, n) \in Seq(S)
        BY <3>2, <4>2
      <4> QED BY <3>3, <4>1, <4>2, <4>3
    <3>6. from + Len(read') >= Len(remote.data) <=> body'.data = <<>>
      BY <3>2, <3>4, <3>5, RestEnds
    <3>7. pos' = from + Len(read')
      BY <2>1, <3>1, <3>2, <3>5
    <3> QED BY <2>1, <3>1, <3>3, <3>4, <3>6, <3>7
  <2> QED BY <2>1, <2>2
<1>8. CASE BodyBreaks
  BY <1>8 DEF BodyBreaks, Body
<1>9. CASE CloseReader
  BY <1>9 DEF CloseReader, NoBody
<1> QED BY <1>1, <1>2, <1>3, <1>4, <1>5, <1>6, <1>7, <1>8, <1>9 DEF Next, Reader

-----------------------------------------------------------------------------
(* What the handles promise.                                               *)

\* The invariant holds before any handle is opened.
LEMMA InitIndInv == Init => IndInv
<1> SUFFICES ASSUME Init PROVE IndInv
  OBVIOUS
<1>1. TypeOK
  <2>1. <<>> \in Seq(Chunk) /\ <<>> \in Seq(Chunk \cup {Page})
    OBVIOUS
  <2>2. remote.exists \in BOOLEAN /\ remote.data \in Seq(Chunk)
    BY WebdavAssumption DEF Init
  <2>3. 0 \in 0..MaxWrites /\ 0 \in 0..MaxReads /\ 0 \in 0..MaxSeeks /\ 0 \in 0..MaxRemoves
    BY WebdavAssumption
  <2> QED BY <2>1, <2>2, <2>3 DEF Init, TypeOK, PutStates, NoBody
<1>2. Puts /\ Storing
  BY DEF Init, Puts, Storing
<1>3. OneHandlesFile /\ LandedIsWhole
  BY DEF Init, OneHandlesFile, LandedIsWhole
<1>4. Position
  BY DEF Init, Position, NoBody
<1> QED BY <1>1, <1>2, <1>3, <1>4 DEF IndInv

\* It holds in every state: handles may interleave in any way.
LEMMA Invariance == Spec => []IndInv
<1>1. Init => IndInv
  BY InitIndInv
<1>2. IndInv /\ [Next]_vars => IndInv'
  <2> SUFFICES ASSUME IndInv, [Next]_vars PROVE IndInv'
    OBVIOUS
  <2>1. CASE Next
    <3>1. TypeOK /\ Puts /\ Storing /\ OneHandlesFile /\ LandedIsWhole /\ Position
      BY DEF IndInv
    <3>2. TypeOK' /\ Position'
      BY <2>1, <3>1, TypeKept, ReaderKept
    <3>3. Puts' /\ Storing' /\ OneHandlesFile' /\ LandedIsWhole'
      BY <2>1, <3>1, PutsKept, StoringKept, OneHandleKept, LandedKept
    <3> QED BY <3>2, <3>3 DEF IndInv
  <2>2. CASE UNCHANGED vars
    BY <2>2
       DEF vars, writerVars, readerVars, IndInv, TypeOK, Puts, Storing, OneHandlesFile,
           LandedIsWhole, Position
  <2> QED BY <2>1, <2>2
<1> QED BY <1>1, <1>2, PTL DEF Spec

\* The type invariant of the handles: in particular no Seek leads below zero,
\* and a PUT sends none but the chunks of Write (file.go).
THEOREM TypeCorrect == Spec => []TypeOK
<1>1. IndInv => TypeOK
  BY DEF IndInv
<1> QED BY <1>1, Invariance, PTL

\* However many handles overlap and whatever breaks off, the file is what the
\* server held at the start or the beginning of what one handle's Writes
\* acknowledged: the server stores for one PUT at a time, from the start, in the
\* order of the pipe (client.go, OpenWrite).
THEOREM FileOfOneHandle == Spec => []OneHandlesFile
<1>1. IndInv => OneHandlesFile
  BY DEF IndInv
<1> QED BY <1>1, Invariance, PTL

\* A PUT carried out to its end stored all that Write acknowledged, for a handle
\* that was closed: the pipe ends nowhere else (client.go, OpenWrite; file.go, Close).
THEOREM LandedWhole == Spec => []LandedIsWhole
<1>1. IndInv => LandedIsWhole
  BY DEF IndInv
<1> QED BY <1>1, Invariance, PTL

\* A reader that nothing happens to, and that seeks before it reads and not to
\* the start, reads the rest of the file and is told io.EOF exactly at its end
\* (client/file.go, Read; setRange).
THEOREM ReadsPlainly == Spec => []PlainReads
<1>1. IndInv => PlainReads
  BY DEF IndInv, Position, PlainReads, RestOf
<1> QED BY <1>1, Invariance, PTL
=============================================================================
