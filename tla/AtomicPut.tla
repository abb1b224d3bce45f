------------------------------ MODULE AtomicPut ------------------------------
(***************************************************************************)
(* What writing a file through a FileSystem handle promises, with no pipe, *)
(* goroutine or channel in sight: bytes are accepted while the handle is   *)
(* open; once it is sealed by Close they are stored all together or not at *)
(* all; and Close answers "ok" only after they have been stored.  A        *)
(* creating handle may, once, put a placeholder before it is sealed.       *)
(***************************************************************************)
EXTENDS Integers, Sequences

CONSTANTS
  Handles,   \* the handles on the object
  Byte,      \* the values a byte takes
  Zero,      \* the byte of the placeholder
  Previous   \* what may be stored at the start

VARIABLES
  object,    \* the object readers see
  phase,     \* phase[h]: new, open, sealed, or the answer of Close
  data,      \* data[h]: the bytes accepted from h
  reserved,  \* reserved[h]: h has asked for its placeholder
  put        \* put[h]: the bytes of h have been stored

vars == <<object, phase, data, reserved, put>>

NoObject == [exists |-> FALSE, data |-> <<>>]
Object(d) == [exists |-> TRUE, data |-> d]
Placeholder == Object(<<Zero>>)

Init ==
  /\ object \in Previous
  /\ phase = [h \in Handles |-> "new"]
  /\ data = [h \in Handles |-> <<>>]
  /\ reserved = [h \in Handles |-> FALSE]
  /\ put = [h \in Handles |-> FALSE]

Open(h) ==
  /\ phase[h] = "new"
  /\ phase' = [phase EXCEPT ![h] = "open"]
  /\ UNCHANGED <<object, data, reserved, put>>

\* Accept more bytes: what was accepted before stays at the front.
Accept(h) ==
  /\ phase[h] = "open"
  /\ data' = [data EXCEPT ![h] = data'[h]]
  /\ data'[h] \in Seq(Byte)
  /\ Len(data[h]) <= Len(data'[h])
  /\ SubSeq(data'[h], 1, Len(data[h])) = data[h]
  /\ UNCHANGED <<object, phase, reserved, put>>

\* The placeholder may be put, or the request may fail.
Reserve(h) ==
  /\ phase[h] = "open" /\ ~reserved[h]
  /\ reserved' = [reserved EXCEPT ![h] = TRUE]
  /\ object' \in {object, Placeholder}
  /\ UNCHANGED <<phase, data, put>>

Seal(h) ==
  /\ phase[h] = "open"
  /\ phase' = [phase EXCEPT ![h] = "sealed"]
  /\ UNCHANGED <<object, data, reserved, put>>

\* The whole file appears at once, and once only.
Store(h) ==
  /\ phase[h] = "sealed" /\ ~put[h]
  /\ object' = Object(data[h])
  /\ put' = [put EXCEPT ![h] = TRUE]
  /\ UNCHANGED <<phase, data, reserved>>

AnswerOk(h) ==
  /\ phase[h] = "sealed" /\ put[h]
  /\ phase' = [phase EXCEPT ![h] = "ok"]
  /\ UNCHANGED <<object, data, reserved, put>>

AnswerErr(h) ==
  /\ phase[h] = "sealed"
  /\ phase' = [phase EXCEPT ![h] = "err"]
  /\ UNCHANGED <<object, data, reserved, put>>

\* A handle nothing was written to is closed without any effect.
CloseUnused(h) ==
  /\ phase[h] = "open" /\ data[h] = <<>> /\ ~reserved[h]
  /\ phase' = [phase EXCEPT ![h] = "ok"]
  /\ UNCHANGED <<object, data, reserved, put>>

Next ==
  \E h \in Handles :
    \/ Open(h) \/ Accept(h) \/ Reserve(h) \/ Seal(h) \/ Store(h)
    \/ AnswerOk(h) \/ AnswerErr(h) \/ CloseUnused(h)

Spec == Init /\ [][Next]_vars
=============================================================================
