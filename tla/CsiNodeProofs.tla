--------------------------- MODULE CsiNodeProofs ---------------------------
(***************************************************************************)
(* Proofs about CsiNode: what the node service promises, for any callers,  *)
(* any timeout and any number of calls and kills.                          *)
(***************************************************************************)
EXTENDS CsiNode, SequenceTheorems, FiniteSetTheorems, TLAPS

-----------------------------------------------------------------------------
(* The inductive invariant.                                                *)

\* The mounts are those of different daemons, which serve or are dead; a daemon
\* that serves has its mount.
Stack ==
  /\ \A i, j \in 1..Len(mounts) : mounts[i] = mounts[j] => i = j
  /\ \A d \in Daemons :
       daemon[d] = "serving" => \E i \in 1..Len(mounts) : mounts[i] = d
  /\ \A i \in 1..Len(mounts) : daemon[mounts[i]] \in {"serving", "dead"}

\* A daemon is dead only when it was killed.
Dead == {d \in Daemons : daemon[d] = "dead"}
Killed == Cardinality(Dead) <= kills

\* Nothing is mounted or will be, and: one mount is served and no other will be.
Clear == mounts = <<>> /\ \A d \in Daemons : daemon[d] # "starting"
One ==
  /\ Len(mounts) = 1 /\ daemon[mounts[1]] = "serving"
  /\ \A d \in Daemons : daemon[d] # "starting"

\* Nothing is mounted yet, and at most one daemon is about to.
Pending ==
  /\ mounts = <<>>
  /\ \A d, e \in Daemons : daemon[d] = "starting" /\ daemon[e] = "starting" => d = e

\* In a tidy history nobody is killed, there is one call at a time, and the path
\* is as that call, or the last one, has found or made it.
Tidy ==
  tidy =>
    /\ \A d \in Daemons : daemon[d] # "dead"
    /\ \A b, c \in Callers : pc[b] # "idle" /\ pc[c] # "idle" => b = c
    /\ \A c \in Callers :
         /\ pc[c] \in {"mkdir", "run"} => published /\ Clear
         /\ pc[c] = "wait" => published /\ (One \/ Pending)
         /\ pc[c] = "stat" => ~published /\ (One \/ Clear)
         /\ pc[c] = "umount" => ~published /\ One
    /\ Quiet => IF published THEN One ELSE Clear

IndInv == TypeOK /\ Stack /\ Killed /\ Tidy

-----------------------------------------------------------------------------
(* The steps keep the invariant.                                          *)

\* The mount on top, and what umount leaves.
LEMMA TopOff ==
  ASSUME TypeOK, mounts # <<>>
  PROVE  LET n == Len(mounts)
             rest == SubSeq(mounts, 1, n - 1)
         IN  /\ n \in Nat \ {0} /\ Top = mounts[n] /\ Top \in Daemons
             /\ rest \in Seq(Daemons) /\ Len(rest) = n - 1
             /\ \A i \in 1..n - 1 : rest[i] = mounts[i]
<1> DEFINE n == Len(mounts)
           rest == SubSeq(mounts, 1, n - 1)
<1>1. mounts \in Seq(Daemons) /\ n \in Nat \ {0}
  BY EmptySeq DEF TypeOK
<1>2. Top = mounts[n] /\ Top \in Daemons
  BY <1>1 DEF Top
<1>3. rest \in Seq(Daemons) /\ Len(rest) = n - 1
  BY <1>1
<1>4. \A i \in 1..n - 1 : rest[i] = mounts[i]
  BY <1>1
<1> QED BY <1>1, <1>2, <1>3, <1>4

\* A daemon that mounts is on top.
LEMMA TopOn ==
  ASSUME TypeOK, NEW d \in Daemons
  PROVE  LET n == Len(mounts)
             more == Append(mounts, d)
         IN  /\ n \in Nat
             /\ more \in Seq(Daemons) /\ Len(more) = n + 1 /\ more[n + 1] = d
             /\ \A i \in 1..n : more[i] = mounts[i]
BY DEF TypeOK

\* Types are kept.
LEMMA TypeKept ==
  ASSUME TypeOK, Next
  PROVE  TypeOK'
<1> USE DEF TypeOK
<1>0. CsiAssumption
  BY CsiAssumption
<1>1. ASSUME NEW c \in Callers, Publish(c) \/ Unpublish(c) \/ CallStep(c)
      PROVE  TypeOK'
  <2>1. CASE Publish(c)
    BY <1>0, <2>1 DEF Publish, serverVars
  <2>2. CASE Unpublish(c)
    <3>1. unpublishes' \in 0..MaxUnpublishes /\ tidy' \in BOOLEAN
      BY <1>0, <2>2 DEF Unpublish, Quiet
    <3> QED BY <3>1, <2>2 DEF Unpublish, serverVars
  <2>3. CASE Mkdir(c)
    <3>1. CASE Goto(c, "run") /\ UNCHANGED elapsed
      BY <3>1, <2>3 DEF Mkdir, Goto, serverVars
    <3>2. CASE Answer(c, FALSE)
      BY <1>0, <3>2, <2>3 DEF Mkdir, Answer, serverVars
    <3> QED BY <3>1, <3>2, <2>3 DEF Mkdir
  <2>4. CASE \E d \in Daemons : Run(c, d)
    BY <1>0, <2>4 DEF Run, Goto, serverVars
  <2>5. CASE RunFails(c)
    BY <1>0, <2>5 DEF RunFails, Answer, serverVars
  <2>6. CASE Mounted(c)
    BY <1>0, <2>6 DEF Mounted, Answer, serverVars
  <2>7. CASE Sleep(c)
    BY <1>0, <2>7 DEF Sleep, Goto, serverVars
  <2>8. CASE TimesOut(c)
    BY <1>0, <2>8 DEF TimesOut, Answer, serverVars
  <2>9. CASE WaitFails(c)
    BY <1>0, <2>9 DEF WaitFails, Answer, serverVars
  <2>10. CASE Stat(c)
    <3>1. CASE Goto(c, "umount") /\ UNCHANGED elapsed
      BY <3>1, <2>10 DEF Stat, Goto, serverVars
    <3>2. CASE \E ok \in BOOLEAN : Answer(c, ok)
      BY <1>0, <3>2, <2>10 DEF Stat, Answer, serverVars
    <3> QED BY <3>1, <3>2, <2>10 DEF Stat
  <2>11. CASE Umount(c)
    BY <1>0, <2>11, TopOff DEF Umount, Answer, serverVars
  <2>12. CASE UmountFails(c)
    BY <1>0, <2>12 DEF UmountFails, Answer, serverVars
  <2> QED BY <1>1, <2>1, <2>2, <2>3, <2>4, <2>5, <2>6, <2>7, <2>8, <2>9, <2>10, <2>11, <2>12
             DEF CallStep
<1>2. ASSUME NEW d \in Daemons, DaemonMounts(d) \/ DaemonFails(d) \/ DaemonKilled(d)
      PROVE  TypeOK'
  <2>1. CASE DaemonMounts(d)
    BY <1>0, <2>1, TopOn DEF DaemonMounts, callVars, serverVars
  <2>2. CASE DaemonFails(d)
    BY <1>0, <2>2 DEF DaemonFails, callVars, serverVars
  <2>3. CASE DaemonKilled(d)
    <3>1. kills' \in 0..MaxKills
      BY <1>0, <2>3 DEF DaemonKilled
    <3> QED BY <3>1, <2>3 DEF DaemonKilled, serverVars
  <2> QED BY <1>2, <2>1, <2>2, <2>3
<1>3. CASE Shutdown \/ GracefulStop \/ Done \/ CtxDone
  BY <1>0, <1>3 DEF Shutdown, GracefulStop, Done, CtxDone, callVars
<1> QED BY <1>1, <1>2, <1>3 DEF Next

\* Umount takes the mount on top, a daemon mounts once, and a dead one keeps its mount.
LEMMA StackKept ==
  ASSUME TypeOK, Stack, Next
  PROVE  Stack'
<1> USE DEF Stack
<1>0. /\ daemon \in [Daemons -> {"none", "starting", "serving", "waiting", "dead", "failed"}]
      /\ mounts \in Seq(Daemons)
  BY DEF TypeOK
<1>1. ASSUME NEW c \in Callers, Publish(c) \/ Unpublish(c) \/ CallStep(c)
      PROVE  Stack'
  <2>1. CASE Publish(c)
    BY <1>0, <2>1 DEF Publish
  <2>2. CASE Unpublish(c)
    BY <1>0, <2>2 DEF Unpublish
  <2>3. CASE Mkdir(c)
    BY <1>0, <2>3 DEF Mkdir, Goto, Answer
  <2>4. CASE \E d \in Daemons : Run(c, d)
    BY <1>0, <2>4 DEF Run, Goto
  <2>5. CASE RunFails(c)
    BY <1>0, <2>5 DEF RunFails, Answer
  <2>6. CASE Mounted(c)
    BY <1>0, <2>6 DEF Mounted, Answer
  <2>7. CASE Sleep(c)
    BY <1>0, <2>7 DEF Sleep, Goto
  <2>8. CASE TimesOut(c)
    BY <1>0, <2>8 DEF TimesOut, Answer
  <2>9. CASE WaitFails(c)
    BY <1>0, <2>9 DEF WaitFails, Answer
  <2>10. CASE Stat(c)
    BY <1>0, <2>10 DEF Stat, Goto, Answer
  <2>11. CASE Umount(c)
    <3> DEFINE n == Len(mounts)
    <3>1. /\ n \in Nat \ {0} /\ Top = mounts[n] /\ Top \in Daemons /\ Len(mounts') = n - 1
          /\ \A i \in 1..n - 1 : mounts'[i] = mounts[i]
      BY <2>11, TopOff DEF Umount
    <3>2. daemon' = [daemon EXCEPT ![Top] = IF @ = "serving" THEN "waiting" ELSE @]
      BY <2>11 DEF Umount
    <3>3. \A i \in 1..n - 1 : i \in 1..n /\ mounts[i] # Top
      BY <3>1
    <3>4. \A i, j \in 1..n - 1 : mounts'[i] = mounts'[j] => i = j
      BY <3>1, <3>3
    <3>5. \A e \in Daemons : daemon'[e] = "serving" => \E i \in 1..n - 1 : mounts'[i] = e
      <4> SUFFICES ASSUME NEW e \in Daemons, daemon'[e] = "serving"
                   PROVE  \E i \in 1..n - 1 : mounts'[i] = e
        OBVIOUS
      <4>1. e # Top /\ daemon[e] = "serving"
        BY <1>0, <3>1, <3>2
      <4>2. PICK i \in 1..n : mounts[i] = e
        BY <4>1
      <4>3. i # n
        BY <3>1, <4>1, <4>2
      <4>4. i \in 1..n - 1 /\ mounts'[i] = e
        BY <3>1, <4>2, <4>3
      <4> QED BY <4>4
    <3>6. \A i \in 1..n - 1 : daemon'[mounts'[i]] \in {"serving", "dead"}
      <4> SUFFICES ASSUME NEW i \in 1..n - 1 PROVE daemon'[mounts'[i]] \in {"serving", "dead"}
        OBVIOUS
      <4>1. mounts'[i] = mounts[i] /\ mounts[i] # Top /\ mounts[i] \in Daemons
        BY <1>0, <3>1, <3>3
      <4>2. daemon'[mounts[i]] = daemon[mounts[i]]
        BY <1>0, <3>2, <4>1
      <4> QED BY <3>3, <4>1, <4>2
    <3> QED BY <3>1, <3>4, <3>5, <3>6
  <2>12. CASE UmountFails(c)
    BY <1>0, <2>12 DEF UmountFails, Answer
  <2> QED BY <1>1, <2>1, <2>2, <2>3, <2>4, <2>5, <2>6, <2>7, <2>8, <2>9, <2>10, <2>11, <2>12
             DEF CallStep
<1>2. ASSUME NEW d \in Daemons, DaemonMounts(d) \/ DaemonFails(d) \/ DaemonKilled(d)
      PROVE  Stack'
  <2>1. CASE DaemonMounts(d)
    <3> DEFINE n == Len(mounts)
    <3>1. /\ n \in Nat /\ Len(mounts') = n + 1 /\ mounts'[n + 1] = d
          /\ \A i \in 1..n : mounts'[i] = mounts[i]
      BY <2>1, TopOn DEF DaemonMounts
    <3>2. daemon[d] = "starting" /\ daemon' = [daemon EXCEPT ![d] = "serving"]
      BY <2>1 DEF DaemonMounts
    <3>3. \A i \in 1..n : mounts[i] # d /\ mounts[i] \in Daemons
      BY <1>0, <3>2
    <3>4. \A i, j \in 1..n + 1 : mounts'[i] = mounts'[j] => i = j
      <4>1. \A i \in 1..n + 1 : i \in 1..n \/ i = n + 1
        BY <3>1
      <4> QED BY <3>1, <3>3, <4>1
    <3>5. \A e \in Daemons : daemon'[e] = "serving" => \E i \in 1..n + 1 : mounts'[i] = e
      <4> SUFFICES ASSUME NEW e \in Daemons, daemon'[e] = "serving"
                   PROVE  \E i \in 1..n + 1 : mounts'[i] = e
        OBVIOUS
      <4>1. CASE e = d
        BY <3>1, <4>1
      <4>2. CASE e # d
        <5>1. daemon[e] = "serving"
          BY <1>0, <3>2, <4>2
        <5>2. PICK i \in 1..n : mounts[i] = e
          BY <5>1
        <5>3. i \in 1..n + 1 /\ mounts'[i] = e
          BY <3>1, <5>2
        <5> QED BY <5>3
      <4> QED BY <4>1, <4>2
    <3>6. \A i \in 1..n + 1 : daemon'[mounts'[i]] \in {"serving", "dead"}
      <4>1. \A i \in 1..n + 1 : i \in 1..n \/ i = n + 1
        BY <3>1
      <4>2. \A i \in 1..n : daemon'[mounts'[i]] = daemon[mounts[i]]
        BY <1>0, <3>1, <3>2, <3>3
      <4>3. daemon'[mounts'[n + 1]] = "serving"
        BY <1>0, <3>1, <3>2
      <4> QED BY <4>1, <4>2, <4>3
    <3> QED BY <3>1, <3>4, <3>5, <3>6
  <2>2. CASE DaemonFails(d)
    BY <1>0, <2>2 DEF DaemonFails, callVars
  <2>3. CASE DaemonKilled(d)
    BY <1>0, <2>3 DEF DaemonKilled
  <2> QED BY <1>2, <2>1, <2>2, <2>3
<1>3. CASE Shutdown \/ GracefulStop \/ Done \/ CtxDone
  BY <1>0, <1>3 DEF Shutdown, GracefulStop, Done, CtxDone, callVars
<1> QED BY <1>1, <1>2, <1>3 DEF Next

\* One more daemon is dead only when one more was killed.
LEMMA KilledKept ==
  ASSUME TypeOK, Killed, Next
  PROVE  Killed'
<1>0. /\ daemon \in [Daemons -> {"none", "starting", "serving", "waiting", "dead", "failed"}]
      /\ mounts \in Seq(Daemons) /\ kills \in Nat
  BY CsiAssumption DEF TypeOK
<1>1. IsFiniteSet(Dead)
  <2>1. IsFiniteSet(Daemons)
    BY CsiAssumption, FS_Interval DEF Daemons
  <2> QED BY <2>1, FS_Subset DEF Dead
<1>2. ASSUME Dead' = Dead, kills' = kills
      PROVE  Killed'
  BY <1>2 DEF Killed
<1>3. ASSUME NEW c \in Callers, Publish(c) \/ Unpublish(c) \/ CallStep(c)
      PROVE  Killed'
  <2>1. CASE Umount(c)
    <3>1. mounts # <<>> /\ kills' = kills
          /\ daemon' = [daemon EXCEPT ![Top] = IF @ = "serving" THEN "waiting" ELSE @]
      BY <2>1 DEF Umount, Answer
    <3>2. \A d \in Daemons : daemon'[d] = "dead" <=> daemon[d] = "dead"
      BY <1>0, <3>1, TopOff
    <3> QED BY <1>2, <3>1, <3>2 DEF Dead
  <2>2. CASE \E d \in Daemons : Run(c, d)
    <3> PICK d \in Daemons : Run(c, d)
      BY <2>2
    <3>1. \A e \in Daemons : daemon'[e] = "dead" <=> daemon[e] = "dead"
      BY <1>0 DEF Run
    <3> QED BY <1>2, <3>1 DEF Dead, Run, Goto
  <2>3. CASE ~Umount(c) /\ ~(\E d \in Daemons : Run(c, d))
    <3>1. daemon' = daemon /\ kills' = kills
      BY <1>3, <2>3
         DEF CallStep, Publish, Unpublish, Mkdir, RunFails, Mounted, Sleep, TimesOut, WaitFails,
             Stat, UmountFails, Goto, Answer
    <3> QED BY <1>2, <3>1 DEF Dead
  <2> QED BY <2>1, <2>2, <2>3
<1>4. ASSUME NEW d \in Daemons, DaemonMounts(d) \/ DaemonFails(d)
      PROVE  Killed'
  <2>1. \A e \in Daemons : daemon'[e] = "dead" <=> daemon[e] = "dead"
    BY <1>0, <1>4 DEF DaemonMounts, DaemonFails
  <2> QED BY <1>2, <1>4, <2>1 DEF Dead, DaemonMounts, DaemonFails
<1>5. ASSUME NEW d \in Daemons, DaemonKilled(d)
      PROVE  Killed'
  <2>1. daemon' = [daemon EXCEPT ![d] = "dead"] /\ kills' = kills + 1
    BY <1>5 DEF DaemonKilled
  <2>2. \A e \in Daemons : daemon'[e] = "dead" <=> daemon[e] = "dead" \/ e = d
    BY <1>0, <2>1
  <2>3. Dead' = Dead \cup {d}
    BY <2>2 DEF Dead
  <2>4. Cardinality(Dead) \in Nat /\ Cardinality(Dead') \in {Cardinality(Dead), Cardinality(Dead) + 1}
    BY <1>1, <2>3, FS_AddElement, FS_CardinalityType
  <2> QED BY <1>0, <2>1, <2>4 DEF Killed
<1>6. CASE Shutdown \/ GracefulStop \/ Done \/ CtxDone
  BY <1>2, <1>6 DEF Shutdown, GracefulStop, Done, CtxDone, Dead
<1> QED BY <1>3, <1>4, <1>5, <1>6 DEF Next

\* A tidy history stays so only while each call finds what it should.
LEMMA TidyKept ==
  ASSUME TypeOK, Tidy, Next
  PROVE  Tidy'
<1> USE DEF Tidy
<1>0. /\ daemon \in [Daemons -> {"none", "starting", "serving", "waiting", "dead", "failed"}]
      /\ mounts \in Seq(Daemons)
      /\ pc \in [Callers -> {"idle", "mkdir", "run", "wait", "stat", "umount"}]
      /\ published \in BOOLEAN /\ tidy \in BOOLEAN
  BY DEF TypeOK
<1>1. ASSUME NEW c \in Callers, Publish(c) \/ Unpublish(c) \/ CallStep(c)
      PROVE  Tidy'
  <2>1. CASE Publish(c)
    BY <1>0, <2>1 DEF Publish, Clear, One, Pending, Quiet
  <2>2. CASE Unpublish(c)
    BY <1>0, <2>2 DEF Unpublish, Clear, One, Pending, Quiet
  <2>3. CASE Mkdir(c)
    BY <1>0, <2>3, ZenonT(40) DEF Mkdir, Goto, Answer, Clear, One, Pending, Quiet
  <2>4. CASE \E d \in Daemons : Run(c, d)
    BY <1>0, <2>4 DEF Run, Goto, Clear, One, Pending, Quiet
  <2>5. CASE RunFails(c)
    BY <1>0, <2>5 DEF RunFails, Answer, Clear, One, Pending, Quiet
  <2>6. CASE Mounted(c)
    BY <1>0, <2>6, ZenonT(40) DEF Mounted, Answer, Clear, One, Pending, Quiet, IsMountPoint, Unreachable
  <2>7. CASE Sleep(c)
    BY <1>0, <2>7 DEF Sleep, Goto, Clear, One, Pending, Quiet
  <2>8. CASE TimesOut(c)
    BY <1>0, <2>8 DEF TimesOut, Answer, Clear, One, Pending, Quiet
  <2>9. CASE WaitFails(c)
    BY <1>0, <2>9 DEF WaitFails, Answer, Clear, One, Pending, Quiet, IsMountPoint, Unreachable
  <2>10. CASE Stat(c)
    <3>1. CASE Goto(c, "umount")
      <4>1. mounts # <<>> /\ UNCHANGED <<daemon, mounts>>
        BY <1>0, <3>1, <2>10 DEF Stat, Goto, Answer, IsMountPoint
      <4> QED BY <1>0, <3>1, <4>1, <2>10 DEF Stat, Goto, Clear, One, Pending, Quiet
    <3>2. CASE Answer(c, FALSE)
      BY <3>2 DEF Answer
    <3>3. CASE mounts = <<>> /\ Answer(c, TRUE)
      <4>1. ~One
        BY <3>3 DEF One
      <4> QED BY <1>0, <3>3, <4>1, <2>10 DEF Stat, Answer, Clear, One, Pending, Quiet
    <3> QED BY <3>1, <3>2, <3>3, <2>10 DEF Stat
  <2>11. CASE Umount(c)
    <3> SUFFICES ASSUME tidy, tidy' PROVE Tidy'
      BY <2>11 DEF Umount, Answer
    <3>1. pc[c] = "umount" /\ mounts # <<>> /\ One /\ ~published
      BY <2>11 DEF Umount
    <3>2. Len(mounts') = 0 /\ mounts' \in Seq(Daemons) /\ Top \in Daemons
      BY <3>1, <2>11, TopOff DEF Umount, One
    <3>3. mounts' = <<>>
      BY <3>2, EmptySeq
    <3>4. \A d \in Daemons : daemon'[d] # "dead" /\ daemon'[d] # "starting"
      BY <1>0, <3>1, <3>2, <2>11 DEF Umount, One
    <3>5. Clear' /\ published' = published
      BY <3>3, <3>4, <2>11 DEF Clear, Umount, Answer
    <3>6. \A b \in Callers : pc'[b] = "idle"
      BY <1>0, <3>1, <2>11 DEF Umount, Answer
    <3> QED BY <3>1, <3>4, <3>5, <3>6 DEF Quiet
  <2>12. CASE UmountFails(c)
    BY <1>0, <2>12 DEF UmountFails, Answer, Clear, One, Pending, Quiet
  <2> QED BY <1>1, <2>1, <2>2, <2>3, <2>4, <2>5, <2>6, <2>7, <2>8, <2>9, <2>10, <2>11, <2>12
             DEF CallStep
<1>2. ASSUME NEW d \in Daemons, DaemonMounts(d) \/ DaemonFails(d) \/ DaemonKilled(d)
      PROVE  Tidy'
  <2>1. CASE DaemonMounts(d)
    BY <1>0, <2>1 DEF DaemonMounts, callVars, Clear, One, Pending, Quiet
  <2>2. CASE DaemonFails(d)
    BY <1>0, <2>2 DEF DaemonFails, callVars, Clear, One, Pending, Quiet
  <2>3. CASE DaemonKilled(d)
    BY <1>0, <2>3 DEF DaemonKilled, Clear, One, Pending, Quiet
  <2> QED BY <1>2, <2>1, <2>2, <2>3
<1>3. CASE Shutdown \/ GracefulStop \/ Done \/ CtxDone
  <2>1. UNCHANGED <<pc, published, tidy, daemon, mounts>>
    BY <1>3 DEF Shutdown, GracefulStop, Done, CtxDone, callVars
  <2> QED BY <2>1 DEF Clear, One, Pending, Quiet
<1> QED BY <1>1, <1>2, <1>3 DEF Next

-----------------------------------------------------------------------------
(* What the node service promises.                                         *)

\* The invariant holds before the first call.
LEMMA InitIndInv == Init => IndInv
<1> SUFFICES ASSUME Init PROVE IndInv
  OBVIOUS
<1>1. TypeOK
  <2>1. 0 \in 0..Ticks - 1 /\ 0 \in 0..MaxPublishes /\ 0 \in 0..MaxUnpublishes /\ 0 \in 0..MaxKills
    BY CsiAssumption
  <2>2. <<>> \in Seq(Daemons)
    OBVIOUS
  <2> QED BY <2>1, <2>2 DEF Init, TypeOK
<1>2. Stack
  BY DEF Init, Stack
<1>3. Killed
  <2>1. Dead = {}
    BY DEF Init, Dead
  <2> QED BY <2>1, FS_EmptySet DEF Init, Killed
<1>4. Tidy
  BY DEF Init, Tidy, Clear
<1> QED BY <1>1, <1>2, <1>3, <1>4 DEF IndInv

\* It holds in every state, however calls overlap.
LEMMA Invariance == Spec => []IndInv
<1>1. Init => IndInv
  BY InitIndInv
<1>2. IndInv /\ [Next]_vars => IndInv'
  <2> SUFFICES ASSUME IndInv, [Next]_vars PROVE IndInv'
    OBVIOUS
  <2>1. CASE Next
    BY <2>1, TypeKept, StackKept, KilledKept, TidyKept DEF IndInv
  <2>2. CASE UNCHANGED vars
    BY <2>2
       DEF vars, callVars, serverVars, IndInv, TypeOK, Stack, Killed, Dead, Tidy, Clear, One,
           Pending, Quiet
  <2> QED BY <2>1, <2>2
<1> QED BY <1>1, <1>2, PTL DEF Spec

\* The type invariant of the node service: in particular no call sleeps past its
\* timeout (mounter.go, waitForMount).
THEOREM TypeCorrect == Spec => []TypeOK
<1>1. IndInv => TypeOK
  BY DEF IndInv
<1> QED BY <1>1, Invariance, PTL

\* Calls that alternate, one by one, and are all answered OK leave one served
\* mount after a publish, and none, now or later, after an unpublish: a publish
\* starts one daemon, is answered OK when that one has mounted, and an unpublish
\* takes that mount (mounter.go, Mount and FuseUnmount).
THEOREM TidyCycles == Spec => []TidyCycle
<1>1. IndInv => TidyCycle
  <2> SUFFICES ASSUME IndInv, tidy, Quiet
               PROVE  /\ published => Len(mounts) = 1 /\ daemon[Top] = "serving"
                      /\ ~published => mounts = <<>> /\ \A d \in Daemons : daemon[d] # "starting"
    BY DEF TidyCycle
  <2>1. IF published THEN One ELSE Clear
    BY DEF IndInv, Tidy
  <2> QED BY <2>1 DEF One, Clear, Top
<1> QED BY <1>1, Invariance, PTL

\* However calls overlap, fail and are retried, the mounts are those of different
\* daemons that serve them, but for as many as were killed, and a daemon that
\* serves has its mount (mounter.go; cmd/unifs/mount.go).
THEOREM MountsServed == Spec => []ServedMounts
<1>1. IndInv => ServedMounts
  <2> SUFFICES ASSUME IndInv PROVE ServedMounts
    OBVIOUS
  <2> DEFINE I == {i \in 1..Len(mounts) : daemon[mounts[i]] = "dead"}
             f == [i \in I |-> mounts[i]]
  <2>1. mounts \in Seq(Daemons) /\ Stack /\ Killed /\ kills \in Nat
    BY CsiAssumption DEF IndInv, TypeOK
  <2>2. IsFiniteSet(Daemons) /\ IsFiniteSet(Dead)
    <3>1. IsFiniteSet(Daemons)
      BY CsiAssumption, FS_Interval DEF Daemons
    <3> QED BY <3>1, FS_Subset DEF Dead
  <2>3. f \in Injection(I, Dead)
    <3>1. \A i \in I : mounts[i] \in Dead
      BY <2>1 DEF Dead
    <3>2. \A i, j \in I : f[i] = f[j] => i = j
      BY <2>1 DEF Stack
    <3>3. f \in [I -> Dead]
      BY <3>1
    <3> QED BY <3>2, <3>3 DEF Injection, IsInjective
  <2> HIDE DEF I, f
  <2>4. Cardinality(I) <= Cardinality(Dead) /\ Cardinality(I) \in Nat /\ Cardinality(Dead) \in Nat
    BY <2>2, <2>3, FS_Injection, FS_CardinalityType
  <2>5. Cardinality(I) <= kills
    BY <2>1, <2>4 DEF Killed
  <2> QED BY <2>1, <2>5 DEF Stack, ServedMounts, I
<1> QED BY <1>1, Invariance, PTL
=============================================================================
