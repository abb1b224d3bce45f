-------------------------------- MODULE CsiNode --------------------------------
(***************************************************************************)
(* The node service of the CSI driver (pkg/csidriver/server_node.go,       *)
(* mounter/mounter.go), the mount daemons it starts (cmd/unifs/mount.go)   *)
(* and the shutdown of its gRPC server (driver.go), for one target path.   *)
(*                                                                         *)
(* NodePublishVolume runs "unifs mount", which leaves a daemon behind and  *)
(* returns, and then polls the path until it is a mount point or the       *)
(* timeout is over; the daemon mounts when it gets to it.  A path may be   *)
(* mounted over, so the mounts of a path are a stack.  The mount of a      *)
(* daemon that died stays, and every stat of the path then fails.          *)
(*                                                                         *)
(* Calls of any number of callers overlap, any step of a daemon may fail,  *)
(* a daemon may be killed, and the server may shut down at any time.  A    *)
(* request that its argument checks refuse changes nothing and is left out.*)
(***************************************************************************)
EXTENDS Integers, Sequences, FiniteSets

CONSTANTS
  Callers,        \* whoever has a call under way: the kubelet and its retries
  Ticks,          \* timeout / interval of waitForMount
  MaxPublishes,   \* bound: calls of NodePublishVolume
  MaxUnpublishes, \* bound: calls of NodeUnpublishVolume
  MaxKills        \* bound: daemons that are killed

ASSUME CsiAssumption ==
  /\ Ticks \in Nat \ {0}
  /\ MaxPublishes \in Nat /\ MaxUnpublishes \in Nat /\ MaxKills \in Nat

Daemons == 1..MaxPublishes

VARIABLES
  pc,         \* pc[c]: where the call of c is; "idle" outside
  elapsed,    \* elapsed[c]: the intervals slept in waitForMount
  daemon,     \* daemon[d]: the d-th daemon
  mounts,     \* the daemons whose mounts are on the path, the last one on top
  publishes, unpublishes, kills,  \* calls and kills so far
  published,  \* the last call was a publish (history)
  tidy,       \* calls alternated, one by one, all were answered OK, no kill (history)
  shutdown,   \* Driver.Shutdown: no, waiting, returned
  graceful,   \* its goroutine: none, stopping, sending, ended
  stopped     \* ctx was done first: svc.Stop was called

callVars == <<pc, elapsed, publishes, unpublishes, published, tidy>>
serverVars == <<shutdown, graceful, stopped>>
vars == <<callVars, daemon, mounts, kills, serverVars>>

TypeOK ==
  /\ pc \in [Callers -> {"idle", "mkdir", "run", "wait", "stat", "umount"}]
  /\ elapsed \in [Callers -> 0..(Ticks - 1)]
  /\ daemon \in [Daemons -> {"none", "starting", "serving", "waiting", "dead", "failed"}]
  /\ mounts \in Seq(Daemons)
  /\ publishes \in 0..MaxPublishes /\ unpublishes \in 0..MaxUnpublishes
  /\ kills \in 0..MaxKills
  /\ published \in BOOLEAN /\ tidy \in BOOLEAN
  /\ shutdown \in {"no", "waiting", "returned"}
  /\ graceful \in {"none", "stopping", "sending", "ended"}
  /\ stopped \in BOOLEAN

Init ==
  /\ pc = [c \in Callers |-> "idle"]
  /\ elapsed = [c \in Callers |-> 0]
  /\ daemon = [d \in Daemons |-> "none"]
  /\ mounts = <<>>
  /\ publishes = 0 /\ unpublishes = 0 /\ kills = 0
  /\ published = FALSE /\ tidy = TRUE
  /\ shutdown = "no" /\ graceful = "none" /\ stopped = FALSE

Quiet == \A c \in Callers : pc[c] = "idle"

Top == mounts[Len(mounts)]

\* A stat of the path fails: the daemon of the mount on top is gone.
Unreachable == mounts # <<>> /\ daemon[Top] = "dead"

\* What IsLikelyNotMountPoint tells, where stat does not fail.
IsMountPoint == mounts # <<>> /\ ~Unreachable

\* A call of c goes on at p.
Goto(c, p) ==
  /\ pc' = [pc EXCEPT ![c] = p]
  /\ UNCHANGED <<publishes, unpublishes, published, tidy, kills, serverVars>>

\* The call of c is answered; an error makes the history untidy.
Answer(c, ok) ==
  /\ pc' = [pc EXCEPT ![c] = "idle"]
  /\ elapsed' = [elapsed EXCEPT ![c] = 0]
  /\ tidy' = (tidy /\ ok)
  /\ UNCHANGED <<publishes, unpublishes, published, kills, serverVars>>

-----------------------------------------------------------------------------
(* NodePublishVolume.                                                      *)

Publish(c) ==
  /\ shutdown = "no" /\ pc[c] = "idle" /\ publishes < MaxPublishes
  /\ pc' = [pc EXCEPT ![c] = "mkdir"]
  /\ publishes' = publishes + 1
  /\ published' = TRUE
  /\ tidy' = (tidy /\ Quiet /\ ~published)
  /\ UNCHANGED <<elapsed, unpublishes, daemon, mounts, kills, serverVars>>

\* os.MkdirAll of the path; it stats the path.
Mkdir(c) ==
  /\ pc[c] = "mkdir"
  /\ \/ ~Unreachable /\ Goto(c, "run") /\ UNCHANGED elapsed
     \/ Unreachable /\ Answer(c, FALSE)
  /\ UNCHANGED <<daemon, mounts>>

\* cmd.Run: "unifs mount" forks its daemon and returns, or fails.
Run(c, d) ==
  /\ pc[c] = "run" /\ daemon[d] = "none" /\ \A e \in 1..(d - 1) : daemon[e] # "none"
  /\ daemon' = [daemon EXCEPT ![d] = "starting"]
  /\ Goto(c, "wait")
  /\ UNCHANGED <<elapsed, mounts>>

RunFails(c) ==
  /\ pc[c] = "run"
  /\ Answer(c, FALSE)
  /\ UNCHANGED <<daemon, mounts>>

\* Mutant: waitForMount takes the negated answer of IsLikelyNotMountPoint.
MountedSwapped(c) ==
  /\ pc[c] = "wait" /\ mounts = <<>>
  /\ Answer(c, TRUE)
  /\ UNCHANGED <<daemon, mounts>>

\* waitForMount: the path is a mount point, whoever mounted it.
Mounted(c) ==
  /\ pc[c] = "wait" /\ IsMountPoint
  /\ Answer(c, TRUE)
  /\ UNCHANGED <<daemon, mounts>>

\* Mutant: the interval is not added to elapsed.
SleepUncounted(c) ==
  /\ pc[c] = "wait" /\ mounts = <<>> /\ elapsed[c] + 1 < Ticks
  /\ UNCHANGED vars

\* Mutant: the timeout is looked at before the interval is added.
SleepOnceMore(c) ==
  /\ pc[c] = "wait" /\ mounts = <<>> /\ elapsed[c] < Ticks
  /\ elapsed' = [elapsed EXCEPT ![c] = @ + 1]
  /\ Goto(c, "wait")
  /\ UNCHANGED <<daemon, mounts>>

\* It is not: sleep, and look again...
Sleep(c) ==
  /\ pc[c] = "wait" /\ mounts = <<>> /\ elapsed[c] + 1 < Ticks
  /\ elapsed' = [elapsed EXCEPT ![c] = @ + 1]
  /\ Goto(c, "wait")
  /\ UNCHANGED <<daemon, mounts>>

\* ...or give up, without another look, while the daemon goes on.
TimesOut(c) ==
  /\ pc[c] = "wait" /\ mounts = <<>> /\ elapsed[c] + 1 >= Ticks
  /\ Answer(c, FALSE)
  /\ UNCHANGED <<daemon, mounts>>

\* The stat of waitForMount fails.
WaitFails(c) ==
  /\ pc[c] = "wait" /\ Unreachable
  /\ Answer(c, FALSE)
  /\ UNCHANGED <<daemon, mounts>>

-----------------------------------------------------------------------------
(* NodeUnpublishVolume.                                                    *)

Unpublish(c) ==
  /\ shutdown = "no" /\ pc[c] = "idle" /\ unpublishes < MaxUnpublishes
  /\ pc' = [pc EXCEPT ![c] = "stat"]
  /\ unpublishes' = unpublishes + 1
  /\ published' = FALSE
  /\ tidy' = (tidy /\ Quiet)
  /\ UNCHANGED <<elapsed, publishes, daemon, mounts, kills, serverVars>>

\* FuseUnmount: an unreachable path is an error, no mount point is success.
Stat(c) ==
  /\ pc[c] = "stat"
  /\ \/ Unreachable /\ Answer(c, FALSE)
     \/ mounts = <<>> /\ Answer(c, TRUE)
     \/ IsMountPoint /\ Goto(c, "umount") /\ UNCHANGED elapsed
  /\ UNCHANGED <<daemon, mounts>>

\* Mutant: a lazy umount of all that is on the path, for one daemon.
UmountAll(c) ==
  /\ pc[c] = "umount" /\ mounts # <<>>
  /\ mounts' = <<>>
  /\ daemon' = [daemon EXCEPT ![Top] = IF @ = "serving" THEN "waiting" ELSE @]
  /\ Answer(c, TRUE)

\* umount takes the mount on top; its daemon stops serving but waits for a signal.
Umount(c) ==
  /\ pc[c] = "umount" /\ mounts # <<>>
  /\ mounts' = SubSeq(mounts, 1, Len(mounts) - 1)
  /\ daemon' = [daemon EXCEPT ![Top] = IF @ = "serving" THEN "waiting" ELSE @]
  /\ Answer(c, TRUE)

\* The path is busy, or no mount point any more.
UmountFails(c) ==
  /\ pc[c] = "umount"
  /\ Answer(c, FALSE)
  /\ UNCHANGED <<daemon, mounts>>

-----------------------------------------------------------------------------
(* The mount daemon.                                                       *)

\* MkdirAll, Init of the backend, and NewServer, which mounts.
DaemonMounts(d) ==
  /\ daemon[d] = "starting" /\ ~Unreachable
  /\ daemon' = [daemon EXCEPT ![d] = "serving"]
  /\ mounts' = Append(mounts, d)
  /\ UNCHANGED <<callVars, kills, serverVars>>

DaemonFails(d) ==
  /\ daemon[d] = "starting"
  /\ daemon' = [daemon EXCEPT ![d] = "failed"]
  /\ UNCHANGED <<callVars, mounts, kills, serverVars>>

\* The process is killed: its mount stays.
DaemonKilled(d) ==
  /\ daemon[d] = "serving" /\ kills < MaxKills
  /\ daemon' = [daemon EXCEPT ![d] = "dead"]
  /\ kills' = kills + 1 /\ tidy' = FALSE
  /\ UNCHANGED <<pc, elapsed, publishes, unpublishes, published, mounts, serverVars>>

-----------------------------------------------------------------------------
(* Driver.Shutdown.                                                        *)

Shutdown ==
  /\ shutdown = "no"
  /\ shutdown' = "waiting" /\ graceful' = "stopping"
  /\ UNCHANGED <<callVars, daemon, mounts, kills, stopped>>

\* Mutant: GracefulStop also waits for the mounts to go.
GracefulStopForMounts ==
  /\ graceful = "stopping" /\ ((Quiet /\ mounts = <<>>) \/ stopped)
  /\ graceful' = "sending"
  /\ UNCHANGED <<callVars, daemon, mounts, kills, shutdown, stopped>>

\* GracefulStop returns when no call is under way, or Stop was called.
GracefulStop ==
  /\ graceful = "stopping" /\ (Quiet \/ stopped)
  /\ graceful' = "sending"
  /\ UNCHANGED <<callVars, daemon, mounts, kills, shutdown, stopped>>

\* The unbuffered channel: done <- nil and <-done.
Done ==
  /\ shutdown = "waiting" /\ graceful = "sending"
  /\ shutdown' = "returned" /\ graceful' = "ended"
  /\ UNCHANGED <<callVars, daemon, mounts, kills, stopped>>

\* ctx is done first: Stop, and nobody receives from the channel any more.
CtxDone ==
  /\ shutdown = "waiting"
  /\ shutdown' = "returned" /\ stopped' = TRUE
  /\ UNCHANGED <<callVars, daemon, mounts, kills, graceful>>

-----------------------------------------------------------------------------
\* A step of the call of c.
CallStep(c) ==
  \/ Mkdir(c)
  \/ \E d \in Daemons : Run(c, d)
  \/ RunFails(c)
  \/ Mounted(c)
  \/ Sleep(c)
  \/ TimesOut(c)
  \/ WaitFails(c)
  \/ Stat(c)
  \/ Umount(c)
  \/ UmountFails(c)

Next ==
  \/ \E c \in Callers : Publish(c) \/ Unpublish(c) \/ CallStep(c)
  \/ \E d \in Daemons : DaemonMounts(d) \/ DaemonFails(d) \/ DaemonKilled(d)
  \/ Shutdown \/ GracefulStop \/ Done \/ CtxDone

Spec == Init /\ [][Next]_vars

\* A call goes on, and so does the goroutine of Shutdown.
Fairness ==
  /\ \A c \in Callers : WF_vars(CallStep(c))
  /\ WF_vars(GracefulStop) /\ WF_vars(Done)

FairSpec == Spec /\ Fairness

-----------------------------------------------------------------------------
(* What the node service promises.                                         *)

\* Calls that alternate, do not overlap and are all answered OK leave, between
\* them, exactly one served mount after a publish and none, now or later, after
\* an unpublish (mounter.go, Mount and FuseUnmount).
TidyCycle ==
  tidy /\ Quiet =>
    /\ published => Len(mounts) = 1 /\ daemon[Top] = "serving"
    /\ ~published => mounts = <<>> /\ \A d \in Daemons : daemon[d] # "starting"

\* However calls overlap, fail and are retried: the mounts of the path are those
\* of different daemons that serve them, unless a daemon was killed, and a daemon
\* that serves has its mount (FuseUnmount takes the one on top, once).
ServedMounts ==
  /\ \A i, j \in 1..Len(mounts) : mounts[i] = mounts[j] => i = j
  /\ \A d \in Daemons :
       daemon[d] = "serving" => \E i \in 1..Len(mounts) : mounts[i] = d
  /\ \A i \in 1..Len(mounts) : daemon[mounts[i]] \in {"serving", "dead"}
  /\ Cardinality({i \in 1..Len(mounts) : daemon[mounts[i]] = "dead"}) <= kills

\* Every call is answered: waitForMount gives up in the end.
CallsReturn == \A c \in Callers : pc[c] # "idle" ~> pc[c] = "idle"

\* Shutdown returns, with or without a deadline, since every call does, and its
\* goroutine ends, unless ctx was done first: then it stays at its send
\* (driver.go, Shutdown).
ShutdownEnds ==
  /\ shutdown = "waiting" ~> shutdown = "returned"
  /\ graceful = "stopping" ~> (graceful = "ended" \/ stopped)
=============================================================================
