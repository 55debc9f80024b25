----------------------------- MODULE SelfUpdate -----------------------------
(***************************************************************************)
(* Updates of the Docker installation: the page that asks for one, the     *)
(* loop of cmd/postizer/main.go that runs scripts/docker-self-update.sh,   *)
(* by timer or on request, and scripts/docker-entrypoint.sh, which starts  *)
(* the server of the release that runtime/current leads to.  The runtime   *)
(* directory is a volume: it outlives the container, lock included.        *)
(*                                                                         *)
(* AskAnyway, KeepsPending, ResetsNot, FailsQuietly and SwitchesFirst are  *)
(* not the code: they are mutants the properties must catch.               *)
(***************************************************************************)
EXTENDS Naturals

CONSTANTS
    Versions,   \* release numbers, in order
    Image,      \* the release in the Docker image
    MaxFaults   \* bound on failures, timeouts and stops of the container

ASSUME VersionsAssumption == Versions \subseteq Nat \ {0}
ASSUME ImageAssumption == Image \in Versions
ASSUME MaxFaultsAssumption == MaxFaults \in Nat

None == 0       \* no version

VARIABLES
    published,  \* the newest GitHub release
    auto,       \* settings.AutoUpdate.Enabled
    release,    \* runtime/releases/{version}: "absent", "part", "seems"
                \* (part, with all that the script looks for) or "whole"
    spoiled,    \* the versions of which mv has left part, by an error
    current,    \* where the link runtime/current leads
    lock,       \* runtime/.self-update.lock is there
    running,    \* the release the server runs, None while it is down
    pending,    \* updatePending
    sending,    \* what a handler is about to send to updateRequests
    requests,   \* what is in updateRequests, a channel of capacity 1
    timer,      \* the timer of the loop: "set", "fired", or "received"
    pc,         \* where the loop is, and the script when it runs one
    manual, target, code,   \* the run: on request?, version, exit code
    log,        \* whether the run has written a failure to the update log
    faults

world   == <<published, auto>>
runtime == <<release, spoiled, current>>
asking  == <<pending, sending, requests>>
vars    == <<world, runtime, lock, running, asking, timer,
             pc, manual, target, code, log, faults>>

Optional == Versions \cup {None}
Holding  == {"resolve", "compare", "clear", "move", "moving", "unlink", "link",
             "unlock"}
PCs      == {"select", "lock", "exit"} \cup Holding

TypeOK ==
    /\ published \in Versions /\ auto \in BOOLEAN
    /\ release \in [Versions -> {"absent", "part", "seems", "whole"}]
    /\ spoiled \subseteq Versions
    /\ current \in Optional
    /\ lock \in BOOLEAN
    /\ running \in Optional
    /\ pending \in BOOLEAN /\ sending \in Optional /\ requests \in Optional
    /\ timer \in {"set", "fired", "received"}
    /\ pc \in PCs
    /\ manual \in BOOLEAN /\ target \in Optional /\ code \in {0, 1, 42}
    /\ log \in {"nothing", "failed"}
    /\ faults \in 0..MaxFaults
    /\ pc # "select" => running # None
    /\ pc \in Holding => lock
    /\ pc \in Holding \ {"resolve", "unlock"} => target # None

(* A new volume, before the container starts.                              *)
Init ==
    /\ published \in Versions /\ auto \in BOOLEAN
    /\ release = [v \in Versions |-> "absent"]
    /\ spoiled = {}
    /\ current = None
    /\ lock = FALSE
    /\ running = None
    /\ pending = FALSE /\ sending = None /\ requests = None
    /\ timer = "set"
    /\ pc = "select"
    /\ manual = FALSE /\ target = None /\ code = 0
    /\ log = "nothing"
    /\ faults = 0

-----------------------------------------------------------------------------
(* Around the server.                                                      *)

Publish ==
    /\ \E v \in Versions : v > published /\ published' = v
    /\ UNCHANGED <<auto, runtime, lock, running, asking, timer,
                   pc, manual, target, code, log, faults>>

(* updateAutoUpdateSettings *)
SetAuto ==
    /\ running # None
    /\ auto' = ~auto
    /\ UNCHANGED <<published, runtime, lock, running, asking, timer,
                   pc, manual, target, code, log, faults>>

Fault == faults < MaxFaults /\ faults' = faults + 1

(* The process ends: what is in memory is gone, a script it ran is killed. *)
Ends ==
    /\ running' = None
    /\ pending' = FALSE /\ sending' = None /\ requests' = None
    /\ timer' = "set"
    /\ pc' = "select"
    /\ manual' = FALSE /\ target' = None /\ code' = 0
    /\ log' = "nothing"

(* The container is stopped or dies.                                       *)
Crash ==
    /\ running # None
    /\ Fault
    /\ Ends
    /\ UNCHANGED <<world, runtime, lock>>

(* Whether there is a binary to run; in part of a release there may be.    *)
Runs(v)  == v # None /\ release[v] \in {"part", "seems", "whole"}
Lacks(v) == ~(v # None /\ release[v] \in {"seems", "whole"})

(* docker-entrypoint.sh starts what is current, or first seeds the runtime *)
(* from the image.                                                         *)
StartCurrent ==
    /\ running = None
    /\ Runs(current)
    /\ running' = current
    /\ UNCHANGED <<world, runtime, lock, asking, timer,
                   pc, manual, target, code, log, faults>>

Seed ==
    /\ running = None
    /\ Lacks(current)
    /\ release' = [release EXCEPT ![Image] = "whole"]
    /\ spoiled' = spoiled \ {Image}
    /\ current' = Image
    /\ running' = Image
    /\ UNCHANGED <<world, lock, asking, timer,
                   pc, manual, target, code, log, faults>>

-----------------------------------------------------------------------------
(* A request.  The page offers the release it has found; the handler       *)
(* refuses one that is not newer, or a second one.                         *)
AskAnyway(v) ==
    /\ running # None /\ sending = None
    /\ v <= published /\ v > running
    /\ pending' = TRUE
    /\ sending' = v
    /\ UNCHANGED <<world, runtime, lock, running, requests, timer,
                   pc, manual, target, code, log, faults>>

Ask(v) ==
    /\ running # None /\ ~pending
    /\ v <= published /\ v > running
    /\ pending' = TRUE
    /\ sending' = v
    /\ UNCHANGED <<world, runtime, lock, running, requests, timer,
                   pc, manual, target, code, log, faults>>

Send ==
    /\ sending # None
    /\ requests = None
    /\ requests' = sending
    /\ sending' = None
    /\ UNCHANGED <<world, runtime, lock, running, pending, timer,
                   pc, manual, target, code, log, faults>>

-----------------------------------------------------------------------------
(* The loop.                                                               *)

Fire ==
    /\ running # None /\ timer = "set"
    /\ timer' = "fired"
    /\ UNCHANGED <<world, runtime, lock, running, asking,
                   pc, manual, target, code, log, faults>>

Run(onRequest, v) ==
    /\ pc' = "lock"
    /\ manual' = onRequest
    /\ target' = v
    /\ log' = "nothing"

Receive ==
    /\ pc = "select"
    /\ requests # None
    /\ requests' = None
    /\ Run(TRUE, requests)
    /\ UNCHANGED <<world, runtime, lock, running, pending, sending, timer,
                   code, faults>>

Tick ==
    /\ running # None /\ pc = "select"
    /\ timer = "fired"
    /\ IF auto THEN Run(FALSE, None) /\ timer' = "received"
               ELSE timer' = "set" /\ UNCHANGED <<pc, manual, target, log>>
    /\ UNCHANGED <<world, runtime, lock, running, asking, code, faults>>

-----------------------------------------------------------------------------
(* scripts/docker-self-update.sh.  cleanup, on EXIT, is at "unlock".       *)

Script(next) ==
    /\ pc' = next
    /\ UNCHANGED <<world, running, asking, timer, manual, log>>

Exits(c) == code' = c /\ Script("unlock") /\ UNCHANGED <<lock, target>>

Lock ==
    /\ pc = "lock" /\ ~lock
    /\ lock' = TRUE
    /\ Script("resolve")
    /\ UNCHANGED <<runtime, target, code, faults>>

(* "Postizer self-update is already running."                              *)
AlreadyRunning ==
    /\ pc = "lock" /\ lock
    /\ code' = 0
    /\ Script("exit")
    /\ UNCHANGED <<runtime, lock, target, faults>>

Resolve ==
    /\ pc = "resolve"
    /\ target' = IF target = None THEN published ELSE target
    /\ Script("compare")
    /\ UNCHANGED <<runtime, lock, code, faults>>

AlreadyCurrent ==
    /\ pc = "compare"
    /\ current = target /\ Runs(target)
    /\ Exits(0)
    /\ UNCHANGED <<runtime, faults>>

Other   == current # target \/ Lacks(target)
Present == release[target] \in {"seems", "whole"}

(* A directory with the binary, web and internal/bundles is taken for the  *)
(* release.                                                                *)
Reuse ==
    /\ pc = "compare"
    /\ Other /\ Present
    /\ Script("unlink")
    /\ UNCHANGED <<runtime, lock, target, code, faults>>

(* Download, verification and unpacking are outside the runtime.           *)
Download ==
    /\ pc = "compare"
    /\ Other /\ ~Present
    /\ Script("clear")
    /\ UNCHANGED <<runtime, lock, target, code, faults>>

Clear ==
    /\ pc = "clear"
    /\ release' = [release EXCEPT ![target] = "absent"]
    /\ Script("move")
    /\ UNCHANGED <<spoiled, current, lock, target, code, faults>>

(* mv copies: the unpacked release is on another file system.              *)
SwitchesFirst ==
    /\ pc = "move"
    /\ release' = [release EXCEPT ![target] = "part"]
    /\ current' = target
    /\ Script("moving")
    /\ UNCHANGED <<spoiled, lock, target, code, faults>>

Move ==
    /\ pc = "move"
    /\ release' = [release EXCEPT ![target] = "part"]
    /\ Script("moving")
    /\ UNCHANGED <<spoiled, current, lock, target, code, faults>>

MovesOn ==
    /\ pc = "moving"
    /\ release[target] = "part"
    /\ release' = [release EXCEPT ![target] = "seems"]
    /\ Script("moving")
    /\ UNCHANGED <<spoiled, current, lock, target, code, faults>>

Moved ==
    /\ pc = "moving"
    /\ release' = [release EXCEPT ![target] = "whole"]
    /\ spoiled' = spoiled \ {target}
    /\ Script("unlink")
    /\ UNCHANGED <<current, lock, target, code, faults>>

MoveFails ==
    /\ pc = "moving"
    /\ Fault
    /\ spoiled' = spoiled \cup {target}
    /\ Exits(1)
    /\ UNCHANGED <<release, current>>

(* ln -sfn removes the link before it makes the new one.                   *)
Unlink ==
    /\ pc = "unlink"
    /\ current' = None
    /\ Script("link")
    /\ UNCHANGED <<release, spoiled, lock, target, code, faults>>

Link ==
    /\ pc = "link"
    /\ current' = target
    /\ Exits(42)
    /\ UNCHANGED <<release, spoiled, faults>>

(* Metadata, a download, a checksum, or a command on the runtime fails.    *)
FailsQuietly ==
    /\ pc \in {"resolve", "compare", "clear", "move", "unlink"}
    /\ Fault
    /\ Exits(0)
    /\ UNCHANGED runtime

Fails ==
    /\ pc \in {"resolve", "compare", "clear", "move", "unlink"}
    /\ Fault
    /\ Exits(1)
    /\ UNCHANGED runtime

Unlock ==
    /\ pc = "unlock"
    /\ lock' = FALSE
    /\ Script("exit")
    /\ UNCHANGED <<runtime, target, code, faults>>

(* The context of runSelfUpdate expires: the shell is killed and runs no   *)
(* trap.  CombinedOutput waits for the command the shell was running.      *)
Timeout ==
    /\ pc \in Holding \ {"moving", "link"}
    /\ Fault
    /\ code' = 1
    /\ Script("exit")
    /\ UNCHANGED <<runtime, lock, target>>

-----------------------------------------------------------------------------
(* runSelfUpdate after the script: exit code 42 restarts the server.       *)
Restarts ==
    /\ pc = "exit" /\ code = 42
    /\ Ends
    /\ UNCHANGED <<world, runtime, lock, faults>>

ResetsNot ==
    /\ pc = "exit" /\ code # 42
    /\ log' = IF code = 1 THEN "failed" ELSE log
    /\ pending' = (pending /\ ~manual)
    /\ pc' = "select"
    /\ manual' = FALSE /\ target' = None /\ code' = 0
    /\ UNCHANGED <<world, runtime, lock, running, timer, sending, requests,
                   faults>>

KeepsPending ==
    /\ pc = "exit" /\ code # 42
    /\ log' = IF code = 1 THEN "failed" ELSE log
    /\ pending' = (pending /\ (manual => code = 1))
    /\ timer' = "set"
    /\ pc' = "select"
    /\ manual' = FALSE /\ target' = None /\ code' = 0
    /\ UNCHANGED <<world, runtime, lock, running, sending, requests, faults>>

Returns ==
    /\ pc = "exit" /\ code # 42
    /\ log' = IF code = 1 THEN "failed" ELSE log
    /\ pending' = (pending /\ ~manual)
    /\ timer' = "set"
    /\ pc' = "select"
    /\ manual' = FALSE /\ target' = None /\ code' = 0
    /\ UNCHANGED <<world, runtime, lock, running, sending, requests, faults>>

-----------------------------------------------------------------------------
ScriptStep ==
    \/ Lock \/ AlreadyRunning \/ Resolve \/ AlreadyCurrent \/ Reuse
    \/ Download \/ Clear \/ Move \/ MovesOn \/ Moved \/ MoveFails
    \/ Unlink \/ Link \/ Fails \/ Unlock

Next ==
    \/ Publish \/ SetAuto \/ Crash \/ StartCurrent \/ Seed
    \/ (\E v \in Versions : Ask(v)) \/ Send
    \/ Fire \/ Receive \/ Tick \/ Restarts \/ Returns
    \/ ScriptStep \/ Timeout

Spec == Init /\ [][Next]_vars

(* Docker starts the container, the runtime of Go runs the loop and the    *)
(* handler, select does not pass over a ready case forever, and the timer  *)
(* fires.  Administrators, GitHub and faults owe nothing.                  *)
FairSpec ==
    /\ Spec
    /\ WF_vars(StartCurrent \/ Seed) /\ WF_vars(Send) /\ WF_vars(Fire)
    /\ SF_vars(Receive) /\ SF_vars(Tick)
    /\ WF_vars(ScriptStep \/ Restarts \/ Returns)

-----------------------------------------------------------------------------
(* The link never leads to part of a release, whenever the script or the   *)
(* container dies: the new release is moved into place before it, and the  *)
(* lock of a killed script keeps others from what it left.  (Part of a     *)
(* release that a failed mv left is taken for a release by the next run.)  *)
CurrentWhole ==
    current # None => release[current] = "whole" \/ current \in spoiled

(* A handler that sends to updateRequests finds its one place free: it     *)
(* answers at once, even while an update runs.                             *)
SendsAtOnce == sending # None => requests = None

(* The flag that refuses a second request is up exactly while there is a   *)
(* first: being sent, waiting or running.  It can neither stay up, which   *)
(* would refuse every later request, nor come down early.                  *)
PendingExactly ==
    pending <=> sending # None \/ requests # None \/ (pc # "select" /\ manual)

(* A lock nobody holds.                                                    *)
Stale == lock /\ pc \notin Holding

(* An accepted request that does not end in a restart is in the update log *)
(* as failed, unless a killed script has left its lock.                    *)
NoSilentEnd ==
    [][pending /\ ~pending' /\ running' # None => log' = "failed" \/ Stale]_vars

(* With automatic updates on, the server gets to run every release that is *)
(* published, whatever fails on the way a bounded number of times, and     *)
(* whatever is requested meanwhile ...                                     *)
KeepsUp ==
    <>[]auto => \A v \in Versions : (published >= v) ~> (running >= v)

(* ... unless a script was killed.                                         *)
KeepsUpUnlessKilled ==
    <>[]auto => \A v \in Versions : (published >= v) ~> (running >= v \/ Stale)
=============================================================================
