---------------------------- MODULE ViewerDeployment ----------------------------
(***************************************************************************)
(* Replacing the Viewer release that serves: ViewerDeploymentCoordinator   *)
(* walks one journaled deployment through its phases, each phase calling   *)
(* the host adapter, a separate process that runs docker commands and      *)
(* replaces the listener's target file.  The runtime host can end between  *)
(* any two steps and starts the journaled phase again; an adapter call can *)
(* fail or time out with its effect done or not; containers exit by        *)
(* themselves; the journal can refuse an update.                           *)
(*                                                                         *)
(* Release 0 is the one the bootstrap installed, release d the candidate   *)
(* of deployment d.  Time, ports, revisions, images and what a health      *)
(* probe looks at are left out: a probe says what it likes of a container  *)
(* that runs.  A docker command that is cut off took effect or did not.    *)
(***************************************************************************)
EXTENDS Integers, FiniteSets

CONSTANTS
  DeploymentCount,  \* bound: deployments of a behaviour
  MaxFaults,        \* bound: failures of a behaviour
  Null              \* no release

ASSUME DeploymentAssumption ==
  /\ DeploymentCount \in Nat /\ MaxFaults \in Nat
  /\ Null \notin Nat

Deployments == 1 .. DeploymentCount
Releases == 0 .. DeploymentCount

VARIABLES
  phase,      \* journal: deployment -> phase of its row
  candidate,  \* journal: deployment -> its row names the candidate release
  previous,   \* journal: deployment -> release to roll back to
  container,  \* docker: release -> state of its container
  snapshot,   \* releases whose compose snapshot and image exist
  target,     \* target file: the release new connections go to
  hostUp,     \* the runtime host process runs
  resolving,  \* a request waits for its revision to be resolved
  task,       \* the run of the active deployment, and its adapter step
  unrecorded, \* the journal refused an update and the run gave up
  faults      \* failures so far

journal == <<phase, candidate, previous>>
docker == <<container, snapshot>>
host == <<hostUp, resolving, task, unrecorded>>
vars == <<journal, docker, target, host, faults>>

Terminal == {"succeeded", "failed", "rolled-back"}
Promoted == {"promoting", "post-promotion-health", "rolling-back"}
Phases == {"none", "admitted", "building", "candidate-starting", "candidate-health"}
            \cup Promoted \cup Terminal

open(d) == phase[d] \notin Terminal \cup {"none"}
exists(r) == container[r] # "absent"

fault == faults < MaxFaults /\ faults' = faults + 1

(* mode tells the run from its error handler; step is the adapter step that *)
(* is to be taken next.                                                     *)
Off == [of |-> 0, mode |-> "off", step |-> "none"]
busy == task.mode # "off"
d0 == task.of
at(step) == hostUp /\ task.step = step
goto(step) == task' = [task EXCEPT !.step = step]

---------------------------------------------------------------------------
(* The effect of one adapter step on docker and on the target file.         *)

removableToo == {r \in Releases : exists(r)} \ {d0}                    \* mutant
removable == {r \in Releases : exists(r)} \ {d0, previous[d0]}
startable(r) == exists(r) \/ r \in snapshot
startRelease(r) ==
  /\ startable(r)
  /\ container' = [container EXCEPT ![r] = "running"] /\ UNCHANGED <<snapshot, target>>
switchTarget(r) == target' = r /\ UNCHANGED docker
removeContainer(r) ==
  /\ container' = [container EXCEPT ![r] = "absent"]
  /\ UNCHANGED <<snapshot, target>>
forget(r) == snapshot' = snapshot \ {r} /\ UNCHANGED <<container, target>>
removeObsolete ==
  \E r \in removable :
    /\ container' = [container EXCEPT ![r] = "absent"]
    /\ snapshot' = snapshot \ {r} /\ UNCHANGED target
stopRelease(r) ==
  /\ container' = [container EXCEPT ![r] = IF exists(r) THEN "stopped" ELSE @]
  /\ UNCHANGED <<snapshot, target>>
untouched == UNCHANGED <<docker, target>>

effect ==
  CASE task.step = "build"         -> snapshot' = snapshot \cup {d0} /\ UNCHANGED <<container, target>>
    [] task.step = "start"         -> startRelease(d0)
    [] task.step = "promote"       -> switchTarget(d0)
    [] task.step = "retain"        -> removeObsolete
    [] task.step = "stop"          -> stopRelease(previous[d0])
    [] task.step = "restart"       -> startRelease(previous[d0])
    [] task.step = "switch back"   -> switchTarget(previous[d0])
    [] task.step = "retire"        -> removeContainer(d0)
    [] task.step = "forget"        -> forget(d0)
    [] OTHER                       -> untouched

---------------------------------------------------------------------------
(* updateViewerDeployment, and what the run does next.                      *)

record(p) == phase' = [phase EXCEPT ![d0] = p]
ends(p) == record(p) /\ task' = Off /\ UNCHANGED <<candidate, previous>>
enters(p, step) == record(p) /\ goto(step)

(* An error in the run: after promotion began the previous release is put   *)
(* back, before it the candidate is retired; an error in either of these    *)
(* ends the deployment as failed.                                           *)
handle(step) == task' = [task EXCEPT !.mode = "handler", !.step = step]
undoPromotion ==                                                      \* mutant
  /\ UNCHANGED <<candidate, previous>>
  /\ IF task.mode = "handler" THEN ends("failed")
     ELSE record("rolling-back") /\ handle("switch back")
retireOnly ==                                                         \* mutant
  UNCHANGED journal /\ IF task.mode = "handler" THEN UNCHANGED task ELSE handle("retire")
reportRollback ==                                                     \* mutant
  /\ UNCHANGED <<candidate, previous>>
  /\ ends(IF phase[d0] \in Promoted THEN "rolled-back" ELSE "failed")
abort ==
  /\ UNCHANGED <<candidate, previous>>
  /\ IF task.mode = "handler" THEN ends("failed")
     ELSE IF phase[d0] \in Promoted THEN record("rolling-back") /\ handle("restart")
     ELSE IF candidate[d0] THEN UNCHANGED phase /\ handle("retire")
     ELSE ends("failed")

still == UNCHANGED <<hostUp, resolving, unrecorded, faults>>

Begin ==
  /\ at("begin") /\ enters("building", "build")
  /\ UNCHANGED <<candidate, previous>> /\ untouched /\ still

BuildCandidate ==
  /\ at("build") /\ effect
  /\ candidate' = [candidate EXCEPT ![d0] = TRUE]
  /\ enters("candidate-starting", "start")
  /\ UNCHANGED previous /\ still

(* A container that is gone with its snapshot cannot be started.            *)
StartCandidate ==
  /\ at("start")
  /\ IF startable(d0)
       THEN effect /\ enters("candidate-health", "verify") /\ UNCHANGED <<candidate, previous>>
       ELSE abort /\ untouched
  /\ still

(* The probe passes only a container that runs; without its snapshot the    *)
(* probe itself fails.                                                      *)
VerifyCandidate(ok) ==
  /\ at("verify") /\ untouched
  /\ IF container[d0] = "running" /\ d0 \notin snapshot THEN abort
     ELSE /\ ok => container[d0] = "running"
          /\ goto(IF ok THEN "current" ELSE "retire") /\ UNCHANGED journal
  /\ still

CurrentRelease ==
  /\ at("current") /\ untouched
  /\ IF container[target] # "running" THEN abort
     ELSE /\ previous' = [previous EXCEPT ![d0] = target]
          /\ enters("promoting", "promote") /\ UNCHANGED candidate
  /\ still

Promote ==
  /\ at("promote") /\ effect
  /\ enters("post-promotion-health", "verify promoted")
  /\ UNCHANGED <<candidate, previous>> /\ still

VerifyPromoted(ok) ==
  /\ at("verify promoted") /\ untouched /\ UNCHANGED <<candidate, previous>>
  /\ IF container[d0] = "running" /\ d0 \notin snapshot THEN abort
     ELSE /\ ok => container[d0] = "running"
          /\ IF ok THEN goto("retain") /\ UNCHANGED phase
                   ELSE enters("rolling-back", "restart")
  /\ still

RetainNothing ==                                                      \* mutant
  at("retain") /\ untouched /\ goto("stop") /\ UNCHANGED journal /\ still
Retain ==
  /\ at("retain") /\ UNCHANGED journal
  /\ IF removable = {} THEN untouched /\ goto("stop") ELSE effect /\ UNCHANGED task
  /\ still

StopPrevious ==
  /\ at("stop") /\ effect /\ ends("succeeded") /\ still

RestartPrevious ==
  /\ at("restart")
  /\ IF startable(previous[d0])
       THEN effect /\ goto("reverify") /\ UNCHANGED journal
       ELSE abort /\ untouched
  /\ still

(* The previous release serves again only after its own health gate.        *)
VerifyPrevious(ok) ==
  /\ at("reverify") /\ untouched
  /\ ok => container[previous[d0]] = "running" /\ previous[d0] \in snapshot
  /\ IF ok THEN goto("switch back") /\ UNCHANGED journal ELSE abort
  /\ still

SwitchBack ==
  /\ at("switch back") /\ effect /\ goto("retire") /\ UNCHANGED journal /\ still

RetireCandidate ==
  /\ at("retire") /\ effect /\ goto("forget") /\ UNCHANGED journal /\ still

closing == IF phase[d0] = "rolling-back" THEN "rolled-back" ELSE "failed"
ForgetCandidate ==
  /\ at("forget") /\ effect /\ ends(closing) /\ still

---------------------------------------------------------------------------
(* Failures.                                                                *)

(* An adapter call fails or runs out of time, or the journal refuses the    *)
(* one update that follows it.                                              *)
CallFails ==
  /\ hostUp /\ busy /\ fault
  /\ (effect \/ untouched) /\ abort
  /\ UNCHANGED <<hostUp, resolving, unrecorded>>

(* The journal refuses updates: the run gives up and the deployment stays   *)
(* open, or the refusal lasts just long enough that a failure is recorded   *)
(* without the rollback it calls for.                                       *)
JournalFails ==
  /\ hostUp /\ busy /\ fault
  /\ (effect \/ untouched) /\ task' = Off
  /\ \/ unrecorded' = TRUE /\ UNCHANGED phase
     \/ /\ task.mode = "run" /\ phase[d0] \in Promoted \ {"rolling-back"}
        /\ record("failed") /\ UNCHANGED unrecorded
  /\ UNCHANGED <<candidate, previous, hostUp, resolving>>

(* The host ends, and with it the adapter process it had started.           *)
HostEnds ==
  /\ hostUp /\ fault /\ hostUp' = FALSE
  /\ (effect \/ untouched)
  /\ task' = Off /\ resolving' = FALSE /\ unrecorded' = FALSE
  /\ UNCHANGED journal

ContainerExits(r) ==
  /\ container[r] = "running" /\ fault
  /\ container' = [container EXCEPT ![r] = "exited"]
  /\ UNCHANGED <<journal, snapshot, target, host>>

(* The restart policy starts a container that exited, not one stopped.      *)
ContainerRestarts(r) ==
  /\ container[r] = "exited"
  /\ container' = [container EXCEPT ![r] = "running"]
  /\ UNCHANGED <<journal, snapshot, target, host, faults>>

---------------------------------------------------------------------------
(* Admission and recovery.                                                  *)

idle == \A d \in Deployments : ~open(d)
fresh(d) == phase[d] = "none" /\ \A e \in 1 .. d - 1 : phase[e] # "none"

(* Requests are admitted one at a time; one that finds a deployment active  *)
(* or repeats a key is answered without a step.                             *)
RequestDeployment ==
  /\ hostUp /\ ~resolving /\ idle /\ \E d \in Deployments : fresh(d)
  /\ resolving' = TRUE
  /\ UNCHANGED <<journal, docker, target, hostUp, task, unrecorded, faults>>

AdmitDeployment(d) ==
  /\ hostUp /\ resolving /\ fresh(d) /\ idle
  /\ resolving' = FALSE
  /\ phase' = [phase EXCEPT ![d] = "admitted"]
  /\ task' = [of |-> d, mode |-> "run", step |-> "begin"]
  /\ UNCHANGED <<candidate, previous, docker, target, hostUp, unrecorded, faults>>

ResolutionFails ==
  /\ hostUp /\ resolving /\ resolving' = FALSE
  /\ UNCHANGED <<journal, docker, target, hostUp, task, unrecorded, faults>>

(* The step with which a run enters a phase.                                *)
entry(p) ==
  CASE p = "admitted"              -> "begin"
    [] p = "building"              -> "build"
    [] p = "candidate-starting"    -> "start"
    [] p = "candidate-health"      -> "verify"
    [] p = "promoting"             -> "promote"
    [] p = "post-promotion-health" -> "verify promoted"
    [] p = "rolling-back"          -> "restart"
    [] OTHER                       -> "none"

StartsIdle ==                                                         \* mutant
  ~hostUp /\ hostUp' = TRUE
  /\ UNCHANGED <<journal, docker, target, resolving, task, unrecorded, faults>>

(* recover: the active deployment's owner is gone, so it is claimed and its *)
(* phase begins again.                                                      *)
HostStarts ==
  /\ ~hostUp /\ hostUp' = TRUE
  /\ \/ idle /\ UNCHANGED task
     \/ \E d \in Deployments :
          open(d) /\ task' = [of |-> d, mode |-> "run", step |-> entry(phase[d])]
  /\ UNCHANGED <<journal, docker, target, resolving, unrecorded, faults>>

Init ==
  /\ phase = [d \in Deployments |-> "none"]
  /\ candidate = [d \in Deployments |-> FALSE]
  /\ previous = [d \in Deployments |-> Null]
  /\ container = [r \in Releases |-> IF r = 0 THEN "running" ELSE "absent"]
  /\ snapshot = {0} /\ target = 0
  /\ hostUp = TRUE /\ resolving = FALSE /\ task = Off /\ unrecorded = FALSE
  /\ faults = 0

RunStep ==
  \/ Begin
  \/ BuildCandidate
  \/ StartCandidate
  \/ \E ok \in BOOLEAN : VerifyCandidate(ok) \/ VerifyPromoted(ok) \/ VerifyPrevious(ok)
  \/ CurrentRelease
  \/ Promote
  \/ Retain
  \/ StopPrevious
  \/ RestartPrevious
  \/ SwitchBack
  \/ RetireCandidate
  \/ ForgetCandidate

Next ==
  \/ RunStep
  \/ RequestDeployment
  \/ \E d \in Deployments : AdmitDeployment(d)
  \/ ResolutionFails
  \/ HostStarts
  \/ CallFails
  \/ JournalFails
  \/ HostEnds
  \/ \E r \in Releases : ContainerExits(r) \/ ContainerRestarts(r)

Spec == Init /\ [][Next]_vars

(* Every adapter call has a deadline, and docker restarts the host process. *)
FairSpec == Spec /\ WF_vars(RunStep) /\ WF_vars(HostStarts)

---------------------------------------------------------------------------
Steps == {"none", "begin", "build", "start", "verify", "current", "promote", "verify promoted",
          "retain", "stop", "restart", "reverify", "switch back", "retire", "forget"}

TypeOK ==
  /\ phase \in [Deployments -> Phases]
  /\ candidate \in [Deployments -> BOOLEAN]
  /\ previous \in [Deployments -> Releases \cup {Null}]
  /\ container \in [Releases -> {"absent", "running", "exited", "stopped"}]
  /\ snapshot \subseteq Releases /\ target \in Releases
  /\ hostUp \in BOOLEAN /\ resolving \in BOOLEAN /\ unrecorded \in BOOLEAN
  /\ task \in [of : Releases, mode : {"off", "run", "handler"}, step : Steps]
  /\ faults \in 0 .. MaxFaults

(* New connections always go to a release whose container no deployment     *)
(* removed or stopped, wherever a call fails, the host ends or a phase is   *)
(* run again.                                                               *)
ServingIsKept == container[target] \in {"running", "exited"} /\ target \in snapshot

(* From the start of a promotion until the next one, the release to go back *)
(* to still has its container and its snapshot.                             *)
latest(d) == \A e \in Deployments : e > d => previous[e] = Null
RollbackSlotKept ==
  \A d \in Deployments :
    phase[d] \in Promoted \/ (phase[d] = "succeeded" /\ latest(d))
      => exists(previous[d]) /\ previous[d] \in snapshot

(* A deployment that succeeds leaves no container behind but the serving    *)
(* one and the stopped one to roll back to.                                 *)
SuccessCleansUp ==
  [][\A d \in Deployments :
       phase[d] # "succeeded" /\ phase'[d] = "succeeded" =>
         {r \in Releases : container'[r] # "absent"} \subseteq {d, previous[d]}]_vars

(* The status a deployment ends with says what serves.                      *)
outcomeOf(d) == IF open(d) THEN "open" ELSE phase[d]
rollbackTo == {previous[d] : d \in {e \in Deployments : open(e) /\ previous[e] # Null}}
Promise == INSTANCE ReleaseSwitch WITH
  outcome <- [d \in Deployments |-> outcomeOf(d)], serving <- target,
  before <- IF rollbackTo = {} THEN target ELSE CHOOSE r \in rollbackTo : TRUE
StatusTellsServing == Promise!Spec

(* A deployment ends, or its outcome could not be recorded and waits for    *)
(* the next start of the host.                                              *)
EveryDeploymentEnds ==
  \A d \in Deployments : open(d) ~> (~open(d) \/ unrecorded)
=============================================================================
