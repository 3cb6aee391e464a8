-------------------------- MODULE ViewerDeployment_proofs --------------------------
(***************************************************************************)
(* Machine-checked theorems about ViewerDeployment: its types, that what   *)
(* serves and what can be gone back to are never taken away, and that a    *)
(* deployment's status tells what serves, for every number of deployments  *)
(* and of failures.                                                        *)
(***************************************************************************)
EXTENDS ViewerDeployment, TLAPS

Before == {"none", "admitted", "building", "candidate-starting", "candidate-health"}
up(r) == container[r] \in {"running", "exited"}

(* Deployments are admitted in their order, one after another.              *)
Ordered ==
  \A d, e \in Deployments :
    /\ phase[d] # "none" /\ e < d => phase[e] # "none"
    /\ open(d) /\ d < e => phase[e] = "none"

(* Nothing is routed to a candidate, nor kept to go back to it, before its  *)
(* promotion.                                                               *)
Unserved ==
  \A d \in Deployments :
    phase[d] \in Before =>
      previous[d] = Null /\ target # d /\ \A e \in Deployments : previous[e] # d

(* Which releases traffic may go to while a deployment promotes.            *)
Traffic ==
  \A d \in Deployments :
    /\ phase[d] \in Promoted => previous[d] \in Releases \ {d} /\ target \in {d, previous[d]}
    /\ phase[d] = "promoting" => up(d) /\ d \in snapshot
    /\ phase[d] = "post-promotion-health" => target = d

stepsOf(p) ==
  CASE p = "admitted"              -> {"begin", "retire", "forget"}
    [] p = "building"              -> {"build", "retire", "forget"}
    [] p = "candidate-starting"    -> {"start", "retire", "forget"}
    [] p = "candidate-health"      -> {"verify", "current", "retire", "forget"}
    [] p = "promoting"             -> {"promote"}
    [] p = "post-promotion-health" -> {"verify promoted", "retain", "stop"}
    [] p = "rolling-back"          -> {"restart", "reverify", "switch back", "retire", "forget"}
    [] OTHER                       -> {}

(* The run in memory fits the journal, and what it has established holds.   *)
TaskFits ==
  \/ task = Off
  \/ /\ hostUp /\ d0 \in Deployments /\ open(d0)
     /\ task.mode \in {"run", "handler"}
     /\ task.step \in stepsOf(phase[d0])
     /\ task.step = "current" => up(d0) /\ d0 \in snapshot
     /\ task.step = "stop" => removable = {}
     /\ task.step = "switch back" => up(previous[d0])
     /\ phase[d0] = "rolling-back" /\ task.step \in {"retire", "forget"}
          => target = previous[d0]

Journaled == Ordered /\ Unserved /\ Traffic
IInv == TypeOK /\ ServingIsKept /\ RollbackSlotKept /\ Journaled /\ TaskFits

---------------------------------------------------------------------------
(* What an adapter step leaves standing, whether it is recorded or not: the *)
(* serving release, the release to go back to, and the candidate's place in *)
(* the traffic.                                                             *)
slot(d) == phase[d] \in Promoted \/ (phase[d] = "succeeded" /\ latest(d))
Kept ==
  /\ container' \in [Releases -> {"absent", "running", "exited", "stopped"}]
  /\ snapshot' \subseteq Releases /\ target' \in Releases
  /\ container'[target'] \in {"running", "exited"} /\ target' \in snapshot'
  /\ \A d \in Deployments :
       /\ slot(d) => container'[previous[d]] # "absent" /\ previous[d] \in snapshot'
       /\ phase[d] \in Before => target' # d
       /\ phase[d] \in Promoted => target' \in {d, previous[d]}
       /\ phase[d] = "promoting" =>
            container'[d] \in {"running", "exited"} /\ d \in snapshot'
       /\ phase[d] = "post-promotion-health" => target' = d

LEMMA Trichotomy ==
  ASSUME NEW d \in Deployments, NEW e \in Deployments
  PROVE  d < e \/ e < d \/ d = e
  BY DeploymentAssumption DEF Deployments

LEMMA AreReleases == Deployments \subseteq Releases
  BY DeploymentAssumption DEF Deployments, Releases

LEMMA NotNull == \A r \in Releases : r # Null
  BY DeploymentAssumption DEF Releases

LEMMA OneOpen ==
  ASSUME Ordered, NEW d \in Deployments, NEW e \in Deployments, open(d), open(e)
  PROVE  d = e
  <1>1. ~(d < e) /\ ~(e < d)
    BY DEF Ordered, open
  <1> QED
    BY <1>1, Trichotomy

LEMMA EffectKeeps ==
  ASSUME IInv, busy, effect \/ untouched
  PROVE  Kept
  <1> USE DeploymentAssumption DEF IInv, Journaled
  <1>1. /\ d0 \in Deployments /\ open(d0) /\ task.step \in stepsOf(phase[d0])
        /\ task.step = "switch back" => up(previous[d0])
    <2>1. task # Off
      BY DEF busy, Off
    <2> QED
      BY <2>1 DEF TaskFits
  <1>2. \A d \in Deployments : open(d) => d = d0
    BY <1>1, OneOpen
  <1>3. Deployments \subseteq Releases
    BY DEF Deployments, Releases
  <1>4. phase[d0] \in Promoted =>
          previous[d0] \in Releases /\ previous[d0] # d0 /\ target \in {d0, previous[d0]}
    BY <1>1 DEF Traffic
  <1>5. \A d \in Deployments : d # d0 /\ phase[d] \in Promoted => FALSE
    BY <1>2 DEF open, Promoted, Terminal
  <1>6. \A d \in Deployments : slot(d) => exists(previous[d]) /\ previous[d] \in snapshot
    BY DEF slot, RollbackSlotKept
  <1>9. ASSUME phase[d0] \in Promoted, NEW e \in Deployments, slot(e)
        PROVE  e = d0
    <2>1. CASE phase[e] \in Promoted
      BY <1>5, <2>1
    <2>2. CASE phase[e] = "succeeded" /\ latest(e)
      <3>1. ~(d0 < e)
        BY <1>1, <2>2 DEF Ordered
      <3>2. ~(e < d0)
        <4>1. e < d0 => d0 > e
          BY <1>1 DEF Deployments
        <4> QED
          BY <1>1, <1>4, <1>9, <2>2, <4>1, NotNull DEF latest
      <3> QED
        BY <1>1, <3>1, <3>2, Trichotomy
    <2> QED
      BY <1>9, <2>1, <2>2 DEF slot
  <1>7. CASE untouched
    BY <1>6, <1>7 DEF untouched, docker, Kept, TypeOK, ServingIsKept, Unserved, Traffic, up, exists
  <1>8. CASE effect
    <2> USE DEF Kept, TypeOK, ServingIsKept, Unserved, Traffic, up, exists
    <2>1. CASE task.step = "build"
      <3>1. snapshot' = snapshot \cup {d0} /\ UNCHANGED <<container, target>>
        BY <1>8, <2>1 DEF effect
      <3>2. /\ container' = container /\ target' = target /\ snapshot \subseteq snapshot'
            /\ snapshot' \subseteq Releases
        BY <1>1, <1>3, <3>1
      <3> QED
        BY <1>6, <3>2
    <2>2. CASE task.step = "start"
      <3>1. startRelease(d0)
        BY <1>8, <2>2 DEF effect
      <3> QED
        BY <1>1, <1>3, <1>6, <3>1 DEF startRelease
    <2>3. CASE task.step = "promote"
      <3>1. switchTarget(d0)
        BY <1>8, <2>3 DEF effect
      <3>2. phase[d0] = "promoting"
        BY <1>1, <2>3 DEF stepsOf
      <3> QED
        BY <1>1, <1>2, <1>3, <1>6, <3>1, <3>2 DEF switchTarget, docker, open, Before, Promoted, Terminal
    <2>4. CASE task.step = "retain"
      <3>1. removeObsolete
        BY <1>8, <2>4 DEF effect
      <3>2. phase[d0] = "post-promotion-health"
        BY <1>1, <2>4 DEF stepsOf
      <3>3. phase[d0] \in Promoted
        BY <3>2 DEF Promoted
      <3>4. PICK r \in removable :
              /\ container' = [container EXCEPT ![r] = "absent"]
              /\ snapshot' = snapshot \ {r} /\ UNCHANGED target
        BY <3>1 DEF removeObsolete
      <3>5. r \in Releases /\ r # d0 /\ r # previous[d0]
        BY DEF removable
      <3>6. \A d \in Deployments : slot(d) => r # previous[d]
        BY <1>9, <3>3, <3>5
      <3>7. target = d0
        BY <1>1, <3>2
      <3>8. \A d \in Deployments : phase[d] = "promoting" => FALSE
        BY <1>2, <3>2 DEF open, Terminal
      <3> QED
        BY <1>1, <1>3, <1>6, <3>4, <3>5, <3>6, <3>7, <3>8
    <2>5. CASE task.step = "stop"
      <3>1. stopRelease(previous[d0])
        BY <1>8, <2>5 DEF effect
      <3>2. phase[d0] = "post-promotion-health"
        BY <1>1, <2>5 DEF stepsOf
      <3> QED
        BY <1>1, <1>2, <1>3, <1>4, <1>6, <3>1, <3>2 DEF stopRelease, Promoted, open, Terminal
    <2>6. CASE task.step = "restart"
      <3>1. startRelease(previous[d0])
        BY <1>8, <2>6 DEF effect
      <3> QED
        BY <1>1, <1>3, <1>6, <3>1 DEF startRelease
    <2>7. CASE task.step = "switch back"
      <3>1. switchTarget(previous[d0])
        BY <1>8, <2>7 DEF effect
      <3>2. phase[d0] = "rolling-back"
        BY <1>1, <2>7 DEF stepsOf
      <3>3. phase[d0] \in Promoted
        BY <3>2 DEF Promoted
      <3>4. \A d \in Deployments : phase[d] = "promoting" \/ phase[d] = "post-promotion-health" => FALSE
        BY <1>2, <3>2 DEF open, Terminal
      <3>5. /\ target' = previous[d0] /\ target' \in Releases
            /\ container' = container /\ snapshot' = snapshot
        BY <1>4, <3>1, <3>3 DEF switchTarget, docker
      <3>6. previous[d0] \in snapshot
        BY <1>1, <1>6, <3>3 DEF slot
      <3> QED
        <4>1. container'[target'] \in {"running", "exited"} /\ target' \in snapshot'
          BY <1>1, <2>7, <3>5, <3>6
        <4>2. ASSUME NEW d \in Deployments
              PROVE  /\ slot(d) => container'[previous[d]] # "absent" /\ previous[d] \in snapshot'
                     /\ phase[d] \in Before => target' # d
                     /\ phase[d] \in Promoted => target' \in {d, previous[d]}
                     /\ phase[d] \notin {"promoting", "post-promotion-health"}
          BY <1>1, <1>5, <1>6, <3>3, <3>4, <3>5
        <4> QED
          BY <3>5, <4>1, <4>2
    <2>8. CASE task.step \in {"retire", "forget"}
      <3>1. removeContainer(d0) \/ forget(d0)
        BY <1>8, <2>8 DEF effect
      <3>2. phase[d0] \in Before \cup {"rolling-back"}
        BY <1>1, <2>8 DEF stepsOf, Before
      <3>3. target # d0
        <4>1. task # Off
          BY DEF busy, Off
        <4>2. phase[d0] = "rolling-back" => target = previous[d0]
          BY <2>8, <4>1 DEF TaskFits
        <4> QED
          BY <1>1, <1>4, <3>2, <4>2 DEF Promoted
      <3>4. \A d \in Deployments : slot(d) => previous[d] # d0
        BY <1>1, <1>4, <1>9, <3>2 DEF Promoted
      <3>5. \A d \in Deployments : phase[d] = "promoting" => FALSE
        BY <1>1, <1>2, <3>2 DEF open, Terminal, Before
      <3> QED
        <4>1. /\ target' = target
              /\ \A r \in Releases : r # d0 => container'[r] = container[r]
              /\ snapshot' \in {snapshot, snapshot \ {d0}}
              /\ container' \in [Releases -> {"absent", "running", "exited", "stopped"}]
          BY <3>1 DEF removeContainer, forget
        <4>2. \A d \in Deployments : slot(d) => previous[d] \in Releases
          BY <1>6
        <4> QED
          BY <1>1, <1>3, <1>6, <3>3, <3>4, <3>5, <4>1, <4>2
    <2>9. CASE task.step \notin {"build", "start", "promote", "retain", "stop", "restart",
                               "switch back", "retire", "forget"}
      <3>1. untouched
        BY <1>8, <2>9 DEF effect
      <3> QED
        BY <1>7, <3>1
    <2> QED
      BY <2>1, <2>2, <2>3, <2>4, <2>5, <2>6, <2>7, <2>8, <2>9
  <1> QED
    BY <1>7, <1>8

---------------------------------------------------------------------------
(* What the journal's next record leaves true.                              *)
Safe == ServingIsKept /\ RollbackSlotKept /\ Journaled
JournalType ==
  /\ phase \in [Deployments -> Phases]
  /\ candidate \in [Deployments -> BOOLEAN]
  /\ previous \in [Deployments -> Releases \cup {Null}]
TaskType ==
  /\ hostUp \in BOOLEAN
  /\ task \in [of : Releases, mode : {"off", "run", "handler"}, step : Steps]

LEMMA RunFacts ==
  ASSUME IInv, busy
  PROVE  /\ d0 \in Deployments /\ d0 \in Releases /\ open(d0) /\ hostUp
         /\ task.mode \in {"run", "handler"}
         /\ task.step \in stepsOf(phase[d0])
         /\ task.step = "current" => up(d0) /\ d0 \in snapshot
         /\ task.step = "stop" => removable = {}
         /\ phase[d0] \in Promoted => previous[d0] \in Releases /\ previous[d0] # d0
         /\ \A d \in Deployments : open(d) => d = d0
  <1>1. task # Off
    BY DEF busy, Off
  <1>2. d0 \in Deployments /\ open(d0)
    BY <1>1 DEF IInv, TaskFits
  <1>3. d0 \in Releases
    BY <1>2, DeploymentAssumption DEF Deployments, Releases
  <1>4. \A d \in Deployments : open(d) => d = d0
    BY <1>2, OneOpen DEF IInv, Journaled
  <1>5. phase[d0] \in Promoted => previous[d0] \in Releases /\ previous[d0] # d0
    BY <1>2 DEF IInv, Journaled, Traffic
  <1> QED
    BY <1>1, <1>2, <1>3, <1>4, <1>5 DEF IInv, TaskFits

LEMMA JournalStays ==
  ASSUME IInv, Kept, UNCHANGED <<phase, previous>>
  PROVE  Safe'
  <1>1. ServingIsKept'
    BY DEF Kept, ServingIsKept
  <1>2. RollbackSlotKept'
    BY DEF Kept, RollbackSlotKept, slot, latest, exists
  <1>3. Ordered' /\ Unserved'
    BY DEF IInv, Journaled, Kept, Ordered, Unserved, open
  <1>4. Traffic'
    BY DEF IInv, Journaled, Kept, Traffic, up
  <1> QED
    BY <1>1, <1>2, <1>3, <1>4 DEF Safe, Journaled

LEMMA RecordKeeps ==
  ASSUME IInv, busy, Kept, UNCHANGED previous,
         NEW p \in Phases \ {"none"}, record(p),
         phase[d0] \in Before => p \in Before \cup {"failed"},
         phase[d0] \in Promoted => p \in {"post-promotion-health", "rolling-back"} \cup Terminal,
         p = "post-promotion-health" => target' = d0
  PROVE  Safe' /\ phase' \in [Deployments -> Phases] /\ phase'[d0] = p
  <1>1. d0 \in Deployments /\ open(d0)
    BY RunFacts
  <1>2. phase \in [Deployments -> Phases] /\ previous' = previous
    BY DEF IInv, TypeOK
  <1>3. /\ phase' \in [Deployments -> Phases] /\ phase'[d0] = p
        /\ \A d \in Deployments : d # d0 => phase'[d] = phase[d]
    BY <1>1, <1>2 DEF record
  <1>4. phase[d0] \in Before \cup Promoted /\ phase[d0] # "none"
    BY <1>1, <1>2 DEF open, Phases, Before
  <1>5. ServingIsKept'
    BY DEF Kept, ServingIsKept
  <1>6. \A d \in Deployments : slot(d)' => slot(d)
    <2> SUFFICES ASSUME NEW e \in Deployments, slot(e)'
                 PROVE  slot(e)
      OBVIOUS
    <2>1. latest(e)' => latest(e)
      BY <1>2 DEF latest
    <2>2. CASE e # d0
      BY <1>3, <2>1, <2>2 DEF slot
    <2>3. CASE e = d0
      <3>1. phase'[d0] \in Promoted \cup {"succeeded"}
        BY <2>3 DEF slot
      <3>2. phase[d0] \notin Before \/ phase'[d0] \in Before \cup {"failed"}
        BY <1>3
      <3>3. phase[d0] \in Promoted
        BY <1>4, <3>1, <3>2 DEF Before, Promoted
      <3> QED
        BY <2>3, <3>3 DEF slot
    <2> QED
      BY <2>2, <2>3
  <1>7. RollbackSlotKept'
    BY <1>2, <1>6 DEF Kept, RollbackSlotKept, slot, exists
  <1>8. Ordered'
    BY <1>1, <1>3 DEF IInv, Journaled, Ordered, open, Terminal
  <1>9. Unserved'
    BY <1>2, <1>3, <1>4 DEF IInv, Journaled, Kept, Unserved, Before, Promoted, Terminal
  <1>10. Traffic'
    BY <1>2, <1>3, <1>4
    DEF IInv, Journaled, Kept, Traffic, up, Before, Promoted, Terminal
  <1> QED
    BY <1>3, <1>5, <1>7, <1>8, <1>9, <1>10 DEF Safe, Journaled

---------------------------------------------------------------------------
(* What a step of the run does to the journal and to the run itself.        *)
RunInv == JournalType /\ TaskType /\ Safe /\ TaskFits
nextTask(mode, step) == [of |-> d0, mode |-> mode, step |-> step]

LEMMA Goto ==
  ASSUME IInv, NEW step, goto(step)
  PROVE  task' = nextTask(task.mode, step)
  BY DEF IInv, TypeOK, goto, nextTask, d0

LEMMA StepNames ==
  ASSUME NEW p \in Phases, NEW step \in stepsOf(p)
  PROVE  step \in Steps /\ p \notin Terminal \cup {"none"}
  BY DEF stepsOf, Steps, Terminal, Phases, Promoted

(* It goes on within its phase.                                             *)
LEMMA RunGoes ==
  ASSUME IInv, busy, Kept, UNCHANGED <<journal, hostUp>>,
         NEW mode \in {"run", "handler"}, NEW step \in stepsOf(phase[d0]),
         task' = nextTask(mode, step),
         step = "current" => container'[d0] \in {"running", "exited"} /\ d0 \in snapshot',
         step = "stop" => {r \in Releases : container'[r] # "absent"} \subseteq {d0, previous[d0]},
         step = "switch back" => container'[previous[d0]] \in {"running", "exited"},
         phase[d0] = "rolling-back" /\ step \in {"retire", "forget"} => target' = previous[d0]
  PROVE  RunInv'
  <1>1. d0 \in Deployments /\ d0 \in Releases /\ open(d0) /\ hostUp
    BY RunFacts
  <1>2. Safe'
    BY JournalStays DEF journal
  <1>3. JournalType'
    BY DEF IInv, TypeOK, JournalType, journal
  <1>4. step \in Steps
    BY <1>1, StepNames DEF IInv, TypeOK
  <1>5. TaskType'
    BY <1>1, <1>4 DEF TaskType, nextTask
  <1>6. /\ task'.of = d0 /\ task'.mode = mode /\ task'.step = step
        /\ phase' = phase /\ previous' = previous /\ hostUp'
    BY <1>1 DEF nextTask, journal
  <1>7. TaskFits'
    BY <1>1, <1>6 DEF TaskFits, d0, up, removable, exists, open
  <1> QED
    BY <1>2, <1>3, <1>5, <1>7 DEF RunInv

(* It records a phase and goes on with a step of it.                        *)
LEMMA RunEnters ==
  ASSUME IInv, busy, Kept, UNCHANGED <<previous, hostUp>>,
         candidate' \in [Deployments -> BOOLEAN],
         NEW p \in Phases, record(p),
         phase[d0] \in Before => p \in Before,
         phase[d0] \in Promoted => p \in {"post-promotion-health", "rolling-back"},
         p = "post-promotion-health" => target' = d0,
         NEW mode \in {"run", "handler"}, NEW step \in stepsOf(p),
         step \notin {"current", "stop", "switch back", "retire", "forget"},
         task' = nextTask(mode, step)
  PROVE  RunInv'
  <1>1. d0 \in Deployments /\ d0 \in Releases /\ hostUp
    BY RunFacts
  <1>2. p \notin Terminal \cup {"none"} /\ step \in Steps
    BY StepNames
  <1>3. Safe' /\ phase' \in [Deployments -> Phases] /\ phase'[d0] = p
    BY <1>2, RecordKeeps
  <1>4. JournalType'
    BY <1>3 DEF IInv, TypeOK, JournalType
  <1>5. TaskType'
    BY <1>1, <1>2 DEF TaskType, nextTask
  <1>6. task'.of = d0 /\ task'.mode = mode /\ task'.step = step /\ hostUp'
    BY <1>1 DEF nextTask
  <1>7. TaskFits'
    BY <1>1, <1>2, <1>3, <1>6 DEF TaskFits, d0, open
  <1> QED
    BY <1>3, <1>4, <1>5, <1>7 DEF RunInv

(* It stops, with or without a last record.                                 *)
LEMMA RunStops ==
  ASSUME IInv, busy, Kept, task' = Off, hostUp' \in BOOLEAN,
         UNCHANGED <<candidate, previous>>,
         \/ UNCHANGED phase
         \/ \E p \in Terminal : record(p) /\ (phase[d0] \in Before => p = "failed")
  PROVE  RunInv'
  <1>1. TaskType' /\ TaskFits'
    BY DeploymentAssumption DEF TaskType, TaskFits, Off, Releases, Steps
  <1>2. CASE UNCHANGED phase
    BY <1>1, <1>2, JournalStays DEF IInv, TypeOK, JournalType, RunInv
  <1>3. ASSUME NEW p \in Terminal, record(p), phase[d0] \in Before => p = "failed"
        PROVE  RunInv'
    <2>1. p \in Phases \ {"none"} /\ p # "post-promotion-health"
      BY DEF Phases, Terminal
    <2>2. Safe' /\ phase' \in [Deployments -> Phases]
      BY <1>3, <2>1, RecordKeeps
    <2> QED
      BY <1>1, <2>2 DEF IInv, TypeOK, JournalType, RunInv
  <1> QED
    BY <1>2, <1>3

(* An error is handled: the promotion is undone, the candidate retired, or  *)
(* the deployment failed.                                                   *)
LEMMA AbortKeeps ==
  ASSUME IInv, busy, Kept, abort, UNCHANGED hostUp
  PROVE  RunInv'
  <1>1. /\ d0 \in Deployments /\ open(d0) /\ hostUp /\ task.mode \in {"run", "handler"}
        /\ UNCHANGED <<candidate, previous>> /\ hostUp' \in BOOLEAN
        /\ phase[d0] \in Phases
    BY RunFacts DEF abort, IInv, TypeOK
  <1>2. phase[d0] \in Promoted \/ phase[d0] \in Before
    BY <1>1 DEF open, Before, Phases
  <1>3. ASSUME ends("failed") PROVE RunInv'
    <2>1. "failed" \in Terminal
      BY DEF Terminal
    <2> QED
      BY <1>1, <1>3, <2>1, RunStops DEF ends
  <1>4. ASSUME phase[d0] \in Promoted, record("rolling-back"), handle("restart")
        PROVE  RunInv'
    <2>1. task' = nextTask("handler", "restart")
      BY <1>4 DEF handle, nextTask, IInv, TypeOK, d0
    <2>2. "restart" \in stepsOf("rolling-back") /\ "rolling-back" \in Phases
      BY DEF stepsOf, Phases, Promoted
    <2>3. phase[d0] \notin Before
      BY <1>4 DEF Promoted, Before
    <2>4. candidate' \in [Deployments -> BOOLEAN]
      BY <1>1 DEF IInv, TypeOK
    <2> QED
      BY <1>1, <1>4, <2>1, <2>2, <2>3, <2>4, RunEnters
  <1>5. ASSUME phase[d0] \notin Promoted, UNCHANGED phase, handle("retire")
        PROVE  RunInv'
    <2>1. task' = nextTask("handler", "retire")
      BY <1>5 DEF handle, nextTask, IInv, TypeOK, d0
    <2>2. phase[d0] \in Before \ {"none"}
      BY <1>1, <1>2, <1>5 DEF open
    <2>3. "retire" \in stepsOf(phase[d0]) /\ phase[d0] # "rolling-back"
      BY <2>2 DEF stepsOf, Before
    <2> QED
      BY <1>1, <1>5, <2>1, <2>3, RunGoes DEF journal
  <1> QED
    BY <1>3, <1>4, <1>5 DEF abort

---------------------------------------------------------------------------
(* Every step of the run.                                                   *)

LEMMA BusyAt ==
  ASSUME NEW step \in Steps \ {"none"}, at(step), IInv
  PROVE  busy /\ hostUp
  <1>1. task # Off
    BY DEF at, Off
  <1> QED
    BY <1>1 DEF at, busy, IInv, TaskFits

LEMMA Assembled ==
  ASSUME Kept, RunInv', resolving' \in BOOLEAN, unrecorded' \in BOOLEAN, faults' \in 0 .. MaxFaults
  PROVE  IInv'
  BY DEF Kept, RunInv, JournalType, TaskType, Safe, IInv, TypeOK

LEMMA RunStepKeeps ==
  ASSUME IInv, RunStep
  PROVE  IInv'
  <1>1. \A step \in Steps \ {"none"} : at(step) => busy /\ hostUp /\ task.step = step
    BY BusyAt DEF at
  <1>2. /\ candidate \in [Deployments -> BOOLEAN] /\ previous \in [Deployments -> Releases \cup {Null}]
        /\ phase \in [Deployments -> Phases]
        /\ resolving \in BOOLEAN /\ unrecorded \in BOOLEAN /\ faults \in 0 .. MaxFaults
    BY DEF IInv, TypeOK
  <1>3. ASSUME busy, Kept, still, UNCHANGED journal, NEW step \in stepsOf(phase[d0]),
               step \notin {"current", "stop", "switch back", "retire", "forget"}, goto(step)
        PROVE  Kept /\ RunInv'
    <2>1. task' = nextTask(task.mode, step) /\ task.mode \in {"run", "handler"}
      BY <1>3, Goto, RunFacts
    <2> QED
      BY <1>3, <2>1, RunGoes DEF still
  <1>4. ASSUME busy, Kept, still, UNCHANGED <<candidate, previous>>, NEW p \in Terminal, ends(p),
               phase[d0] \in Before => p = "failed"
        PROVE  Kept /\ RunInv'
    <2>1. hostUp' \in BOOLEAN
      BY <1>3, <1>4 DEF still, IInv, TypeOK
    <2> QED
      BY <1>4, <2>1, RunStops DEF ends
  <1>5. ASSUME busy, Kept, still, abort
        PROVE  Kept /\ RunInv'
    BY <1>5, AbortKeeps DEF still
  <1> SUFFICES Kept /\ RunInv'
    <2>1. UNCHANGED <<resolving, unrecorded, faults>>
      BY DEF RunStep, Begin, BuildCandidate, StartCandidate, VerifyCandidate, VerifyPromoted,
             VerifyPrevious, CurrentRelease, Promote, Retain, StopPrevious, RestartPrevious,
             SwitchBack, RetireCandidate, ForgetCandidate, still
    <2> QED
      BY <1>2, <2>1, Assembled
  <1>6. CASE Begin
    <2>1. busy /\ task.step = "begin"
      BY <1>1, <1>6 DEF Begin, Steps
    <2>2. phase[d0] = "admitted" /\ task.mode \in {"run", "handler"}
      BY <2>1, RunFacts DEF stepsOf
    <2>3. Kept
      BY <1>6, <2>1, EffectKeeps DEF Begin
    <2>4. task' = nextTask(task.mode, "build") /\ record("building")
      BY <1>6, Goto DEF Begin, enters
    <2>5. "build" \in stepsOf("building") /\ "building" \in Phases
      BY DEF stepsOf, Phases
    <2> QED
      BY <1>2, <1>6, <2>1, <2>2, <2>3, <2>4, <2>5, RunEnters DEF Begin, still, Before, Promoted
  <1>7. CASE BuildCandidate
    <2>1. busy /\ task.step = "build"
      BY <1>1, <1>7 DEF BuildCandidate, Steps
    <2>2. phase[d0] = "building" /\ task.mode \in {"run", "handler"}
      BY <2>1, RunFacts DEF stepsOf
    <2>3. Kept
      BY <1>7, <2>1, EffectKeeps DEF BuildCandidate
    <2>4. task' = nextTask(task.mode, "start") /\ record("candidate-starting")
      BY <1>7, Goto DEF BuildCandidate, enters
    <2>5. "start" \in stepsOf("candidate-starting") /\ "candidate-starting" \in Phases
      BY DEF stepsOf, Phases
    <2>6. candidate' \in [Deployments -> BOOLEAN]
      BY <1>2, <1>7 DEF BuildCandidate
    <2> QED
      BY <1>7, <2>1, <2>2, <2>3, <2>4, <2>5, <2>6, RunEnters
      DEF BuildCandidate, still, Before, Promoted
  <1>8. CASE StartCandidate
    <2>1. busy /\ task.step = "start"
      BY <1>1, <1>8 DEF StartCandidate, Steps
    <2>2. phase[d0] = "candidate-starting" /\ task.mode \in {"run", "handler"}
      BY <2>1, RunFacts DEF stepsOf
    <2>3. Kept
      BY <1>8, <2>1, EffectKeeps DEF StartCandidate
    <2>4. CASE startable(d0)
      <3>1. task' = nextTask(task.mode, "verify") /\ record("candidate-health")
        BY <1>8, <2>4, Goto DEF StartCandidate, enters
      <3>2. "verify" \in stepsOf("candidate-health") /\ "candidate-health" \in Phases
        BY DEF stepsOf, Phases
      <3> QED
        BY <1>2, <1>8, <2>1, <2>2, <2>3, <2>4, <3>1, <3>2, RunEnters
        DEF StartCandidate, still, Before, Promoted
    <2> QED
      BY <1>5, <1>8, <2>1, <2>3, <2>4 DEF StartCandidate
  <1>9. ASSUME NEW ok \in BOOLEAN, VerifyCandidate(ok)
        PROVE  Kept /\ RunInv'
    <2>1. busy /\ task.step = "verify" /\ still /\ untouched
      BY <1>1, <1>9 DEF VerifyCandidate, Steps
    <2>2. phase[d0] = "candidate-health" /\ task.mode \in {"run", "handler"}
      BY <2>1, RunFacts DEF stepsOf
    <2>3. Kept
      BY <2>1, EffectKeeps
    <2>4. CASE abort
      BY <1>5, <2>1, <2>3, <2>4
    <2>5. CASE ok /\ container[d0] = "running" /\ d0 \in snapshot /\ goto("current") /\ UNCHANGED journal
      <3>1. task' = nextTask(task.mode, "current") /\ "current" \in stepsOf(phase[d0])
        BY <2>2, <2>5, Goto DEF stepsOf
      <3>2. container'[d0] \in {"running", "exited"} /\ d0 \in snapshot'
        BY <2>1, <2>5 DEF untouched, docker
      <3> QED
        BY <2>1, <2>2, <2>3, <2>5, <3>1, <3>2, RunGoes DEF still
    <2>6. CASE goto("retire") /\ UNCHANGED journal
      <3>1. task' = nextTask(task.mode, "retire") /\ "retire" \in stepsOf(phase[d0])
        BY <2>2, <2>6, Goto DEF stepsOf
      <3> QED
        BY <2>1, <2>2, <2>3, <2>6, <3>1, RunGoes DEF still
    <2> QED
      BY <1>9, <2>4, <2>5, <2>6 DEF VerifyCandidate
  <1>10. CASE CurrentRelease
    <2>1. busy /\ task.step = "current" /\ still /\ untouched
      BY <1>1, <1>10 DEF CurrentRelease, Steps
    <2>2. /\ phase[d0] = "candidate-health" /\ task.mode \in {"run", "handler"}
          /\ d0 \in Deployments /\ d0 \in Releases /\ open(d0) /\ hostUp
          /\ up(d0) /\ d0 \in snapshot
          /\ \A d \in Deployments : open(d) => d = d0
      BY <2>1, RunFacts DEF stepsOf
    <2>3. Kept
      BY <2>1, EffectKeeps
    <2>4. CASE abort
      BY <1>5, <2>1, <2>3, <2>4
    <2>5. CASE container[target] = "running" /\ enters("promoting", "promote")
               /\ previous' = [previous EXCEPT ![d0] = target] /\ UNCHANGED candidate
      <3>1. /\ container' = container /\ snapshot' = snapshot /\ target' = target /\ hostUp'
            /\ target \in Releases /\ target # d0
        BY <2>1, <2>2 DEF untouched, docker, still, IInv, TypeOK, Journaled, Unserved, Before
      <3>2. /\ phase' \in [Deployments -> Phases] /\ phase'[d0] = "promoting"
            /\ \A d \in Deployments : d # d0 => phase'[d] = phase[d]
        BY <1>2, <2>2, <2>5 DEF enters, record, Phases, Promoted
      <3>3. /\ previous' \in [Deployments -> Releases \cup {Null}] /\ previous'[d0] = target
            /\ \A d \in Deployments : d # d0 => previous'[d] = previous[d]
        BY <1>2, <2>2, <2>5, <3>1
      <3>4. target \in snapshot /\ container[target] \in {"running", "exited"}
        BY DEF IInv, ServingIsKept
      <3>5. ServingIsKept'
        BY <3>1, <3>4 DEF ServingIsKept
      <3>6. \A e \in Deployments : e < d0 => ~latest(e)'
        <4>1. \A e \in Deployments : e < d0 => d0 > e
          BY <2>2 DEF Deployments
        <4> QED
          BY <2>2, <3>1, <3>3, <4>1, NotNull DEF latest
      <3>7. \A e \in Deployments : d0 < e => phase[e] = "none"
        BY <2>2 DEF IInv, Journaled, Ordered
      <3>8. RollbackSlotKept'
        <4> SUFFICES ASSUME NEW e \in Deployments,
                            phase'[e] \in Promoted \/ (phase'[e] = "succeeded" /\ latest(e)')
                     PROVE  exists(previous[e])' /\ (previous[e] \in snapshot)'
          BY DEF RollbackSlotKept
        <4>1. CASE e = d0
          BY <3>1, <3>3, <3>4, <4>1 DEF exists
        <4>2. CASE e # d0
          <5>1. phase[e] = phase'[e] /\ previous'[e] = previous[e] /\ phase[e] # "none"
            BY <3>2, <3>3, <4>2 DEF Promoted
          <5>2. phase[e] \notin Promoted
            BY <2>2, <4>2 DEF open, Promoted, Terminal
          <5>3. FALSE
            BY <2>2, <3>6, <3>7, <4>2, <5>1, <5>2, Trichotomy
          <5> QED
            BY <5>3
        <4> QED
          BY <4>1, <4>2
      <3>9. Ordered'
        BY <2>2, <3>2 DEF IInv, Journaled, Ordered, open, Terminal
      <3>10. Unserved'
        BY <2>2, <3>1, <3>2, <3>3 DEF IInv, Journaled, Unserved, Before
      <3>11. Traffic'
        <4>1. \A e \in Deployments : e # d0 => phase'[e] \notin Promoted
          BY <2>2, <3>2 DEF open, Promoted, Terminal
        <4> QED
          BY <2>2, <3>1, <3>2, <3>3, <4>1 DEF Traffic, Promoted, up
      <3>12. task' = nextTask(task.mode, "promote")
        BY <2>5, Goto DEF enters
      <3>13. TaskType' /\ TaskFits'
        <4>1. task'.of = d0 /\ task'.mode = task.mode /\ task'.step = "promote"
          BY <3>12 DEF nextTask
        <4>2. TaskType'
          BY <2>2, <3>1, <3>12 DEF TaskType, nextTask, Steps
        <4>3. "promote" \in stepsOf("promoting")
          BY DEF stepsOf
        <4> QED
          BY <2>2, <3>1, <3>2, <4>1, <4>2, <4>3 DEF TaskFits, d0, open, Terminal
      <3> QED
        BY <1>2, <2>3, <2>5, <3>2, <3>3, <3>5, <3>8, <3>9, <3>10, <3>11, <3>13
        DEF RunInv, JournalType, Safe, Journaled
    <2> QED
      BY <1>10, <2>4, <2>5 DEF CurrentRelease
  <1>11. CASE Promote
    <2>1. busy /\ task.step = "promote" /\ effect
      BY <1>1, <1>11 DEF Promote, Steps
    <2>2. phase[d0] = "promoting" /\ task.mode \in {"run", "handler"}
      BY <2>1, RunFacts DEF stepsOf
    <2>3. Kept /\ target' = d0
      BY <2>1, EffectKeeps DEF effect, switchTarget
    <2>4. task' = nextTask(task.mode, "verify promoted") /\ record("post-promotion-health")
      BY <1>11, Goto DEF Promote, enters
    <2>5. /\ "verify promoted" \in stepsOf("post-promotion-health")
          /\ "post-promotion-health" \in Phases
      BY DEF stepsOf, Phases, Promoted
    <2> QED
      BY <1>2, <1>11, <2>1, <2>2, <2>3, <2>4, <2>5, RunEnters DEF Promote, still, Before, Promoted
  <1>12. ASSUME NEW ok \in BOOLEAN, VerifyPromoted(ok)
         PROVE  Kept /\ RunInv'
    <2>1. busy /\ task.step = "verify promoted" /\ still /\ untouched
      BY <1>1, <1>12 DEF VerifyPromoted, Steps
    <2>2. phase[d0] = "post-promotion-health" /\ task.mode \in {"run", "handler"}
      BY <2>1, RunFacts DEF stepsOf
    <2>3. Kept
      BY <2>1, EffectKeeps
    <2>4. CASE abort
      BY <1>5, <2>1, <2>3, <2>4
    <2>5. CASE goto("retain") /\ UNCHANGED journal
      <3>1. "retain" \in stepsOf(phase[d0])
        BY <2>2 DEF stepsOf
      <3> QED
        BY <1>3, <2>1, <2>3, <2>5, <3>1
    <2>6. CASE enters("rolling-back", "restart") /\ UNCHANGED <<candidate, previous>>
      <3>1. task' = nextTask(task.mode, "restart") /\ record("rolling-back")
        BY <2>6, Goto DEF enters
      <3>2. "restart" \in stepsOf("rolling-back") /\ "rolling-back" \in Phases
        BY DEF stepsOf, Phases, Promoted
      <3> QED
        BY <1>2, <2>1, <2>2, <2>3, <2>6, <3>1, <3>2, RunEnters DEF still, Before, Promoted
    <2> QED
      BY <1>12, <2>4, <2>5, <2>6 DEF VerifyPromoted, journal
  <1>13. CASE Retain
    <2>1. busy /\ task.step = "retain" /\ still /\ (effect \/ untouched) /\ UNCHANGED journal
      BY <1>1, <1>13 DEF Retain, Steps
    <2>2. /\ phase[d0] = "post-promotion-health" /\ task.mode \in {"run", "handler"}
          /\ "retain" \in stepsOf(phase[d0]) /\ "stop" \in stepsOf(phase[d0])
      BY <2>1, RunFacts DEF stepsOf
    <2>3. Kept
      BY <2>1, EffectKeeps
    <2>4. CASE removable = {} /\ untouched /\ goto("stop")
      <3>1. task' = nextTask(task.mode, "stop")
        BY <2>4, Goto
      <3>2. {r \in Releases : container'[r] # "absent"} \subseteq {d0, previous[d0]}
        BY <2>4 DEF removable, exists, untouched, docker
      <3> QED
        BY <2>1, <2>2, <2>3, <3>1, <3>2, RunGoes DEF still
    <2>5. CASE UNCHANGED task
      <3>1. task' = nextTask(task.mode, "retain")
        BY <2>1, <2>5 DEF nextTask, IInv, TypeOK, d0
      <3> QED
        BY <2>1, <2>2, <2>3, <3>1, RunGoes DEF still
    <2> QED
      BY <1>13, <2>4, <2>5 DEF Retain
  <1>14. CASE StopPrevious
    <2>1. busy /\ task.step = "stop" /\ still /\ effect /\ ends("succeeded")
      BY <1>1, <1>14 DEF StopPrevious, Steps
    <2>2. phase[d0] = "post-promotion-health" /\ "succeeded" \in Terminal
      BY <2>1, RunFacts DEF stepsOf, Terminal
    <2>3. Kept
      BY <2>1, EffectKeeps
    <2> QED
      BY <1>4, <2>1, <2>2, <2>3 DEF Before, ends
  <1>15. CASE RestartPrevious
    <2>1. busy /\ task.step = "restart" /\ still /\ (effect \/ untouched)
      BY <1>1, <1>15 DEF RestartPrevious, Steps
    <2>2. phase[d0] = "rolling-back"
      BY <2>1, RunFacts DEF stepsOf
    <2>3. Kept /\ "reverify" \in stepsOf(phase[d0])
      BY <2>1, <2>2, EffectKeeps DEF stepsOf
    <2> QED
      BY <1>3, <1>5, <1>15, <2>1, <2>3 DEF RestartPrevious
  <1>16. ASSUME NEW ok \in BOOLEAN, VerifyPrevious(ok)
         PROVE  Kept /\ RunInv'
    <2>1. busy /\ task.step = "reverify" /\ still /\ untouched
      BY <1>1, <1>16 DEF VerifyPrevious, Steps
    <2>2. phase[d0] = "rolling-back" /\ task.mode \in {"run", "handler"}
      BY <2>1, RunFacts DEF stepsOf
    <2>3. Kept /\ "switch back" \in stepsOf(phase[d0])
      BY <2>1, <2>2, EffectKeeps DEF stepsOf
    <2>4. CASE abort
      BY <1>5, <2>1, <2>3, <2>4
    <2>5. CASE container[previous[d0]] = "running" /\ goto("switch back") /\ UNCHANGED journal
      <3>1. task' = nextTask(task.mode, "switch back")
        BY <2>5, Goto
      <3>2. container'[previous[d0]] \in {"running", "exited"}
        BY <2>1, <2>5 DEF untouched, docker
      <3> QED
        BY <2>1, <2>2, <2>3, <2>5, <3>1, <3>2, RunGoes DEF still
    <2> QED
      BY <1>16, <2>4, <2>5 DEF VerifyPrevious
  <1>17. CASE SwitchBack
    <2>1. busy /\ task.step = "switch back" /\ still /\ effect /\ goto("retire") /\ UNCHANGED journal
      BY <1>1, <1>17 DEF SwitchBack, Steps
    <2>2. phase[d0] = "rolling-back" /\ task.mode \in {"run", "handler"}
      BY <2>1, RunFacts DEF stepsOf
    <2>3. Kept /\ "retire" \in stepsOf(phase[d0]) /\ task' = nextTask(task.mode, "retire")
      BY <2>1, <2>2, EffectKeeps, Goto DEF stepsOf
    <2>4. target' = previous[d0]
      BY <2>1 DEF effect, switchTarget
    <2> QED
      BY <2>1, <2>2, <2>3, <2>4, RunGoes DEF still
  <1>18. CASE RetireCandidate
    <2>1. busy /\ task.step = "retire" /\ still /\ effect /\ goto("forget") /\ UNCHANGED journal
      BY <1>1, <1>18 DEF RetireCandidate, Steps
    <2>2. task.step \in stepsOf(phase[d0]) /\ task.mode \in {"run", "handler"}
      BY <2>1, RunFacts
    <2>3. Kept /\ "forget" \in stepsOf(phase[d0]) /\ task' = nextTask(task.mode, "forget")
      BY <2>1, <2>2, EffectKeeps, Goto DEF stepsOf
    <2>4. target' = target
      BY <2>1 DEF effect, removeContainer
    <2>5. phase[d0] = "rolling-back" => target' = previous[d0]
      BY <2>1, <2>4 DEF IInv, TaskFits, busy, Off
    <2> QED
      BY <2>1, <2>2, <2>3, <2>5, RunGoes DEF still
  <1>19. CASE ForgetCandidate
    <2>1. busy /\ task.step = "forget" /\ still /\ effect /\ ends(closing)
      BY <1>1, <1>19 DEF ForgetCandidate, Steps
    <2>2. Kept /\ closing \in Terminal /\ (phase[d0] \in Before => closing = "failed")
      BY <2>1, EffectKeeps DEF closing, Terminal, Before
    <2> QED
      BY <1>4, <2>1, <2>2 DEF ends
  <1> QED
    BY <1>6, <1>7, <1>8, <1>9, <1>10, <1>11, <1>12, <1>13, <1>14, <1>15, <1>16, <1>17, <1>18, <1>19
    DEF RunStep

---------------------------------------------------------------------------
(* Everything else that can happen.                                         *)

LEMMA OtherKeeps ==
  ASSUME IInv,
         \/ RequestDeployment \/ ResolutionFails \/ CallFails \/ JournalFails \/ HostEnds
         \/ HostStarts \/ UNCHANGED vars
         \/ \E d \in Deployments : AdmitDeployment(d)
         \/ \E r \in Releases : ContainerExits(r) \/ ContainerRestarts(r)
  PROVE  IInv'
  <1>1. /\ candidate \in [Deployments -> BOOLEAN] /\ previous \in [Deployments -> Releases \cup {Null}]
        /\ phase \in [Deployments -> Phases] /\ hostUp \in BOOLEAN
        /\ resolving \in BOOLEAN /\ unrecorded \in BOOLEAN /\ faults \in 0 .. MaxFaults
        /\ container \in [Releases -> {"absent", "running", "exited", "stopped"}]
        /\ task \in [of : Releases, mode : {"off", "run", "handler"}, step : Steps]
        /\ snapshot \subseteq Releases /\ target \in Releases
    BY DEF IInv, TypeOK
  <1>2. fault => faults' \in 0 .. MaxFaults
    BY <1>1, DeploymentAssumption DEF fault
  <1>3. ASSUME UNCHANGED <<docker, target>> PROVE Kept
    BY <1>1, <1>3
    DEF docker, Kept, IInv, ServingIsKept, RollbackSlotKept, Journaled, Unserved, Traffic, slot, up, exists
  <1>4. ASSUME UNCHANGED <<journal, docker, target, task>>, hostUp' = hostUp,
               resolving' \in BOOLEAN, unrecorded' \in BOOLEAN, faults' \in 0 .. MaxFaults
        PROVE  IInv'
    <2>1. Kept /\ JournalType' /\ TaskType'
      BY <1>1, <1>3, <1>4 DEF journal, JournalType, TaskType
    <2>2. Safe'
      BY <1>4, <2>1, JournalStays DEF journal
    <2>3. TaskFits'
      BY <1>4 DEF IInv, TaskFits, journal, docker, d0, open, up, removable, exists
    <2> QED
      BY <1>4, <2>1, <2>2, <2>3, Assembled DEF RunInv
  <1>5. CASE RequestDeployment \/ ResolutionFails \/ UNCHANGED vars
    BY <1>1, <1>4, <1>5 DEF RequestDeployment, ResolutionFails, vars, journal, docker, host
  <1>6. CASE CallFails
    <2>1. busy /\ Kept /\ abort /\ UNCHANGED <<hostUp, resolving, unrecorded>>
      BY <1>6, EffectKeeps DEF CallFails
    <2> QED
      BY <1>1, <1>2, <1>6, <2>1, AbortKeeps, Assembled DEF CallFails
  <1>7. CASE JournalFails
    <2>1. /\ busy /\ Kept /\ task' = Off /\ hostUp' \in BOOLEAN /\ resolving' \in BOOLEAN
          /\ UNCHANGED <<candidate, previous>> /\ faults' \in 0 .. MaxFaults /\ unrecorded' \in BOOLEAN
      BY <1>1, <1>2, <1>7, EffectKeeps DEF JournalFails
    <2>2. \/ UNCHANGED phase
          \/ record("failed") /\ phase[d0] \in Promoted
      BY <1>7 DEF JournalFails
    <2>3. "failed" \in Terminal
      BY DEF Terminal
    <2>4. RunInv'
      BY <2>1, <2>2, <2>3, RunStops
    <2> QED
      BY <2>1, <2>4, Assembled
  <1>8. CASE HostEnds
    <2>1. busy \/ task = Off
      BY DEF IInv, TaskFits, busy, Off
    <2>2. /\ task' = Off /\ hostUp' \in BOOLEAN /\ resolving' \in BOOLEAN /\ unrecorded' \in BOOLEAN
          /\ faults' \in 0 .. MaxFaults /\ UNCHANGED journal /\ (effect \/ untouched)
      BY <1>2, <1>8 DEF HostEnds
    <2>3. Kept
      <3>1. task = Off /\ effect => untouched
        BY DEF effect, Off
      <3> QED
        BY <1>3, <2>1, <2>2, <3>1, EffectKeeps DEF untouched
    <2>4. Safe' /\ JournalType'
      BY <1>1, <2>2, <2>3, JournalStays DEF journal, JournalType
    <2>5. TaskType' /\ TaskFits'
      BY <2>2, DeploymentAssumption DEF TaskType, TaskFits, Off, Releases, Steps
    <2> QED
      BY <2>2, <2>3, <2>4, <2>5, Assembled DEF RunInv
  <1>9. CASE HostStarts
    <2>1. /\ UNCHANGED <<journal, docker, target, resolving, unrecorded, faults>> /\ hostUp' = TRUE
          /\ ~hostUp
      BY <1>9 DEF HostStarts
    <2>2. Kept /\ Safe' /\ JournalType'
      BY <1>1, <1>3, <2>1, JournalStays DEF journal, JournalType
    <2>3. task = Off
      BY <2>1 DEF IInv, TaskFits
    <2>4. CASE UNCHANGED task
      BY <1>1, <2>1, <2>2, <2>3, <2>4, Assembled DEF RunInv, TaskType, TaskFits, Off
    <2>5. ASSUME NEW e \in Deployments, open(e),
                 task' = [of |-> e, mode |-> "run", step |-> entry(phase[e])]
          PROVE  IInv'
      <3>1. /\ entry(phase[e]) \in stepsOf(phase[e])
            /\ entry(phase[e]) \notin {"current", "stop", "switch back", "retire", "forget"}
        BY <1>1, <2>5 DEF entry, stepsOf, open, Phases, Promoted, Terminal
      <3>2. entry(phase[e]) \in Steps /\ e \in Releases
        <4>1. phase[e] \in Phases
          BY <1>1
        <4> QED
          BY <3>1, <4>1, StepNames, AreReleases
      <3>3. TaskType'
        BY <2>1, <2>5, <3>2 DEF TaskType
      <3>4. /\ task'.of = e /\ task'.mode = "run" /\ task'.step = entry(phase[e])
            /\ phase' = phase
        BY <2>1, <2>5 DEF journal
      <3>5. TaskFits'
        BY <2>1, <2>5, <3>1, <3>4 DEF TaskFits, d0, open
      <3> QED
        BY <1>1, <2>1, <2>2, <3>3, <3>5, Assembled DEF RunInv
    <2> QED
      BY <1>9, <2>4, <2>5 DEF HostStarts
  <1>10. ASSUME NEW e \in Deployments, AdmitDeployment(e)
         PROVE  IInv'
    <2>1. /\ phase' = [phase EXCEPT ![e] = "admitted"]
          /\ task' = [of |-> e, mode |-> "run", step |-> "begin"]
          /\ UNCHANGED <<candidate, previous, docker, target, hostUp, unrecorded, faults>>
          /\ hostUp /\ resolving' = FALSE /\ idle
          /\ phase[e] = "none" /\ \A g \in 1 .. e - 1 : phase[g] # "none"
      BY <1>10 DEF AdmitDeployment, fresh
    <2>2. Kept /\ UNCHANGED <<container, snapshot, target>>
      BY <1>3, <2>1 DEF docker
    <2>3. /\ phase' \in [Deployments -> Phases] /\ phase'[e] = "admitted"
          /\ \A g \in Deployments : g # e => phase'[g] = phase[g]
      BY <1>1, <2>1 DEF Phases
    <2>4. ServingIsKept'
      BY <2>2 DEF IInv, ServingIsKept
    <2>5. RollbackSlotKept'
      BY <2>1, <2>2, <2>3 DEF IInv, RollbackSlotKept, latest, exists, Promoted
    <2>6. Ordered'
      <3>1. \A g \in Deployments : g < e => phase[g] # "none"
        BY <2>1 DEF Deployments
      <3>2. \A g \in Deployments : e < g => phase[g] = "none"
        BY <2>1 DEF IInv, Journaled, Ordered
      <3> SUFFICES ASSUME NEW g \in Deployments, NEW h \in Deployments
                   PROVE  /\ phase'[g] # "none" /\ h < g => phase'[h] # "none"
                          /\ open(g)' /\ g < h => phase'[h] = "none"
        BY DEF Ordered
      <3>3. phase'[g] # "none" /\ h < g => phase'[h] # "none"
        BY <2>3, <3>1 DEF IInv, Journaled, Ordered
      <3>4. open(g)' /\ g < h => phase'[h] = "none"
        <4>1. CASE g = e
          BY <2>3, <3>2, <4>1, Trichotomy DEF Deployments
        <4>2. CASE g # e
          BY <2>1, <2>3, <4>2 DEF open, idle
        <4> QED
          BY <4>1, <4>2
      <3> QED
        BY <3>3, <3>4
    <2>7. Unserved' /\ Traffic'
      BY <2>1, <2>2, <2>3 DEF IInv, Journaled, Unserved, Traffic, up, Before, Promoted
    <2>8. JournalType' /\ TaskType'
      <3>1. [of |-> e, mode |-> "run", step |-> "begin"]
              \in [of : Releases, mode : {"off", "run", "handler"}, step : Steps]
        BY AreReleases DEF Steps
      <3> QED
        BY <1>1, <2>1, <2>3, <3>1 DEF JournalType, TaskType
    <2>9. TaskFits'
      <3>1. "begin" \in stepsOf("admitted")
        BY DEF stepsOf
      <3>2. task'.of = e /\ task'.mode = "run" /\ task'.step = "begin" /\ hostUp'
        BY <2>1
      <3> QED
        BY <2>3, <3>1, <3>2 DEF TaskFits, d0, open, Terminal
    <2> QED
      BY <1>1, <2>1, <2>2, <2>4, <2>5, <2>6, <2>7, <2>8, <2>9, Assembled DEF RunInv, Safe, Journaled
  <1>11. ASSUME NEW r \in Releases, ContainerExits(r) \/ ContainerRestarts(r)
         PROVE  IInv'
    <2>1. /\ container[r] \in {"running", "exited"} /\ UNCHANGED <<journal, snapshot, target, host>>
          /\ \E s \in {"running", "exited"} : container' = [container EXCEPT ![r] = s]
          /\ faults' \in 0 .. MaxFaults
      BY <1>1, <1>2, <1>11 DEF ContainerExits, ContainerRestarts
    <2>2. /\ container' \in [Releases -> {"absent", "running", "exited", "stopped"}]
          /\ \A q \in Releases : (container'[q] # "absent") = (container[q] # "absent")
          /\ \A q \in Releases : container[q] \in {"running", "exited"}
                                => container'[q] \in {"running", "exited"}
      BY <1>1, <2>1
    <2>3. Kept
      <3>1. \A d \in Deployments : d \in Releases
        BY DeploymentAssumption DEF Deployments, Releases
      <3>2. \A d \in Deployments : slot(d) => previous[d] \in snapshot /\ exists(previous[d])
        BY DEF IInv, RollbackSlotKept, slot
      <3> QED
        BY <1>1, <2>1, <2>2, <3>1, <3>2
        DEF Kept, IInv, ServingIsKept, Journaled, Unserved, Traffic, up, exists
    <2>4. Safe' /\ JournalType' /\ TaskType'
      BY <1>1, <2>1, <2>3, JournalStays DEF journal, host, JournalType, TaskType
    <2>5. TaskFits'
      <3>1. task' = task /\ hostUp' = hostUp /\ phase' = phase /\ previous' = previous
            /\ snapshot' = snapshot /\ target' = target
        BY <2>1 DEF host, journal
      <3>2. removable' = removable
        BY <2>2, <3>1 DEF removable, exists, d0
      <3>3. CASE task = Off
        BY <3>1, <3>3 DEF TaskFits
      <3>4. CASE task # Off
        <4>1. /\ hostUp /\ d0 \in Deployments /\ open(d0) /\ d0 \in Releases
              /\ task.mode \in {"run", "handler"} /\ task.step \in stepsOf(phase[d0])
              /\ task.step = "current" => up(d0) /\ d0 \in snapshot
              /\ task.step = "stop" => removable = {}
              /\ task.step = "switch back" => up(previous[d0])
              /\ phase[d0] = "rolling-back" /\ task.step \in {"retire", "forget"}
                   => target = previous[d0]
          BY <3>4, AreReleases DEF IInv, TaskFits
        <4>2. task.step = "switch back" => previous[d0] \in Releases
          BY <4>1 DEF IInv, Journaled, Traffic, stepsOf, Promoted
        <4>3. task.step = "switch back" => up(previous[d0])'
          BY <2>2, <3>1, <4>1, <4>2 DEF up, d0
        <4>4. task.step = "current" => up(d0)' /\ d0' \in snapshot'
          BY <2>2, <3>1, <4>1 DEF up, d0
        <4> QED
          BY <3>1, <3>2, <4>1, <4>3, <4>4 DEF TaskFits, d0, open
      <3> QED
        BY <3>3, <3>4
    <2> QED
      BY <1>1, <2>1, <2>3, <2>4, <2>5, Assembled DEF RunInv, host
  <1> QED
    BY <1>5, <1>6, <1>7, <1>8, <1>9, <1>10, <1>11

---------------------------------------------------------------------------
(* The invariant, and what follows from it.                                 *)

LEMMA InitHolds == Init => IInv
  <1> SUFFICES ASSUME Init PROVE IInv
    OBVIOUS
  <1>1. 0 \in Releases /\ 0 \notin Deployments /\ 0 \in 0 .. MaxFaults
    BY DeploymentAssumption DEF Releases, Deployments
  <1>2. TypeOK
    BY <1>1 DEF Init, TypeOK, Phases, Off, Steps
  <1>3. ServingIsKept
    BY <1>1 DEF Init, ServingIsKept
  <1>4. RollbackSlotKept /\ Ordered /\ TaskFits
    BY DEF Init, RollbackSlotKept, Ordered, TaskFits, Promoted, open
  <1>5. Unserved /\ Traffic
    <2>1. \A d, e \in Deployments : previous[e] # d
      BY DeploymentAssumption DEF Init, Deployments
    <2> QED
      BY <1>1, <2>1 DEF Init, Unserved, Traffic, Promoted
  <1> QED
    BY <1>2, <1>3, <1>4, <1>5 DEF IInv, Journaled

(* Types, what serves, what can be gone back to, and the run in memory fit  *)
(* together: no one of these invariants holds step by step without the      *)
(* others.                                                                  *)
THEOREM Invariance == Spec => []IInv
  <1>1. IInv /\ [Next]_vars => IInv'
    BY RunStepKeeps, OtherKeeps DEF Next
  <1> QED
    BY InitHolds, <1>1, PTL DEF Spec

(* Every behaviour of a deployment is well typed.                           *)
THEOREM Typing == Spec => []TypeOK
  <1>1. IInv => TypeOK
    BY DEF IInv
  <1> QED
    BY Invariance, <1>1, PTL

(* No deployment removes or stops the release that serves, wherever a call  *)
(* fails or the host ends.                                                  *)
THEOREM ServingKept == Spec => []ServingIsKept
  <1>1. IInv => ServingIsKept
    BY DEF IInv
  <1> QED
    BY Invariance, <1>1, PTL

(* The release to go back to is kept until the next promotion.              *)
THEOREM SlotKept == Spec => []RollbackSlotKept
  <1>1. IInv => RollbackSlotKept
    BY DEF IInv
  <1> QED
    BY Invariance, <1>1, PTL

---------------------------------------------------------------------------
(* What a step can do to the status and to the traffic.                     *)
clean == {r \in Releases : container'[r] # "absent"} \subseteq {d0, previous[d0]}
Recorded(p) ==
  /\ busy /\ record(p) /\ UNCHANGED previous
  /\ \/ phase[d0] \in Before /\ p \in (Before \cup {"failed"}) \ {"none"}
     \/ phase[d0] \in Promoted /\ p \in Promoted \cup {"failed"}
     \/ /\ p = "succeeded" /\ phase[d0] = "post-promotion-health"
        /\ target = d0 /\ UNCHANGED target /\ clean
     \/ /\ p = "rolled-back" /\ phase[d0] = "rolling-back"
        /\ target = previous[d0] /\ UNCHANGED target
StepShape ==
  /\ \/ UNCHANGED <<phase, previous>>
     \/ \E d \in Deployments :
          /\ phase[d] = "none" /\ idle /\ phase' = [phase EXCEPT ![d] = "admitted"]
          /\ UNCHANGED previous
     \/ /\ busy /\ phase[d0] \in Before /\ record("promoting")
        /\ previous' = [previous EXCEPT ![d0] = target]
     \/ \E p \in Phases : Recorded(p)
  /\ UNCHANGED target \/ (busy /\ phase[d0] \in Promoted /\ target' \in {d0, previous[d0]})

LEMMA EffectTarget ==
  ASSUME IInv, effect \/ untouched
  PROVE  UNCHANGED target \/ (busy /\ phase[d0] \in Promoted /\ target' \in {d0, previous[d0]})
  <1>1. CASE task.step \in {"promote", "switch back"}
    <2>1. busy
      <3>1. task # Off
        <4>1. Off.step = "none"
          BY DEF Off
        <4> QED
          BY <1>1, <4>1
      <3>2. task.mode \in {"run", "handler"}
        BY <3>1 DEF IInv, TaskFits
      <3> QED
        BY <3>2 DEF busy
    <2>2. Kept /\ d0 \in Deployments
      BY <2>1, EffectKeeps, RunFacts
    <2> QED
      BY <1>1, <2>1, <2>2, RunFacts DEF stepsOf, Promoted, Kept
  <1>2. CASE task.step \notin {"promote", "switch back"}
    <2>1. CASE task.step \in {"build", "start", "retain", "stop", "restart"}
      BY <2>1 DEF effect, untouched, startRelease, removeObsolete, stopRelease
    <2>2. CASE task.step \in {"retire", "forget"}
      BY <2>2 DEF effect, untouched, removeContainer, forget
    <2>3. CASE task.step \notin {"build", "start", "promote", "retain", "stop", "restart",
                               "switch back", "retire", "forget"}
      BY <2>3 DEF effect, untouched
    <2> QED
      BY <1>2, <2>1, <2>2, <2>3
  <1> QED
    BY <1>1, <1>2

LEMMA AbortShape ==
  ASSUME IInv, busy, abort
  PROVE  UNCHANGED <<phase, previous>> \/ \E p \in Phases : Recorded(p)
  <1>1. phase[d0] \in Before \ {"none"} \/ phase[d0] \in Promoted
    BY RunFacts DEF IInv, TypeOK, open, Before, Phases
  <1>2. CASE ends("failed")
    <2>1. record("failed") /\ UNCHANGED previous /\ "failed" \in Phases
      BY <1>2 DEF ends, Phases, Terminal
    <2>2. Recorded("failed")
      BY <1>1, <2>1 DEF Recorded
    <2> QED
      BY <2>1, <2>2
  <1>3. CASE phase[d0] \in Promoted /\ record("rolling-back")
    <2>1. "rolling-back" \in Phases /\ "rolling-back" \in Promoted
      BY DEF Phases, Promoted
    <2>2. Recorded("rolling-back")
      BY <1>3, <2>1 DEF Recorded, abort
    <2> QED
      BY <2>1, <2>2
  <1>4. CASE UNCHANGED phase
    BY <1>4 DEF abort
  <1> QED
    BY <1>2, <1>3, <1>4 DEF abort

LEMMA RunStepShape ==
  ASSUME IInv, RunStep
  PROVE  StepShape
  <1>1. \A step \in Steps \ {"none"} : at(step) => busy /\ task.step = step
    BY BusyAt DEF at
  <1>2. effect \/ untouched
    BY DEF RunStep, Begin, BuildCandidate, StartCandidate, VerifyCandidate, VerifyPromoted,
           VerifyPrevious, CurrentRelease, Promote, Retain, StopPrevious, RestartPrevious,
           SwitchBack, RetireCandidate, ForgetCandidate
  <1> SUFFICES \/ UNCHANGED <<phase, previous>>
               \/ /\ busy /\ phase[d0] \in Before /\ record("promoting")
                  /\ previous' = [previous EXCEPT ![d0] = target]
               \/ \E p \in Phases : Recorded(p)
    BY <1>2, EffectTarget DEF StepShape
  <1>3. ASSUME busy, NEW p \in Phases, record(p), UNCHANGED previous,
               \/ phase[d0] \in Before /\ p \in (Before \cup {"failed"}) \ {"none"}
               \/ phase[d0] \in Promoted /\ p \in Promoted \cup {"failed"}
        PROVE  \E q \in Phases : Recorded(q)
    BY <1>3 DEF Recorded
  <1>4. CASE Begin
    <2>1. busy /\ task.step = "begin" /\ record("building") /\ UNCHANGED previous
      BY <1>1, <1>4 DEF Begin, Steps, enters
    <2>2. phase[d0] = "admitted" /\ "building" \in Phases
      BY <2>1, RunFacts DEF stepsOf, Phases
    <2> QED
      BY <1>3, <2>1, <2>2 DEF Before
  <1>5. CASE BuildCandidate
    <2>1. busy /\ task.step = "build" /\ record("candidate-starting") /\ UNCHANGED previous
      BY <1>1, <1>5 DEF BuildCandidate, Steps, enters
    <2>2. phase[d0] = "building" /\ "candidate-starting" \in Phases
      BY <2>1, RunFacts DEF stepsOf, Phases
    <2> QED
      BY <1>3, <2>1, <2>2 DEF Before
  <1>6. CASE StartCandidate
    <2>1. busy /\ task.step = "start"
      BY <1>1, <1>6 DEF StartCandidate, Steps
    <2>2. phase[d0] = "candidate-starting" /\ "candidate-health" \in Phases
      BY <2>1, RunFacts DEF stepsOf, Phases
    <2>3. abort \/ (record("candidate-health") /\ UNCHANGED previous)
      BY <1>6 DEF StartCandidate, enters
    <2> QED
      BY <1>3, <2>1, <2>2, <2>3, AbortShape DEF Before
  <1>7. ASSUME NEW ok \in BOOLEAN, VerifyCandidate(ok) \/ VerifyPrevious(ok)
        PROVE  UNCHANGED <<phase, previous>> \/ \E p \in Phases : Recorded(p)
    <2>1. busy /\ (abort \/ UNCHANGED <<phase, previous>>)
      BY <1>1, <1>7 DEF VerifyCandidate, VerifyPrevious, Steps, journal
    <2> QED
      BY <2>1, AbortShape
  <1>8. CASE CurrentRelease
    <2>1. busy /\ task.step = "current"
      BY <1>1, <1>8 DEF CurrentRelease, Steps
    <2>2. phase[d0] = "candidate-health"
      BY <2>1, RunFacts DEF stepsOf
    <2> QED
      BY <1>8, <2>1, <2>2, AbortShape DEF CurrentRelease, enters, Before
  <1>9. CASE Promote
    <2>1. busy /\ task.step = "promote" /\ record("post-promotion-health") /\ UNCHANGED previous
      BY <1>1, <1>9 DEF Promote, Steps, enters
    <2>2. phase[d0] = "promoting" /\ "post-promotion-health" \in Phases
      BY <2>1, RunFacts DEF stepsOf, Phases, Promoted
    <2> QED
      BY <1>3, <2>1, <2>2 DEF Promoted
  <1>10. ASSUME NEW ok \in BOOLEAN, VerifyPromoted(ok)
         PROVE  UNCHANGED <<phase, previous>> \/ \E p \in Phases : Recorded(p)
    <2>1. busy /\ task.step = "verify promoted"
      BY <1>1, <1>10 DEF VerifyPromoted, Steps
    <2>2. phase[d0] = "post-promotion-health" /\ "rolling-back" \in Phases
      BY <2>1, RunFacts DEF stepsOf, Phases, Promoted
    <2>3. abort \/ UNCHANGED <<phase, previous>> \/ (record("rolling-back") /\ UNCHANGED previous)
      BY <1>10 DEF VerifyPromoted, enters, journal
    <2> QED
      BY <1>3, <2>1, <2>2, <2>3, AbortShape DEF Promoted
  <1>11. CASE Retain \/ SwitchBack \/ RetireCandidate
    BY <1>11 DEF Retain, SwitchBack, RetireCandidate, journal
  <1>12. CASE StopPrevious
    <2>1. busy /\ task.step = "stop" /\ effect /\ record("succeeded") /\ UNCHANGED previous
      BY <1>1, <1>12 DEF StopPrevious, Steps, ends
    <2>2. /\ phase[d0] = "post-promotion-health" /\ "succeeded" \in Phases
          /\ d0 \in Deployments /\ removable = {}
      BY <2>1, RunFacts DEF stepsOf, Phases, Terminal
    <2>3. target = d0
      BY <2>2 DEF IInv, Journaled, Traffic
    <2>4. stopRelease(previous[d0])
      BY <2>1 DEF effect
    <2>5. clean /\ target = d0 /\ UNCHANGED target
      BY <2>2, <2>3, <2>4 DEF clean, removable, exists, stopRelease, IInv, TypeOK
    <2> QED
      BY <2>1, <2>2, <2>5 DEF Recorded
  <1>13. CASE RestartPrevious
    <2>1. busy
      BY <1>1, <1>13 DEF RestartPrevious, Steps
    <2> QED
      BY <1>13, <2>1, AbortShape DEF RestartPrevious, journal
  <1>14. CASE ForgetCandidate
    <2>1. busy /\ task.step = "forget" /\ effect /\ record(closing) /\ UNCHANGED previous
      BY <1>1, <1>14 DEF ForgetCandidate, Steps, ends
    <2>2. phase[d0] \in Before \cup {"rolling-back"}
      BY <2>1, RunFacts DEF stepsOf, Before
    <2>3. target' = target
      BY <2>1 DEF effect, forget
    <2>4. phase[d0] = "rolling-back" => target = previous[d0]
      BY <2>1, <2>3 DEF IInv, TaskFits, busy, Off
    <2>5. closing \in Phases
      BY DEF closing, Phases, Terminal
    <2>6. Recorded(closing)
      BY <2>1, <2>2, <2>3, <2>4 DEF Recorded, closing, Before
    <2> QED
      BY <2>5, <2>6
  <1> QED
    BY <1>4, <1>5, <1>6, <1>7, <1>8, <1>9, <1>10, <1>11, <1>12, <1>13, <1>14 DEF RunStep

LEMMA Shape ==
  ASSUME IInv, [Next]_vars
  PROVE  StepShape
  <1>1. CASE RunStep
    BY <1>1, RunStepShape
  <1>2. CASE CallFails
    BY <1>2, EffectTarget, AbortShape DEF CallFails, StepShape
  <1>3. CASE JournalFails
    <2>1. busy /\ (effect \/ untouched) /\ UNCHANGED previous
      BY <1>3 DEF JournalFails
    <2>2. UNCHANGED phase \/ (phase[d0] \in Promoted /\ record("failed") /\ "failed" \in Phases)
      BY <1>3 DEF JournalFails, Phases, Terminal
    <2>3. UNCHANGED phase \/ \E p \in Phases : Recorded(p)
      BY <2>1, <2>2 DEF Recorded
    <2> QED
      BY <2>1, <2>3, EffectTarget DEF StepShape
  <1>4. CASE HostEnds
    BY <1>4, EffectTarget DEF HostEnds, StepShape, journal
  <1>5. CASE \E d \in Deployments : AdmitDeployment(d)
    BY <1>5 DEF AdmitDeployment, fresh, StepShape
  <1>6. CASE RequestDeployment \/ ResolutionFails \/ HostStarts
    BY <1>6 DEF RequestDeployment, ResolutionFails, HostStarts, StepShape, journal
  <1>7. CASE \E r \in Releases : ContainerExits(r) \/ ContainerRestarts(r)
    BY <1>7 DEF ContainerExits, ContainerRestarts, StepShape, journal
  <1>8. CASE UNCHANGED vars
    BY <1>8 DEF vars, journal, StepShape
  <1> QED
    BY <1>1, <1>2, <1>3, <1>4, <1>5, <1>6, <1>7, <1>8 DEF Next

(* A deployment that succeeds leaves two containers: the one that serves    *)
(* and the one to go back to.                                               *)
THEOREM CleansUp == Spec => SuccessCleansUp
  <1> DEFINE Clean == \A d \in Deployments :
                        phase[d] # "succeeded" /\ phase'[d] = "succeeded" =>
                          {r \in Releases : container'[r] # "absent"} \subseteq {d, previous[d]}
  <1>1. ASSUME IInv, [Next]_vars PROVE [Clean]_vars
    <2> SUFFICES ASSUME NEW e \in Deployments, phase[e] # "succeeded", phase'[e] = "succeeded"
                 PROVE  {r \in Releases : container'[r] # "absent"} \subseteq {e, previous[e]}
      OBVIOUS
    <2>1. phase \in [Deployments -> Phases]
      BY <1>1 DEF IInv, TypeOK
    <2>2. PICK p \in Phases : Recorded(p)
      BY <1>1, <2>1, Shape DEF StepShape, record
    <2>3. p = "succeeded" /\ e = d0
      BY <2>1, <2>2 DEF Recorded, record
    <2>4. clean
      BY <2>2, <2>3 DEF Recorded, Before, Promoted
    <2> QED
      BY <2>3, <2>4 DEF clean
  <1> QED
    BY Invariance, <1>1, PTL DEF Spec, SuccessCleansUp

---------------------------------------------------------------------------
(* The deployment implements ReleaseSwitch.                                 *)
back == IF rollbackTo = {} THEN target ELSE CHOOSE r \in rollbackTo : TRUE

BackMeans ==
  /\ \A d \in Deployments : phase[d] \in Promoted => back = previous[d]
  /\ (\A d \in Deployments : phase[d] \notin Promoted) => back = target

LEMMA BackIs == IInv => BackMeans
  <1> SUFFICES ASSUME IInv PROVE BackMeans
    OBVIOUS
  <1>1. \A d \in Deployments : open(d) /\ previous[d] # Null <=> phase[d] \in Promoted
    BY NotNull DEF IInv, TypeOK, Journaled, Unserved, Traffic, open, Phases, Before, Promoted, Terminal
  <1>2. ASSUME NEW e \in Deployments, phase[e] \in Promoted
        PROVE  back = previous[e]
    <2>1. \A d \in Deployments : phase[d] \in Promoted => d = e
      BY <1>1, <1>2, OneOpen DEF IInv, Journaled
    <2>2. rollbackTo = {previous[e]}
      BY <1>1, <1>2, <2>1 DEF rollbackTo
    <2> QED
      BY <2>2 DEF back
  <1>3. ASSUME \A d \in Deployments : phase[d] \notin Promoted
        PROVE  back = target
    BY <1>1, <1>3 DEF rollbackTo, back
  <1> QED
    BY <1>2, <1>3 DEF BackMeans

LEMMA BackWillBe == IInv' => BackMeans'
  BY BackIs, PTL

LEMMA InitPromises == Init /\ IInv => Promise!Init
  <1> SUFFICES ASSUME Init, IInv PROVE Promise!Init
    OBVIOUS
  <1>1. \A d \in Deployments : phase[d] \notin Promoted /\ outcomeOf(d) = "none"
    BY DEF Init, Promoted, outcomeOf, open
  <1>2. back = target /\ target = 0
    BY <1>1, BackIs DEF Init, BackMeans
  <1> QED
    BY <1>1, <1>2 DEF Promise!Init, Promise!Deployments, Deployments, back

LEMMA StepPromises ==
  ASSUME IInv, IInv', [Next]_vars
  PROVE  [Promise!Next]_Promise!vars
  <1> DEFINE outcome == [d \in Deployments |-> outcomeOf(d)]
  <1>1. /\ phase \in [Deployments -> Phases] /\ phase' \in [Deployments -> Phases]
        /\ previous \in [Deployments -> Releases \cup {Null}]
    BY DEF IInv, TypeOK
  <1>2. BackMeans /\ BackMeans'
    BY BackIs, BackWillBe
  <1>3. Promise!Deployments = Deployments
    BY DEF Promise!Deployments, Deployments
  <1>4. ASSUME outcome' = outcome, target' = target, back' = back
        PROVE  UNCHANGED Promise!vars
    BY <1>3, <1>4 DEF Promise!vars, back
  <1>5. ASSUME NEW e \in Deployments, open(e), outcome' = outcome,
               target' \in {e, back}, back' = back
        PROVE  Promise!Next
    BY <1>3, <1>5 DEF Promise!Next, Promise!Switch, back, outcomeOf
  <1>6. ASSUME NEW e \in Deployments, open(e), outcome' = [outcome EXCEPT ![e] = "succeeded"],
               target = e, target' = target, back' = target
        PROVE  Promise!Next
    BY <1>3, <1>6 DEF Promise!Next, Promise!Close, back, outcomeOf
  <1>7. ASSUME NEW e \in Deployments, open(e), outcome' = [outcome EXCEPT ![e] = "rolled-back"],
               target = back, target' = target, back' = target
        PROVE  Promise!Next
    BY <1>3, <1>7 DEF Promise!Next, Promise!Close, back, outcomeOf
  <1>8. ASSUME NEW e \in Deployments, open(e), outcome' = [outcome EXCEPT ![e] = "failed"],
               target' \in {target, e, back}, back' = target'
        PROVE  Promise!Next
    BY <1>3, <1>8 DEF Promise!Next, Promise!Fail, back, outcomeOf
  <1>9. ASSUME NEW e \in Deployments, phase[e] = "none", idle, outcome' = [outcome EXCEPT ![e] = "open"],
               target' = target, back' = back
        PROVE  Promise!Next
    <2>1. \A g \in Deployments : outcomeOf(g) # "open"
      BY <1>9 DEF outcomeOf, idle, open, Terminal
    <2>2. outcomeOf(e) = "none"
      BY <1>9 DEF outcomeOf, open
    <2> QED
      BY <1>3, <1>9, <2>1, <2>2 DEF Promise!Next, Promise!Admit, back
  <1>10. StepShape
    BY Shape
  <1>11. CASE UNCHANGED <<phase, previous>>
    <2>1. outcome' = outcome
      BY <1>11 DEF outcomeOf, open
    <2>2. CASE UNCHANGED target
      <3>1. back' = back
        BY <1>11, <2>2 DEF back, rollbackTo, open
      <3> QED
        BY <1>4, <2>1, <2>2, <3>1
    <2>3. CASE busy /\ phase[d0] \in Promoted
      <3>1. d0 \in Deployments /\ open(d0)
        BY <2>3, RunFacts
      <3>2. \A d \in Deployments : d = d0 => phase'[d] \in Promoted /\ previous'[d] = previous[d0]
        BY <1>11, <2>3
      <3>3. back = previous[d0] /\ back' = previous[d0]
        BY <1>2, <2>3, <3>1, <3>2 DEF BackMeans
      <3>4. \A d \in Deployments : d = d0 => target' \in {d, previous'[d]}
        BY <3>2 DEF IInv, Journaled, Traffic
      <3> QED
        BY <1>5, <2>1, <3>1, <3>2, <3>3, <3>4
    <2> QED
      BY <1>10, <2>2, <2>3 DEF StepShape
  <1>12. ASSUME NEW e \in Deployments, phase[e] = "none", idle, UNCHANGED previous,
                phase' = [phase EXCEPT ![e] = "admitted"]
         PROVE  Promise!Next
    <2>1. \A d \in Deployments : phase[d] \notin Promoted
      BY <1>12 DEF idle, open, Promoted, Terminal
    <2>2. target' = target
      BY <1>10, <1>12, <2>1, RunFacts DEF StepShape
    <2>3. \A d \in Deployments : phase'[d] \notin Promoted
      BY <1>1, <1>12, <2>1 DEF Promoted
    <2>4. back = target /\ back' = target'
      BY <1>2, <2>1, <2>3 DEF BackMeans
    <2>5. outcome' = [outcome EXCEPT ![e] = "open"]
      BY <1>1, <1>12 DEF outcomeOf, open, Terminal
    <2> QED
      BY <1>9, <1>12, <2>2, <2>4, <2>5
  <1>13. ASSUME busy, phase[d0] \in Before, record("promoting"),
                previous' = [previous EXCEPT ![d0] = target]
         PROVE  UNCHANGED Promise!vars
    <2>1. d0 \in Deployments /\ open(d0) /\ \A d \in Deployments : open(d) => d = d0
      BY <1>13, RunFacts
    <2>2. target' = target
      BY <1>10, <1>13 DEF StepShape, Before, Promoted
    <2>3. \A d \in Deployments : phase[d] \notin Promoted
      BY <1>13, <2>1 DEF open, Before, Promoted, Terminal
    <2>4. back = target
      BY <1>2, <2>3 DEF BackMeans
    <2>5. \A d \in Deployments : d = d0 => phase'[d] \in Promoted /\ previous'[d] = target
      BY <1>1, <1>13, <2>1 DEF record, Promoted
    <2>6. back' = target
      BY <1>2, <2>1, <2>5 DEF BackMeans
    <2>7. outcome' = outcome
      BY <1>1, <1>13, <2>1 DEF record, outcomeOf, open, Terminal
    <2> QED
      BY <1>4, <2>2, <2>4, <2>6, <2>7
  <1>14. ASSUME NEW p \in Phases, Recorded(p)
         PROVE  Promise!Next \/ UNCHANGED Promise!vars
    <2>1. /\ busy /\ d0 \in Deployments /\ open(d0) /\ \A d \in Deployments : open(d) => d = d0
          /\ previous' = previous /\ phase' = [phase EXCEPT ![d0] = p]
      BY <1>14, RunFacts DEF Recorded, record
    <2>2. \A d \in Deployments : d # d0 => phase[d] \notin Promoted /\ phase'[d] \notin Promoted
      BY <1>1, <2>1 DEF open, Promoted, Terminal
    <2>3. p \notin Promoted => back' = target'
      BY <1>1, <1>2, <2>1, <2>2 DEF BackMeans
    <2>4. phase[d0] \in Promoted => back = previous[d0]
      BY <1>2, <2>1 DEF BackMeans
    <2>5. phase[d0] \notin Promoted => back = target
      BY <1>2, <2>2 DEF BackMeans
    <2>6. phase[d0] \notin Promoted => target' = target
      BY <1>10 DEF StepShape
    <2>7. p \in Promoted => back' = previous[d0] /\ target' \in {d0, previous[d0]}
      <3>1. \A d \in Deployments : d = d0 /\ p \in Promoted =>
              phase'[d] \in Promoted /\ previous'[d] = previous[d0]
        BY <1>1, <2>1
      <3>2. \A d \in Deployments : d = d0 /\ p \in Promoted => back' = previous[d0]
        BY <1>2, <3>1 DEF BackMeans
      <3>3. \A d \in Deployments : d = d0 /\ p \in Promoted => target' \in {d, previous'[d]}
        BY <3>1 DEF IInv, Journaled, Traffic
      <3> QED
        BY <2>1, <3>2, <3>3
    <2>8. p \in (Before \ {"none"}) \cup Promoted => outcome' = outcome
      BY <1>1, <2>1 DEF outcomeOf, open, Before, Promoted, Terminal
    <2>9. p \in Terminal => outcome' = [outcome EXCEPT ![d0] = p]
      BY <1>1, <2>1 DEF outcomeOf, open, Terminal
    <2>10. CASE phase[d0] \in Before /\ p \in Before \ {"none"}
      BY <1>4, <2>3, <2>5, <2>6, <2>8, <2>10 DEF Before, Promoted
    <2>11. CASE phase[d0] \in Promoted /\ p \in Promoted
      BY <1>5, <2>1, <2>4, <2>7, <2>8, <2>11
    <2>12. CASE p = "failed" /\ phase[d0] \in Before
      <3>1. p \notin Promoted /\ p \in Terminal /\ phase[d0] \notin Promoted
        BY <2>12 DEF Promoted, Terminal, Before
      <3> QED
        BY <1>8, <2>1, <2>3, <2>6, <2>9, <2>12, <3>1
    <2>13. CASE p = "failed" /\ phase[d0] \in Promoted
      <3>1. p \notin Promoted /\ p \in Terminal
        BY <2>13 DEF Promoted, Terminal
      <3>2. target' \in {target, d0, back}
        <4>1. target \in {d0, previous[d0]}
          BY <2>1, <2>13 DEF IInv, Journaled, Traffic
        <4>2. target' = target \/ target' \in {d0, previous[d0]}
          BY <1>10 DEF StepShape
        <4> QED
          BY <2>4, <2>13, <4>1, <4>2
      <3> QED
        BY <1>8, <2>1, <2>3, <2>9, <2>13, <3>1, <3>2
    <2>14. CASE p = "succeeded"
      <3>1. p \notin Promoted /\ p \in Terminal /\ p \notin Before /\ p # "failed"
        BY <2>14 DEF Promoted, Terminal, Before
      <3>2. target = d0 /\ target' = target
        BY <1>14, <2>14, <3>1 DEF Recorded
      <3> QED
        BY <1>6, <2>1, <2>3, <2>9, <2>14, <3>1, <3>2
    <2>15. CASE p = "rolled-back"
      <3>1. p \notin Promoted /\ p \in Terminal /\ p \notin Before /\ p # "failed"
        BY <2>15 DEF Promoted, Terminal, Before
      <3>2. target = previous[d0] /\ target' = target /\ phase[d0] \in Promoted
        BY <1>14, <2>15, <3>1 DEF Recorded, Promoted
      <3> QED
        BY <1>7, <2>1, <2>3, <2>4, <2>9, <2>15, <3>1, <3>2
    <2> QED
      BY <1>14, <2>10, <2>11, <2>12, <2>13, <2>14, <2>15 DEF Recorded
  <1> QED
    BY <1>10, <1>11, <1>12, <1>13, <1>14 DEF StepShape

(* Whoever reads the status of deployments sees a release switch: traffic   *)
(* moves only for an open deployment, and the status it ends with is true.  *)
THEOREM Implements == Spec => StatusTellsServing
  <1>1. IInv /\ IInv' /\ [Next]_vars => [Promise!Next]_Promise!vars
    BY StepPromises
  <1> QED
    BY Invariance, InitHolds, InitPromises, <1>1, PTL DEF Spec, StatusTellsServing, Promise!Spec
=============================================================================
