------------------------------ MODULE ReleaseSwitch ------------------------------
(***************************************************************************)
(* What a deployment promises whoever reads its status: traffic moves only *)
(* between the release that served when the deployment was admitted and    *)
(* the deployment's own candidate, only while the deployment is open, and  *)
(* the status it ends with says which of the two serves.  How releases are *)
(* built, started and retired is left out.                                 *)
(***************************************************************************)
EXTENDS Naturals

CONSTANT DeploymentCount

Deployments == 1 .. DeploymentCount
(* Release 0 was installed by the bootstrap; release d by deployment d.     *)
Releases == 0 .. DeploymentCount

VARIABLES
  outcome,   \* deployment -> what its status says
  serving,   \* the release that gets new connections
  before     \* the one that served when the open deployment was admitted

vars == <<outcome, serving, before>>

Init == outcome = [d \in Deployments |-> "none"] /\ serving = 0 /\ before = 0

Admit(d) ==
  /\ outcome[d] = "none" /\ \A e \in Deployments : outcome[e] # "open"
  /\ outcome' = [outcome EXCEPT ![d] = "open"]
  /\ UNCHANGED <<serving, before>>

Switch(d) ==
  /\ outcome[d] = "open" /\ serving' \in {d, before}
  /\ UNCHANGED <<outcome, before>>

Close(d) ==
  /\ outcome[d] = "open"
  /\ \/ serving = d /\ outcome' = [outcome EXCEPT ![d] = "succeeded"]
     \/ serving = before /\ outcome' = [outcome EXCEPT ![d] = "rolled-back"]
  /\ before' = serving /\ UNCHANGED serving

(* A failure promises only that one of the two releases serves.             *)
Fail(d) ==
  /\ outcome[d] = "open" /\ outcome' = [outcome EXCEPT ![d] = "failed"]
  /\ serving' \in {serving, d, before} /\ before' = serving'

Next == \E d \in Deployments : Admit(d) \/ Switch(d) \/ Close(d) \/ Fail(d)

Spec == Init /\ [][Next]_vars
=============================================================================
