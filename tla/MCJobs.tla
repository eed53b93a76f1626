------------------------------- MODULE MCJobs -------------------------------
(***************************************************************************)
(* Two jobs that must get to everything they are for: the pump of a        *)
(* contract state, whose batches are full, and the sweep of the rescue     *)
(* queue.  They share nothing but the process: a behaviour is one of them, *)
(* and the other stands still in its first state.                          *)
(***************************************************************************)
EXTENDS MCBridgePump, RescueQueue

VARIABLE job

jobsVars == <<vars, queueVars, job>>

JobsInit ==
  /\ job \in {"pump", "rescue"} /\ Init /\ QueueInit
  /\ job = "pump" => ~autoCancel

JobsNext ==
  \/ job = "pump" /\ Next /\ UNCHANGED <<queueVars, job>>
  \/ job = "rescue" /\ QueueNext /\ UNCHANGED <<vars, job>>

\* The fairness of BridgePump and of RescueQueue, each in its own job.
JobsFairness ==
  /\ SF_vars(job = "pump" /\ ReadBatch)
  /\ WF_vars(job = "pump" /\ PassOver)
  /\ WF_vars(job = "pump" /\ RequestRewind)
  /\ SF_vars(job = "pump" /\ RecordDelivery)
  /\ \A e \in Events :
       /\ WF_vars(job = "pump" /\ (Irrelevant(e) \/ Already(e) \/ PostFails(e, FALSE)))
       /\ WF_vars(job = "pump" /\ BecomeDue(e))
  /\ \A e \in Events \ Poison : SF_vars(job = "pump" /\ PostAccepted(e))
  /\ WF_queueVars(job = "rescue" /\ Round)

JobsSpec == JobsInit /\ [][JobsNext]_jobsVars /\ JobsFairness

\* The type invariants of the two modules.
JobsTypeOK == TypeOK /\ QueueTypeOK
=============================================================================
