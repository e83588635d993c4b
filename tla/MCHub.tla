------------------------------- MODULE MCHub --------------------------------
(***************************************************************************)
(* The components of the hub that run beside each other without sharing    *)
(* state, checked by the same runs: a behaviour is one of the component    *)
(* `part' names, so that the state spaces add up.                          *)
(***************************************************************************)
EXTENDS LiveSync, Delivery, Serving, PhysicalHead

CONSTANT Parts

VARIABLE part

hub == <<part, lvars, dvars, svars, pvars>>

HubInit ==
  /\ part \in Parts
  /\ LInit /\ DInit
  /\ SInit /\ (part # "serving" => lis["private"] = "absent" /\ drain = "ended" /\ worker = "ended")
  /\ IF part = "physical" THEN PInit
     ELSE PEmpty /\ PStart /\ pcl = [rc |-> NoReceipt, ans |-> NoAnswer]

HubNext ==
  /\ UNCHANGED part
  /\ \/ part = "sync" /\ LNext /\ UNCHANGED <<dvars, svars, pvars>>
     \/ part = "delivery" /\ DNext /\ UNCHANGED <<lvars, svars, pvars>>
     \/ part = "serving" /\ SNext /\ UNCHANGED <<lvars, dvars, pvars>>
     \/ part = "physical" /\ PNext /\ UNCHANGED <<lvars, dvars, svars>>

HubSpec == HubInit /\ [][HubNext]_hub

-----------------------------------------------------------------------------
(* Fairness, component by component *)

\* The turn that runs goes on; leases and back-offs run out; a queued vehicle
\* gets the gate in the end (both publishers poll for it).
SyncFair ==
  /\ WF_lvars(part = "sync" /\ TurnStep) /\ WF_lvars(part = "sync" /\ BackoffEnds)
  /\ WF_lvars(part = "sync" /\ SyncLeaseExpires)
  /\ WF_lvars(part = "sync" /\ OutboxLeaseExpires)
  /\ WF_lvars(part = "sync" /\ ReplayClaim) /\ WF_lvars(part = "sync" /\ DrainTurn)

\* The client asks again and again; the server answers what it began.
DeliveryFair == WF_dvars(part = "delivery" /\ ClientStep)

\* Time passes for every bounded wait, and every blocking turn ends.
ServingFair ==
  /\ \A s \in Producers : WF_svars(part = "serving" /\ StreamEnds(s))
  /\ \A l \in Listeners : WF_svars(part = "serving" /\ ListenerEnds(l))
  /\ WF_svars(part = "serving" /\ Supervise)
  /\ WF_svars(part = "serving" /\ DrainTurnEnds)
  /\ WF_svars(part = "serving" /\ told.drain /\ DrainEnds)
  /\ WF_svars(part = "serving" /\ told.worker /\ WorkerEnds)

\* The publisher and a repair that began go on, and the client asks and fetches
\* again and again.
PhysicalFair ==
  /\ WF_pvars(part = "physical" /\ PublisherStep)
  /\ WF_pvars(part = "physical" /\ SweepCatalogue)
  /\ WF_pvars(part = "physical" /\ PTick)
  /\ WF_pvars(part = "physical" /\ AskChanges)
  /\ WF_pvars(part = "physical" /\ FetchAnswer)

HubFair == HubSpec /\ SyncFair /\ DeliveryFair /\ ServingFair /\ PhysicalFair

Sym == Permutations(Rows)

-----------------------------------------------------------------------------
=============================================================================
