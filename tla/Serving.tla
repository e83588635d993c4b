------------------------------ MODULE Serving -------------------------------
(***************************************************************************)
(* The serving process: its two listeners and their ownership, the slots   *)
(* of pack streams and of the sync-control worker, the collector-less      *)
(* publication drain and the current-state worker, and the way all of them *)
(* end.                                                                    *)
(*   src/api/server.rs, src/collection/collector/owner_supervision.rs      *)
(*   (PublicationDrain), src/collection/teslamate_current.rs               *)
(*                                                                         *)
(*   sup      where the future of serve_for_admitted_user stands           *)
(*   lis      the listener tasks: absent (no Fleet Telemetry), accepting,  *)
(*            draining, ended                                              *)
(*   told     whether the drain and the current worker were told to stop   *)
(*   drain    the publication task: between turns, waiting for the gate,   *)
(*            in a turn, ended                                             *)
(*   worker   the current-state task                                       *)
(*   streams  per device, the producers of pack bodies: reading clients,   *)
(*            stalled ones, and ones that went away                        *)
(*   counts   pack_streams_by_device                                       *)
(*   control  the sync-control slot: whether it is taken, the workers that *)
(*            run, and those of them whose caller still waits              *)
(*   asks     requests for packs and lineages so far                       *)
(***************************************************************************)
EXTENDS Naturals, FiniteSets

CONSTANTS Devices, Producers,  \* device ids, producer ids
          PerDevice,         \* MAX_ACTIVE_PACK_STREAMS_PER_DEVICE
          Global,            \* MAX_ACTIVE_PACK_STREAMS
          MaxAsks            \* requests in a behaviour

VARIABLES sup, lis, told, drain, worker, streams, counts, control, asks

svars == <<sup, lis, told, drain, worker, streams, counts, control, asks>>

Listeners == {"public", "private"}
NoStream == [dev |-> "none", how |-> "none"]
Ended(l) == lis[l] \in {"ended", "absent"}
Stopped == \E l \in Listeners : lis[l] = "ended"
Busy == {s \in Producers : streams[s] # NoStream}
-----------------------------------------------------------------------------
(* Pack streams *)

\* try_acquire_pack_device_slot.
DeviceSlotFree(d) == counts[d] < PerDevice

\* pack: the device's slot, then a global one; both belong to the producer.
StreamStarts(d) ==
  /\ lis["public"] = "accepting" /\ asks < MaxAsks
  /\ DeviceSlotFree(d) /\ Cardinality(Busy) < Global
  /\ \E s \in Producers \ Busy :
       streams' = [streams EXCEPT ![s] = [dev |-> d, how |-> "reading"]]
  /\ counts' = [counts EXCEPT ![d] = @ + 1]
  /\ asks' = asks + 1
  /\ UNCHANGED <<sup, lis, told, drain, worker, control>>

\* No global slot: the device's slot is dropped with the refused request.
Refused(d) == counts

StreamRefused(d) ==
  /\ lis["public"] = "accepting" /\ asks < MaxAsks
  /\ DeviceSlotFree(d) /\ Cardinality(Busy) >= Global
  /\ counts' = Refused(d)
  /\ asks' = asks + 1
  /\ UNCHANGED <<sup, lis, told, drain, worker, streams, control>>

\* The client stops reading, or its connection goes (a listener that ends
\* closes them all).
ClientStalls(s, how) ==
  /\ streams[s].how = "reading"
  /\ streams' = [streams EXCEPT ![s].how = how]
  /\ UNCHANGED <<sup, lis, told, drain, worker, counts, control, asks>>

\* pack_stream_body: the file is read, a send fails, or a bounded send expires.
ProducerMayEnd(s) == streams[s].how \in {"reading", "stalled", "gone"}

\* PackDeviceSlot::drop and the permit, with the producer.
StreamEnds(s) ==
  /\ ProducerMayEnd(s)
  /\ streams' = [streams EXCEPT ![s] = NoStream]
  /\ counts' = [counts EXCEPT ![streams[s].dev] = @ - 1]
  /\ UNCHANGED <<sup, lis, told, drain, worker, control, asks>>

-----------------------------------------------------------------------------
(* sync_control_response: one lineage at a time is verified *)

ControlStarts ==
  /\ lis["public"] = "accepting" /\ asks < MaxAsks
  /\ ~control.taken
  /\ control' = [taken |-> TRUE, works |-> control.works + 1,
                 awaited |-> control.awaited + 1]
  /\ asks' = asks + 1
  /\ UNCHANGED <<sup, lis, told, drain, worker, streams, counts>>

\* The worker owns the slot even when its caller has timed out.
SlotAfterCallerLeft == control.taken

CallerTimesOut ==
  /\ control.awaited > 0
  /\ control' = [control EXCEPT !.awaited = @ - 1, !.taken = SlotAfterCallerLeft]
  /\ UNCHANGED <<sup, lis, told, drain, worker, streams, counts, asks>>

ControlEnds ==
  /\ control.works > 0
  /\ control' = [taken |-> FALSE, works |-> control.works - 1, awaited |-> 0]
  /\ UNCHANGED <<sup, lis, told, drain, worker, streams, counts, asks>>

-----------------------------------------------------------------------------
(* The listeners *)

\* An accept loop fails.
ListenerFails(l) ==
  /\ sup = "serving" /\ lis[l] = "accepting"
  /\ lis' = [lis EXCEPT ![l] = "ended"]
  /\ UNCHANGED <<sup, told, drain, worker, streams, counts, control, asks>>

\* serve_two_owned_servers: the operator's signal, or one listener's end, asks
\* the others to drain.
Closing ==
  /\ sup = "serving"
  /\ sup' = "closing"
  /\ lis' = [l \in Listeners |-> IF Ended(l) THEN lis[l] ELSE "draining"]
  /\ UNCHANGED <<told, drain, worker, streams, counts, control, asks>>

\* The drain of connections ends by itself, or the task is aborted when the
\* supervisor's own bound is over.
ListenerEnds(l) ==
  /\ lis[l] = "draining"
  /\ lis' = [lis EXCEPT ![l] = "ended"]
  /\ UNCHANGED <<sup, told, drain, worker, streams, counts, control, asks>>

\* serve_with_cursor_key has returned: the drain is told to stop.
ServeReturned ==
  /\ sup = "closing" /\ \A l \in Listeners : Ended(l)
  /\ sup' = "joining"
  /\ told' = [told EXCEPT !.drain = TRUE]
  /\ UNCHANGED <<lis, drain, worker, streams, counts, control, asks>>

\* stop_and_join: the turn that runs is finished first.
DrainJoined == drain = "ended"

\* Then the current worker is told, and has three seconds before it is aborted.
JoinDrain ==
  /\ sup = "joining" /\ DrainJoined
  /\ sup' = "last"
  /\ told' = [told EXCEPT !.worker = TRUE]
  /\ UNCHANGED <<lis, drain, worker, streams, counts, control, asks>>

Returned ==
  /\ sup = "last" /\ worker = "ended"
  /\ sup' = "returned"
  /\ UNCHANGED <<lis, told, drain, worker, streams, counts, control, asks>>

AbortWorker ==
  /\ sup = "last" /\ worker = "running"
  /\ worker' = "ended" /\ sup' = "returned"
  /\ UNCHANGED <<lis, told, drain, streams, counts, control, asks>>

\* Faulty variant: the listener tasks are detached.
DroppedListenersDetached == lis

\* Drop for OwnedServer aborts the listener tasks.
DroppedListeners == [l \in Listeners |-> IF lis[l] = "absent" THEN "absent" ELSE "ended"]

\* The whole future is dropped: the stop senders go with it.
Dropped ==
  /\ sup \in {"serving", "closing", "joining", "last"}
  /\ sup' = "dropped"
  /\ lis' = DroppedListeners
  /\ told' = [drain |-> TRUE, worker |-> TRUE]
  /\ UNCHANGED <<drain, worker, streams, counts, control, asks>>

-----------------------------------------------------------------------------
(* run_publication_drain, and the current worker *)

\* publication_stop_requested, before every turn.
DrainAsksGate ==
  /\ drain = "idle" /\ ~told.drain
  /\ drain' = "gate"
  /\ UNCHANGED <<sup, lis, told, worker, streams, counts, control, asks>>

\* The select between the gate and the stop signal may take either.
DrainTurnBegins ==
  /\ drain = "gate"
  /\ drain' = "turn"
  /\ UNCHANGED <<sup, lis, told, worker, streams, counts, control, asks>>

\* The blocking turn is awaited, never abandoned; or the stop was taken.
DrainTurnEnds ==
  /\ drain = "turn" \/ (drain = "gate" /\ told.drain)
  /\ drain' = "idle"
  /\ UNCHANGED <<sup, lis, told, worker, streams, counts, control, asks>>

\* Stopped, or access to the store was lost.
DrainEnds ==
  /\ drain = "idle"
  /\ drain' = "ended"
  /\ UNCHANGED <<sup, lis, told, worker, streams, counts, control, asks>>

\* teslamate_current::run: told, its sender gone, or access lost.
WorkerEnds ==
  /\ worker = "running"
  /\ worker' = "ended"
  /\ UNCHANGED <<sup, lis, told, drain, streams, counts, control, asks>>

-----------------------------------------------------------------------------
SInit ==
  /\ sup = "serving"
  /\ lis \in [Listeners -> {"accepting", "absent"}] /\ lis["public"] = "accepting"
  /\ told = [drain |-> FALSE, worker |-> FALSE]
  /\ drain \in {"idle", "ended"} /\ worker \in {"running", "ended"}
  /\ streams = [s \in Producers |-> NoStream]
  /\ counts = [d \in Devices |-> 0]
  /\ control = [taken |-> FALSE, works |-> 0, awaited |-> 0] /\ asks = 0

\* serve_two_owned_servers sees a listener's end, and the steps after it.
Supervise ==
  \/ Stopped /\ Closing
  \/ ServeReturned \/ JoinDrain \/ Returned \/ AbortWorker

SNext ==
  \/ \E d \in Devices : StreamStarts(d) \/ StreamRefused(d)
  \/ \E s \in Producers, how \in {"stalled", "gone"} : ClientStalls(s, how)
  \/ ControlStarts \/ CallerTimesOut
  \/ \E l \in Listeners : ListenerFails(l)
  \/ \E s \in Producers : StreamEnds(s)
  \/ \E l \in Listeners : ListenerEnds(l)
  \/ Closing \/ ServeReturned \/ JoinDrain \/ Returned \/ AbortWorker \/ Dropped
  \/ ControlEnds
  \/ DrainAsksGate \/ DrainTurnBegins \/ DrainTurnEnds \/ DrainEnds \/ WorkerEnds

SSpec == SInit /\ [][SNext]_svars

-----------------------------------------------------------------------------
STypeOK ==
  /\ sup \in {"serving", "closing", "joining", "last", "returned", "dropped"}
  /\ lis \in [Listeners -> {"absent", "accepting", "draining", "ended"}]
  /\ drain \in {"idle", "gate", "turn", "ended"} /\ worker \in {"running", "ended"}
  /\ counts \in [Devices -> 0..PerDevice]
  /\ control \in [taken : BOOLEAN, works : 0..MaxAsks, awaited : 0..MaxAsks]

\* A shutdown, a failed listener or a cancelled service comes to an end with
\* every task of it (OwnedServer, PublicationDrain).
ShutdownEnds ==
  (sup # "serving" \/ Stopped) ~>
     (drain = "ended" /\ worker = "ended" /\ \A l \in Listeners : Ended(l))

=============================================================================
