------------------------------ MODULE CarPolicy ------------------------------
(***************************************************************************)
(* What the collector decides about one car and its account when Tesla     *)
(* answers, a timer runs out, the stream speaks or the owner acts          *)
(* (src/src/collection/collector/scheduler.rs, scheduler_sleep.rs,         *)
(* scheduler_holds.rs and scheduler_errors.rs).                            *)
(*                                                                         *)
(* A car is a record:                                                      *)
(*   phase, hold, rep    PollPhase, VehicleHold, reported_state;           *)
(*   read, check, probe  next_read_due, next_check_due, next_probe_due     *)
(*                       are set; idle and susp: suspend_at and            *)
(*                       suspended_until are set.  A deadline that is set  *)
(*                       may be over at any later look at the clock;       *)
(*   gate, sread, unav   gated_read, suspension_read, unavailable_check;   *)
(*   busy, named         in_flight, not a placeholder;                     *)
(*   stream              a run of the car's stream may still be heard.     *)
(* "driving" stands for Driving and Charging, "paused" for a pause that is *)
(* probed, "refused" for a pause by AccessRefused.                         *)
(*                                                                         *)
(* An account is a record: fleet (the mode), st (AccountState), wait (a    *)
(* wait has not ended), probe (next_billing_probe: none, later or now) and *)
(* sent (probe_time_of_the_tick).                                          *)
(*                                                                         *)
(* A decision that depends on a count or a clock the record leaves out is  *)
(* the set of its outcomes.                                                *)
(***************************************************************************)
EXTENDS Naturals

Phases == {"unknown", "asleep", "offline", "online", "suspended", "driving", "updating"}
Sessions == {"driving", "updating"}
ReadPhases == {"online"} \cup Sessions
Paused == {"paused", "refused"}
Held == {"service"} \cup Paused
Inactive == {"disabled", "removed"}
Holds == {"none"} \cup Held \cup Inactive
Reports == {"online", "asleep", "offline"}
States == {"collecting", "stop", "refused", "billing"}
Times == {"no", "later", "now"}

Cars == [phase : Phases, hold : Holds, rep : Reports \cup {"none"}, read : BOOLEAN,
         check : BOOLEAN, probe : BOOLEAN, idle : BOOLEAN, susp : BOOLEAN,
         gate : {"none", "motion", "power"}, sread : BOOLEAN, unav : BOOLEAN,
         busy : BOOLEAN, named : BOOLEAN, stream : BOOLEAN]
Accounts == [fleet : BOOLEAN, st : States, wait : BOOLEAN, probe : Times, sent : Times]

(* configured_only: the record of a configured car no list has named yet. *)
ConfiguredOnly(enabled) ==
    [phase |-> "unknown", hold |-> IF enabled THEN "none" ELSE "disabled",
     rep |-> "none", read |-> FALSE, check |-> FALSE, probe |-> FALSE,
     idle |-> FALSE, susp |-> FALSE, gate |-> "none", sread |-> FALSE,
     unav |-> FALSE, busy |-> FALSE, named |-> FALSE, stream |-> FALSE]

-----------------------------------------------------------------------------
(* Phases, timers and pending reads of a car. *)

(* enter_phase_gated *)
EnterPhase(c, phase) ==
    IF c.phase = phase THEN c
    ELSE [c EXCEPT !.phase = phase,
                   !.read = @ /\ phase \notin {"asleep", "offline", "suspended"},
                   !.idle = @ /\ phase = "online",
                   !.susp = @ /\ phase = "suspended"]

(* clear_pending_reads *)
Withdraw(c) ==
    [c EXCEPT !.read = FALSE, !.gate = "none", !.sread = FALSE]

(* stop_timers *)
StopTimers(c) ==
    [Withdraw(c) EXCEPT !.check = FALSE, !.idle = FALSE, !.susp = FALSE, !.unav = FALSE]

(* begin_suspension *)
BeginSuspension(c) ==
    [EnterPhase(c, "suspended") EXCEPT
        !.susp = TRUE, !.idle = FALSE, !.read = FALSE, !.gate = "none"]

(* online_after_sleep: a car that went offline in a session, or whose last  *)
(* wake read is suspend_min old, is read.                                   *)
OnlineAfterSleep(c) == {[c EXCEPT !.read = TRUE], BeginSuspension(c)}

(* apply_reported_state *)
ReportAsleep(c) == Withdraw(EnterPhase(c, "asleep"))

ReportOffline(c) ==
    IF c.phase \in {"updating", "offline"} THEN c
    ELSE Withdraw(EnterPhase(c, "offline"))

ReportOnline(c, before) ==
    IF c.hold # "none" \/ c.busy THEN {c}
    ELSE IF c.phase = "unknown" THEN {[c EXCEPT !.read = TRUE]}
    ELSE IF before # "online" /\ c.phase \in {"asleep", "offline"} THEN OnlineAfterSleep(c)
    ELSE {c}

ReportedState(c, state) ==
    LET told == [c EXCEPT !.rep = state]
    IN  IF c.hold \in Inactive THEN {told}
        ELSE CASE state = "asleep"  -> {ReportAsleep(told)}
               [] state = "offline" -> {ReportOffline(told)}
               [] state = "online"  -> ReportOnline(told, c.rep)

(* apply_frame_evidence: a frame of motion; a parked frame of power that    *)
(* comes no sooner than one Online interval after the last one; gear P in a *)
(* drive, or motion in a charge.                                            *)
FrameMotion(c) ==
    IF c.hold \in Inactive \/ c.phase = "driving" THEN c
    ELSE IF c.phase = "suspended"
    THEN IF c.hold = "none" THEN [c EXCEPT !.read = TRUE, !.gate = "motion"] ELSE c
    ELSE [EnterPhase(c, "driving") EXCEPT !.read = @ \/ c.hold = "none"]

FramePower(c) ==
    IF c.hold # "none" \/ c.phase \in Sessions THEN c
    ELSE [c EXCEPT !.read = TRUE,
                   !.gate = IF c.phase = "suspended" /\ @ = "none" THEN "power" ELSE @]

FrameInSession(c) == [c EXCEPT !.read = @ \/ (c.hold = "none" /\ c.phase = "driving")]

(* requires_live_stream_power_gate *)
Gated(c) == c.gate # "none" /\ c.phase = "suspended"

(* advance_timers: which of the deadlines that are set are over. *)
AdvanceTimers(c) ==
    IF c.hold # "none" THEN {c}
    ELSE {c}
         \cup (IF c.phase = "online" /\ c.idle THEN {BeginSuspension(c)} ELSE {})
         \cup (IF c.phase = "suspended" /\ c.susp
               THEN {IF c.rep = "online"
                     THEN [c EXCEPT !.susp = FALSE, !.sread = TRUE, !.gate = "none",
                                    !.read = TRUE]
                     ELSE BeginSuspension(c)}
               ELSE {})
         \cup (IF c.phase = "updating" THEN {Withdraw(EnterPhase(c, "offline"))} ELSE {})

-----------------------------------------------------------------------------
(* Account states and waits. *)

(* requests_allowed *)
RequestsAllowed(a) == a.st = "collecting" /\ ~a.wait

(* billing_probe_admissible *)
ProbeAdmissible(a) == a.fleet /\ a.st = "billing" /\ ~a.wait /\ a.probe = "now"

(* extend_wait.  What ends a wait before its time (note_answered,           *)
(* note_success, end_auth_wait, a commit) is left out: a tick asks for the  *)
(* wait before it sends, and between two ticks any wait may be over.        *)
ExtendWait(a) == [a EXCEPT !.wait = TRUE]

(* enter_account_state *)
EnterAccount(a, st) ==
    IF a.st \notin {"collecting", st} THEN a
    ELSE [a EXCEPT !.st = st, !.probe = IF st = "billing" THEN "later" ELSE "no"]

(* enter_credential_stop, enter_fleet_refresh_stop *)
EnterStop(a) == IF a.st = "collecting" THEN [a EXCEPT !.st = "stop"] ELSE a

(* clear_credential_stop *)
ClearStop(a) == IF a.st = "stop" THEN [a EXCEPT !.st = "collecting"] ELSE a

(* account_failed: the classes of an answer that hold the whole account.    *)
(* "wait": rate limited, unreachable, the login is being renewed.           *)
AccountClasses(a) == {"wait", "refuse"} \cup IF a.fleet THEN {"billing"} ELSE {}

AccountFailed(a, class) ==
    CASE class = "wait"    -> ExtendWait(a)
      [] class = "refuse"  -> EnterAccount(a, "refused")
      [] class = "billing" -> EnterAccount(a, "billing")

-----------------------------------------------------------------------------
(* Holds of a car.  A pair s holds the car and its account.                 *)

Pair(c, a) == [car |-> c, acct |-> a]

(* pause_vehicle.  The other cars of the account, which a pair leaves out,  *)
(* are all refused or not (check_every_vehicle_refused).                    *)
PauseVehicle(s, why) ==
    LET c == [StopTimers(s.car) EXCEPT !.busy = FALSE, !.hold = why, !.probe = why = "paused"]
    IN  IF s.car.hold \in Inactive THEN {Pair([s.car EXCEPT !.busy = FALSE], s.acct)}
        ELSE {Pair(c, s.acct)}
             \cup IF why = "refused" /\ ~s.acct.fleet /\ s.acct.st = "collecting"
                  THEN {Pair(c, EnterAccount(s.acct, "refused"))} ELSE {}

(* pause_if_persistent: the failure may be the one that completes a run.    *)
PauseIfPersistent(s) ==
    {s} \cup IF s.car.hold = "none" THEN PauseVehicle(s, "paused") ELSE {}

(* release_hold *)
ReleaseHold(c) ==
    IF c.hold \in Held
    THEN [StopTimers(c) EXCEPT !.hold = "none", !.phase = "unknown", !.probe = FALSE,
                               !.busy = FALSE]
    ELSE c

(* enter_service_mode *)
EntersService(c) == c.hold \notin Inactive \cup {"service"}
EnterService(c) ==
    LET free == [c EXCEPT !.busy = FALSE]
    IN  IF EntersService(c)
        THEN [StopTimers(free) EXCEPT !.hold = "service", !.probe = TRUE] ELSE free

(* Faulty variant: the read that found no such car is not due again. *)
NotFoundUnread(c) == [c EXCEPT !.busy = FALSE, !.read = FALSE]

(* vehicle_not_found: a read or check that was due stays due; the list      *)
(* comes sooner.                                                            *)
NotFound(c) == [c EXCEPT !.busy = FALSE]

(* note_listed *)
NoteListed(c) ==
    IF c.hold = "removed" THEN [c EXCEPT !.hold = "none", !.phase = "unknown"] ELSE c

(* note_unlisted: the absence may be the one that removes the car. *)
NoteUnlisted(c) ==
    IF c.hold \in Inactive THEN {c}
    ELSE {c, [StopTimers(c) EXCEPT !.hold = "removed", !.probe = FALSE]}

-----------------------------------------------------------------------------
(* What a finished request does. *)

(* The read of a Suspended car is not retried on a timer of its own unless  *)
(* it is the one that ends the suspension.                                  *)
Retried(c) == ~(c.phase = "suspended" /\ ~c.sread)

(* count_vehicle_failure *)
CountFailure(s) ==
    PauseIfPersistent([s EXCEPT !.car.read = Retried(s.car)])

(* accept_vehicle_state, and a list that names the car (accept_discovery).  *)
(* A 408 that the answer does not explain is a failure of the car.          *)
AcceptState(s, state) ==
    LET told(c)    == Pair([c EXCEPT !.unav = FALSE], s.acct)
        settled(c) == IF c.unav /\ state = "online" THEN CountFailure(told(c)) ELSE {told(c)}
    IN  UNION {settled(c) : c \in ReportedState(NoteListed(s.car), state)}

(* vehicle_succeeded.  used: the snapshot shows the car in use. *)
ReadSucceeded(s, phase, used) ==
    LET c    == [s.car EXCEPT !.gate = "none", !.sread = FALSE, !.busy = FALSE,
                              !.unav = FALSE]
        open == [EnterPhase(c, phase) EXCEPT !.read = TRUE, !.idle = ~used /\ phase = "online"]
    IN  {Pair(t, s.acct) : t \in
            IF phase \in Sessions \/ used THEN {open}
            ELSE IF c.phase = "suspended" THEN {BeginSuspension(c)}
            ELSE {open} \cup IF c.hold = "none" THEN {BeginSuspension(open)} ELSE {}}

(* release_after_account_failure *)
ReleaseAfterAccount(c) ==
    LET free  == [c EXCEPT !.busy = FALSE]
        moved == IF c.gate = "motion" /\ c.phase = "suspended"
                 THEN [EnterPhase(free, "driving") EXCEPT !.gate = "none"] ELSE free
    IN  [moved EXCEPT !.read = @ \/ Retried(moved)]

(* gate_not_confirmed *)
GateNotConfirmed(c) ==
    [c EXCEPT !.busy = FALSE, !.gate = "none", !.read = @ /\ Retried(c)]

(* read_unavailable: the check is a record on the Owner wire, the next list *)
(* in Fleet polling.                                                        *)
ReadUnavailable(s) ==
    [s EXCEPT !.car.unav = TRUE, !.car.read = Retried(s.car),
              !.car.check = @ \/ (~s.acct.fleet /\ s.car.hold \notin Inactive)]

(* vehicle_class_failure *)
CarClasses == {"unavailable", "notfound", "service", "pause", "refuse_car", "transient"}

ClassFailure(s, class) ==
    LET c     == [s.car EXCEPT !.gate = "none", !.busy = FALSE]
        moved == IF s.car.gate = "motion" /\ c.phase = "suspended"
                 THEN EnterPhase(c, "driving") ELSE c
        t     == Pair(moved, s.acct)
    IN  CASE class = "unavailable" /\ c.phase = "updating" ->
               {Pair([c EXCEPT !.read = TRUE], s.acct)}
          [] class = "unavailable" /\ c.phase # "updating" -> {ReadUnavailable(t)}
          [] class = "notfound"   -> {Pair(NotFound(moved), s.acct)}
          [] class = "service"    -> {Pair(EnterService(moved), s.acct)}
          [] class = "pause"      -> PauseVehicle(t, "paused")
          [] class = "refuse_car" -> PauseVehicle(t, "refused")
          [] class = "transient"  -> CountFailure(t)

(* vehicle_failed_for_error *)
ReadFailed(s, class) ==
    IF class \in AccountClasses(s.acct)
    THEN {Pair(ReleaseAfterAccount(s.car), AccountFailed(s.acct, class))}
    ELSE ClassFailure(s, class)

(* offline_state_failed_for_error: the check stays due unless the car is    *)
(* held.                                                                    *)
CheckFailed(s, class) ==
    LET done == CASE class = "notfound"   -> {[s EXCEPT !.car = NotFound(@)]}
                  [] class = "pause"      -> PauseVehicle(s, "paused")
                  [] class = "refuse_car" -> PauseVehicle(s, "refused")
                  [] class = "transient"  -> PauseIfPersistent([s EXCEPT !.car.check = TRUE])
                  [] class \in {"unavailable", "service"} -> {[s EXCEPT !.car.check = TRUE]}
    IN  IF class \in AccountClasses(s.acct)
        THEN {[s EXCEPT !.acct = AccountFailed(@, class)]}
        ELSE {[u EXCEPT !.car.check = @ /\ u.car.hold = "none"] : u \in done}

(* probe_finished and probe_failed.  The record probe of a car in service   *)
(* says whether it still is; a read probe that succeeds ends the hold.      *)
ProbeAnswered(s, inService) ==
    LET c    == [s.car EXCEPT !.busy = FALSE]
        free == ReleaseHold(c)
    IN  Pair(IF inService THEN [c EXCEPT !.probe = @ \/ c.hold = "service"]
             ELSE [free EXCEPT !.read = @ \/ (c.hold \in Held /\ c.rep = "online")],
             s.acct)

ProbeRead(s, phase, used) ==
    LET t == [s EXCEPT !.car = ReleaseHold([@ EXCEPT !.busy = FALSE])]
    IN  IF s.car.hold \in Paused THEN {t}
        ELSE ReadSucceeded(t, phase, used)

ProbeFailed(s, class) ==
    LET c     == [s.car EXCEPT !.busy = FALSE]
        t     == Pair(c, s.acct)
        armed == c.hold \in Held \ {"refused"}
    IN  CASE class \in AccountClasses(s.acct) ->
               {Pair(c, AccountFailed(s.acct, class))}
          [] class = "service" /\ c.hold # "service" -> {[t EXCEPT !.car = EnterService(c)]}
          [] class = "pause"      -> PauseVehicle(t, "paused")
          [] class = "refuse_car" -> PauseVehicle(t, "refused")
          [] class = "notfound"   -> {[t EXCEPT !.car = [NotFound(c) EXCEPT !.probe = @ \/ armed]]}
          [] OTHER                -> {[t EXCEPT !.car.probe = @ \/ armed]}

(* due_probe_vehicles, probe_due_at *)
ProbeDue(s) ==
    /\ s.car.probe /\ ~s.car.busy
    /\ s.car.hold \in {"service", "paused"}
    /\ (s.car.hold = "service" /\ ~s.acct.fleet) \/ s.car.rep = "online"
=============================================================================
