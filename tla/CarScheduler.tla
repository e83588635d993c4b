----------------------------- MODULE CarScheduler -----------------------------
(***************************************************************************)
(* The collector's tick for one configured car: the loops of               *)
(* owner_supervision.rs and fleet_supervision.rs, the tick's requests and  *)
(* its commits (tick.rs), the rollback of a failed commit and the start    *)
(* from the stored rows (scheduler_state.rs), under src/src/collection/    *)
(* collector, and the transactions of src/src/storage/db/                  *)
(* collector_state.rs.                                                     *)
(*                                                                         *)
(*   pc        where the loop is: "down"; "start", the rows are loaded and *)
(*             no settings were applied; "idle" between two ticks; "list", *)
(*             "asked", "send", "reserve", "admit" and "drive" in one.     *)
(*   now       the scheduler's memory of the car and the account           *)
(*             (CarPolicy).                                                *)
(*   base      the TickBaseline: empty, or the one pair it holds.          *)
(*   reqs      the tick's requests that have not finished.  "gated" is a   *)
(*             read that waits for the power gate, "record" the probe of a *)
(*             car in service, "other" a request for another car.          *)
(*   batch     what the TickBatch holds: a result, the service_refused     *)
(*             event.                                                      *)
(*   restored  the stored rows no commit has taken over yet: empty, or the *)
(*             car's.                                                      *)
(*   applied   pending.applied_actions.                                    *)
(*   store     what is durable: the car's row, the account's row, the      *)
(*             kinds of the open gaps, whether the service hold of the row *)
(*             has its event, and the owner's actions still to apply.      *)
(*   enabled   the car's setting.                                          *)
(*   left      how many commits may still fail, how often the process may  *)
(*             still end and the owner still act.                          *)
(***************************************************************************)
EXTENDS CarPolicy, FiniteSets

CONSTANTS
    Modes,         \* the modes to start in, each with its bounds on failed
                   \* commits, on ends of the process and on the owner's actions
    Actions        \* the owner's actions: a subset of {"retry", "resume"}

ASSUME ModesAssumption ==
    Modes \subseteq [fleet : BOOLEAN, commits : Nat, ends : Nat, actions : Nat]
ASSUME ActionsAssumption == Actions \subseteq {"retry", "resume"}

VARIABLES pc, now, base, reqs, batch, restored, applied, store, enabled, left

vars == <<pc, now, base, reqs, batch, restored, applied, store, enabled, left>>

-----------------------------------------------------------------------------
Rows == [there : BOOLEAN, hold : Holds, susp : BOOLEAN]
Requests == {"check", "record", "probe", "read", "gated", "other"}
NoCar == ConfiguredOnly(TRUE)

(* The car has no row yet. *)
FirstRow == [there |-> FALSE, hold |-> "none", susp |-> FALSE]

Account(fleet) ==
    [fleet |-> fleet, st |-> "collecting", wait |-> FALSE, probe |-> "no", sent |-> "no"]

Init ==
    /\ pc = "down"
    /\ \E m \in Modes :
          /\ now = Pair(NoCar, Account(m.fleet))
          /\ left = [commits |-> m.commits, ends |-> m.ends, actions |-> m.actions]
    /\ base = {} /\ reqs = {} /\ batch = {} /\ restored = {} /\ applied = {}
    /\ store = [row |-> FirstRow, gaps |-> {}, event |-> FALSE, todo |-> {},
                acct |-> [st |-> "collecting", probe |-> FALSE]]
    /\ enabled \in BOOLEAN

-----------------------------------------------------------------------------
(* What a commit writes. *)

(* vehicle_view, of what a start reads back: the hold and a suspension.     *)
VehicleView(c) ==
    [there |-> TRUE, hold |-> c.hold, susp |-> c.phase = "suspended" /\ c.susp]

(* account_view: a credential stop is not stored.  The end of a rate-limit  *)
(* wait is left out: a start may find one that has not passed.              *)
AccountView(a) ==
    IF a.st = "stop" THEN store.acct ELSE [st |-> a.st, probe |-> a.probe # "no"]

(* take_tick: a car no list has named yet keeps its row unless its hold     *)
(* changed, and one that looks as a new car does (is_initial) needs none.   *)
RowAfter(c) ==
    IF store.row.there
    THEN IF c.named \/ c.hold # store.row.hold THEN VehicleView(c) ELSE store.row
    ELSE IF c.named /\ (c.phase # "unknown" \/ c.hold # "none")
         THEN VehicleView(c) ELSE store.row

(* GapKind::of_account_state *)
GapOf(st) == CASE st = "collecting" -> {}
               [] st = "stop"       -> {"auth"}
               [] st = "refused"    -> {"refused"}
               [] st = "billing"    -> {"billing"}

(* derive_gaps.  known: the scheduler has a record of the car. *)
WantedGaps(s, known) ==
    GapOf(s.acct.st)
    \cup (IF s.acct.st = "stop" THEN GapOf(store.acct.st) ELSE {})
    \cup (IF known /\ s.car.hold \in Paused THEN {"paused"} ELSE {})

(* write_collector_rows_in_transaction, with the events of the batch. *)
Written(s, known, events) ==
    LET row == IF known THEN RowAfter(s.car) ELSE store.row
    IN  [row |-> row, acct |-> AccountView(s.acct), gaps |-> WantedGaps(s, known),
         event |-> row.hold = "service" /\ (events \/ (store.event /\ store.row.hold = "service")),
         todo |-> store.todo \ applied]

(* capture_baseline.  It is dropped when no commit can fail any more. *)
Baseline(s) ==
    IF left.commits = 0 THEN {}
    ELSE {Pair([s.car EXCEPT !.busy = FALSE, !.unav = FALSE, !.stream = FALSE,
                             !.gate = "none", !.sread = FALSE],
               [s.acct EXCEPT !.wait = FALSE, !.sent = "no"])}

(* commit_succeeded; renew_baseline when the transaction only read.  s is   *)
(* the memory the commit finds, more says that the tick goes on: between    *)
(* two ticks no step looks at the baseline.                                 *)
Committed(s, more) ==
    LET wrote == Written(s, TRUE, "service" \in batch)
        kept  == [s EXCEPT !.acct.sent = "no"]
    IN  /\ store' = wrote
        /\ \/ now' = kept /\ restored' = IF s.car.named THEN {} ELSE restored
           \/ wrote = store /\ batch # {} /\ now' = s /\ UNCHANGED restored
        /\ base' = IF more THEN Baseline(now') ELSE {}
        /\ UNCHANGED left

(* restore_baseline: the facts about requests and the stream stay. *)
RestoredCar(c, b) == [b EXCEPT !.busy = c.busy, !.unav = c.unav, !.stream = c.stream]

(* commit_failed: memory returns to the baseline, which is used up; a       *)
(* credential stop and the time of a probe that went out stay.              *)
RolledBack(s) ==
    LET to(b) == [s.acct EXCEPT !.st = IF @ = "stop" THEN "stop" ELSE b.acct.st,
                                !.probe = b.acct.probe]
        back  == IF base = {} THEN s
                 ELSE LET b == CHOOSE b \in base : TRUE
                      IN  Pair(RestoredCar(s.car, b.car), to(b))
    IN  [back EXCEPT !.acct.sent = "no",
                     !.acct.probe = IF back.acct.st = "billing" /\ s.acct.sent # "no"
                                    THEN s.acct.sent ELSE @]

CommitFailed(s) ==
    /\ left.commits > 0
    /\ left' = [left EXCEPT !.commits = @ - 1]
    /\ now' = [RolledBack(s) EXCEPT !.acct = ExtendWait(@)]
    /\ base' = {}
    /\ UNCHANGED <<restored, store>>

(* commit_tick: a tick that changes no row, appends no event and marks no   *)
(* action may need no transaction (tick_needs_transaction), or one for the  *)
(* request counters or the results alone.                                   *)
CommitTick(s, more) ==
    /\ batch' = {} /\ applied' = {}
    /\ \/ /\ Written(s, TRUE, FALSE) = store /\ "service" \notin batch
          /\ now' = s
          /\ base' = IF more THEN base ELSE {}
          /\ UNCHANGED <<restored, store, left>>
       \/ Committed(s, more)
       \/ CommitFailed(s)

-----------------------------------------------------------------------------
(* The start of a run. *)

(* Faulty variant: the probe of a restored hold is not armed. *)
ApplyRestoredUnarmed(c, row, future) ==
    IF c.hold # "disabled" /\ row.hold \in Held \cup {"removed"}
    THEN [c EXCEPT !.hold = row.hold] ELSE c

(* apply_restored.  future: the stored suspension has not ended. *)
ApplyRestored(c, row, future) ==
    IF c.hold = "disabled" THEN c
    ELSE IF row.hold \in Held \cup {"removed"}
    THEN [c EXCEPT !.hold = row.hold,
                   !.probe = IF row.hold = "removed" THEN @ ELSE row.hold # "refused"]
    ELSE IF row.susp /\ future
    THEN [c EXCEPT !.phase = "suspended", !.susp = TRUE, !.rep = "online"]
    ELSE c

(* begin_collector_run: a start with a changed configuration lifts the      *)
(* account's state and the pause only such a change can lift.               *)
Reconfigured ==
    LET free == store.row.hold = "refused"
    IN  [store EXCEPT
            !.row = IF free THEN [@ EXCEPT !.hold = "none", !.susp = FALSE]
                    ELSE @,
            !.gaps = (@ \ (IF store.acct.st = "collecting" THEN {} ELSE {"refused", "billing"}))
                       \ (IF free THEN {"paused"} ELSE {}),
            !.acct = IF @.st = "collecting" THEN @
                     ELSE [st |-> "collecting", probe |-> FALSE]]

(* load, load_counters.  Times that lay ahead may be over; an unresolved    *)
(* Fleet refresh stops the account (enter_fleet_refresh_stop_at_start).     *)
Load ==
    /\ pc = "down" /\ pc' = "start"
    /\ store' \in {store, Reconfigured}
    /\ LET row == store'.acct
       IN  \E st \in {row.st} \cup (IF now.acct.fleet THEN {"stop"} ELSE {}),
             probe \in IF row.probe THEN {"later", "now"} ELSE {"no"},
             wait \in BOOLEAN :
              now' = [now EXCEPT !.acct = [@ EXCEPT !.st = st, !.probe = probe, !.wait = wait]]
    /\ restored' = IF store'.row.there THEN {store'.row} ELSE {}
    /\ UNCHANGED <<base, reqs, batch, applied, enabled, left>>

(* apply_control_settings, the first time: the car gets its record.         *)
FirstSettings ==
    /\ pc = "start" /\ pc' = "idle"
    /\ LET c == ConfiguredOnly(enabled)
       IN  now' = [now EXCEPT !.car =
                     IF \E row \in restored : row.hold \in Held \cup {"removed"}
                     THEN ApplyRestored(c, CHOOSE row \in restored : TRUE, FALSE) ELSE c]
    /\ UNCHANGED <<base, reqs, batch, restored, applied, store, enabled, left>>

(* apply_control_settings, later: the owner turns the car off or on, or     *)
(* changes the length of a suspension.                                      *)
Enable(c, on) ==
    IF on
    THEN IF c.hold = "disabled"
         THEN EnterPhase([c EXCEPT !.hold = "none", !.read = FALSE], "unknown") ELSE c
    ELSE [c EXCEPT !.hold = "disabled", !.read = FALSE, !.check = FALSE, !.probe = FALSE,
                   !.idle = FALSE, !.susp = FALSE, !.stream = FALSE]

Settings ==
    /\ \/ /\ pc = "idle"
          /\ enabled' = ~enabled
          /\ now' = [now EXCEPT !.car = Enable(@, ~enabled)]
       \/ /\ pc = "down"
          /\ enabled' = ~enabled
          /\ UNCHANGED now
       \/ /\ pc = "idle" /\ now.car.phase = "suspended"
          /\ now' = [now EXCEPT !.car.susp = TRUE]
          /\ UNCHANGED enabled
    /\ UNCHANGED <<pc, base, reqs, batch, restored, applied, store, left>>

(* insert_collector_owner_action.  Only the start of a tick looks for       *)
(* actions: one that is inserted within a tick is found by the next.        *)
OwnerActs ==
    /\ pc = "idle" /\ left.actions > 0
    /\ \E kind \in Actions \ store.todo : store' = [store EXCEPT !.todo = @ \cup {kind}]
    /\ left' = [left EXCEPT !.actions = @ - 1]
    /\ UNCHANGED <<pc, now, base, reqs, batch, restored, applied, enabled>>

-----------------------------------------------------------------------------
(* What time and the car's stream do between the collector's own steps.     *)

(* A wait ends, the billing probe comes due. *)
TimePasses ==
    /\ pc = "idle"
    /\ \/ now.acct.wait /\ now' = [now EXCEPT !.acct.wait = FALSE]
       \/ now.acct.probe = "later" /\ now' = [now EXCEPT !.acct.probe = "now"]
    /\ UNCHANGED <<pc, base, reqs, batch, restored, applied, store, enabled, left>>

(* should_start_stream *)
MayStream(s) ==
    /\ ~s.acct.fleet /\ s.acct.st = "collecting"
    /\ \/ s.car.hold = "none" /\ s.car.phase \in {"online", "suspended"} \cup Sessions
       \/ s.car.hold \in Held /\ s.car.rep = "online"

(* process_stream_event: a frame, or VehicleOffline, from a run of the      *)
(* stream; the queues are drained while the list and the requests wait.     *)
Frame ==
    /\ pc \in {"idle", "list", "drive"}
    /\ IF pc = "idle" THEN MayStream(now) ELSE now.car.stream
    /\ \/ now' = [now EXCEPT !.car = FrameMotion(@)]
       \/ now' = [now EXCEPT !.car = FramePower(@)]
       \/ now' = [now EXCEPT !.car = FrameInSession(@)]
       \/ now' = [now EXCEPT !.car.check = @ \/ now.car.hold \notin Inactive]
    /\ UNCHANGED <<pc, base, reqs, batch, restored, applied, store, enabled, left>>

-----------------------------------------------------------------------------
(* The tick: what the credential unit says, the owner's actions, the list. *)

(* apply_confirmation_answers *)
Confirmation ==
    /\ pc = "idle" /\ ~now.acct.fleet
    /\ \E class \in AccountClasses(now.acct) :
           now' = [now EXCEPT !.acct = AccountFailed(@, class)]
    /\ UNCHANGED <<pc, base, reqs, batch, restored, applied, store, enabled, left>>

(* credential_state_seen.  "busy": the unit cannot be asked. *)
Seen(a, unit) ==
    CASE unit = "busy"    -> a
      [] unit = "refused" -> EnterAccount(a, "refused")
      [] unit = "stop"    -> EnterStop(a)
      [] unit = "ready"   -> ClearStop(a)

(* owner_retry, owner_resume *)
OwnerRetry(s) ==
    LET lifts == s.acct.st \in {"refused", "billing"} \/ (s.acct.st = "stop" /\ s.acct.fleet)
    IN  Pair(IF s.car.hold \in Paused THEN ReleaseHold(s.car) ELSE s.car,
             IF lifts THEN [s.acct EXCEPT !.st = "collecting", !.probe = "no", !.wait = FALSE]
             ELSE [s.acct EXCEPT !.wait = FALSE])

OwnerResume(s) == [s EXCEPT !.car = IF @.hold \in Paused THEN ReleaseHold(@) ELSE @]

(* apply_owner_actions *)
ApplyActions(s, todo) ==
    LET t == IF "retry" \in todo THEN OwnerRetry(s) ELSE s
    IN  IF "resume" \in todo THEN OwnerResume(t) ELSE t

(* begin_tick, after the credential unit was asked and the streams were     *)
(* started and stopped.  A stopped unit ends the tick with its commit       *)
(* (run_credential_stop_iteration).                                         *)
BeginTick ==
    /\ pc = "idle"
    /\ \E unit \in IF now.acct.fleet THEN {"busy"} ELSE {"busy", "ready", "refused", "stop"} :
       \E todo \in {{}, store.todo} :
          LET seen == [now EXCEPT !.acct = [Seen(@, unit) EXCEPT !.sent = "no"]]
              s    == [seen EXCEPT !.car.stream = unit # "stop" /\ MayStream(seen)]
          IN  /\ base' = Baseline(s)
              /\ now' = ApplyActions(s, todo)
              /\ applied' = todo
              /\ restored' = IF "retry" \in todo
                             THEN {row \in restored : row.hold \notin Paused} ELSE restored
              /\ pc' = IF unit = "stop" THEN "drive" ELSE "list"
    /\ UNCHANGED <<reqs, batch, store, enabled, left>>

(* discovery_due, admit_request: the billing probe is armed as it is sent.  *)
ListDue(a) == RequestsAllowed(a) \/ ProbeAdmissible(a)

AdmitList(s) ==
    IF ProbeAdmissible(s.acct) THEN [s EXCEPT !.acct.probe = "later", !.acct.sent = "later"]
    ELSE s

(* reserve_for, before the list of a Fleet tick. *)
ReserveList ==
    /\ pc = "list" /\ now.acct.fleet /\ ListDue(now.acct)
    /\ CommitTick(now, TRUE)
    /\ pc' = "asked"
    /\ UNCHANGED <<reqs, enabled>>

NoList ==
    /\ pc \in {"list", "asked"}
    /\ pc' = "send"
    /\ UNCHANGED <<now, base, reqs, batch, restored, applied, store, enabled, left>>

(* accept_discovery, and resume_from_billing at its end. *)
Resumed(s) ==
    IF s.acct.st = "billing"
    THEN [s EXCEPT !.acct.st = "collecting", !.acct.probe = "no", !.acct.sent = "no"] ELSE s

FirstNamed(c, future) ==
    IF c.named THEN c
    ELSE LET told == [c EXCEPT !.named = TRUE]
         IN  IF restored = {} THEN told
             ELSE ApplyRestored(told, CHOOSE row \in restored : TRUE, future)

Listed(s) ==
    UNION {AcceptState([s EXCEPT !.car = FirstNamed(@, future)], state) :
              state \in Reports, future \in BOOLEAN}
    \cup {[s EXCEPT !.car = c] : c \in NoteUnlisted(s.car)}

List ==
    /\ pc \in {"list", "asked"} /\ ListDue(now.acct)
    /\ \E t \in Listed(AdmitList(now)) : now' = Resumed(t)
    /\ batch' = batch \cup {"result"}
    /\ pc' = "send"
    /\ UNCHANGED <<base, reqs, restored, applied, store, enabled, left>>

(* discovery_failed_for_error, list_refused_after_check; list_resend_       *)
(* withheld of a Fleet list.                                                *)
ListFails ==
    /\ pc \in {"list", "asked"} /\ ListDue(now.acct)
    /\ LET s == AdmitList(now)
       IN  \/ \E class \in AccountClasses(s.acct) :
                 now' = [s EXCEPT !.acct = AccountFailed(@, class)]
          \/ now' = s
          \/ /\ s.acct.fleet
             /\ now' = IF s.acct.st = "billing"
                       THEN [s EXCEPT !.acct.probe = "now", !.acct.sent = "now"] ELSE s
    /\ pc' = "send"
    /\ UNCHANGED <<base, reqs, batch, restored, applied, store, enabled, left>>

(* The list meets a terminal credential outcome: the Owner tick ends with   *)
(* its commit, the Fleet tick goes on and sends nothing.                    *)
ListStops ==
    /\ pc \in {"list", "asked"} /\ ListDue(now.acct)
    /\ now' = [AdmitList(now) EXCEPT !.acct = EnterStop(@)]
    /\ pc' = IF now.acct.fleet THEN "send" ELSE "drive"
    /\ UNCHANGED <<base, reqs, batch, restored, applied, store, enabled, left>>

-----------------------------------------------------------------------------
(* The tick's requests and commits. *)

(* due_offline_state_vehicles, due_probe_vehicles, due_vehicles: what may   *)
(* be due.                                                                  *)
Due(s) ==
    LET c == s.car
    IN  IF ~RequestsAllowed(s.acct) THEN {}
        ELSE {"other"}
             \cup (IF ~s.acct.fleet /\ c.check /\ c.hold \notin Inactive THEN {"check"} ELSE {})
             \cup (IF ~ProbeDue(s) THEN {}
                   ELSE IF c.hold = "service" /\ ~s.acct.fleet THEN {"record"} ELSE {"probe"})
             \cup (IF c.hold = "none" /\ ~c.busy /\ c.read
                   THEN {IF Gated(c) THEN "gated" ELSE "read"} ELSE {})

OfCar == {"record", "probe", "read", "gated"}

Send ==
    /\ pc = "send"
    /\ \E c \in AdvanceTimers(now.car) : \E sent \in SUBSET Due([now EXCEPT !.car = c]) :
          /\ now' = [now EXCEPT !.car = [c EXCEPT !.busy = @ \/ sent \cap OfCar # {}]]
          /\ reqs' = sent
          /\ pc' = IF now.acct.fleet /\ sent # {} THEN "reserve" ELSE "drive"
    /\ UNCHANGED <<base, batch, restored, applied, store, enabled, left>>

(* reserve_for, before the reads of a Fleet tick: when the reservation does *)
(* not cover them.                                                          *)
Reserve ==
    /\ pc = "reserve" /\ pc' = "admit"
    /\ \/ CommitTick(now, TRUE)
       \/ UNCHANGED <<now, base, batch, restored, applied, store, left>>
    /\ UNCHANGED <<reqs, enabled>>

(* admit_request, request_withheld *)
Admit ==
    /\ pc = "admit" /\ pc' = "drive"
    /\ IF RequestsAllowed(now.acct) THEN UNCHANGED <<now, reqs>>
       ELSE now' = [now EXCEPT !.car.busy = FALSE] /\ reqs' = {}
    /\ UNCHANGED <<base, batch, restored, applied, store, enabled, left>>

(* What a request that does not end the tick may do. *)
Classes(a) == AccountClasses(a) \cup CarClasses

ReadOutcomes(s) ==
    UNION {ReadSucceeded(s, phase, used) : phase \in ReadPhases, used \in BOOLEAN}
    \cup UNION {ReadFailed(s, class) : class \in Classes(s.acct)}

Withheld(s) == IF s.acct.fleet THEN {[s EXCEPT !.car.busy = FALSE]} ELSE {}

Outcomes(s, req) ==
    CASE req = "check"  -> UNION {AcceptState([s EXCEPT !.car.check = FALSE], state) : state \in Reports}
                           \cup UNION {CheckFailed(s, class) : class \in Classes(s.acct)}
      [] req = "record" -> {ProbeAnswered(s, still) : still \in BOOLEAN}
                           \cup UNION {ProbeFailed(s, class) : class \in Classes(s.acct)}
      [] req = "probe"  -> UNION {ProbeRead(s, phase, used) : phase \in ReadPhases, used \in BOOLEAN}
                           \cup UNION {ProbeFailed(s, class) : class \in Classes(s.acct)}
                           \cup Withheld(s)
      [] req = "read"   -> ReadOutcomes(s) \cup Withheld(s)
      [] req = "gated"  -> ReadOutcomes(s) \cup {[s EXCEPT !.car = GateNotConfirmed(@)]}
      [] req = "other"  -> {s} \cup {[s EXCEPT !.acct = AccountFailed(@, class)] :
                                       class \in AccountClasses(s.acct)}

Finish(req) ==
    /\ pc = "drive" /\ req \in reqs
    /\ now' \in Outcomes(now, req)
    /\ reqs' = reqs \ {req}
    /\ batch' = batch \cup {"result"}
                \cup IF now'.car.hold = "service" /\ now.car.hold # "service" THEN {"service"} ELSE {}
    /\ UNCHANGED <<pc, base, restored, applied, store, enabled, left>>

(* A request meets a terminal credential outcome: what the tick received is *)
(* stored, the other requests are dropped, no car stays in flight.          *)
SignedOut ==
    /\ pc = "drive" /\ reqs # {}
    /\ CommitTick(Pair([now.car EXCEPT !.busy = FALSE], EnterStop(now.acct)), FALSE)
    /\ reqs' = {} /\ pc' = "idle"
    /\ UNCHANGED enabled

(* drive_requests: the oldest result is K_TICK_COMMIT_AGE old. *)
CommitAged ==
    /\ pc = "drive" /\ reqs # {} /\ batch # {}
    /\ CommitTick(now, TRUE)
    /\ UNCHANGED <<pc, reqs, enabled>>

EndTick ==
    /\ pc = "drive" /\ reqs = {}
    /\ CommitTick(now, FALSE)
    /\ pc' = "idle"
    /\ UNCHANGED <<reqs, enabled>>

-----------------------------------------------------------------------------
(* The end of a run. *)

Ended(stored) ==
    /\ left.ends > 0
    /\ left' = [left EXCEPT !.ends = @ - 1]
    /\ pc' = "down"
    /\ now' = Pair(NoCar, Account(now.acct.fleet))
    /\ base' = {} /\ reqs' = {} /\ batch' = {} /\ restored' = {} /\ applied' = {}
    /\ store' = stored
    /\ UNCHANGED enabled

(* The process dies, or its stop goes unrecorded. *)
Crash == pc # "down" /\ Ended(store)

(* finish_collector_run, end_collector_run: the tick the stop cuts short    *)
(* loses its batch, not its transitions.                                    *)
Stop ==
    /\ pc \in {"start", "idle", "list", "asked", "drive"}
    /\ Ended(Written(now, pc # "start", FALSE))

Next ==
    \/ Load \/ FirstSettings \/ Settings \/ OwnerActs
    \/ TimePasses \/ Frame \/ Confirmation
    \/ BeginTick \/ ReserveList \/ NoList \/ List \/ ListFails \/ ListStops
    \/ Send \/ Reserve \/ Admit \/ SignedOut \/ CommitAged \/ EndTick
    \/ \E req \in Requests : Finish(req)
    \/ Crash \/ Stop

Spec == Init /\ [][Next]_vars

-----------------------------------------------------------------------------
(* PROPERTIES *)

(* A hold only a probe can end has its probe armed, also after a restart, a *)
(* failed commit or an answer that changed the hold under the probe.        *)
HeldIsProbed == now.car.hold \in {"service", "paused"} => now.car.probe

(* A car that is online or updating and not held is read again: no failure, *)
(* rollback or withheld request leaves it without its next read.            *)
AwakeIsRead ==
    pc = "idle" /\ now.car.hold = "none" /\ now.car.phase \in {"online", "updating"}
        => now.car.read

(* The owner's resume is final: once it is stored, the first list after a   *)
(* start does not pause the car again (owner_resume).                       *)
ResumeStays ==
    [][store.row.hold = "none" /\ ~now.car.named /\ now'.car.named
          => now'.car.hold \notin Paused]_vars

(* A gap that is open has its cause in the rows stored with it: no stop,    *)
(* crash, failed commit or changed configuration leaves one open behind a   *)
(* hold or account state that has ended (derive_gaps).  A car whose first   *)
(* list was rolled back may be paused before it has a row.                  *)
GapHasCause ==
    /\ "paused" \in store.gaps /\ store.row.there => store.row.hold \in Paused
    /\ "refused" \in store.gaps => store.acct.st = "refused"
    /\ "billing" \in store.gaps => store.acct.st = "billing"

\* What the history of a car can be asked: an awake car is read, and a gap in it has a cause.
HistoryIsAccounted == AwakeIsRead /\ GapHasCause
=============================================================================
