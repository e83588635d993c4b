---------------------------- MODULE CollectorRun ----------------------------
(***************************************************************************)
(* The life of a supervised collector run: admission, the singleton lease  *)
(* in the catalogue, the renewal task, the loop's write boundaries, the    *)
(* stop record, the wind-down and the release; and what the start of the   *)
(* next run reads from the rows the last one left.                         *)
(*                                                                         *)
(* A process is admitted while it holds the lock of the data directory.    *)
(* The lock can be lost under a running process and can be put back, and   *)
(* another process can be admitted meanwhile.  Every run carries one fence *)
(* (RunWriteGuard): the first part of the process that meets a denial sets *)
(* it, and it is never cleared.                                            *)
(*                                                                         *)
(* The account gaps `hub_stopped' and `hub_down' are what the owner is     *)
(* told about the time in which nobody collected.                          *)
(***************************************************************************)
EXTENDS Naturals, Sequences, FiniteSets

CONSTANTS HubProcesses,    \* processes that may serve the data directory
          Deployments,  \* the mode each start finds configured: sequences of
                        \* "owner", "fleet", "telemetry", "cadence"
          RunLeaseTicks,   \* how long a lease outlives its last heartbeat
          GapMin,       \* K_GAP_MIN_MS
          MaxMishaps,   \* bound: crashes, failed writes, locks lost or put back
          MaxWall       \* bound: the wall clock

VARIABLES
  deployed,  \* the modes the starts find
  proc,      \* per process: the run it executes
  lockHolder,    \* the process that holds the data directory's lock, or Nobody
  lease,     \* supervised_collector_lease: at most one row
  gaps,      \* collection_gaps, the account's hub_stopped and hub_down rows
  wall,      \* the wall clock
  runs, mishaps,
  lastLife,  \* history: last instant a begun run gave a sign of life
  silences   \* history: the silences that ordinary starts have ended

runVars == <<deployed, proc, lockHolder, lease, gaps, wall, runs, mishaps, lastLife, silences>>

Nobody == 0
Never == 0
StillOpen == MaxWall + 1
NoRun == [at |-> "off", mode |-> "none", run |-> 0, prev |-> Never, start |-> Never, fence |-> FALSE,
          renewal |-> "off", stop |-> "none"]

Admitted(p) == lockHolder = p

\* RunWriteGuard::refused: the fence is the first word, then the admission.
Refused(p) == proc[p].fence \/ ~Admitted(p)

Put(p, r) == proc' = [proc EXCEPT ![p] = r]
Continue(p, step) == Put(p, [proc[p] EXCEPT !.at = step])
Exit(p) == /\ Put(p, NoRun)
           /\ lockHolder' = IF lockHolder = p THEN Nobody ELSE lockHolder

StoreSame == UNCHANGED <<lease, gaps>>
WorldSame == UNCHANGED <<wall, runs>>
HistorySame == UNCHANGED <<lastLife, silences>>

-----------------------------------------------------------------------------
(* The gap table *)

OpenGap(kind) == {g \in gaps : g.kind = kind /\ g.to = StillOpen}
AccountGapOpen == OpenGap("hub_stopped") \cup OpenGap("hub_down") # {}

CloseGap(table, kind, at) ==
  {IF g.kind = kind /\ g.to = StillOpen
   THEN [g EXCEPT !.to = IF g.from > at THEN g.from ELSE at] ELSE g : g \in table}

\* Nothing is inserted open while a gap of the kind is open.
InsertGap(table, kind, from, to) ==
  IF to = StillOpen /\ \E g \in table : g.kind = kind /\ g.to = StillOpen
  THEN table
  ELSE table \cup {[kind |-> kind, from |-> from, to |-> to]}

\* The acquisition keeps the evidence of the lease it replaces.
RecordPredecessorDowntime(table) ==
  IF AccountGapOpen \/ \A l \in lease : l.until > wall
  THEN table
  ELSE UNION {InsertGap(table, "hub_down", l.beat, StillOpen) : l \in lease}

\* The start that succeeds finalises the downtime before it.
CloseOrRecordDowntime(table, start, prev) ==
  LET down == {g \in table : g.kind = "hub_down" /\ g.to = StillOpen}
      stopped == {g \in table : g.kind = "hub_stopped" /\ g.to = StillOpen}
      short == {g \in down : start - g.from <= GapMin}
      settled == CloseGap(table \ short, "hub_down", start)
  IN  CASE stopped # {} -> CloseGap(settled, "hub_stopped", start)
        [] stopped = {} /\ down # {} -> settled
        [] stopped = {} /\ down = {} /\ prev # Never /\ start - prev > GapMin ->
             InsertGap(settled, "hub_down", prev, start)
        [] OTHER -> settled

\* A catalogue copy is sealed for another host: the lease becomes a gap.
SealCopy ==
  /\ \A p \in HubProcesses : proc[p].at = "off"
  /\ lease # {}
  /\ gaps' = IF AccountGapOpen THEN gaps
             ELSE UNION {InsertGap(gaps, "hub_stopped", l.beat, StillOpen) : l \in lease}
  /\ lease' = {}
  /\ UNCHANGED <<proc, lockHolder, mishaps>> /\ WorldSame /\ HistorySame

-----------------------------------------------------------------------------
(* Starting *)

PreviousHeartbeat == IF lease = {} THEN Never ELSE CHOOSE b \in {l.beat : l \in lease} : TRUE

\* The operator, or the service manager, starts Serve; it is admitted when
\* it takes the lock.  HubProcesses are alike: the first idle one is taken.
Serve(p) ==
  /\ proc[p].at = "off" /\ lockHolder = Nobody /\ runs < Len(deployed)
  /\ \A q \in HubProcesses : q < p => proc[q].at # "off"
  /\ lockHolder' = p
  /\ runs' = runs + 1
  /\ Put(p, [NoRun EXCEPT !.at = "entry", !.mode = deployed[runs + 1], !.run = runs + 1])
  /\ UNCHANGED <<wall, mishaps>> /\ StoreSame /\ HistorySame

\* The entry point asserts the admission and makes the guard; the credential
\* unit is built and the cursor key created behind it; then the previous
\* heartbeat is read, before this run's lease replaces it.
EnterGuarded(p) ==
  /\ IF Refused(p) THEN Exit(p)
     ELSE /\ Put(p, [proc[p] EXCEPT !.at = "acquire", !.prev = PreviousHeartbeat])
          /\ UNCHANGED lockHolder
  /\ UNCHANGED mishaps /\ StoreSame /\ WorldSame /\ HistorySame

EnterOwner(p) == proc[p].at = "entry" /\ proc[p].mode = "owner" /\ EnterGuarded(p)

EnterFleet(p) ==
  /\ proc[p].at = "entry" /\ proc[p].mode \in {"fleet", "telemetry"}
  /\ EnterGuarded(p)

\* The wait for a corrected cadence builds no credential unit and creates its
\* key later.
EnterCadenceWait(p) == proc[p].at = "entry" /\ proc[p].mode = "cadence" /\ EnterGuarded(p)

MayAcquire == \A l \in lease : l.until <= wall

AcquireLease(p) ==
  /\ proc[p].at = "acquire"
  /\ IF Refused(p) \/ ~MayAcquire
     THEN Exit(p) /\ StoreSame
     ELSE /\ gaps' = RecordPredecessorDowntime(gaps)
          /\ lease' = {[run |-> proc[p].run, beat |-> wall, until |-> wall + RunLeaseTicks]}
          /\ Put(p, [proc[p] EXCEPT !.at = "begin", !.start = wall])
          /\ UNCHANGED lockHolder
  /\ UNCHANGED mishaps /\ WorldSame /\ HistorySame

\* A begun run is a sign of life, and ends a silence when an earlier one was.
Began ==
  /\ silences' = IF lastLife = Never THEN silences ELSE silences \cup {<<lastLife, wall>>}
  /\ lastLife' = wall

\* start_collector_run: the reset and the downtime in one transaction; a
\* failure ends the run and leaves its lease to expire.
BeginRun(p) ==
  /\ proc[p].at = "begin" /\ proc[p].mode # "cadence"
  /\ IF Refused(p)
     THEN Exit(p) /\ StoreSame /\ HistorySame
     ELSE /\ gaps' = CloseOrRecordDowntime(gaps, wall, proc[p].prev)
          /\ Put(p, [proc[p] EXCEPT !.at = "startup", !.renewal = "on",
                                    !.start = Never, !.prev = Never])
          /\ Began
          /\ UNCHANGED <<lease, lockHolder>>
  /\ UNCHANGED mishaps /\ WorldSame

BeginFails(p) ==
  /\ proc[p].at = "begin" /\ mishaps < MaxMishaps /\ ~Refused(p)
  /\ mishaps' = mishaps + 1
  /\ lease' = IF proc[p].mode = "cadence" /\ proc[p].prev = Never
              THEN {l \in lease : l.run # proc[p].run} ELSE lease
  /\ Exit(p)
  /\ UNCHANGED gaps /\ WorldSame /\ HistorySame

\* The managed wait records the downtime before it and opens its own stop.
BeginCadenceWait(p) ==
  /\ proc[p].at = "begin" /\ proc[p].mode = "cadence"
  /\ IF Refused(p)
     THEN Exit(p) /\ StoreSame
     ELSE /\ gaps' = InsertGap(CloseOrRecordDowntime(gaps, proc[p].start, proc[p].prev),
                               "hub_stopped", proc[p].start, StillOpen)
          /\ Put(p, [proc[p] EXCEPT !.at = "waitkey", !.start = Never, !.prev = Never])
          /\ UNCHANGED <<lease, lockHolder>>
  /\ UNCHANGED mishaps /\ WorldSame /\ HistorySame

\* Whatever fails in the startup, the renewal runs already and the run winds
\* down.
StartupEnds(p) ==
  /\ \/ Admitted(p) /\ Continue(p, "loop")
     \/ Admitted(p) /\ Continue(p, "stopping")
     \/ ~Admitted(p) /\ Put(p, [proc[p] EXCEPT !.at = "stopping", !.fence = TRUE])
  /\ UNCHANGED <<lockHolder, mishaps>> /\ StoreSame /\ WorldSame /\ HistorySame

\* The terrain worker, the admission and the credential unit asserted, the
\* control socket bound, the key handed over.
StartupOwner(p) == proc[p].at = "startup" /\ proc[p].mode = "owner" /\ StartupEnds(p)

\* The terrain worker, the admission, a refresh that is due, the control
\* socket, the key.
StartupFleet(p) == proc[p].at = "startup" /\ proc[p].mode # "owner" /\ StartupEnds(p)

-----------------------------------------------------------------------------
(* The renewal task *)

\* A renewal is a sign of life of a run that has not recorded its stop.
Lives(p) == proc[p].mode # "cadence" /\ proc[p].stop # "recorded"

RenewalAllowed(p) == ~Refused(p)

Renew(p) ==
  /\ proc[p].renewal = "on"
  /\ IF ~RenewalAllowed(p)
     THEN /\ Put(p, [proc[p] EXCEPT !.renewal = "ended", !.fence = TRUE])
          /\ UNCHANGED <<lease, lastLife>>
     ELSE IF \E l \in lease : l.run = proc[p].run
     THEN /\ lease' = {[run |-> proc[p].run, beat |-> wall, until |-> wall + RunLeaseTicks]}
          /\ lastLife' = IF Lives(p) THEN wall ELSE lastLife
          /\ UNCHANGED proc
     ELSE /\ Put(p, [proc[p] EXCEPT !.renewal = "ended"])
          /\ UNCHANGED <<lease, lastLife>>
  /\ UNCHANGED <<lockHolder, gaps, mishaps, silences>> /\ WorldSame

\* The supervisor joins the task: it writes nothing afterwards.
Joined(r) == [r EXCEPT !.renewal = "joined"]

-----------------------------------------------------------------------------
(* The loop.  Each step stands before one or more store writes and asks the *)
(* guard; a refusal is the run's loss.                                     *)

LoopSteps == {"loop", "tick", "tail"}

\* A guarded boundary of the loop: onward, or the loop ends with the loss.
Guarded(p, r) ==
  Put(p, IF Refused(p) THEN [proc[p] EXCEPT !.at = "stopping", !.fence = TRUE] ELSE r)

LoopSame == UNCHANGED <<lockHolder, mishaps>> /\ StoreSame /\ WorldSame /\ HistorySame

\* Owner wire: the credential unit is maintained, its answers and its stop
\* become the account's state; the streams are stopped, drained and
\* reconciled.  A backlog returns to the top of the loop before any request.
OwnerIteration(p) ==
  /\ proc[p].at = "loop" /\ proc[p].mode = "owner"
  /\ \E next \in {"tick", "loop"} : Guarded(p, [proc[p] EXCEPT !.at = next])
  /\ LoopSame

\* Fleet polling revalidates at the top of every iteration.
FleetIteration(p) ==
  /\ proc[p].at = "loop" /\ proc[p].mode = "fleet"
  /\ Guarded(p, [proc[p] EXCEPT !.at = "tick"])
  /\ LoopSame

\* Fleet Telemetry only keeps the configuration and the token alive; an
\* unsent refresh and an empty garage end the iteration early.
TelemetryIteration(p) ==
  /\ proc[p].at = "loop" /\ proc[p].mode = "telemetry"
  /\ \E next \in {"tail", "loop"} : Guarded(p, [proc[p] EXCEPT !.at = next])
  /\ LoopSame

\* The tick's requests and its commits.
CollectTick(p) ==
  /\ proc[p].at = "tick"
  /\ Guarded(p, [proc[p] EXCEPT !.at = "tail"])
  /\ LoopSame

\* Enrichment, then the export replay.
EnrichAndReplay(p) ==
  /\ proc[p].at = "tail"
  /\ Guarded(p, [proc[p] EXCEPT !.at = "loop"])
  /\ LoopSame

\* What the run detached (a token exchange that the wind-down waits for, a blocking replay that owns the
\* publication gate, the terrain worker, the control socket) shares the
\* guard, and the wind-down watches the admission while it waits for them: the
\* first that meets the denial sets the fence.
DetachedRefused(p) ==
  /\ proc[p].renewal # "off" /\ ~Admitted(p) /\ ~proc[p].fence
  /\ Put(p, [proc[p] EXCEPT !.fence = TRUE])
  /\ LoopSame

\* The supervisor's select: the loss of the admission, an orderly shutdown or
\* an ended worker, or an ended renewal.
SelectArm(p) ==
  /\ proc[p].at \in LoopSteps
  /\ \/ ~Admitted(p) /\ Put(p, [proc[p] EXCEPT !.at = "stopping", !.fence = TRUE])
     \/ Continue(p, "stopping")
  /\ LoopSame

-----------------------------------------------------------------------------
(* Winding down *)

\* fence_renewal_if_due: joined before anything else is waited for.
FenceDue(p) == proc[p].renewal = "on" /\ (proc[p].stop = "unrecorded" \/ proc[p].fence)

WindDown == {"cleanup", "frames", "terrain", "gate"}

FenceRenewal(p) ==
  /\ proc[p].at \in WindDown /\ FenceDue(p)
  /\ Put(p, Joined(proc[p]))
  /\ LoopSame

\* One last transaction with the rows and the stop, unless the loss is known.
RecordStop(p) ==
  /\ proc[p].at = "stopping"
  /\ IF Refused(p)
     THEN /\ Put(p, [proc[p] EXCEPT !.at = "cleanup", !.stop = "unrecorded", !.fence = TRUE])
          /\ UNCHANGED <<gaps, lastLife>>
     ELSE /\ gaps' = InsertGap(gaps, "hub_stopped", wall, StillOpen)
          /\ lastLife' = wall
          /\ Put(p, [proc[p] EXCEPT !.at = "cleanup", !.stop = "recorded"])
  /\ UNCHANGED <<lockHolder, lease, mishaps, silences>> /\ WorldSame

StopNotRecorded(p) ==
  /\ proc[p].at = "stopping" /\ ~Refused(p) /\ mishaps < MaxMishaps
  /\ mishaps' = mishaps + 1
  /\ Put(p, [proc[p] EXCEPT !.at = "cleanup", !.stop = "unrecorded"])
  /\ UNCHANGED lockHolder /\ StoreSame /\ WorldSame /\ HistorySame

\* The Owner run waits for its credential unit, however long that takes.
OwnerCleanup(p) ==
  /\ proc[p].at = "cleanup" /\ proc[p].mode = "owner" /\ ~FenceDue(p)
  /\ Continue(p, "frames")
  /\ LoopSame

\* The Fleet run settles its exchange with an allowance, and not at all after
\* a loss; the admission is revalidated where the wait ends.
FleetSettlement(p) ==
  /\ proc[p].at = "cleanup" /\ proc[p].mode # "owner" /\ ~FenceDue(p)
  /\ Put(p, [proc[p] EXCEPT !.at = "terrain", !.fence = @ \/ ~Admitted(p)])
  /\ LoopSame

\* The last frames of the streams are stored, or the streams are aborted.
FinalFrames(p) ==
  /\ proc[p].at = "frames" /\ ~FenceDue(p)
  /\ Put(p, [proc[p] EXCEPT !.at = "terrain", !.fence = Refused(p)])
  /\ LoopSame

\* The terrain worker is stopped and finish_supervised_collector begins with
\* a check: then fence, drain the publications behind the gate, check, join
\* the renewal, check, release.
StopTerrain(p) ==
  /\ proc[p].at = "terrain" /\ ~FenceDue(p)
  /\ Put(p, [proc[p] EXCEPT !.at = "gate", !.fence = Refused(p)])
  /\ LoopSame

GateHeld(p) ==
  /\ proc[p].at = "gate" /\ ~FenceDue(p)
  /\ Put(p, [proc[p] EXCEPT !.at = "join", !.fence = Refused(p)])
  /\ LoopSame

JoinRenewal(p) ==
  /\ proc[p].at = "join"
  /\ Put(p, [Joined(proc[p]) EXCEPT !.at = "release"])
  /\ LoopSame

\* A lease is released only after a recorded stop and no loss.
ReleasableOnStop(p) == proc[p].stop # "none" /\ ~Refused(p)
Releasable(p) == proc[p].stop = "recorded" /\ ~Refused(p)

Release(p) ==
  /\ proc[p].at = "release"
  /\ lease' = IF Releasable(p) THEN {l \in lease : l.run # proc[p].run} ELSE lease
  /\ Exit(p)
  /\ UNCHANGED <<gaps, mishaps>> /\ WorldSame /\ HistorySame

-----------------------------------------------------------------------------
(* The managed wait for a corrected cadence *)

WaitKey(p) ==
  /\ proc[p].at = "waitkey"
  /\ IF Refused(p) THEN Exit(p)
     ELSE Put(p, [proc[p] EXCEPT !.at = "waiting", !.renewal = "on"]) /\ UNCHANGED lockHolder
  /\ UNCHANGED mishaps /\ StoreSame /\ WorldSame /\ HistorySame

CadenceEnds(p) ==
  /\ proc[p].at = "waiting"
  /\ \/ ~Admitted(p) /\ Put(p, [proc[p] EXCEPT !.at = "waitjoin", !.fence = TRUE,
                                               !.stop = "unrecorded"])
     \/ Put(p, [proc[p] EXCEPT !.at = "waitjoin", !.stop = "recorded"])
     \/ proc[p].renewal = "ended"
        /\ Put(p, [proc[p] EXCEPT !.at = "waitjoin", !.stop = "unrecorded"])
  /\ LoopSame

WaitJoin(p) ==
  /\ proc[p].at = "waitjoin"
  /\ Put(p, [proc[p] EXCEPT !.at = "release", !.renewal = "joined",
                            !.stop = IF proc[p].renewal = "ended" THEN "unrecorded" ELSE @])
  /\ LoopSame

-----------------------------------------------------------------------------
(* The host *)

\* The process dies: nothing of it is left but the rows.
RunCrash(p) ==
  /\ proc[p].at # "off" /\ mishaps < MaxMishaps
  /\ mishaps' = mishaps + 1
  /\ Exit(p)
  /\ StoreSame /\ WorldSame /\ HistorySame

LoseLock ==
  /\ lockHolder # Nobody /\ mishaps < MaxMishaps
  /\ lockHolder' = Nobody /\ mishaps' = mishaps + 1
  /\ UNCHANGED <<proc, wall, runs>> /\ StoreSame /\ HistorySame

\* The file is put back, unless another process has been admitted since.
PutBack(p) ==
  /\ lockHolder = Nobody /\ mishaps < MaxMishaps
  /\ proc[p].at # "off" /\ proc[p].run = runs
  /\ lockHolder' = p /\ mishaps' = mishaps + 1
  /\ UNCHANGED <<proc, wall, runs>> /\ StoreSame /\ HistorySame

WallTick ==
  /\ wall < MaxWall
  /\ wall' = wall + 1
  /\ UNCHANGED <<proc, lockHolder, runs, mishaps>> /\ StoreSame /\ HistorySame

RunInit ==
  /\ deployed \in Deployments
  /\ proc = [p \in HubProcesses |-> NoRun]
  /\ lockHolder = Nobody /\ lease = {} /\ gaps = {} /\ wall = 1
  /\ runs = 0 /\ mishaps = 0 /\ lastLife = Never /\ silences = {}

RunStep ==
  \/ SealCopy \/ LoseLock \/ WallTick
  \/ \E p \in HubProcesses :
       \/ Serve(p) \/ EnterOwner(p) \/ EnterFleet(p) \/ EnterCadenceWait(p)
       \/ AcquireLease(p)
       \/ BeginRun(p) \/ BeginFails(p) \/ BeginCadenceWait(p)
       \/ StartupOwner(p) \/ StartupFleet(p)
       \/ Renew(p)
       \/ OwnerIteration(p) \/ FleetIteration(p) \/ TelemetryIteration(p)
       \/ CollectTick(p) \/ EnrichAndReplay(p) \/ DetachedRefused(p) \/ SelectArm(p)
       \/ FenceRenewal(p) \/ RecordStop(p) \/ StopNotRecorded(p)
       \/ OwnerCleanup(p) \/ FleetSettlement(p) \/ FinalFrames(p) \/ StopTerrain(p)
       \/ GateHeld(p) \/ JoinRenewal(p) \/ Release(p)
       \/ WaitKey(p) \/ CadenceEnds(p) \/ WaitJoin(p)
       \/ RunCrash(p) \/ PutBack(p)

RunNext == RunStep /\ UNCHANGED deployed

RunSpec == RunInit /\ [][RunNext]_runVars

-----------------------------------------------------------------------------
(* Properties *)

Covered(t) == \E g \in gaps : g.from <= t /\ t < g.to

\* Downtime is on the books, once: between the last sign of life of one
\* collecting run and the start of the next, at most GapMin ticks are outside
\* every hub_stopped and hub_down gap, however the first run ended (a recorded
\* stop, a lost admission, a crash) and however many starts failed or waited
\* in between; no two of these gaps are open at once, and none is open while
\* the lockHolder of the lease collects (acquire_supervised_collector_lease, close_or_record_downtime,
\* finish_supervised_collector).
DowntimeOnTheBooks ==
  /\ \A s \in silences :
       Cardinality({t \in s[1]..(s[2] - 1) : ~Covered(t)}) <= GapMin
  /\ \A g, h \in gaps : g.to = StillOpen /\ h.to = StillOpen => g = h
  /\ \A p \in HubProcesses : \A l \in lease :
       l.run = proc[p].run /\ proc[p].renewal = "on" /\ Lives(p) => ~AccountGapOpen
=============================================================================
