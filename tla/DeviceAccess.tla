---------------------------- MODULE DeviceAccess ----------------------------
(***************************************************************************)
(* Pairing an App and the bearer it then holds                             *)
(* (src/storage/db/identity_and_audit.rs, device_credentials.rs,           *)
(* device_grants.rs, application/main/pairing.rs, the claim and rotate     *)
(* routes of api/server.rs).                                               *)
(*                                                                         *)
(* One invitation, its device, and requests served concurrently: each      *)
(* reads the clock, decides from a read-only snapshot and, when it has to  *)
(* write, decides again in an IMMEDIATE transaction. An answer may be lost;*)
(* the App keeps the newest bearer it received. Bearers are numbered in    *)
(* the order in which they were issued.                                    *)
(*                                                                         *)
(* today: the clock. invite: the stored challenge. device: the row of      *)
(* paired_devices. grace: the row of paired_device_token_grace. retired:   *)
(* the retired vehicles. grants: the device's vehicles. jobs: the requests *)
(* in service. held: the App's bearer. minted: the last bearer.            *)
(***************************************************************************)
EXTENDS Integers, FiniteSets

CONSTANTS Jobs, Vehicles, InviteLife, TokenLife, MaxLife, GraceWindow,
          WriteInterval, LastDay, MaxIssued, MaxRetirements

VARIABLES today, invite, device, grace, retired, grants, jobs, held, minted

avars == <<today, invite, device, grace, retired, grants, jobs, held, minted>>

NoBearer == 0
NoInvite == [id |-> "none"]
NoDevice == [cur |-> NoBearer]
NoGrace == [tok |-> NoBearer, until |-> 0, sealed |-> NoBearer]
NoJob == [pc |-> "idle"]

Lesser(a, b) == IF a < b THEN a ELSE b
Greater(a, b) == IF a > b THEN a ELSE b

StartJob(j, job) == jobs[j] = NoJob /\ jobs' = [jobs EXCEPT ![j] = job]
StepJob(j, job) == jobs' = [jobs EXCEPT ![j] = job]
AnswerJob(j, tok) == StepJob(j, [pc |-> "answered", tok |-> tok])
RefuseJob(j) == StepJob(j, NoJob)

-----------------------------------------------------------------------------
(* The owner *)

\* execute_pairing_at, persist_pairing_with_scope: the named vehicles must be
\* active when the challenge is stored. An invitation that cannot be presented
\* is revoked (persist_and_present_pairing).
PersistPairing ==
  /\ invite = NoInvite /\ device = NoDevice
  /\ \E all \in BOOLEAN, named \in SUBSET Vehicles :
       /\ IF all THEN named = {} ELSE named # {} /\ named \cap retired = {}
       /\ invite' = [id |-> "stored", all |-> all, named |-> named, expires |-> today + InviteLife]
  /\ UNCHANGED <<today, device, grace, retired, grants, jobs, held, minted>>

RevokePairing ==
  /\ invite' = NoInvite /\ invite # NoInvite
  /\ UNCHANGED <<today, device, grace, retired, grants, jobs, held, minted>>

\* revoke_device_at: the sealed successor goes with the revocation.
RevokeDevice ==
  /\ device # NoDevice /\ ~device.revoked
  /\ device' = [device EXCEPT !.revoked = TRUE]
  /\ grace' = [grace EXCEPT !.sealed = NoBearer]
  /\ UNCHANGED <<today, invite, retired, grants, jobs, held, minted>>

\* retire_vehicle and reactivate_vehicle, by the owner or the inventory.
SetVehicleRetirement ==
  /\ \E v \in Vehicles :
       \/ v \in retired /\ retired' = retired \ {v}
       \/ v \notin retired /\ Cardinality(retired) < MaxRetirements /\ retired' = retired \cup {v}
  /\ UNCHANGED <<today, invite, device, grace, grants, jobs, held, minted>>

-----------------------------------------------------------------------------
(* claim_pairing: a check without the writer, and again inside it *)

ClaimValid(now) == invite # NoInvite /\ now < invite.expires

BeginClaim(j) ==
  /\ ClaimValid(today)
  /\ StartJob(j, [pc |-> "claim", now |-> today])
  /\ UNCHANGED <<today, invite, device, grace, retired, grants, held, minted>>

\* A device with every active vehicle of the invitation; the challenge goes.
ClaimPairing(j) ==
  /\ jobs[j].pc = "claim"
  /\ IF ~ClaimValid(jobs[j].now)
     THEN RefuseJob(j) /\ UNCHANGED <<invite, device, grants, minted>>
     ELSE LET now == jobs[j].now IN
          /\ minted < MaxIssued /\ minted' = minted + 1
          /\ device' = [cur |-> minted + 1, created |-> now, max |-> now + MaxLife,
                        expires |-> Lesser(now + TokenLife, now + MaxLife),
                        revoked |-> FALSE, last |-> -1]
          /\ grants' = (IF invite.all THEN Vehicles ELSE invite.named) \ retired
          /\ invite' = NoInvite
          /\ AnswerJob(j, minted + 1)
  /\ UNCHANGED <<today, grace, retired, held>>

-----------------------------------------------------------------------------
(* authenticate_device_at *)

Live(now) ==
  /\ device # NoDevice /\ ~device.revoked
  /\ device.expires > now /\ device.max > now /\ device.created <= now

\* read_current_bearer_device, and the grace bearer inside its window.
IsCurrent(tok, now) == Live(now) /\ device.cur = tok
IsGrace(tok, now) == Live(now) /\ grace.tok = tok /\ grace.until > now

SlidExpiry(now) == Lesser(Greater(device.expires, now + TokenLife), device.max)

\* Whether the expiry or the stamp moves by more than the write interval.
NeedsWrite(expiry, now) ==
  \/ Lesser(Greater(device.expires, expiry), device.max) - device.expires > WriteInterval
  \/ device.last < 0 \/ now - device.last > WriteInterval

BeginAuthenticate(j) ==
  /\ held # NoBearer
  /\ StartJob(j, IF ~IsCurrent(held, today) THEN [pc |-> "grace", tok |-> held, now |-> today]
              ELSE IF NeedsWrite(SlidExpiry(today), today)
              THEN [pc |-> "slide", tok |-> held, now |-> today, expiry |-> SlidExpiry(today)]
              ELSE [pc |-> "answered", tok |-> held])
  /\ UNCHANGED <<today, invite, device, grace, retired, grants, held, minted>>

\* Faulty variant: the write trusts the read that decided it.
SlideUnchecked(j) ==
  /\ jobs[j].pc = "slide"
  /\ device' = [device EXCEPT !.expires = jobs[j].expiry, !.last = jobs[j].now]
  /\ AnswerJob(j, jobs[j].tok)
  /\ UNCHANGED <<today, invite, grace, retired, grants, held, minted>>

\* The UPDATE repeats the whole decision on the row it locks; when it changes
\* nothing the request is judged again from a new read.
Slide(j) ==
  /\ jobs[j].pc = "slide"
  /\ LET r == jobs[j] IN
     IF IsCurrent(r.tok, r.now) /\ NeedsWrite(r.expiry, r.now)
     THEN /\ device' = [device EXCEPT !.expires = Lesser(Greater(@, r.expiry), device.max),
                                      !.last = Greater(@, r.now)]
          /\ grace' = IF grace.until <= r.now THEN [grace EXCEPT !.sealed = NoBearer] ELSE grace
          /\ AnswerJob(j, r.tok)
     ELSE /\ StepJob(j, [pc |-> "again", tok |-> r.tok, now |-> r.now])
          /\ UNCHANGED <<device, grace>>
  /\ UNCHANGED <<today, invite, retired, grants, held, minted>>

AuthenticateAgain(j) ==
  /\ jobs[j].pc = "again"
  /\ LET r == jobs[j] IN
     IF IsCurrent(r.tok, r.now) THEN AnswerJob(j, r.tok)
     ELSE StepJob(j, [pc |-> "grace", tok |-> r.tok, now |-> r.now])
  /\ UNCHANGED <<today, invite, device, grace, retired, grants, held, minted>>

AuthenticateGrace(j) ==
  /\ jobs[j].pc = "grace"
  /\ IF IsGrace(jobs[j].tok, jobs[j].now) THEN AnswerJob(j, jobs[j].tok) ELSE RefuseJob(j)
  /\ UNCHANGED <<today, invite, device, grace, retired, grants, held, minted>>

-----------------------------------------------------------------------------
(* rotate_device *)

\* rotation_outcome: the current bearer at its maximum is handed back, the
\* grace bearer gets the successor it sealed while that is current; a current
\* bearer is otherwise to be replaced.
Rotatable(tok, now) == IsCurrent(tok, now) /\ device.expires < device.max
RotationAnswer(tok, now) ==
  CASE IsCurrent(tok, now) -> IF device.expires >= device.max THEN tok ELSE NoBearer
    [] IsGrace(tok, now) /\ device.cur # tok /\ grace.sealed = device.cur -> device.cur
    [] OTHER -> NoBearer

BeginRotate(j) ==
  /\ held # NoBearer
  /\ Rotatable(held, today) \/ RotationAnswer(held, today) # NoBearer
  /\ StartJob(j, IF Rotatable(held, today) THEN [pc |-> "rotate", tok |-> held, now |-> today]
              ELSE [pc |-> "answered", tok |-> RotationAnswer(held, today)])
  /\ UNCHANGED <<today, invite, device, grace, retired, grants, held, minted>>

\* Faulty variant: the writer issues what the read-only check decided.
RotateUnchecked(j) ==
  /\ jobs[j].pc = "rotate" /\ minted < MaxIssued
  /\ LET r == jobs[j] IN
     /\ minted' = minted + 1
     /\ device' = [device EXCEPT !.cur = minted + 1, !.last = r.now, !.expires = SlidExpiry(r.now)]
     /\ grace' = [tok |-> r.tok, until |-> r.now + GraceWindow, sealed |-> minted + 1]
     /\ AnswerJob(j, minted + 1)
  /\ UNCHANGED <<today, invite, retired, grants, held>>

\* The bearer moves into the device's one grace row with its successor sealed.
RotateDevice(j) ==
  /\ jobs[j].pc = "rotate"
  /\ LET r == jobs[j] IN
     IF Rotatable(r.tok, r.now)
     THEN /\ minted < MaxIssued /\ minted' = minted + 1
          /\ device' = [device EXCEPT !.cur = minted + 1, !.last = r.now, !.expires = SlidExpiry(r.now)]
          /\ grace' = [tok |-> r.tok, until |-> r.now + GraceWindow, sealed |-> minted + 1]
          /\ AnswerJob(j, minted + 1)
     ELSE /\ IF RotationAnswer(r.tok, r.now) # NoBearer
             THEN AnswerJob(j, RotationAnswer(r.tok, r.now)) ELSE RefuseJob(j)
          /\ UNCHANGED <<device, grace, minted>>
  /\ UNCHANGED <<today, invite, retired, grants, held>>

-----------------------------------------------------------------------------
(* The network, the App and the clock *)

DeliverAnswer(j) ==
  /\ jobs[j].pc = "answered"
  /\ held' = Greater(held, jobs[j].tok)
  /\ RefuseJob(j)
  /\ UNCHANGED <<today, invite, device, grace, retired, grants, minted>>

\* The connection breaks, or the Hub dies; nothing uncommitted remains.
LoseRequest(j) ==
  /\ jobs[j] # NoJob /\ RefuseJob(j)
  /\ UNCHANGED <<today, invite, device, grace, retired, grants, held, minted>>

NextDay ==
  /\ today < LastDay /\ today' = today + 1
  /\ UNCHANGED <<invite, device, grace, retired, grants, jobs, held, minted>>

AInit ==
  /\ today = 0 /\ invite = NoInvite /\ device = NoDevice /\ grace = NoGrace
  /\ retired = {} /\ grants = {} /\ jobs = [j \in Jobs |-> NoJob]
  /\ held = NoBearer /\ minted = 0

ANext ==
  \/ PersistPairing \/ RevokePairing \/ RevokeDevice \/ SetVehicleRetirement \/ NextDay
  \/ \E j \in Jobs : BeginClaim(j) \/ ClaimPairing(j) \/ BeginAuthenticate(j) \/ Slide(j)
       \/ AuthenticateAgain(j) \/ AuthenticateGrace(j) \/ BeginRotate(j) \/ RotateDevice(j)
       \/ DeliverAnswer(j) \/ LoseRequest(j)

-----------------------------------------------------------------------------
\* An App that received a bearer is never stranded by lost answers or by its
\* own concurrent requests: while the device lives, its bearer is the current
\* one or the one the latest rotation replaced, and inside the grace window a
\* retry returns exactly the current bearer.
NeverStranded ==
  held # NoBearer /\ Live(today) =>
    \/ held = device.cur
    \/ held = grace.tok /\ (grace.until > today => grace.sealed = device.cur)

\* An invitation pairs one device: no second claim replaces its row. And the
\* device's lifetime only grows, up to the absolute maximum of its claim,
\* whatever order concurrent requests write in.
LifetimeOnlyGrows ==
  [][device # NoDevice /\ device' # device
       => /\ device'.created = device.created /\ device'.max = device.max
          /\ device'.expires >= device.expires /\ device'.expires <= device.max]_avars
=============================================================================
