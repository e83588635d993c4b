---------------------------- MODULE RejectionFuse ----------------------------
(***************************************************************************)
(* The rejection fuse of the legacy credential unit: what a 401 of the     *)
(* Owner API does to the account (src/src/auth/legacy_auth/rejection.rs),  *)
(* carried out by the requests (src/src/api/owner_api/legacy_requests.rs)  *)
(* and kept in step with the manager and the stored status                 *)
(* (src/src/auth/credentials/rejection_support.rs, legacy_auth/state.rs).  *)
(*                                                                         *)
(* A request holds the manager and the fuse from its start to its end, so  *)
(* one request runs at a time; between its steps time passes, the detached *)
(* exchange ends, the owner logs in and the process may crash.             *)
(*                                                                         *)
(* A pair is [gen, acc, own, imported]: the generation (of the refresh     *)
(* token), the access token, whether the generation is the output of one   *)
(* of the unit's refreshes, and whether the row still has the imported     *)
(* form, which owes a startup refresh.  Times are ticks of the minimum     *)
(* refresh interval; 0 stands for an absent time.                          *)
(***************************************************************************)
EXTENDS Naturals, FiniteSets

CONSTANTS
    Modes,        \* the configurations of the process, each with its bounds
    Cars,
    Spacing,      \* CONFIRMATION_SPACING_SECONDS = MIN_REFRESH_INTERVAL_SECONDS
    Pause,        \* REJECTION_PAUSE_SECONDS
    Window,       \* FUSE_WINDOW_SECONDS
    RetryDelays   \* delays a failed exchange may schedule

ASSUME ModesAssumption ==
    Modes \subseteq [holder : {"Managed", "Observer", "AccessTokenOnly"}, streams : BOOLEAN,
                     writesFail : BOOLEAN, maxTime : Nat \ {0}, maxToken : Nat \ {0}]
ASSUME TimesAssumption ==
    /\ Spacing \in Nat \ {0} /\ Pause \in Nat \ {0} /\ Window \in Nat
    /\ RetryDelays \subseteq Nat \ {0}

VARIABLES
    mode,      \* the configuration of this behaviour; it never changes
    now,       \* the clock
    up,        \* the process runs
    store,     \* the stored pair
    status,    \* the status row: the fuse, the stop and its generation
    unit,      \* the manager and the fuse in memory
    flight,    \* the detached exchange
    successor, \* the last pair an exchange wrote
    receipt,   \* when the last token receipt was started
    req,       \* the request that holds the manager
    issued,    \* when each token was issued
    refused,   \* history: account-wide 401s since the account was last cleared
    counted    \* history: the tokens the count stands for

fvars == <<mode, now, up, store, status, unit, flight, successor, receipt, req, issued, refused, counted>>
history == <<refused, counted>>

-----------------------------------------------------------------------------
Holder == mode.holder           \* HolderKind
Streams == mode.streams         \* a stream may report a rejection
WritesFail == mode.writesFail   \* a write of the status row may fail
MaxTime == mode.maxTime         \* bound: the last tick
MaxToken == mode.maxToken       \* bound: tokens ever issued

Tokens == 1..MaxToken
Times == 0..(MaxTime + Window + Pause)
Max(a, b) == IF a >= b THEN a ELSE b

(* FuseSnapshot *)
Zero == [count |-> 0, gen |-> 0, at |-> 0, pause |-> 0, acc |-> 0]
FUSE_LIMIT == 3

Stops == {"none", "sign_in", "signed_out", "rejected"}
NoRequest == [step |-> "idle", scope |-> "none", car |-> 0, resent |-> FALSE]
(* rejection_window_open *)
WindowOpen(at) == now - at <= Window

(* sync_fuse: the hold is the pause, or the time an owed refresh may run. *)
Hold(u) == Max(u.fuse.pause, IF u.forced THEN u.owed ELSE 0)

(* token_available: whether a request may carry the token now. *)
TokenAvailable(u) ==
    /\ u.stop \in {"none", "sign_in"}
    /\ now >= Hold(u)
    /\ ~u.observerRejected

(* gate: the first time at which every time gate of a token request is open. *)
GateTime == Max(Max(unit.retry, unit.notBefore), Hold(unit))
Refreshable == Holder = "Managed" /\ unit.stop = "none" /\ flight = "none"

(* remedy_pending; no exchange runs while a request is out. *)
RemedyPending == Holder # "Observer" /\ (unit.retry > 0 \/ unit.pair.imported)

(* sync_fuse, publish_status: the row follows the unit, unless the write fails. *)
PublishFuse(u) ==
    /\ unit' = u
    /\ \/ status' = [fuse |-> u.fuse, stop |-> u.stop, gen |-> u.pair.gen]
       \/ WritesFail /\ UNCHANGED status

End == req' = NoRequest
GoTo(s) == req' = [req EXCEPT !.step = s]

(* send_legacy_read: the token is read again just before the request. *)
Send == IF TokenAvailable(unit') THEN GoTo("await") ELSE End

-----------------------------------------------------------------------------
(* LegacyAuth as it is built from the stored pair p. *)
Fresh(p) ==
    [pair |-> p, stop |-> "none", fuse |-> Zero, forced |-> FALSE, owed |-> 0, retry |-> 0,
     notBefore |-> 0, observerRejected |-> FALSE, marks |-> [c \in Cars |-> 0],
     cleared |-> 0, confirmed |-> 0]

(* adopt_stored_pair reads the stored generation first. *)
Unadopted == store.gen # unit.pair.gen

(* adopt_stored_pair(true): a login lifts the stop and resets the fuse. *)
Adopt ==
    /\ PublishFuse([Fresh(store) EXCEPT !.notBefore = unit.notBefore, !.confirmed = unit.confirmed])
    /\ flight' = "none"
    /\ refused' = {} /\ counted' = {}

(* Faulty variant: a refresh of the unit's own resets the fuse at a restart. *)
RestoredFuseSameGeneration ==
    IF /\ status.fuse.count > 0
       /\ status.fuse.gen = store.gen
       /\ WindowOpen(status.fuse.at)
    THEN status.fuse ELSE Zero

(* restored_fuse *)
RestoredFuse ==
    IF /\ status.fuse.count > 0
       /\ status.fuse.gen = store.gen \/ store.own
       /\ WindowOpen(status.fuse.at)
    THEN status.fuse ELSE Zero

(* Faulty variant: a restart owes nothing. *)
OwesNothing(f) == FALSE

(* fuse_owes_forced_refresh *)
OwesForcedRefresh(f) == f.count >= 1 /\ f.gen = store.gen /\ f.acc = store.acc

RestoredStop ==
    IF flight = "unresolved" THEN "signed_out"
    ELSE IF status.gen = store.gen THEN status.stop ELSE "none"

(* from_hub_teslamate_store_with_policy: restore_at_start, the pause or the  *)
(* refresh a restored count owes, the observer's wait, and the first status. *)
Start ==
    LET f == RestoredFuse
        floor == IF receipt = 0 THEN 0 ELSE receipt + Spacing
        owes == Holder = "Managed" /\ OwesForcedRefresh(f)
                /\ (f.pause > 0 \/ RestoredStop = "none")
    IN
    /\ ~up
    /\ up' = TRUE
    /\ PublishFuse([Fresh(store) EXCEPT
           !.stop = RestoredStop, !.fuse = f, !.notBefore = floor, !.forced = owes,
           !.owed = IF owes /\ f.pause = 0 /\ floor > now THEN floor ELSE 0,
           !.observerRejected = /\ Holder = "Observer" /\ f.count >= 1
                                /\ f.gen = store.gen /\ RestoredStop = "none"])
    /\ UNCHANGED <<mode, now, store, flight, successor, receipt, req, issued, history>>

-----------------------------------------------------------------------------
(* Flight::start: the refresh after a pause spends it, in memory.  The row   *)
(* keeps the pause until the fuse is next synchronised.                      *)
StartFlight(s) ==
    /\ Refreshable /\ now >= GateTime /\ ~Unadopted
    /\ flight' = "running"
    /\ receipt' = now
    /\ unit' = [unit EXCEPT !.forced = FALSE,
                            !.fuse.pause = IF unit.forced THEN 0 ELSE @]
    /\ GoTo(s)
    /\ UNCHANGED <<mode, now, up, store, status, successor, issued, history>>

NextToken == Cardinality({t \in Tokens : issued[t] > 0}) + 1
Issue == NextToken \in Tokens /\ issued' = [issued EXCEPT ![NextToken] = now]

(* run_exchange, as the fuse sees it: a successor is written, with a new or  *)
(* with the same refresh token; the attempt fails; the refresh token is dead *)
(* or lost; or the row was replaced under it.                                *)
ExchangeEnds ==
    /\ up /\ flight = "running"
    /\ IF Unadopted
       THEN flight' = "changed" /\ UNCHANGED <<store, successor, issued>>
       ELSE \/ /\ Issue
               /\ flight' = "persisted"
               /\ \/ store' = [gen |-> NextToken, acc |-> NextToken, own |-> TRUE, imported |-> FALSE]
                  \/ store' = [store EXCEPT !.acc = NextToken, !.imported = FALSE]
               /\ successor' = store'
            \/ flight' \in {"failed", "dead"} /\ UNCHANGED <<store, successor, issued>>
    /\ UNCHANGED <<mode, now, up, status, unit, receipt, req, history>>

(* carry_out: the request is sent once more, at most once, and an action and *)
(* a stream's confirmation never.                                            *)
Resend ==
    IF req.resent \/ req.scope \notin {"account", "vehicle"}
    THEN End
    ELSE req' = [req EXCEPT !.step = "prepare", !.resent = TRUE]

(* apply_flight_result, then the caller goes on: a request that was being    *)
(* prepared is sent if the token may be used, one that forced the refresh is *)
(* sent again if the pair is a new one.                                      *)
ApplyFlight ==
    /\ up /\ req.step \in {"preparing", "forcing"}
    /\ \/ /\ flight = "persisted"
          /\ PublishFuse([unit EXCEPT !.pair = successor, !.retry = 0, !.notBefore = receipt + Spacing])
          /\ IF req.step = "preparing" THEN Send ELSE Resend
          /\ flight' = "none" /\ UNCHANGED history
       \/ /\ flight = "failed"
          /\ \E d \in RetryDelays : PublishFuse([unit EXCEPT !.retry = now + d])
          /\ IF req.step = "preparing" THEN Send ELSE End
          /\ flight' = "none" /\ UNCHANGED history
       \/ /\ flight = "dead"
          /\ PublishFuse([unit EXCEPT !.stop = "sign_in", !.retry = 0])
          /\ IF req.step = "preparing" THEN Send ELSE End
          /\ flight' = "none" /\ UNCHANGED history
       \/ /\ flight = "changed"
          /\ Adopt
          /\ IF req.step = "preparing" THEN Send ELSE Resend
    /\ UNCHANGED <<mode, now, up, store, successor, receipt, issued>>

-----------------------------------------------------------------------------
(* A request about the account or one car, a resident action, the refresh a  *)
(* refusal check asks for.                                                   *)
Request(scope, car) ==
    /\ up /\ req = NoRequest
    /\ req' = [step |-> IF scope = "refusal" THEN "force" ELSE "prepare",
               scope |-> scope, car |-> car, resent |-> FALSE]
    /\ UNCHANGED <<mode, now, up, store, status, unit, flight, successor, receipt, issued, history>>

(* prepare_legacy_auth: an owed or due refresh runs first.  Only a scheduled *)
(* refresh is a matter of time the model leaves open.                        *)
Due == unit.forced \/ unit.retry > 0 \/ unit.pair.imported

PrepareStarts == up /\ req.step = "prepare" /\ StartFlight("preparing")

PrepareAdopts ==
    /\ up /\ req.step = "prepare" /\ Unadopted
    /\ \/ Refreshable /\ now >= GateTime
       \/ Holder # "Observer" /\ unit.stop # "none"
       \/ Holder = "Observer" /\ unit.observerRejected
    /\ Adopt
    /\ Send
    /\ UNCHANGED <<mode, now, up, store, successor, receipt, issued>>

PrepareSkips ==
    /\ up /\ req.step = "prepare"
    /\ ~(Refreshable /\ now >= GateTime /\ Due)
    /\ UNCHANGED unit
    /\ Send
    /\ UNCHANGED <<mode, now, up, store, status, flight, successor, receipt, issued, history>>

(* note_answer, record_success *)
Accepted(u) ==
    [u EXCEPT !.fuse = Zero,
              !.marks = [c \in Cars |-> IF c = req.car THEN 0 ELSE u.marks[c]]]

AnswerOk ==
    /\ up /\ req.step = "await"
    /\ PublishFuse(Accepted(unit))
    /\ refused' = {} /\ counted' = {}
    /\ End
    /\ UNCHANGED <<mode, now, up, store, flight, successor, receipt, issued>>

(* An answer that changes nothing: neither a 2xx nor a 401, a 401 to a token *)
(* that has just expired or has a remedy, a coalesced 401, a marked car, a   *)
(* confirmation that comes too soon.                                         *)
AnswerNoEvidence ==
    /\ up /\ req.step \in {"await", "confirm"}
    /\ End
    /\ UNCHANGED <<mode, now, up, store, status, unit, flight, successor, receipt, issued, history>>

(* The action of the n-th counted rejection (R41). *)
Verdict(n) ==
    CASE Holder = "Observer" -> "ObserverWait"
      [] Holder = "AccessTokenOnly" -> IF n = 1 THEN "Pause" ELSE "Stop"
      [] OTHER -> IF unit.stop = "sign_in" THEN "StopSignIn"
                  ELSE <<"ForceRefresh", "PauseThenRefresh", "Stop">>[n]

(* count_rejection, with what carry_out does of its verdict. *)
Count ==
    LET f == unit.fuse
        before == IF f.at > 0 /\ ~WindowOpen(f.at) THEN 0 ELSE f.count
        n == IF before < FUSE_LIMIT THEN before + 1 ELSE FUSE_LIMIT
        verdict == Verdict(n)
        stopping == verdict \in {"Stop", "StopSignIn"}
        pausing == verdict \in {"Pause", "PauseThenRefresh"}
        noted == [count |-> n, gen |-> unit.pair.gen, at |-> now,
                  pause |-> IF pausing THEN now + Pause ELSE f.pause,
                  acc |-> IF stopping THEN 0 ELSE unit.pair.acc]
    IN
    /\ refused' = refused \cup {[acc |-> unit.pair.acc, at |-> now]}
    /\ counted' = (IF \A r \in refused : ~WindowOpen(r.at) THEN {} ELSE counted) \cup {unit.pair.acc}
    /\ PublishFuse([unit EXCEPT
           !.fuse = noted,
           !.stop = CASE verdict = "Stop" -> "rejected"
                      [] verdict = "StopSignIn" -> "signed_out"
                      [] OTHER -> @,
           !.forced = CASE stopping -> FALSE [] verdict = "PauseThenRefresh" -> TRUE [] OTHER -> @,
           !.observerRejected = @ \/ verdict = "ObserverWait"])
    /\ IF verdict = "ForceRefresh" THEN GoTo("force") ELSE End

(* record_rejection: the first matching step of R40. *)
Coalesced ==
    /\ unit.fuse.gen = unit.pair.gen
    /\ WindowOpen(unit.fuse.at)

PauseOver == Holder = "AccessTokenOnly" /\ unit.fuse.pause > 0 /\ now >= unit.fuse.pause
MayConfirm == unit.confirmed = 0 \/ now >= unit.confirmed + Spacing

Unauthorised ==
    /\ up /\ req.step = "await" /\ ~RemedyPending
    /\ ~(Coalesced /\ ~PauseOver)
    /\ \/ /\ req.scope = "account" /\ Coalesced
          /\ PublishFuse([unit EXCEPT !.stop = "rejected", !.forced = FALSE])
          /\ refused' = refused \cup {[acc |-> unit.pair.acc, at |-> now]}
          /\ UNCHANGED counted
          /\ End
       \/ req.scope = "account" /\ ~Coalesced /\ Count
       \/ /\ req.scope # "account"
          /\ unit.marks[req.car] # unit.pair.gen
          /\ MayConfirm
          /\ unit' = [unit EXCEPT !.confirmed = now]
          /\ GoTo("confirm")
          /\ UNCHANGED <<status, history>>
    /\ UNCHANGED <<mode, now, up, store, flight, successor, receipt, issued>>

(* confirm_stream_rejection: a stream was refused its token. *)
StreamRejected ==
    /\ up /\ Streams /\ req = NoRequest
    /\ unit.stop = "none" /\ unit.cleared # unit.pair.gen /\ MayConfirm
    /\ unit' = [unit EXCEPT !.confirmed = now]
    /\ IF TokenAvailable(unit)
       THEN req' = [step |-> "confirm", scope |-> "stream", car |-> 0, resent |-> FALSE]
       ELSE UNCHANGED req
    /\ UNCHANGED <<mode, now, up, store, status, flight, successor, receipt, issued, history>>

(* confirmation_read: the account-wide read decides. *)
ConfirmationOk ==
    /\ up /\ req.step = "confirm"
    /\ PublishFuse(IF req.scope = "stream"
               THEN [Accepted(unit) EXCEPT !.cleared = unit.pair.gen]
               ELSE [unit EXCEPT !.fuse = Zero, !.marks[req.car] = unit.pair.gen])
    /\ refused' = {} /\ counted' = {}
    /\ End
    /\ UNCHANGED <<mode, now, up, store, flight, successor, receipt, issued>>

ConfirmationRejected ==
    /\ up /\ req.step = "confirm"
    /\ Count
    /\ UNCHANGED <<mode, now, up, store, flight, successor, receipt, issued>>

-----------------------------------------------------------------------------
(* refresh(forced): it waits out a gate of at most the minimum interval. *)
ForceWaits ==
    /\ up /\ req.step = "force" /\ Refreshable
    /\ now < GateTime /\ GateTime <= now + Spacing /\ GateTime <= MaxTime
    /\ now' = GateTime
    /\ UNCHANGED <<mode, up, store, status, unit, flight, successor, receipt, req, issued, history>>

ForceStarts == up /\ req.step = "force" /\ StartFlight("forcing")

ForceAdopts ==
    /\ up /\ req.step = "force" /\ Unadopted
    /\ Refreshable /\ now >= GateTime
    /\ Adopt
    /\ Resend
    /\ UNCHANGED <<mode, now, up, store, successor, receipt, issued>>

ForceFails ==
    /\ up /\ req.step = "force"
    /\ ~Refreshable \/ GateTime > now + Spacing
    /\ End
    /\ UNCHANGED <<mode, now, up, store, status, unit, flight, successor, receipt, issued, history>>

-----------------------------------------------------------------------------
(* recheck_external_write: the supervisor, while the unit is stopped or      *)
(* waits.                                                                    *)
Recheck ==
    /\ up /\ req = NoRequest /\ ~TokenAvailable(unit) /\ Unadopted
    /\ Adopt
    /\ UNCHANGED <<mode, now, up, store, successor, receipt, req, issued>>

(* service: a failed write of the status is tried again, and a sign-in stop  *)
(* whose token has expired becomes a sign-out.                               *)
Service ==
    /\ up /\ req = NoRequest
    /\ \/ PublishFuse(unit)
       \/ unit.stop = "sign_in" /\ PublishFuse([unit EXCEPT !.stop = "signed_out"])
    /\ UNCHANGED <<mode, now, up, store, flight, successor, receipt, req, issued, history>>

(* owner_retry *)
OwnerRetry ==
    /\ up /\ req = NoRequest /\ unit.stop = "rejected"
    /\ PublishFuse([Fresh(unit.pair) EXCEPT !.notBefore = unit.notBefore,
                                        !.confirmed = unit.confirmed])
    /\ refused' = {} /\ counted' = {}
    /\ UNCHANGED <<mode, now, up, store, flight, successor, receipt, req, issued>>

-----------------------------------------------------------------------------
(* The owner, or the refresh owner of an observer, stores a new pair. *)
Login ==
    /\ Issue
    /\ store' = [gen |-> NextToken, acc |-> NextToken, own |-> FALSE,
                 imported |-> Holder # "AccessTokenOnly"]
    /\ IF up THEN UNCHANGED <<unit, flight, history>>
       ELSE /\ unit' = Fresh(store') /\ flight' = "none"
            /\ refused' = {} /\ counted' = {}
    /\ UNCHANGED <<mode, now, up, status, successor, receipt, req>>

Tick ==
    /\ now < MaxTime
    /\ now' = now + 1
    /\ UNCHANGED <<mode, up, store, status, unit, flight, successor, receipt, req, issued, history>>

(* An exchange that a crash interrupts may leave its attempt unresolved. *)
Crash ==
    /\ up
    /\ up' = FALSE
    /\ req' = NoRequest
    /\ unit' = Fresh(store)
    /\ IF Unadopted /\ ~store.own
       THEN refused' = {} /\ counted' = {} /\ flight' = "none"
       ELSE /\ UNCHANGED history
            /\ flight' \in IF flight = "running" THEN {"none", "unresolved"}
                           ELSE {IF flight = "unresolved" THEN flight ELSE "none"}
    /\ UNCHANGED <<mode, now, store, status, successor, receipt, issued>>

FuseInit ==
    /\ mode \in Modes
    /\ now = 1 /\ up = FALSE
    /\ store = [gen |-> 1, acc |-> 1, own |-> FALSE, imported |-> FALSE]
    /\ status = [fuse |-> Zero, stop |-> "none", gen |-> 1]
    /\ unit = Fresh(store)
    /\ flight = "none" /\ successor = store /\ receipt = 0 /\ req = NoRequest
    /\ issued = [t \in Tokens |-> IF t = 1 THEN 1 ELSE 0]
    /\ refused = {} /\ counted = {}

FuseNext ==
    \/ Start \/ ExchangeEnds \/ ApplyFlight
    \/ Request("account", 0) \/ Request("refusal", 0)
    \/ \E c \in Cars : Request("vehicle", c) \/ Request("action", c)
    \/ PrepareStarts \/ PrepareAdopts \/ PrepareSkips
    \/ AnswerOk \/ AnswerNoEvidence \/ Unauthorised
    \/ StreamRejected \/ ConfirmationOk \/ ConfirmationRejected
    \/ ForceWaits \/ ForceStarts \/ ForceAdopts \/ ForceFails
    \/ Recheck \/ Service \/ OwnerRetry
    \/ Login \/ Tick \/ Crash

FuseSpec == FuseInit /\ [][FuseNext]_fvars

-----------------------------------------------------------------------------
(* A sign-out for a rejected token rests on evidence (rejection.rs:32),      *)
(* whatever the path of the rejection: three tokens refused account-wide of  *)
(* which two were issued a pause apart, or, without a refresh path, two      *)
(* refusals a pause apart.                                                   *)
RejectedOnEvidence ==
    up /\ unit.stop = "rejected" =>
        IF Holder = "AccessTokenOnly"
        THEN \E r, s \in refused : s.at >= r.at + Pause
        ELSE /\ Cardinality({r.acc : r \in refused}) >= FUSE_LIMIT
             /\ \E r, s \in refused : issued[s.acc] >= issued[r.acc] + Pause

(* The rejections of a managed pair all come from requests, and the status   *)
(* row is always written.                                                    *)
Regular == ~WritesFail /\ ~(Holder = "Managed" /\ Streams)

(* The count stands for different refused tokens: no token is counted twice, *)
(* a crash forgets none, and a login, a 2xx or an owner's retry leaves none. *)
(* (A pair without a refresh path is counted twice on purpose.)              *)
CountIsExact ==
    up /\ Regular /\ Holder # "AccessTokenOnly" =>
          \/ unit.fuse.count = Cardinality(counted)
          \/ unit.fuse.count = 0 /\ \A r \in refused : ~WindowOpen(r.at)

(* While the unit still uses the token whose rejection it counted, something *)
(* will replace it: a refresh is owed, running, being forced, or to be       *)
(* retried; failed writes of the status and streams do not change that.      *)
RejectedTokenHasRemedy ==
    /\ up /\ Holder = "Managed" /\ unit.stop = "none"
    /\ unit.fuse.count > 0 /\ WindowOpen(unit.fuse.at)
    /\ unit.fuse.gen = unit.pair.gen /\ unit.fuse.acc = unit.pair.acc
    => \/ unit.forced \/ unit.retry > 0 \/ unit.pair.imported
       \/ flight # "none" \/ req.step = "force" \/ Unadopted

(* The sign-out of record_rejection rests on that evidence, whatever crashed *)
(* in between.                                                               *)
SignOutNeedsEvidence == Regular => RejectedOnEvidence

\* A sign-out rests on evidence that was counted right.
SignOutIsEvidenced == CountIsExact /\ SignOutNeedsEvidence
=============================================================================
