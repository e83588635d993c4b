--------------------------- MODULE LegacyRefresh ---------------------------
(***************************************************************************)
(* The credential unit of the legacy Tesla login: the manager              *)
(* (src/src/auth/credentials.rs), the detached exchange it starts          *)
(* (src/src/auth/legacy_auth/attempt.rs), the state it applies the result  *)
(* to (src/src/auth/legacy_auth/authority.rs), the owner's logins and      *)
(* imports, the loss of the process's authority, crashes and restarts.     *)
(*                                                                         *)
(* The auth server rotates the refresh token: once a token was presented   *)
(* and may have been exchanged, presenting it again can revoke the whole   *)
(* login.  Times are left out: what a clock decides (a retry being due, a  *)
(* token having expired) is a choice.                                      *)
(***************************************************************************)
EXTENDS LegacyCredentialStore

CONSTANTS
    NoReceipt,  \* no attempt
    Malformed   \* refresh tokens imported in a pair that fails the token grammar

ASSUME NoReceiptAssumption == NoReceipt \notin Receipts
ASSUME MalformedAssumption == Malformed \subseteq Gens

VARIABLES
    up,       \* the process runs
    held,     \* HubTeslaMatePersistence.credential_generation
    pair,     \* the refresh token of LegacyAuth, by its generation
    stop,     \* LegacyAuth.stop
    config,   \* LegacyAuthManager.config_error is set
    refusals, \* LegacyAuth.client_refusals
    psucc,    \* LegacyAuth.pending_successor
    pclose,   \* LegacyAuth.pending_close
    own,      \* the receipt of HubTeslaMatePersistence.own_write
    adopted,  \* LegacyAuthManager.adopted
    task,     \* the detached exchange: where it is and what it captured
    result,   \* the result it published and nobody took yet
    mpc, mop, \* where the holder of the manager lock is, and in which call
    lost,     \* the loss gate answers lost
    shut,     \* the shutdown flag
    atRisk,   \* history: tokens that were presented and may be consumed
    granted,  \* history: the successor the last attempt of this process was given
    extSince  \* history: an external write came over an unresolved attempt

unitVars == <<held, pair, stop, config, refusals, psucc, pclose, own, adopted>>
procVars == <<up, task, result, mpc, mop, lost, shut>>
histVars == <<atRisk, granted, extSince>>
vars == <<storeVars, unitVars, procVars, histVars>>

-----------------------------------------------------------------------------
Stops == {"none", "sign_in", "signed_out", "rejected", "refused"}
GrantKinds == {"persisted", "pending"}
RowKinds == {"row_external", "row_own", "row_unresolved", "row_store"}
OtherKinds == {"not_sent", "aborted", "unknown", "unknown_sensitive", "consumed", "dead",
               "client", "refused", "retry"}
ManagerSteps == {"idle", "wait", "apply", "close", "succ", "stop", "decide", "down"}
Calls == {"none", "service", "refresh", "await", "end", "shutdown"}

ClientRefusalLimit == 2    \* CLIENT_REFUSAL_LIMIT

MaybeGen == Gens \cup {NoGen}
MaybeReceipt == Receipts \cup {NoReceipt}
NoSuccessor == [r |-> NoReceipt, input |-> NoGen, output |-> NoGen]
NoClose == [r |-> NoReceipt, input |-> NoGen, closing |-> "cancelled", release |-> TRUE]
NoTask == [pc |-> "none", token |-> NoGen, r |-> NoReceipt, input |-> NoGen,
           output |-> NoGen]
NoResult == [kind |-> "none", succ |-> NoSuccessor, close |-> NoClose]

Successors == [r : Receipts, input : Gens, output : Gens]
Closings == [r : Receipts, input : Gens, closing : Closed, release : BOOLEAN]
Tasks ==
    [pc : {"begin"}, token : Gens, r : {NoReceipt}, input : {NoGen}, output : {NoGen}]
    \cup [pc : {"guard", "sent"}, token : Gens, r : Receipts, input : Gens,
          output : {NoGen}]
    \cup [pc : {"persist"}, token : Gens, r : Receipts, input : Gens, output : Gens]
Results ==
    [kind : GrantKinds, succ : Successors, close : {NoClose}]
    \cup [kind : RowKinds \cup OtherKinds, succ : {NoSuccessor},
          close : Closings \cup {NoClose}]

UnitTypeOK ==
    /\ held \in MaybeGen /\ pair \in MaybeGen
    /\ stop \in Stops /\ refusals \in 0..ClientRefusalLimit
    /\ psucc \in Successors \cup {NoSuccessor} /\ pclose \in Closings \cup {NoClose}
    /\ own \in MaybeReceipt

ProcTypeOK ==
    /\ task \in Tasks \cup {NoTask} /\ result \in Results \cup {NoResult}
    /\ mpc \in ManagerSteps /\ mop \in Calls

HistTypeOK == atRisk \in SUBSET Gens /\ granted \in MaybeGen

FlagsTypeOK ==
    /\ up \in BOOLEAN /\ lost \in BOOLEAN /\ shut \in BOOLEAN
    /\ config \in BOOLEAN /\ adopted \in BOOLEAN /\ extSince \in BOOLEAN

TypeOK == StoreTypeOK /\ UnitTypeOK /\ ProcTypeOK /\ HistTypeOK /\ FlagsTypeOK

(* Flight: idle, running until the task publishes, finished until a holder  *)
(* of the manager takes the result.                                         *)
Running == task.pc # "none"
Finished == result.kind # "none"

(* stored_pair_relation *)
Relation ==
    CASE row.gen = NoGen -> "missing"
      [] ~row.bound -> "external"
      [] row.gen = held -> "current"
      [] IsRefreshOutput(row.gen) -> "own"
      [] OTHER -> "external"

(* Faulty variant: the input in the row is taken for the successor. *)
RereadConfused(s) ==
    CASE row.gen = NoGen -> "missing"
      [] row.gen \in {s.input, s.output} -> "closed"
      [] OTHER -> "external"

(* Faulty variant: a row that holds the successor is not told from the rest.*)
RereadForgetful(s) ==
    CASE row.gen = NoGen -> "missing"
      [] row.bound /\ row.gen \in {s.input, s.output} -> "input"
      [] OTHER -> "external"

(* persist_reread: what the row says of a successor whose write is retried. *)
(* Its own image, kept for a write under the input's generation, tells that *)
(* write from an import of the same refresh token.                          *)
Reread(s) ==
    CASE row.gen = NoGen -> "missing"
      [] ~row.bound -> "external"
      [] s.input = s.output /\ own = s.r ->
            IF row.gen # s.output THEN "external"
            ELSE IF row.img = s.r
                 THEN IF outcome[s.r] = "success" THEN "closed" ELSE "input"
                 ELSE IF outcome[s.r] = "started" THEN "input" ELSE "external"
      [] row.gen = s.output -> "already"
      [] row.gen = s.input -> "input"
      [] OTHER -> "external"

-----------------------------------------------------------------------------
(* The ports of the exchange and of the manager.  A write of the store may  *)
(* be refused or fail, and one that committed may still report an error.    *)

CloseTx(c) ==
    IF c.closing = "cancelled" THEN CancelUnsent(c.r, c.input)
    ELSE CloseAttempt(c.r, c.input, c.closing, c.release)

(* ManagerPorts::cancel_unsent and ManagerPorts::close *)
TryClose(c, ok) ==
    \/ ~lost /\ CloseTx(c)
    \/ ~ok /\ UNCHANGED storeVars

(* ManagerPorts::finish: a closing that cannot be made is done when no      *)
(* attempt is left unresolved.                                              *)
TryFinish(c, ok) ==
    \/ ~lost /\ CloseTx(c)
    \/ (ok => Unresolved = {}) /\ UNCHANGED storeVars

CompleteTx(s) ==
    IF s.input = s.output THEN CompleteUnrotated(s.r, s.input)
    ELSE CompleteRefresh(s.r, s.input, s.output)

(* persist_step without its re-read: the guard, then the write.  The image  *)
(* of a write under the input's generation is kept before the write.        *)
TryPersist(s, done) ==
    \/ /\ ~lost
       /\ CompleteTx(s)
       /\ own' = IF s.input = s.output THEN s.r ELSE own
    \/ /\ ~done
       /\ own' \in {own, IF s.input = s.output /\ ~lost THEN s.r ELSE own}
       /\ UNCHANGED storeVars

-----------------------------------------------------------------------------
(* The retry of a successor's write takes it before it adopts. *)
StillPending == IF mpc = "succ" THEN NoSuccessor ELSE psucc

LiftedByExternalWrite(s) == IF s = "refused" THEN s ELSE "none"

(* adopt_stored_pair: load the pair the store holds, bind its generation    *)
(* and rebuild the unit's state from it.  A pair the configuration cannot   *)
(* use, or that fails the token grammar, leaves the old state in place      *)
(* under the new generation.                                                *)
AdoptUsable(external) ==
    /\ row.gen \notin Malformed
    /\ pair' = row.gen
    /\ stop' = IF external THEN LiftedByExternalWrite(stop) ELSE stop
    /\ config' = FALSE
    /\ refusals' = 0
    /\ psucc' = NoSuccessor
    /\ pclose' = NoClose

AdoptUnconfigured(external) ==
    /\ row.gen \notin Malformed
    /\ config' = TRUE
    /\ stop' = IF external THEN LiftedByExternalWrite(stop) ELSE stop
    /\ psucc' = StillPending
    /\ UNCHANGED <<pair, refusals, pclose>>

AdoptMalformed ==
    /\ row.gen \in Malformed
    /\ config' = FALSE
    /\ stop' = "signed_out"
    /\ psucc' = StillPending
    /\ UNCHANGED <<pair, refusals, pclose>>

Adopt(external) ==
    /\ ~lost
    /\ BindTokens
    /\ held' = row.gen
    /\ adopted' = TRUE
    /\ UNCHANGED own
    /\ AdoptUsable(external) \/ AdoptUnconfigured(external) \/ AdoptMalformed

(* The load or the bind failed: the pair in use stays; a store fault met    *)
(* while a result is applied is a wait (adoption_failed).                   *)
AdoptFails ==
    /\ psucc' = StillPending
    /\ refusals' = IF mpc = "apply" /\ ~lost THEN 0 ELSE refusals
    /\ UNCHANGED <<storeVars, held, pair, stop, config, pclose, own, adopted>>

TryAdopt(external) == Adopt(external) \/ AdoptFails

(* Faulty variant: the pair in use is not replaced. *)
ApplyPersistedKeepingPair(s) ==
    /\ held' = s.output
    /\ refusals' = 0
    /\ psucc' = NoSuccessor
    /\ UNCHANGED <<pair, stop, config, pclose, adopted>>

(* apply_persisted, and the generation the manager notes with it *)
ApplyPersisted(s) ==
    /\ pair' = s.output
    /\ held' = s.output
    /\ refusals' = 0
    /\ psucc' = NoSuccessor
    /\ UNCHANGED <<stop, config, pclose, adopted>>

-----------------------------------------------------------------------------
(* run_exchange: the detached task.  It never takes the manager lock.       *)

Publish(kind, succ, close) ==
    /\ result' = [kind |-> kind, succ |-> succ, close |-> close]
    /\ task' = NoTask

(* ports.begin: the input is the generation held when the task runs, the    *)
(* token is the one captured when it was started.                           *)
ExchangeBegin ==
    /\ up /\ task.pc = "begin"
    /\ ~lost
    /\ \E r \in Receipts :
          /\ BeginRefresh(r, held)
          /\ task' = [task EXCEPT !.pc = "guard", !.r = r, !.input = held]
    /\ extSince' = FALSE /\ granted' = NoGen
    /\ UNCHANGED <<unitVars, up, result, mpc, mop, lost, shut, atRisk>>

(* begin refused: the generation column says why; a store that cannot       *)
(* answer, or a lost unit, reserves nothing.                                *)
ExchangeRefused ==
    /\ up /\ task.pc = "begin"
    /\ \/ /\ ~lost /\ ~BeginAllowed(held)
          /\ Publish(CASE Relation = "external" -> "row_external"
                       [] Relation = "own" -> "row_own"
                       [] OTHER -> "row_unresolved", NoSuccessor, NoClose)
       \/ Publish("row_store", NoSuccessor, NoClose)
    /\ UNCHANGED <<storeVars, unitVars, up, mpc, mop, lost, shut, histVars>>

(* The guard passes and shutdown has not begun: the token is presented.     *)
ExchangeSend ==
    /\ up /\ task.pc = "guard"
    /\ ~lost /\ ~shut
    /\ task' = [task EXCEPT !.pc = "sent"]
    /\ atRisk' = atRisk \cup {task.token}
    /\ UNCHANGED <<storeVars, unitVars, up, result, mpc, mop, lost, shut, granted, extSince>>

(* The guard refuses, or shutdown has begun: the attempt is cancelled, or   *)
(* its cancelling is owed.                                                  *)
ExchangeCancel ==
    /\ up /\ task.pc = "guard"
    /\ LET c == [r |-> task.r, input |-> task.input, closing |-> "cancelled",
                 release |-> TRUE]
       IN \E ok \in BOOLEAN, kind \in {"not_sent"} \cup (IF shut THEN {"aborted"} ELSE {}) :
             /\ TryClose(c, ok)
             /\ Publish(kind, NoSuccessor, IF ok THEN NoClose ELSE c)
    /\ UNCHANGED <<unitVars, up, mpc, mop, lost, shut, histVars>>

(* closing_for, and the connection-phase failures: how a complete answer    *)
(* other than a grant closes its attempt, and what it means for the token.  *)
Answers ==
    { [kind |-> "not_sent", closing |-> "transport_error", release |-> TRUE],
      [kind |-> "retry", closing |-> "http_error", release |-> TRUE],
      [kind |-> "client", closing |-> "http_error", release |-> TRUE],
      [kind |-> "refused", closing |-> "http_error", release |-> TRUE],
      [kind |-> "retry", closing |-> "success", release |-> TRUE],
      [kind |-> "dead", closing |-> "authentication_rejected", release |-> FALSE] }

ExchangeAnswered ==
    /\ up /\ task.pc = "sent"
    /\ \E a \in Answers, ok \in BOOLEAN :
          LET c == [r |-> task.r, input |-> task.input, closing |-> a.closing,
                    release |-> a.release]
          IN /\ TryClose(c, ok)
             /\ Publish(a.kind, NoSuccessor, IF ok THEN NoClose ELSE c)
             /\ atRisk' = IF a.release THEN atRisk \ {task.token} ELSE atRisk
    /\ UNCHANGED <<unitVars, up, mpc, mop, lost, shut, granted, extSince>>

(* No complete answer, or a grant that cannot be used: the attempt stays    *)
(* unresolved.  A task that ends without a result counts as the former.     *)
ExchangeUnresolved ==
    /\ up /\ task.pc = "sent"
    /\ \E kind \in {"unknown", "unknown_sensitive", "consumed"} :
          /\ (lost /\ kind # "consumed") => kind = "unknown_sensitive"
          /\ Publish(kind, NoSuccessor, NoClose)
    /\ UNCHANGED <<storeVars, unitVars, up, mpc, mop, lost, shut, histVars>>

(* A grant: a rotated token (a generation nobody has seen), or the one      *)
(* presented, under its own generation or the one of its trimmed bytes.     *)
Seen == fences \cup {row.gen, held, pair} \cup {binding[r].output : r \in Receipts}

ExchangeGranted ==
    /\ up /\ task.pc = "sent"
    /\ \E out \in (Gens \ (Seen \cup Malformed)) \cup {task.input}, rotated \in BOOLEAN :
          /\ rotated => out # task.input
          /\ task' = [task EXCEPT !.pc = "persist", !.output = out]
          /\ granted' = out
          /\ atRisk' = IF rotated THEN atRisk ELSE atRisk \ {task.token}
    /\ UNCHANGED <<storeVars, unitVars, up, result, mpc, mop, lost, shut, extSince>>

ExchangePersist ==
    /\ up /\ task.pc = "persist"
    /\ LET s == [r |-> task.r, input |-> task.input, output |-> task.output]
       IN \E done \in BOOLEAN :
             /\ TryPersist(s, done)
             /\ held' = IF done THEN s.output ELSE held
             /\ Publish(IF done THEN "persisted" ELSE "pending", s, NoClose)
    /\ UNCHANGED <<pair, stop, config, refusals, psucc, pclose, adopted,
                   up, mpc, mop, lost, shut, histVars>>

-----------------------------------------------------------------------------
(* The manager.  Whoever holds its lock settles first: apply the published  *)
(* result, retry an owed closing, retry a pending successor, let time bring *)
(* on a stop.  A call is a sequence of steps of one holder.                 *)

(* service, refresh_if_due, refresh_now *)
Enter ==
    /\ up /\ mpc = "idle"
    /\ mpc' = "apply"
    /\ mop' \in {"service", "refresh"}
    /\ adopted' = FALSE
    /\ UNCHANGED <<storeVars, held, pair, stop, config, refusals, psucc, pclose, own,
                   up, task, result, lost, shut, histVars>>

(* apply_result, apply_failure: what each kind does to the unit             *)
StopAfter(kind) ==
    CASE kind \in {"unknown", "unknown_sensitive", "consumed", "dead"} -> "sign_in"
      [] kind = "row_unresolved" -> "signed_out"
      [] kind = "refused" -> "refused"
      [] kind = "client" /\ refusals + 1 >= ClientRefusalLimit -> "refused"
      [] OTHER -> stop

RefusalsAfter(kind) ==
    CASE kind = "client" -> refusals + 1
      [] kind \in {"aborted", "row_unresolved"} -> refusals
      [] OTHER -> 0

(* What is left of the settling: a step with nothing to do is passed over.  *)
Settling(close, succ) ==
    IF close # NoClose THEN "close" ELSE IF succ # NoSuccessor THEN "succ" ELSE "stop"

ApplyResult ==
    /\ up /\ mpc = "apply"
    /\ result' = NoResult
    /\ LET k == result.kind IN
       \/ /\ k = "none"
          /\ UNCHANGED <<storeVars, unitVars, lost>>
       \/ /\ k = "persisted"
          /\ ApplyPersisted(result.succ)
          /\ UNCHANGED <<storeVars, own, lost>>
       \/ /\ k = "pending"
          /\ psucc' = result.succ
          /\ UNCHANGED <<storeVars, held, pair, stop, config, refusals, pclose, own,
                         adopted, lost>>
       \/ /\ k \in {"row_external", "row_own"}
          /\ TryAdopt(k = "row_external")
          /\ UNCHANGED lost
       \/ /\ k \notin {"none", "persisted", "pending", "row_external", "row_own"}
          /\ stop' = StopAfter(k)
          /\ refusals' = RefusalsAfter(k)
          /\ pclose' = IF result.close # NoClose THEN result.close ELSE pclose
          /\ lost' = (lost \/ k = "unknown_sensitive")
          /\ UNCHANGED <<storeVars, held, pair, config, psucc, own, adopted>>
    /\ mpc' = Settling(pclose', psucc')
    /\ UNCHANGED <<up, task, mop, shut, histVars>>

(* retry_pending_close, and the one last try of the shutdown *)
RetryClose ==
    /\ up /\ mpc = "close"
    /\ mpc' = Settling(NoClose, psucc)
    /\ \/ /\ mop = "shutdown" => ~lost
          /\ \E ok \in BOOLEAN :
                /\ TryFinish(pclose, ok)
                /\ pclose' = IF ok THEN NoClose ELSE pclose
       \/ /\ mop # "shutdown" \/ lost
          /\ UNCHANGED <<storeVars, pclose>>
    /\ UNCHANGED <<held, pair, stop, config, refusals, psucc, own, adopted,
                   up, task, result, mop, lost, shut, histVars>>

(* retry_pending_successor, and the one last try of the shutdown.  The row  *)
(* is read first; a read that fails leaves the write to be tried again.     *)
RetrySuccessor ==
    /\ up /\ mpc = "succ"
    /\ mpc' = "stop"
    /\ \/ /\ mop = "shutdown" => ~lost
          /\ \E seen \in {Reread(psucc), "input"} :
             \/ /\ seen = "closed" \/ (seen = "already" /\ psucc.input # psucc.output)
                /\ ApplyPersisted(psucc)
                /\ UNCHANGED <<storeVars, own>>
             \/ /\ seen = "external"
                /\ TryAdopt(TRUE)
             \/ /\ seen \in {"input", "missing"}
                   \/ (seen = "already" /\ psucc.input = psucc.output)
                /\ \E done \in BOOLEAN :
                      /\ TryPersist(psucc, done)
                      /\ IF done THEN ApplyPersisted(psucc)
                         ELSE UNCHANGED <<held, pair, stop, config, refusals, psucc,
                                          pclose, adopted>>
       \/ /\ mop # "shutdown" \/ lost
          /\ UNCHANGED <<storeVars, unitVars>>
    /\ UNCHANGED <<up, task, result, mop, lost, shut, histVars>>

(* settle_stop: a sign-in stop whose token has expired signs the account    *)
(* out.                                                                     *)
SettledStops == IF stop = "sign_in" THEN {"sign_in", "signed_out"} ELSE {stop}

(* Then the call goes on: refresh waits for an exchange in flight.          *)
SettleStop ==
    /\ up /\ mpc = "stop"
    /\ stop' \in SettledStops
    /\ mpc' = CASE mop \in {"await", "end"} -> "idle"
                [] mop = "shutdown" -> "down"
                [] mop = "refresh" /\ Running -> "wait"
                [] OTHER -> "decide"
    /\ mop' = IF mop \in {"await", "end"} THEN "none" ELSE mop
    /\ UNCHANGED <<storeVars, held, pair, config, refusals, psucc, pclose, own, adopted,
                   up, task, result, lost, shut, histVars>>

(* Flight::wait: the exchange has ended.  A shutdown judges the admission   *)
(* at this point; a denial is a loss for good.                              *)
WaitEnds ==
    /\ up /\ mpc = "wait"
    /\ ~Running
    /\ mpc' = "apply"
    /\ lost' \in {lost, lost \/ mop = "shutdown"}
    /\ UNCHANGED <<storeVars, unitVars, up, task, result, mop, shut, histVars>>

(* The caller of refresh is dropped while it waits; the exchange runs on.   *)
CallerDropped ==
    /\ up /\ mpc = "wait" /\ mop # "shutdown"
    /\ mpc' = "idle" /\ mop' = "none"
    /\ UNCHANGED <<storeVars, unitVars, up, task, result, lost, shut, histVars>>

(* LegacyAuth::gate, without the gates of time *)
GateOpen ==
    /\ ~adopted /\ ~config
    /\ psucc = NoSuccessor /\ pclose = NoClose
    /\ stop = "none"

(* Nothing is due, a gate holds, or nothing may be sent: the call returns. *)
Return ==
    /\ up /\ mpc = "decide"
    /\ mpc' = "idle" /\ mop' = "none"
    /\ UNCHANGED <<storeVars, unitVars, up, task, result, lost, shut, histVars>>

(* Faulty variant: a stopped unit does not look at the store. *)
RechecksUnstopped == mop = "refresh" /\ GateOpen

(* A pair written under the unit is adopted and nothing is sent: before a   *)
(* token request, or at the recheck of a stopped unit (every 60 s, by       *)
(* refresh or by recheck_external_write).  The call settles again.          *)
Rechecks ==
    \/ mop = "refresh" /\ GateOpen
    \/ /\ mop = "refresh"
       /\ ~adopted /\ ~config /\ psucc = NoSuccessor /\ pclose = NoClose
       /\ stop # "none"
    \/ mop = "service" /\ (config \/ stop \notin {"none", "sign_in"})

AdoptChanged ==
    /\ up /\ mpc = "decide"
    /\ Rechecks
    /\ Relation \in {"external", "own"}
    /\ Adopt(Relation = "external")
    /\ mpc' = "apply" /\ mop' = "end"
    /\ UNCHANGED <<up, task, result, lost, shut, histVars>>

(* The exchange starts: it captures the token of the pair in use.  A stored *)
(* pair that changed is only met here when its adoption failed.             *)
StartExchange ==
    /\ up /\ mpc = "decide" /\ mop = "refresh"
    /\ GateOpen /\ ~Running /\ ~Finished
    /\ ~shut /\ ~lost
    /\ task' = [NoTask EXCEPT !.pc = "begin", !.token = pair]
    /\ mpc' = "wait" /\ mop' = "await"
    /\ UNCHANGED <<storeVars, unitVars, up, result, lost, shut, histVars>>

(* owner_retry and settle_after_lift: it does not settle first. *)
OwnerRetry ==
    /\ up /\ mpc = "idle"
    /\ IF stop \in {"rejected", "refused"}
       THEN /\ stop' = IF Unresolved # {} THEN "signed_out" ELSE "none"
            /\ refusals' = 0
       ELSE /\ stop' \in SettledStops
            /\ UNCHANGED refusals
    /\ UNCHANGED <<storeVars, held, pair, config, psucc, pclose, own, adopted,
                   procVars, histVars>>

(* stop_account: the rejection fuse gave up on the access token.  A 401 is  *)
(* not counted while a remedy is pending.                                   *)
StopAccount ==
    /\ up /\ mpc = "idle" /\ ~Running
    /\ psucc = NoSuccessor
    /\ stop \in {"none", "sign_in"}
    /\ stop' = IF stop = "none" THEN "rejected" ELSE "signed_out"
    /\ UNCHANGED <<storeVars, held, pair, config, refusals, psucc, pclose, own, adopted,
                   procVars, histVars>>

Shutdown ==
    /\ up /\ mpc = "idle"
    /\ shut' = TRUE
    /\ mpc' = "wait" /\ mop' = "shutdown"
    /\ UNCHANGED <<storeVars, unitVars, up, task, result, lost, histVars>>

-----------------------------------------------------------------------------
(* The rest of the world.                                                   *)

(* An owner's login or import, from another process or another task.        *)
ExternalLogin ==
    /\ \E g \in Gens : ReplaceTokens(g)
    /\ extSince' = (extSince \/ Unresolved # {})
    /\ UNCHANGED <<unitVars, procVars, atRisk, granted>>

(* remove_key_and_tokens *)
ExternalRemoval ==
    /\ ClearTokens
    /\ extSince' = (extSince \/ Unresolved # {})
    /\ UNCHANGED <<unitVars, procVars, atRisk, granted>>

RetentionPasses ==
    /\ \E r \in Receipts : PruneReceipt(r)
    /\ UNCHANGED <<unitVars, procVars, histVars>>

(* The supervisor observes the loss of the retained admission. *)
AuthorityLost ==
    /\ up /\ ~lost
    /\ lost' = TRUE
    /\ UNCHANGED <<storeVars, unitVars, up, task, result, mpc, mop, shut, histVars>>

(* The process ends, wherever it is: everything in memory goes.             *)
Crash ==
    /\ up
    /\ up' = FALSE
    /\ held' = NoGen /\ pair' = NoGen /\ stop' = "none" /\ config' = FALSE
    /\ refusals' = 0 /\ psucc' = NoSuccessor /\ pclose' = NoClose
    /\ own' = NoReceipt /\ adopted' = FALSE
    /\ task' = NoTask /\ result' = NoResult
    /\ mpc' = "idle" /\ mop' = "none" /\ lost' = FALSE /\ shut' = FALSE
    /\ granted' = NoGen
    /\ UNCHANGED <<storeVars, atRisk, extSince>>

(* from_hub_teslamate_store_with_policy: load and bind the stored pair and  *)
(* restore the stop.  An unresolved attempt signs the account out, unless a *)
(* stored refusal shows first; without one the stop is what the status row  *)
(* recorded, any of them.  An unusable pair is inert.                       *)
Start ==
    /\ ~up
    /\ up' = TRUE
    /\ BindTokens
    /\ held' = row.gen
    /\ \/ row.gen \notin Malformed /\ pair' = row.gen /\ config' = FALSE
       \/ row.gen \notin Malformed /\ pair' = NoGen /\ config' = TRUE
       \/ row.gen \in Malformed /\ pair' = NoGen /\ config' = FALSE
    /\ stop' \in IF row.gen \in Malformed THEN {"signed_out"}
                ELSE IF Unresolved # {} THEN {"signed_out", "refused"} ELSE Stops
    /\ UNCHANGED <<refusals, psucc, pclose, own, adopted, task, result, mpc, mop, lost,
                   shut, histVars>>

Init ==
    /\ StoreInit
    /\ up = FALSE
    /\ held = NoGen /\ pair = NoGen /\ stop = "none" /\ config = FALSE
    /\ refusals = 0 /\ psucc = NoSuccessor /\ pclose = NoClose
    /\ own = NoReceipt /\ adopted = FALSE
    /\ task = NoTask /\ result = NoResult
    /\ mpc = "idle" /\ mop = "none" /\ lost = FALSE /\ shut = FALSE
    /\ atRisk = {} /\ granted = NoGen /\ extSince = FALSE

Exchange ==
    \/ ExchangeBegin \/ ExchangeRefused \/ ExchangeSend \/ ExchangeCancel
    \/ ExchangeAnswered \/ ExchangeUnresolved \/ ExchangeGranted \/ ExchangePersist

Manager ==
    \/ Enter \/ ApplyResult \/ RetryClose \/ RetrySuccessor \/ SettleStop
    \/ WaitEnds \/ CallerDropped \/ Return \/ AdoptChanged \/ StartExchange
    \/ OwnerRetry \/ StopAccount \/ Shutdown

World ==
    ExternalLogin \/ ExternalRemoval \/ RetentionPasses \/ AuthorityLost \/ Crash \/ Start

Next == Exchange \/ Manager \/ World

Spec == Init /\ [][Next]_vars

(* The exchange ends by itself, each request being bounded in time, and a   *)
(* holder of the manager lock goes on.  The collector calls the unit        *)
(* periodically.  A store that answers again and again lets an owed write,  *)
(* an owed closing and an adoption through.                                 *)
Fairness ==
    /\ WF_vars(Exchange)
    /\ WF_vars(ApplyResult \/ RetryClose \/ RetrySuccessor \/ SettleStop \/ WaitEnds
               \/ Return \/ AdoptChanged \/ StartExchange)
    /\ SF_vars(Enter /\ mop' = "refresh") /\ SF_vars(Enter /\ mop' = "service")
    /\ SF_vars(RetrySuccessor /\ psucc' = NoSuccessor)
    /\ SF_vars(RetryClose /\ pclose' = NoClose)
    /\ SF_vars(AdoptChanged)

FairSpec == Spec /\ Fairness

-----------------------------------------------------------------------------
(* PROPERTIES *)

(* The token of an attempt is the one whose generation the attempt fenced:  *)
(* what StartExchange captured is still what the manager holds when the     *)
(* detached task reserves it (ports.begin reads the generation then).       *)
PresentedIsReserved ==
    task.pc \in {"guard", "sent", "persist"} => task.token = task.input

(* A token that may have been consumed stays fenced, across crashes,        *)
(* retries, logins and pruning (rows 2, 4, 6 and 8 of the outcome table).   *)
AtRiskFenced == atRisk \subseteq fences

(* A refresh token that may have been consumed by an earlier presentation   *)
(* is never presented again, in this process or a later one (C5 R50, R60).  *)
NeverResent == [][task'.pc = "sent" /\ task.pc = "guard" => task.token \notin atRisk]_vars

(* At most one attempt is unresolved, it is the one of the stored pair, and *)
(* its input is fenced: a login with a generation that is neither stored    *)
(* nor fenced is therefore always accepted, whatever happened before (the   *)
(* operator recovery boundary of replace_teslamate_legacy_tokens).          *)
LoginAlwaysAccepted ==
    /\ \A r \in Unresolved : binding[r].input \in fences
    /\ \A g \in Gens \ (fences \cup {row.gen}) : ReplaceAllowed(g)

(* While the process lives, the successor the server granted is never       *)
(* dropped before it is stored or a login replaced the pair: it is in the   *)
(* exchange, in the published result or pending (C5 R15a, R24).             *)
SuccessorKept ==
    granted # NoGen =>
        \A r \in Unresolved :
            \E s \in {[r |-> task.r, input |-> task.input, output |-> task.output],
                      result.succ, psucc} :
                s.r = r /\ s.output = granted

(* A pair the owner stored after an attempt began is never overwritten by   *)
(* that attempt's result, however late it is written (R24, R44a).           *)
ExternalWriteWins ==
    [][row' # row /\ row'.img \in Receipts => ~extSince /\ row.gen # NoGen]_vars

(* A granted successor does not stay pending: its row is found written, it  *)
(* is written, or a pair stored by the owner is adopted in its place, unless*)
(* the unit is stopped for good, the login was removed, or the store failed *)
(* until the receipt was past its retention of 30 days.                     *)
SuccessorSettled ==
    psucc # NoSuccessor ~>
        \/ psucc = NoSuccessor \/ lost \/ shut \/ row = NoRow
        \/ \E r \in Receipts : psucc.r = r /\ outcome[r] = "pruned"

(* A pair the owner stored under a running unit is adopted without a        *)
(* restart, whatever the unit was stopped for and whatever it still owes    *)
(* (R44a, R46).                                                             *)
LoginEventuallyAdopted ==
    up /\ Relation = "external" ~> Relation # "external" \/ lost \/ shut \/ ~up

=============================================================================
