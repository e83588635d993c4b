---------------------------- MODULE FleetTokens -----------------------------
(***************************************************************************)
(* The refresh of the Fleet API token pair: the stored pair, the receipt   *)
(* and the input fence of an attempt, the managers of the service and of a *)
(* command beside it, their detached exchanges, and the owner's login or   *)
(* sign-out at any time.                                                   *)
(*   src/auth/fleet_credentials.rs, src/storage/db/fleet_credentials.rs    *)
(*                                                                         *)
(*   fpair     fleet_tokens: the stored pair, 0 when there is no row       *)
(*   fbound    whether its credential_generation column is filled          *)
(*   fopen     the started receipts with their bound inputs                *)
(*   ffences   fleet_refresh_input_fences                                  *)
(*   fmgr      each process's FleetAuthManager                             *)
(*   flost     the processes that lost their admission, for good           *)
(*   fvalid    (Tesla) the refresh tokens it still accepts                 *)
(*   fissued   (Tesla) pairs issued so far                                 *)
(*   fsent     (history) how often each refresh token reached Tesla        *)
(*   fline     (history) the pairs that descend from the last login        *)
(***************************************************************************)
EXTENDS Naturals, FiniteSets

CONSTANTS FleetProcs,     \* "service", "command"
          MaxPairs,       \* pairs issued in a behaviour
          MaxFleetFences, \* MAX_LEGACY_REFRESH_INPUT_FENCES
          MaxStarts,      \* receipts in a behaviour
          MaxUpsets       \* crashes, losses, unsent requests, sign-outs

ASSUME MaxPairsAssumption == MaxPairs \in Nat \ {0}

VARIABLES fpair, fbound, fopen, ffences, fmgr, flost, fvalid, fissued, fsent,
          fline, freceipts, fupsets

tvars == <<fpair, fbound, fopen, ffences, fmgr, flost, fvalid, fissued, fsent,
           fline, freceipts, fupsets>>
fstore == <<fpair, fbound, fopen, ffences>>
ftesla == <<fvalid, fissued, fsent>>

NoExchange == [pc |-> "none", rid |-> 0, out |-> 0, terminal |-> FALSE]
DownManager == [pc |-> "down", pair |-> 0, terminal |-> FALSE, fenced |-> FALSE,
                job |-> NoExchange]

StoredGeneration == IF fbound THEN fpair ELSE 0

HasUnresolved == fopen # {}

\* identified_unresolved_fleet_refresh: bound to the stored pair, and fenced.
Identified ==
  \E r \in fopen : r.input = StoredGeneration /\ r.input \in ffences

Upset == fupsets < MaxUpsets /\ fupsets' = fupsets + 1

-----------------------------------------------------------------------------
(* The start of a manager: inspection, build, bind; other processes write  *)
(* between its reads                                                       *)

\* The supervised start inspects first; a command goes straight to the build.
StartManager(p) ==
  /\ fmgr[p].pc = "down"
  /\ fmgr' = [fmgr EXCEPT ![p].pc =
                IF p = "service" /\ fpair # 0 /\ Identified THEN "fenced" ELSE "check"]
  /\ UNCHANGED <<fstore, flost, ftesla, fline, freceipts, fupsets>>

\* build(fenced): nothing is bound or written, and nothing will be sent.
BuildFenced(p) ==
  /\ fmgr[p].pc = "fenced"
  /\ fmgr' = [fmgr EXCEPT ![p] =
                IF fpair = 0 THEN DownManager
                ELSE [DownManager EXCEPT !.pc = "up", !.pair = fpair, !.fenced = TRUE]]
  /\ UNCHANGED <<fstore, flost, ftesla, fline, freceipts, fupsets>>

BuildChecks(p) ==
  /\ fmgr[p].pc = "check"
  /\ fmgr' = [fmgr EXCEPT ![p].pc = IF HasUnresolved THEN "down" ELSE "load"]
  /\ UNCHANGED <<fstore, flost, ftesla, fline, freceipts, fupsets>>

BuildLoads(p) ==
  /\ fmgr[p].pc = "load"
  /\ fmgr' = [fmgr EXCEPT ![p] = IF fpair = 0 \/ p \in flost THEN DownManager
                                 ELSE [@ EXCEPT !.pc = "bind", !.pair = fpair]]
  /\ UNCHANGED <<fstore, flost, ftesla, fline, freceipts, fupsets>>

\* bind_fleet_credential_generation: the ciphertext is still the one read; an
\* empty column is filled unless an attempt is unresolved.
BindGeneration(p) ==
  /\ fmgr[p].pc = "bind"
  /\ IF fpair = fmgr[p].pair /\ (fbound \/ ~HasUnresolved)
     THEN fbound' = TRUE /\ fmgr' = [fmgr EXCEPT ![p].pc = "up"]
     ELSE fmgr' = [fmgr EXCEPT ![p] = DownManager] /\ UNCHANGED fbound
  /\ UNCHANGED <<fpair, fopen, ffences, flost, ftesla, fline, freceipts, fupsets>>

-----------------------------------------------------------------------------
(* A refresh: reservation, request, completion, application *)

\* Faulty variant: an attempt of another process is not looked for.
FleetBeginBeside(g) == StoredGeneration = g

FleetBeginAllowed(g) ==
  /\ StoredGeneration = g /\ ~HasUnresolved /\ g \notin ffences
  /\ Cardinality(ffences) < MaxFleetFences

\* refresh_now, begin_exchange: receipt, fence and binding commit together; a
\* refusal ends the manager's refreshes.  A loss met after the reservation
\* leaves it behind and sends nothing.
BeginExchange(p) ==
  LET m == fmgr[p]
  IN  /\ m.pc = "up" /\ ~m.terminal /\ ~m.fenced /\ m.job.pc = "none" /\ p \notin flost
      /\ freceipts < MaxStarts
      /\ IF FleetBeginAllowed(m.pair)
         THEN /\ fopen' = fopen \cup {[id |-> freceipts + 1, input |-> m.pair]}
              /\ ffences' = ffences \cup {m.pair}
              /\ freceipts' = freceipts + 1
              /\ \/ /\ fmgr' = [fmgr EXCEPT ![p].job =
                                  [NoExchange EXCEPT !.pc = "send", !.rid = freceipts + 1]]
                    /\ UNCHANGED <<flost, fupsets>>
                 \/ /\ Upset /\ flost' = flost \cup {p}
                    /\ UNCHANGED fmgr
         ELSE /\ fmgr' = [fmgr EXCEPT ![p].terminal = TRUE]
              /\ UNCHANGED <<fopen, ffences, freceipts, flost, fupsets>>
      /\ UNCHANGED <<fpair, fbound, ftesla, fline>>

\* The answer of Tesla: a valid refresh token is consumed and replaced by a
\* new pair, which may not arrive; any other is refused.
RequestSent(p) ==
  LET m == fmgr[p]
      good == m.pair \in fvalid
      new == fissued + 1
  IN  /\ m.job.pc = "send"
      /\ fsent' = [fsent EXCEPT ![m.pair] = @ + 1]
      /\ good => fissued < MaxPairs
      /\ fissued' = IF good THEN new ELSE fissued
      /\ fvalid' = IF good THEN (fvalid \ {m.pair}) \cup {new} ELSE fvalid
      /\ fline' = IF good /\ m.pair \in fline THEN fline \cup {new} ELSE fline
      /\ \/ good /\ fmgr' = [fmgr EXCEPT ![p].job.pc = "answer", ![p].job.out = new]
         \/ fmgr' = [fmgr EXCEPT ![p].job.pc = "failed"]
      /\ UNCHANGED <<fstore, flost, freceipts, fupsets>>

RequestNotSent(p) ==
  /\ fmgr[p].job.pc = "send" /\ Upset
  /\ fmgr' = [fmgr EXCEPT ![p].job.pc = "unsent"]
  /\ UNCHANGED <<fstore, flost, ftesla, fline, freceipts>>

\* Faulty variant: an HTTP error is taken to prove the token unconsumed too.
RetryableAnyError(pc) == pc \in {"unsent", "failed"}

\* retryable_refresh_completion: only a request that never went out.
Retryable(pc) == pc = "unsent"

Ended(m, terminal) ==
  [m EXCEPT !.job.pc = "done", !.job.out = 0, !.job.terminal = terminal]

\* What complete_* require of the attempt they close.
OpenFor(rid, g) == [id |-> rid, input |-> g] \in fopen /\ StoredGeneration = g

\* The failed exchange: run's error arm, complete_retryable_fleet_refresh_failure.
JobFails(p) ==
  LET m == fmgr[p]
      closes == Retryable(m.job.pc) /\ p \notin flost /\ OpenFor(m.job.rid, m.pair)
  IN  /\ m.job.pc \in {"unsent", "failed"}
      /\ ffences' = IF closes THEN ffences \ {m.pair} ELSE ffences
      /\ fopen' = IF closes THEN {r \in fopen : r.id # m.job.rid} ELSE fopen
      /\ fmgr' = [fmgr EXCEPT ![p] = Ended(m, ~closes)]
      /\ UNCHANGED <<fpair, fbound, flost, ftesla, fline, freceipts, fupsets>>

\* Faulty variant: neither the receipt nor the stored pair is compared.
CompletesBlind(m) == m.job.out \notin ffences

\* complete_fleet_refresh.
Completes(m) == OpenFor(m.job.rid, m.pair) /\ m.job.out \notin ffences

\* A loss met here drops the successor; the attempt stays unresolved.
JobCompletes(p) ==
  LET m == fmgr[p]
  IN  /\ m.job.pc = "answer"
      /\ IF p \notin flost /\ Completes(m)
         THEN /\ fpair' = m.job.out
              /\ fopen' = {r \in fopen : r.id # m.job.rid}
              /\ fmgr' = [fmgr EXCEPT ![p].job.pc = "done"]
         ELSE /\ fmgr' = [fmgr EXCEPT ![p] = Ended(m, TRUE)]
              /\ UNCHANGED <<fpair, fopen>>
      /\ UNCHANGED <<fbound, ffences, flost, ftesla, fline, freceipts, fupsets>>

\* finish_exchange: the awaiting caller, or the next one, applies the outcome.
FinishExchange(p) ==
  LET m == fmgr[p]
  IN  /\ m.job.pc = "done"
      /\ fmgr' = [fmgr EXCEPT ![p].job = NoExchange,
                              ![p].terminal = @ \/ m.job.terminal,
                              ![p].pair = IF m.job.out # 0 THEN m.job.out ELSE @]
      /\ UNCHANGED <<fstore, flost, ftesla, fline, freceipts, fupsets>>

-----------------------------------------------------------------------------
(* The owner and the outside *)

\* persist_fleet_setup_credentials, replace_fleet_tokens: any pair the owner
\* brings that was never fenced; an unresolved attempt must be the stored
\* pair's, and is cancelled.
FleetLogin(g) ==
  /\ g \in 1..(fissued + 1) /\ g <= MaxPairs /\ g # fpair
  /\ g = fissued + 1 \/ g \in fvalid
  /\ g \notin ffences
  /\ \A r \in fopen : r.input = StoredGeneration
  /\ fpair' = g /\ fbound' = TRUE /\ fopen' = {}
  /\ fissued' = IF g > fissued THEN g ELSE fissued
  /\ fvalid' = fvalid \cup {g}
  /\ fline' = {g}
  /\ UNCHANGED <<ffences, fmgr, flost, fsent, freceipts, fupsets>>

\* clear_fleet_tokens.
FleetSignOut ==
  /\ fpair # 0 /\ Upset
  /\ fpair' = 0 /\ fbound' = FALSE /\ fopen' = {} /\ fline' = {}
  /\ UNCHANGED <<ffences, fmgr, flost, ftesla, freceipts>>

LoseAdmission(p) ==
  /\ p \notin flost /\ fmgr[p].pc # "down" /\ Upset
  /\ flost' = flost \cup {p}
  /\ UNCHANGED <<fstore, fmgr, ftesla, fline, freceipts>>

\* The process ends or dies, its exchange with it.
ManagerExit(p) ==
  /\ fmgr[p].pc = "up" /\ Upset
  /\ fmgr' = [fmgr EXCEPT ![p] = DownManager]
  /\ flost' = flost \ {p}
  /\ UNCHANGED <<fstore, ftesla, fline, freceipts>>

-----------------------------------------------------------------------------
\* A row an older release left has no generation yet.
TInit ==
  /\ fpair = 1 /\ fbound \in BOOLEAN
  /\ fopen = {} /\ ffences = {}
  /\ fmgr = [p \in FleetProcs |-> DownManager]
  /\ flost = {} /\ fvalid = {1} /\ fissued = 1
  /\ fsent = [g \in 1..MaxPairs |-> 0]
  /\ fline = {1} /\ freceipts = 0 /\ fupsets = 0

TNext ==
  \/ \E p \in FleetProcs :
       \/ StartManager(p) \/ BuildFenced(p) \/ BuildChecks(p) \/ BuildLoads(p)
       \/ BindGeneration(p)
       \/ BeginExchange(p) \/ RequestSent(p) \/ RequestNotSent(p)
       \/ JobFails(p) \/ JobCompletes(p) \/ FinishExchange(p)
       \/ LoseAdmission(p) \/ ManagerExit(p)
  \/ \E g \in 1..MaxPairs : FleetLogin(g)
  \/ FleetSignOut

TSpec == TInit /\ [][TNext]_tvars

-----------------------------------------------------------------------------
\* A single-use refresh token reaches Tesla at most once, whichever process
\* refreshes, dies, loses its admission or starts again, and whatever the owner
\* does meanwhile (begin_fleet_refresh fences the input before it is sent, only
\* an unsent request lifts the fence).
FleetPresentedOnce == \A g \in 1..MaxPairs : fsent[g] <= 1

\* A refresh that answers late never takes the place of what the owner did: the
\* stored pair is the one of the last login or descends from it, and after a
\* sign-out there is none (complete_fleet_refresh compares the generation).
FleetLoginWins == fpair # 0 => fpair \in fline

\* A pair Tesla no longer accepts is never left looking usable: while it is
\* stored it is fenced, and until the owner acts the exchange that consumed it
\* runs or its receipt identifies it, so the next start tells the owner to
\* reconnect (identified_unresolved_fleet_refresh).
ConsumedIsIdentified ==
  fpair # 0 /\ fpair \notin fvalid => fpair \in ffences /\ fbound /\ Identified

\* The stored Fleet pair is the truth: it descends from the last login, and a consumed generation is
\* known to be consumed.
FleetRowIsTrue == FleetLoginWins /\ ConsumedIsIdentified
=============================================================================
