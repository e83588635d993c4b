------------------------ MODULE LegacyRefreshTypes -------------------------
(***************************************************************************)
(* Type correctness of the credential unit, for every number of            *)
(* generations and attempts, and the facts about its state that make the   *)
(* type invariant inductive.                                               *)
(***************************************************************************)
EXTENDS LegacyRefresh, TLAPS

(* The process that runs holds the generation of a stored pair; nothing     *)
(* outlives the process.                                                    *)
HeldKnown ==
    /\ up => held \in Gens
    /\ ~up => ~Running /\ ~Finished

(* A pair that cannot be used is never presented. *)
PairKnown ==
    pair = NoGen => /\ ~Running /\ ~Finished
                    /\ up => config \/ stop = "signed_out"

(* While an exchange runs nothing else is owed and nothing stops the unit. *)
FlightAlone ==
    Running => /\ up /\ ~Finished /\ ~config
               /\ stop = "none" /\ psucc = NoSuccessor /\ pclose = NoClose
               /\ mpc = "decide" => mop # "refresh"

(* A step of the settling is only taken when there is something to do. *)
StepHasWork ==
    /\ mpc = "close" => pclose # NoClose
    /\ mpc = "succ" => psucc # NoSuccessor

(* The refusal that reaches the limit stops the unit until the count is     *)
(* reset.                                                                   *)
RefusalsCapped ==
    refusals = ClientRefusalLimit => /\ up /\ ~Running /\ ~Finished
                                     /\ config \/ stop \in {"refused", "signed_out"}

TInv ==
    TypeOK /\ HeldKnown /\ PairKnown /\ FlightAlone /\ StepHasWork /\ RefusalsCapped

USE NoGenAssumption, ImportAssumption, MaxFencesAssumption, NoReceiptAssumption,
    MalformedAssumption

(* The first start is well-formed. *)
LEMMA InitTInv == Init => TInv
<1> SUFFICES ASSUME Init PROVE TInv
    OBVIOUS
<1>1. StoreTypeOK
    <2>1. row \in Rows
        BY DEF Init, StoreInit, Rows
    <2>2. outcome \in [Receipts -> Outcomes] /\ binding \in [Receipts -> Bindings]
        BY DEF Init, StoreInit, Bindings, Outcomes
    <2> QED
        BY <2>1, <2>2 DEF Init, StoreInit, StoreTypeOK
<1>2. UnitTypeOK
    BY DEF Init, UnitTypeOK, Stops, ClientRefusalLimit, MaybeGen, MaybeReceipt
<1>2a. ProcTypeOK /\ HistTypeOK
    BY DEF Init, ProcTypeOK, HistTypeOK, ManagerSteps, Calls, MaybeGen
<1>2b. FlagsTypeOK
    BY Zenon DEF Init, FlagsTypeOK
<1>3. ~Running /\ ~Finished /\ ~up /\ mpc = "idle"
    BY DEF Init, Running, Finished, NoTask, NoResult
<1>4. refusals # ClientRefusalLimit
    BY DEF Init, ClientRefusalLimit
<1> QED
    BY <1>1, <1>2, <1>2a, <1>2b, <1>3, <1>4
    DEF TInv, TypeOK, HeldKnown, PairKnown, FlightAlone, StepHasWork, RefusalsCapped

(* bind_teslamate_legacy_credential_generation keeps the row well-formed. *)
LEMMA BindTyped == StoreTypeOK /\ BindTokens => StoreTypeOK' /\ row.gen \in Gens
BY Zenon DEF StoreTypeOK, BindTokens, Rows, NoRow

(* A closing transaction keeps the tables well-formed and the row as it is. *)
LEMMA CloseTyped ==
    ASSUME NEW c \in Closings, StoreTypeOK, CloseTx(c)
    PROVE  StoreTypeOK' /\ row' = row
BY DEF StoreTypeOK, CloseTx, CancelUnsent, CloseAttempt, Open, Closings, Outcomes, Closed,
       Bindings

(* So does the transaction that stores a successor. *)
LEMMA CompleteTyped ==
    ASSUME NEW s \in Successors, StoreTypeOK, CompleteTx(s)
    PROVE  StoreTypeOK'
<1>1. CASE s.input = s.output
    <2>1. CompleteUnrotated(s.r, s.input)
        BY <1>1 DEF CompleteTx
    <2>2. row # NoRow /\ row' = [row EXCEPT !.img = s.r]
        BY <2>1 DEF CompleteUnrotated, CompleteUnrotatedAllowed, StoredGen, NoRow, Successors
    <2>3. row' \in Rows
        BY <2>2 DEF StoreTypeOK, Rows, Successors
    <2> QED
        BY <2>1, <2>3 DEF CompleteUnrotated, StoreTypeOK, Outcomes, Closed, Bindings, Successors
<1>2. CASE s.input # s.output
    <2>1. CompleteRefresh(s.r, s.input, s.output)
        BY <1>2 DEF CompleteTx
    <2>2. binding[s.r].input \in Gens
        BY <2>1 DEF CompleteRefresh, CompleteAllowed, Open, Successors
    <2>3. binding' \in [Receipts -> Bindings]
        BY <2>1, <2>2 DEF CompleteRefresh, StoreTypeOK, Bindings, NoBinding, Successors
    <2> QED
        BY <2>1, <2>3 DEF CompleteRefresh, StoreTypeOK, Outcomes, Closed, Rows, Successors
<1> QED
    BY <1>1, <1>2

(* So does begin_legacy_refresh. *)
LEMMA BeginTyped ==
    ASSUME NEW r \in Receipts, NEW g \in Gens, StoreTypeOK, BeginRefresh(r, g)
    PROVE  StoreTypeOK'
BY DEF StoreTypeOK, BeginRefresh, Outcomes, Bindings

(* A closing that may fail. *)
LEMMA TryCloseTyped ==
    ASSUME NEW c \in Closings, NEW ok \in BOOLEAN, StoreTypeOK,
           TryClose(c, ok) \/ TryFinish(c, ok)
    PROVE  StoreTypeOK' /\ row' = row
<1>1. CASE CloseTx(c)
    BY <1>1, CloseTyped
<1>2. CASE UNCHANGED storeVars
    BY <1>2 DEF storeVars, StoreTypeOK
<1> QED
    BY <1>1, <1>2 DEF TryClose, TryFinish

(* A storing that may fail. *)
LEMMA TryPersistTyped ==
    ASSUME NEW s \in Successors, NEW done \in BOOLEAN, StoreTypeOK, own \in MaybeReceipt,
           TryPersist(s, done)
    PROVE  StoreTypeOK' /\ own' \in MaybeReceipt
<1>1. own' \in MaybeReceipt
    BY DEF TryPersist, MaybeReceipt, Successors
<1>2. CASE CompleteTx(s)
    BY <1>1, <1>2, CompleteTyped
<1>3. CASE UNCHANGED storeVars
    BY <1>1, <1>3 DEF storeVars, StoreTypeOK
<1> QED
    BY <1>2, <1>3 DEF TryPersist

(* A login, a removal and the retention keep the tables well-formed. *)
LEMMA WorldTyped ==
    ASSUME StoreTypeOK,
           \/ \E g \in Gens : ReplaceTokens(g)
           \/ ClearTokens
           \/ \E r \in Receipts : PruneReceipt(r)
    PROVE  StoreTypeOK'
<1>1. ASSUME NEW g \in Gens, ReplaceTokens(g) PROVE StoreTypeOK'
    BY <1>1 DEF StoreTypeOK, ReplaceTokens, CancelUnresolved, Rows, Outcomes, Closed
<1>2. CASE ClearTokens
    BY <1>2 DEF StoreTypeOK, ClearTokens, CancelUnresolved, Rows, Outcomes, Closed
<1>3. ASSUME NEW r \in Receipts, PruneReceipt(r) PROVE StoreTypeOK'
    BY <1>3 DEF StoreTypeOK, PruneReceipt, Outcomes, Bindings
<1> QED
    BY <1>1, <1>2, <1>3

(* What the exchange has captured at each of its steps. *)
LEMMA TaskFacts ==
    ASSUME ProcTypeOK
    PROVE  /\ Running <=> task.pc \in {"begin", "guard", "sent", "persist"}
           /\ Running => task \in Tasks /\ task.token \in Gens
           /\ task.pc \in {"guard", "sent", "persist"} =>
                 task.r \in Receipts /\ task.input \in Gens
           /\ task.pc = "persist" => task.output \in Gens
BY DEF ProcTypeOK, Running, Tasks, NoTask

(* The fields of the empty task and the empty result. *)
LEMMA NothingRuns ==
    /\ NoTask.pc = "none"
    /\ NoResult.kind = "none"
    /\ NoResult.succ = NoSuccessor
    /\ NoResult.close = NoClose
BY DEF NoTask, NoResult

(* The closing of the attempt the exchange reserved. *)
LEMMA TaskClosing ==
    ASSUME ProcTypeOK, task.pc \in {"guard", "sent"}, NEW o \in Closed, NEW rel \in BOOLEAN
    PROVE  [r |-> task.r, input |-> task.input, closing |-> o, release |-> rel] \in Closings
BY TaskFacts DEF Closings

(* adopt_stored_pair keeps the unit well-formed, holds a generation, and lifts *)
(* the refusal limit only with the stop it set.                             *)
LEMMA AdoptTyped ==
    ASSUME NEW external \in BOOLEAN, StoreTypeOK, UnitTypeOK, HeldKnown, PairKnown,
           TryAdopt(external)
    PROVE  /\ StoreTypeOK' /\ UnitTypeOK'
           /\ (up => held' \in Gens)
           /\ pair' = NoGen => pair = NoGen /\ (up => config' \/ stop' = "signed_out")
           /\ refusals' = ClientRefusalLimit =>
                 /\ refusals = ClientRefusalLimit
                 /\ RefusalsCapped => config' \/ stop' \in {"refused", "signed_out"}
<1>1. CASE Adopt(external)
    BY <1>1, BindTyped
    DEF Adopt, AdoptUsable, AdoptUnconfigured, AdoptMalformed, UnitTypeOK, MaybeGen,
        LiftedByExternalWrite, Stops, StillPending, ClientRefusalLimit
<1>2. CASE AdoptFails
    BY <1>2
    DEF AdoptFails, StoreTypeOK, storeVars, UnitTypeOK, StillPending, HeldKnown, PairKnown,
            ClientRefusalLimit, RefusalsCapped
<1> QED
    BY <1>1, <1>2 DEF TryAdopt

(* Its flags stay Booleans. *)
LEMMA AdoptFlags ==
    ASSUME NEW external \in BOOLEAN, FlagsTypeOK, TryAdopt(external)
    PROVE  config' \in BOOLEAN /\ adopted' \in BOOLEAN
BY Zenon DEF TryAdopt, Adopt, AdoptUsable, AdoptUnconfigured, AdoptMalformed, AdoptFails, FlagsTypeOK

(* Applying a stored successor leaves the unit with a pair and a fresh count. *)
LEMMA PersistedTyped ==
    ASSUME NEW s \in Successors, UnitTypeOK, ApplyPersisted(s), own' \in MaybeReceipt
    PROVE  UnitTypeOK' /\ held' \in Gens /\ pair' \in Gens /\ refusals' # ClientRefusalLimit
BY DEF UnitTypeOK, ApplyPersisted, Successors, MaybeGen, ClientRefusalLimit

(* The answers of the token service are well-formed. *)
LEMMA AnswersTyped ==
    Answers \subseteq [kind : OtherKinds, closing : Closed, release : BOOLEAN]
BY DEF Answers, OtherKinds, Closed

(* Every step of the unit, the exchange and the world keeps the types. *)
LEMMA StepTInv == TInv /\ [Next]_vars => TInv'
<1> SUFFICES ASSUME TInv, [Next]_vars PROVE TInv'
    OBVIOUS
<1> USE DEF TInv, TypeOK
<1>1. CASE ExchangeBegin
    <2>1. StoreTypeOK'
        BY <1>1, BeginTyped DEF ExchangeBegin, HeldKnown
    <2>2. UnitTypeOK'
        BY <1>1 DEF ExchangeBegin, UnitTypeOK, storeVars, unitVars, procVars, histVars
    <2>3. ProcTypeOK' /\ HistTypeOK'
        <3>1. PICK r \in Receipts : task' = [task EXCEPT !.pc = "guard", !.r = r, !.input = held]
            BY Zenon, <1>1 DEF ExchangeBegin
        <3>2. task' \in Tasks
            BY Zenon, <1>1, <3>1, TaskFacts DEF ExchangeBegin, Tasks, HeldKnown
        <3> QED
            BY <1>1, <3>2 DEF ExchangeBegin, ProcTypeOK, HistTypeOK, MaybeGen
    <2>4. FlagsTypeOK'
        BY Zenon, <1>1 DEF ExchangeBegin, FlagsTypeOK, storeVars, unitVars, procVars, histVars
    <2>5. HeldKnown' /\ PairKnown' /\ FlightAlone' /\ StepHasWork'
        BY <1>1, TaskFacts
        DEF ExchangeBegin, HeldKnown, PairKnown, FlightAlone, StepHasWork, RefusalsCapped,
               Running, Finished, storeVars, unitVars, procVars, histVars
    <2>6. RefusalsCapped'
        BY <1>1, TaskFacts
        DEF ExchangeBegin, RefusalsCapped, FlightAlone, Running, Finished, storeVars,
            unitVars, procVars, histVars
    <2> QED
        BY <2>1, <2>2, <2>3, <2>4, <2>5, <2>6
<1>2. CASE ExchangeRefused
    <2>1. StoreTypeOK'
        BY <1>2 DEF ExchangeRefused, StoreTypeOK, storeVars, unitVars, procVars, histVars
    <2>2. UnitTypeOK'
        BY <1>2 DEF ExchangeRefused, UnitTypeOK, storeVars, unitVars, procVars, histVars
    <2>3. ProcTypeOK' /\ HistTypeOK'
        BY <1>2, NothingRuns
        DEF ExchangeRefused, ProcTypeOK, HistTypeOK, storeVars, unitVars, procVars, histVars,
            Publish, Results, RowKinds
    <2>4. FlagsTypeOK'
        BY <1>2 DEF ExchangeRefused, FlagsTypeOK, storeVars, unitVars, procVars, histVars
    <2>5. HeldKnown' /\ PairKnown' /\ FlightAlone' /\ StepHasWork'
        BY <1>2, NothingRuns
        DEF ExchangeRefused, HeldKnown, PairKnown, FlightAlone, StepHasWork, RefusalsCapped,
               Running, Finished, storeVars, unitVars, procVars, histVars, Publish
    <2>6. RefusalsCapped'
        BY <1>2, NothingRuns
        DEF ExchangeRefused, RefusalsCapped, FlightAlone, Running, Finished, storeVars,
            unitVars, procVars, histVars, Publish
    <2> QED
        BY <2>1, <2>2, <2>3, <2>4, <2>5, <2>6
<1>3. CASE ExchangeSend
    <2>1. StoreTypeOK'
        BY <1>3 DEF ExchangeSend, StoreTypeOK, storeVars, unitVars, procVars, histVars
    <2>2. UnitTypeOK'
        BY <1>3 DEF ExchangeSend, UnitTypeOK, storeVars, unitVars, procVars, histVars
    <2>3. ProcTypeOK' /\ HistTypeOK'
        BY <1>3, TaskFacts
        DEF ExchangeSend, ProcTypeOK, HistTypeOK, storeVars, unitVars, procVars, histVars, Tasks
    <2>4. FlagsTypeOK'
        BY <1>3 DEF ExchangeSend, FlagsTypeOK, storeVars, unitVars, procVars, histVars
    <2>5. HeldKnown' /\ PairKnown' /\ FlightAlone' /\ StepHasWork'
        BY <1>3
        DEF ExchangeSend, HeldKnown, PairKnown, FlightAlone, StepHasWork, RefusalsCapped,
               Running, Finished, storeVars, unitVars, procVars, histVars
    <2>6. RefusalsCapped'
        BY <1>3
        DEF ExchangeSend, RefusalsCapped, FlightAlone, Running, Finished, storeVars, unitVars,
            procVars, histVars
    <2> QED
        BY <2>1, <2>2, <2>3, <2>4, <2>5, <2>6
<1>4. CASE ExchangeCancel
    <2>1. StoreTypeOK'
        BY Zenon, <1>4, TryCloseTyped, TaskClosing DEF ExchangeCancel, Closed
    <2>2. UnitTypeOK'
        BY <1>4 DEF ExchangeCancel, UnitTypeOK, storeVars, unitVars, procVars, histVars
    <2>3. ProcTypeOK' /\ HistTypeOK'
        <3> DEFINE c == [r |-> task.r, input |-> task.input, closing |-> "cancelled",
                         release |-> TRUE]
        <3>1. c \in Closings
            BY Zenon, <1>4, TaskClosing DEF ExchangeCancel, Closed
        <3>2. PICK kind \in {"not_sent", "aborted"}, cl \in {NoClose, c} :
                  Publish(kind, NoSuccessor, cl)
            BY <1>4 DEF ExchangeCancel
        <3>3. result' \in Results
            BY Zenon, <3>1, <3>2 DEF Publish, Results, OtherKinds
        <3> QED
            BY <1>4, <3>2, <3>3 DEF ExchangeCancel, Publish, ProcTypeOK, HistTypeOK, histVars
    <2>4. FlagsTypeOK'
        BY <1>4 DEF ExchangeCancel, FlagsTypeOK, storeVars, unitVars, procVars, histVars
    <2>5. HeldKnown' /\ PairKnown' /\ FlightAlone' /\ StepHasWork'
        BY <1>4, NothingRuns
        DEF ExchangeCancel, HeldKnown, PairKnown, FlightAlone, StepHasWork, RefusalsCapped,
               Running, Finished, storeVars, unitVars, procVars, histVars, Publish
    <2>6. RefusalsCapped'
        BY <1>4, NothingRuns
        DEF ExchangeCancel, RefusalsCapped, FlightAlone, Running, Finished, storeVars,
            unitVars, procVars, histVars, Publish
    <2> QED
        BY <2>1, <2>2, <2>3, <2>4, <2>5, <2>6
<1>5. CASE ExchangeAnswered
    <2>1. StoreTypeOK'
        <3>1. PICK a \in Answers, ok \in BOOLEAN :
                  TryClose([r |-> task.r, input |-> task.input, closing |-> a.closing,
                            release |-> a.release], ok)
            BY <1>5 DEF ExchangeAnswered
        <3>2. a.closing \in Closed /\ a.release \in BOOLEAN
            BY <3>1, AnswersTyped
        <3> QED
            BY <1>5, <3>1, <3>2, TryCloseTyped, TaskClosing DEF ExchangeAnswered
    <2>2. UnitTypeOK'
        BY <1>5 DEF ExchangeAnswered, UnitTypeOK, storeVars, unitVars, procVars, histVars
    <2>3. ProcTypeOK' /\ HistTypeOK'
        <3>1. PICK a \in Answers, ok \in BOOLEAN :
                  Publish(a.kind, NoSuccessor,
                          IF ok THEN NoClose
                          ELSE [r |-> task.r, input |-> task.input, closing |-> a.closing,
                                release |-> a.release])
            BY <1>5 DEF ExchangeAnswered
        <3>2. a.closing \in Closed /\ a.release \in BOOLEAN /\ a.kind \in OtherKinds
            BY <3>1, AnswersTyped
        <3>3. [r |-> task.r, input |-> task.input, closing |-> a.closing,
               release |-> a.release] \in Closings
            BY <1>5, <3>2, TaskClosing DEF ExchangeAnswered
        <3>4. result' \in Results
            BY <3>1, <3>2, <3>3 DEF Publish, Results
        <3> QED
            BY <1>5, <3>1, <3>4 DEF ExchangeAnswered, Publish, ProcTypeOK, HistTypeOK
    <2>4. FlagsTypeOK'
        BY <1>5 DEF ExchangeAnswered, FlagsTypeOK, unitVars
    <2>5. HeldKnown' /\ PairKnown' /\ FlightAlone' /\ StepHasWork'
        BY <1>5, NothingRuns
        DEF ExchangeAnswered, HeldKnown, PairKnown, FlightAlone, StepHasWork, RefusalsCapped,
               Running, Finished, storeVars, unitVars, procVars, histVars, Publish
    <2>6. RefusalsCapped'
        BY <1>5, NothingRuns
        DEF ExchangeAnswered, RefusalsCapped, FlightAlone, Running, Finished, storeVars,
            unitVars, procVars, histVars, Publish
    <2> QED
        BY <2>1, <2>2, <2>3, <2>4, <2>5, <2>6
<1>6. CASE ExchangeUnresolved
    <2>1. StoreTypeOK'
        BY <1>6 DEF ExchangeUnresolved, StoreTypeOK, storeVars, unitVars, procVars, histVars
    <2>2. UnitTypeOK'
        BY <1>6 DEF ExchangeUnresolved, UnitTypeOK, storeVars, unitVars, procVars, histVars
    <2>3. ProcTypeOK' /\ HistTypeOK'
        BY <1>6, NothingRuns
        DEF ExchangeUnresolved, ProcTypeOK, HistTypeOK, storeVars, unitVars, procVars,
            histVars, Publish, Results, OtherKinds
    <2>4. FlagsTypeOK'
        BY <1>6 DEF ExchangeUnresolved, FlagsTypeOK, storeVars, unitVars, procVars, histVars
    <2>5. HeldKnown' /\ PairKnown' /\ FlightAlone' /\ StepHasWork'
        BY <1>6, NothingRuns
        DEF ExchangeUnresolved, HeldKnown, PairKnown, FlightAlone, StepHasWork, RefusalsCapped,
               Running, Finished, storeVars, unitVars, procVars, histVars, Publish
    <2>6. RefusalsCapped'
        BY <1>6, NothingRuns
        DEF ExchangeUnresolved, RefusalsCapped, FlightAlone, Running, Finished, storeVars,
            unitVars, procVars, histVars, Publish
    <2> QED
        BY <2>1, <2>2, <2>3, <2>4, <2>5, <2>6
<1>7. CASE ExchangeGranted
    <2>1. StoreTypeOK'
        BY <1>7 DEF ExchangeGranted, StoreTypeOK, storeVars, unitVars, procVars, histVars
    <2>2. UnitTypeOK'
        BY <1>7 DEF ExchangeGranted, UnitTypeOK, storeVars, unitVars, procVars, histVars
    <2>3. ProcTypeOK' /\ HistTypeOK'
        <3>1. PICK out \in (Gens \ (Seen \cup Malformed)) \cup {task.input} :
                  task' = [task EXCEPT !.pc = "persist", !.output = out] /\ granted' = out
            BY Zenon, <1>7 DEF ExchangeGranted
        <3>2. task' \in Tasks /\ granted' \in Gens
            BY Zenon, <1>7, <3>1, TaskFacts DEF ExchangeGranted, Tasks
        <3> QED
            BY <1>7, <3>2 DEF ExchangeGranted, ProcTypeOK, HistTypeOK, MaybeGen
    <2>4. FlagsTypeOK'
        BY <1>7 DEF ExchangeGranted, FlagsTypeOK, storeVars, unitVars, procVars, histVars
    <2>5. HeldKnown' /\ PairKnown' /\ FlightAlone' /\ StepHasWork'
        BY <1>7
        DEF ExchangeGranted, HeldKnown, PairKnown, FlightAlone, StepHasWork, RefusalsCapped,
               Running, Finished, storeVars, unitVars, procVars, histVars
    <2>6. RefusalsCapped'
        BY <1>7
        DEF ExchangeGranted, RefusalsCapped, FlightAlone, Running, Finished, storeVars,
            unitVars, procVars, histVars
    <2> QED
        BY <2>1, <2>2, <2>3, <2>4, <2>5, <2>6
<1>8. CASE ExchangePersist
    <2>1. StoreTypeOK'
        BY <1>8, TryPersistTyped, TaskFacts DEF ExchangePersist, Successors, UnitTypeOK
    <2>2. UnitTypeOK'
        BY <1>8, TryPersistTyped, TaskFacts
        DEF ExchangePersist, Successors, UnitTypeOK, MaybeGen
    <2>3. ProcTypeOK' /\ HistTypeOK'
        <3>1. result' \in Results
            BY SMTT(40), <1>8, TaskFacts DEF ExchangePersist, Publish, Results, GrantKinds, Successors
        <3> QED
            BY <1>8, <3>1 DEF ExchangePersist, Publish, ProcTypeOK, HistTypeOK, histVars
    <2>4. FlagsTypeOK'
        BY <1>8 DEF ExchangePersist, FlagsTypeOK, storeVars, unitVars, procVars, histVars
    <2>5. HeldKnown' /\ PairKnown' /\ FlightAlone' /\ StepHasWork'
        BY <1>8, NothingRuns, TaskFacts
        DEF ExchangePersist, HeldKnown, PairKnown, FlightAlone, StepHasWork, RefusalsCapped,
               Running, Finished, storeVars, unitVars, procVars, histVars, Publish
    <2>6. RefusalsCapped'
        BY <1>8, NothingRuns
        DEF ExchangePersist, RefusalsCapped, FlightAlone, Running, Finished, storeVars,
            unitVars, procVars, histVars, Publish
    <2> QED
        BY <2>1, <2>2, <2>3, <2>4, <2>5, <2>6
<1>9. CASE Enter
    <2>1. StoreTypeOK'
        BY <1>9 DEF Enter, StoreTypeOK, storeVars, unitVars, procVars, histVars
    <2>2. UnitTypeOK'
        BY <1>9 DEF Enter, UnitTypeOK, storeVars, unitVars, procVars, histVars
    <2>3. ProcTypeOK' /\ HistTypeOK'
        BY <1>9
        DEF Enter, ProcTypeOK, HistTypeOK, storeVars, unitVars, procVars, histVars,
            ManagerSteps, Calls
    <2>4. FlagsTypeOK'
        BY Zenon, <1>9 DEF Enter, FlagsTypeOK, storeVars, unitVars, procVars, histVars
    <2>5. HeldKnown' /\ PairKnown' /\ FlightAlone' /\ StepHasWork'
        BY <1>9 DEF Enter, HeldKnown, PairKnown, FlightAlone, StepHasWork, RefusalsCapped,
               Running, Finished, storeVars, unitVars, procVars, histVars
    <2>6. RefusalsCapped'
        BY <1>9
        DEF Enter, RefusalsCapped, FlightAlone, Running, Finished, storeVars, unitVars,
            procVars, histVars
    <2> QED
        BY <2>1, <2>2, <2>3, <2>4, <2>5, <2>6
<1>10. CASE ApplyResult
    <2>0. /\ ~Finished' /\ (Running' <=> Running)
          /\ result' = NoResult /\ task' = task /\ up' = up /\ up
          /\ mop' = mop /\ shut' = shut /\ UNCHANGED histVars
          /\ mpc' = Settling(pclose', psucc')
        BY <1>10, NothingRuns DEF ApplyResult, Running, Finished
    <2>1. mpc' \in ManagerSteps /\ StepHasWork'
        BY <2>0 DEF Settling, ManagerSteps, StepHasWork
    <2>2. ProcTypeOK' /\ HistTypeOK'
        BY <2>0, <2>1 DEF ProcTypeOK, HistTypeOK, histVars
    <2>3. SUFFICES /\ StoreTypeOK' /\ UnitTypeOK'
                   /\ config' \in BOOLEAN /\ adopted' \in BOOLEAN /\ lost' \in BOOLEAN
                   /\ held' \in Gens
                   /\ pair' = NoGen => ~Running /\ (config' \/ stop' = "signed_out")
                   /\ Running => UNCHANGED <<config, stop, psucc, pclose>>
                   /\ refusals' = ClientRefusalLimit =>
                         ~Running /\ (config' \/ stop' \in {"refused", "signed_out"})
        BY <2>0, <2>1, <2>2
        DEF FlagsTypeOK, HeldKnown, PairKnown, FlightAlone, RefusalsCapped, histVars, Settling
    <2>4. CASE result.kind = "none"
        BY SMTT(40), <1>10, <2>0, <2>4
        DEF ApplyResult, storeVars, StoreTypeOK, unitVars, UnitTypeOK, FlagsTypeOK,
                         HeldKnown, PairKnown, RefusalsCapped
    <2>5. CASE result.kind # "none"
        <3>1. ~Running /\ pair # NoGen /\ refusals # ClientRefusalLimit
            BY <2>5 DEF FlightAlone, PairKnown, RefusalsCapped, Finished
        <3>2. CASE result.kind = "persisted"
            <4>1. result.succ \in Successors
                BY <3>2, NothingRuns DEF ProcTypeOK, Results, RowKinds, OtherKinds
            <4>2. ApplyPersisted(result.succ) /\ UNCHANGED <<storeVars, own, lost>>
                BY <1>10, <3>2 DEF ApplyResult
            <4>3. /\ UnitTypeOK' /\ held' \in Gens /\ pair' \in Gens
                  /\ refusals' # ClientRefusalLimit
                BY <4>1, <4>2, PersistedTyped DEF UnitTypeOK
            <4> QED
                BY <3>1, <4>2, <4>3 DEF ApplyPersisted, storeVars, StoreTypeOK, FlagsTypeOK
        <3>3. CASE result.kind = "pending"
            <4>1. result.succ \in Successors
                BY <3>3, NothingRuns DEF ProcTypeOK, Results, RowKinds, OtherKinds
            <4>2. /\ psucc' = result.succ
                  /\ UNCHANGED <<storeVars, held, pair, stop, config, refusals, pclose, own,
                                 adopted, lost>>
                BY <1>10, <3>3 DEF ApplyResult
            <4> QED
                BY <2>0, <3>1, <4>1, <4>2
                DEF storeVars, StoreTypeOK, UnitTypeOK, FlagsTypeOK, HeldKnown
        <3>4. CASE result.kind \in {"row_external", "row_own"}
            <4>1. TryAdopt(result.kind = "row_external") /\ lost' = lost
                BY <1>10, <3>4 DEF ApplyResult
            <4>2. (result.kind = "row_external") \in BOOLEAN
                OBVIOUS
            <4> QED
                BY Zenon, <2>0, <3>1, <4>1, <4>2, AdoptTyped, AdoptFlags DEF FlagsTypeOK
        <3>5. CASE result.kind \notin {"none", "persisted", "pending", "row_external", "row_own"}
            <4>1. /\ stop' = StopAfter(result.kind)
                  /\ refusals' = RefusalsAfter(result.kind)
                  /\ pclose' = IF result.close # NoClose THEN result.close ELSE pclose
                  /\ lost' = (lost \/ result.kind = "unknown_sensitive")
                  /\ UNCHANGED <<storeVars, held, pair, config, psucc, own, adopted>>
                BY <1>10, <3>5 DEF ApplyResult
            <4>2. result.close \in Closings \cup {NoClose}
                BY NothingRuns DEF ProcTypeOK, Results
            <4>3. stop' \in Stops
                BY <4>1 DEF StopAfter, Stops, UnitTypeOK
            <4>4. refusals' \in 0..ClientRefusalLimit
                BY <3>1, <4>1 DEF RefusalsAfter, ClientRefusalLimit, UnitTypeOK
            <4>5. refusals' = ClientRefusalLimit => stop' = "refused"
                BY <3>1, <4>1 DEF RefusalsAfter, StopAfter, ClientRefusalLimit, UnitTypeOK
            <4> QED
                BY <2>0, <3>1, <4>1, <4>2, <4>3, <4>4, <4>5
                DEF storeVars, StoreTypeOK, UnitTypeOK, FlagsTypeOK, HeldKnown
        <3> QED
            BY <2>5, <3>2, <3>3, <3>4, <3>5
    <2> QED
        BY <2>4, <2>5
<1>11. CASE RetryClose
    <2>1. StoreTypeOK'
        <3>1. pclose \in Closings
            BY <1>11 DEF RetryClose, UnitTypeOK, StepHasWork
        <3> QED
            BY <1>11, <3>1, TryCloseTyped DEF RetryClose, storeVars, StoreTypeOK
    <2>2. UnitTypeOK'
        BY <1>11 DEF RetryClose, UnitTypeOK, storeVars, unitVars, procVars, histVars
    <2>3. ProcTypeOK' /\ HistTypeOK'
        BY <1>11
        DEF RetryClose, ProcTypeOK, HistTypeOK, storeVars, unitVars, procVars, histVars,
            Settling, ManagerSteps, Calls
    <2>4. FlagsTypeOK'
        BY <1>11 DEF RetryClose, FlagsTypeOK, storeVars, unitVars, procVars, histVars
    <2>5. HeldKnown' /\ PairKnown' /\ FlightAlone' /\ StepHasWork'
        BY <1>11 DEF RetryClose, HeldKnown, PairKnown, FlightAlone, StepHasWork, RefusalsCapped,
               Running, Finished, storeVars, unitVars, procVars, histVars, Settling
    <2>6. RefusalsCapped'
        BY <1>11
        DEF RetryClose, RefusalsCapped, FlightAlone, Running, Finished, storeVars, unitVars,
            procVars, histVars
    <2> QED
        BY <2>1, <2>2, <2>3, <2>4, <2>5, <2>6
<1>12. CASE RetrySuccessor
    <2>0. /\ psucc \in Successors /\ ~Running
          /\ mpc' = "stop" /\ UNCHANGED <<up, task, result, mop, lost, shut, histVars>> /\ up
        BY Zenon, <1>12 DEF RetrySuccessor, UnitTypeOK, StepHasWork, FlightAlone
    <2>1. ProcTypeOK' /\ HistTypeOK' /\ StepHasWork' /\ ~Running' /\ (Finished' <=> Finished)
        BY <2>0
        DEF ProcTypeOK, HistTypeOK, StepHasWork, ManagerSteps, histVars, Running, Finished
    <2>2. SUFFICES /\ StoreTypeOK' /\ UnitTypeOK'
                   /\ config' \in BOOLEAN /\ adopted' \in BOOLEAN
                   /\ held' \in Gens
                   /\ pair' = NoGen => pair = NoGen /\ (config' \/ stop' = "signed_out")
                   /\ refusals' = ClientRefusalLimit =>
                         /\ refusals = ClientRefusalLimit
                         /\ config' \/ stop' \in {"refused", "signed_out"}
        BY <2>0, <2>1
        DEF FlagsTypeOK, HeldKnown, PairKnown, FlightAlone, RefusalsCapped, histVars
    <2>3. ASSUME ApplyPersisted(psucc), StoreTypeOK', own' \in MaybeReceipt
          PROVE  /\ StoreTypeOK' /\ UnitTypeOK'
                 /\ config' \in BOOLEAN /\ adopted' \in BOOLEAN
                 /\ held' \in Gens /\ pair' \in Gens /\ refusals' # ClientRefusalLimit
        BY <2>0, <2>3, PersistedTyped DEF ApplyPersisted, FlagsTypeOK
    <2>4. CASE ApplyPersisted(psucc) /\ UNCHANGED <<storeVars, own>>
        BY <2>3, <2>4 DEF storeVars, StoreTypeOK, UnitTypeOK
    <2>5. CASE TryAdopt(TRUE)
        BY Zenon, <2>0, <2>5, AdoptTyped, AdoptFlags
    <2>6. ASSUME NEW done \in BOOLEAN, TryPersist(psucc, done),
                 IF done THEN ApplyPersisted(psucc)
                 ELSE UNCHANGED <<held, pair, stop, config, refusals, psucc, pclose, adopted>>
          PROVE  /\ StoreTypeOK' /\ UnitTypeOK'
                 /\ config' \in BOOLEAN /\ adopted' \in BOOLEAN
                 /\ held' \in Gens
                 /\ pair' = NoGen => pair = NoGen /\ (config' \/ stop' = "signed_out")
                 /\ refusals' = ClientRefusalLimit =>
                       /\ refusals = ClientRefusalLimit
                       /\ config' \/ stop' \in {"refused", "signed_out"}
        <3>1. StoreTypeOK' /\ own' \in MaybeReceipt
            BY <2>0, <2>6, TryPersistTyped DEF UnitTypeOK
        <3>2. CASE done
            BY <2>3, <2>6, <3>1, <3>2
        <3>3. CASE ~done
            BY <2>0, <2>6, <3>1, <3>3 DEF UnitTypeOK, FlagsTypeOK, HeldKnown, PairKnown,
                                         RefusalsCapped
        <3> QED
            BY <3>2, <3>3
    <2>7. CASE UNCHANGED <<storeVars, unitVars>>
        BY <2>0, <2>7 DEF storeVars, StoreTypeOK, unitVars, UnitTypeOK, FlagsTypeOK, HeldKnown,
                      PairKnown, RefusalsCapped
    <2> QED
        BY Zenon, <1>12, <2>4, <2>5, <2>6, <2>7 DEF RetrySuccessor
<1>13. CASE SettleStop
    <2>1. StoreTypeOK'
        BY <1>13 DEF SettleStop, StoreTypeOK, storeVars, unitVars, procVars, histVars
    <2>2. UnitTypeOK'
        BY <1>13
        DEF SettleStop, UnitTypeOK, storeVars, unitVars, procVars, histVars, SettledStops, Stops
    <2>3. ProcTypeOK' /\ HistTypeOK'
        BY <1>13
        DEF SettleStop, ProcTypeOK, HistTypeOK, storeVars, unitVars, procVars, histVars,
            ManagerSteps, Calls
    <2>4. FlagsTypeOK'
        BY <1>13 DEF SettleStop, FlagsTypeOK, storeVars, unitVars, procVars, histVars
    <2>5. HeldKnown' /\ PairKnown' /\ FlightAlone' /\ StepHasWork'
        BY <1>13 DEF SettleStop, HeldKnown, PairKnown, FlightAlone, StepHasWork, RefusalsCapped,
               Running, Finished, storeVars, unitVars, procVars, histVars, SettledStops
    <2>6. RefusalsCapped'
        BY <1>13
        DEF SettleStop, RefusalsCapped, FlightAlone, Running, Finished, storeVars, unitVars,
            procVars, histVars, SettledStops
    <2> QED
        BY <2>1, <2>2, <2>3, <2>4, <2>5, <2>6
<1>14. CASE WaitEnds
    <2>1. StoreTypeOK'
        BY <1>14 DEF WaitEnds, StoreTypeOK, storeVars, unitVars, procVars, histVars
    <2>2. UnitTypeOK'
        BY <1>14 DEF WaitEnds, UnitTypeOK, storeVars, unitVars, procVars, histVars
    <2>3. ProcTypeOK' /\ HistTypeOK'
        BY <1>14
        DEF WaitEnds, ProcTypeOK, HistTypeOK, storeVars, unitVars, procVars, histVars,
            ManagerSteps, Calls
    <2>4. FlagsTypeOK'
        BY Zenon, <1>14 DEF WaitEnds, FlagsTypeOK, storeVars, unitVars, procVars, histVars
    <2>5. HeldKnown' /\ PairKnown' /\ FlightAlone' /\ StepHasWork'
        BY <1>14 DEF WaitEnds, HeldKnown, PairKnown, FlightAlone, StepHasWork, RefusalsCapped,
               Running, Finished, storeVars, unitVars, procVars, histVars
    <2>6. RefusalsCapped'
        BY <1>14
        DEF WaitEnds, RefusalsCapped, FlightAlone, Running, Finished, storeVars, unitVars,
            procVars, histVars
    <2> QED
        BY <2>1, <2>2, <2>3, <2>4, <2>5, <2>6
<1>15. CASE CallerDropped
    <2>1. StoreTypeOK'
        BY <1>15 DEF CallerDropped, StoreTypeOK, storeVars, unitVars, procVars, histVars
    <2>2. UnitTypeOK'
        BY <1>15 DEF CallerDropped, UnitTypeOK, storeVars, unitVars, procVars, histVars
    <2>3. ProcTypeOK' /\ HistTypeOK'
        BY <1>15
        DEF CallerDropped, ProcTypeOK, HistTypeOK, storeVars, unitVars, procVars, histVars,
            ManagerSteps, Calls
    <2>4. FlagsTypeOK'
        BY <1>15 DEF CallerDropped, FlagsTypeOK, storeVars, unitVars, procVars, histVars
    <2>5. HeldKnown' /\ PairKnown' /\ FlightAlone' /\ StepHasWork'
        BY <1>15
        DEF CallerDropped, HeldKnown, PairKnown, FlightAlone, StepHasWork, RefusalsCapped,
               Running, Finished, storeVars, unitVars, procVars, histVars
    <2>6. RefusalsCapped'
        BY <1>15
        DEF CallerDropped, RefusalsCapped, FlightAlone, Running, Finished, storeVars,
            unitVars, procVars, histVars
    <2> QED
        BY <2>1, <2>2, <2>3, <2>4, <2>5, <2>6
<1>16. CASE Return
    <2>1. StoreTypeOK'
        BY <1>16 DEF Return, StoreTypeOK, storeVars, unitVars, procVars, histVars
    <2>2. UnitTypeOK'
        BY <1>16 DEF Return, UnitTypeOK, storeVars, unitVars, procVars, histVars
    <2>3. ProcTypeOK' /\ HistTypeOK'
        BY <1>16
        DEF Return, ProcTypeOK, HistTypeOK, storeVars, unitVars, procVars, histVars,
            ManagerSteps, Calls
    <2>4. FlagsTypeOK'
        BY <1>16 DEF Return, FlagsTypeOK, storeVars, unitVars, procVars, histVars
    <2>5. HeldKnown' /\ PairKnown' /\ FlightAlone' /\ StepHasWork'
        BY <1>16 DEF Return, HeldKnown, PairKnown, FlightAlone, StepHasWork, RefusalsCapped,
               Running, Finished, storeVars, unitVars, procVars, histVars
    <2>6. RefusalsCapped'
        BY <1>16
        DEF Return, RefusalsCapped, FlightAlone, Running, Finished, storeVars, unitVars,
            procVars, histVars
    <2> QED
        BY <2>1, <2>2, <2>3, <2>4, <2>5, <2>6
<1>17. CASE AdoptChanged
    <2>1. StoreTypeOK'
        BY Zenon, <1>17, AdoptTyped DEF AdoptChanged, TryAdopt
    <2>2. UnitTypeOK'
        BY Zenon, <1>17, AdoptTyped DEF AdoptChanged, TryAdopt
    <2>3. ProcTypeOK' /\ HistTypeOK'
        BY <1>17, AdoptTyped
        DEF AdoptChanged, ProcTypeOK, HistTypeOK, storeVars, unitVars, procVars, histVars,
            ManagerSteps, Calls
    <2>4. FlagsTypeOK'
        BY Zenon, <1>17
        DEF AdoptChanged, Adopt, AdoptUsable, AdoptUnconfigured, AdoptMalformed, FlagsTypeOK,
                  histVars
    <2>5. HeldKnown' /\ PairKnown' /\ FlightAlone' /\ StepHasWork'
        <3>1. ~Running
            BY <1>17 DEF AdoptChanged, Rechecks, GateOpen, FlightAlone
        <3> QED
            BY Zenon, <1>17, <3>1, AdoptTyped
            DEF AdoptChanged, TryAdopt, HeldKnown, PairKnown, FlightAlone, StepHasWork,
                Running, Finished
    <2>6. RefusalsCapped'
        BY Zenon, <1>17, AdoptTyped DEF AdoptChanged, TryAdopt, RefusalsCapped, Running, Finished
    <2> QED
        BY <2>1, <2>2, <2>3, <2>4, <2>5, <2>6
<1>18. CASE StartExchange
    <2>1. StoreTypeOK'
        BY <1>18 DEF StartExchange, StoreTypeOK, storeVars, unitVars, procVars, histVars
    <2>2. UnitTypeOK'
        BY <1>18 DEF StartExchange, UnitTypeOK, storeVars, unitVars, procVars, histVars
    <2>3. ProcTypeOK' /\ HistTypeOK'
        <3>1. pair \in Gens
            BY <1>18 DEF StartExchange, GateOpen, PairKnown, UnitTypeOK, MaybeGen
        <3>2. task' \in Tasks
            BY Zenon, <1>18, <3>1 DEF StartExchange, Tasks, NoTask
        <3> QED
            BY <1>18, <3>2
            DEF StartExchange, ProcTypeOK, HistTypeOK, ManagerSteps, Calls, histVars
    <2>4. FlagsTypeOK'
        BY <1>18 DEF StartExchange, FlagsTypeOK, storeVars, unitVars, procVars, histVars
    <2>5. HeldKnown' /\ PairKnown' /\ FlightAlone' /\ StepHasWork'
        BY <1>18
        DEF StartExchange, HeldKnown, PairKnown, FlightAlone, StepHasWork, RefusalsCapped,
               Running, Finished, storeVars, unitVars, procVars, histVars, GateOpen
    <2>6. RefusalsCapped'
        BY <1>18
        DEF StartExchange, RefusalsCapped, FlightAlone, Running, Finished, storeVars,
            unitVars, procVars, histVars, GateOpen
    <2> QED
        BY <2>1, <2>2, <2>3, <2>4, <2>5, <2>6
<1>19. CASE OwnerRetry
    <2>1. StoreTypeOK'
        BY <1>19 DEF OwnerRetry, StoreTypeOK, storeVars, unitVars, procVars, histVars
    <2>2. UnitTypeOK'
        BY <1>19
        DEF OwnerRetry, UnitTypeOK, storeVars, unitVars, procVars, histVars, SettledStops,
            Stops, ClientRefusalLimit
    <2>3. ProcTypeOK' /\ HistTypeOK'
        BY <1>19 DEF OwnerRetry, ProcTypeOK, HistTypeOK, storeVars, unitVars, procVars, histVars
    <2>4. FlagsTypeOK'
        BY <1>19 DEF OwnerRetry, FlagsTypeOK, storeVars, unitVars, procVars, histVars
    <2>5. HeldKnown' /\ PairKnown' /\ FlightAlone' /\ StepHasWork'
        BY <1>19 DEF OwnerRetry, HeldKnown, PairKnown, FlightAlone, StepHasWork, RefusalsCapped,
               Running, Finished, storeVars, unitVars, procVars, histVars, SettledStops
    <2>6. RefusalsCapped'
        BY <1>19
        DEF OwnerRetry, RefusalsCapped, FlightAlone, Running, Finished, storeVars, unitVars,
            procVars, histVars, SettledStops, ClientRefusalLimit
    <2> QED
        BY <2>1, <2>2, <2>3, <2>4, <2>5, <2>6
<1>20. CASE StopAccount
    <2>1. StoreTypeOK'
        BY <1>20 DEF StopAccount, StoreTypeOK, storeVars, unitVars, procVars, histVars
    <2>2. UnitTypeOK'
        BY <1>20 DEF StopAccount, UnitTypeOK, storeVars, unitVars, procVars, histVars, Stops
    <2>3. ProcTypeOK' /\ HistTypeOK'
        BY <1>20
        DEF StopAccount, ProcTypeOK, HistTypeOK, storeVars, unitVars, procVars, histVars
    <2>4. FlagsTypeOK'
        BY <1>20 DEF StopAccount, FlagsTypeOK, storeVars, unitVars, procVars, histVars
    <2>5. HeldKnown' /\ PairKnown' /\ FlightAlone' /\ StepHasWork'
        BY <1>20
        DEF StopAccount, HeldKnown, PairKnown, FlightAlone, StepHasWork, RefusalsCapped,
               Running, Finished, storeVars, unitVars, procVars, histVars
    <2>6. RefusalsCapped'
        BY <1>20
        DEF StopAccount, RefusalsCapped, FlightAlone, Running, Finished, storeVars, unitVars,
            procVars, histVars
    <2> QED
        BY <2>1, <2>2, <2>3, <2>4, <2>5, <2>6
<1>21. CASE Shutdown
    <2>1. StoreTypeOK'
        BY <1>21 DEF Shutdown, StoreTypeOK, storeVars, unitVars, procVars, histVars
    <2>2. UnitTypeOK'
        BY <1>21 DEF Shutdown, UnitTypeOK, storeVars, unitVars, procVars, histVars
    <2>3. ProcTypeOK' /\ HistTypeOK'
        BY <1>21
        DEF Shutdown, ProcTypeOK, HistTypeOK, storeVars, unitVars, procVars, histVars,
            ManagerSteps, Calls
    <2>4. FlagsTypeOK'
        BY <1>21 DEF Shutdown, FlagsTypeOK, storeVars, unitVars, procVars, histVars
    <2>5. HeldKnown' /\ PairKnown' /\ FlightAlone' /\ StepHasWork'
        BY <1>21 DEF Shutdown, HeldKnown, PairKnown, FlightAlone, StepHasWork, RefusalsCapped,
               Running, Finished, storeVars, unitVars, procVars, histVars
    <2>6. RefusalsCapped'
        BY <1>21
        DEF Shutdown, RefusalsCapped, FlightAlone, Running, Finished, storeVars, unitVars,
            procVars, histVars
    <2> QED
        BY <2>1, <2>2, <2>3, <2>4, <2>5, <2>6
<1>22. CASE ExternalLogin
    <2>1. StoreTypeOK'
        BY <1>22, WorldTyped DEF ExternalLogin
    <2>2. UnitTypeOK'
        BY <1>22 DEF ExternalLogin, UnitTypeOK, storeVars, unitVars, procVars, histVars
    <2>3. ProcTypeOK' /\ HistTypeOK'
        BY <1>22
        DEF ExternalLogin, ProcTypeOK, HistTypeOK, storeVars, unitVars, procVars, histVars
    <2>4. FlagsTypeOK'
        BY <1>22 DEF ExternalLogin, FlagsTypeOK, storeVars, unitVars, procVars, histVars
    <2>5. HeldKnown' /\ PairKnown' /\ FlightAlone' /\ StepHasWork'
        BY <1>22
        DEF ExternalLogin, HeldKnown, PairKnown, FlightAlone, StepHasWork, RefusalsCapped,
               Running, Finished, storeVars, unitVars, procVars, histVars
    <2>6. RefusalsCapped'
        BY <1>22
        DEF ExternalLogin, RefusalsCapped, FlightAlone, Running, Finished, storeVars,
            unitVars, procVars, histVars
    <2> QED
        BY <2>1, <2>2, <2>3, <2>4, <2>5, <2>6
<1>23. CASE ExternalRemoval
    <2>1. StoreTypeOK'
        BY <1>23, WorldTyped DEF ExternalRemoval
    <2>2. UnitTypeOK'
        BY <1>23 DEF ExternalRemoval, UnitTypeOK, storeVars, unitVars, procVars, histVars
    <2>3. ProcTypeOK' /\ HistTypeOK'
        BY <1>23
        DEF ExternalRemoval, ProcTypeOK, HistTypeOK, storeVars, unitVars, procVars, histVars
    <2>4. FlagsTypeOK'
        BY <1>23 DEF ExternalRemoval, FlagsTypeOK, storeVars, unitVars, procVars, histVars
    <2>5. HeldKnown' /\ PairKnown' /\ FlightAlone' /\ StepHasWork'
        BY <1>23
        DEF ExternalRemoval, HeldKnown, PairKnown, FlightAlone, StepHasWork, RefusalsCapped,
               Running, Finished, storeVars, unitVars, procVars, histVars
    <2>6. RefusalsCapped'
        BY <1>23
        DEF ExternalRemoval, RefusalsCapped, FlightAlone, Running, Finished, storeVars,
            unitVars, procVars, histVars
    <2> QED
        BY <2>1, <2>2, <2>3, <2>4, <2>5, <2>6
<1>24. CASE RetentionPasses
    <2>1. StoreTypeOK'
        BY <1>24, WorldTyped DEF RetentionPasses
    <2>2. UnitTypeOK'
        BY <1>24 DEF RetentionPasses, UnitTypeOK, storeVars, unitVars, procVars, histVars
    <2>3. ProcTypeOK' /\ HistTypeOK'
        BY <1>24
        DEF RetentionPasses, ProcTypeOK, HistTypeOK, storeVars, unitVars, procVars, histVars
    <2>4. FlagsTypeOK'
        BY <1>24 DEF RetentionPasses, FlagsTypeOK, storeVars, unitVars, procVars, histVars
    <2>5. HeldKnown' /\ PairKnown' /\ FlightAlone' /\ StepHasWork'
        BY <1>24
        DEF RetentionPasses, HeldKnown, PairKnown, FlightAlone, StepHasWork, RefusalsCapped,
               Running, Finished, storeVars, unitVars, procVars, histVars
    <2>6. RefusalsCapped'
        BY <1>24
        DEF RetentionPasses, RefusalsCapped, FlightAlone, Running, Finished, storeVars,
            unitVars, procVars, histVars
    <2> QED
        BY <2>1, <2>2, <2>3, <2>4, <2>5, <2>6
<1>25. CASE AuthorityLost
    <2>1. StoreTypeOK'
        BY <1>25 DEF AuthorityLost, StoreTypeOK, storeVars, unitVars, procVars, histVars
    <2>2. UnitTypeOK'
        BY <1>25 DEF AuthorityLost, UnitTypeOK, storeVars, unitVars, procVars, histVars
    <2>3. ProcTypeOK' /\ HistTypeOK'
        BY <1>25
        DEF AuthorityLost, ProcTypeOK, HistTypeOK, storeVars, unitVars, procVars, histVars
    <2>4. FlagsTypeOK'
        BY <1>25 DEF AuthorityLost, FlagsTypeOK, storeVars, unitVars, procVars, histVars
    <2>5. HeldKnown' /\ PairKnown' /\ FlightAlone' /\ StepHasWork'
        BY <1>25
        DEF AuthorityLost, HeldKnown, PairKnown, FlightAlone, StepHasWork, RefusalsCapped,
               Running, Finished, storeVars, unitVars, procVars, histVars
    <2>6. RefusalsCapped'
        BY <1>25
        DEF AuthorityLost, RefusalsCapped, FlightAlone, Running, Finished, storeVars,
            unitVars, procVars, histVars
    <2> QED
        BY <2>1, <2>2, <2>3, <2>4, <2>5, <2>6
<1>26. CASE Crash
    <2>1. StoreTypeOK'
        BY <1>26 DEF Crash, StoreTypeOK, storeVars, unitVars, procVars, histVars
    <2>2. UnitTypeOK'
        BY <1>26
        DEF Crash, UnitTypeOK, storeVars, unitVars, procVars, histVars, Stops,
            ClientRefusalLimit, MaybeGen, MaybeReceipt
    <2>3. ProcTypeOK' /\ HistTypeOK'
        BY <1>26
        DEF Crash, ProcTypeOK, HistTypeOK, storeVars, unitVars, procVars, histVars,
            ManagerSteps, Calls, MaybeGen
    <2>4. FlagsTypeOK'
        BY Zenon, <1>26 DEF Crash, FlagsTypeOK, storeVars, unitVars, procVars, histVars
    <2>5. HeldKnown' /\ PairKnown' /\ FlightAlone' /\ StepHasWork'
        BY <1>26, NothingRuns
        DEF Crash, HeldKnown, PairKnown, FlightAlone, StepHasWork, RefusalsCapped,
               Running, Finished, storeVars, unitVars, procVars, histVars
    <2>6. RefusalsCapped'
        BY <1>26
        DEF Crash, RefusalsCapped, FlightAlone, Running, Finished, storeVars, unitVars,
            procVars, histVars, ClientRefusalLimit
    <2> QED
        BY <2>1, <2>2, <2>3, <2>4, <2>5, <2>6
<1>27. CASE Start
    <2>1. StoreTypeOK'
        BY <1>27, BindTyped DEF Start
    <2>2. UnitTypeOK'
        BY <1>27, BindTyped DEF Start, UnitTypeOK, MaybeGen, Stops
    <2>3. ProcTypeOK' /\ HistTypeOK'
        BY <1>27 DEF Start, ProcTypeOK, HistTypeOK, storeVars, unitVars, procVars, histVars
    <2>4. FlagsTypeOK'
        BY Zenon, <1>27 DEF Start, FlagsTypeOK, storeVars, unitVars, procVars, histVars
    <2>5. HeldKnown' /\ PairKnown' /\ FlightAlone' /\ StepHasWork'
        <3>1. row.gen \in Gens /\ held' = row.gen /\ up' /\ ~Running' /\ ~Finished'
            BY <1>27, BindTyped DEF Start, HeldKnown, Running, Finished
        <3>2. pair' = NoGen => config' \/ stop' = "signed_out"
            BY <1>27, <3>1 DEF Start
        <3> QED
            BY <1>27, <3>1, <3>2 DEF Start, HeldKnown, PairKnown, FlightAlone, StepHasWork
    <2>6. RefusalsCapped'
        BY <1>27
        DEF Start, RefusalsCapped, FlightAlone, Running, Finished, storeVars, unitVars,
            procVars, histVars, HeldKnown
    <2> QED
        BY <2>1, <2>2, <2>3, <2>4, <2>5, <2>6
<1>28. CASE UNCHANGED vars
    <2> USE DEF vars, storeVars, unitVars, procVars, histVars
    <2>1. StoreTypeOK'
        BY <1>28 DEF StoreTypeOK
    <2>2. UnitTypeOK'
        BY <1>28 DEF UnitTypeOK
    <2>3. ProcTypeOK' /\ HistTypeOK'
        BY <1>28 DEF ProcTypeOK, HistTypeOK
    <2>4. FlagsTypeOK'
        BY Zenon, <1>28 DEF FlagsTypeOK
    <2>5. HeldKnown' /\ PairKnown'
        BY Zenon, <1>28 DEF HeldKnown, PairKnown, Running, Finished
    <2>6. FlightAlone' /\ StepHasWork' /\ RefusalsCapped'
        BY Zenon, <1>28 DEF FlightAlone, StepHasWork, RefusalsCapped, Running, Finished
    <2> QED
        BY <2>1, <2>2, <2>3, <2>4, <2>5, <2>6
<1> QED
    BY Zenon, <1>1, <1>2, <1>3, <1>4, <1>5, <1>6, <1>7, <1>8, <1>9, <1>10, <1>11, <1>12, <1>13,
       <1>14, <1>15, <1>16, <1>17, <1>18, <1>19, <1>20, <1>21, <1>22, <1>23, <1>24, <1>25,
       <1>26, <1>27, <1>28
    DEF Next, Exchange, Manager, World

(* Type correctness: every field of the unit, of the exchange and of the    *)
(* four tables stays in its set.  In particular the count of consecutive    *)
(* client refusals never passes its limit (apply_failure), and a published  *)
(* result that was granted always names the receipt it is written under.    *)
THEOREM TypeCorrect == Spec => []TypeOK
<1>1. Spec => []TInv
    BY InitTInv, StepTInv, PTL DEF Spec
<1>2. TInv => TypeOK
    BY DEF TInv
<1> QED
    BY <1>1, <1>2, PTL
=============================================================================
