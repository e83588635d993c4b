------------------------ MODULE LegacyRefreshProofs ------------------------
(***************************************************************************)
(* A refresh token that may be consumed stays fenced and is never          *)
(* presented again: proofs for every number of generations and attempts.   *)
(***************************************************************************)
EXTENDS LegacyRefreshTypes

USE NoGenAssumption, ImportAssumption, MaxFencesAssumption, NoReceiptAssumption,
    MalformedAssumption

(* The pair in use is the one whose generation the unit holds, but for the  *)
(* moment between a successor's write and its application.                  *)
PairHeld ==
    up /\ ~config =>
        pair = held \/ (result.kind = "persisted" /\ result.succ.output = held)

(* The exchange presents the pair in use, under the fence of its token.     *)
TokenHeld ==
    /\ Running => pair = held /\ task.token = held
    /\ task.pc \in {"guard", "sent", "persist"} => task.input = task.token
    /\ task.pc = "guard" => task.input \in fences /\ task.token \notin atRisk
    /\ task.pc = "persist" /\ task.input = task.output => task.input \notin atRisk

(* A closing that frees its input, and a write under the input's own        *)
(* generation, are only owed for a token that was not consumed.             *)
SafeClosings ==
    \A c \in {result.close, pclose} :
        c.release \/ c.closing = "cancelled" => c.input \notin atRisk

SafeSuccessors ==
    \A s \in {result.succ, psucc} : s.input = s.output => s.input \notin atRisk

SInv == AtRiskFenced /\ TokenHeld /\ PairHeld /\ SafeClosings /\ SafeSuccessors

(* The empty closing and the empty successor name no generation. *)
LEMMA EmptyFields ==
    /\ NoClose.input = NoGen
    /\ NoSuccessor.input = NoGen
BY DEF NoClose, NoSuccessor

(* The first start puts no token at risk. *)
LEMMA InitSInv == Init => SInv
BY Zenon, NothingRuns
DEF Init, SInv, AtRiskFenced, TokenHeld, PairHeld, SafeClosings, SafeSuccessors, Running

(* A closing transaction frees at most its own input, and only when the     *)
(* answer released it or nothing was sent.                                  *)
LEMMA CloseFences ==
    ASSUME NEW c \in Closings, CloseTx(c)
    PROVE  \/ fences' = fences
           \/ fences' = fences \ {c.input} /\ (c.release \/ c.closing = "cancelled")
BY DEF CloseTx, CancelUnsent, CloseAttempt

(* The same when the transaction may fail. *)
LEMMA TryCloseFences ==
    ASSUME NEW c \in Closings, NEW ok \in BOOLEAN, TryClose(c, ok) \/ TryFinish(c, ok)
    PROVE  \/ fences' = fences
           \/ fences' = fences \ {c.input} /\ (c.release \/ c.closing = "cancelled")
BY CloseFences DEF TryClose, TryFinish, storeVars

(* Storing a successor frees its input only when the answer kept the token. *)
LEMMA TryPersistFences ==
    ASSUME NEW s \in Successors, NEW done \in BOOLEAN, TryPersist(s, done)
    PROVE  \/ fences' = fences
           \/ s.input = s.output /\ fences' = fences \ {s.input}
BY DEF TryPersist, CompleteTx, CompleteUnrotated, CompleteRefresh, storeVars

(* Adopting the stored pair leaves the fences alone. *)
LEMMA AdoptKeeps ==
    ASSUME Malformed = {}, NEW external \in BOOLEAN, TryAdopt(external)
    PROVE  /\ fences' = fences
           /\ pclose' \in {pclose, NoClose} /\ psucc' \in {psucc, NoSuccessor}
           /\ ~config' => pair' = held' \/ UNCHANGED <<pair, held, config>>
BY DEF TryAdopt, Adopt, AdoptUsable, AdoptUnconfigured, AdoptMalformed, AdoptFails, BindTokens,
       StillPending, storeVars

(* What SInv speaks of: a step that leaves it alone preserves SInv. *)
LEMMA FrameSInv ==
    ASSUME SInv, UNCHANGED <<fences, held, pair, config, up, task, result, pclose, psucc, atRisk>>
    PROVE  SInv'
BY DEF SInv, AtRiskFenced, TokenHeld, PairHeld, SafeClosings, SafeSuccessors, Running

(* Every step keeps the sent tokens fenced. *)
LEMMA StepSInv ==
    ASSUME Malformed = {}
    PROVE  TInv /\ SInv /\ [Next]_vars => SInv'
<1> SUFFICES ASSUME TInv, SInv, [Next]_vars PROVE SInv'
    OBVIOUS
<1> USE DEF TInv, TypeOK, SInv
<1>1. CASE ExchangeBegin
    <2>1. PICK r \in Receipts :
              BeginRefresh(r, held) /\ task' = [task EXCEPT !.pc = "guard", !.r = r, !.input = held]
        BY Zenon, <1>1 DEF ExchangeBegin
    <2>2. held \notin atRisk /\ fences' = fences \cup {held} /\ task.token = held /\ held \in Gens
        BY <1>1, <2>1, TaskFacts
        DEF ExchangeBegin, BeginRefresh, BeginAllowed, AtRiskFenced, TokenHeld, HeldKnown
    <2>3. task'.pc = "guard" /\ task'.input = held /\ task'.token = held /\ Running
        BY <1>1, <2>1, <2>2, TaskFacts DEF ExchangeBegin, Tasks
    <2> QED
        BY <1>1, <2>2, <2>3 DEF ExchangeBegin, AtRiskFenced, TokenHeld, PairHeld, SafeClosings,
                       SafeSuccessors, unitVars, Running
<1>2. CASE ExchangeRefused
    <2>1. AtRiskFenced'
        BY <1>2 DEF ExchangeRefused, AtRiskFenced, storeVars, unitVars, procVars, histVars
    <2>2. TokenHeld'
        BY <1>2, NothingRuns
        DEF ExchangeRefused, TokenHeld, Running, storeVars, unitVars, procVars, histVars,
            Publish
    <2>3. PairHeld'
        BY <1>2, NothingRuns, TaskFacts
        DEF ExchangeRefused, PairHeld, storeVars, unitVars, procVars, histVars, Publish,
            TokenHeld
    <2>4. SafeClosings' /\ SafeSuccessors'
        BY <1>2, NothingRuns, EmptyFields
        DEF ExchangeRefused, SafeClosings, SafeSuccessors, storeVars, unitVars, procVars,
            histVars, Publish, HistTypeOK
    <2> QED
        BY <2>1, <2>2, <2>3, <2>4
<1>3. CASE ExchangeSend
    <2>1. task.pc = "guard" /\ task.input = task.token /\ task.input \in fences
        BY <1>3 DEF ExchangeSend, TokenHeld
    <2>2. result = NoResult /\ psucc = NoSuccessor /\ pclose = NoClose /\ task.token \in Gens
        BY <2>1, TaskFacts DEF FlightAlone, Finished, ProcTypeOK, Results, GrantKinds, RowKinds,
                           OtherKinds
    <2>3. task'.pc = "sent" /\ task'.input = task.input /\ task'.token = task.token /\ Running
        BY <1>3, <2>1, TaskFacts DEF ExchangeSend, Tasks
    <2>4. NoGen \notin atRisk'
        BY <1>3, <2>2 DEF ExchangeSend, HistTypeOK
    <2>5. SafeClosings' /\ SafeSuccessors'
        BY <1>3, <2>2, <2>4, EmptyFields, NothingRuns
        DEF ExchangeSend, SafeClosings, SafeSuccessors, unitVars
    <2> QED
        BY <1>3, <2>1, <2>3, <2>5 DEF ExchangeSend, AtRiskFenced, TokenHeld, PairHeld, unitVars,
                             storeVars, Running
<1>4. CASE ExchangeCancel
    <2> DEFINE c == [r |-> task.r, input |-> task.input, closing |-> "cancelled", release |-> TRUE]
    <2>1. c \in Closings /\ c.input = task.input
        BY Zenon, <1>4, TaskClosing DEF ExchangeCancel, Closed
    <2>2. task.input \notin atRisk /\ pair = held
        BY Zenon, <1>4, TaskFacts DEF ExchangeCancel, TokenHeld
    <2>3. PICK ok \in BOOLEAN, kind \in {"not_sent", "aborted"} :
              TryClose(c, ok) /\ Publish(kind, NoSuccessor, IF ok THEN NoClose ELSE c)
        BY <1>4 DEF ExchangeCancel
    <2>4. fences' = fences \/ fences' = fences \ {task.input}
        BY <2>1, <2>3, TryCloseFences
    <2>5. result'.close \in {NoClose, c} /\ result'.succ = NoSuccessor
        BY <2>3 DEF Publish
    <2>6. SafeClosings' /\ SafeSuccessors'
        BY Zenon, <1>4, <2>1, <2>2, <2>5, EmptyFields
        DEF ExchangeCancel, SafeClosings, SafeSuccessors, unitVars, histVars, HistTypeOK
    <2> QED
        BY Zenon, <1>4, <2>2, <2>3, <2>4, <2>6, NothingRuns
        DEF ExchangeCancel, Publish, AtRiskFenced, TokenHeld, PairHeld, Running, unitVars,
            histVars
<1>5. CASE ExchangeAnswered
    <2>1. PICK a \in Answers, ok \in BOOLEAN :
              LET c == [r |-> task.r, input |-> task.input, closing |-> a.closing,
                        release |-> a.release]
              IN /\ TryClose(c, ok)
                 /\ Publish(a.kind, NoSuccessor, IF ok THEN NoClose ELSE c)
                 /\ atRisk' = IF a.release THEN atRisk \ {task.token} ELSE atRisk
        BY <1>5 DEF ExchangeAnswered
    <2> DEFINE c == [r |-> task.r, input |-> task.input, closing |-> a.closing,
                     release |-> a.release]
    <2>2. a.closing \in Closed \ {"cancelled"} /\ a.release \in BOOLEAN
        <3>1. a.closing # "cancelled"
            BY <2>1 DEF Answers
        <3> QED
            BY <2>1, <3>1, AnswersTyped
    <2>3. c \in Closings /\ c.input = task.input /\ c.release = a.release
          /\ c.closing = a.closing
        BY Zenon, <1>5, <2>2, TaskClosing DEF ExchangeAnswered
    <2>4. task.input = task.token /\ pair = held
        BY Zenon, <1>5, TaskFacts DEF ExchangeAnswered, TokenHeld
    <2>5. fences' = fences \/ (fences' = fences \ {task.input} /\ a.release)
        BY <2>1, <2>2, <2>3, TryCloseFences
    <2>6. AtRiskFenced'
        BY Zenon, <2>1, <2>4, <2>5 DEF AtRiskFenced
    <2>7. result'.close \in {NoClose, c} /\ result'.succ = NoSuccessor
        BY <2>1 DEF Publish
    <2>8. atRisk' \subseteq atRisk /\ (a.release => task.input \notin atRisk')
        BY Zenon, <2>1, <2>4
    <2>9. SafeClosings' /\ SafeSuccessors'
        BY Zenon, <1>5, <2>2, <2>3, <2>7, <2>8, EmptyFields
        DEF ExchangeAnswered, SafeClosings, SafeSuccessors, unitVars, HistTypeOK
    <2> QED
        BY Zenon, <1>5, <2>1, <2>4, <2>6, <2>9, NothingRuns
        DEF ExchangeAnswered, Publish, TokenHeld, PairHeld, Running, unitVars
<1>6. CASE ExchangeUnresolved
    <2>1. AtRiskFenced'
        BY <1>6 DEF ExchangeUnresolved, AtRiskFenced, storeVars, unitVars, procVars, histVars
    <2>2. TokenHeld'
        BY Zenon, <1>6, NothingRuns
        DEF ExchangeUnresolved, TokenHeld, Running, storeVars, unitVars, procVars, histVars,
            Publish
    <2>3. PairHeld'
        BY Zenon, <1>6, NothingRuns, TaskFacts
        DEF ExchangeUnresolved, PairHeld, storeVars, unitVars, procVars, histVars, Publish,
            TokenHeld
    <2>4. result'.succ = NoSuccessor /\ result'.close = NoClose
        BY <1>6 DEF ExchangeUnresolved, Publish
    <2>5. SafeClosings' /\ SafeSuccessors'
        BY Zenon, <1>6, <2>4, EmptyFields
        DEF ExchangeUnresolved, SafeClosings, SafeSuccessors, unitVars, histVars, HistTypeOK
    <2> QED
        BY <2>1, <2>2, <2>3, <2>5
<1>7. CASE ExchangeGranted
    <2>1. PICK out \in Gens, rotated \in BOOLEAN :
              /\ rotated => out # task.input
              /\ task' = [task EXCEPT !.pc = "persist", !.output = out]
              /\ atRisk' = IF rotated THEN atRisk ELSE atRisk \ {task.token}
        BY Zenon, <1>7, TaskFacts DEF ExchangeGranted
    <2>2. /\ Running /\ Running' /\ task'.pc = "persist" /\ task'.output = out
          /\ task'.input = task.input /\ task'.token = task.token /\ task.input = task.token
        BY Zenon, <1>7, <2>1, TaskFacts DEF ExchangeGranted, Tasks, TokenHeld, Running
    <2>3. atRisk' \subseteq atRisk /\ (out = task.input => task.input \notin atRisk')
        BY <2>1, <2>2
    <2> QED
        BY <1>7, <2>2, <2>3
        DEF ExchangeGranted, AtRiskFenced, TokenHeld, PairHeld, SafeClosings, SafeSuccessors,
            storeVars, unitVars
<1>8. CASE ExchangePersist
    <2> DEFINE s == [r |-> task.r, input |-> task.input, output |-> task.output]
    <2>1. s \in Successors /\ s.input = task.input /\ s.output = task.output /\ Running
        BY Zenon, <1>8, TaskFacts DEF ExchangePersist, Successors
    <2>2. PICK done \in BOOLEAN :
              /\ TryPersist(s, done)
              /\ held' = IF done THEN s.output ELSE held
              /\ Publish(IF done THEN "persisted" ELSE "pending", s, NoClose)
        BY <1>8 DEF ExchangePersist
    <2>3. s.input = s.output => s.input \notin atRisk
        BY Zenon, <1>8, <2>1 DEF ExchangePersist, TokenHeld
    <2>4. AtRiskFenced'
        BY Zenon, <1>8, <2>1, <2>2, <2>3, TryPersistFences DEF ExchangePersist, AtRiskFenced, histVars
    <2>5. /\ result'.close = NoClose /\ result'.succ = s /\ ~Running' /\ task' = NoTask
          /\ done => result'.kind = "persisted"
        BY <2>2, NothingRuns DEF Publish, Running
    <2>6. SafeClosings' /\ SafeSuccessors'
        BY Zenon, <1>8, <2>3, <2>5, EmptyFields
        DEF ExchangePersist, SafeClosings, SafeSuccessors, histVars, HistTypeOK
    <2> QED
        BY Zenon, <1>8, <2>1, <2>2, <2>4, <2>5, <2>6, NothingRuns
        DEF ExchangePersist, TokenHeld, PairHeld
<1>9. CASE Enter
    BY <1>9, FrameSInv
    DEF Enter, storeVars, unitVars, procVars, histVars
<1>10. CASE ApplyResult
    <2>0. /\ result' = NoResult /\ task' = task /\ up' = up /\ UNCHANGED histVars
          /\ (Running => result.kind = "none")
        BY Zenon, <1>10, NothingRuns DEF ApplyResult, FlightAlone, Finished
    <2>1. SUFFICES /\ fences' = fences
                   /\ pclose' \in {pclose, result.close, NoClose}
                   /\ psucc' \in {psucc, result.succ, NoSuccessor}
                   /\ Running => UNCHANGED <<pair, held>>
                   /\ up /\ ~config' => pair' = held'
        BY Zenon, <2>0, NothingRuns, EmptyFields
        DEF AtRiskFenced, TokenHeld, PairHeld, SafeClosings, SafeSuccessors, histVars,
            HistTypeOK,
            Running
    <2>2. CASE result.kind = "none"
        BY <1>10, <2>2 DEF ApplyResult, storeVars, unitVars, PairHeld
    <2>3. CASE result.kind = "persisted"
        BY <1>10, <2>0, <2>3 DEF ApplyResult, ApplyPersisted, storeVars
    <2>4. CASE result.kind = "pending"
        BY <1>10, <2>0, <2>4 DEF ApplyResult, storeVars, PairHeld
    <2>5. CASE result.kind \in {"row_external", "row_own"}
        <3>1. TryAdopt(result.kind = "row_external") /\ (result.kind = "row_external") \in BOOLEAN
            BY <1>10, <2>5 DEF ApplyResult
        <3> QED
            BY Zenon, <2>0, <2>5, <3>1, AdoptKeeps DEF PairHeld
    <2>6. CASE result.kind \notin {"none", "persisted", "pending", "row_external", "row_own"}
        BY SMTT(40), <1>10, <2>0, <2>6 DEF ApplyResult, storeVars, PairHeld
    <2> QED
        BY <2>2, <2>3, <2>4, <2>5, <2>6
<1>11. CASE RetryClose
    <2>1. pclose \in Closings /\ ~Running
        BY <1>11 DEF RetryClose, UnitTypeOK, StepHasWork, FlightAlone
    <2>2. /\ UNCHANGED <<held, pair, config, psucc, up, task, result, histVars>>
          /\ pclose' \in {pclose, NoClose}
        BY <1>11 DEF RetryClose
    <2>3. \/ fences' = fences
          \/ /\ fences' = fences \ {pclose.input}
             /\ pclose.release \/ pclose.closing = "cancelled"
        BY <1>11, <2>1, TryCloseFences DEF RetryClose, storeVars
    <2>4. AtRiskFenced'
        BY <2>2, <2>3 DEF AtRiskFenced, SafeClosings, histVars
    <2>5. TokenHeld'
        BY <2>1, <2>2, TaskFacts DEF TokenHeld, Running, histVars
    <2> QED
        BY Zenon, <2>2, <2>4, <2>5, EmptyFields
        DEF PairHeld, SafeClosings, SafeSuccessors, histVars, HistTypeOK
<1>12. CASE RetrySuccessor
    <2>1. psucc \in Successors /\ ~Running
        BY Zenon, <1>12 DEF RetrySuccessor, UnitTypeOK, StepHasWork, FlightAlone
    <2>2. UNCHANGED <<up, task, result, histVars>>
        BY <1>12 DEF RetrySuccessor
    <2>3. SUFFICES /\ \/ fences' = fences
                      \/ psucc.input = psucc.output /\ fences' = fences \ {psucc.input}
                   /\ pclose' \in {pclose, NoClose} /\ psucc' \in {psucc, NoSuccessor}
                   /\ ~config' => pair' = held' \/ UNCHANGED <<pair, held, config>>
        <3>1. AtRiskFenced'
            BY Zenon, <2>2, <2>3 DEF AtRiskFenced, SafeSuccessors, histVars
        <3>2. TokenHeld'
            BY <2>1, <2>2, TaskFacts DEF TokenHeld, Running, histVars
        <3>3. PairHeld'
            BY <2>2, <2>3 DEF PairHeld
        <3> QED
            BY Zenon, <2>2, <2>3, <3>1, <3>2, <3>3, EmptyFields
            DEF SafeClosings, SafeSuccessors, histVars, HistTypeOK
    <2>4. CASE ApplyPersisted(psucc) /\ UNCHANGED <<storeVars, own>>
        BY Zenon, <2>4 DEF ApplyPersisted, storeVars
    <2>5. CASE TryAdopt(TRUE)
        BY Zenon, <2>5, AdoptKeeps
    <2>6. ASSUME NEW done \in BOOLEAN, TryPersist(psucc, done),
                 IF done THEN ApplyPersisted(psucc)
                 ELSE UNCHANGED <<held, pair, stop, config, refusals, psucc, pclose, adopted>>
          PROVE  /\ \/ fences' = fences
                    \/ psucc.input = psucc.output /\ fences' = fences \ {psucc.input}
                 /\ pclose' \in {pclose, NoClose} /\ psucc' \in {psucc, NoSuccessor}
                 /\ ~config' => pair' = held' \/ UNCHANGED <<pair, held, config>>
        BY <2>1, <2>6, TryPersistFences DEF ApplyPersisted
    <2>7. CASE UNCHANGED <<storeVars, unitVars>>
        BY <2>7 DEF storeVars, unitVars
    <2> QED
        BY Zenon, <1>12, <2>4, <2>5, <2>6, <2>7 DEF RetrySuccessor
<1>13. CASE SettleStop
    BY <1>13, FrameSInv
    DEF SettleStop, storeVars, unitVars, procVars, histVars
<1>14. CASE WaitEnds
    BY <1>14, FrameSInv
    DEF WaitEnds, storeVars, unitVars, procVars, histVars
<1>15. CASE CallerDropped
    BY <1>15, FrameSInv
    DEF CallerDropped, storeVars, unitVars, procVars, histVars
<1>16. CASE Return
    BY <1>16, FrameSInv
    DEF Return, storeVars, unitVars, procVars, histVars
<1>17. CASE AdoptChanged
    <2>1. ~Running
        BY <1>17 DEF AdoptChanged, Rechecks, GateOpen, FlightAlone
    <2>2. TryAdopt(Relation = "external") /\ (Relation = "external") \in BOOLEAN
        BY <1>17 DEF AdoptChanged, TryAdopt
    <2>3. UNCHANGED <<up, task, result, histVars>>
        BY <1>17 DEF AdoptChanged
    <2>4. TokenHeld'
        BY <2>1, <2>3, TaskFacts DEF TokenHeld, Running, histVars
    <2> QED
        BY Zenon, <2>2, <2>3, <2>4, AdoptKeeps, EmptyFields
        DEF AtRiskFenced, PairHeld, SafeClosings, SafeSuccessors, histVars, HistTypeOK
<1>18. CASE StartExchange
    <2>1. AtRiskFenced'
        BY <1>18 DEF StartExchange, AtRiskFenced, storeVars, unitVars, procVars, histVars
    <2>2. TokenHeld'
        BY <1>18, NothingRuns
        DEF StartExchange, TokenHeld, Running, storeVars, unitVars, procVars, histVars,
            GateOpen, PairHeld, Finished, NoTask
    <2>3. PairHeld'
        BY <1>18 DEF StartExchange, PairHeld, storeVars, unitVars, procVars, histVars
    <2>4. SafeClosings' /\ SafeSuccessors'
        BY <1>18
        DEF StartExchange, SafeClosings, SafeSuccessors, storeVars, unitVars, procVars, histVars
    <2> QED
        BY <2>1, <2>2, <2>3, <2>4
<1>19. CASE OwnerRetry
    BY <1>19, FrameSInv
    DEF OwnerRetry, storeVars, unitVars, procVars, histVars
<1>20. CASE StopAccount
    BY <1>20, FrameSInv
    DEF StopAccount, storeVars, unitVars, procVars, histVars
<1>21. CASE Shutdown
    BY <1>21, FrameSInv
    DEF Shutdown, storeVars, unitVars, procVars, histVars
<1>22. CASE ExternalLogin
    BY <1>22, FrameSInv
    DEF ExternalLogin, ReplaceTokens, storeVars, unitVars, procVars, histVars
<1>23. CASE ExternalRemoval
    BY <1>23, FrameSInv
    DEF ExternalRemoval, ClearTokens, storeVars, unitVars, procVars, histVars
<1>24. CASE RetentionPasses
    BY <1>24, FrameSInv
    DEF RetentionPasses, PruneReceipt, storeVars, unitVars, procVars, histVars
<1>25. CASE AuthorityLost
    BY <1>25, FrameSInv
    DEF AuthorityLost, storeVars, unitVars, procVars, histVars
<1>26. CASE Crash
    <2>1. AtRiskFenced'
        BY <1>26 DEF Crash, AtRiskFenced, storeVars, unitVars, procVars, histVars
    <2>2. TokenHeld'
        BY Zenon, <1>26, NothingRuns
        DEF Crash, TokenHeld, Running, storeVars, unitVars, procVars, histVars
    <2>3. PairHeld'
        BY <1>26 DEF Crash, PairHeld, storeVars, unitVars, procVars, histVars
    <2>4. SafeClosings' /\ SafeSuccessors'
        BY Zenon, <1>26, NothingRuns, EmptyFields
        DEF Crash, SafeClosings, SafeSuccessors, storeVars, unitVars, procVars, histVars,
            HistTypeOK
    <2> QED
        BY <2>1, <2>2, <2>3, <2>4
<1>27. CASE Start
    <2>1. ~Running /\ ~Running' /\ fences' = fences /\ UNCHANGED <<task, result, histVars>>
        BY <1>27 DEF Start, HeldKnown, Running, BindTokens
    <2>2. ~config' => pair' = held'
        BY <1>27 DEF Start
    <2>3. TokenHeld'
        BY <2>1, TaskFacts DEF TokenHeld, Running, histVars
    <2>4. SafeClosings' /\ SafeSuccessors'
        BY Zenon, <1>27, <2>1 DEF Start, SafeClosings, SafeSuccessors, histVars
    <2> QED
        BY <2>1, <2>2, <2>3, <2>4 DEF AtRiskFenced, PairHeld, histVars
<1>28. CASE UNCHANGED vars
    BY <1>28, FrameSInv DEF vars, storeVars, unitVars, procVars, histVars
<1> QED
    BY Zenon, <1>1, <1>2, <1>3, <1>4, <1>5, <1>6, <1>7, <1>8, <1>9, <1>10, <1>11, <1>12, <1>13,
       <1>14, <1>15, <1>16, <1>17, <1>18, <1>19, <1>20, <1>21, <1>22, <1>23, <1>24, <1>25,
       <1>26, <1>27, <1>28
    DEF Next, Exchange, Manager, World

-----------------------------------------------------------------------------
(* THEOREMS *)

(* Where every stored pair passes the token grammar, the invariant that     *)
(* ties the unit to its fences is inductive.                                *)
LEMMA SafetyInvariant ==
    ASSUME Malformed = {}
    PROVE  Spec => [](TInv /\ SInv)
<1>1. Init => TInv /\ SInv
    BY InitTInv, InitSInv
<1>2. TInv /\ SInv /\ [Next]_vars => (TInv /\ SInv)'
    BY StepTInv, StepSInv
<1> QED
    BY <1>1, <1>2, PTL DEF Spec

(* A refresh token that was presented and may have been consumed stays      *)
(* fenced for good: through crashes, restarts, retried closings and writes, *)
(* logins, removals and pruning (begin_legacy_refresh, close and complete). *)
THEOREM Fenced ==
    ASSUME Malformed = {}
    PROVE  Spec => []AtRiskFenced
<1>1. TInv /\ SInv => AtRiskFenced
    BY DEF SInv
<1> QED
    BY <1>1, SafetyInvariant, PTL

(* The token an attempt presents is the one whose generation it reserved:   *)
(* the generation ports.begin reads when the detached task runs is that of  *)
(* the token StartExchange captured earlier.                                *)
THEOREM Reserved ==
    ASSUME Malformed = {}
    PROVE  Spec => []PresentedIsReserved
<1>1. TInv /\ SInv => PresentedIsReserved
    BY DEF TInv, TypeOK, ProcTypeOK, SInv, TokenHeld, Running, PresentedIsReserved, NoTask
<1> QED
    BY <1>1, SafetyInvariant, PTL

(* A refresh token that may have been consumed by an earlier presentation   *)
(* is never presented again, by this process or a later one.                *)
THEOREM NeverSentTwice ==
    ASSUME Malformed = {}
    PROVE  Spec => NeverResent
<1> DEFINE Once == task'.pc = "sent" /\ task.pc = "guard" => task.token \notin atRisk
<1>1. TInv /\ SInv /\ [Next]_vars => [Once]_vars
    BY DEF SInv, TokenHeld, Running
<1>2. Spec => [][Once]_vars
    BY <1>1, SafetyInvariant, PTL DEF Spec
<1> QED
    BY <1>2 DEF NeverResent
=============================================================================
