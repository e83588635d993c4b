------------------------ MODULE LegacyCredentialStore ------------------------
(***************************************************************************)
(* The tables of the catalogue that fence the single-use refresh token of  *)
(* the legacy Tesla login, and the transactions on them                    *)
(* (src/src/storage/db/legacy_credentials.rs).                             *)
(*                                                                         *)
(*   row      teslamate_legacy_tokens, one row or none.  gen is the        *)
(*            identity of the plaintext refresh token, bound says whether  *)
(*            the credential_generation column holds it, img says which    *)
(*            write the ciphertext comes from: the attempt that wrote it,  *)
(*            or Import.                                                   *)
(*   outcome  outbound_request_receipts.outcome of each token receipt.     *)
(*   binding  legacy_refresh_receipt_bindings, by receipt; input = NoGen   *)
(*            when the receipt has no binding.                             *)
(*   fences   legacy_refresh_input_fences.                                 *)
(*                                                                         *)
(* Every transaction is IMMEDIATE, so it is one step.  It is given by the  *)
(* condition under which it commits and by its effect; a transaction that  *)
(* is refused changes nothing.                                             *)
(***************************************************************************)
EXTENDS Naturals, FiniteSets

CONSTANTS
    Gens,       \* identities of refresh tokens (credential generations)
    Receipts,   \* row ids of token receipts
    NoGen,      \* no generation: a NULL column, no binding, no row
    Import,     \* the image of a row an external login or import wrote
    MaxFences   \* MAX_LEGACY_REFRESH_INPUT_FENCES

ASSUME NoGenAssumption == NoGen \notin Gens
ASSUME ImportAssumption == Import \notin Receipts
ASSUME MaxFencesAssumption == MaxFences \in Nat \ {0}

VARIABLES row, outcome, binding, fences

storeVars == <<row, outcome, binding, fences>>

-----------------------------------------------------------------------------
Closed == {"success", "cancelled", "http_error", "authentication_rejected",
           "transport_error"}
Outcomes == {"unused", "started", "pruned"} \cup Closed
NoRow == [gen |-> NoGen, bound |-> FALSE, img |-> Import]
NoBinding == [input |-> NoGen, output |-> NoGen]
Rows == [gen : Gens, bound : BOOLEAN, img : Receipts \cup {Import}] \cup {NoRow}
Bindings == [input : Gens, output : Gens \cup {NoGen}] \cup {NoBinding}

StoreTypeOK ==
    /\ row \in Rows
    /\ outcome \in [Receipts -> Outcomes]
    /\ binding \in [Receipts -> Bindings]
    /\ fences \in SUBSET Gens

(* What the credential_generation column reads. *)
StoredGen == IF row.bound THEN row.gen ELSE NoGen

(* A started receipt that is bound to input: what the closing transactions  *)
(* require of the attempt they close.                                       *)
Open(r, input) == outcome[r] = "started" /\ binding[r].input = input

(* has_unresolved_legacy_refresh *)
Unresolved == {r \in Receipts : outcome[r] = "started" /\ binding[r].input # NoGen}

(* legacy_generation_is_refresh_output *)
IsRefreshOutput(g) == \E r \in Receipts : binding[r].output = g

(* The pair a first start finds: imported by an older release that did not  *)
(* fill the generation column, or by this one.                              *)
StoreInit ==
    /\ \E g \in Gens, b \in BOOLEAN : row = [gen |-> g, bound |-> b, img |-> Import]
    /\ outcome = [r \in Receipts |-> "unused"]
    /\ binding = [r \in Receipts |-> NoBinding]
    /\ fences = {}

-----------------------------------------------------------------------------
(* replace_teslamate_legacy_tokens: a login or an import stores generation  *)
(* g.  An unresolved attempt is resolved by it only when it is the one of   *)
(* the stored pair and g differs from its input.                            *)
ReplaceAllowed(g) ==
    /\ g \notin fences
    /\ \A r \in Unresolved : binding[r].input = StoredGen /\ binding[r].input # g
    /\ \A r, s \in Unresolved : r = s

CancelUnresolved ==
    outcome' = [r \in Receipts |-> IF r \in Unresolved THEN "cancelled" ELSE outcome[r]]

(* Faulty variant: the login leaves the attempt it replaces open. *)
ReplaceTokensUncancelled(g) ==
    /\ ReplaceAllowed(g)
    /\ row' = [gen |-> g, bound |-> TRUE, img |-> Import]
    /\ UNCHANGED <<outcome, binding, fences>>

ReplaceTokens(g) ==
    /\ ReplaceAllowed(g)
    /\ CancelUnresolved
    /\ row' = [gen |-> g, bound |-> TRUE, img |-> Import]
    /\ UNCHANGED <<binding, fences>>

(* clear_teslamate_legacy_tokens *)
ClearTokens ==
    /\ row # NoRow
    /\ CancelUnresolved
    /\ row' = NoRow
    /\ UNCHANGED <<binding, fences>>

(* bind_teslamate_legacy_credential_generation, by the holder that has just *)
(* decrypted the row.                                                       *)
BindTokens ==
    /\ row # NoRow
    /\ row' = [row EXCEPT !.bound = TRUE]
    /\ UNCHANGED <<outcome, binding, fences>>

(* Faulty variant: the reservation does not look for an earlier fence. *)
BeginAllowedUnfenced(g) ==
    /\ StoredGen = g
    /\ Unresolved = {}
    /\ Cardinality(fences) < MaxFences

(* begin_legacy_refresh: the receipt, the fence and the binding commit      *)
(* together, before anything is sent.                                       *)
BeginAllowed(g) ==
    /\ StoredGen = g
    /\ Unresolved = {}
    /\ g \notin fences
    /\ Cardinality(fences) < MaxFences

BeginRefresh(r, g) ==
    /\ outcome[r] = "unused"
    /\ BeginAllowed(g)
    /\ outcome' = [outcome EXCEPT ![r] = "started"]
    /\ binding' = [binding EXCEPT ![r] = [input |-> g, output |-> NoGen]]
    /\ fences' = fences \cup {g}
    /\ UNCHANGED row

(* Faulty variant: the write is keyed by the receipt alone. *)
CompleteAllowedByReceipt(r, input, output) ==
    /\ input # output
    /\ outcome[r] # "unused"
    /\ output \notin fences

(* complete_legacy_refresh *)
CompleteAllowed(r, input, output) ==
    /\ input # output
    /\ Open(r, input)
    /\ StoredGen = input
    /\ output \notin fences

CompleteRefresh(r, input, output) ==
    /\ CompleteAllowed(r, input, output)
    /\ row' = [gen |-> output, bound |-> TRUE, img |-> r]
    /\ binding' = [binding EXCEPT ![r].output = output]
    /\ outcome' = [outcome EXCEPT ![r] = "success"]
    /\ UNCHANGED fences

(* complete_unrotated_legacy_refresh: the answer kept the refresh token.    *)
CompleteUnrotatedAllowed(r, g) == Open(r, g) /\ StoredGen = g

CompleteUnrotated(r, g) ==
    /\ CompleteUnrotatedAllowed(r, g)
    /\ row' = [row EXCEPT !.img = r]
    /\ outcome' = [outcome EXCEPT ![r] = "success"]
    /\ binding' = [binding EXCEPT ![r] = NoBinding]
    /\ fences' = fences \ {g}

(* cancel_unsent_legacy_refresh *)
CancelUnsent(r, input) ==
    /\ Open(r, input)
    /\ outcome' = [outcome EXCEPT ![r] = "cancelled"]
    /\ binding' = [binding EXCEPT ![r] = NoBinding]
    /\ fences' = fences \ {input}
    /\ UNCHANGED row

(* Faulty variant: every closing frees the input. *)
CloseAttemptReleasing(r, input, closing, release) ==
    /\ Open(r, input)
    /\ closing \in Closed \ {"cancelled"}
    /\ outcome' = [outcome EXCEPT ![r] = closing]
    /\ binding' = [binding EXCEPT ![r] = NoBinding]
    /\ fences' = fences \ {input}
    /\ UNCHANGED row

(* close_legacy_refresh_attempt: release says whether the answer proves     *)
(* that the input was not consumed.                                         *)
CloseAttempt(r, input, closing, release) ==
    /\ Open(r, input)
    /\ closing \in Closed \ {"cancelled"}
    /\ outcome' = [outcome EXCEPT ![r] = closing]
    /\ IF release
       THEN /\ binding' = [binding EXCEPT ![r] = NoBinding]
            /\ fences' = fences \ {input}
       ELSE UNCHANGED <<binding, fences>>
    /\ UNCHANGED row

(* The receipts behind the stored pair: the completed refreshes that lead   *)
(* from the last imported generation to the stored one.                     *)
ChainClosed(S) ==
    \A r \in Receipts :
        /\ binding[r].output # NoGen
        /\ \/ binding[r].output = StoredGen
           \/ \E s \in S : binding[s].input = binding[r].output
        => r \in S

Chain == {r \in Receipts : \A S \in SUBSET Receipts : ChainClosed(S) => r \in S}

(* prune_expired_outbound_request_receipts: a closed receipt past its       *)
(* retention goes, with its binding, unless the chain needs it.             *)
PruneReceipt(r) ==
    /\ outcome[r] \in Closed
    /\ r \notin Chain
    /\ outcome' = [outcome EXCEPT ![r] = "pruned"]
    /\ binding' = [binding EXCEPT ![r] = NoBinding]
    /\ UNCHANGED <<row, fences>>
=============================================================================
