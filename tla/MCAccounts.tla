----------------------------- MODULE MCAccounts -----------------------------
(* Finite instances of RejectionFuse, KeyCustody and DeviceAccess, which    *)
(* share nothing: a behaviour is one of the component `part' names, so that *)
(* the state spaces add up.                                                 *)
EXTENDS RejectionFuse, KeyCustody, DeviceAccess, TLC

CONSTANT Parts

VARIABLE part

Mode(holder, streams, writesFail, maxTime, maxToken) ==
    [holder |-> holder, streams |-> streams, writesFail |-> writesFail,
     maxTime |-> maxTime, maxToken |-> maxToken]

(* Every kind of holder; the managed one also, within smaller bounds, with  *)
(* streams and failing writes.                                              *)
AllHolders ==
    {Mode("Managed", FALSE, FALSE, 4, 3), Mode("Managed", TRUE, TRUE, 3, 2),
     Mode("AccessTokenOnly", TRUE, FALSE, 4, 4), Mode("Observer", TRUE, FALSE, 4, 4)}

ManagedWithStreams == {Mode("Managed", TRUE, FALSE, 4, 4)}

AccountsInit ==
    /\ part \in Parts
    /\ FuseInit /\ (part = "fuse" \/ mode = CHOOSE m \in Modes : TRUE)
    /\ Init /\ (part = "custody" \/ frow = NoKey)
    /\ AInit

AccountsNext ==
    \/ part = "fuse" /\ FuseNext /\ UNCHANGED <<part, vars, avars>>
    \/ part = "custody" /\ Next /\ UNCHANGED <<part, fvars, avars>>
    \/ part = "devices" /\ ANext /\ UNCHANGED <<part, fvars, vars>>

AccountsSpec == AccountsInit /\ [][AccountsNext]_<<part, vars, fvars, avars>>

=============================================================================
