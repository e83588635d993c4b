------------------------------- MODULE MCUnit -------------------------------
(* Finite instances of LegacyRefresh, FleetTokens and CollectorRun, which    *)
(* share nothing here: a behaviour is one of the component `part' names, so  *)
(* that the state spaces add up.                                             *)
EXTENDS MCLegacyRefresh, FleetTokens, CollectorRun

CONSTANT Parts

VARIABLE part

(* What the operator starts, one run after the other. *)
MCDeployments ==
    {<<"owner", "cadence", "owner">>, <<"fleet", "fleet">>, <<"telemetry", "telemetry">>, <<"owner", "owner">>}

UnitsInit ==
    /\ part \in Parts
    /\ Init /\ (part = "unit" \/ ~row.bound)
    /\ TInit /\ (part = "fleet" \/ fbound)
    /\ RunInit /\ (part = "run" \/ deployed = CHOOSE d \in Deployments : TRUE)

UnitsNext ==
    \/ part = "unit" /\ Next /\ UNCHANGED <<part, tvars, runVars>>
    \/ part = "fleet" /\ TNext /\ UNCHANGED <<part, vars, runVars>>
    \/ part = "run" /\ RunNext /\ UNCHANGED <<part, vars, tvars>>

UnitsSpec == UnitsInit /\ [][UnitsNext]_<<part, vars, tvars, runVars>>

=============================================================================
