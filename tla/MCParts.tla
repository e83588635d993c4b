------------------------------ MODULE MCParts -------------------------------
(***************************************************************************)
(* Components that are checked for safety only and share no state. A       *)
(* behaviour is one of the component `part' names, so that the state       *)
(* spaces add up; the others keep one initial state.                       *)
(***************************************************************************)
EXTENDS MCCarScheduler, Chunking, ChangedSet, DirectCapture

CONSTANT Parts

VARIABLE part

AnySource == CHOOSE s \in SourceRows : TRUE

PartsInit ==
  /\ part \in Parts
  /\ Init /\ (part = "scheduler" \/ (enabled /\ left.ends = 1))
  /\ IF part = "chunking" THEN CInit ELSE stage = <<>> /\ rowLimit = Roots /\ CStart
  /\ IF part = "changes" THEN XInit ELSE source = [k \in {Car} |-> PlainRow] /\ XStart
  /\ IF part = "capture" THEN GInit ELSE gsrc = AnySource /\ GStart

PartsNext ==
  \/ part = "scheduler" /\ Next /\ UNCHANGED <<part, cvars, xvars, gvars>>
  \/ part = "chunking" /\ CNext /\ UNCHANGED <<part, vars, xvars, gvars>>
  \/ part = "changes" /\ XNext /\ UNCHANGED <<part, vars, cvars, gvars>>
  \/ part = "capture" /\ GNext /\ UNCHANGED <<part, vars, cvars, xvars>>

PartsSpec == PartsInit /\ [][PartsNext]_<<part, vars, cvars, xvars, gvars>>

=============================================================================
