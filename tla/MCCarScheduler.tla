--------------------------- MODULE MCCarScheduler ---------------------------
(* The instances of CarScheduler that TLC checks. *)
EXTENDS CarScheduler

Mode(fleet, commits, ends, actions) ==
    [fleet |-> fleet, commits |-> commits, ends |-> ends, actions |-> actions]

(* The Owner wire with a commit that fails; Fleet polling with one, with a  *)
(* restart, and with an action of the owner.                                *)
BothModes == {Mode(FALSE, 1, 0, 0), Mode(TRUE, 1, 0, 0), Mode(TRUE, 0, 1, 0),
              Mode(TRUE, 0, 0, 1)}

FleetRestart == {Mode(TRUE, 0, 1, 1)}
=============================================================================
