---------------------------- MODULE MCFileIntake ----------------------------
(* Two Compose files, each a valid one, converted by two callers.           *)
EXTENDS FileIntake

TwoFiles ==
    {[NoFile EXCEPT !.name = n, !.ext = ".yml", !.valid = TRUE, !.docs = <<"odd">>,
                    !.compose = "ok"] : n \in {"blog", "shop"}}

Spec == IntakeInit /\ [][IntakeNext]_intakeVars
=============================================================================
