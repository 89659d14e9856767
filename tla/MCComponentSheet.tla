-------------------------- MODULE MCComponentSheet -------------------------
(* Two models of two registrants, with two components and one, for TLC.    *)
EXTENDS ComponentSheet

CONSTANTS a1, a2, b1, ma, mb, ra, rb

ThreeComponents == {a1, a2, b1}
OneRow == <<a1>>
TwoModels == [c \in ThreeComponents |-> IF c = b1 THEN mb ELSE ma]
TwoRegistrants == [m \in {ma, mb} |-> IF m = mb THEN rb ELSE ra]
=============================================================================
