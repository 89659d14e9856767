------------------------- MODULE MCModelGeneration -------------------------
(* A sheet with core models and models from Artifact Hub, for TLC.         *)
EXTENDS ModelGeneration

\* The documented form of a core model's URL has ten parts; one part too
\* few for a version, and the length the check forgets.
Lengths == {7, 8, 10}
=============================================================================
