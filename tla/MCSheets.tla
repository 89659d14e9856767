------------------------------ MODULE MCSheets ------------------------------
(* The Components and the Relationships tab of the spreadsheet on small      *)
(* instances, for TLC.                                                       *)
EXTENDS Sheets, MCComponentSheet, TLC

CONSTANTS v1, v2

\* Three rows of two models, the one in the middle not to be published.
ThreeRows == <<ma, mb, ma>>
ThreeVersions == <<Star, v1, v1>>
Middle == {2}
TwoVersions == {v1, v2}

\* Two or three registrants may still come, or none matters.
MCInit ==
    /\ SheetsInit
    /\ IF part = "components" THEN modelBatch > 1 ELSE modelBatch = 1
MCSpec ==
    /\ MCInit /\ [][SheetsNext]_<<part, inBoth, components, relationships>>
    /\ SheetsFair /\ SheetsAnswer
=============================================================================
