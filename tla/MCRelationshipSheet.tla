------------------------ MODULE MCRelationshipSheet ------------------------
(* Relationships of two models in a tab of three rows, for TLC.              *)
EXTENDS RelationshipSheet

CONSTANTS ma, mb, v1, v2

TwoVersions == {v1, v2}

\* Three rows, the one in the middle not to be published.
ThreeRows == <<ma, mb, ma>>
ThreeVersions == <<Star, v1, v1>>
=============================================================================
