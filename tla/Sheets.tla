------------------------------- MODULE Sheets -------------------------------
(***************************************************************************)
(* The Components and the Relationships tab of the spreadsheet.  Both are  *)
(* parsed the same way, by the goroutines of SheetParse; a behaviour is    *)
(* about the tab that its first state picks.                               *)
(***************************************************************************)
EXTENDS ComponentSheet

CONSTANTS
    RowModel, RowVersion, Withheld, Versions, Star, All  \* of RelationshipSheet

VARIABLES
    part,       \* "components" or "relationships"
    cell, column, filter, currentRow, rels, begun, left, sending, handed,
    updates, made, files, written, unnamed, saved, crooked

inBoth == <<parseVars, call, calls>>
components == <<tab, file, due, known, entries, procVars, handled, dropped, unread,
                overlooked, panicked>>
relationships == <<cell, column, filter, currentRow, rels, begun, left, sending, handed,
                   updates, made, files, written, unnamed, saved, crooked>>
inComponents == <<inBoth, components>>
inRelationships == <<inBoth, relationships>>

R == INSTANCE RelationshipSheet WITH file <- column

ASSUME RelationshipValues == R!RelationshipAssumption
-----------------------------------------------------------------------------
SheetsInit ==
    /\ part \in {"components", "relationships"}
    /\ Init /\ R!Init

ComponentsNext ==
    /\ part = "components"
    /\ Next
    /\ UNCHANGED <<part, relationships>>

RelationshipsNext ==
    /\ part = "relationships"
    /\ R!Next
    /\ UNCHANGED <<part, components>>

SheetsNext == ComponentsNext \/ RelationshipsNext

\* The fairness of both modules, each in its part.
OfComponents(A) == part = "components" /\ ~panicked /\ A
OfRelationships(A) == part = "relationships" /\ A
SheetsFair ==
    /\ WF_inComponents(OfComponents(ParserRuns))
    /\ WF_inComponents(OfComponents(CallerRuns))
    /\ WF_inComponents(OfComponents(ProcessModelToComponentsMap))
    /\ WF_inRelationships(OfRelationships(R!ParserRuns))
    /\ WF_inRelationships(OfRelationships(R!CallerRuns))
    /\ WF_inRelationships(OfRelationships(R!Process))
    /\ WF_inRelationships(OfRelationships(R!Collect))

\* Google Sheets answers the batch update, which has no time limit: this is
\* assumed of the environment.
SheetsAnswer == WF_inRelationships(OfRelationships(R!UpdateRelationshipSheet))

SheetsSpec ==
    /\ SheetsInit /\ [][SheetsNext]_<<part, inBoth, components, relationships>>
    /\ SheetsFair /\ SheetsAnswer
-----------------------------------------------------------------------------
\* The types of both modules, each in its part
TypesOK == IF part = "components" THEN TypeOK ELSE R!TypeOK

\* No relationship takes the file of another.
FilesDistinct == R!FilesDistinct

\* The rows of the tab name the files written for them.
NamesRecorded == R!NamesRecorded

\* The parse of a tab ends, with either goroutine waiting for the other and
\* whatever the file contains, and so does a call for relationships, which
\* begins with one, waits for its collector, and ends with the batch update:
\* for that call SheetsAnswer is assumed.
Busy == IF part = "components" THEN call = "parse" ELSE call # "idle"
SheetsReturn == Busy ~> ~Busy
=============================================================================
