-------------------------- MODULE RelationshipSheet ------------------------
(***************************************************************************)
(* The Relationships tab of the spreadsheet over several calls of          *)
(* InvokeGenerationFromSheetWithOptions: each call downloads and parses    *)
(* the tab, ProcessRelationships writes a file for every version a row is  *)
(* meant for, names the rows that have no file name yet and sends them to  *)
(* a collector, and UpdateRelationshipSheet writes the new names to the    *)
(* tab, each at the row number counted while parsing.                      *)
(*                                                                         *)
(* A file name holds five random letters; two that were made up are taken  *)
(* to differ, and numbered.                                                *)
(***************************************************************************)
EXTENDS SheetParse

CONSTANTS
    RowModel,    \* RowModel[r]: the model of row r of the tab
    RowVersion,  \* its version, or Star
    Withheld,    \* rows passed over: not to be published, or unreadable cells
    Versions,    \* the versions a model may have a directory for
    Star,        \* "*": every version there is
    All,         \* no modelName was given
    MaxCalls     \* bound: calls of the function

Rows == DOMAIN RowModel
Models == {RowModel[r] : r \in Rows}
Headers == 2           \* lines of the tab above its first row
NoName == 0            \* an empty filename cell

RelationshipAssumption ==
    /\ RowModel \in Seq(Models)
    /\ RowVersion \in [Rows -> Versions \cup {Star}]
    /\ Withheld \subseteq Rows
    /\ Star \notin Versions
    /\ All \notin Models
    /\ MaxCalls \in Nat

VARIABLES
    cell,       \* the filename column of the tab, in the sheet
    file,       \* the column as this call has downloaded it
    call,       \* where the call is
    calls,      \* calls so far
    filter,     \* modelName
    currentRow, \* the number the next parsed row is given
    rels,       \* Relationships: a row, its number and its file name
    begun,      \* the versions of the first of rels have been listed
    left,       \* those that are not processed yet
    sending,    \* the row that was named and written, before it is sent
    handed,     \* what the collector has received and not appended
    updates,    \* UpdatedRelationships
    made,       \* how many names were made up
    files,      \* history: every file ever written, and for which row
    written,    \* history: files written by this call
    unnamed,    \* history: rows whose first file of this call failed
    saved,      \* history: the last call has written all names to the tab
    crooked     \* history: why row numbers may have been wrong in some call

tabVars == <<cell, file, filter, currentRow, saved, crooked>>
workVars == <<rels, begun, left, sending, handed, updates, made, files,
              written, unnamed>>
vars == <<parseVars, tabVars, workVars, call, calls>>

Init ==
    /\ ParseInit
    /\ cell = [r \in Rows |-> NoName] /\ file = cell
    /\ call = "idle" /\ calls = 0
    /\ filter = All
    /\ currentRow = Headers + 1
    /\ rels = <<>> /\ begun = FALSE /\ left = {}
    /\ sending = <<>> /\ handed = <<>> /\ updates = <<>>
    /\ made = 0
    /\ files = {} /\ written = {} /\ unnamed = {}
    /\ saved = FALSE /\ crooked = {}
-----------------------------------------------------------------------------
(* ParseRelationshipsSheet *)

BeginCall(m) ==
    /\ call = "idle"
    /\ calls < MaxCalls
    /\ calls' = calls + 1
    /\ call' = "parse"
    /\ StartParse(Len(RowModel))
    /\ file' = cell
    /\ filter' = m
    /\ currentRow' = Headers + 1
    /\ rels' = <<>> /\ begun' = FALSE /\ left' = {}
    /\ sending' = <<>> /\ handed' = <<>> /\ updates' = <<>>
    /\ written' = {} /\ unnamed' = {}
    /\ saved' = FALSE
    /\ UNCHANGED <<cell, crooked, made, files>>

ParserRuns ==
    /\ ParserStep
    /\ UNCHANGED <<tabVars, workVars, call, calls>>

\* Mutant: the number is not counted up.
TakeRelationshipStill ==
    /\ TakeRow
    /\ LET r == Head(ch)
       IN  rels' = Append(rels, [row |-> r, index |-> currentRow,
                                 name |-> file[r]])
    /\ UNCHANGED <<tabVars, begun, left, sending, handed, updates, made,
                   files, written, unnamed, call, calls>>

\* A row of another model is passed over, and not counted.
TakeRelationship ==
    /\ TakeRow
    /\ LET r == Head(ch)
           wanted == filter \in {All, RowModel[r]}
           rel == [row |-> r, index |-> currentRow, name |-> file[r]]
       IN  /\ rels' = IF wanted THEN Append(rels, rel) ELSE rels
           /\ currentRow' = IF wanted THEN currentRow + 1 ELSE currentRow
           /\ crooked' = IF wanted THEN crooked ELSE crooked \cup {"filter"}
    /\ UNCHANGED <<cell, file, filter, saved, begun, left, sending, handed,
                   updates, made, files, written, unnamed, call, calls>>

OtherwiseTaken ==
    /\ TakeError \/ TakeDone
    /\ UNCHANGED <<tabVars, workVars, call, calls>>

\* The parse has returned and the models have been generated.
ParseReturn ==
    /\ call = "parse"
    /\ caller = "done"
    /\ call' = "process"
    /\ crooked' = IF malformed = {} THEN crooked
                                    ELSE crooked \cup {"malformed"}
    /\ UNCHANGED <<parseVars, cell, file, filter, currentRow, saved, workVars,
                   calls>>
-----------------------------------------------------------------------------
(* ProcessRelationships, for the first of rels *)

\* The versions a row is meant for: the model may have no directory.
ListVersions(dirs) ==
    /\ call = "process"
    /\ rels # <<>> /\ ~begun
    /\ begun' = TRUE
    /\ LET r == Head(rels).row
       IN  left' = IF r \in Withheld THEN {}
                   ELSE IF RowVersion[r] = Star THEN dirs ELSE {RowVersion[r]}
    /\ UNCHANGED <<parseVars, tabVars, rels, sending, handed, updates, made,
                   files, written, unnamed, call, calls>>

\* A row without a file name is given one.
Named(rel) == IF rel.name = NoName THEN [rel EXCEPT !.name = made + 1] ELSE rel

Processing(v) ==
    /\ call = "process"
    /\ begun
    /\ v \in left
    /\ sending = <<>>
    /\ left' = left \ {v}
    /\ rels' = <<Named(Head(rels))>> \o Tail(rels)
    /\ made' = IF Head(rels).name = NoName THEN made + 1 ELSE made
    /\ UNCHANGED <<parseVars, tabVars, begun, handed, updates, call, calls>>

\* Mutant: the row is sent under the name it had when the loop began.
WriteVersionUnnamed(v) ==
    /\ Processing(v)
    /\ LET rel == Named(Head(rels))
           f == [model |-> RowModel[rel.row], version |-> v, name |-> rel.name,
                 row |-> rel.row]
       IN  /\ files' = files \cup {f}
           /\ written' = written \cup {f}
           /\ sending' = IF Head(rels).name = NoName THEN <<Head(rels)>> ELSE <<>>
    /\ UNCHANGED unnamed

\* The file of a version is written, or found to be as it should; a row that
\* was named for it will be sent.
WriteVersion(v) ==
    /\ Processing(v)
    /\ LET rel == Named(Head(rels))
           f == [model |-> RowModel[rel.row], version |-> v, name |-> rel.name,
                 row |-> rel.row]
       IN  /\ files' = files \cup {f}
           /\ written' = written \cup {f}
           /\ sending' = IF Head(rels).name = NoName THEN <<rel>> ELSE <<>>
    /\ UNCHANGED unnamed

\* ConstructRelationshipPath or HandleRelationshipFile fails: a row that was
\* just named is not sent, and keeps its name for the versions that follow.
FailVersion(v) ==
    /\ Processing(v)
    /\ unnamed' = IF Head(rels).name = NoName
                  THEN unnamed \cup {Head(rels).row} ELSE unnamed
    /\ UNCHANGED <<sending, files, written>>

\* spreadsheetUpdateChan <- relationship, when the collector receives.
SendUpdate ==
    /\ sending # <<>>
    /\ handed = <<>>
    /\ handed' = sending
    /\ sending' = <<>>
    /\ UNCHANGED <<parseVars, tabVars, rels, begun, left, updates, made, files,
                   written, unnamed, call, calls>>

NextRow ==
    /\ call = "process"
    /\ begun /\ left = {} /\ sending = <<>>
    /\ rels' = Tail(rels)
    /\ begun' = FALSE
    /\ UNCHANGED <<parseVars, tabVars, left, sending, handed, updates, made,
                   files, written, unnamed, call, calls>>

\* Mutant: the collector starts when everything has been processed.
CollectLate ==
    /\ rels = <<>>
    /\ handed # <<>>
    /\ updates' = updates \o handed
    /\ handed' = <<>>
    /\ UNCHANGED <<parseVars, tabVars, rels, begun, left, sending, made, files,
                   written, unnamed, call, calls>>

\* The collector appends to UpdatedRelationships.
Collect ==
    /\ handed # <<>>
    /\ updates' = updates \o handed
    /\ handed' = <<>>
    /\ UNCHANGED <<parseVars, tabVars, rels, begun, left, sending, made, files,
                   written, unnamed, call, calls>>

\* The column with the names at the rows that have their numbers.
Updated == [r \in Rows |->
    IF \E u \in ToSet(updates) : u.index = r + Headers
    THEN (CHOOSE u \in ToSet(updates) : u.index = r + Headers).name
    ELSE cell[r]]

\* The collector has ended; the names are written in one batch, or not: a
\* call of Google Sheets, without a time limit.
UpdateRelationshipSheet ==
    /\ call = "process"
    /\ rels = <<>>
    /\ handed = <<>>
    /\ call' = "idle"
    /\ \/ cell' = Updated /\ saved' = TRUE
       \/ updates # <<>> /\ UNCHANGED <<cell, saved>>
    /\ UNCHANGED <<parseVars, file, filter, currentRow, crooked, workVars,
                   calls>>

\* The process dies: the files and the sheet stay.
Crash ==
    /\ call # "idle"
    /\ call' = "idle"
    /\ parser' = "off" /\ caller' = "off"
    /\ rels' = <<>> /\ begun' = FALSE /\ left' = {}
    /\ sending' = <<>> /\ handed' = <<>> /\ updates' = <<>>
    /\ UNCHANGED <<size, next, cancelled, ch, errs, taken, malformed, broken,
                   tabVars, made, files, written, unnamed, calls>>
-----------------------------------------------------------------------------
Process ==
    \/ \E dirs \in SUBSET Versions : ListVersions(dirs)
    \/ \E v \in Versions : WriteVersion(v) \/ FailVersion(v)
    \/ SendUpdate
    \/ NextRow

CallerRuns == TakeRelationship \/ OtherwiseTaken \/ ParseReturn

Next ==
    \/ \E m \in Models \cup {All} : BeginCall(m)
    \/ ParserRuns
    \/ CallerRuns
    \/ Process
    \/ UpdateRelationshipSheet
    \/ Collect
    \/ Crash

Spec == Init /\ [][Next]_vars

\* The goroutines of a call run, and Google Sheets answers: this is assumed
\* of the environment.
FairSpec ==
    /\ Spec
    /\ WF_vars(UpdateRelationshipSheet)
    /\ WF_vars(ParserRuns)
    /\ WF_vars(CallerRuns)
    /\ WF_vars(Process)
    /\ WF_vars(Collect)
-----------------------------------------------------------------------------
TypeOK ==
    /\ ParseTypeOK
    /\ cell \in [Rows -> Nat] /\ file \in [Rows -> Nat]
    /\ call \in {"idle", "parse", "process"}
    /\ calls \in 0 .. MaxCalls
    /\ filter \in Models \cup {All}
    /\ currentRow \in Headers + 1 .. Headers + 1 + Len(RowModel)
    /\ LET Rel == [row : Rows, index : {r + Headers : r \in Rows}, name : Nat]
       IN  /\ rels \in Seq(Rel)
           /\ sending \in Seq(Rel) /\ Len(sending) <= 1
           /\ handed \in Seq(Rel) /\ Len(handed) <= 1
           /\ updates \in Seq(Rel)
    /\ begun \in BOOLEAN
    /\ left \in SUBSET Versions
    /\ made \in Nat
    /\ files \in SUBSET [model : Models, version : Versions, name : 1 .. made,
                         row : Rows]
    /\ written \in SUBSET files
    /\ unnamed \in SUBSET Rows
    /\ saved \in BOOLEAN
    /\ crooked \in SUBSET {"filter", "malformed"}

(***************************************************************************)
(* A relationship never overwrites the file of another one, in whatever    *)
(* calls they are written and wherever those fail or crash, as long as     *)
(* every row was counted: no row was malformed or filtered out by model.   *)
(***************************************************************************)
FilesDistinct ==
    crooked = {} =>
        \A f, g \in files :
            /\ f.model = g.model /\ f.version = g.version /\ f.name = g.name
            => f.row = g.row

(***************************************************************************)
(* When a call has ended and its update of the tab succeeded, each row for *)
(* which it wrote a file carries the name of that file, so that the next   *)
(* call writes the same file again, unless the first file of the row       *)
(* failed or rows were not counted.                                        *)
(***************************************************************************)
NamesRecorded ==
    crooked = {} /\ call = "idle" /\ saved =>
        \A f \in written : cell[f.row] = f.name \/ f.row \in unnamed

(***************************************************************************)
(* A call ends: neither the parse nor the collector blocks it.             *)
(***************************************************************************)
CallReturns == call \in {"parse", "process"} ~> call = "idle"

(***************************************************************************)
(* Relationships are written to all versions "with the filenames updated   *)
(* in the sheet" (registry/model.go), also when a call is for one model.   *)
(***************************************************************************)
FilenamesUpdated ==
    "malformed" \notin crooked /\ call = "idle" /\ saved =>
        \A f \in written : cell[f.row] = f.name \/ f.row \in unnamed
=============================================================================
