--------------------------- MODULE ComponentSheet --------------------------
(***************************************************************************)
(* The Components tab of the spreadsheet over several calls of             *)
(* InvokeGenerationFromSheetWithOptions: each call downloads and parses    *)
(* the tab, then VerifyandUpdateSpreadsheet appends the components it is   *)
(* sent that the tab, as far as it was parsed, does not have.  The batch   *)
(* counter and the map of registrants live as long as the process.         *)
(***************************************************************************)
EXTENDS SheetParse, Integers, FiniteSetsExt, Functions

CONSTANTS
    Components,  \* registrant, model and kind of each component
    ModelOf,     \* the model of a component
    Registrant,  \* the registrant of a model
    FirstTab,    \* the tab before the first call
    CompBatch,   \* the initial compBatchSize
    ModelBatch,  \* the initial modelBatchSize
    MaxCalls     \* bound: calls of the function

Models == {ModelOf[c] : c \in Components}

ASSUME ComponentAssumption ==
    /\ IsFiniteSet(Components)
    /\ DOMAIN ModelOf = Components
    /\ Models \subseteq DOMAIN Registrant
    /\ FirstTab \in Seq(Components) /\ IsInjective(FirstTab)
    /\ CompBatch \in Nat \ {0}
    /\ ModelBatch \in Nat \ {0}
    /\ MaxCalls \in Nat

VARIABLES
    tab,         \* the rows of the Components tab, in the sheet
    file,        \* the tab as this call has downloaded it
    call,        \* where the call is
    calls,       \* calls so far
    due,         \* models whose components may still be sent in this call
    known,       \* RegistrantToModelsToComponentsMap
    entries,     \* entriesToBeAddedInCompSheet
    compBatch,   \* compBatchSize
    registrants, \* the keys of RegistrantToModelsMap
    modelBatch,  \* modelBatchSize
    handled,     \* history: components sent in this call
    dropped,     \* history: components of this call's failed appends
    unread,      \* history: components whose row some parse could not read
    overlooked,  \* history: components whose row was sent and not received
    panicked     \* appendSheet indexed an empty slice

procVars == <<compBatch, registrants, modelBatch>>
vars == <<parseVars, tab, file, call, calls, due, known, entries, procVars,
          handled, dropped, unread, overlooked, panicked>>

Init ==
    /\ ParseInit
    /\ tab = FirstTab
    /\ file = <<>>
    /\ call = "idle" /\ calls = 0
    /\ due = {}
    /\ known = {} /\ entries = <<>>
    \* The process may have met registrants of another spreadsheet before.
    /\ compBatch = CompBatch /\ registrants = {}
    /\ modelBatch \in 1 .. ModelBatch
    /\ handled = {} /\ dropped = {} /\ unread = {} /\ overlooked = {}
    /\ panicked = FALSE
-----------------------------------------------------------------------------
\* A call downloads the tab and starts to parse it.
BeginCall(ms) ==
    /\ call = "idle"
    /\ calls < MaxCalls
    /\ calls' = calls + 1
    /\ call' = "parse"
    /\ file' = tab
    /\ StartParse(Len(tab))
    /\ due' = ms
    /\ entries' = <<>>
    /\ handled' = {} /\ dropped' = {}
    /\ UNCHANGED <<tab, known, procVars, unread, overlooked, panicked>>

\* The goroutine that parses, which may outlive the parse, and the caller.
ParserRuns ==
    /\ ParserStep
    /\ UNCHANGED <<tab, file, call, calls, due, known, entries, procVars,
                   handled, dropped, unread, overlooked, panicked>>

CallerRuns ==
    /\ TakeRow \/ TakeError \/ TakeDone
    /\ UNCHANGED <<tab, file, call, calls, due, known, entries, procVars,
                   handled, dropped, unread, overlooked, panicked>>

\* Mutant: the map of an earlier call is kept as it is.
KeepMap ==
    /\ call = "parse"
    /\ caller = "done"
    /\ call' = "update"
    /\ known' = IF known = {} THEN {file[r] : r \in ToSet(taken)} ELSE known
    /\ LET bad == IF broken THEN malformed \cup Missed ELSE malformed
       IN  /\ unread' = unread \cup {file[r] : r \in bad}
           /\ overlooked' = overlooked \cup {file[r] : r \in Missed \ bad}
    /\ UNCHANGED <<parseVars, tab, file, calls, due, entries, procVars,
                   handled, dropped, panicked>>

\* The map is made anew from the rows that were parsed.
ProcessModelToComponentsMap ==
    /\ call = "parse"
    /\ caller = "done"
    /\ call' = "update"
    /\ known' = {file[r] : r \in ToSet(taken)}
    /\ LET bad == IF broken THEN malformed \cup Missed ELSE malformed
       IN  /\ unread' = unread \cup {file[r] : r \in bad}
           /\ overlooked' = overlooked \cup {file[r] : r \in Missed \ bad}
    /\ UNCHANGED <<parseVars, tab, file, calls, due, entries, procVars,
                   handled, dropped, panicked>>

\* Mutant: the list is not emptied.
FlushKeeping(es) ==
    /\ entries' = es
    /\ \/ tab' = tab \o es /\ UNCHANGED dropped
       \/ es # <<>> /\ dropped' = dropped \cup ToSet(es) /\ UNCHANGED tab

\* updateComponentsSheet: all entries are appended or, when it fails, none;
\* the list is emptied in both cases.
Flush(es) ==
    /\ entries' = <<>>
    /\ \/ tab' = tab \o es /\ UNCHANGED dropped
       \/ es # <<>> /\ dropped' = dropped \cup ToSet(es) /\ UNCHANGED tab

\* A model and its components arrive: a registrant met for the first time
\* counts against the batch of models, a component the map does not have is
\* entered in it and in the list; a list that is due is appended.
HandleData(m, cs) ==
    /\ call = "update"
    /\ m \in due
    /\ due' = due \ {m}
    /\ handled' = handled \cup cs
    /\ modelBatch' = IF Registrant[m] \in registrants THEN modelBatch
                                                      ELSE modelBatch - 1
    /\ registrants' = registrants \cup {Registrant[m]}
    \* updateModelsSheet calls appendSheet without the path it indexes.
    /\ panicked' = (modelBatch' <= 0)
    /\ known' = known \cup cs
    /\ \E new \in SetToSeqs(cs \ known) :
         /\ compBatch' = compBatch - Len(new)
         /\ IF compBatch' <= 0 /\ ~panicked'
            THEN Flush(entries \o new)
            ELSE entries' = entries \o new /\ UNCHANGED <<tab, dropped>>
    /\ UNCHANGED <<parseVars, file, call, calls, unread, overlooked>>

\* The channel is closed: what is left is appended, and the call returns.
EndCall ==
    /\ call = "update"
    /\ call' = "idle"
    /\ due' = {}
    /\ Flush(entries)
    /\ UNCHANGED <<parseVars, file, calls, known, procVars, handled, unread,
                   overlooked, panicked>>

\* The process ends, or dies, and is started again.
Restart ==
    /\ calls < MaxCalls
    /\ call' = "idle"
    /\ parser' = "off" /\ caller' = "off"
    /\ file' = <<>> /\ due' = {} /\ known' = {} /\ entries' = <<>>
    /\ compBatch' = CompBatch /\ registrants' = {} /\ modelBatch' = ModelBatch
    /\ handled' = {}
    /\ panicked' = FALSE
    /\ UNCHANGED <<size, next, cancelled, ch, errs, taken, malformed, broken,
                   tab, calls, dropped, unread, overlooked>>
-----------------------------------------------------------------------------
Next ==
    \/ ~panicked /\ \E ms \in SUBSET Models : BeginCall(ms)
    \/ ~panicked /\ (ParserRuns \/ CallerRuns)
    \/ ~panicked /\ ProcessModelToComponentsMap
    \/ ~panicked /\ \E m \in Models :
         \E cs \in SUBSET {c \in Components : ModelOf[c] = m} \ {{}} :
           HandleData(m, cs)
    \/ ~panicked /\ EndCall
    \/ Restart

Spec == Init /\ [][Next]_vars

\* The goroutines of a parse run, whatever happens afterwards.
Fairness ==
    /\ WF_vars(~panicked /\ ParserRuns)
    /\ WF_vars(~panicked /\ CallerRuns)
    /\ WF_vars(~panicked /\ ProcessModelToComponentsMap)

FairSpec == Spec /\ Fairness
-----------------------------------------------------------------------------
TypeOK ==
    /\ ParseTypeOK
    /\ tab \in Seq(Components) /\ file \in Seq(Components)
    /\ call \in {"idle", "parse", "update"}
    /\ calls \in 0 .. MaxCalls
    /\ due \in SUBSET Models
    /\ known \in SUBSET Components
    /\ entries \in Seq(Components)
    /\ compBatch \in Int /\ modelBatch \in Int
    /\ registrants \in SUBSET {Registrant[m] : m \in Models}
    /\ handled \in SUBSET Components
    /\ dropped \in SUBSET Components
    /\ unread \in SUBSET Components
    /\ overlooked \in SUBSET Components
    /\ panicked \in BOOLEAN

(***************************************************************************)
(* A parse that read the file to its end hides at most one of its rows     *)
(* from the caller: the last one sent, still in the channel when the       *)
(* caller chose the cancelled context.                                     *)
(***************************************************************************)
LosesAtMostOneRow ==
    caller = "done" /\ ~broken => Cardinality(Missed) <= 1

(***************************************************************************)
(* A component is appended to the tab a second time only if some parse did *)
(* not see its row: neither a batch that is written in the middle of a     *)
(* call, nor a failing append, nor a crash, nor a later call repeats it.   *)
(***************************************************************************)
RepeatsOnlyUnseen ==
    \A i, j \in DOMAIN tab : i # j /\ tab[i] = tab[j] =>
        tab[i] \in unread \cup overlooked

(***************************************************************************)
(* When a call has ended, every component that was sent is in the tab, or  *)
(* was in an append of this call that failed: what an earlier call failed  *)
(* to append is tried again.                                               *)
(***************************************************************************)
HandledIsAppended ==
    call = "idle" => handled \subseteq ToSet(tab) \cup dropped

(***************************************************************************)
(* VerifyandUpdateSpreadsheet "verifies if the component entry already     *)
(* exist in the spreadsheet" (registry/spreadsheet_update.go): no          *)
(* component whose row can be read gets a second one.                      *)
(***************************************************************************)
NoRepeatedRows ==
    \A i, j \in DOMAIN tab : i # j /\ tab[i] = tab[j] => tab[i] \in unread
=============================================================================
