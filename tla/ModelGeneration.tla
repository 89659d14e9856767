-------------------------- MODULE ModelGeneration --------------------------
(***************************************************************************)
(* registry.InvokeGenerationFromSheetWithOptions: models of a spreadsheet  *)
(* are generated at most Permits at a time.  Each model has a worker that  *)
(* waits for its generation or for the per-model timeout, whichever comes  *)
(* first, and a generation goroutine that nothing stops: it goes on after  *)
(* a timeout.  Generations send what they made to one goroutine that       *)
(* updates the spreadsheet, over an unbuffered channel that the call       *)
(* closes when every worker is done.                                       *)
(*                                                                         *)
(* A restart of the process loses everything but the files.                *)
(***************************************************************************)
EXTENDS Naturals, FiniteSets

CONSTANTS
    Models,       \* the model rows of the sheet
    Core,         \* those whose registrant is meshery
    Hub,          \* those whose registrant is artifacthub
    UrlLengths,   \* how many "/"-separated parts a core model's URL may have
    Comps,        \* the components of a package; one with none fails in Fetch
    NoOne,        \* no model
    Permits,      \* weight of the semaphore
    RateLimit,    \* artifactHubRateLimit
    MaxCalls      \* bound: calls of the function, each in a fresh process

ASSUME GenerationAssumption ==
    /\ IsFiniteSet(Models)
    /\ Core \subseteq Models
    /\ Hub \subseteq Models \ Core
    /\ UrlLengths \subseteq Nat
    /\ Comps # {}
    /\ NoOne \notin Models
    /\ Permits \in Nat \ {0}
    /\ RateLimit \in Nat \ {0}
    /\ MaxCalls \in Nat

VARIABLES
    main,        \* where the call is
    latestOnly,  \* opts.LatestVersionOnly
    selected,    \* modelsToProcess
    todo,        \* those the loop has not reached
    permits,     \* free permits of weightedSem
    wg,          \* the wait group's counter
    count,       \* the progress tracker
    worker,      \* where the worker of each model is
    verdict,     \* history: what the worker of a model counted it as
    timedOut,    \* history: the models that timed out
    gen,         \* where the generation of each model is
    want,        \* components the generation has not written yet
    kept,        \* components it has written
    lastFailed,  \* the last component of a core model was not written
    outcome,     \* what the generation will report
    done,        \* the one-place channel it reports on
    tracker,     \* modelToCompGenerateTracker: models with an entry
    chanOpen,    \* spreadsheeetChan is open
    updater,     \* where VerifyandUpdateSpreadsheet is
    row,         \* the model whose data it handles
    rows,        \* history: the models whose data it has handled
    holder,      \* the generation that holds artifactHubMutex
    hubCount,    \* artifactHubCount
    sincePause,  \* history: Artifact Hub calls let through since a pause
    disk,        \* each model's directory for the version upstream offers
    calls,       \* calls made so far
    panicked     \* a goroutine panicked, and the process with it

callVars == <<main, latestOnly, selected, todo, chanOpen>>
workVars == <<permits, wg, count, worker, verdict, timedOut>>
genVars == <<gen, want, kept, lastFailed, outcome>>
sheetVars == <<updater, row, rows>>
hubVars == <<holder, hubCount, sincePause>>
vars == <<callVars, workVars, genVars, done, tracker, sheetVars, hubVars,
          disk, calls, panicked>>

Verdicts == {"success", "failure", "skipped"}
Zero == [result \in Verdicts \cup {"processed"} |-> 0]
Fresh == [model |-> FALSE, comps |-> {}]
-----------------------------------------------------------------------------
Init ==
    /\ main = "start" /\ latestOnly = FALSE
    /\ selected = {} /\ todo = {} /\ chanOpen = TRUE
    /\ permits = Permits /\ wg = 0 /\ count = Zero
    /\ worker = [m \in Models |-> "off"]
    /\ verdict = [m \in Models |-> "none"]
    /\ timedOut = {}
    /\ gen = [m \in Models |-> "off"]
    /\ want = [m \in Models |-> {}]
    /\ kept = [m \in Models |-> {}]
    /\ lastFailed = [m \in Models |-> FALSE]
    /\ outcome = [m \in Models |-> "none"]
    /\ done = [m \in Models |-> "none"]
    /\ tracker = {}
    /\ updater = "off" /\ row = NoOne /\ rows = {}
    /\ holder = NoOne /\ hubCount = 0 /\ sincePause = 0
    /\ disk = [m \in Models |-> Fresh]
    /\ calls = 1
    /\ panicked = FALSE

\* The process dies, or ends, and is started again with nothing but the
\* files; upstream may meanwhile have released a version for which there is
\* no directory yet.
Restart ==
    /\ calls < MaxCalls
    /\ calls' = calls + 1
    /\ \E released \in SUBSET Models :
         disk' = [m \in Models |-> IF m \in released THEN Fresh ELSE disk[m]]
    /\ main' = "start" /\ latestOnly' = FALSE
    /\ selected' = {} /\ todo' = {} /\ chanOpen' = TRUE
    /\ permits' = Permits /\ wg' = 0 /\ count' = Zero
    /\ worker' = [m \in Models |-> "off"]
    /\ verdict' = [m \in Models |-> "none"]
    /\ timedOut' = {}
    /\ gen' = [m \in Models |-> "off"]
    /\ want' = [m \in Models |-> {}]
    /\ kept' = [m \in Models |-> {}]
    /\ lastFailed' = [m \in Models |-> FALSE]
    /\ outcome' = [m \in Models |-> "none"]
    /\ done' = [m \in Models |-> "none"]
    /\ tracker' = {}
    /\ updater' = "off" /\ row' = NoOne /\ rows' = {}
    /\ holder' = NoOne /\ hubCount' = 0 /\ sincePause' = 0
    /\ panicked' = FALSE
-----------------------------------------------------------------------------
(* The call *)

\* The sheets are parsed; the rows to process depend on the modelName given.
BeginCall(S) ==
    /\ main = "start"
    /\ main' = "loop"
    /\ selected' = S
    /\ todo' = S
    /\ latestOnly' \in BOOLEAN
    /\ updater' = "map"
    /\ UNCHANGED <<chanOpen, workVars, genVars, done, tracker, row, rows,
                   hubVars, disk, calls, panicked>>

\* One of the three sheets cannot be parsed.
ParseFails ==
    /\ main = "start"
    /\ main' = "refused"
    /\ UNCHANGED <<latestOnly, selected, todo, chanOpen, workVars, genVars,
                   done, tracker, sheetVars, hubVars, disk, calls, panicked>>

\* The loop takes a permit for the next model and starts its goroutines.
Dispatch(m) ==
    /\ main = "loop"
    /\ m \in todo
    /\ permits > 0
    /\ permits' = permits - 1
    /\ wg' = wg + 1
    /\ todo' = todo \ {m}
    /\ worker' = [worker EXCEPT ![m] = "waiting"]
    /\ gen' = [gen EXCEPT ![m] = "begin"]
    /\ UNCHANGED <<main, latestOnly, selected, chanOpen, count, verdict,
                   timedOut, want, kept, lastFailed, outcome, done, tracker,
                   sheetVars, hubVars, disk, calls, panicked>>

\* Mutant: the channel is closed when the loop is over, before wg.Wait.
CloseEarly ==
    /\ main = "loop"
    /\ todo = {}
    /\ main' = "relationships"
    /\ chanOpen' = FALSE
    /\ UNCHANGED <<latestOnly, selected, todo, workVars, genVars, done,
                   tracker, sheetVars, hubVars, disk, calls, panicked>>

\* The loop is over; wg.Wait returns and the channel is closed.
CloseSheet ==
    /\ main = "loop"
    /\ todo = {}
    /\ wg = 0
    /\ main' = "relationships"
    /\ chanOpen' = FALSE
    /\ UNCHANGED <<latestOnly, selected, todo, workVars, genVars, done,
                   tracker, sheetVars, hubVars, disk, calls, panicked>>

\* ProcessRelationships and UpdateRelationshipSheet, a call of Google Sheets:
\* see RelationshipSheet.
Relationships ==
    /\ main = "relationships"
    /\ main' = "await"
    /\ UNCHANGED <<latestOnly, selected, todo, chanOpen, workVars, genVars,
                   done, tracker, sheetVars, hubVars, disk, calls, panicked>>

\* wgForSpreadsheetUpdate.Wait, and the deferred summary.
Return ==
    /\ main = "await"
    /\ updater = "done"
    /\ main' = "returned"
    /\ UNCHANGED <<latestOnly, selected, todo, chanOpen, workVars, genVars,
                   done, tracker, sheetVars, hubVars, disk, calls, panicked>>
-----------------------------------------------------------------------------
(* The worker of a model *)

Count(m, result) ==
    /\ worker[m] = "waiting"
    /\ worker' = [worker EXCEPT ![m] = "counted"]
    /\ verdict' = [verdict EXCEPT ![m] = result]
    /\ count' = [count EXCEPT ![result] = @ + 1]
    /\ UNCHANGED <<callVars, permits, wg, genVars, tracker, sheetVars,
                   hubVars, disk, calls, panicked>>

\* case genErr := <-done
Report(m) ==
    /\ done[m] # "none"
    /\ done' = [done EXCEPT ![m] = "none"]
    /\ Count(m, done[m])
    /\ UNCHANGED timedOut

\* Mutant: the context has no deadline.
TimeoutNever(m) == FALSE

\* Mutant: a timeout is logged and not counted.
TimeoutUncounted(m) ==
    /\ worker[m] = "waiting"
    /\ worker' = [worker EXCEPT ![m] = "counted"]
    /\ timedOut' = timedOut \cup {m}
    /\ UNCHANGED <<callVars, permits, wg, count, verdict, genVars, done,
                   tracker, sheetVars, hubVars, disk, calls, panicked>>

\* case <-modelCtx.Done(): select may choose it although done is ready too.
Timeout(m) ==
    /\ Count(m, "failure")
    /\ timedOut' = timedOut \cup {m}
    /\ UNCHANGED done

\* The deferred wg.Done.
WorkerDone(m) ==
    /\ worker[m] = "counted"
    /\ worker' = [worker EXCEPT ![m] = "undone"]
    /\ wg' = wg - 1
    /\ UNCHANGED <<callVars, permits, count, verdict, timedOut, genVars, done,
                   tracker, sheetVars, hubVars, disk, calls, panicked>>

\* The deferred Release and IncrementProcessed.
WorkerRelease(m) ==
    /\ worker[m] = "undone"
    /\ worker' = [worker EXCEPT ![m] = "ended"]
    /\ permits' = permits + 1
    /\ count' = [count EXCEPT !["processed"] = @ + 1]
    /\ UNCHANGED <<callVars, wg, verdict, timedOut, genVars, done, tracker,
                   sheetVars, hubVars, disk, calls, panicked>>
-----------------------------------------------------------------------------
(* The generation of a model *)

\* Generation m is about to put what it reports into done.
Finish(m, result) ==
    /\ gen' = [gen EXCEPT ![m] = "put"]
    /\ outcome' = [outcome EXCEPT ![m] = result]

\* GenerateDefsForCoreRegistrant: the version is parts[8] of the URL, the
\* length is checked against 8, so a URL of eight parts panics; then the
\* directories and model.json.  The deferred tracker entry is made on every
\* return but the first.
CoreModel(m) ==
    /\ m \in Core
    /\ gen[m] = "begin"
    /\ \E parts \in UrlLengths :
         \/ /\ parts < 8
            /\ Finish(m, "failure")
            /\ UNCHANGED <<want, tracker, disk, panicked>>
         \/ /\ parts = 8
            /\ gen' = [gen EXCEPT ![m] = "index"]
            /\ panicked' = TRUE
            /\ UNCHANGED <<outcome, want, tracker, disk>>
         \/ /\ parts > 8
            /\ Finish(m, "failure")
            /\ tracker' = tracker \cup {m}
            /\ UNCHANGED <<want, disk, panicked>>
         \/ /\ parts > 8
            /\ gen' = [gen EXCEPT ![m] = "core"]
            /\ disk' = [disk EXCEPT ![m].model = TRUE]
            /\ want' \in {[want EXCEPT ![m] = C] : C \in {{}, Comps}}
            /\ UNCHANGED <<outcome, tracker, panicked>>
    /\ UNCHANGED <<callVars, workVars, kept, lastFailed, done, sheetVars,
                   hubVars, calls>>

\* A component of the sheet is converted and written; an error is logged.
CoreComponent(m, c) ==
    /\ gen[m] = "core"
    /\ c \in want[m]
    /\ want' = [want EXCEPT ![m] = @ \ {c}]
    /\ \/ /\ disk' = [disk EXCEPT ![m].comps = @ \cup {c}]
          /\ kept' = [kept EXCEPT ![m] = @ \cup {c}]
          /\ lastFailed' = [lastFailed EXCEPT ![m] = FALSE]
       \/ /\ lastFailed' = [lastFailed EXCEPT ![m] = TRUE]
          /\ UNCHANGED <<disk, kept>>
    /\ UNCHANGED <<callVars, workVars, gen, outcome, done, tracker, sheetVars,
                   hubVars, calls, panicked>>

CoreEnd(m) ==
    /\ gen[m] = "core"
    /\ want[m] = {}
    /\ tracker' = tracker \cup {m}
    /\ Finish(m, IF kept[m] = {} \/ lastFailed[m] THEN "failure" ELSE "success")
    /\ UNCHANGED <<callVars, workVars, want, kept, lastFailed, done, sheetVars,
                   hubVars, disk, calls, panicked>>

\* generators.NewGenerator
NewGenerator(m) ==
    /\ m \notin Core
    /\ gen[m] = "begin"
    /\ \/ Finish(m, "failure")
       \/ /\ gen' = [gen EXCEPT ![m] = IF m \in Hub THEN "limit" ELSE "fetch"]
          /\ UNCHANGED outcome
    /\ UNCHANGED <<callVars, workVars, want, kept, lastFailed, done, tracker,
                   sheetVars, hubVars, disk, calls, panicked>>

\* The rate limit is reached: a pause is due before the next call.
LimitReached == hubCount > 0 /\ hubCount % RateLimit = 0

\* Mutant: the count is read and updated without the mutex.
LimitUnlocked(m) ==
    /\ gen[m] = "limit"
    /\ gen' = [gen EXCEPT ![m] = IF LimitReached THEN "pause" ELSE "pass"]
    /\ UNCHANGED <<callVars, workVars, want, kept, lastFailed, outcome, done,
                   tracker, sheetVars, hubVars, disk, calls, panicked>>

\* RateLimitArtifactHub: the mutex is held from the check to the update of
\* the count, through the pause.
LimitLock(m) ==
    /\ gen[m] = "limit"
    /\ holder = NoOne
    /\ holder' = m
    /\ gen' = [gen EXCEPT ![m] = IF LimitReached THEN "pause" ELSE "pass"]
    /\ UNCHANGED <<callVars, workVars, want, kept, lastFailed, outcome, done,
                   tracker, sheetVars, hubCount, sincePause, disk, calls,
                   panicked>>

\* time.Sleep is over, or was not called; the count goes up.
LimitPass(m) ==
    /\ gen[m] \in {"pause", "pass"}
    /\ sincePause' = IF gen[m] = "pause" THEN 1 ELSE sincePause + 1
    /\ hubCount' = hubCount + 1
    /\ holder' = NoOne
    /\ gen' = [gen EXCEPT ![m] = "fetch"]
    /\ UNCHANGED <<callVars, workVars, want, kept, lastFailed, outcome, done,
                   tracker, sheetVars, disk, calls, panicked>>

\* GetPackage and GenerateComponents: they may fail, find nothing, or never
\* return.
Fetch(m) ==
    /\ gen[m] = "fetch"
    /\ \/ Finish(m, "failure") /\ UNCHANGED want
       \/ /\ gen' = [gen EXCEPT ![m] = "model"]
          /\ want' = [want EXCEPT ![m] = Comps]
          /\ UNCHANGED outcome
    /\ UNCHANGED <<callVars, workVars, kept, lastFailed, done, tracker,
                   sheetVars, hubVars, disk, calls, panicked>>

\* The versioned directories and model.json.  A definition that is there and
\* the same as the new one is left alone, and under LatestVersionOnly its
\* model is skipped; a new one, or one that differs or cannot be read, is
\* written, and the generation goes on.
WriteModel(m) ==
    /\ gen[m] = "model"
    /\ \/ Finish(m, "failure") /\ UNCHANGED disk
       \/ /\ disk[m].model /\ latestOnly
          /\ Finish(m, "skipped")
          /\ UNCHANGED disk
       \/ /\ disk' = [disk EXCEPT ![m].model = TRUE]
          /\ gen' = [gen EXCEPT ![m] = "comps"]
          /\ UNCHANGED outcome
    /\ UNCHANGED <<callVars, workVars, want, kept, lastFailed, done, tracker,
                   sheetVars, hubVars, calls, panicked>>

\* Mutant: a component that is not written is logged and passed over.
WriteComponentLax(m, c) ==
    /\ gen[m] = "comps"
    /\ c \in want[m]
    /\ want' = [want EXCEPT ![m] = @ \ {c}]
    /\ \/ disk' = [disk EXCEPT ![m].comps = @ \cup {c}]
       \/ UNCHANGED disk
    /\ UNCHANGED <<callVars, workVars, gen, kept, lastFailed, outcome, done,
                   tracker, sheetVars, hubVars, calls, panicked>>

WriteComponent(m, c) ==
    /\ gen[m] = "comps"
    /\ c \in want[m]
    /\ \/ /\ disk' = [disk EXCEPT ![m].comps = @ \cup {c}]
          /\ kept' = [kept EXCEPT ![m] = @ \cup {c}]
          /\ want' = [want EXCEPT ![m] = @ \ {c}]
          /\ UNCHANGED <<gen, outcome>>
       \/ Finish(m, "failure") /\ UNCHANGED <<disk, kept, want>>
    /\ UNCHANGED <<callVars, workVars, lastFailed, done, tracker, sheetVars,
                   hubVars, calls, panicked>>

\* spreadsheeetChan <- SpreadsheetData: it meets the spreadsheet goroutine,
\* or finds the channel closed.
Send(m) ==
    /\ gen[m] = "comps"
    /\ want[m] = {}
    /\ \/ /\ chanOpen /\ updater = "recv"
          /\ updater' = "row" /\ row' = m
          /\ gen' = [gen EXCEPT ![m] = "sent"]
          /\ UNCHANGED panicked
       \/ /\ ~chanOpen
          /\ panicked' = TRUE
          /\ UNCHANGED <<gen, updater, row>>
    /\ UNCHANGED <<callVars, workVars, want, kept, lastFailed, outcome, done,
                   tracker, rows, hubVars, disk, calls>>

\* modelToCompGenerateTracker.Set
Track(m) ==
    /\ gen[m] = "sent"
    /\ tracker' = tracker \cup {m}
    /\ Finish(m, "success")
    /\ UNCHANGED <<callVars, workVars, want, kept, lastFailed, done, sheetVars,
                   hubVars, disk, calls, panicked>>

\* Mutant: done has no buffer, so a worker must be there to receive.
PutUnbuffered(m) ==
    /\ gen[m] = "put"
    /\ worker[m] = "waiting"
    /\ done' = [done EXCEPT ![m] = outcome[m]]
    /\ gen' = [gen EXCEPT ![m] = "ended"]
    /\ UNCHANGED <<callVars, workVars, want, kept, lastFailed, outcome,
                   tracker, sheetVars, hubVars, disk, calls, panicked>>

\* Mutant: the generation calls wg.Done too.
PutAndDone(m) ==
    /\ gen[m] = "put"
    /\ done[m] = "none"
    /\ done' = [done EXCEPT ![m] = outcome[m]]
    /\ gen' = [gen EXCEPT ![m] = "ended"]
    /\ wg' = wg - 1
    /\ UNCHANGED <<callVars, permits, count, worker, verdict, timedOut, want,
                   kept, lastFailed, outcome, tracker, sheetVars, hubVars,
                   disk, calls, panicked>>

\* done <- err, into the one place of the channel.
Put(m) ==
    /\ gen[m] = "put"
    /\ done[m] = "none"
    /\ done' = [done EXCEPT ![m] = outcome[m]]
    /\ gen' = [gen EXCEPT ![m] = "ended"]
    /\ UNCHANGED <<callVars, workVars, want, kept, lastFailed, outcome,
                   tracker, sheetVars, hubVars, disk, calls, panicked>>
-----------------------------------------------------------------------------
(* The spreadsheet goroutine; what it does with a row is in ComponentSheet. *)

BuildMap ==
    /\ updater = "map"
    /\ updater' = "recv"
    /\ UNCHANGED <<callVars, workVars, genVars, done, tracker, row, rows,
                   hubVars, disk, calls, panicked>>

\* A row that fills a batch has it appended: a call of Google Sheets.
HandleRow ==
    /\ updater = "row"
    /\ updater' = "recv"
    /\ rows' = rows \cup {row}
    /\ row' = NoOne
    /\ UNCHANGED <<callVars, workVars, genVars, done, tracker, hubVars, disk,
                   calls, panicked>>

\* The channel is closed: the rest is appended and the wait group told.
UpdaterEnd ==
    /\ updater = "recv"
    /\ ~chanOpen
    /\ updater' = "done"
    /\ UNCHANGED <<callVars, workVars, genVars, done, tracker, row, rows,
                   hubVars, disk, calls, panicked>>
-----------------------------------------------------------------------------
MainStep ==
    \/ \E S \in SUBSET Models : BeginCall(S)
    \/ ParseFails
    \/ \E m \in Models : Dispatch(m)
    \/ CloseSheet
    \/ Relationships
    \/ Return

WorkerStep(m) ==
    \/ Report(m)
    \/ Timeout(m)
    \/ WorkerDone(m)
    \/ WorkerRelease(m)

\* What a generation does on its own; Fetch depends on the network.
GenStep(m) ==
    \/ CoreModel(m)
    \/ \E c \in Comps : CoreComponent(m, c) \/ WriteComponent(m, c)
    \/ CoreEnd(m)
    \/ NewGenerator(m)
    \/ LimitLock(m)
    \/ LimitPass(m)
    \/ WriteModel(m)
    \/ Send(m)
    \/ Track(m)
    \/ Put(m)

UpdaterStep == BuildMap \/ HandleRow \/ UpdaterEnd

Next ==
    \/ ~panicked /\ MainStep
    \/ ~panicked /\ \E m \in Models : WorkerStep(m) \/ GenStep(m) \/ Fetch(m)
    \/ ~panicked /\ UpdaterStep
    \/ Restart

Spec == Init /\ [][Next]_vars

\* The steps that wait for Google Sheets, and those of the call that do not.
SheetsCall == HandleRow \/ UpdaterEnd
MainRuns == main # "relationships" /\ MainStep

(***************************************************************************)
(* Runnable goroutines run and timers fire.  The semaphore and the mutex   *)
(* serve their waiters in turn, hence strong fairness for generations.     *)
(* Nothing says that Fetch ends, that anybody calls or that anything       *)
(* restarts.                                                               *)
(***************************************************************************)
Fairness ==
    /\ WF_vars(~panicked /\ MainRuns)
    /\ \A m \in Models : WF_vars(~panicked /\ WorkerStep(m))
    /\ \A m \in Models : SF_vars(~panicked /\ GenStep(m))
    /\ WF_vars(~panicked /\ BuildMap)

(***************************************************************************)
(* An assumption on the environment, which nothing in the code enforces:   *)
(* Google Sheets answers.  The appends and the batch update run with       *)
(* context.Background() and no time limit, and the call waits for them.    *)
(***************************************************************************)
SheetsAnswer ==
    /\ WF_vars(~panicked /\ Relationships)
    /\ WF_vars(~panicked /\ SheetsCall)

FairSpec == Spec /\ Fairness /\ SheetsAnswer
-----------------------------------------------------------------------------
CallTypes ==
    /\ main \in {"start", "refused", "loop", "relationships", "await",
                 "returned"}
    /\ latestOnly \in BOOLEAN
    /\ selected \in SUBSET Models
    /\ todo \in SUBSET selected
    /\ chanOpen \in BOOLEAN
    /\ updater \in {"off", "map", "recv", "row", "done"}
    /\ row \in Models \cup {NoOne}
    /\ rows \in SUBSET Models
    /\ calls \in Nat
    /\ panicked \in BOOLEAN

WorkTypes ==
    /\ permits \in 0 .. Permits
    /\ wg \in Nat
    /\ count \in [Verdicts \cup {"processed"} -> Nat]
    /\ worker \in [Models -> {"off", "waiting", "counted", "undone", "ended"}]
    /\ verdict \in [Models -> Verdicts \cup {"none"}]
    /\ timedOut \in SUBSET Models

GenTypes ==
    /\ gen \in [Models -> {"off", "begin", "core", "limit", "pause", "pass",
                           "fetch", "model", "comps", "sent", "put", "ended",
                           "index"}]
    /\ want \in [Models -> SUBSET Comps]
    /\ kept \in [Models -> SUBSET Comps]
    /\ lastFailed \in [Models -> BOOLEAN]
    /\ outcome \in [Models -> Verdicts \cup {"none"}]
    /\ done \in [Models -> Verdicts \cup {"none"}]

RestTypes ==
    /\ tracker \in SUBSET Models
    /\ holder \in Models \cup {NoOne}
    /\ hubCount \in Nat
    /\ sincePause \in Nat
    /\ disk \in [Models -> [model : BOOLEAN, comps : SUBSET Comps]]

TypeOK == CallTypes /\ WorkTypes /\ GenTypes /\ RestTypes

(***************************************************************************)
(* The only way a generation finds the channel closed is that its worker   *)
(* timed out before: without a timeout, wg.Wait covers every send.  The    *)
(* other panic there is comes of a URL with exactly eight parts.           *)
(***************************************************************************)
PanicOnlyAfterTimeout ==
    panicked => timedOut # {} \/ \E m \in Core : gen[m] = "index"

(***************************************************************************)
(* The summary of InvokeGenerationFromSheetWithOptions adds up: when the   *)
(* call returns, each selected model has been counted exactly once as      *)
(* successful, failed or skipped, timed out or not.                        *)
(***************************************************************************)
SummaryAddsUp ==
    main = "returned" =>
        count["success"] + count["failure"] + count["skipped"]
            = Cardinality(selected)

(***************************************************************************)
(* When the call returns, a model counted as successful has an entry in    *)
(* the tracker; the spreadsheet goroutine has handled its data and its     *)
(* directory is complete, whatever a crashed call left there, unless it is *)
(* a core model, whose failing components are only logged.                 *)
(***************************************************************************)
SuccessIsPublished ==
    main = "returned" =>
        \A m \in selected :
            verdict[m] = "success" =>
                /\ m \in tracker
                /\ disk[m].model /\ disk[m].comps # {}
                /\ m \notin Core => m \in rows /\ disk[m].comps = Comps

(***************************************************************************)
(* RateLimitArtifactHub: between two pauses no more than RateLimit         *)
(* generations are let through to Artifact Hub, however they interleave.   *)
(***************************************************************************)
RateRespected == sincePause <= RateLimit

(***************************************************************************)
(* The call returns although a download may hang in the network for ever:  *)
(* the per-model timeout frees its permit and its place in the wait group. *)
(* It does so if Google Sheets answers (SheetsAnswer): no timeout covers   *)
(* its calls, and one that hangs keeps the call from returning.            *)
(***************************************************************************)
CallReturns ==
    main = "loop" ~> main \in {"returned", "start"} \/ panicked

(***************************************************************************)
(* A generation that got its package ends, also when its worker has left:  *)
(* done has a place for the result nobody will read.  It hands its row to  *)
(* the spreadsheet goroutine, so this too needs SheetsAnswer.              *)
(***************************************************************************)
GenerationEnds ==
    \A m \in Models :
        gen[m] \in {"model", "core"} ~> gen[m] \in {"ended", "off"} \/ panicked

(***************************************************************************)
(* The timeout is per model (registry/model.go): one that times out is     *)
(* counted as failed, and costs no other model, and not the process.       *)
(***************************************************************************)
TimeoutIsPerModel ==
    panicked /\ timedOut # {} => \E m \in Core : gen[m] = "index"
=============================================================================
