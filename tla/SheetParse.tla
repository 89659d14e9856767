----------------------------- MODULE SheetParse ----------------------------
(***************************************************************************)
(* A sheet is read by two goroutines: csv.Parse reads the rows of the      *)
(* downloaded file and sends them over a channel with one place, row       *)
(* errors over another; the caller, ParseComponentsSheet or                *)
(* ParseRelationshipsSheet, selects over the two and over the context that *)
(* Parse cancels when it returns.                                          *)
(***************************************************************************)
EXTENDS Naturals, Sequences, FiniteSets, SequencesExt

VARIABLES
    size,       \* rows of the file below the column names
    next,       \* the row the parser is at
    parser,     \* where csv.Parse is
    cancelled,  \* its context is done
    ch,         \* rows sent and not received
    errs,       \* errors sent and not received
    caller,     \* where the caller of Parse is
    taken,      \* the rows the caller received
    malformed,  \* history: rows that could not be unmarshalled
    broken      \* history: Parse returned an error

parseVars == <<size, next, parser, cancelled, ch, errs, caller, taken,
               malformed, broken>>

ParseInit ==
    /\ size = 0 /\ next = 1
    /\ parser = "off" /\ cancelled = FALSE
    /\ ch = <<>> /\ errs = <<>>
    /\ caller = "off" /\ taken = <<>>
    /\ malformed = {} /\ broken = FALSE

\* NewCSVParser, and the goroutine that calls Parse on a file of n rows.
StartParse(n) ==
    /\ caller # "reading"
    /\ size' = n /\ next' = 1
    /\ parser' = "reading" /\ cancelled' = FALSE
    /\ ch' = <<>> /\ errs' = <<>>
    /\ caller' = "reading" /\ taken' = <<>>
    /\ malformed' = {} /\ broken' = FALSE

\* Mutant: the parser goes one row too far.
ReadRowPastEnd ==
    /\ parser = "reading"
    /\ next <= size + 1
    /\ parser' = "row"
    /\ UNCHANGED <<size, next, cancelled, ch, errs, caller, taken, malformed,
                   broken>>

\* Parse reads a row: it is well-formed, or cannot be unmarshalled.
ReadRow ==
    /\ parser = "reading"
    /\ next <= size
    /\ \/ parser' = "row" /\ UNCHANGED malformed
       \/ parser' = "bad" /\ malformed' = malformed \cup {next}
    /\ UNCHANGED <<size, next, cancelled, ch, errs, caller, taken, broken>>

\* Mutant: the channel has two places.
SendRowWide ==
    /\ parser = "row"
    /\ Len(ch) < 2
    /\ ch' = Append(ch, next)
    /\ next' = next + 1
    /\ parser' = "reading"
    /\ UNCHANGED <<size, cancelled, errs, caller, taken, malformed, broken>>

\* ch <- parsedData
SendRow ==
    /\ parser = "row"
    /\ ch = <<>>
    /\ ch' = <<next>>
    /\ next' = next + 1
    /\ parser' = "reading"
    /\ UNCHANGED <<size, cancelled, errs, caller, taken, malformed, broken>>

\* errorChan <- err, and on to the next row.
SendError ==
    /\ parser = "bad"
    /\ errs = <<>>
    /\ errs' = <<next>>
    /\ next' = next + 1
    /\ parser' = "reading"
    /\ UNCHANGED <<size, cancelled, ch, caller, taken, malformed, broken>>

\* Mutant: Parse returns without cancelling its context.
ParseEndSilent ==
    /\ parser = "reading"
    /\ next > size
    /\ parser' = "ended"
    /\ UNCHANGED <<size, next, cancelled, ch, errs, caller, taken, malformed,
                   broken>>

\* End of file: Parse returns nil, and its deferred cancel runs.
ParseEnd ==
    /\ parser = "reading"
    /\ next > size
    /\ parser' = "ended"
    /\ cancelled' = TRUE
    /\ UNCHANGED <<size, next, ch, errs, caller, taken, malformed, broken>>

\* The headers or a row cannot be read: Parse returns the error.
ParseBreak ==
    /\ parser = "reading"
    /\ parser' = "broken"
    /\ broken' = TRUE
    /\ cancelled' = TRUE
    /\ UNCHANGED <<size, next, ch, errs, caller, taken, malformed>>

\* The goroutine around Parse sends the error Parse returned.
SendBroken ==
    /\ parser = "broken"
    /\ errs = <<>>
    /\ errs' = <<next>>
    /\ parser' = "ended"
    /\ UNCHANGED <<size, next, cancelled, ch, caller, taken, malformed, broken>>

\* case data := <-ch
TakeRow ==
    /\ caller = "reading"
    /\ ch # <<>>
    /\ taken' = Append(taken, Head(ch))
    /\ ch' = Tail(ch)
    /\ UNCHANGED <<size, next, parser, cancelled, errs, caller, malformed,
                   broken>>

\* case err := <-errorChan: it is logged.
TakeError ==
    /\ caller = "reading"
    /\ errs # <<>>
    /\ errs' = Tail(errs)
    /\ UNCHANGED <<size, next, parser, cancelled, ch, caller, taken, malformed,
                   broken>>

\* case <-csvReader.Context.Done(): select may choose it although a row or an
\* error is waiting too.
TakeDone ==
    /\ caller = "reading"
    /\ cancelled
    /\ caller' = "done"
    /\ UNCHANGED <<size, next, parser, cancelled, ch, errs, taken, malformed,
                   broken>>

ParserStep ==
    ReadRow \/ SendRow \/ SendError \/ ParseEnd \/ ParseBreak \/ SendBroken
-----------------------------------------------------------------------------
\* The rows the caller never saw although they were sent.
Missed == (1 .. size) \ (ToSet(taken) \cup malformed)

ParseTypeOK ==
    /\ size \in Nat /\ next \in 1 .. size + 1
    /\ parser \in {"off", "reading", "row", "bad", "broken", "ended"}
    /\ cancelled \in BOOLEAN /\ broken \in BOOLEAN
    /\ ch \in Seq(1 .. size) /\ errs \in Seq(1 .. size + 1)
    /\ caller \in {"off", "reading", "done"}
    /\ taken \in Seq(1 .. size)
    /\ malformed \in SUBSET (1 .. size)
=============================================================================
