---------------------------- MODULE Sheets_proofs ----------------------------
(***************************************************************************)
(* Theorems about the Components and the Relationships tab, for every tab, *)
(* every set of models and versions and any number of calls.               *)
(***************************************************************************)
EXTENDS Sheets, FiniteSetTheorems, TLAPS

(***************************************************************************)
(* A parse, of either tab.  Every row up to the parser's has been          *)
(* received, or could not be read, or is in the channel, which holds one;  *)
(* the context is cancelled when the parser has stopped reading, and the   *)
(* caller stops only after that.  Rows are received in the order of the    *)
(* file, and when all could be read none is passed over.                   *)
(***************************************************************************)
SeenInv ==
    \A r \in 1 .. next - 1 : r \in ToSet(taken) \cup malformed \cup ToSet(ch)

EndInv ==
    /\ parser \in {"row", "bad"} => next <= size
    /\ parser = "bad" => next \in malformed
    /\ cancelled => parser \in {"ended", "broken", "off"}
    /\ cancelled /\ ~broken => next > size
    /\ caller = "done" => cancelled

OrderInv ==
    /\ \A i, j \in DOMAIN taken : i < j => taken[i] < taken[j]
    /\ \A i \in DOMAIN taken : taken[i] < next
    /\ \A k \in DOMAIN ch : ch[k] < next
    /\ \A i \in DOMAIN taken : \A k \in DOMAIN ch : taken[i] < ch[k]

CountInv ==
    /\ Len(ch) <= 1
    /\ Len(taken) + Len(ch) <= next - 1
    /\ malformed = {} =>
         /\ Len(taken) + Len(ch) = next - 1
         /\ \A k \in DOMAIN ch : ch[k] = next - 1

ParseInv == ParseTypeOK /\ SeenInv /\ EndInv /\ OrderInv /\ CountInv

(***************************************************************************)
(* The Components tab.  While a call updates it, the map has every         *)
(* component of the tab whose row was seen, and nothing else but what is   *)
(* in the list or was in a failed append; the list repeats neither itself  *)
(* nor a row that was seen.                                                *)
(***************************************************************************)
Unseen == unread \cup overlooked

FileInv == call = "parse" => size = Len(file) /\ file = tab

HandledInv ==
    /\ call = "parse" => handled = {} /\ entries = <<>>
    /\ call = "update" =>
         /\ handled \subseteq known
         /\ known \subseteq ToSet(tab) \cup dropped \cup ToSet(entries)

RepeatInv ==
    call = "update" =>
        /\ ToSet(tab) \subseteq known \cup Unseen
        /\ ToSet(entries) \subseteq known
        /\ ToSet(entries) \cap ToSet(tab) \subseteq Unseen
        /\ IsInjective(entries)

CInv ==
    /\ ParseInv /\ TypeOK /\ FileInv /\ HandledInv /\ RepeatInv
    /\ HandledIsAppended /\ RepeatsOnlyUnseen

(***************************************************************************)
(* The Relationships tab.  Sent: the rows that were named and sent to the  *)
(* collector, wherever they are.                                           *)
(***************************************************************************)
Sent == ToSet(sending) \cup ToSet(handed) \cup ToSet(updates)
Held == ToSet(rels) \cup Sent

\* Where a call is, and what it has then.
CallInv ==
    /\ size \in {0, Len(RowModel)}
    /\ caller = "reading" => call = "parse"
    /\ call # "idle" => column = cell /\ ~saved
    /\ call = "parse" => Sent = {} /\ written = {} /\ ~begun
    /\ call = "idle" => rels = <<>> /\ sending = <<>> /\ handed = <<>>
    /\ begun \/ sending # <<>> => rels # <<>>

\* The number of a row, as long as every row was counted.
IndexInv ==
    /\ currentRow <= R!Headers + 1 + Len(taken)
    /\ crooked = {} =>
         /\ call = "parse" /\ malformed = {} =>
              currentRow = R!Headers + 1 + Len(taken)
         /\ call = "process" \/ (call = "parse" /\ malformed = {}) =>
              \A u \in Held : u.index = u.row + R!Headers

(***************************************************************************)
(* No two rows use the same name, in the tab, in memory or in the names of *)
(* files.                                                                  *)
(***************************************************************************)
Uses(n, r) ==
    \/ cell[r] = n \/ column[r] = n
    \/ \E u \in Held : u.row = r /\ u.name = n
    \/ \E f \in files : f.row = r /\ f.name = n

NameInv ==
    /\ \A r \in R!Rows : cell[r] <= made /\ column[r] <= made
    /\ \A u \in Held : u.name <= made
    /\ crooked = {} =>
         \A n \in 1 .. made : \A r, s \in R!Rows :
             Uses(n, r) /\ Uses(n, s) => r = s

(***************************************************************************)
(* The rows that are left come in the order of the tab, and none but the   *)
(* first has a name that is not in the tab.  A row is sent once, under the *)
(* name it then has, if the tab had none for it.                           *)
(***************************************************************************)
Recorded(r, n) ==
    r \in unnamed \/ cell[r] = n \/ \E u \in Sent : u.row = r /\ u.name = n

RowInv ==
    /\ \A i, j \in DOMAIN rels : i < j => rels[i].row < rels[j].row
    /\ call = "parse" => \A i \in DOMAIN rels : rels[i].row \in ToSet(taken)
    /\ \A i \in DOMAIN rels :
         IF i = 1 /\ call = "process"
         THEN \/ rels[i].name = cell[rels[i].row]
              \/ /\ cell[rels[i].row] = R!NoName /\ rels[i].name # R!NoName
                 /\ Recorded(rels[i].row, rels[i].name)
         ELSE rels[i].name = cell[rels[i].row]
    /\ call # "idle" => \A u \in Sent :
         /\ u.name # R!NoName /\ cell[u.row] = R!NoName
         /\ \A w \in Sent : w.row = u.row => w.name = u.name
         /\ \A i \in DOMAIN rels :
              u.row = rels[i].row => i = 1 /\ u.name = rels[i].name
    /\ call # "idle" => \A f \in written : Recorded(f.row, f.name)

Rel == [row : R!Rows, index : {r + R!Headers : r \in R!Rows}, name : Nat]

\* R!TypeOK, in the names of this module.
RType ==
    /\ ParseTypeOK
    /\ cell \in [R!Rows -> Nat] /\ column \in [R!Rows -> Nat]
    /\ call \in {"idle", "parse", "process"}
    /\ calls \in 0 .. MaxCalls
    /\ filter \in R!Models \cup {All}
    /\ currentRow \in R!Headers + 1 .. R!Headers + 1 + Len(RowModel)
    /\ rels \in Seq(Rel)
    /\ sending \in Seq(Rel) /\ Len(sending) <= 1
    /\ handed \in Seq(Rel) /\ Len(handed) <= 1
    /\ updates \in Seq(Rel)
    /\ begun \in BOOLEAN
    /\ left \in SUBSET Versions
    /\ made \in Nat
    /\ files \in SUBSET [model : R!Models, version : Versions, name : 1 .. made,
                         row : R!Rows]
    /\ written \in SUBSET files
    /\ unnamed \in SUBSET R!Rows
    /\ saved \in BOOLEAN
    /\ crooked \in SUBSET {"filter", "malformed"}

RInv ==
    /\ ParseInv /\ RType /\ CallInv /\ IndexInv /\ NameInv /\ RowInv
    /\ R!NamesRecorded
-----------------------------------------------------------------------------
(* Parsing *)

\* Both tabs are parsed by the same steps.
LEMMA SameParse ==
    /\ R!ParserStep <=> ParserStep
    /\ R!TakeRow <=> TakeRow
    /\ R!TakeError <=> TakeError
    /\ R!TakeDone <=> TakeDone
    /\ \A n : R!StartParse(n) <=> StartParse(n)
    /\ R!ParseInit <=> ParseInit
    /\ R!ParseTypeOK <=> ParseTypeOK
    /\ R!parseVars = parseVars
BY DEF R!ParserStep, ParserStep, R!ReadRow, ReadRow, R!SendRow, SendRow,
       R!SendError, SendError, R!ParseEnd, ParseEnd, R!ParseBreak, ParseBreak,
       R!SendBroken, SendBroken, R!TakeRow, TakeRow, R!TakeError, TakeError,
       R!TakeDone, TakeDone, R!StartParse, StartParse, R!ParseInit, ParseInit,
       R!ParseTypeOK, ParseTypeOK, R!parseVars, parseVars

LEMMA Empty ==
    /\ Len(<<>>) = 0 /\ DOMAIN <<>> = {} /\ ToSet(<<>>) = {}
    /\ \A S : <<>> \in Seq(S)
BY DEF ToSet

LEMMA One ==
    ASSUME NEW S, NEW x \in S
    PROVE  /\ <<x>> \in Seq(S) /\ Len(<<x>>) = 1 /\ DOMAIN <<x>> = {1}
           /\ <<x>>[1] = x /\ ToSet(<<x>>) = {x}
BY DEF ToSet

LEMMA Short ==
    ASSUME NEW S, NEW s \in Seq(S), Len(s) <= 1, s # <<>>
    PROVE  /\ Len(s) = 1 /\ Head(s) = s[1] /\ Head(s) \in S
           /\ Tail(s) = <<>> /\ DOMAIN s = {1} /\ ToSet(s) = {Head(s)}
<1>1. Len(s) = 1 /\ Head(s) = s[1] /\ Head(s) \in S
  OBVIOUS
<1>2. Tail(s) \in Seq(S) /\ Len(Tail(s)) = 0
  BY <1>1
<1>3. Tail(s) = <<>>
  BY <1>2
<1>4. DOMAIN s = {1}
  BY <1>1
<1> QED
  BY <1>1, <1>3, <1>4 DEF ToSet

LEMMA Appended ==
    ASSUME NEW S, NEW s \in Seq(S), NEW x
    PROVE  ToSet(Append(s, x)) = ToSet(s) \cup {x}
<1>1. /\ DOMAIN Append(s, x) = 1 .. Len(s) + 1 /\ DOMAIN s = 1 .. Len(s)
      /\ \A i \in DOMAIN s : Append(s, x)[i] = s[i]
      /\ Append(s, x)[Len(s) + 1] = x
      /\ Len(s) \in Nat
  OBVIOUS
<1> QED
  BY <1>1 DEF ToSet

LEMMA ParseInvInit == ParseInit => ParseInv
<1>1. ParseInit => ParseTypeOK
  <2>1. /\ \A S : <<>> \in Seq(S)
        /\ 1 \in 1 .. 0 + 1 /\ {} \in SUBSET (1 .. 0) /\ 0 \in Nat
    BY Empty
  <2> QED
    BY <2>1 DEF ParseInit, ParseTypeOK
<1> QED
  BY <1>1, Empty
    DEF ParseInit, ParseInv, SeenInv, EndInv, OrderInv, CountInv

LEMMA ParseInvStart ==
    ASSUME NEW n \in Nat, StartParse(n)
    PROVE  ParseInv'
<1>1. ParseTypeOK'
  <2>1. /\ <<>> \in Seq(1 .. n) /\ <<>> \in Seq(1 .. n + 1)
        /\ 1 \in 1 .. n + 1 /\ {} \in SUBSET (1 .. n)
    BY Empty
  <2> QED
    BY <2>1 DEF StartParse, ParseTypeOK
<1> QED
  BY <1>1, Empty
    DEF StartParse, ParseInv, SeenInv, EndInv, OrderInv, CountInv

\* Rows are read in the order of the file.
LEMMA ParserInv ==
    ASSUME ParseInv, ParserStep
    PROVE  ParseInv'
<1>t. /\ size \in Nat /\ next \in 1 .. size + 1 /\ next \in Nat
      /\ malformed \in SUBSET (1 .. size)
      /\ ch \in Seq(1 .. size) /\ taken \in Seq(1 .. size)
      /\ errs \in Seq(1 .. size + 1)
      /\ Len(ch) \in Nat /\ Len(taken) \in Nat
      /\ \A i \in DOMAIN taken : taken[i] \in Nat
      /\ \A k \in DOMAIN ch : ch[k] \in Nat
  BY DEF ParseInv, ParseTypeOK
<1>1. CASE ReadRow
  <2>1. ParseTypeOK'
    <3>1. next \in 1 .. size
      BY <1>1, <1>t DEF ReadRow
    <3>2. malformed' \subseteq 1 .. size
      BY <1>1, <1>t, <3>1 DEF ReadRow
    <3> QED
      BY <1>1, <3>2 DEF ReadRow, ParseInv, ParseTypeOK
  <2>2. EndInv'
    BY <1>1, <1>t DEF ReadRow, ParseInv, EndInv
  <2>3. SeenInv' /\ OrderInv'
    BY <1>1 DEF ReadRow, ParseInv, SeenInv, OrderInv
  <2>4. CountInv'
    BY <1>1 DEF ReadRow, ParseInv, CountInv
  <2> QED
    BY <2>1, <2>2, <2>3, <2>4 DEF ParseInv
<1>2. CASE SendRow
  <2>1. /\ ch = <<>> /\ ch' = <<next>> /\ next' = next + 1 /\ next <= size
        /\ parser' = "reading" /\ parser = "row" /\ ~cancelled
        /\ UNCHANGED <<size, cancelled, errs, caller, taken, malformed, broken>>
    BY <1>2 DEF SendRow, ParseInv, ParseTypeOK, EndInv
  <2>2. /\ Len(ch) = 0 /\ ToSet(ch) = {}
        /\ ch' \in Seq(1 .. size) /\ Len(ch') = 1 /\ DOMAIN ch' = {1}
        /\ ch'[1] = next /\ ToSet(ch') = {next}
    <3>1. next \in 1 .. size
      BY <1>t, <2>1
    <3> QED
      BY <2>1, <3>1, Empty, One
  <2>3. ParseTypeOK'
    BY <1>t, <2>1, <2>2 DEF ParseInv, ParseTypeOK
  <2>4. SeenInv'
    <3>1. \A r \in 1 .. next + 1 - 1 : r = next \/ r \in 1 .. next - 1
      BY <1>t
    <3> QED
      BY <2>1, <2>2, <3>1 DEF ParseInv, SeenInv
  <2>5. EndInv'
    BY <2>1 DEF ParseInv, EndInv
  <2>6. OrderInv'
    BY <1>t, <2>1, <2>2 DEF ParseInv, OrderInv
  <2>7. CountInv'
    BY <1>t, <2>1, <2>2 DEF ParseInv, CountInv
  <2> QED
    BY <2>3, <2>4, <2>5, <2>6, <2>7 DEF ParseInv
<1>3. CASE SendError
  <2>1. /\ errs' = <<next>> /\ next' = next + 1 /\ next <= size
        /\ parser' = "reading" /\ ~cancelled /\ next \in malformed
        /\ UNCHANGED <<size, cancelled, ch, caller, taken, malformed, broken>>
    BY <1>3 DEF SendError, ParseInv, ParseTypeOK, EndInv
  <2>2. errs' \in Seq(1 .. size + 1)
    BY <1>t, <2>1, One
  <2>3. ParseTypeOK'
    BY <1>t, <2>1, <2>2 DEF ParseInv, ParseTypeOK
  <2>4. SeenInv'
    <3>1. \A r \in 1 .. next + 1 - 1 : r = next \/ r \in 1 .. next - 1
      BY <1>t
    <3>2. next' - 1 = next + 1 - 1
      BY <1>t, <2>1
    <3> QED
      BY <2>1, <3>1, <3>2 DEF ParseInv, SeenInv
  <2>5. EndInv'
    BY <2>1 DEF ParseInv, EndInv
  <2>6. OrderInv'
    BY <1>t, <2>1 DEF ParseInv, OrderInv
  <2>7. CountInv'
    BY <1>t, <2>1 DEF ParseInv, CountInv
  <2> QED
    BY <2>3, <2>4, <2>5, <2>6, <2>7 DEF ParseInv
<1>4. ASSUME ParseTypeOK', EndInv',
             UNCHANGED <<size, next, ch, taken, malformed>>
      PROVE  ParseInv'
  BY <1>4 DEF ParseInv, SeenInv, OrderInv, CountInv
<1>5. CASE ParseEnd
  <2>1. ParseTypeOK'
    BY <1>5 DEF ParseEnd, ParseInv, ParseTypeOK
  <2>2. EndInv'
    BY <1>5 DEF ParseEnd, ParseInv, EndInv
  <2> QED
    BY <1>4, <1>5, <2>1, <2>2 DEF ParseEnd
<1>6. CASE ParseBreak
  <2>1. ParseTypeOK'
    BY <1>6 DEF ParseBreak, ParseInv, ParseTypeOK
  <2>2. EndInv'
    BY <1>6 DEF ParseBreak, ParseInv, EndInv
  <2> QED
    BY <1>4, <1>6, <2>1, <2>2 DEF ParseBreak
<1>7. CASE SendBroken
  <2>1. errs' \in Seq(1 .. size + 1)
    BY <1>7, <1>t, One DEF SendBroken
  <2>2. ParseTypeOK'
    BY <1>7, <2>1 DEF SendBroken, ParseInv, ParseTypeOK
  <2>3. EndInv'
    BY <1>7 DEF SendBroken, ParseInv, EndInv
  <2> QED
    BY <1>4, <1>7, <2>2, <2>3 DEF SendBroken
<1> QED
  BY <1>1, <1>2, <1>3, <1>5, <1>6, <1>7 DEF ParserStep

\* The caller receives a row that comes after those it has.
LEMMA TakeRowIs ==
    ASSUME ParseInv, TakeRow
    PROVE  /\ taken' = Append(taken, Head(ch)) /\ ch' = <<>> /\ Len(ch) = 1
           /\ Head(ch) \in 1 .. size /\ DOMAIN ch = {1} /\ ch[1] = Head(ch)
           /\ ToSet(ch) = {Head(ch)}
<1>1. ch # <<>> /\ Len(ch) <= 1 /\ ch \in Seq(1 .. size)
  BY DEF TakeRow, ParseInv, ParseTypeOK, CountInv
<1> QED
  BY <1>1, Short DEF TakeRow

LEMMA TakeInv ==
    ASSUME ParseInv, TakeRow \/ TakeError \/ TakeDone
    PROVE  ParseInv'
<1>t. /\ size \in Nat /\ next \in 1 .. size + 1 /\ next \in Nat
      /\ ch \in Seq(1 .. size) /\ taken \in Seq(1 .. size)
      /\ errs \in Seq(1 .. size + 1)
      /\ Len(ch) \in Nat /\ Len(taken) \in Nat
      /\ \A i \in DOMAIN taken : taken[i] \in Nat
  BY DEF ParseInv, ParseTypeOK
<1>1. CASE TakeRow
  <2> DEFINE h == Head(ch)
  <2>1. /\ taken' = Append(taken, h) /\ ch' = <<>> /\ Len(ch) = 1
        /\ h \in 1 .. size /\ DOMAIN ch = {1} /\ ch[1] = h /\ ToSet(ch) = {h}
        /\ UNCHANGED <<size, next, parser, cancelled, errs, caller, malformed,
                       broken>>
    BY <1>1, TakeRowIs DEF TakeRow
  <2> HIDE DEF h
  <2>2. /\ taken' \in Seq(1 .. size) /\ Len(taken') = Len(taken) + 1
        /\ DOMAIN taken' = 1 .. Len(taken) + 1 /\ DOMAIN taken = 1 .. Len(taken)
        /\ \A i \in DOMAIN taken : taken'[i] = taken[i]
        /\ taken'[Len(taken) + 1] = h
        /\ ToSet(taken') = ToSet(taken) \cup {h}
    <3>1. taken \in Seq(1 .. size) /\ h \in 1 .. size /\ taken' = Append(taken, h)
      BY <1>t, <2>1
    <3>2. /\ Append(taken, h) \in Seq(1 .. size)
          /\ Len(Append(taken, h)) = Len(taken) + 1
          /\ DOMAIN Append(taken, h) = 1 .. Len(taken) + 1
          /\ DOMAIN taken = 1 .. Len(taken)
          /\ \A i \in DOMAIN taken : Append(taken, h)[i] = taken[i]
          /\ Append(taken, h)[Len(taken) + 1] = h
      BY <3>1
    <3>3. ToSet(Append(taken, h)) = ToSet(taken) \cup {h}
      BY <3>1, Appended
    <3> QED
      BY <3>1, <3>2, <3>3
  <2>3. ParseTypeOK'
    <3>1. <<>> \in Seq(1 .. size)
      BY Empty
    <3> QED
      BY <1>t, <2>1, <2>2, <3>1 DEF ParseInv, ParseTypeOK
  <2>4. SeenInv'
    BY <2>1, <2>2, Empty DEF ParseInv, SeenInv
  <2>5. EndInv'
    BY <2>1 DEF ParseInv, EndInv
  <2>6. OrderInv'
    <3>1. /\ h < next /\ \A i \in DOMAIN taken : taken[i] < h /\ taken[i] < next
          /\ \A i, j \in DOMAIN taken : i < j => taken[i] < taken[j]
      BY <2>1 DEF ParseInv, OrderInv
    <3>2. \A i \in 1 .. Len(taken) + 1 : i \in 1 .. Len(taken) \/ i = Len(taken) + 1
      BY <1>t
    <3>3. \A i \in DOMAIN taken' :
            \/ i \in DOMAIN taken /\ taken'[i] = taken[i]
            \/ i = Len(taken) + 1 /\ taken'[i] = h
      BY <2>2, <3>2
    <3>4. \A i \in DOMAIN taken' : taken'[i] < next
      BY <3>1, <3>3
    <3>5. \A i, j \in DOMAIN taken' : i < j => taken'[i] < taken'[j]
      <4>1. \A i \in DOMAIN taken : i \in Nat /\ i < Len(taken) + 1
        BY <1>t, <2>2
      <4> QED
        BY <1>t, <3>1, <3>3, <4>1
    <3> QED
      BY <2>1, <3>4, <3>5, Empty DEF OrderInv
  <2>7. CountInv'
    BY <1>t, <2>1, <2>2, Empty DEF ParseInv, CountInv
  <2> QED
    BY <2>3, <2>4, <2>5, <2>6, <2>7 DEF ParseInv
<1>2. CASE TakeError
  <2>1. ParseTypeOK'
    <3>1. errs' \in Seq(1 .. size + 1)
      BY <1>2, <1>t DEF TakeError
    <3> QED
      BY <1>2, <3>1 DEF TakeError, ParseInv, ParseTypeOK
  <2> QED
    BY <1>2, <2>1
      DEF TakeError, ParseInv, SeenInv, EndInv, OrderInv, CountInv
<1>3. CASE TakeDone
  <2>1. ParseTypeOK'
    BY <1>3 DEF TakeDone, ParseInv, ParseTypeOK
  <2> QED
    BY <1>3, <2>1
      DEF TakeDone, ParseInv, SeenInv, EndInv, OrderInv, CountInv
<1> QED
  BY <1>1, <1>2, <1>3

\* A process that has ended does not parse.
LEMMA StopInv ==
    ASSUME ParseInv, parser' = "off", caller' = "off",
           UNCHANGED <<size, next, cancelled, ch, errs, taken, malformed, broken>>
    PROVE  ParseInv'
BY DEF ParseInv, ParseTypeOK, SeenInv, EndInv, OrderInv, CountInv

LEMMA ParseFrame == ASSUME ParseInv, UNCHANGED parseVars PROVE ParseInv'
BY DEF ParseInv, ParseTypeOK, parseVars, SeenInv, EndInv, OrderInv, CountInv

\* What the caller misses was left in the channel.
LEMMA MissesOne ==
    ASSUME ParseInv
    PROVE  LosesAtMostOneRow
<1> SUFFICES ASSUME caller = "done", ~broken PROVE Cardinality(Missed) <= 1
  BY DEF LosesAtMostOneRow
<1>t. /\ size \in Nat /\ next \in 1 .. size + 1 /\ ch \in Seq(1 .. size)
      /\ next > size /\ Len(ch) <= 1
  BY DEF ParseInv, ParseTypeOK, EndInv, CountInv
<1>1. Missed \subseteq ToSet(ch)
  BY <1>t DEF ParseInv, Missed, SeenInv
<1>2. CASE ch = <<>>
  <2>1. Missed = {}
    BY <1>1, <1>2, Empty
  <2> QED
    BY <2>1, FS_EmptySet
<1>3. CASE ch # <<>>
  <2>1. Missed \subseteq {Head(ch)}
    BY <1>1, <1>3, <1>t, Short
  <2>2. /\ IsFiniteSet({Head(ch)}) /\ Cardinality({Head(ch)}) = 1
        /\ Cardinality(Missed) <= Cardinality({Head(ch)})
    BY <2>1, FS_Singleton, FS_Subset
  <2> QED
    BY <2>2
<1> QED
  BY <1>2, <1>3
-----------------------------------------------------------------------------
(* The Components tab *)

LEMMA RowsOf ==
    ASSUME NEW S, NEW s \in Seq(S)
    PROVE  /\ \A r \in 1 .. Len(s) : s[r] \in ToSet(s) /\ s[r] \in S
           /\ \A x \in ToSet(s) : \E r \in 1 .. Len(s) : s[r] = x
           /\ ToSet(s) \subseteq S
BY DEF ToSet

LEMMA Concat ==
    ASSUME NEW S, NEW s \in Seq(S), NEW t \in Seq(S)
    PROVE  /\ s \o t \in Seq(S)
           /\ ToSet(s \o t) = ToSet(s) \cup ToSet(t)
<1>1. /\ s \o t \in Seq(S) /\ Len(s \o t) = Len(s) + Len(t)
      /\ DOMAIN s = 1 .. Len(s) /\ DOMAIN t = 1 .. Len(t)
      /\ DOMAIN (s \o t) = 1 .. Len(s) + Len(t)
      /\ Len(s) \in Nat /\ Len(t) \in Nat
      /\ \A i \in 1 .. Len(s) : (s \o t)[i] = s[i]
      /\ \A i \in 1 .. Len(t) : (s \o t)[Len(s) + i] = t[i]
  OBVIOUS
<1>2. \A i \in 1 .. Len(s) + Len(t) :
        i \in 1 .. Len(s) \/ (i - Len(s) \in 1 .. Len(t) /\ i = Len(s) + (i - Len(s)))
  BY <1>1
<1>3. ToSet(s \o t) \subseteq ToSet(s) \cup ToSet(t)
  BY <1>1, <1>2 DEF ToSet
<1>4. \A i \in 1 .. Len(t) : Len(s) + i \in DOMAIN (s \o t)
  BY <1>1
<1>5. ToSet(t) \subseteq ToSet(s \o t)
  BY <1>1, <1>4 DEF ToSet
<1>6. ToSet(s) \subseteq ToSet(s \o t)
  BY <1>1 DEF ToSet
<1> QED
  BY <1>1, <1>3, <1>5, <1>6

\* What occurs twice in two sequences one after the other.
LEMMA ConcatRepeats ==
    ASSUME NEW S, NEW s \in Seq(S), NEW t \in Seq(S),
           NEW i \in DOMAIN (s \o t), NEW j \in DOMAIN (s \o t),
           i # j, (s \o t)[i] = (s \o t)[j]
    PROVE  \/ \E k, l \in DOMAIN s : k # l /\ s[k] = s[l] /\ s[k] = (s \o t)[i]
           \/ \E k, l \in DOMAIN t : k # l /\ t[k] = t[l]
           \/ (s \o t)[i] \in ToSet(s) \cap ToSet(t)
<1>1. /\ DOMAIN s = 1 .. Len(s) /\ DOMAIN t = 1 .. Len(t)
      /\ DOMAIN (s \o t) = 1 .. Len(s) + Len(t)
      /\ Len(s) \in Nat /\ Len(t) \in Nat
      /\ \A k \in 1 .. Len(s) : (s \o t)[k] = s[k]
      /\ \A k \in 1 .. Len(t) : (s \o t)[Len(s) + k] = t[k]
  OBVIOUS
<1>2. \A k \in DOMAIN (s \o t) :
        \/ k \in DOMAIN s /\ (s \o t)[k] = s[k]
        \/ k - Len(s) \in DOMAIN t /\ (s \o t)[k] = t[k - Len(s)]
  <2> SUFFICES ASSUME NEW k \in DOMAIN (s \o t), k \notin DOMAIN s
               PROVE  k - Len(s) \in DOMAIN t /\ (s \o t)[k] = t[k - Len(s)]
    BY <1>1
  <2>1. k - Len(s) \in 1 .. Len(t) /\ Len(s) + (k - Len(s)) = k
    BY <1>1
  <2> QED
    BY <1>1, <2>1
<1>3. i - Len(s) # j - Len(s)
  BY <1>1
<1>4. \A k \in DOMAIN s : s[k] \in ToSet(s)
  BY DEF ToSet
<1>5. \A k \in DOMAIN t : t[k] \in ToSet(t)
  BY DEF ToSet
<1> QED
  BY <1>2, <1>3, <1>4, <1>5

LEMMA ConcatInjective ==
    ASSUME NEW S, NEW s \in Seq(S), NEW t \in Seq(S),
           IsInjective(s), IsInjective(t), ToSet(s) \cap ToSet(t) = {}
    PROVE  IsInjective(s \o t)
BY ConcatRepeats DEF IsInjective

\* What the steps of a parse leave alone.
LEMMA ParserKeeps == ParserStep => UNCHANGED <<size, caller, taken>>
BY DEF ParserStep, ReadRow, SendRow, SendError, ParseEnd, ParseBreak, SendBroken

LEMMA CallerKeeps ==
    TakeRow \/ TakeError \/ TakeDone => UNCHANGED <<size, next, malformed>>
BY DEF TakeRow, TakeError, TakeDone

\* An append that succeeds, or fails.
LEMMA FlushEffect ==
    ASSUME tab \in Seq(Components), NEW es \in Seq(Components), Flush(es),
           dropped \subseteq Components,
           IsInjective(es), ToSet(es) \cap ToSet(tab) \subseteq Unseen,
           RepeatsOnlyUnseen, UNCHANGED <<unread, overlooked>>
    PROVE  /\ tab' \in Seq(Components) /\ entries' = <<>>
           /\ dropped' \subseteq Components
           /\ ToSet(tab) \subseteq ToSet(tab') /\ dropped \subseteq dropped'
           /\ ToSet(tab') \subseteq ToSet(tab) \cup ToSet(es)
           /\ ToSet(es) \subseteq ToSet(tab') \cup dropped'
           /\ RepeatsOnlyUnseen'
<1>1. CASE tab' = tab \o es /\ dropped' = dropped
  <2>1. tab' \in Seq(Components) /\ ToSet(tab') = ToSet(tab) \cup ToSet(es)
    BY <1>1, Concat
  <2>2. RepeatsOnlyUnseen'
    <3> SUFFICES ASSUME NEW i \in DOMAIN (tab \o es), NEW j \in DOMAIN (tab \o es),
                        i # j, (tab \o es)[i] = (tab \o es)[j]
                 PROVE  (tab \o es)[i] \in Unseen
      BY <1>1 DEF RepeatsOnlyUnseen, Unseen
    <3>1. ~ \E k, l \in DOMAIN es : k # l /\ es[k] = es[l]
      BY DEF IsInjective
    <3>2. \A k, l \in DOMAIN tab : k # l /\ tab[k] = tab[l] => tab[k] \in Unseen
      BY DEF RepeatsOnlyUnseen, Unseen
    <3>3. \/ \E k, l \in DOMAIN tab :
               k # l /\ tab[k] = tab[l] /\ tab[k] = (tab \o es)[i]
          \/ (tab \o es)[i] \in ToSet(tab) \cap ToSet(es)
      BY <3>1, ConcatRepeats
    <3> QED
      BY <3>2, <3>3
  <2> QED
    BY <1>1, <2>1, <2>2 DEF Flush
<1>2. CASE tab' = tab /\ dropped' = dropped \cup ToSet(es)
  <2>1. ToSet(es) \subseteq Components
    BY RowsOf
  <2> QED
    BY <1>2, <2>1 DEF Flush, RepeatsOnlyUnseen
<1> QED
  BY <1>1, <1>2 DEF Flush

LEMMA CInit == Init => CInv
<1> SUFFICES ASSUME Init PROVE CInv
  OBVIOUS
<1>1. ParseInv
  BY ParseInvInit DEF Init
<1>2. \A i, j \in DOMAIN FirstTab : FirstTab[i] = FirstTab[j] => i = j
  BY ComponentAssumption DEF ComponentAssumption, IsInjective
<1>3. TypeOK
  <2>1. /\ calls \in 0 .. MaxCalls /\ compBatch \in Int /\ modelBatch \in Int
        /\ tab \in Seq(Components) /\ file \in Seq(Components)
        /\ entries \in Seq(Components)
    BY Empty, ComponentAssumption DEF Init, ComponentAssumption
  <2> QED
    BY <1>1, <2>1 DEF Init, ParseInv, TypeOK
<1> QED
  BY <1>1, <1>2, <1>3, Empty
    DEF Init, CInv, FileInv, HandledInv, RepeatInv, HandledIsAppended,
        RepeatsOnlyUnseen

\* While the tab is being parsed only the parse makes steps.
LEMMA CParse ==
    ASSUME CInv, ParserRuns \/ CallerRuns
    PROVE  CInv'
<1>1. ParseInv' /\ size' = size
  BY ParserInv, TakeInv, ParserKeeps, CallerKeeps
    DEF CInv, ParserRuns, CallerRuns
<1>2. UNCHANGED <<tab, file, call, calls, due, known, entries, procVars,
                  handled, dropped, unread, overlooked, panicked>>
  BY DEF ParserRuns, CallerRuns
<1>3. TypeOK'
  BY <1>1, <1>2 DEF CInv, TypeOK, ParseInv, procVars
<1> QED
  BY <1>1, <1>2, <1>3
    DEF CInv, FileInv, HandledInv, RepeatInv, HandledIsAppended,
        RepeatsOnlyUnseen, Unseen

LEMMA CBegin ==
    ASSUME CInv, NEW ms \in SUBSET Models, BeginCall(ms)
    PROVE  CInv'
<1>1. ParseInv'
  <2>1. Len(tab) \in Nat
    BY DEF CInv, TypeOK
  <2> QED
    BY <2>1, ParseInvStart DEF BeginCall
<1>2. TypeOK'
  BY <1>1, Empty, ComponentAssumption
    DEF BeginCall, CInv, TypeOK, ParseInv, procVars, ComponentAssumption
<1>3. RepeatsOnlyUnseen'
  BY DEF BeginCall, CInv, RepeatsOnlyUnseen
<1>4. FileInv' /\ HandledInv' /\ RepeatInv' /\ HandledIsAppended'
  BY DEF BeginCall, StartParse, FileInv, HandledInv, RepeatInv,
         HandledIsAppended
<1> QED
  BY <1>1, <1>2, <1>3, <1>4 DEF CInv

\* Every row of the tab was received or is noted as unseen.
LEMMA CMap ==
    ASSUME CInv, ProcessModelToComponentsMap
    PROVE  CInv'
<1>t. /\ call = "parse" /\ call' = "update" /\ file = tab /\ size = Len(tab)
      /\ tab \in Seq(Components) /\ taken \in Seq(1 .. size) /\ size \in Nat
      /\ malformed \subseteq 1 .. size
      /\ handled = {} /\ entries = <<>>
      /\ UNCHANGED <<parseVars, tab, file, calls, due, entries, procVars,
                     handled, dropped, panicked>>
  BY DEF ProcessModelToComponentsMap, CInv, FileInv, HandledInv, TypeOK,
         ParseTypeOK
<1>1. ParseInv'
  BY <1>t, ParseFrame DEF CInv
<1>2. known' = {tab[r] : r \in ToSet(taken)} /\ ToSet(taken) \subseteq 1 .. size
  BY <1>t, RowsOf DEF ProcessModelToComponentsMap
<1>3. known' \subseteq ToSet(tab) /\ ToSet(tab) \subseteq Components
  BY <1>t, <1>2, RowsOf
<1>4. \A r \in 1 .. size : tab[r] \in Components
  BY <1>t
<1> DEFINE bad == IF broken THEN malformed \cup Missed ELSE malformed
<1>5. /\ bad \subseteq 1 .. size /\ malformed \subseteq bad
      /\ unread' = unread \cup {tab[r] : r \in bad}
      /\ overlooked' = overlooked \cup {tab[r] : r \in Missed \ bad}
  BY <1>t DEF ProcessModelToComponentsMap, Missed
<1> HIDE DEF bad
<1>6. ToSet(tab) \subseteq known' \cup Unseen'
  <2> SUFFICES ASSUME NEW r \in 1 .. size PROVE tab[r] \in known' \cup Unseen'
    BY <1>t, RowsOf
  <2>1. r \in ToSet(taken) \/ r \in bad \/ r \in Missed \ bad
    BY <1>5 DEF Missed
  <2> QED
    BY <1>2, <1>5, <2>1 DEF Unseen
<1>7. unread' \in SUBSET Components /\ overlooked' \in SUBSET Components
  BY <1>4, <1>5 DEF CInv, TypeOK, Missed
<1>8. TypeOK'
  BY <1>1, <1>t, <1>3, <1>7 DEF CInv, TypeOK, ParseInv, procVars
<1>9. RepeatsOnlyUnseen'
  <2>1. Unseen \subseteq Unseen'
    BY <1>5 DEF Unseen
  <2> QED
    BY <1>t, <2>1 DEF CInv, RepeatsOnlyUnseen, Unseen
<1>10. FileInv' /\ HandledInv' /\ HandledIsAppended'
  BY <1>t, <1>3, Empty DEF FileInv, HandledInv, HandledIsAppended
<1>11. RepeatInv'
  BY <1>t, <1>6, Empty DEF RepeatInv, IsInjective
<1> QED
  BY <1>1, <1>8, <1>9, <1>10, <1>11 DEF CInv

\* A set of components in some order.
LEMMA Ordered ==
    ASSUME NEW S, IsFiniteSet(S), NEW f \in SetToSeqs(S)
    PROVE  f \in Seq(S) /\ IsInjective(f) /\ ToSet(f) = S
<1> DEFINE n == Cardinality(S)
<1>1. n \in Nat
  BY FS_CardinalityType
<1>2. /\ f \in [1 .. n -> S]
      /\ \A i, j \in 1 .. n : i # j => f[i] # f[j]
  BY DEF SetToSeqs
<1>3. Cardinality(1 .. n) = n
  <2>1. n = Cardinality(1 .. n)
    <3>1. CASE n = 0
      BY <3>1, FS_EmptySet
    <3>2. CASE n # 0
      BY <1>1, <3>2, FS_Interval
    <3> QED
      BY <3>1, <3>2
  <2> QED
    BY <2>1
<1> HIDE DEF n
<1>4. IsInjective(f)
  BY <1>2 DEF IsInjective
<1>5. f \in Injection(1 .. n, S)
  BY <1>2, <1>4 DEF Injection
<1>6. f \in Surjection(1 .. n, S)
  BY <1>3, <1>5, FS_Injection DEF n
<1>7. \A x \in S : \E i \in 1 .. n : f[i] = x
  BY <1>6 DEF Surjection
<1>8. f \in Seq(S)
  BY <1>1, <1>2
<1> QED
  BY <1>2, <1>4, <1>7, <1>8 DEF ToSet

\* What arrives is in the map already, or is entered in it and in the list.
LEMMA CHandle ==
    ASSUME CInv, NEW m \in Models, NEW cs \in SUBSET Components,
           HandleData(m, cs)
    PROVE  CInv'
<1>t. /\ call = "update" /\ call' = "update"
      /\ tab \in Seq(Components) /\ entries \in Seq(Components)
      /\ known \subseteq Components /\ dropped \subseteq Components
      /\ handled' = handled \cup cs /\ known' = known \cup cs
      /\ handled \subseteq known
      /\ known \subseteq ToSet(tab) \cup dropped \cup ToSet(entries)
      /\ ToSet(tab) \subseteq known \cup Unseen
      /\ ToSet(entries) \subseteq known
      /\ ToSet(entries) \cap ToSet(tab) \subseteq Unseen
      /\ IsInjective(entries)
      /\ UNCHANGED <<parseVars, file, calls, unread, overlooked>>
  BY DEF HandleData, CInv, TypeOK, HandledInv, RepeatInv
<1>1. PICK new \in SetToSeqs(cs \ known) :
        /\ compBatch' = compBatch - Len(new)
        /\ IF compBatch' <= 0 /\ ~panicked'
           THEN Flush(entries \o new)
           ELSE entries' = entries \o new /\ UNCHANGED <<tab, dropped>>
  BY DEF HandleData
<1> DEFINE es == entries \o new
<1>2. new \in Seq(cs \ known) /\ IsInjective(new) /\ ToSet(new) = cs \ known
  <2>1. IsFiniteSet(cs \ known)
    BY ComponentAssumption, FS_Subset DEF ComponentAssumption
  <2> QED
    BY <2>1, Ordered
<1>3. new \in Seq(Components) /\ Len(new) \in Nat
  BY <1>2
<1>4. es \in Seq(Components) /\ ToSet(es) = ToSet(entries) \cup (cs \ known)
  BY <1>2, <1>3, <1>t, Concat
<1>5. IsInjective(es)
  <2>1. ToSet(entries) \cap ToSet(new) = {}
    BY <1>2, <1>t
  <2> QED
    BY <1>2, <1>3, <1>t, <2>1, ConcatInjective
<1>6. ToSet(es) \cap ToSet(tab) \subseteq Unseen
  BY <1>4, <1>t
<1> HIDE DEF es
<1>7. /\ tab' \in Seq(Components) /\ entries' \in Seq(Components)
      /\ dropped' \subseteq Components
      /\ ToSet(tab) \subseteq ToSet(tab') /\ dropped \subseteq dropped'
      /\ ToSet(tab') \subseteq ToSet(tab) \cup ToSet(es)
      /\ ToSet(es) \subseteq ToSet(tab') \cup dropped' \cup ToSet(entries')
      /\ ToSet(entries') \subseteq ToSet(es)
      /\ ToSet(entries') \cap ToSet(tab') \subseteq Unseen
      /\ IsInjective(entries') /\ RepeatsOnlyUnseen'
  <2>1. CASE Flush(es)
    <3>1. /\ IsInjective(<<>>) /\ <<>> \in Seq(Components) /\ ToSet(<<>>) = {}
      BY Empty DEF IsInjective
    <3>2. RepeatsOnlyUnseen
      BY DEF CInv
    <3> QED
      BY <1>4, <1>5, <1>6, <1>t, <2>1, <3>1, <3>2, FlushEffect
  <2>2. CASE entries' = es /\ UNCHANGED <<tab, dropped>>
    BY <1>4, <1>5, <1>6, <1>t, <2>2 DEF CInv, RepeatsOnlyUnseen
  <2> QED
    BY <1>1, <2>1, <2>2 DEF es
<1>8. ParseInv'
  BY <1>t, ParseFrame DEF CInv
<1>9. TypeOK'
  <2>1. compBatch' \in Int /\ modelBatch' \in Int /\ panicked' \in BOOLEAN
    BY <1>1, <1>3 DEF HandleData, CInv, TypeOK
  <2>2. registrants' \in SUBSET {Registrant[x] : x \in Models}
        /\ due' \in SUBSET Models
    BY DEF HandleData, CInv, TypeOK
  <2>3. handled' \in SUBSET Components /\ known' \in SUBSET Components
    BY <1>t DEF CInv, TypeOK
  <2> QED
    BY <1>7, <1>8, <1>t, <2>1, <2>2, <2>3 DEF CInv, TypeOK, ParseInv
<1>10. FileInv' /\ HandledIsAppended'
  BY <1>t DEF FileInv, HandledIsAppended
<1>11. HandledInv'
  BY <1>4, <1>7, <1>t DEF HandledInv
<1>12. RepeatInv'
  <2>1. Unseen' = Unseen
    BY <1>t DEF Unseen
  <2> QED
    BY <1>4, <1>7, <1>t, <2>1 DEF RepeatInv
<1> QED
  BY <1>7, <1>8, <1>9, <1>10, <1>11, <1>12 DEF CInv

LEMMA CEnd ==
    ASSUME CInv, EndCall
    PROVE  CInv'
<1>t. /\ call = "update" /\ call' = "idle" /\ due' = {}
      /\ tab \in Seq(Components) /\ entries \in Seq(Components)
      /\ dropped \subseteq Components
      /\ handled \subseteq ToSet(tab) \cup dropped \cup ToSet(entries)
      /\ ToSet(entries) \cap ToSet(tab) \subseteq Unseen
      /\ IsInjective(entries) /\ RepeatsOnlyUnseen /\ Flush(entries)
      /\ UNCHANGED <<parseVars, file, calls, known, procVars, handled, unread,
                     overlooked, panicked>>
  BY DEF EndCall, CInv, TypeOK, HandledInv, RepeatInv
<1>1. /\ tab' \in Seq(Components) /\ entries' = <<>>
      /\ dropped' \subseteq Components
      /\ ToSet(tab) \subseteq ToSet(tab') /\ dropped \subseteq dropped'
      /\ ToSet(entries) \subseteq ToSet(tab') \cup dropped'
      /\ RepeatsOnlyUnseen'
  BY <1>t, FlushEffect
<1>2. ParseInv'
  BY <1>t, ParseFrame DEF CInv
<1>3. TypeOK'
  BY <1>1, <1>2, <1>t, Empty DEF CInv, TypeOK, ParseInv, procVars
<1>4. FileInv' /\ HandledInv' /\ RepeatInv'
  BY <1>t DEF FileInv, HandledInv, RepeatInv
<1>5. HandledIsAppended'
  BY <1>1, <1>t DEF HandledIsAppended
<1> QED
  BY <1>1, <1>2, <1>3, <1>4, <1>5 DEF CInv

LEMMA CRestart ==
    ASSUME CInv, Restart
    PROVE  CInv'
<1>1. ParseInv'
  BY StopInv DEF Restart, CInv
<1>2. TypeOK'
  <2>1. /\ compBatch' \in Int /\ modelBatch' \in Int
        /\ file' \in Seq(Components) /\ entries' \in Seq(Components)
    BY Empty, ComponentAssumption DEF Restart, ComponentAssumption
  <2> QED
    BY <1>1, <2>1 DEF Restart, CInv, TypeOK, ParseInv
<1>3. RepeatsOnlyUnseen'
  BY DEF Restart, CInv, RepeatsOnlyUnseen
<1> QED
  BY <1>1, <1>2, <1>3
    DEF Restart, CInv, FileInv, HandledInv, RepeatInv, HandledIsAppended

LEMMA CStep ==
    ASSUME CInv, [Next]_vars
    PROVE  CInv'
<1>1. CASE UNCHANGED vars
  <2>1. ParseInv'
    BY <1>1, ParseFrame DEF CInv, vars
  <2>2. TypeOK'
    BY <1>1, <2>1 DEF vars, procVars, CInv, ParseInv, TypeOK
  <2>3. FileInv' /\ HandledInv' /\ RepeatInv'
    BY <1>1
      DEF vars, parseVars, CInv, FileInv, HandledInv, RepeatInv, Unseen
  <2>4. HandledIsAppended' /\ RepeatsOnlyUnseen'
    BY <1>1 DEF vars, CInv, HandledIsAppended, RepeatsOnlyUnseen
  <2> QED
    BY <2>1, <2>2, <2>3, <2>4 DEF CInv
<1> QED
  BY <1>1, CParse, CBegin, CMap, CHandle, CEnd, CRestart DEF Next

\* CInv holds in every reachable state.
THEOREM ComponentsInvariance == Spec => []CInv
BY CInit, CStep, PTL DEF Spec

\* A parse hides at most one row of the file it read to the end.
THEOREM ParseCorrect == Spec => []LosesAtMostOneRow
<1>1. CInv => LosesAtMostOneRow
  BY MissesOne DEF CInv
<1> QED
  BY ComponentsInvariance, <1>1, PTL

\* No component gets a second row but one whose row some parse did not see,
\* for every tab, batch size and sequence of calls, failures and restarts.
THEOREM RepeatsCorrect == Spec => []RepeatsOnlyUnseen
<1>1. CInv => RepeatsOnlyUnseen
  BY DEF CInv
<1> QED
  BY ComponentsInvariance, <1>1, PTL

\* No call forgets a component it was sent.
THEOREM HandledCorrect == Spec => []HandledIsAppended
<1>1. CInv => HandledIsAppended
  BY DEF CInv
<1> QED
  BY ComponentsInvariance, <1>1, PTL
-----------------------------------------------------------------------------
(* The Relationships tab *)

LEMMA TabRows ==
    /\ RowModel \in Seq(R!Models) /\ R!Rows = 1 .. Len(RowModel)
    /\ Len(RowModel) \in Nat
    /\ R!Headers = 2 /\ R!NoName = 0
BY RelationshipValues
  DEF R!RelationshipAssumption, R!Rows, R!Headers, R!NoName

LEMMA SameType == R!TypeOK <=> RType
BY SameParse DEF R!TypeOK, RType, Rel

LEMMA RTypes ==
    ASSUME RType
    PROVE  /\ cell \in [R!Rows -> Nat] /\ column \in [R!Rows -> Nat]
           /\ currentRow \in Nat /\ made \in Nat
           /\ rels \in Seq(Rel) /\ sending \in Seq(Rel) /\ handed \in Seq(Rel)
           /\ updates \in Seq(Rel) /\ Len(sending) <= 1 /\ Len(handed) <= 1
           /\ \A u \in Held : u \in Rel
           /\ \A f \in files : f.name \in 1 .. made /\ f.row \in R!Rows
           /\ written \subseteq files /\ left \subseteq Versions
<1>1. /\ rels \in Seq(Rel) /\ sending \in Seq(Rel) /\ handed \in Seq(Rel)
      /\ updates \in Seq(Rel) /\ Len(sending) <= 1 /\ Len(handed) <= 1
  BY DEF RType
<1>2. \A u \in Held : u \in Rel
  BY <1>1, RowsOf DEF Held, Sent
<1>3. currentRow \in Nat
  BY TabRows DEF RType
<1>4. \A f \in files : f.name \in 1 .. made /\ f.row \in R!Rows
  BY DEF RType
<1> QED
  BY <1>1, <1>2, <1>3, <1>4 DEF RType

\* A step that brings no name into use keeps the names apart.
LEMMA NameFrame ==
    ASSUME NameInv, made' = made, crooked' = {} => crooked = {},
           \A r \in R!Rows : cell'[r] <= made /\ column'[r] <= made,
           \A u \in Held' : u.name <= made,
           crooked' = {} =>
               \A n \in 1 .. made, r \in R!Rows : Uses(n, r)' => Uses(n, r)
    PROVE  NameInv'
BY DEF NameInv

\* Rows and names that stay where they are.
LEMMA RowFrame ==
    ASSUME RowInv, UNCHANGED <<rels, cell, unnamed, written, call>>,
           Sent' = Sent, call = "parse" => taken' = taken
    PROVE  RowInv'
BY DEF RowInv, Recorded

LEMMA RInit == R!Init => RInv
<1> SUFFICES ASSUME R!Init PROVE RInv
  OBVIOUS
<1>1. ParseInv
  BY ParseInvInit, SameParse DEF R!Init
<1>2. /\ rels = <<>> /\ sending = <<>> /\ handed = <<>> /\ updates = <<>>
      /\ cell = [r \in R!Rows |-> 0] /\ column = cell /\ taken = <<>>
      /\ size = 0 /\ caller = "off"
  BY SameParse, TabRows DEF R!Init, ParseInit
<1>3. Held = {} /\ Sent = {}
  BY <1>2, Empty DEF Held, Sent
<1>4. RType
  <2>1. calls \in 0 .. MaxCalls
    BY RelationshipValues DEF R!Init, R!RelationshipAssumption
  <2>2. currentRow \in R!Headers + 1 .. R!Headers + 1 + Len(RowModel)
    BY TabRows DEF R!Init
  <2>3. cell \in [R!Rows -> Nat]
    BY <1>2
  <2>4. <<>> \in Seq(Rel) /\ Len(<<>>) <= 1
    BY Empty
  <2>5. /\ rels \in Seq(Rel) /\ sending \in Seq(Rel) /\ handed \in Seq(Rel)
        /\ updates \in Seq(Rel) /\ Len(sending) <= 1 /\ Len(handed) <= 1
    BY <1>2, <2>4
  <2>6. /\ ParseTypeOK /\ column \in [R!Rows -> Nat] /\ made = 0 /\ begun = FALSE
        /\ call = "idle" /\ filter = All /\ left = {} /\ files = {}
        /\ written = {} /\ unnamed = {} /\ saved = FALSE /\ crooked = {}
    BY <1>1, <1>2, <2>3 DEF R!Init, ParseInv
  <2> QED
    BY <2>1, <2>2, <2>3, <2>5, <2>6 DEF RType
<1>5. CallInv
  BY <1>2, <1>3 DEF R!Init, CallInv
<1>6. IndexInv
  BY <1>2, <1>3, Empty, TabRows DEF R!Init, IndexInv
<1>7. NameInv
  BY <1>2, <1>3, TabRows DEF R!Init, NameInv
<1>8. RowInv
  BY <1>2, <1>3, Empty DEF R!Init, RowInv
<1>9. R!NamesRecorded
  BY DEF R!Init, R!NamesRecorded
<1> QED
  BY <1>1, <1>4, <1>5, <1>6, <1>7, <1>8, <1>9 DEF RInv

LEMMA RBegin ==
    ASSUME RInv, NEW m \in R!Models \cup {All}, R!BeginCall(m)
    PROVE  RInv'
<1>1. /\ call = "idle" /\ call' = "parse" /\ caller # "reading"
      /\ calls' = calls + 1 /\ calls < MaxCalls
      /\ StartParse(Len(RowModel)) /\ column' = cell /\ filter' = m
      /\ currentRow' = R!Headers + 1 /\ begun' = FALSE /\ left' = {}
      /\ rels' = <<>> /\ sending' = <<>> /\ handed' = <<>> /\ updates' = <<>>
      /\ written' = {} /\ unnamed' = {} /\ saved' = FALSE
      /\ UNCHANGED <<cell, crooked, made, files>>
      /\ size' = Len(RowModel) /\ caller' = "reading" /\ taken' = <<>>
  BY SameParse DEF R!BeginCall, StartParse
<1>2. ParseInv'
  BY <1>1, ParseInvStart, TabRows
<1>3. Held' = {} /\ Sent' = {}
  BY <1>1, Empty DEF Held, Sent
<1>4. RType'
  <2>1. calls' \in 0 .. MaxCalls
    BY <1>1, RelationshipValues DEF RInv, RType, R!RelationshipAssumption
  <2>2. currentRow' \in R!Headers + 1 .. R!Headers + 1 + Len(RowModel)
    BY <1>1, TabRows
  <2>3. <<>> \in Seq(Rel) /\ Len(<<>>) <= 1
    BY Empty
  <2>4. /\ rels' \in Seq(Rel) /\ sending' \in Seq(Rel) /\ handed' \in Seq(Rel)
        /\ updates' \in Seq(Rel) /\ Len(sending') <= 1 /\ Len(handed') <= 1
    BY <1>1, <2>3
  <2> QED
    BY <1>1, <1>2, <2>1, <2>2, <2>4 DEF RInv, ParseInv, RType
<1>5. CallInv'
  BY <1>1, <1>3 DEF CallInv
<1>6. IndexInv'
  BY <1>1, <1>3, Empty, TabRows DEF IndexInv
<1>7. NameInv'
  <2>1. \A n \in 1 .. made, r \in R!Rows : Uses(n, r)' => Uses(n, r)
    BY <1>1, <1>3 DEF Uses
  <2> QED
    BY <1>1, <1>3, <2>1, NameFrame DEF RInv, NameInv
<1>8. RowInv'
  BY <1>1, <1>3, Empty DEF RowInv
<1>9. R!NamesRecorded'
  BY <1>1 DEF R!NamesRecorded
<1> QED
  BY <1>2, <1>4, <1>5, <1>6, <1>7, <1>8, <1>9 DEF RInv

\* The steps of the parse that leave the rows as they are.
LEMMA RParse ==
    ASSUME RInv, R!ParserRuns \/ R!OtherwiseTaken
    PROVE  RInv'
<1>1. /\ ParserStep \/ TakeError \/ TakeDone
      /\ UNCHANGED <<cell, column, filter, currentRow, saved, crooked, rels, begun,
                     left, sending, handed, updates, made, files, written, unnamed,
                     call, calls>>
  BY SameParse DEF R!ParserRuns, R!OtherwiseTaken, R!tabVars, R!workVars
<1>2. /\ UNCHANGED <<size, taken>> /\ caller' \in {caller, "done"}
      /\ malformed \subseteq malformed'
  BY <1>1
    DEF ParserStep, ReadRow, SendRow, SendError, ParseEnd, ParseBreak,
        SendBroken, TakeError, TakeDone
<1>3. ParseInv'
  BY <1>1, ParserInv, TakeInv DEF RInv
<1>4. Held' = Held /\ Sent' = Sent
  BY <1>1 DEF Held, Sent
<1>5. RType'
  BY <1>1, <1>3 DEF RInv, ParseInv, RType
<1>6. CallInv'
  BY <1>1, <1>2, <1>4 DEF RInv, CallInv
<1>7. IndexInv'
  BY <1>1, <1>2, <1>4 DEF RInv, IndexInv
<1>8. NameInv'
  BY <1>1, <1>4 DEF RInv, NameInv, Uses
<1>9. RowInv'
  BY <1>1, <1>2, <1>4, RowFrame DEF RInv
<1>10. R!NamesRecorded'
  BY <1>1 DEF RInv, R!NamesRecorded
<1> QED
  BY <1>3, <1>5, <1>6, <1>7, <1>8, <1>9, <1>10 DEF RInv

\* A row is received: its number is right as long as every row was counted.
LEMMA RTake ==
    ASSUME RInv, R!TakeRelationship
    PROVE  RInv'
<1> DEFINE r == Head(ch)
           rel == [row |-> r, index |-> currentRow, name |-> column[r]]
           wanted == filter \in {All, RowModel[r]}
<1>1. /\ TakeRow
      /\ rels' = IF wanted THEN Append(rels, rel) ELSE rels
      /\ currentRow' = IF wanted THEN currentRow + 1 ELSE currentRow
      /\ crooked' = IF wanted THEN crooked ELSE crooked \cup {"filter"}
      /\ UNCHANGED <<cell, column, filter, saved, begun, left, sending, handed,
                     updates, made, files, written, unnamed, call, calls>>
  BY SameParse DEF R!TakeRelationship
<1>2. /\ call = "parse" /\ caller' = caller /\ size' = size
      /\ malformed' = malformed /\ next' = next
      /\ column = cell /\ Sent = {} /\ ~saved /\ written = {} /\ ~begun
      /\ sending = <<>>
  <2>1. caller = "reading"
    BY <1>1 DEF TakeRow
  <2>2. call = "parse" /\ column = cell /\ Sent = {} /\ ~saved /\ written = {}
        /\ ~begun
    BY <2>1 DEF RInv, CallInv
  <2>3. sending = <<>>
    <3>1. sending \in Seq(Rel)
      BY RTypes DEF RInv
    <3>2. ToSet(sending) = {}
      BY <2>2 DEF Sent
    <3> QED
      BY <3>1, <3>2, RowsOf
  <2> QED
    BY <1>1, <2>2, <2>3 DEF TakeRow
<1>3. /\ taken' = Append(taken, r) /\ r \in R!Rows /\ r \in Nat
      /\ Len(taken') = Len(taken) + 1 /\ Len(taken) + 1 <= Len(RowModel)
      /\ ToSet(taken') = ToSet(taken) \cup {r}
      /\ \A x \in ToSet(taken) : x < r /\ x \in Nat
      /\ malformed = {} => r = Len(taken) + 1
      /\ Len(taken) \in Nat
  <2>1. /\ taken' = Append(taken, r) /\ Len(ch) = 1 /\ r \in 1 .. size
        /\ DOMAIN ch = {1} /\ ch[1] = r
    BY <1>1, TakeRowIs DEF RInv
  <2>2. taken \in Seq(1 .. size) /\ size \in Nat /\ next \in 1 .. size + 1
        /\ size \in {0, Len(RowModel)}
    BY DEF RInv, ParseInv, ParseTypeOK, CallInv
  <2>3. /\ Len(taken) \in Nat /\ Len(taken') = Len(taken) + 1
        /\ ToSet(taken') = ToSet(taken) \cup {r}
    BY <2>1, <2>2, Appended
  <2>4. \A i \in DOMAIN taken : taken[i] < r /\ taken[i] \in Nat
    BY <2>1, <2>2 DEF RInv, ParseInv, OrderInv
  <2>5. Len(taken) + 1 <= size /\ (malformed = {} => r = Len(taken) + 1)
    BY <2>1, <2>2, <2>3 DEF RInv, ParseInv, CountInv
  <2>6. Len(taken) + 1 <= Len(RowModel) /\ r \in R!Rows /\ r \in Nat
    BY <2>1, <2>2, <2>3, <2>5, TabRows
  <2> QED
    BY <2>1, <2>3, <2>4, <2>5, <2>6 DEF ToSet
<1>4. ParseInv'
  BY <1>1, TakeInv DEF RInv
<1>t. /\ rels \in Seq(Rel) /\ cell \in [R!Rows -> Nat] /\ currentRow \in Nat
      /\ made \in Nat /\ currentRow >= 3 /\ currentRow <= 3 + Len(taken)
      /\ Len(RowModel) \in Nat /\ R!Rows = 1 .. Len(RowModel)
      /\ R!Headers = 2
  BY RTypes, TabRows DEF RInv, RType, IndexInv
<1>5. rel \in Rel
  <2>1. currentRow - 2 \in R!Rows /\ currentRow = (currentRow - 2) + 2
    BY <1>3, <1>t
  <2>2. currentRow \in {x + R!Headers : x \in R!Rows}
    BY <1>t, <2>1
  <2>3. column[r] \in Nat
    BY <1>2, <1>3, <1>t
  <2> QED
    BY <1>3, <2>2, <2>3 DEF Rel
<1>6. /\ Held \subseteq Held' /\ Held' \subseteq Held \cup {rel} /\ Sent' = {}
      /\ wanted \/ Held' = Held
  <2>1. ToSet(Append(rels, rel)) = ToSet(rels) \cup {rel}
    BY <1>5, <1>t, Appended
  <2>2. Sent' = Sent
    BY <1>1 DEF Sent
  <2> QED
    BY <1>1, <1>2, <2>1, <2>2 DEF Held
<1>7. rel.row = r /\ rel.name = cell[r] /\ rel.index = currentRow
  BY <1>2
<1>w. /\ crooked' = {} => wanted /\ crooked = {}
      /\ rels' = rels \/ rels' = Append(rels, rel)
  BY <1>1
<1>c. /\ wanted => currentRow' = currentRow + 1
      /\ ~wanted => currentRow' = currentRow
  BY <1>1
<1> HIDE DEF r, rel, wanted
<1>8. RType'
  <2>1. rels' \in Seq(Rel)
    BY <1>5, <1>t, <1>w
  <2>2. currentRow' \in R!Headers + 1 .. R!Headers + 1 + Len(RowModel)
    BY <1>3, <1>c, <1>t
  <2>3. crooked' \in SUBSET {"filter", "malformed"}
    BY <1>1 DEF RInv, RType
  <2> QED
    BY <1>1, <1>4, <2>1, <2>2, <2>3 DEF RInv, RType, ParseInv
<1>9. CallInv'
  BY <1>1, <1>2, <1>6, <1>w DEF RInv, CallInv
<1>10. IndexInv'
  <2>1. currentRow' <= R!Headers + 1 + Len(taken')
    BY <1>3, <1>c, <1>t
  <2>2. ASSUME crooked' = {}, malformed = {}
        PROVE  /\ currentRow' = R!Headers + 1 + Len(taken')
               /\ \A u \in Held' : u.index = u.row + R!Headers
    <3>1. /\ currentRow = R!Headers + 1 + Len(taken) /\ currentRow' = currentRow + 1
          /\ \A u \in Held : u.index = u.row + R!Headers
      BY <1>2, <1>c, <1>w, <2>2 DEF RInv, IndexInv
    <3>2. rel.index = rel.row + R!Headers
      BY <1>3, <1>7, <1>t, <2>2, <3>1
    <3> QED
      BY <1>3, <1>6, <1>t, <3>1, <3>2
  <2> QED
    BY <1>1, <1>2, <2>1, <2>2 DEF IndexInv
<1>11. NameInv'
  <2>1. cell[r] <= made /\ \A u \in Held : u.name <= made
    BY <1>3 DEF RInv, NameInv
  <2>2. \A u \in Held' : u.name <= made
    BY <1>6, <1>7, <2>1
  <2>3. \A n \in 1 .. made, x \in R!Rows : Uses(n, x)' => Uses(n, x)
    BY <1>1, <1>6, <1>7 DEF Uses
  <2>4. \A x \in R!Rows : cell'[x] <= made /\ column'[x] <= made
    BY <1>1 DEF RInv, NameInv
  <2> QED
    BY <1>1, <1>w, <2>2, <2>3, <2>4, NameFrame DEF RInv
<1>12. RowInv'
  <2>1. /\ \A i, j \in DOMAIN rels : i < j => rels[i].row < rels[j].row
        /\ \A i \in DOMAIN rels : rels[i].row \in ToSet(taken)
        /\ \A i \in DOMAIN rels : rels[i].name = cell[rels[i].row]
    BY <1>2 DEF RInv, RowInv
  <2>2. /\ \A i, j \in DOMAIN rels' : i < j => rels'[i].row < rels'[j].row
        /\ \A i \in DOMAIN rels' : rels'[i].row \in ToSet(taken')
        /\ \A i \in DOMAIN rels' : rels'[i].name = cell[rels'[i].row]
    <3>1. CASE rels' = rels
      BY <1>3, <2>1, <3>1
    <3>2. CASE rels' = Append(rels, rel)
      <4>1. /\ DOMAIN rels' = 1 .. Len(rels) + 1 /\ DOMAIN rels = 1 .. Len(rels)
            /\ Len(rels) \in Nat
            /\ \A i \in DOMAIN rels : rels'[i] = rels[i]
            /\ rels'[Len(rels) + 1] = rel
        BY <1>t, <1>5, <3>2
      <4>2. \A i \in DOMAIN rels : rels[i].row < r
        BY <1>3, <2>1
      <4>3. \A i \in 1 .. Len(rels) + 1 : i \in 1 .. Len(rels) \/ i = Len(rels) + 1
        BY <4>1
      <4>4. \A i, j \in DOMAIN rels' : i < j => rels'[i].row < rels'[j].row
        BY <1>7, <2>1, <4>1, <4>2, <4>3
      <4> QED
        BY <1>3, <1>7, <2>1, <4>1, <4>3, <4>4
    <3> QED
      BY <1>w, <3>1, <3>2
  <2> QED
    BY <1>1, <1>2, <1>6, <2>2 DEF RowInv
<1>13. R!NamesRecorded'
  BY <1>1, <1>2 DEF R!NamesRecorded
<1> QED
  BY <1>4, <1>8, <1>9, <1>10, <1>11, <1>12, <1>13 DEF RInv

LEMMA RReturn ==
    ASSUME RInv, R!ParseReturn
    PROVE  RInv'
<1>1. /\ call = "parse" /\ caller = "done" /\ call' = "process"
      /\ UNCHANGED <<cell, column, filter, currentRow, saved, rels, begun,
                     left, sending, handed, updates, made, files, written, unnamed,
                     calls>>
  BY DEF R!ParseReturn, R!workVars
<1>p. UNCHANGED parseVars
  BY DEF R!ParseReturn, R!parseVars, parseVars
<1>c. /\ crooked' = {} => crooked = {} /\ malformed = {}
      /\ crooked' \in SUBSET {"filter", "malformed"}
  BY DEF R!ParseReturn, RInv, RType
<1>2. ParseInv'
  BY <1>p, ParseFrame DEF RInv
<1>3. Held' = Held /\ Sent' = Sent /\ Sent = {} /\ written = {}
  BY <1>1 DEF Held, Sent, RInv, CallInv
<1>4. RType'
  BY <1>1, <1>2, <1>c DEF RInv, ParseInv, RType
<1>5. CallInv'
  BY <1>1, <1>3, <1>p DEF RInv, CallInv, parseVars
<1>6. IndexInv'
  BY <1>1, <1>3, <1>c, <1>p DEF RInv, IndexInv, parseVars
<1>7. NameInv'
  BY <1>1, <1>3, <1>c DEF RInv, NameInv, Uses
<1>8. RowInv'
  BY <1>1, <1>3 DEF RInv, RowInv
<1>9. R!NamesRecorded'
  BY <1>1 DEF R!NamesRecorded
<1> QED
  BY <1>2, <1>4, <1>5, <1>6, <1>7, <1>8, <1>9 DEF RInv

\* The first of the rows that are left.
LEMMA HeadIs ==
    ASSUME RInv, rels # <<>>
    PROVE  /\ 1 \in DOMAIN rels /\ Head(rels) = rels[1] /\ Head(rels) \in Rel
           /\ Head(rels) \in Held /\ DOMAIN rels = 1 .. Len(rels)
           /\ Len(rels) \in Nat /\ rels \in Seq(Rel)
<1>1. rels \in Seq(Rel)
  BY RTypes DEF RInv
<1>2. /\ 1 \in DOMAIN rels /\ Head(rels) = rels[1]
      /\ DOMAIN rels = 1 .. Len(rels) /\ Len(rels) \in Nat
  BY <1>1
<1> QED
  BY <1>1, <1>2, RowsOf DEF Held

LEMMA RList ==
    ASSUME RInv, NEW dirs \in SUBSET Versions, R!ListVersions(dirs)
    PROVE  RInv'
<1>1. /\ call = "process" /\ rels # <<>> /\ begun' = TRUE
      /\ left' = IF Head(rels).row \in Withheld THEN {}
                 ELSE IF RowVersion[Head(rels).row] = Star THEN dirs
                 ELSE {RowVersion[Head(rels).row]}
      /\ UNCHANGED <<cell, column, filter, currentRow, saved, crooked, rels, sending,
                     handed, updates, made, files, written, unnamed, call, calls>>
  BY DEF R!ListVersions, R!tabVars
<1>p. UNCHANGED parseVars
  BY DEF R!ListVersions, R!parseVars, parseVars
<1>2. ParseInv'
  BY <1>p, ParseFrame DEF RInv
<1>3. Held' = Held /\ Sent' = Sent
  BY <1>1 DEF Held, Sent
<1>4. left' \in SUBSET Versions
  <2>1. Head(rels).row \in R!Rows
    BY <1>1, HeadIs DEF Rel
  <2>2. RowVersion[Head(rels).row] \in Versions \cup {Star}
    BY <2>1, RelationshipValues DEF R!RelationshipAssumption
  <2> QED
    BY <1>1, <2>2
<1>5. RType'
  BY <1>1, <1>2, <1>4 DEF RInv, ParseInv, RType
<1>6. CallInv'
  BY <1>1, <1>3, <1>p DEF RInv, CallInv, parseVars
<1>7. IndexInv'
  BY <1>1, <1>3, <1>p DEF RInv, IndexInv, parseVars
<1>8. NameInv'
  BY <1>1, <1>3 DEF RInv, NameInv, Uses
<1>9. RowInv'
  BY <1>1, <1>3, RowFrame DEF RInv
<1>10. R!NamesRecorded'
  BY <1>1 DEF R!NamesRecorded
<1> QED
  BY <1>2, <1>5, <1>6, <1>7, <1>8, <1>9, <1>10 DEF RInv

\* A version of the first row is processed: the row has a name then.
LEMMA ProcessingIs ==
    ASSUME RInv, NEW v \in Versions, R!Processing(v),
           NEW h, h = Head(rels), NEW n, n = R!Named(h)
    PROVE  /\ call = "process" /\ begun /\ v \in left
           /\ sending = <<>> /\ left' = left \ {v}
           /\ UNCHANGED <<cell, column, filter, currentRow, saved, crooked, begun,
                          handed, updates, call, calls>>
           /\ UNCHANGED parseVars
           /\ h \in Rel /\ h \in Held /\ 1 \in DOMAIN rels /\ h = rels[1]
           /\ n \in Rel /\ n.row = h.row /\ n.index = h.index
           /\ rels' \in Seq(Rel) /\ DOMAIN rels' = DOMAIN rels /\ rels'[1] = n
           /\ \A i \in DOMAIN rels : i \in Nat /\ (i # 1 => rels'[i] = rels[i])
           /\ made \in Nat /\ made' \in Nat /\ rels' # <<>>
           /\ \/ h.name # 0 /\ made' = made /\ n = h
              \/ h.name = 0 /\ made' = made + 1 /\ n.name = made + 1
<1>1. /\ call = "process" /\ begun /\ v \in left
      /\ sending = <<>> /\ left' = left \ {v}
      /\ rels' = <<n>> \o Tail(rels)
      /\ made' = IF h.name = 0 THEN made + 1 ELSE made
      /\ UNCHANGED <<cell, column, filter, currentRow, saved, crooked, begun,
                     handed, updates, call, calls>>
  BY TabRows DEF R!Processing, R!tabVars
<1>2. UNCHANGED parseVars
  BY DEF R!Processing, R!parseVars, parseVars
<1>3. rels # <<>>
  BY <1>1 DEF RInv, CallInv
<1>4. /\ h \in Rel /\ h \in Held /\ 1 \in DOMAIN rels /\ h = rels[1]
      /\ DOMAIN rels = 1 .. Len(rels) /\ Len(rels) \in Nat /\ rels \in Seq(Rel)
      /\ made \in Nat
  BY <1>3, HeadIs, RTypes DEF RInv
<1>5. /\ n \in Rel /\ n.row = h.row /\ n.index = h.index
      /\ h.name # 0 => n = h
      /\ h.name = 0 => n.name = made + 1
  <2>1. n = IF h.name = 0 THEN [h EXCEPT !.name = made + 1] ELSE h
    BY TabRows DEF R!Named
  <2>2. CASE h.name = 0
    <3>1. n = [h EXCEPT !.name = made + 1]
      BY <2>1, <2>2
    <3>2. /\ h = [row |-> h.row, index |-> h.index, name |-> h.name]
          /\ h.row \in R!Rows /\ h.index \in {r + R!Headers : r \in R!Rows}
      BY <1>4 DEF Rel
    <3>3. n = [row |-> h.row, index |-> h.index, name |-> made + 1]
      BY <3>1, <3>2
    <3> QED
      BY <1>4, <2>2, <3>2, <3>3 DEF Rel
  <2> QED
    BY <1>4, <2>1, <2>2
<1>6. /\ rels' \in Seq(Rel) /\ DOMAIN rels' = DOMAIN rels /\ rels'[1] = n
      /\ \A i \in DOMAIN rels : i # 1 => rels'[i] = rels[i]
      /\ rels' # <<>>
  <2>1. /\ Tail(rels) \in Seq(Rel) /\ Len(Tail(rels)) = Len(rels) - 1
        /\ \A i \in 1 .. Len(rels) - 1 : Tail(rels)[i] = rels[i + 1]
        /\ Len(rels) >= 1
    BY <1>3, <1>4
  <2>2. <<n>> \in Seq(Rel) /\ Len(<<n>>) = 1 /\ <<n>>[1] = n
    BY <1>5, One
  <2>3. /\ <<n>> \o Tail(rels) \in Seq(Rel)
        /\ Len(<<n>> \o Tail(rels)) = Len(rels)
        /\ (<<n>> \o Tail(rels))[1] = n
        /\ \A i \in 2 .. Len(rels) :
             (<<n>> \o Tail(rels))[i] = Tail(rels)[i - 1]
    BY <1>4, <2>1, <2>2
  <2>4. \A i \in 2 .. Len(rels) : rels'[i] = rels[i]
    <3> SUFFICES ASSUME NEW i \in 2 .. Len(rels) PROVE rels'[i] = rels[i]
      OBVIOUS
    <3>1. i - 1 \in 1 .. Len(rels) - 1 /\ (i - 1) + 1 = i
      BY <1>4
    <3> QED
      BY <1>1, <2>1, <2>3, <3>1
  <2>5. rels' \in Seq(Rel) /\ Len(rels') = Len(rels) /\ rels'[1] = n
    BY <1>1, <2>3
  <2>6. DOMAIN rels' = DOMAIN rels /\ rels' # <<>>
    BY <1>4, <2>1, <2>5
  <2> QED
    BY <1>4, <2>4, <2>5, <2>6
<1>7. made' \in Nat /\ \A i \in DOMAIN rels : i \in Nat
  BY <1>1, <1>4
<1>8. \/ h.name # 0 /\ made' = made /\ n = h
      \/ h.name = 0 /\ made' = made + 1 /\ n.name = made + 1
  BY <1>1, <1>5
<1> QED
  BY <1>1, <1>2, <1>4, <1>5, <1>6, <1>7, <1>8

\* A row that has a name keeps it, and uses it for the file.
LEMMA RKeeps ==
    ASSUME RInv, NEW v \in Versions, R!WriteVersion(v) \/ R!FailVersion(v),
           Head(rels).name # 0
    PROVE  RInv'
<1> DEFINE h == Head(rels)
           n == R!Named(h)
           f == [model |-> RowModel[n.row], version |-> v, name |-> n.name,
                 row |-> n.row]
<1>0. R!Processing(v)
  BY DEF R!WriteVersion, R!FailVersion
<1>1. /\ call = "process" /\ begun /\ sending = <<>> /\ left' = left \ {v}
      /\ UNCHANGED <<cell, column, filter, currentRow, saved, crooked, begun,
                     handed, updates, call, calls, made>>
      /\ UNCHANGED parseVars
      /\ h \in Rel /\ h \in Held /\ 1 \in DOMAIN rels /\ h = rels[1] /\ n = h
      /\ rels' \in Seq(Rel) /\ DOMAIN rels' = DOMAIN rels /\ rels'[1] = h
      /\ \A i \in DOMAIN rels : i \in Nat /\ (i # 1 => rels'[i] = rels[i])
      /\ made \in Nat /\ rels' # <<>>
  BY <1>0, ProcessingIs
<1>2. /\ sending' = <<>> /\ unnamed' = unnamed
      /\ \/ files' = files \cup {f} /\ written' = written \cup {f}
         \/ files' = files /\ written' = written
  BY <1>1, TabRows DEF R!WriteVersion, R!FailVersion
<1>3. f.row = h.row /\ f.name = h.name
  BY <1>1
<1>4. \A i \in DOMAIN rels : rels'[i] = rels[i]
  BY <1>1
<1>5. Held' = Held /\ Sent' = Sent
  <2>1. ToSet(rels') = ToSet(rels)
    BY <1>1, <1>4 DEF ToSet
  <2> QED
    BY <1>1, <1>2, <2>1 DEF Held, Sent
<1>6. ParseInv'
  BY <1>1, ParseFrame DEF RInv
<1>7. RType'
  <2>1. h.name \in 1 .. made
    BY <1>1 DEF Rel, RInv, NameInv
  <2>2. f \in [model : R!Models, version : Versions, name : 1 .. made,
               row : R!Rows]
    BY <1>1, <2>1 DEF Rel, R!Models
  <2>3. files' \in SUBSET [model : R!Models, version : Versions, name : 1 .. made,
                           row : R!Rows] /\ written' \in SUBSET files'
    BY <1>2, <2>2 DEF RInv, RType
  <2>4. /\ sending' \in Seq(Rel) /\ Len(sending') <= 1 /\ left' \in SUBSET Versions
    BY <1>1, <1>2 DEF RInv, RType
  <2> QED
    BY <1>1, <1>2, <1>6, <2>3, <2>4 DEF RInv, ParseInv, RType
<1> HIDE DEF h, n, f
<1>8. CallInv'
  BY <1>1, <1>2, <1>5 DEF RInv, CallInv, parseVars
<1>9. IndexInv'
  BY <1>1, <1>5 DEF RInv, IndexInv, parseVars
<1>10. NameInv'
  <2>1. \A m \in 1 .. made, r \in R!Rows : Uses(m, r)' => Uses(m, r)
    BY <1>1, <1>2, <1>3, <1>5 DEF Uses
  <2>2. /\ \A r \in R!Rows : cell'[r] <= made /\ column'[r] <= made
        /\ \A u \in Held' : u.name <= made
    BY <1>1, <1>5 DEF RInv, NameInv
  <2> QED
    BY <1>1, <2>1, <2>2, NameFrame DEF RInv
<1>11. RowInv'
  <2>1. Recorded(h.row, h.name)
    BY <1>1 DEF RInv, RowInv, Recorded
  <2>2. \A r, m : Recorded(r, m)' <=> Recorded(r, m)
    BY <1>1, <1>2, <1>5 DEF Recorded
  <2>3. \A g \in written' : Recorded(g.row, g.name)
    BY <1>1, <1>2, <1>3, <2>1 DEF RInv, RowInv
  <2> QED
    BY <1>1, <1>4, <1>5, <2>2, <2>3 DEF RInv, RowInv
<1>12. R!NamesRecorded'
  BY <1>1 DEF R!NamesRecorded
<1> QED
  BY <1>6, <1>7, <1>8, <1>9, <1>10, <1>11, <1>12 DEF RInv

\* A row without a name is given one that nobody uses; it is sent under that
\* name, or its file failed.
LEMMA RNames ==
    ASSUME RInv, NEW v \in Versions, R!WriteVersion(v) \/ R!FailVersion(v),
           Head(rels).name = 0
    PROVE  RInv'
<1> DEFINE h == Head(rels)
           n == R!Named(h)
           f == [model |-> RowModel[n.row], version |-> v, name |-> n.name,
                 row |-> n.row]
<1>0. R!Processing(v)
  BY DEF R!WriteVersion, R!FailVersion
<1>1. /\ call = "process" /\ begun /\ sending = <<>> /\ left' = left \ {v}
      /\ UNCHANGED <<cell, column, filter, currentRow, saved, crooked, begun,
                     handed, updates, call, calls>>
      /\ UNCHANGED parseVars
      /\ h \in Rel /\ h \in Held /\ 1 \in DOMAIN rels /\ h = rels[1]
      /\ n \in Rel /\ n.row = h.row /\ n.index = h.index
      /\ rels' \in Seq(Rel) /\ DOMAIN rels' = DOMAIN rels /\ rels'[1] = n
      /\ \A i \in DOMAIN rels : i \in Nat /\ (i # 1 => rels'[i] = rels[i])
      /\ made \in Nat /\ made' \in Nat /\ rels' # <<>>
      /\ h.name = 0 /\ made' = made + 1 /\ n.name = made + 1
  BY <1>0, ProcessingIs
<1>2. \/ /\ sending' = <<n>> /\ unnamed' = unnamed
         /\ files' = files \cup {f} /\ written' = written \cup {f}
      \/ /\ sending' = <<>> /\ unnamed' = unnamed \cup {h.row}
         /\ files' = files /\ written' = written
  BY <1>1, TabRows DEF R!WriteVersion, R!FailVersion
<1>n. n.row \in R!Rows
  BY <1>1 DEF Rel
<1>f. f \in [model : R!Models, version : Versions, name : 1 .. made', row : R!Rows]
  <2>1. made + 1 \in 1 .. made' /\ RowModel[n.row] \in R!Models
    BY <1>1, <1>n DEF R!Models
  <2> QED
    BY <1>1, <1>n, <2>1
<1>3. f.row = h.row /\ f.name = made + 1
  BY <1>1
<1>u. /\ files' \subseteq files \cup {f} /\ written' \subseteq written \cup {f}
      /\ unnamed \subseteq unnamed' /\ files \subseteq files'
      /\ sending' = <<n>> \/ (h.row \in unnamed' /\ written' = written)
      /\ \/ files' = files /\ written' = written
         \/ files' = files \cup {f} /\ written' = written \cup {f}
      /\ unnamed' \subseteq unnamed \cup {h.row}
      /\ sending' \in {<<n>>, <<>>}
  BY <1>2
<1> HIDE DEF h, n, f
<1>4. ParseInv'
  BY <1>1, ParseFrame DEF RInv
<1>5. /\ sending' \in Seq(Rel) /\ Len(sending') <= 1
      /\ ToSet(sending') \subseteq {n} /\ ToSet(sending) = {}
      /\ sending' = <<n>> => n \in ToSet(sending')
  <2>1. /\ <<n>> \in Seq(Rel) /\ Len(<<n>>) = 1 /\ ToSet(<<n>>) = {n}
    BY <1>1, One
  <2>2. <<>> \in Seq(Rel) /\ Len(<<>>) = 0 /\ ToSet(<<>>) = {}
    BY Empty
  <2>3. ToSet(sending) = {}
    BY <1>1, <2>2
  <2>4. CASE sending' = <<n>>
    BY <2>1, <2>3, <2>4
  <2>5. CASE sending' = <<>>
    <3>1. <<n>> # <<>>
      BY <2>1, <2>2
    <3>2. ToSet(sending') = {} /\ Len(sending') <= 1 /\ sending' \in Seq(Rel)
      BY <2>2, <2>5
    <3> QED
      BY <2>3, <2>5, <3>1, <3>2
  <2> QED
    BY <1>u, <2>4, <2>5
<1>6. /\ Held' \subseteq Held \cup {n} /\ Sent \subseteq Sent'
      /\ Sent' \subseteq Sent \cup {n}
      /\ sending' = <<n>> => n \in Sent'
  <2>1. ToSet(rels') \subseteq ToSet(rels) \cup {n}
    BY <1>1 DEF ToSet
  <2> QED
    BY <1>1, <1>5, <2>1 DEF Held, Sent
<1>7. RType'
  <2>2. \A g \in files :
          g \in [model : R!Models, version : Versions, name : 1 .. made',
                 row : R!Rows]
    <3>1. 1 .. made \subseteq 1 .. made'
      BY <1>1
    <3> QED
      BY <3>1 DEF RInv, RType
  <2>3. /\ files' \in SUBSET [model : R!Models, version : Versions, name : 1 .. made',
                              row : R!Rows]
        /\ written' \in SUBSET files'
    BY <1>u, <1>f, <2>2 DEF RInv, RType
  <2>4. left' \in SUBSET Versions /\ unnamed' \in SUBSET R!Rows
    BY <1>1, <1>u, <1>n DEF RInv, RType
  <2> QED
    BY <1>1, <1>4, <1>5, <2>3, <2>4 DEF RInv, ParseInv, RType
<1>8. CallInv'
  BY <1>1 DEF RInv, CallInv, parseVars
<1>9. IndexInv'
  BY <1>1, <1>6 DEF RInv, IndexInv, parseVars
<1>10. NameInv'
  <2>1. /\ \A r \in R!Rows : cell[r] <= made /\ column[r] <= made
                             /\ cell[r] \in Nat /\ column[r] \in Nat
        /\ \A u \in Held : u.name <= made /\ u.name \in Nat
        /\ \A g \in files : g.name \in 1 .. made
    BY RTypes DEF RInv, NameInv, Rel
  <2>2. /\ \A r \in R!Rows : cell'[r] <= made' /\ column'[r] <= made'
        /\ \A u \in Held' : u.name <= made'
    BY <1>1, <1>6, <2>1
  <2>3. \A m \in 1 .. made, r \in R!Rows : Uses(m, r)' => Uses(m, r)
    <3> SUFFICES ASSUME NEW m \in 1 .. made, NEW r \in R!Rows, Uses(m, r)'
                 PROVE  Uses(m, r)
      OBVIOUS
    <3>1. m # made + 1
      BY <1>1
    <3>2. \A u \in Held' : u.name = m => u \in Held
      BY <1>1, <1>6, <3>1
    <3>3. \A g \in files' : g.name = m => g \in files
      BY <1>3, <1>u, <3>1
    <3> QED
      BY <1>1, <3>2, <3>3 DEF Uses
  <2>4. \A m, r : r \in R!Rows /\ m = made + 1 /\ Uses(m, r)' => r = h.row
    <3>1. /\ \A r \in R!Rows : cell'[r] # made + 1 /\ column'[r] # made + 1
          /\ \A u \in Held : u.name # made + 1
          /\ \A g \in files : g.name # made + 1
      BY <1>1, <2>1
    <3> QED
      BY <1>1, <1>3, <1>6, <1>u, <3>1 DEF Uses
  <2>5. ASSUME crooked' = {}, NEW m \in 1 .. made', NEW r \in R!Rows,
               NEW s \in R!Rows, Uses(m, r)', Uses(m, s)'
        PROVE  r = s
    <3>1. m \in 1 .. made \/ m = made + 1
      BY <1>1
    <3>2. CASE m \in 1 .. made
      <4>1. Uses(m, r) /\ Uses(m, s) /\ crooked = {}
        BY <1>1, <2>3, <2>5, <3>2
      <4> QED
        BY <3>2, <4>1 DEF RInv, NameInv
    <3>3. CASE m = made + 1
      BY <2>4, <2>5, <3>3
    <3> QED
      BY <3>1, <3>2, <3>3
  <2> QED
    BY <2>2, <2>5 DEF NameInv
<1>11. RowInv'
  <2>1. /\ \A i \in DOMAIN rels' : rels'[i].row = rels[i].row
        /\ \A i \in DOMAIN rels : rels[i].row \in Nat
    <3>1. \A i \in DOMAIN rels : rels[i] \in Rel
      BY <1>1, RTypes DEF RInv
    <3>2. \A x \in Rel : x.row \in Nat
      BY TabRows DEF Rel
    <3>3. \A i \in DOMAIN rels : i = 1 \/ i # 1
      OBVIOUS
    <3> QED
      BY <1>1, <3>1, <3>2, <3>3
  <2>2. \A i \in DOMAIN rels : rels[i].row = h.row => i = 1
    <3>1. \A i \in DOMAIN rels : i # 1 => 1 < i
      BY <1>1, HeadIs
    <3>2. \A i \in DOMAIN rels : i # 1 => h.row < rels[i].row
      BY <1>1, <3>1 DEF RInv, RowInv
    <3> QED
      BY <1>1, <2>1, <3>2
  <2>3. \A u \in Sent :
          /\ u.name # 0 /\ cell[u.row] = 0
          /\ \A i \in DOMAIN rels :
               u.row = rels[i].row => i = 1 /\ u.name = rels[i].name
    BY <1>1, TabRows DEF RInv, RowInv
  <2>4. /\ \A u \in Sent : \A i \in DOMAIN rels : u.row # rels[i].row
        /\ \A u \in Sent : u.row # h.row
    BY <1>1, <2>3
  <2>5. cell[h.row] = 0 /\ n.name # 0
    BY <1>1, TabRows DEF RInv, RowInv
  <2>6. /\ \A r, m : Recorded(r, m) => Recorded(r, m)'
        /\ \A r, m : r = h.row /\ m = n.name => Recorded(r, m)'
    BY <1>1, <1>6, <1>u DEF Recorded
  <2>7. \A g \in written' : Recorded(g.row, g.name)'
    BY <1>1, <1>3, <1>u, <2>6 DEF RInv, RowInv
  <2>8. \A u \in Sent' :
          /\ u.name # 0 /\ cell[u.row] = 0
          /\ \A w \in Sent' : w.row = u.row => w.name = u.name
          /\ \A i \in DOMAIN rels' :
               u.row = rels'[i].row => i = 1 /\ u.name = rels'[i].name
    <3>1. \A u \in Sent : \A w \in Sent : w.row = u.row => w.name = u.name
      BY <1>1 DEF RInv, RowInv
    <3> QED
      BY <1>1, <1>6, <2>1, <2>2, <2>3, <2>4, <2>5, <3>1
  <2>9. \A i \in DOMAIN rels' : i # 1 => rels'[i].name = cell[rels'[i].row]
    BY <1>1 DEF RInv, RowInv
  <2>10. \A i, j \in DOMAIN rels' : i < j => rels'[i].row < rels'[j].row
    BY <1>1, <2>1 DEF RInv, RowInv
  <2> QED
    <3>1. \A i \in DOMAIN rels' : i = 1 =>
            /\ cell'[rels'[i].row] = 0 /\ rels'[i].name # 0
            /\ Recorded(rels[i].row, rels[i].name)'
      BY <1>1, <2>5, <2>6 DEF Recorded
    <3>2. call' = "process" /\ cell' = cell /\ R!NoName = 0
      BY <1>1, TabRows
    <3> QED
      BY <2>7, <2>8, <2>9, <2>10, <3>1, <3>2 DEF RowInv, Recorded
<1>12. R!NamesRecorded'
  BY <1>1 DEF R!NamesRecorded
<1> QED
  BY <1>4, <1>7, <1>8, <1>9, <1>10, <1>11, <1>12 DEF RInv

LEMMA RSend ==
    ASSUME RInv, R!SendUpdate
    PROVE  RInv'
<1>1. /\ sending # <<>> /\ handed = <<>> /\ handed' = sending /\ sending' = <<>>
      /\ UNCHANGED <<cell, column, filter, currentRow, saved, crooked, rels, begun,
                     left, updates, made, files, written, unnamed, call, calls>>
  BY DEF R!SendUpdate, R!tabVars
<1>p. UNCHANGED parseVars
  BY DEF R!SendUpdate, R!parseVars, parseVars
<1>2. ParseInv'
  BY <1>p, ParseFrame DEF RInv
<1>3. Held' = Held /\ Sent' = Sent
  BY <1>1, Empty DEF Held, Sent
<1>4. RType'
  <2>1. /\ handed' \in Seq(Rel) /\ Len(handed') <= 1
        /\ sending' \in Seq(Rel) /\ Len(sending') <= 1
    BY <1>1, Empty DEF RInv, RType
  <2> QED
    BY <1>1, <1>2, <2>1 DEF RInv, ParseInv, RType
<1>5. CallInv'
  BY <1>1, <1>3, <1>p DEF RInv, CallInv, parseVars
<1>6. IndexInv'
  BY <1>1, <1>3, <1>p DEF RInv, IndexInv, parseVars
<1>7. NameInv'
  BY <1>1, <1>3 DEF RInv, NameInv, Uses
<1>8. RowInv'
  BY <1>1, <1>3, <1>p, RowFrame DEF RInv, parseVars
<1>9. R!NamesRecorded'
  BY <1>1 DEF RInv, R!NamesRecorded
<1> QED
  BY <1>2, <1>4, <1>5, <1>6, <1>7, <1>8, <1>9 DEF RInv

LEMMA RCollect ==
    ASSUME RInv, R!Collect
    PROVE  RInv'
<1>1. /\ handed # <<>> /\ handed' = <<>> /\ updates' = updates \o handed
      /\ UNCHANGED <<cell, column, filter, currentRow, saved, crooked, rels, begun,
                     left, sending, made, files, written, unnamed, call, calls>>
  BY DEF R!Collect, R!tabVars
<1>p. UNCHANGED parseVars
  BY DEF R!Collect, R!parseVars, parseVars
<1>2. ParseInv'
  BY <1>p, ParseFrame DEF RInv
<1>3. /\ handed' \in Seq(Rel) /\ Len(handed') <= 1 /\ updates' \in Seq(Rel)
      /\ ToSet(updates') = ToSet(updates) \cup ToSet(handed)
      /\ ToSet(handed') = {}
  <2>1. updates \in Seq(Rel) /\ handed \in Seq(Rel)
    BY RTypes DEF RInv
  <2>2. /\ updates \o handed \in Seq(Rel)
        /\ ToSet(updates \o handed) = ToSet(updates) \cup ToSet(handed)
    BY <2>1, Concat
  <2>3. <<>> \in Seq(Rel) /\ Len(<<>>) <= 1 /\ ToSet(<<>>) = {}
    BY Empty
  <2> QED
    BY <1>1, <2>2, <2>3
<1>4. Held' = Held /\ Sent' = Sent
  BY <1>1, <1>3 DEF Held, Sent
<1>5. RType'
  BY <1>1, <1>2, <1>3 DEF RInv, ParseInv, RType
<1>6. CallInv'
  BY <1>1, <1>4, <1>p DEF RInv, CallInv, parseVars
<1>7. IndexInv'
  BY <1>1, <1>4, <1>p DEF RInv, IndexInv, parseVars
<1>8. NameInv'
  BY <1>1, <1>4 DEF RInv, NameInv, Uses
<1>9. RowInv'
  BY <1>1, <1>4, <1>p, RowFrame DEF RInv, parseVars
<1>10. R!NamesRecorded'
  BY <1>1 DEF RInv, R!NamesRecorded
<1> QED
  BY <1>2, <1>5, <1>6, <1>7, <1>8, <1>9, <1>10 DEF RInv

\* The first row is left behind: none of the others has been sent.
LEMMA RNext ==
    ASSUME RInv, R!NextRow
    PROVE  RInv'
<1>1. /\ call = "process" /\ begun /\ sending = <<>> /\ rels' = Tail(rels)
      /\ begun' = FALSE
      /\ UNCHANGED <<cell, column, filter, currentRow, saved, crooked, left,
                     sending, handed, updates, made, files, written, unnamed, call,
                     calls>>
  BY DEF R!NextRow, R!tabVars
<1>p. UNCHANGED parseVars
  BY DEF R!NextRow, R!parseVars, parseVars
<1>2. ParseInv'
  BY <1>p, ParseFrame DEF RInv
<1>3. /\ rels' \in Seq(Rel) /\ \A i \in DOMAIN rels' : i \in Nat
      /\ \A i \in DOMAIN rels' : i + 1 \in DOMAIN rels /\ i + 1 # 1
                                 /\ rels'[i] = rels[i + 1]
  <2>1. rels # <<>>
    BY <1>1 DEF RInv, CallInv
  <2>2. rels \in Seq(Rel) /\ Len(rels) \in Nat /\ DOMAIN rels = 1 .. Len(rels)
    BY <2>1, HeadIs
  <2>3. /\ Tail(rels) \in Seq(Rel) /\ Len(Tail(rels)) = Len(rels) - 1
        /\ DOMAIN Tail(rels) = 1 .. Len(rels) - 1
        /\ \A i \in 1 .. Len(rels) - 1 : Tail(rels)[i] = rels[i + 1]
    BY <2>1, <2>2
  <2>4. \A i \in 1 .. Len(rels) - 1 : i \in Nat /\ i + 1 \in DOMAIN rels /\ i + 1 # 1
    BY <2>2
  <2> QED
    BY <1>1, <2>3, <2>4
<1>4. Held' \subseteq Held /\ Sent' = Sent
  <2>1. ToSet(rels') \subseteq ToSet(rels)
    BY <1>3 DEF ToSet
  <2> QED
    BY <1>1, <2>1 DEF Held, Sent
<1>5. RType'
  BY <1>1, <1>2, <1>3 DEF RInv, ParseInv, RType
<1>6. CallInv'
  BY <1>1, <1>4, <1>p DEF RInv, CallInv, parseVars
<1>7. IndexInv'
  BY <1>1, <1>4, <1>p DEF RInv, IndexInv, parseVars
<1>8. NameInv'
  BY <1>1, <1>4, NameFrame DEF RInv, NameInv, Uses
<1>9. RowInv'
  <2>1. \A i, j \in DOMAIN rels' : i < j => rels'[i].row < rels'[j].row
    <3>1. \A i, j \in DOMAIN rels' : i < j => i + 1 < j + 1
      BY <1>3
    <3> QED
      BY <1>3, <3>1 DEF RInv, RowInv
  <2>2. \A i \in DOMAIN rels' : rels'[i].name = cell'[rels'[i].row]
    BY <1>1, <1>3 DEF RInv, RowInv
  <2>3. \A u \in Sent' :
          /\ u.name # R!NoName /\ cell'[u.row] = R!NoName
          /\ \A w \in Sent' : w.row = u.row => w.name = u.name
          /\ \A i \in DOMAIN rels' : u.row # rels'[i].row
    BY <1>1, <1>3, <1>4 DEF RInv, RowInv
  <2>4. \A f \in written' : Recorded(f.row, f.name)'
    BY <1>1, <1>4 DEF RInv, RowInv, Recorded
  <2> QED
    BY <1>1, <2>1, <2>2, <2>3, <2>4 DEF RowInv, Recorded
<1>10. R!NamesRecorded'
  BY <1>1 DEF R!NamesRecorded
<1> QED
  BY <1>2, <1>5, <1>6, <1>7, <1>8, <1>9, <1>10 DEF RInv

\* The names go to the rows they are meant for.
LEMMA RUpdate ==
    ASSUME RInv, R!UpdateRelationshipSheet
    PROVE  RInv'
<1>1. /\ call = "process" /\ rels = <<>> /\ handed = <<>> /\ call' = "idle"
      /\ \/ cell' = R!Updated /\ saved' = TRUE
         \/ cell' = cell /\ saved' = saved
      /\ UNCHANGED <<column, filter, currentRow, crooked, rels, begun, left,
                     sending, handed, updates, made, files, written, unnamed, calls>>
  BY DEF R!UpdateRelationshipSheet, R!workVars
<1>p. UNCHANGED parseVars
  BY DEF R!UpdateRelationshipSheet, R!parseVars, parseVars
<1>2. ParseInv'
  BY <1>p, ParseFrame DEF RInv
<1>3. Held' = Held /\ Sent' = Sent /\ Held = Sent /\ Sent = ToSet(updates)
      /\ sending = <<>> /\ begun = FALSE /\ ~saved /\ caller # "reading"
  <2>1. sending = <<>> /\ begun = FALSE /\ ~saved /\ caller # "reading"
    BY <1>1 DEF RInv, CallInv, RType
  <2> QED
    BY <1>1, <2>1, Empty DEF Held, Sent
<1>t. /\ cell \in [R!Rows -> Nat] /\ \A u \in Sent : u \in Rel
      /\ \A f \in written : f.name \in 1 .. made /\ f.row \in R!Rows
      /\ R!Headers = 2 /\ R!NoName = 0 /\ \A r \in R!Rows : r \in Nat
      /\ made \in Nat
  BY RTypes, TabRows, <1>3 DEF RInv
<1>4. \A r \in R!Rows :
        \/ R!Updated[r] = cell[r] /\ ~\E u \in Sent : u.index = r + 2
        \/ \E u \in Sent : u.index = r + 2 /\ R!Updated[r] = u.name
  <2> SUFFICES ASSUME NEW r \in R!Rows
               PROVE  \/ R!Updated[r] = cell[r] /\ ~\E u \in Sent : u.index = r + 2
                      \/ \E u \in Sent : u.index = r + 2 /\ R!Updated[r] = u.name
    OBVIOUS
  <2> DEFINE U == R!ToSet(updates)
             x == CHOOSE u \in U : u.index = r + R!Headers
  <2>1. R!Updated[r] = IF \E u \in U : u.index = r + R!Headers
                       THEN x.name ELSE cell[r]
    BY DEF R!Updated
  <2>2. (\E u \in U : u.index = r + R!Headers) => x \in U /\ x.index = r + R!Headers
    OBVIOUS
  <2> HIDE DEF x, U
  <2>3. U = Sent
    BY <1>3 DEF U, ToSet, R!ToSet
  <2> QED
    BY <1>t, <2>1, <2>2, <2>3
<1>5. \A r \in R!Rows :
        cell'[r] = cell[r] \/ \E u \in Sent : u.index = r + 2 /\ cell'[r] = u.name
  BY <1>1, <1>4
<1>6. RType'
  <2>1. R!Updated \in [R!Rows -> Nat]
    <3>1. \A r \in R!Rows : R!Updated[r] \in Nat
      BY <1>4, <1>t DEF Rel
    <3> QED
      BY <3>1 DEF R!Updated
  <2>2. cell' \in [R!Rows -> Nat] /\ saved' \in BOOLEAN
    <3>1. saved' \in BOOLEAN
      BY <1>1 DEF RInv, RType
    <3>2. cell' \in [R!Rows -> Nat]
      BY <1>1, <1>t, <2>1
    <3> QED
      BY <3>1, <3>2
  <2> QED
    BY <1>1, <1>2, <2>2 DEF RInv, ParseInv, RType
<1>7. CallInv'
  BY <1>1, <1>3, <1>p DEF RInv, CallInv, parseVars
<1>8. IndexInv'
  BY <1>1, <1>p DEF RInv, IndexInv, parseVars
<1>9. NameInv'
  <2>1. /\ \A r \in R!Rows : cell[r] <= made /\ column[r] <= made
        /\ \A u \in Sent : u.name <= made
    BY <1>3 DEF RInv, NameInv
  <2>2. \A r \in R!Rows : cell'[r] <= made /\ column'[r] <= made
    BY <1>1, <1>5, <2>1
  <2>3. ASSUME crooked' = {}
        PROVE  \A n \in 1 .. made, r \in R!Rows : Uses(n, r)' => Uses(n, r)
    <3>1. \A u \in Sent : u.index = u.row + 2
      BY <1>1, <1>3, <1>t, <2>3 DEF RInv, IndexInv
    <3>2. \A u \in Sent, r \in R!Rows : u.index = r + 2 => u.row = r
      <4>1. \A u \in Sent : u.row \in Nat
        BY <1>t DEF Rel
      <4> QED
        BY <1>t, <3>1, <4>1
    <3>3. \A n \in 1 .. made, r \in R!Rows : cell'[r] = n => Uses(n, r)
      BY <1>3, <1>5, <3>2 DEF Uses
    <3> QED
      BY <1>1, <1>3, <3>3 DEF Uses
  <2> QED
    BY <1>1, <1>3, <2>1, <2>2, <2>3, NameFrame DEF RInv
<1>10. RowInv'
  BY <1>1, Empty DEF RowInv
<1>11. R!NamesRecorded'
  <2>1. SUFFICES ASSUME crooked' = {}, cell' = R!Updated, NEW f \in written
                 PROVE  cell'[f.row] = f.name \/ f.row \in unnamed
    BY <1>1, <1>3 DEF R!NamesRecorded
  <2>2. \A u \in Sent : u.index = u.row + 2 /\ u.row \in Nat
    <3>1. \A u \in Sent : u.index = u.row + 2
      BY <1>1, <1>3, <1>t, <2>1 DEF RInv, IndexInv
    <3> QED
      BY <1>t, <3>1 DEF Rel
  <2>3. \A u \in Sent : u.index = f.row + 2 <=> u.row = f.row
    <3>1. f.row \in Nat
      BY <1>t
    <3> QED
      BY <2>2, <3>1
  <2>4. \/ f.row \in unnamed \/ cell[f.row] = f.name
        \/ \E u \in Sent : u.row = f.row /\ u.name = f.name
    BY <1>1 DEF RInv, RowInv, Recorded
  <2>5. \A u \in Sent : /\ u.name # 0 /\ cell[u.row] = 0
                        /\ \A w \in Sent : w.row = u.row => w.name = u.name
    BY <1>1, <1>t DEF RInv, RowInv
  <2>6. f.name # 0 /\ f.row \in R!Rows
    BY <1>t
  <2>7. CASE cell[f.row] = f.name
    BY <1>4, <2>1, <2>3, <2>5, <2>6, <2>7
  <2>8. CASE \E u \in Sent : u.row = f.row /\ u.name = f.name
    BY <1>4, <2>1, <2>3, <2>5, <2>6, <2>8
  <2> QED
    BY <2>4, <2>7, <2>8
<1> QED
  BY <1>2, <1>6, <1>7, <1>8, <1>9, <1>10, <1>11 DEF RInv

LEMMA RCrash ==
    ASSUME RInv, R!Crash
    PROVE  RInv'
<1>1. /\ call # "idle" /\ call' = "idle" /\ parser' = "off" /\ caller' = "off"
      /\ rels' = <<>> /\ begun' = FALSE /\ left' = {}
      /\ sending' = <<>> /\ handed' = <<>> /\ updates' = <<>>
      /\ UNCHANGED <<size, next, cancelled, ch, errs, taken, malformed, broken, cell,
                     column, filter, currentRow, saved, crooked, made, files,
                     written, unnamed, calls>>
  BY DEF R!Crash, R!tabVars
<1>2. ParseInv'
  BY <1>1, StopInv DEF RInv
<1>3. Held' = {} /\ Sent' = {} /\ ~saved
  BY <1>1, Empty DEF Held, Sent, RInv, CallInv
<1>4. RType'
  <2>1. <<>> \in Seq(Rel) /\ Len(<<>>) <= 1
    BY Empty
  <2>2. /\ rels' \in Seq(Rel) /\ sending' \in Seq(Rel) /\ handed' \in Seq(Rel)
        /\ updates' \in Seq(Rel) /\ Len(sending') <= 1 /\ Len(handed') <= 1
    BY <1>1, <2>1
  <2> QED
    BY <1>1, <1>2, <2>2 DEF RInv, ParseInv, RType
<1>5. CallInv'
  BY <1>1, <1>3 DEF RInv, CallInv
<1>6. IndexInv'
  BY <1>1 DEF RInv, IndexInv
<1>7. NameInv'
  BY <1>1, <1>3, NameFrame DEF RInv, NameInv, Uses
<1>8. RowInv'
  BY <1>1, Empty DEF RowInv
<1>9. R!NamesRecorded'
  BY <1>1, <1>3 DEF R!NamesRecorded
<1> QED
  BY <1>2, <1>4, <1>5, <1>6, <1>7, <1>8, <1>9 DEF RInv

LEMMA RStep ==
    ASSUME RInv, [R!Next]_R!vars
    PROVE  RInv'
<1>1. CASE UNCHANGED R!vars
  <2>1. /\ UNCHANGED <<cell, column, filter, currentRow, saved, crooked, rels, begun,
                       left, sending, handed, updates, made, files, written,
                       unnamed, call, calls>>
    BY <1>1 DEF R!vars, R!tabVars, R!workVars
  <2>p. UNCHANGED parseVars
    BY <1>1 DEF R!vars, R!parseVars, parseVars
  <2>2. ParseInv'
    BY <2>p, ParseFrame DEF RInv
  <2>3. Held' = Held /\ Sent' = Sent
    BY <2>1 DEF Held, Sent
  <2>4. RType'
    BY <2>1, <2>2 DEF RInv, ParseInv, RType
  <2>5. CallInv' /\ IndexInv'
    BY <2>1, <2>3, <2>p DEF RInv, CallInv, IndexInv, parseVars
  <2>6. NameInv'
    BY <2>1, <2>3 DEF RInv, NameInv, Uses
  <2>7. RowInv'
    BY <2>1, <2>3, <2>p, RowFrame DEF RInv, parseVars
  <2>8. R!NamesRecorded'
    BY <2>1 DEF RInv, R!NamesRecorded
  <2> QED
    BY <2>2, <2>4, <2>5, <2>6, <2>7, <2>8 DEF RInv
<1>2. ASSUME NEW v \in Versions, R!WriteVersion(v) \/ R!FailVersion(v)
      PROVE  RInv'
  BY <1>2, RKeeps, RNames
<1> QED
  BY <1>1, <1>2, RBegin, RParse, RTake, RReturn, RList, RSend, RNext, RUpdate,
     RCollect, RCrash
  DEF R!Next, R!CallerRuns, R!Process

\* RInv holds in every reachable state.
THEOREM RelationshipsInvariance == R!Spec => []RInv
BY RInit, RStep, PTL DEF R!Spec

\* Names that were made up once are not those of two rows.
LEMMA NamesApart == RInv => R!FilesDistinct
<1> SUFFICES ASSUME RInv, crooked = {}, NEW f \in files, NEW g \in files,
                    f.name = g.name
             PROVE  f.row = g.row
  BY DEF R!FilesDistinct
<1>1. /\ f.name \in 1 .. made /\ f.row \in R!Rows /\ g.row \in R!Rows
  BY RTypes DEF RInv
<1>2. Uses(f.name, f.row) /\ Uses(f.name, g.row)
  BY DEF Uses
<1> QED
  BY <1>1, <1>2 DEF RInv, NameInv
-----------------------------------------------------------------------------
(***************************************************************************)
(* Either tab: the invariant of the one the behaviour is about, and what   *)
(* was true of the other at first.                                         *)
(***************************************************************************)
SheetInv ==
    \/ part = "components" /\ CInv /\ files = {} /\ ~saved
    \/ part = "relationships" /\ RInv

LEMMA SheetInit == SheetsInit => SheetInv
<1> SUFFICES ASSUME SheetsInit PROVE SheetInv
  OBVIOUS
<1>1. CInv /\ RInv
  BY CInit, RInit DEF SheetsInit
<1>2. files = {} /\ ~saved
  BY DEF SheetsInit, R!Init
<1> QED
  BY <1>1, <1>2 DEF SheetsInit, SheetInv

LEMMA SheetStep ==
    ASSUME SheetInv, [SheetsNext]_<<part, inBoth, components, relationships>>
    PROVE  SheetInv'
<1>1. CASE ComponentsNext
  <2>1. /\ part = "components" /\ part' = part /\ Next
        /\ UNCHANGED <<files, saved>>
    BY <1>1 DEF ComponentsNext, relationships
  <2>2. CInv /\ files = {} /\ ~saved
    BY <2>1 DEF SheetInv
  <2>3. CInv'
    BY <2>1, <2>2, CStep
  <2> QED
    BY <2>1, <2>2, <2>3 DEF SheetInv
<1>2. CASE RelationshipsNext
  <2>1. part = "relationships" /\ part' = part /\ R!Next
    BY <1>2 DEF RelationshipsNext
  <2>2. RInv
    BY <2>1 DEF SheetInv
  <2>3. RInv'
    BY <2>1, <2>2, RStep
  <2> QED
    BY <2>1, <2>3 DEF SheetInv
<1>3. CASE UNCHANGED <<part, inBoth, components, relationships>>
  <2>1. UNCHANGED part /\ UNCHANGED <<files, saved>>
    BY <1>3 DEF relationships
  <2>2. UNCHANGED vars
    BY <1>3 DEF inBoth, components, vars
  <2>3. UNCHANGED R!vars
    BY <1>3 DEF inBoth, relationships, parseVars, R!vars, R!parseVars, R!tabVars,
                R!workVars
  <2>4. CInv => CInv'
    BY <2>2, CStep
  <2>5. RInv => RInv'
    BY <2>3, RStep
  <2> QED
    BY <2>1, <2>4, <2>5 DEF SheetInv
<1> QED
  BY <1>1, <1>2, <1>3 DEF SheetsNext

\* SheetInv holds in every reachable state.
THEOREM SheetsInvariance == SheetsSpec => []SheetInv
BY SheetInit, SheetStep, PTL DEF SheetsSpec

\* Either tab, and all that is made of it, has its type.
THEOREM SheetsTyped == SheetsSpec => []TypesOK
<1>1. SheetInv => TypesOK
  BY SameType DEF SheetInv, CInv, RInv, TypesOK
<1> QED
  BY SheetsInvariance, <1>1, PTL

\* No relationship overwrites the file of another, for every tab, every choice
\* of rows withheld and versions, and every sequence of calls, failures and
\* crashes in which all rows were counted.
THEOREM FilesApart == SheetsSpec => []FilesDistinct
<1>1. SheetInv => FilesDistinct
  <2>1. files = {} => R!FilesDistinct
    BY DEF R!FilesDistinct
  <2> QED
    BY <2>1, NamesApart DEF SheetInv, FilesDistinct
<1> QED
  BY SheetsInvariance, <1>1, PTL

\* A call that has updated the tab has left in it the name of every file it
\* wrote, but for rows whose first file failed.
THEOREM NamesKept == SheetsSpec => []NamesRecorded
<1>1. SheetInv => NamesRecorded
  <2>1. ~saved => R!NamesRecorded
    BY DEF R!NamesRecorded
  <2> QED
    BY <2>1 DEF SheetInv, RInv, NamesRecorded
<1> QED
  BY SheetsInvariance, <1>1, PTL
=============================================================================
