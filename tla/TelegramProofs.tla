---------------------------- MODULE TelegramProofs ----------------------------
(***************************************************************************)
(* Proofs about the settings store and the Telegram listener on it, for any *)
(* keys and any number of updates, saves, failures, repeats and restarts.  *)
(***************************************************************************)
EXTENDS TelegramListener, FiniteSetTheorems, TLAPS

Table == [Keys -> Nat]

Selection == [rows : Table, late : BOOLEAN]

LEMMA KeyTypes == /\ Enabled \in Keys /\ Offset \in Keys /\ Version \in Keys
                  /\ Enabled # Offset /\ Enabled # Version /\ Offset # Version
                  /\ Enabled \in Announced /\ Offset \notin Announced
                  /\ Version \notin Announced /\ Announced \subseteq Keys
  BY StoreAssumption, ListenerAssumption DEF Keys

\* A table of settings is never mistaken for no table.
LEMMA TableWarm == \A t \in Table : t # Cold
<1> SUFFICES ASSUME NEW t \in Table, t = Cold PROVE FALSE
  OBVIOUS
<1>1. DOMAIN t = Keys /\ DOMAIN Cold = 1 .. 0
  BY DEF Table, Cold
<1> QED
  BY <1>1, KeyTypes

LEMMA SelectionRefills == \A s \in Selection : s # NoRefill
<1> SUFFICES ASSUME NEW s \in Selection, s = NoRefill PROVE FALSE
  OBVIOUS
<1>1. s.rows \in Table /\ s.rows = <<>>
  BY DEF Selection, NoRefill
<1> QED
  BY <1>1, TableWarm DEF Cold

\* One row of a table, written.
LEMMA WriteRow ==
  ASSUME NEW t \in Table, NEW k \in Keys, NEW v \in Nat
  PROVE  /\ [t EXCEPT ![k] = v] \in Table
         /\ Over(Row(k, v), t) = [t EXCEPT ![k] = v]
  BY DEF Table, Over, Row

LEMMA CountRow ==
  ASSUME NEW t \in Table
  PROVE  /\ Counted(t) \in Table
         /\ Counted(t)[Version] # t[Version]
  BY KeyTypes DEF Table, Counted

-------------------------------------------------------------------------------
(* Types.                                                                  *)

\* The contexts in which counts wait: a batch of the listener, a save of the page.
InBatch == pc \in {"batch", "saving", "handling", "running"}

InPage == loop \in {"filled", "flushing", "leaving"}

Deferring == deferred = (IF InBatch THEN 1 ELSE 0) + (IF InPage THEN 1 ELSE 0)

\* The update the loop works on is there, and presses are of buttons that were made.
Placed ==
  /\ pc \in {"saving", "handling", "running"} => batch # <<>>
  /\ pc = "saving" => loop = "saving"
  /\ \A i \in Ids : sent[i] \in 0 .. Len(ran)
  /\ pc = "running" => sent[Head(batch)] # Request

StoreTables ==
  /\ rows \in Table /\ draft \in Table
  /\ cache \in Table \cup {Cold}
  /\ selecting \in Selection \cup {NoRefill}
  /\ loop \in Stages
  /\ owed \subseteq Announced
  /\ pending \in BOOLEAN

LEMMA StoreTypeParts == StoreTypeOK <=> StoreTables /\ deferred \in Nat
  BY DEF StoreTypeOK, StoreTables, Table, Selection

LEMMA StoreTypePartsNext == StoreTypeOK' <=> StoreTables' /\ deferred' \in Nat
  BY DEF StoreTypeOK, StoreTables, Table, Selection

\* What a step of the whole does to the store: it reads, writes one of the two keys,
\* opens or closes a batch's context, or ends the process.
Writes ==
  \E v \in Nat :
    \/ FillBuffer(Row(Enabled, v))
    \/ SetSetting(Enabled, v, TRUE) \/ SetSetting(Enabled, v, FALSE)
    \/ SetSetting(Offset, v, TRUE)

Opens ==
  /\ EnterDefer
  /\ UNCHANGED <<rows, draft, loop, cache, selecting, pending, owed, excused, overtaken>>

StoreActs ==
  \/ UNCHANGED storeVars
  \/ ReadStep \/ Flush \/ Leave
  \/ Writes
  \/ Commit \/ WriteFails
  \/ Opens
  \/ loop = "free" /\ LeaveDefer
  \/ StoreRestart

LEMMA StoreSteps ==
  ASSUME ListenerTypeOK, Placed, ListenerNext
  PROVE  StoreActs
<1>1. ASSUME Edit PROVE Writes
  BY <1>1 DEF Edit, Writes
<1>2. ASSUME Take PROVE Writes
  <2>1. Head(batch) \in Nat
    BY <1>2 DEF Take, ListenerTypeOK, Ids
  <2> QED
    BY <1>2, <2>1 DEF Take, Writes
<1>3. ASSUME Answer PROVE UNCHANGED storeVars \/ Opens
  BY <1>3 DEF Answer, Opens, storeVars
<1>4. ASSUME Poll \/ PollFails \/ HandleRequest \/ HandlePress \/ RunAction
      PROVE  UNCHANGED storeVars
  BY <1>4 DEF Poll, PollFails, HandleRequest, HandlePress, RunAction
<1>5. ASSUME (\E t \in Tokens \cup {Request} : Send(t)) \/ \E t \in actions : ActionExpires(t)
      PROVE  UNCHANGED storeVars
  BY <1>5 DEF Send, ActionExpires
<1>6. ASSUME StoreStep \/ Committed \/ NotCommitted \/ EndBatch \/ Restart
      PROVE  StoreActs
  BY <1>6 DEF StoreStep, Committed, NotCommitted, EndBatch, Restart, StoreActs
<1> QED
  BY <1>1, <1>2, <1>3, <1>4, <1>5, <1>6 DEF ListenerNext, StoreActs

\* The cache after one row was changed in place.
LEMMA InPlaceRow ==
  ASSUME StoreTables, NEW k \in Keys, NEW v \in Nat
  PROVE  /\ InPlace(Row(k, v)) \in Table \cup {Cold}
         /\ Warm => InPlace(Row(k, v)) = [cache EXCEPT ![k] = v]
         /\ ~Warm => InPlace(Row(k, v)) = Cold
<1>1. CASE Warm
  <2>1. cache \in Table
    BY <1>1 DEF Warm, StoreTables
  <2>2. InPlace(Row(k, v)) = Over(Row(k, v), cache)
    BY <1>1 DEF InPlace
  <2>3. /\ [cache EXCEPT ![k] = v] \in Table
        /\ Over(Row(k, v), cache) = [cache EXCEPT ![k] = v]
    BY <2>1, WriteRow
  <2> QED
    BY <1>1, <2>2, <2>3
<1>2. CASE ~Warm
  BY <1>2 DEF InPlace
<1> QED
  BY <1>1, <1>2

LEMMA StoreTablesStep ==
  ASSUME StoreTables, StoreActs
  PROVE  StoreTables'
<1>1. CASE UNCHANGED storeVars
  BY <1>1 DEF StoreTables, storeVars
<1>2. CASE Refill
  BY <1>2 DEF Refill, StoreTables
<1>3. CASE WorkerSelects
  BY <1>3 DEF WorkerSelects, StoreTables, Selection
<1>4. CASE WorkerStores
  <2>1. selecting \in Selection
    BY <1>4 DEF WorkerStores, Refilling, StoreTables
  <2> QED
    BY <1>4, <2>1 DEF WorkerStores, StoreTables, Selection
<1>5. CASE TtlPasses
  BY <1>5 DEF TtlPasses, StoreTables
<1>6. CASE Flush
  BY <1>6 DEF Flush, StoreTables, Stages
<1>7. CASE LeaveDefer
  BY <1>7, CountRow DEF LeaveDefer, StoreTables, Stages
<1>8. CASE Writes
  <2>1. ASSUME NEW v \in Nat, FillBuffer(Row(Enabled, v)) PROVE StoreTables'
    <3>1. Over(Row(Enabled, v), rows) \in Table
      BY KeyTypes DEF StoreTables, Table, Over, Row
    <3>2. InPlace(Row(Enabled, v)) \in Table \cup {Cold}
      BY KeyTypes, InPlaceRow
    <3> QED
      BY <2>1, <3>1, <3>2 DEF FillBuffer, StoreTables, Stages
  <2>2. ASSUME NEW k \in {Enabled, Offset}, NEW v \in Nat, NEW c \in BOOLEAN,
               SetSetting(k, v, c)
        PROVE  StoreTables'
    <3>1. [rows EXCEPT ![k] = v] \in Table
      BY KeyTypes, WriteRow DEF StoreTables
    <3>2. draft' \in Table
      BY <2>2, <3>1, CountRow DEF SetSetting
    <3>3. cache' \in Table \cup {Cold}
      BY <2>2, KeyTypes, InPlaceRow DEF SetSetting
    <3>4. pending' \in BOOLEAN
      BY <2>2 DEF SetSetting
    <3> QED
      BY <2>2, <3>2, <3>3, <3>4 DEF SetSetting, StoreTables, Stages
  <2> QED
    BY <1>8, <2>1, <2>2 DEF Writes
<1>9. CASE Commit
  <2>1. selecting' \in Selection \cup {NoRefill}
    BY <1>9 DEF Commit, Refilling, StoreTables, Selection
  <2> QED
    BY <1>9, <2>1 DEF Commit, AfterWrite, Changed, StoreTables, Stages
<1>10. CASE WriteFails
  BY <1>10 DEF WriteFails, AfterWrite, StoreTables, Stages
<1>11. CASE Opens
  BY <1>11 DEF Opens, StoreTables
<1>12. CASE StoreRestart
  BY <1>12 DEF StoreRestart, StoreTables, Stages
<1> QED
  BY <1>1, <1>2, <1>3, <1>4, <1>5, <1>6, <1>7, <1>8, <1>9, <1>10, <1>11, <1>12
     DEF StoreActs, ReadStep, Leave

LEMMA DeferringStep ==
  ASSUME Deferring, Placed, ListenerNext
  PROVE  Deferring'
<1>1. ASSUME UNCHANGED <<deferred, loop, pc>> PROVE Deferring'
  BY <1>1 DEF Deferring, InBatch, InPage
<1>2. CASE Edit
  BY <1>2 DEF Edit, FillBuffer, SetSetting, Deferring, InBatch, InPage
<1>3. CASE StoreStep
  <2>1. CASE ReadStep
    BY <1>1, <1>3, <2>1
       DEF StoreStep, ReadStep, Refill, WorkerSelects, WorkerStores, TtlPasses, listenerVars
  <2>2. CASE Flush \/ Leave
    BY <1>3, <2>2 DEF StoreStep, Flush, Leave, LeaveDefer, listenerVars, Deferring, InBatch, InPage
  <2> QED
    BY <1>3, <2>1, <2>2 DEF StoreStep
<1>4. CASE Committed
  BY <1>4 DEF Committed, Commit, AfterWrite, Taken, listenerVars, Deferring, InBatch, InPage
<1>5. CASE NotCommitted
  BY <1>5 DEF NotCommitted, WriteFails, AfterWrite, Abandon, Deferring, InBatch, InPage
<1>6. CASE Answer
  BY <1>6 DEF Answer, EnterDefer, Deferring, InBatch, InPage
<1>7. CASE Take
  BY <1>7 DEF Take, SetSetting, Deferring, InBatch, InPage
<1>8. CASE Poll \/ PollFails \/ HandleRequest \/ HandlePress \/ RunAction
  BY <1>8 DEF Poll, PollFails, HandleRequest, HandlePress, RunAction, Done, storeVars,
              Deferring, InBatch, InPage
<1>9. CASE EndBatch
  BY <1>9 DEF EndBatch, LeaveDefer, Deferring, InBatch, InPage
<1>10. CASE Restart
  BY <1>10 DEF Restart, StoreRestart, Deferring, InBatch, InPage
<1>11. CASE (\E t \in Tokens \cup {Request} : Send(t)) \/ \E t \in actions : ActionExpires(t)
  BY <1>1, <1>11 DEF Send, ActionExpires, storeVars
<1> QED
  BY <1>2, <1>3, <1>4, <1>5, <1>6, <1>7, <1>8, <1>9, <1>10, <1>11 DEF ListenerNext

\* What the listener's own variables are, with Placed.
ListenerTypes == ListenerTypeOK /\ Placed

LEMMA HeadTail ==
  ASSUME ListenerTypeOK, batch # <<>>
  PROVE  /\ Head(batch) \in Ids /\ Head(batch) \in Nat
         /\ Tail(batch) \in Seq(Ids)
         /\ batch[1] = Head(batch)
  BY DEF ListenerTypeOK, Ids

\* One entry of a sequence of counts goes up.
LEMMA CountUp ==
  ASSUME NEW s \in Seq(Nat), NEW i \in 1 .. Len(s)
  PROVE  /\ [s EXCEPT ![i] = @ + 1] \in Seq(Nat)
         /\ Len([s EXCEPT ![i] = @ + 1]) = Len(s)
         /\ [s EXCEPT ![i] = @ + 1][i] = s[i] + 1
         /\ \A j \in 1 .. Len(s) \ {i} : [s EXCEPT ![i] = @ + 1][j] = s[j]
  OBVIOUS

\* The update is over.
LEMMA DoneTypes ==
  ASSUME ListenerTypeOK, batch # <<>>, Done(Head(batch))
  PROVE  /\ handled' \in Seq(Nat) /\ Len(handled') = Len(sent)
         /\ batch' \in Seq(Ids) /\ pc' = "batch"
<1>1. handled \in Seq(Nat) /\ Head(batch) \in 1 .. Len(handled) /\ Tail(batch) \in Seq(Ids)
  BY HeadTail DEF ListenerTypeOK, Ids
<1>2. /\ [handled EXCEPT ![Head(batch)] = @ + 1] \in Seq(Nat)
      /\ Len([handled EXCEPT ![Head(batch)] = @ + 1]) = Len(handled)
  BY <1>1, CountUp
<1> QED
  BY <1>1, <1>2 DEF Done, ListenerTypeOK

\* What an answer holds, in order.
LEMMA InOrder ==
  ASSUME ListenerTypeOK, NEW ids \in Ordered(Kept)
  PROVE  /\ ids \in Seq(Ids) /\ ids \in Seq(Kept)
         /\ \A m, n \in 1 .. Len(ids) : m < n => ids[m] < ids[n]
         /\ \A i \in Kept : \E n \in 1 .. Len(ids) : ids[n] = i
<1>1. Kept \subseteq Ids
  BY DEF Kept, ListenerTypeOK
<1>2. Cardinality(Kept) \in Nat
  <2>1. IsFiniteSet(Ids)
    BY FS_Interval DEF Ids, ListenerTypeOK
  <2> QED
    BY <1>1, <2>1, FS_Subset, FS_CardinalityType
<1>3. /\ ids \in [1 .. Cardinality(Kept) -> Kept]
      /\ \A m, n \in DOMAIN ids : m < n => ids[m] < ids[n]
      /\ \A i \in Kept : \E n \in DOMAIN ids : ids[n] = i
  BY DEF Ordered
<1>4. ids \in Seq(Kept) /\ DOMAIN ids = 1 .. Len(ids)
  BY <1>2, <1>3
<1>5. ids \in Seq(Ids)
  BY <1>1, <1>2, <1>3
<1> QED
  BY <1>3, <1>4, <1>5

LEMMA ListenerTypesStep ==
  ASSUME StoreTables, ListenerTypes, ListenerNext
  PROVE  ListenerTypes'
<1> USE DEF ListenerTypes
<1>1. ASSUME UNCHANGED listenerVars, pc # "saving" PROVE ListenerTypes'
  BY <1>1 DEF listenerVars, ListenerTypeOK, Placed, Ids, Tokens
<1>2. ASSUME NEW t \in Tokens \cup {Request}, Send(t) PROVE ListenerTypes'
  <2>1. /\ sent' = Append(sent, t) /\ handled' = Append(handled, 0)
        /\ queue' = queue \cup {Len(sent) + 1}
        /\ UNCHANGED <<loop, pc, offset, batch, seen, actions, ran, cut>>
    BY <1>2 DEF Send, storeVars
  <2>2. /\ Len(sent) \in Nat /\ Len(sent') = Len(sent) + 1 /\ t \in 0 .. Len(ran)
        /\ Len(ran) \in Nat
        /\ sent' \in Seq(Nat) /\ handled' \in Seq(Nat) /\ Len(handled') = Len(sent')
    BY <2>1 DEF ListenerTypeOK, Tokens, Request
  <2>3. Ids \subseteq Ids' /\ Ids' = Ids \cup {Len(sent) + 1}
    BY <2>2 DEF Ids
  <2>4. batch' \in Seq(Ids')
    BY <2>1, <2>3 DEF ListenerTypeOK
  <2>5. ListenerTypeOK'
    BY <2>1, <2>2, <2>3, <2>4 DEF ListenerTypeOK, Tokens
  <2>6. \A i \in Ids' : sent'[i] \in 0 .. Len(ran)
    BY <2>1, <2>2, <2>3 DEF ListenerTypeOK, Placed, Ids
  <2>7. batch # <<>> => sent'[Head(batch)] = sent[Head(batch)]
    BY <2>1, HeadTail DEF ListenerTypeOK, Ids
  <2> QED
    BY <2>1, <2>5, <2>6, <2>7 DEF Placed
<1>3. ASSUME NEW t \in actions, ActionExpires(t) PROVE ListenerTypes'
  BY <1>3 DEF ActionExpires, storeVars, ListenerTypeOK, Placed, Ids, Tokens
<1>4. ASSUME Edit PROVE ListenerTypes'
  BY <1>4 DEF Edit, FillBuffer, SetSetting, ListenerTypeOK, Placed, Ids, Tokens
<1>5. ASSUME StoreStep PROVE ListenerTypes'
  <2>1. /\ UNCHANGED listenerVars
        /\ loop' = loop \/ loop # "saving"
    BY <1>5 DEF StoreStep, ReadStep, Refill, WorkerSelects, WorkerStores, TtlPasses, Flush, Leave
  <2> QED
    BY <2>1 DEF listenerVars, ListenerTypeOK, Placed, Ids, Tokens
<1>6. ASSUME Committed PROVE ListenerTypes'
  <2>1. CASE loop = "saving" /\ pc = "saving"
    <3>1. Taken
      BY <1>6, <2>1 DEF Committed
    <3>2. /\ batch # <<>>
          /\ batch' \in {batch, Tail(batch)}
          /\ pc' = "batch" \/ (pc' = "handling" /\ batch' = batch)
      BY <2>1, <3>1 DEF Taken, Placed
    <3>3. ListenerTypeOK'
      BY <3>1, <3>2, HeadTail DEF Taken, ListenerTypeOK, Ids, Tokens, Places
    <3> QED
      BY <3>1, <3>2, <3>3 DEF Taken, Placed, Ids
  <2>2. CASE ~(loop = "saving" /\ pc = "saving")
    BY <1>1, <1>6, <2>2 DEF Committed, Placed
  <2> QED
    BY <2>1, <2>2
<1>7. ASSUME NotCommitted PROVE ListenerTypes'
  <2>1. CASE loop = "saving" /\ pc = "saving"
    <3>1. Abandon /\ batch # <<>>
      BY <1>7, <2>1 DEF NotCommitted, Placed
    <3>2. cut' \subseteq Ids
      BY <3>1, HeadTail DEF Abandon, ListenerTypeOK
    <3> QED
      BY <3>1, <3>2 DEF Abandon, ListenerTypeOK, Placed, Ids, Tokens, Places
  <2>2. CASE ~(loop = "saving" /\ pc = "saving")
    BY <1>7, <2>2 DEF NotCommitted, ListenerTypeOK, Placed, Ids, Tokens
  <2> QED
    BY <2>1, <2>2
<1>8. ASSUME Poll \/ PollFails PROVE ListenerTypes'
  BY <1>8 DEF Poll, PollFails, Kept, storeVars, ListenerTypeOK, Placed, Ids, Tokens, Places
<1>9. ASSUME Answer PROVE ListenerTypes'
  <2>1. Kept \subseteq Ids
    BY DEF Kept, ListenerTypeOK
  <2>2. batch' \in Seq(Ids)
    <3>1. PICK ids \in Ordered(Kept) : batch' = ids \/ \E i \in Ids : batch' = Append(ids, i)
      BY <1>9 DEF Answer
    <3>2. ids \in Seq(Ids)
      BY <3>1, InOrder
    <3> QED
      BY <3>1, <3>2
  <2> QED
    BY <1>9, <2>1, <2>2
       DEF Answer, EnterDefer, ListenerTypeOK, Placed, Ids, Tokens, Places
<1>10. ASSUME Take PROVE ListenerTypes'
  <2>1. loop' = "saving" /\ pc' = "saving" /\ batch # <<>> /\ offset' = Head(batch) + 1
    BY <1>10 DEF Take, SetSetting
  <2>2. offset' \in Nat
    BY <2>1, HeadTail
  <2>3. UNCHANGED <<sent, queue, batch, seen, actions, handled, ran, cut>>
    BY <1>10 DEF Take
  <2> QED
    BY <2>1, <2>2, <2>3 DEF ListenerTypeOK, Placed, Ids, Tokens, Places
<1>11. ASSUME HandleRequest PROVE ListenerTypes'
  <2>1. batch # <<>> /\ Done(Head(batch))
    BY <1>11 DEF HandleRequest, Placed
  <2>2. /\ ran' = Append(ran, 0) /\ actions' = actions \cup {Len(ran) + 1}
        /\ UNCHANGED <<loop, sent, queue, offset, seen, cut>>
    BY <1>11 DEF HandleRequest, storeVars
  <2>3. handled' \in Seq(Nat) /\ Len(handled') = Len(sent) /\ batch' \in Seq(Ids) /\ pc' = "batch"
    BY <2>1, DoneTypes
  <2>4. ran' \in Seq(Nat) /\ Len(ran') = Len(ran) + 1 /\ Len(ran) \in Nat
    BY <2>2 DEF ListenerTypeOK
  <2>5. actions' \subseteq Tokens'
    <3>1. Tokens \subseteq Tokens' /\ Len(ran) + 1 \in Tokens'
      BY <2>4 DEF Tokens
    <3> QED
      BY <2>2, <3>1 DEF ListenerTypeOK
  <2>6. Placed'
    BY <2>2, <2>3, <2>4 DEF Placed, Ids
  <2> QED
    BY <2>2, <2>3, <2>4, <2>5, <2>6 DEF ListenerTypeOK, Ids, Places
<1>12. ASSUME HandlePress PROVE ListenerTypes'
  <2>1. batch # <<>> /\ sent[Head(batch)] # Request
    BY <1>12 DEF HandlePress, Placed
  <2>2. /\ actions' \subseteq actions
        /\ \/ pc' = "running" /\ UNCHANGED <<batch, handled>>
           \/ Done(Head(batch))
        /\ UNCHANGED <<loop, sent, queue, offset, seen, ran, cut>>
    BY <1>12 DEF HandlePress, storeVars
  <2>3. CASE pc' = "running" /\ UNCHANGED <<batch, handled>>
    BY <2>1, <2>2, <2>3 DEF ListenerTypeOK, Placed, Ids, Tokens, Places
  <2>4. CASE Done(Head(batch))
    <3>1. handled' \in Seq(Nat) /\ Len(handled') = Len(sent) /\ batch' \in Seq(Ids) /\ pc' = "batch"
      BY <2>1, <2>4, DoneTypes
    <3> QED
      BY <2>2, <3>1 DEF ListenerTypeOK, Placed, Ids, Tokens, Places
  <2> QED
    BY <2>2, <2>3, <2>4
<1>13. ASSUME RunAction PROVE ListenerTypes'
  <2>1. batch # <<>> /\ sent[Head(batch)] # Request /\ Done(Head(batch))
    BY <1>13 DEF RunAction, Placed
  <2>2. /\ ran' = [ran EXCEPT ![sent[Head(batch)]] = @ + 1]
        /\ UNCHANGED <<loop, sent, queue, offset, seen, actions, cut>>
    BY <1>13 DEF RunAction, storeVars
  <2>3. handled' \in Seq(Nat) /\ Len(handled') = Len(sent) /\ batch' \in Seq(Ids) /\ pc' = "batch"
    BY <2>1, DoneTypes
  <2>4. ran' \in Seq(Nat) /\ Len(ran') = Len(ran)
    <3>1. Head(batch) \in Ids /\ ran \in Seq(Nat)
      BY <2>1, HeadTail DEF ListenerTypeOK
    <3>2. sent[Head(batch)] \in 1 .. Len(ran)
      BY <2>1, <3>1 DEF Placed, Request
    <3> QED
      BY <2>2, <3>1, <3>2, CountUp
  <2> QED
    BY <2>2, <2>3, <2>4 DEF ListenerTypeOK, Placed, Ids, Tokens, Places
<1>14. ASSUME EndBatch PROVE ListenerTypes'
  BY <1>14 DEF EndBatch, ListenerTypeOK, Placed, Ids, Tokens, Places
<1>15. ASSUME Restart PROVE ListenerTypes'
  <2>1. rows[Offset] + 1 \in Nat
    BY KeyTypes DEF StoreTables, Table
  <2>2. cut' \subseteq Ids
    BY <1>15, HeadTail DEF Restart, Placed, ListenerTypeOK
  <2> QED
    BY <1>15, <2>1, <2>2 DEF Restart, ListenerTypeOK, Placed, Ids, Tokens, Places
<1> QED
  BY <1>2, <1>3, <1>4, <1>5, <1>6, <1>7, <1>8, <1>9, <1>10, <1>11, <1>12, <1>13, <1>14,
     <1>15 DEF ListenerNext

-------------------------------------------------------------------------------
(* The store's promises.                                                   *)

\* Who defers owes no count after the last of them; a changed row that no version
\* counts is one whose count is to come or was lost.
Counting ==
  /\ pending => deferred > 0
  /\ owed # {} => pending \/ excused \/ loop = "bumping"
  /\ loop \in {"filled", "flushing", "saving"} /\ Changed # {} /\ draft[Version] = rows[Version]
        => pending \/ excused
  /\ loop = "bumping" => draft[Version] # rows[Version]

\* Unless it was overtaken, the cache is the table, or what the open write makes of it.
Current ==
  /\ loop \in {"free", "leaving"} => draft = rows
  /\ Warm /\ ~overtaken =>
        /\ loop \in {"free", "leaving"} => cache = rows
        /\ loop = "saving" => cache = draft
        /\ loop # "bumping"
  /\ Refilling /\ ~selecting.late => selecting.rows = rows

\* A write of one announced or quiet row, as the loop makes it.
LEMMA OneWrite ==
  ASSUME StoreTables, deferred \in Nat,
         NEW k \in {Enabled, Offset}, NEW v \in Nat, NEW c \in BOOLEAN,
         SetSetting(k, v, c)
  PROVE  /\ loop = "free" /\ loop' = "saving"
         /\ UNCHANGED <<rows, selecting, deferred, owed, overtaken>>
         /\ \/ /\ draft' = [rows EXCEPT ![k] = v]
               /\ cache' = InPlace(Row(k, v))
               /\ k \notin Announced \/ pending' \/ excused'
            \/ draft'[Version] # rows[Version] /\ cache' = Cold
         /\ pending => pending'
         /\ excused => excused'
         /\ pending' => pending \/ deferred > 0
<1>1. k \in Keys /\ [rows EXCEPT ![k] = v] \in Table
  BY KeyTypes, WriteRow DEF StoreTables
<1>2. [rows EXCEPT ![k] = v][Version] = rows[Version]
  BY KeyTypes DEF StoreTables, Table
<1>3. Counted([rows EXCEPT ![k] = v])[Version] # rows[Version]
  BY <1>1, <1>2, CountRow
<1> DEFINE table  == [rows EXCEPT ![k] = v]
           due    == k \in Announced /\ deferred = 0
<1>4. /\ loop = "free" /\ loop' = "saving"
      /\ UNCHANGED <<rows, selecting, deferred, owed, overtaken>>
      /\ pending' = (pending \/ (k \in Announced /\ ~due))
      /\ excused' = (excused \/ (due /\ ~c))
      /\ due /\ c => draft' = Counted(table) /\ cache' = Cold
      /\ ~(due /\ c) => draft' = table /\ cache' = InPlace(Row(k, v))
  BY DEF SetSetting
<1>5. pending' => pending \/ deferred > 0
  <2>1. deferred # 0 => deferred > 0
    OBVIOUS
  <2> QED
    BY <1>4, <2>1, Zenon
<1>6. ~(due /\ c) => k \notin Announced \/ pending' \/ excused'
  BY <1>4
<1>7. due /\ c => draft'[Version] # rows[Version] /\ cache' = Cold
  BY <1>3, <1>4
<1> QED
  BY <1>4, <1>5, <1>6, <1>7

LEMMA CountingStep ==
  ASSUME StoreTables, deferred \in Nat, Counting, StoreActs
  PROVE  Counting'
<1>1. CASE UNCHANGED storeVars
  BY <1>1 DEF Counting, storeVars, Changed
<1>2. CASE ReadStep
  BY <1>2 DEF ReadStep, Refill, WorkerSelects, WorkerStores, TtlPasses, Counting, Changed
<1>3. CASE Flush
  BY <1>3 DEF Flush, Counting, Changed
<1>4. CASE LeaveDefer /\ loop \in {"free", "leaving"}
  BY <1>4, CountRow DEF LeaveDefer, Counting, StoreTables
<1>5. CASE Writes
  <2>1. ASSUME NEW v \in Nat, FillBuffer(Row(Enabled, v)) PROVE Counting'
    BY <2>1 DEF FillBuffer, Counting
  <2>2. ASSUME NEW k \in {Enabled, Offset}, NEW v \in Nat, NEW c \in BOOLEAN,
               SetSetting(k, v, c)
        PROVE  Counting'
    <3>1. k \notin Announced /\ draft' = [rows EXCEPT ![k] = v] => Changed' = {}
      <4>1. \A x \in Announced : x # k /\ x \in Keys => [rows EXCEPT ![k] = v][x] = rows[x]
        BY DEF StoreTables, Table
      <4>2. rows' = rows
        BY <2>2, OneWrite
      <4> QED
        BY <4>1, <4>2, KeyTypes DEF Changed
    <3> QED
      BY <2>2, <3>1, OneWrite DEF Counting
  <2> QED
    BY <1>5, <2>1, <2>2 DEF Writes
<1>6. CASE Commit
  BY <1>6 DEF Commit, AfterWrite, Counting
<1>7. CASE WriteFails
  BY <1>7 DEF WriteFails, AfterWrite, Counting
<1>8. CASE Opens
  BY <1>8 DEF Opens, EnterDefer, Counting, Changed
<1>9. CASE StoreRestart
  BY <1>9 DEF StoreRestart, Counting
<1> QED
  BY <1>1, <1>2, <1>3, <1>4, <1>5, <1>6, <1>7, <1>8, <1>9 DEF StoreActs, Leave

LEMMA CurrentStep ==
  ASSUME StoreTables, deferred \in Nat, Current, StoreActs
  PROVE  Current'
<1>1. CASE UNCHANGED storeVars
  BY <1>1 DEF Current, storeVars, Warm, Refilling
<1>2. CASE ReadStep
  <2>1. CASE Refill \/ TtlPasses
    BY <2>1 DEF Refill, TtlPasses, Current, Warm, Refilling
  <2>2. CASE WorkerSelects
    BY <2>2 DEF WorkerSelects, Current, Warm, Refilling
  <2>3. CASE WorkerStores
    <3>1. loop \in {"free", "filled", "leaving"} \/ overtaken'
      BY <2>3 DEF WorkerStores, StoreTables, Stages
    <3>2. cache' = rows \/ overtaken'
      BY <2>3 DEF WorkerStores, Current
    <3> QED
      BY <2>3, <3>1, <3>2 DEF WorkerStores, Current, Warm, Refilling
  <2> QED
    BY <1>2, <2>1, <2>2, <2>3 DEF ReadStep
<1>3. CASE Flush
  BY <1>3 DEF Flush, Current, Warm, Refilling
<1>4. CASE LeaveDefer /\ loop \in {"free", "leaving"}
  BY <1>4 DEF LeaveDefer, Current, Warm, Refilling
<1>5. CASE Writes
  <2>1. ASSUME NEW v \in Nat, FillBuffer(Row(Enabled, v)) PROVE Current'
    BY <2>1 DEF FillBuffer, Current, Warm, Refilling
  <2>2. ASSUME NEW k \in {Enabled, Offset}, NEW v \in Nat, NEW c \in BOOLEAN,
               SetSetting(k, v, c)
        PROVE  Current'
    <3>1. /\ loop = "free" /\ loop' = "saving"
          /\ UNCHANGED <<rows, selecting, overtaken>>
          /\ \/ draft' = [rows EXCEPT ![k] = v] /\ cache' = InPlace(Row(k, v))
             \/ cache' = Cold
      BY <2>2, OneWrite
    <3>2. Warm => InPlace(Row(k, v)) = [cache EXCEPT ![k] = v]
      BY KeyTypes, InPlaceRow
    <3>3. ~Warm => InPlace(Row(k, v)) = Cold
      BY KeyTypes, InPlaceRow
    <3>4. Warm' /\ ~overtaken' => cache' = draft'
      BY <3>1, <3>2, <3>3 DEF Current, Warm
    <3> QED
      BY <3>1, <3>4 DEF Current, Refilling
  <2> QED
    BY <1>5, <2>1, <2>2 DEF Writes
<1>6. CASE Commit
  <2>1. Refilling' => selecting'.late
    BY <1>6 DEF Commit, Refilling, StoreTables, Selection
  <2> QED
    BY <1>6, <2>1 DEF Commit, AfterWrite, Current, Warm
<1>7. CASE WriteFails
  BY <1>7 DEF WriteFails, AfterWrite, Current, Warm, Refilling
<1>8. CASE Opens
  BY <1>8 DEF Opens, Current, Warm, Refilling
<1>9. CASE StoreRestart
  BY <1>9 DEF StoreRestart, Current, Warm, Refilling
<1> QED
  BY <1>1, <1>2, <1>3, <1>4, <1>5, <1>6, <1>7, <1>8, <1>9 DEF StoreActs, Leave

-------------------------------------------------------------------------------
(* The buttons.                                                            *)

\* An action that is still registered, or was just taken out, has not run.
Buttons ==
  /\ \A t \in actions : ran[t] = 0
  /\ pc = "running" => /\ sent[Head(batch)] \notin actions
                       /\ ran[sent[Head(batch)]] = 0
  /\ ActionRunsOnce

LEMMA ButtonsStep ==
  ASSUME ListenerTypes, Buttons, ListenerNext
  PROVE  Buttons'
<1> USE DEF ListenerTypes
<1>1. ASSUME UNCHANGED ran, actions' \subseteq actions,
             pc' = "running" => pc = "running" /\ UNCHANGED <<sent, batch>>
      PROVE  Buttons'
  BY <1>1 DEF Buttons, ActionRunsOnce, Tokens
<1>2. ASSUME NEW t \in Tokens \cup {Request}, Send(t) PROVE Buttons'
  <2>1. UNCHANGED <<ran, actions, batch, pc>> /\ sent' = Append(sent, t)
    BY <1>2 DEF Send
  <2>2. \A i \in Ids : sent'[i] = sent[i]
    BY <2>1 DEF ListenerTypeOK, Ids
  <2>3. pc = "running" => sent'[Head(batch)] = sent[Head(batch)]
    BY <2>2, HeadTail DEF Placed
  <2> QED
    BY <2>1, <2>3 DEF Buttons, ActionRunsOnce, Tokens
<1>3. ASSUME NEW t \in actions, ActionExpires(t) PROVE Buttons'
  BY <1>1, <1>3 DEF ActionExpires
<1>4. ASSUME Edit \/ StoreStep PROVE Buttons'
  BY <1>1, <1>4 DEF Edit, StoreStep, listenerVars
<1>5. ASSUME Committed PROVE Buttons'
  BY <1>1, <1>5 DEF Committed, Taken, listenerVars
<1>6. ASSUME NotCommitted PROVE Buttons'
  BY <1>1, <1>6 DEF NotCommitted, Abandon
<1>7. ASSUME Poll \/ PollFails \/ Answer \/ Take \/ EndBatch PROVE Buttons'
  BY <1>1, <1>7 DEF Poll, PollFails, Answer, Take, EndBatch
<1>8. ASSUME HandleRequest PROVE Buttons'
  <2>1. /\ ran' = Append(ran, 0) /\ actions' = actions \cup {Len(ran) + 1}
        /\ pc' = "batch"
    BY <1>8 DEF HandleRequest, Done
  <2>2. /\ Tokens' = Tokens \cup {Len(ran) + 1}
        /\ ran'[Len(ran) + 1] = 0
        /\ \A t \in Tokens : ran'[t] = ran[t]
    BY <2>1 DEF ListenerTypeOK, Tokens
  <2>3. actions \subseteq Tokens
    BY DEF ListenerTypeOK
  <2>4. \A t \in actions' : ran'[t] = 0
    BY <2>1, <2>2, <2>3 DEF Buttons
  <2>5. \A t \in Tokens' : ran'[t] <= 1
    BY <2>2 DEF Buttons, ActionRunsOnce
  <2> QED
    BY <2>1, <2>4, <2>5 DEF Buttons, ActionRunsOnce
<1>9. ASSUME HandlePress PROVE Buttons'
  <2>1. /\ UNCHANGED <<ran, sent>>
        /\ \/ /\ sent[Head(batch)] \in actions
              /\ actions' = actions \ {sent[Head(batch)]}
              /\ UNCHANGED batch
           \/ pc' = "batch" /\ UNCHANGED actions
    BY <1>9 DEF HandlePress, Done
  <2> QED
    BY <2>1 DEF Buttons, ActionRunsOnce, Tokens
<1>10. ASSUME RunAction PROVE Buttons'
  <2> DEFINE t == sent[Head(batch)]
  <2>1. /\ pc = "running" /\ pc' = "batch" /\ UNCHANGED actions
        /\ ran' = [ran EXCEPT ![t] = @ + 1]
    BY <1>10 DEF RunAction, Done
  <2>2. ran \in Seq(Nat) /\ t \in 1 .. Len(ran)
    BY <2>1, HeadTail DEF Placed, ListenerTypeOK, Request
  <2>3. /\ Tokens' = Tokens
        /\ ran'[t] = ran[t] + 1
        /\ \A u \in Tokens \ {t} : ran'[u] = ran[u]
    BY <2>1, <2>2, CountUp DEF Tokens
  <2>4. ran'[t] = 1 /\ t \notin actions /\ actions \subseteq Tokens
    BY <2>1, <2>3 DEF Buttons, ListenerTypeOK
  <2>5. \A u \in actions : ran'[u] = 0
    BY <2>3, <2>4 DEF Buttons
  <2>6. \A u \in Tokens : ran'[u] <= 1
    BY <2>3, <2>4 DEF Buttons, ActionRunsOnce
  <2> QED
    BY <2>1, <2>3, <2>5, <2>6 DEF Buttons, ActionRunsOnce
<1>11. ASSUME Restart PROVE Buttons'
  BY <1>1, <1>11 DEF Restart
<1> QED
  BY <1>2, <1>3, <1>4, <1>5, <1>6, <1>7, <1>8, <1>9, <1>10, <1>11 DEF ListenerNext

-------------------------------------------------------------------------------
(* The theorems.                                                           *)

ListenerInv ==
  /\ StoreTables /\ Deferring /\ ListenerTypes
  /\ Counting /\ Current /\ Buttons

LEMMA ListenerStarts == ListenerInit => ListenerInv
<1> SUFFICES ASSUME ListenerInit PROVE ListenerInv
  OBVIOUS
<1> USE DEF ListenerInit, StoreInit
<1>1. StoreTables
  BY DEF StoreTables, Table, Stages
<1>2. Deferring /\ ListenerTypes
  BY DEF Deferring, InBatch, InPage, ListenerTypes, ListenerTypeOK, Placed, Ids, Tokens, Places
<1>3. Counting /\ Current /\ Buttons
  BY DEF Counting, Current, Warm, Refilling, Buttons, ActionRunsOnce, Tokens
<1> QED
  BY <1>1, <1>2, <1>3 DEF ListenerInv

LEMMA ListenerStepKeeps == ListenerInv /\ [ListenerNext]_vars => ListenerInv'
<1> SUFFICES ASSUME ListenerInv, [ListenerNext]_vars PROVE ListenerInv'
  OBVIOUS
<1> USE DEF ListenerInv
<1>1. deferred \in Nat
  BY DEF Deferring
<1>2. CASE ListenerNext
  <2>1. StoreActs
    BY <1>2, StoreSteps DEF ListenerTypes
  <2>2. StoreTables' /\ Counting' /\ Current'
    BY <1>1, <2>1, StoreTablesStep, CountingStep, CurrentStep
  <2>3. Deferring' /\ ListenerTypes' /\ Buttons'
    BY <1>2, DeferringStep, ListenerTypesStep, ButtonsStep DEF ListenerTypes
  <2> QED
    BY <2>2, <2>3
<1>3. CASE UNCHANGED vars
  <2>1. UNCHANGED storeVars /\ UNCHANGED listenerVars
    BY <1>3 DEF vars
  <2>2. StoreTables' /\ Counting' /\ Current'
    BY <1>1, <2>1, StoreTablesStep, CountingStep, CurrentStep DEF StoreActs
  <2>3. Deferring' /\ ListenerTypes' /\ Buttons'
    BY <2>1 DEF storeVars, listenerVars, Deferring, InBatch, InPage, ListenerTypes, ListenerTypeOK,
                Placed, Ids, Tokens, Buttons, ActionRunsOnce
  <2> QED
    BY <2>2, <2>3
<1> QED
  BY <1>2, <1>3

THEOREM ListenerInvariant == ListenerSpec => []ListenerInv
  BY ListenerStarts, ListenerStepKeeps, PTL DEF ListenerSpec

\* Types: the settings table, its cache and a refill under way map keys to values.
THEOREM StoreTypeCorrect == ListenerSpec => []StoreTypeOK
<1>1. ListenerInv => StoreTypeOK
  BY StoreTypeParts DEF ListenerInv, Deferring
<1> QED
  BY <1>1, ListenerInvariant, PTL

\* Types: an answer holds ids of updates that were sent, a token names a registered action.
THEOREM ListenerTypeCorrect == ListenerSpec => []ListenerTypeOK
<1>1. ListenerInv => ListenerTypeOK
  BY DEF ListenerInv, ListenerTypes
<1> QED
  BY <1>1, ListenerInvariant, PTL

\* A reader on the loop gets the committed value, unless a refill or a failed write came
\* between (get_setting, set_setting and the flush of the buffer).
THEOREM CacheIsCurrent == ListenerSpec => []ReadsAreCurrent
<1>1. ListenerInv => ReadsAreCurrent
  BY DEF ListenerInv, Current, ReadsAreCurrent
<1> QED
  BY <1>1, ListenerInvariant, PTL

\* However the deferring contexts of the listener and of the settings page nest, no
\* announced change is left without a count (defer_settings_version_bump).
THEOREM CountsAreKept == ListenerSpec => []ChangesAreCounted
<1>1. ListenerInv => ChangesAreCounted
  BY DEF ListenerInv, Counting, ChangesAreCounted
<1> QED
  BY <1>1, ListenerInvariant, PTL

\* The action behind a button runs once at most (_pop_pending_action).
THEOREM ButtonActsOnce == ListenerSpec => []ActionRunsOnce
<1>1. ListenerInv => ActionRunsOnce
  BY DEF ListenerInv, Buttons
<1> QED
  BY <1>1, ListenerInvariant, PTL

===============================================================================
