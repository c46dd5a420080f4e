---------------------------- MODULE DeliveryProofs ----------------------------
(***************************************************************************)
(* Proofs that the Telegram listener loses no update but those that were    *)
(* cut short, and carries out none twice, for any number of updates, saves, *)
(* failures, repeats and restarts.                                         *)
(***************************************************************************)
EXTENDS TelegramProofs

\* The update's handler ran, or a failure or a restart kept it from running.
Settled(i) == handled[i] > 0 \/ i \in cut

InHand == pc \in {"handling", "running"}

\* The update the loop has taken out of the answer.
Taking(i) == (pc = "saving" \/ InHand) /\ i = Head(batch)

Handling(i) == InHand /\ i = Head(batch)

\* The row of the offset, while it is written and while it is not.
SavedOffset ==
  /\ offset <= Len(sent) + 1
  /\ rows[Offset] <= Len(sent)
  /\ pc = "saving" => draft[Offset] = Head(batch) /\ offset = Head(batch) + 1
  /\ pc # "saving" => draft[Offset] = rows[Offset]

\* What is older than an update of the answer is settled or comes before it there.
NoneSkipped ==
  \A n \in 1 .. Len(batch) : \A i \in Ids :
     i < batch[n] => Settled(i) \/ \E m \in 1 .. Len(batch) : m < n /\ batch[m] = i

\* Whatever the loop, the table or Telegram has moved past is settled.
Passed ==
  /\ NoneSkipped
  /\ \A i \in Ids : i < offset => Settled(i) \/ Taking(i)
  /\ \A i \in seen : Settled(i) \/ Handling(i)
  /\ \A i \in Ids : i <= rows[Offset] => Settled(i) \/ Handling(i)
  /\ \A i \in Ids \ queue : Settled(i)

-------------------------------------------------------------------------------
(* The saved offset.                                                       *)

\* A write to another row, or the end of a write, leaves the row of the offset.
LEMMA OtherRow ==
  ASSUME StoreTables
  PROVE  /\ \A v \in Nat : FillBuffer(Row(Enabled, v)) => draft'[Offset] = rows[Offset]
         /\ \A v \in Nat : \A c \in BOOLEAN :
               SetSetting(Enabled, v, c) => draft'[Offset] = rows[Offset]
         /\ LeaveDefer => draft'[Offset] \in {draft[Offset], rows[Offset]}
         /\ \A v \in Nat : SetSetting(Offset, v, TRUE) => draft'[Offset] = v
<1> USE KeyTypes
<1>1. ASSUME NEW v \in Nat, FillBuffer(Row(Enabled, v)) PROVE draft'[Offset] = rows[Offset]
  BY <1>1 DEF FillBuffer, Over, Row
<1>2. Counted(rows)[Offset] = rows[Offset]
  BY DEF Counted, StoreTables, Table
<1>3. ASSUME NEW v \in Nat, NEW c \in BOOLEAN, SetSetting(Enabled, v, c)
      PROVE  draft'[Offset] = rows[Offset]
  <2>1. [rows EXCEPT ![Enabled] = v][Offset] = rows[Offset]
    BY DEF StoreTables, Table
  <2>2. Counted([rows EXCEPT ![Enabled] = v])[Offset] = rows[Offset]
    BY DEF Counted, StoreTables, Table
  <2> QED
    BY <1>3, <2>1, <2>2 DEF SetSetting
<1>4. ASSUME NEW v \in Nat, SetSetting(Offset, v, TRUE) PROVE draft'[Offset] = v
  <2>1. draft' = [rows EXCEPT ![Offset] = v]
    BY <1>4 DEF SetSetting
  <2> QED
    BY <2>1 DEF StoreTables, Table
<1> QED
  BY <1>1, <1>2, <1>3, <1>4 DEF LeaveDefer

LEMMA SavedOffsetStep ==
  ASSUME StoreTables, ListenerTypes, SavedOffset, ListenerNext
  PROVE  SavedOffset'
<1> USE DEF ListenerTypes
<1>1. ASSUME UNCHANGED <<rows, draft, sent, offset, batch>>,
             pc' = pc \/ (pc # "saving" /\ pc' # "saving")
      PROVE  SavedOffset'
  BY <1>1 DEF SavedOffset
<1>2. ASSUME NEW t \in Tokens \cup {Request}, Send(t) PROVE SavedOffset'
  <2>1. /\ Len(sent) \in Nat /\ Len(sent') = Len(sent) + 1
        /\ offset \in Nat /\ rows[Offset] \in Nat
    BY <1>2, KeyTypes DEF Send, ListenerTypeOK, Tokens, Request, StoreTables, Table
  <2>2. UNCHANGED <<rows, draft, offset, batch, pc>>
    BY <1>2 DEF Send, storeVars
  <2> QED
    BY <2>1, <2>2 DEF SavedOffset
<1>3. ASSUME NEW t \in actions, ActionExpires(t) PROVE SavedOffset'
  BY <1>1, <1>3 DEF ActionExpires, storeVars
<1>4. ASSUME Edit PROVE SavedOffset'
  <2>1. PICK v \in {0, 1} : \/ FillBuffer(Row(Enabled, v))
                            \/ SetSetting(Enabled, v, TRUE)
                            \/ SetSetting(Enabled, v, FALSE)
    BY <1>4 DEF Edit
  <2>2. draft'[Offset] = rows[Offset]
    BY <2>1, OtherRow
  <2>3. loop = "free" /\ UNCHANGED rows
    BY <2>1 DEF FillBuffer, SetSetting
  <2>4. UNCHANGED <<sent, offset, batch, pc>>
    BY <1>4 DEF Edit
  <2> QED
    BY <2>2, <2>3, <2>4 DEF SavedOffset, Placed
<1>5. ASSUME StoreStep PROVE SavedOffset'
  <2>1. CASE ReadStep \/ Flush
    BY <1>1, <1>5, <2>1 DEF StoreStep, ReadStep, Refill, WorkerSelects, WorkerStores, TtlPasses,
                            Flush, listenerVars
  <2>2. CASE Leave
    <3>1. loop = "leaving" /\ UNCHANGED rows /\ draft'[Offset] \in {draft[Offset], rows[Offset]}
      BY <2>2, OtherRow DEF Leave, LeaveDefer
    <3> QED
      BY <1>5, <3>1 DEF StoreStep, listenerVars, SavedOffset, Placed
  <2> QED
    BY <1>5, <2>1, <2>2 DEF StoreStep
<1>6. ASSUME Committed PROVE SavedOffset'
  <2>1. rows' = draft /\ draft' = rows'
    BY <1>6 DEF Committed, Commit, AfterWrite
  <2>2. CASE loop = "saving" /\ pc = "saving"
    <3>1. /\ UNCHANGED <<sent, offset>> /\ pc' # "saving"
          /\ batch # <<>>
      BY <1>6, <2>2 DEF Committed, Taken, Placed
    <3>2. draft[Offset] <= Len(sent)
      BY <2>2, <3>1, HeadTail DEF SavedOffset, Ids
    <3> QED
      BY <2>1, <3>1, <3>2 DEF SavedOffset
  <2>3. CASE ~(loop = "saving" /\ pc = "saving")
    BY <1>6, <2>1, <2>3 DEF Committed, listenerVars, SavedOffset, Placed
  <2> QED
    BY <2>2, <2>3
<1>7. ASSUME NotCommitted PROVE SavedOffset'
  <2>1. UNCHANGED rows /\ draft' = rows'
    BY <1>7 DEF NotCommitted, WriteFails, AfterWrite
  <2> QED
    BY <1>7, <2>1 DEF NotCommitted, Abandon, SavedOffset, Placed
<1>8. ASSUME Poll \/ PollFails PROVE SavedOffset'
  BY <1>1, <1>8 DEF Poll, PollFails, storeVars
<1>9. ASSUME Answer PROVE SavedOffset'
  BY <1>9 DEF Answer, SavedOffset
<1>10. ASSUME Take PROVE SavedOffset'
  <2>1. /\ batch # <<>> /\ offset' = Head(batch) + 1 /\ pc' = "saving"
        /\ UNCHANGED <<sent, batch>> /\ SetSetting(Offset, Head(batch), TRUE)
    BY <1>10 DEF Take
  <2>2. Head(batch) \in Ids /\ Head(batch) \in Nat
    BY <2>1, HeadTail
  <2>3. draft'[Offset] = Head(batch)
    BY <2>1, <2>2, OtherRow
  <2>4. UNCHANGED rows
    BY <2>1 DEF SetSetting
  <2>5. offset' <= Len(sent) + 1
    BY <2>1, <2>2 DEF Ids, ListenerTypeOK
  <2> QED
    BY <2>1, <2>3, <2>4, <2>5 DEF SavedOffset
<1>11. ASSUME HandleRequest \/ HandlePress \/ RunAction PROVE SavedOffset'
  BY <1>11 DEF HandleRequest, HandlePress, RunAction, Done, storeVars, SavedOffset
<1>12. ASSUME EndBatch PROVE SavedOffset'
  <2>1. UNCHANGED rows /\ draft'[Offset] \in {draft[Offset], rows[Offset]}
    BY <1>12, OtherRow DEF EndBatch, LeaveDefer
  <2> QED
    BY <1>12, <2>1 DEF EndBatch, SavedOffset
<1>13. ASSUME Restart PROVE SavedOffset'
  <2>1. /\ UNCHANGED <<rows, sent>> /\ draft' = rows /\ pc' = "idle"
        /\ offset' = rows[Offset] + 1
    BY <1>13 DEF Restart, StoreRestart
  <2>2. rows[Offset] \in Nat /\ Len(sent) \in Nat
    BY KeyTypes DEF StoreTables, Table, ListenerTypeOK
  <2> QED
    BY <2>1, <2>2 DEF SavedOffset
<1> QED
  BY <1>2, <1>3, <1>4, <1>5, <1>6, <1>7, <1>8, <1>9, <1>10, <1>11, <1>12, <1>13
     DEF ListenerNext

-------------------------------------------------------------------------------
(* Nothing is lost.                                                        *)

\* The first update of the answer is settled and goes.
LEMMA TailSkipsNone ==
  ASSUME ListenerTypeOK, NoneSkipped, batch # <<>>, batch' = Tail(batch), UNCHANGED sent,
         \A i \in Ids : Settled(i) => Settled(i)',
         NEW h \in Ids, h = Head(batch), Settled(h)'
  PROVE  NoneSkipped'
<1>1. /\ Len(batch) \in Nat /\ Len(batch') = Len(batch) - 1
      /\ \A n \in 1 .. Len(batch') : batch'[n] = batch[n + 1] /\ n + 1 \in 1 .. Len(batch)
      /\ batch[1] = h /\ Ids' = Ids
  BY DEF ListenerTypeOK, Ids
<1> SUFFICES ASSUME NEW n \in 1 .. Len(batch'), NEW i \in Ids, i < batch'[n], ~Settled(i)'
             PROVE  \E m \in 1 .. Len(batch') : m < n /\ batch'[m] = i
  BY <1>1 DEF NoneSkipped, Settled
<1>2. PICK m \in 1 .. Len(batch) : m < n + 1 /\ batch[m] = i
  BY <1>1 DEF NoneSkipped
<1>3. m # 1
  BY <1>1, <1>2
<1>4. m - 1 \in 1 .. Len(batch') /\ m - 1 < n /\ batch'[m - 1] = batch[(m - 1) + 1]
  BY <1>1, <1>2, <1>3
<1>5. (m - 1) + 1 = m
  BY <1>2
<1> QED
  BY <1>2, <1>4, <1>5

\* An answer skips nothing: what it leaves out has been settled.
LEMMA AnswerSkipsNone ==
  ASSUME ListenerTypeOK, Passed, Answer
  PROVE  NoneSkipped'
<1>1. PICK ids \in Ordered(Kept) : batch' = ids \/ \E i \in Ids : batch' = Append(ids, i)
  BY DEF Answer
<1>2. /\ ids \in Seq(Ids)
      /\ \A m, n \in 1 .. Len(ids) : m < n => ids[m] < ids[n]
      /\ \A i \in Kept : \E n \in 1 .. Len(ids) : ids[n] = i
  BY InOrder
<1>3. /\ Len(ids) \in Nat /\ Len(batch') \in {Len(ids), Len(ids) + 1}
      /\ \A n \in 1 .. Len(ids) : batch'[n] = ids[n] /\ ids[n] \in Nat /\ n \in 1 .. Len(batch')
  BY <1>1, <1>2 DEF Ids
<1>4. /\ pc = "polling" /\ UNCHANGED <<sent, offset, handled, cut>>
  BY DEF Answer
<1>5. \A i \in Ids : i \in Kept \/ Settled(i)
  BY <1>4 DEF Passed, Taking, InHand, Kept, Ids, ListenerTypeOK
<1> SUFFICES ASSUME NEW n \in 1 .. Len(batch'), NEW i \in Ids, i < batch'[n], ~Settled(i)
             PROVE  \E m \in 1 .. Len(batch') : m < n /\ batch'[m] = i
  BY <1>4 DEF NoneSkipped, Settled, Ids
<1>6. PICK m \in 1 .. Len(ids) : ids[m] = i
  BY <1>2, <1>5
<1>7. m < n
  <2>1. CASE n \in 1 .. Len(ids)
    <3>1. ids[m] < ids[n] /\ i \in Nat
      BY <1>3, <1>6, <2>1 DEF Ids
    <3>2. n < m => ids[n] < ids[m]
      BY <1>2, <2>1
    <3>3. ids[m] \in Nat /\ ids[n] \in Nat
      BY <1>3, <2>1
    <3>4. ~(n < m) /\ n # m
      BY <3>1, <3>2, <3>3
    <3> QED
      BY <2>1, <3>4
  <2>2. CASE n = Len(ids) + 1
    BY <1>3, <2>2
  <2> QED
    BY <1>3, <2>1, <2>2
<1> QED
  BY <1>3, <1>6, <1>7

\* The update in hand is over.
LEMMA PassedDone ==
  ASSUME ListenerTypes, Passed, InHand, Done(Head(batch)),
         UNCHANGED <<rows, sent, offset, seen, queue, cut>>
  PROVE  Passed'
<1> USE DEF ListenerTypes
<1>1. batch # <<>>
  BY DEF InHand, Placed
<1>2. PICK h \in Ids : h = Head(batch)
  BY <1>1, HeadTail
<1>3. /\ handled' = [handled EXCEPT ![h] = @ + 1] /\ batch' = Tail(batch) /\ pc' = "batch"
  BY <1>2 DEF Done
<1>4. handled \in Seq(Nat) /\ h \in 1 .. Len(handled) /\ Ids = 1 .. Len(handled)
  BY <1>2 DEF ListenerTypeOK, Ids
<1>5. handled'[h] = handled[h] + 1 /\ \A j \in Ids \ {h} : handled'[j] = handled[j]
  BY <1>3, <1>4, CountUp
<1>6. handled'[h] > 0
  BY <1>4, <1>5
<1>7. Settled(h)' /\ \A i \in Ids : Settled(i) => Settled(i)'
  BY <1>5, <1>6 DEF Settled
<1>8. NoneSkipped'
  BY <1>1, <1>2, <1>3, <1>7, TailSkipsNone DEF Passed
<1>9. \A i \in Ids : Taking(i) \/ Handling(i) => i = h
  BY <1>2 DEF Taking, Handling
<1>10. Ids' = Ids /\ seen \subseteq Ids
  BY DEF Ids, ListenerTypeOK
<1> QED
  BY <1>7, <1>8, <1>9, <1>10 DEF Passed

LEMMA PassedStep ==
  ASSUME StoreTables, ListenerTypes, SavedOffset, Passed, ListenerNext
  PROVE  Passed'
<1> USE DEF ListenerTypes
<1>1. ASSUME UNCHANGED <<sent, queue, offset, batch, seen, handled, cut>>,
             rows'[Offset] = rows[Offset],
             \/ pc' = pc
             \/ pc \in {"idle", "polling", "batch"} /\ pc' \in {"idle", "polling", "batch"}
             \/ pc = "handling" /\ pc' = "running"
      PROVE  Passed'
  BY <1>1 DEF Passed, NoneSkipped, Settled, Taking, Handling, InHand, Ids
<1>2. ASSUME NEW t \in Tokens \cup {Request}, Send(t) PROVE Passed'
  <2>1. /\ sent' = Append(sent, t) /\ handled' = Append(handled, 0)
        /\ queue' = queue \cup {Len(sent) + 1}
        /\ UNCHANGED <<rows, pc, offset, batch, seen, cut>>
    BY <1>2 DEF Send, storeVars
  <2>2. /\ Len(sent) \in Nat /\ Ids' = Ids \cup {Len(sent) + 1}
        /\ \A i \in Ids : i \in Nat /\ i < Len(sent) + 1 /\ handled'[i] = handled[i]
    BY <2>1 DEF ListenerTypeOK, Ids, Tokens, Request
  <2>3. \A i \in Ids : Settled(i)' = Settled(i)
    BY <2>1, <2>2 DEF Settled
  <2>4. \A n \in 1 .. Len(batch) : batch[n] \in Ids
    BY DEF ListenerTypeOK
  <2>5. offset \in Nat /\ rows[Offset] \in Nat
    BY KeyTypes DEF ListenerTypeOK, StoreTables, Table
  <2>6. \A i \in Ids' : i < offset \/ i <= rows[Offset] \/ i \in seen \/ i \notin queue'
                           \/ (\E n \in 1 .. Len(batch) : i < batch[n]) => i \in Ids
    BY <2>1, <2>2, <2>4, <2>5 DEF SavedOffset, ListenerTypeOK
  <2>7. NoneSkipped'
    BY <2>1, <2>3, <2>6 DEF Passed, NoneSkipped
  <2>8. \A i \in Ids : Taking(i)' = Taking(i) /\ Handling(i)' = Handling(i)
    BY <2>1 DEF Taking, Handling, InHand
  <2>9. seen \subseteq Ids
    BY DEF ListenerTypeOK
  <2> QED
    BY <2>1, <2>2, <2>3, <2>6, <2>7, <2>8, <2>9 DEF Passed
<1>3. ASSUME NEW t \in actions, ActionExpires(t) PROVE Passed'
  BY <1>1, <1>3 DEF ActionExpires, storeVars
<1>4. ASSUME Edit PROVE Passed'
  BY <1>1, <1>4 DEF Edit, FillBuffer, SetSetting
<1>5. ASSUME StoreStep PROVE Passed'
  BY <1>1, <1>5 DEF StoreStep, ReadStep, Refill, WorkerSelects, WorkerStores, TtlPasses, Flush,
                    Leave, LeaveDefer, listenerVars
<1>6. ASSUME Committed PROVE Passed'
  <2>1. rows' = draft
    BY <1>6 DEF Committed, Commit
  <2>2. CASE ~(loop = "saving" /\ pc = "saving")
    BY <1>1, <1>6, <2>1, <2>2 DEF Committed, listenerVars, SavedOffset, Placed
  <2>3. CASE loop = "saving" /\ pc = "saving"
    <3>1. Taken /\ batch # <<>>
      BY <1>6, <2>3 DEF Committed, Placed
    <3>2. PICK h \in Ids : h = Head(batch)
      BY <3>1, HeadTail
    <3>3. /\ offset = h + 1 /\ rows'[Offset] = h /\ h \in Nat
          /\ UNCHANGED <<sent, queue, offset, handled, cut>> /\ seen' = seen \cup {h}
      BY <2>1, <2>3, <3>1, <3>2 DEF SavedOffset, Taken, Ids
    <3>4. /\ \A i \in Ids : Settled(i)' = Settled(i)
          /\ Ids' = Ids /\ \A i \in Ids : i \in Nat /\ (i <= h => i < offset)
      BY <3>3 DEF Settled, Ids
    <3>5. /\ \A i \in seen : Settled(i)
          /\ \A i \in Ids : i < offset => Settled(i) \/ i = h
      BY <2>3, <3>2 DEF Passed, Handling, Taking, InHand
    <3>6. CASE h \in seen
      <4>1. Settled(h) /\ batch' = Tail(batch)
        BY <3>1, <3>2, <3>5, <3>6 DEF Taken
      <4>2. NoneSkipped'
        BY <3>1, <3>2, <3>3, <3>4, <4>1, TailSkipsNone DEF Passed
      <4>3. seen \subseteq Ids
        BY DEF ListenerTypeOK
      <4> QED
        BY <3>3, <3>4, <3>5, <4>1, <4>2, <4>3 DEF Passed
    <3>7. CASE h \notin seen
      <4>1. pc' = "handling" /\ batch' = batch
        BY <3>1, <3>2, <3>7 DEF Taken
      <4>2. NoneSkipped'
        BY <3>4, <4>1 DEF Passed, NoneSkipped
      <4>3. Handling(h)' /\ Taking(h)'
        BY <3>2, <4>1 DEF Handling, Taking, InHand
      <4>4. seen \subseteq Ids
        BY DEF ListenerTypeOK
      <4> QED
        BY <3>3, <3>4, <3>5, <4>2, <4>3, <4>4 DEF Passed
    <3> QED
      BY <3>6, <3>7
  <2> QED
    BY <2>2, <2>3
<1>7. ASSUME NotCommitted PROVE Passed'
  <2>1. UNCHANGED rows
    BY <1>7 DEF NotCommitted, WriteFails
  <2>2. CASE ~(loop = "saving" /\ pc = "saving")
    BY <1>1, <1>7, <2>1, <2>2 DEF NotCommitted
  <2>3. CASE loop = "saving" /\ pc = "saving"
    <3>1. Abandon /\ batch # <<>>
      BY <1>7, <2>3 DEF NotCommitted, Placed
    <3>2. PICK h \in Ids : h = Head(batch)
      BY <3>1, HeadTail
    <3>3. /\ batch' = <<>> /\ UNCHANGED <<sent, queue, offset, seen, handled>>
          /\ cut' = IF h \in seen THEN cut ELSE cut \cup {h}
      BY <3>1, <3>2 DEF Abandon
    <3>4. /\ \A i \in seen : Settled(i)
          /\ \A i \in Ids : i < offset => Settled(i) \/ i = h
          /\ \A i \in Ids : i <= rows[Offset] => Settled(i)
      BY <2>3, <3>2 DEF Passed, Handling, Taking, InHand
    <3>5. Settled(h)' /\ \A i \in Ids : Settled(i) => Settled(i)'
      BY <3>3, <3>4 DEF Settled
    <3>6. NoneSkipped' /\ Ids' = Ids /\ seen \subseteq Ids
      BY <3>3 DEF NoneSkipped, Ids, ListenerTypeOK
    <3> QED
      BY <2>1, <3>3, <3>4, <3>5, <3>6 DEF Passed
  <2> QED
    BY <2>2, <2>3
<1>8. ASSUME Poll PROVE Passed'
  BY <1>1, <1>8 DEF Poll, storeVars
<1>9. ASSUME PollFails \/ Answer PROVE Passed'
  <2>1. /\ pc = "polling" /\ queue' \in {queue, Kept}
        /\ pc' \in {"idle", "batch"}
        /\ UNCHANGED <<rows, sent, offset, seen, handled, cut>>
    BY <1>9 DEF PollFails, Answer, storeVars
  <2>2. NoneSkipped'
    <3>1. CASE PollFails
      BY <3>1 DEF PollFails, Passed, NoneSkipped, Settled, Ids
    <3> QED
      BY <1>9, <3>1, AnswerSkipsNone
  <2>3. /\ \A i \in Ids : Settled(i)' = Settled(i)
        /\ Ids' = Ids /\ seen \subseteq Ids
        /\ \A i \in Ids : ~Taking(i) /\ ~Handling(i)
    BY <2>1 DEF Settled, Ids, ListenerTypeOK, Taking, Handling, InHand
  <2>4. \A i \in Ids : i \in queue' \/ i \notin queue \/ i < offset
    BY <2>1 DEF Kept, Ids, ListenerTypeOK
  <2> QED
    BY <2>1, <2>2, <2>3, <2>4 DEF Passed
<1>10. ASSUME Take PROVE Passed'
  <2>1. /\ batch # <<>> /\ pc = "batch" /\ pc' = "saving" /\ offset' = Head(batch) + 1
        /\ UNCHANGED <<rows, sent, queue, batch, seen, handled, cut>>
    BY <1>10 DEF Take, SetSetting
  <2>2. PICK h \in Ids : h = Head(batch) /\ h = batch[1]
    BY <2>1, HeadTail
  <2>3. 1 \in 1 .. Len(batch) /\ \A m \in 1 .. Len(batch) : ~(m < 1)
    BY <2>1 DEF ListenerTypeOK
  <2>4. \A i \in Ids : i < h => Settled(i)
    BY <2>2, <2>3 DEF Passed, NoneSkipped
  <2>5. \A i \in Ids : i < h + 1 => i < h \/ i = h
    BY <2>2 DEF Ids
  <2>6. /\ \A i \in Ids : Settled(i)' = Settled(i)
        /\ Ids' = Ids /\ seen \subseteq Ids
        /\ \A i \in Ids : ~Handling(i)
        /\ Taking(h)'
    BY <2>1, <2>2 DEF Settled, Ids, ListenerTypeOK, Taking, Handling, InHand
  <2>7. NoneSkipped'
    BY <2>1, <2>6 DEF Passed, NoneSkipped
  <2> QED
    BY <2>1, <2>2, <2>4, <2>5, <2>6, <2>7 DEF Passed
<1>11. ASSUME HandleRequest \/ HandlePress \/ RunAction PROVE Passed'
  <2>1. /\ UNCHANGED <<rows, sent, offset, seen, queue, cut>>
        /\ InHand
        /\ \/ Done(Head(batch))
           \/ pc = "handling" /\ pc' = "running" /\ UNCHANGED <<batch, handled>>
    BY <1>11 DEF HandleRequest, HandlePress, RunAction, storeVars, InHand
  <2> QED
    BY <1>1, <2>1, PassedDone
<1>12. ASSUME EndBatch PROVE Passed'
  BY <1>1, <1>12 DEF EndBatch, LeaveDefer
<1>13. ASSUME Restart PROVE Passed'
  <2>1. /\ offset' = rows[Offset] + 1 /\ pc' = "idle" /\ batch' = <<>> /\ seen' = {}
        /\ cut' = IF InHand THEN cut \cup {Head(batch)} ELSE cut
        /\ UNCHANGED <<rows, sent, queue, handled>>
    BY <1>13 DEF Restart, StoreRestart, InHand
  <2>2. \A i \in Ids : Settled(i) \/ Handling(i) => Settled(i)'
    BY <2>1 DEF Settled, Handling
  <2>3. Ids' = Ids /\ \A i \in Ids : i < offset' => i <= rows[Offset]
    BY <2>1, KeyTypes DEF Ids, StoreTables, Table
  <2>4. NoneSkipped'
    BY <2>1 DEF NoneSkipped
  <2> QED
    BY <2>1, <2>2, <2>3, <2>4 DEF Passed
<1> QED
  BY <1>2, <1>3, <1>4, <1>5, <1>6, <1>7, <1>8, <1>9, <1>10, <1>11, <1>12, <1>13
     DEF ListenerNext

-------------------------------------------------------------------------------
(* Nothing is done twice.                                                  *)

Faults == repeats \in Nat /\ restarts \in Nat

\* While nothing is delivered again, ids grow: what was handled is not past the saved
\* offset, what is to come is.
IdsGrow ==
  /\ \A m, n \in 1 .. Len(batch) : m < n => batch[m] < batch[n]
  /\ \A n \in 1 .. Len(batch) : batch[n] >= offset \/ Taking(batch[n])
  /\ offset > rows[Offset]
  /\ pc = "saving" => Head(batch) > rows[Offset]
  /\ InHand => Head(batch) = rows[Offset]
  /\ \A i \in Ids : handled[i] <= 1 /\ (handled[i] > 0 => i <= rows[Offset] /\ ~Handling(i))

\* While the process lives, what was handled has been seen.
SeenIsDone ==
  /\ InHand => Head(batch) \in seen
  /\ \A i \in Ids : handled[i] <= 1 /\ (handled[i] > 0 => i \in seen /\ ~Handling(i))

LEMMA FaultsStep ==
  ASSUME Faults, ListenerNext
  PROVE  Faults' /\ (repeats' = 0 => repeats = 0) /\ (restarts' = 0 => restarts = 0)
<1>1. CASE Answer
  BY <1>1 DEF Answer, Faults
<1>2. CASE Restart
  BY <1>2 DEF Restart, Faults
<1>3. CASE ~Answer /\ ~Restart
  <2>1. UNCHANGED <<repeats, restarts>>
    BY <1>3 DEF ListenerNext, Send, ActionExpires, Edit, StoreStep, Committed, Taken, NotCommitted,
                Abandon, Poll, PollFails, Take, HandleRequest, HandlePress, RunAction, EndBatch,
                listenerVars
  <2> QED
    BY <2>1 DEF Faults
<1> QED
  BY <1>1, <1>2, <1>3

\* How the handlers' counts change when the update in hand is over.
LEMMA DoneCounts ==
  ASSUME ListenerTypes, InHand, Done(Head(batch)), UNCHANGED sent
  PROVE  \E h \in Ids :
            /\ h = Head(batch) /\ batch # <<>> /\ batch' = Tail(batch) /\ pc' = "batch"
            /\ handled'[h] = handled[h] + 1
            /\ \A j \in Ids \ {h} : handled'[j] = handled[j]
            /\ Ids' = Ids
<1> USE DEF ListenerTypes
<1>1. batch # <<>>
  BY DEF InHand, Placed
<1>2. PICK h \in Ids : h = Head(batch)
  BY <1>1, HeadTail
<1>3. handled \in Seq(Nat) /\ h \in 1 .. Len(handled) /\ Ids = 1 .. Len(handled)
  BY <1>2 DEF ListenerTypeOK, Ids
<1>4. handled' = [handled EXCEPT ![h] = @ + 1]
  BY <1>2 DEF Done
<1>5. handled'[h] = handled[h] + 1 /\ \A j \in Ids \ {h} : handled'[j] = handled[j]
  BY <1>3, <1>4, CountUp
<1> QED
  BY <1>1, <1>2, <1>5 DEF Done, Ids

LEMMA SeenIsDoneStep ==
  ASSUME ListenerTypes, SeenIsDone, ListenerNext, ~Restart
  PROVE  SeenIsDone'
<1> USE DEF ListenerTypes
<1>1. ASSUME sent' = sent, seen' = seen, handled' = handled,
             InHand' => InHand /\ batch' = batch
      PROVE  SeenIsDone'
  BY <1>1 DEF SeenIsDone, Handling, Ids
<1>2. ASSUME NEW t \in Tokens \cup {Request}, Send(t) PROVE SeenIsDone'
  <2>1. /\ sent' = Append(sent, t) /\ handled' = Append(handled, 0)
        /\ UNCHANGED <<pc, batch, seen>>
    BY <1>2 DEF Send
  <2>2. /\ Len(sent) \in Nat /\ Ids' = Ids \cup {Len(sent) + 1}
        /\ \A i \in Ids : handled'[i] = handled[i]
        /\ handled'[Len(sent) + 1] = 0
    BY <2>1 DEF ListenerTypeOK, Ids, Tokens, Request
  <2>3. InHand' = InHand /\ \A i \in Ids : Handling(i)' = Handling(i)
    BY <2>1 DEF Handling, InHand
  <2>4. \A i \in Ids' : handled'[i] <= 1 /\ (handled'[i] > 0 => i \in Ids /\ handled[i] > 0)
    BY <2>2 DEF SeenIsDone
  <2> QED
    BY <2>1, <2>3, <2>4 DEF SeenIsDone
<1>3. ASSUME NEW t \in actions, ActionExpires(t) PROVE SeenIsDone'
  BY <1>1, <1>3 DEF ActionExpires, InHand
<1>4. ASSUME Edit \/ StoreStep PROVE SeenIsDone'
  BY <1>1, <1>4 DEF Edit, StoreStep, listenerVars, InHand
<1>5. ASSUME Committed PROVE SeenIsDone'
  <2>1. CASE ~(loop = "saving" /\ pc = "saving")
    BY <1>1, <1>5, <2>1 DEF Committed, listenerVars, InHand
  <2>2. CASE loop = "saving" /\ pc = "saving"
    <3>1. Taken
      BY <1>5, <2>2 DEF Committed
    <3>2. CASE Head(batch) \in seen
      <4>1. pc' = "batch" /\ seen' = seen
        BY <3>1, <3>2 DEF Taken
      <4> QED
        BY <1>1, <3>1, <4>1 DEF Taken, InHand
    <3>3. CASE Head(batch) \notin seen
      BY <3>1, <3>3 DEF Taken, SeenIsDone, Handling, InHand, Ids
    <3> QED
      BY <3>2, <3>3
  <2> QED
    BY <2>1, <2>2
<1>6. ASSUME NotCommitted PROVE SeenIsDone'
  BY <1>1, <1>6 DEF NotCommitted, Abandon, InHand
<1>7. ASSUME Poll \/ PollFails \/ Answer \/ Take \/ EndBatch PROVE SeenIsDone'
  BY <1>1, <1>7 DEF Poll, PollFails, Answer, Take, EndBatch, InHand
<1>8. ASSUME HandleRequest \/ HandlePress \/ RunAction PROVE SeenIsDone'
  <2>1. /\ UNCHANGED <<sent, seen>>
        /\ InHand
        /\ \/ Done(Head(batch))
           \/ pc = "handling" /\ pc' = "running" /\ UNCHANGED <<batch, handled>>
    BY <1>8 DEF HandleRequest, HandlePress, RunAction, InHand
  <2>2. CASE Done(Head(batch))
    <3>1. PICK h \in Ids : /\ h = Head(batch) /\ pc' = "batch"
                           /\ handled'[h] = handled[h] + 1
                           /\ \A j \in Ids \ {h} : handled'[j] = handled[j]
                           /\ Ids' = Ids
      BY <2>1, <2>2, DoneCounts
    <3>2. handled[h] \in Nat /\ Handling(h)
      BY <2>1, <3>1 DEF ListenerTypeOK, Ids, Handling
    <3>3. handled'[h] = 1
      BY <3>1, <3>2 DEF SeenIsDone
    <3>4. h \in seen'
      BY <2>1, <3>1 DEF SeenIsDone
    <3>5. \A i \in Ids' : handled'[i] <= 1 /\ (handled'[i] > 0 => i \in seen')
      BY <2>1, <3>1, <3>3, <3>4 DEF SeenIsDone
    <3> QED
      BY <3>1, <3>5 DEF SeenIsDone, Handling, InHand
  <2> QED
    BY <1>1, <2>1, <2>2 DEF InHand
<1> QED
  BY <1>2, <1>3, <1>4, <1>5, <1>6, <1>7, <1>8 DEF ListenerNext

\* The answer and what is left of it without its first update.
LEMMA AnswerParts ==
  ASSUME ListenerTypeOK
  PROVE  /\ Len(batch) \in Nat
         /\ \A n \in 1 .. Len(batch) : batch[n] \in Ids /\ batch[n] \in Nat
         /\ batch # <<>> => /\ 1 \in 1 .. Len(batch) /\ batch[1] = Head(batch)
                            /\ Len(Tail(batch)) = Len(batch) - 1
                            /\ \A n \in 1 .. Len(Tail(batch)) :
                                  /\ Tail(batch)[n] = batch[n + 1]
                                  /\ n + 1 \in 1 .. Len(batch) /\ 1 < n + 1
<1>1. \A n \in 1 .. Len(batch) : batch[n] \in Ids
  BY DEF ListenerTypeOK
<1>2. Ids \subseteq Nat
  BY DEF Ids
<1>3. batch \in Seq(Ids)
  BY DEF ListenerTypeOK
<1>4. Len(batch) \in Nat
  BY <1>3
<1>5. ASSUME batch # <<>>
      PROVE  /\ 1 \in 1 .. Len(batch) /\ batch[1] = Head(batch)
             /\ Len(Tail(batch)) = Len(batch) - 1
  BY <1>3, <1>5
<1>6. ASSUME batch # <<>>, NEW n \in 1 .. Len(Tail(batch))
      PROVE  Tail(batch)[n] = batch[n + 1] /\ n + 1 \in 1 .. Len(batch) /\ 1 < n + 1
  BY <1>3, <1>6
<1> QED
  BY <1>1, <1>2, <1>4, <1>5, <1>6

LEMMA IdsGrowStep ==
  ASSUME StoreTables, ListenerTypes, Faults, SavedOffset, IdsGrow, repeats' = 0, ListenerNext
  PROVE  IdsGrow'
<1> USE DEF ListenerTypes
<1>1. ASSUME sent' = sent, offset' = offset, batch' = batch, handled' = handled,
             rows'[Offset] = rows[Offset],
             \/ pc' = pc
             \/ pc \in {"idle", "polling", "batch"} /\ pc' \in {"idle", "polling", "batch"}
             \/ pc = "handling" /\ pc' = "running"
      PROVE  IdsGrow'
  BY <1>1 DEF IdsGrow, Taking, Handling, InHand, Ids
<1>2. ASSUME NEW t \in Tokens \cup {Request}, Send(t) PROVE IdsGrow'
  <2>1. /\ sent' = Append(sent, t) /\ handled' = Append(handled, 0)
        /\ UNCHANGED <<rows, pc, batch, offset>>
    BY <1>2 DEF Send, storeVars
  <2>2. /\ Len(sent) \in Nat /\ Ids' = Ids \cup {Len(sent) + 1}
        /\ \A i \in Ids : handled'[i] = handled[i]
        /\ handled'[Len(sent) + 1] = 0
    BY <2>1 DEF ListenerTypeOK, Ids, Tokens, Request
  <2>3. /\ InHand' = InHand /\ \A i \in Ids : Handling(i)' = Handling(i)
        /\ \A n \in 1 .. Len(batch) : Taking(batch[n])' = Taking(batch[n])
    BY <2>1 DEF Handling, Taking, InHand
  <2>4. \A i \in Ids' : handled'[i] <= 1 /\ (handled'[i] > 0 => i \in Ids /\ handled[i] > 0)
    BY <2>2 DEF IdsGrow
  <2> QED
    BY <2>1, <2>3, <2>4 DEF IdsGrow
<1>3. ASSUME NEW t \in actions, ActionExpires(t) PROVE IdsGrow'
  BY <1>1, <1>3 DEF ActionExpires, storeVars
<1>4. ASSUME Edit PROVE IdsGrow'
  BY <1>1, <1>4 DEF Edit, FillBuffer, SetSetting
<1>5. ASSUME StoreStep PROVE IdsGrow'
  BY <1>1, <1>5 DEF StoreStep, ReadStep, Refill, WorkerSelects, WorkerStores, TtlPasses, Flush,
                    Leave, LeaveDefer, listenerVars
<1>6. ASSUME Committed PROVE IdsGrow'
  <2>1. rows' = draft
    BY <1>6 DEF Committed, Commit
  <2>2. CASE ~(loop = "saving" /\ pc = "saving")
    BY <1>1, <1>6, <2>1, <2>2 DEF Committed, listenerVars, SavedOffset, Placed
  <2>3. CASE loop = "saving" /\ pc = "saving"
    <3>1. Taken /\ batch # <<>>
      BY <1>6, <2>3 DEF Committed, Placed
    <3>2. PICK h \in Ids : h = Head(batch) /\ h = batch[1]
      BY <3>1, HeadTail
    <3>3. /\ offset = h + 1 /\ rows'[Offset] = h /\ h \in Nat /\ rows[Offset] < h
          /\ sent' = sent /\ offset' = offset /\ handled' = handled /\ Ids' = Ids
          /\ rows[Offset] \in Nat
      BY <2>1, <2>3, <3>1, <3>2, KeyTypes
         DEF SavedOffset, Taken, Ids, IdsGrow, StoreTables, Table
    <3>4. \A i \in Ids : i \in Nat /\ handled[i] <= 1 /\ (handled[i] > 0 => i < h)
      BY <3>3 DEF IdsGrow, Ids
    <3>5. CASE h \in seen
      <4>1. batch' = Tail(batch) /\ pc' = "batch"
        BY <3>1, <3>2, <3>5 DEF Taken
      <4>2. /\ Len(batch) \in Nat /\ Len(batch') = Len(batch) - 1
            /\ \A n \in 1 .. Len(batch') :
                  /\ batch'[n] = batch[n + 1] /\ n + 1 \in 1 .. Len(batch) /\ 1 < n + 1
                  /\ batch[n + 1] \in Nat
        BY <3>1, <4>1, AnswerParts
      <4>3. 1 \in 1 .. Len(batch)
        BY <3>1, AnswerParts
      <4>4. \A n \in 1 .. Len(batch') : batch'[n] > h
        BY <3>2, <4>2, <4>3 DEF IdsGrow
      <4>5. \A m, n \in 1 .. Len(batch') : m < n => batch'[m] < batch'[n]
        BY <4>2 DEF IdsGrow
      <4>6. \A n \in 1 .. Len(batch') : batch'[n] >= offset
        BY <3>3, <4>2, <4>4
      <4>7. \A i \in Ids : handled[i] <= 1 /\ (handled[i] > 0 => i <= h)
        BY <3>3, <3>4
      <4> QED
        BY <3>3, <4>1, <4>5, <4>6, <4>7 DEF IdsGrow, InHand, Handling
    <3>6. CASE h \notin seen
      <4>1. pc' = "handling" /\ batch' = batch
        BY <3>1, <3>2, <3>6 DEF Taken
      <4>2. InHand' /\ \A i \in Ids : (Handling(i)' <=> i = h) /\ (Taking(i)' <=> i = h)
        BY <3>2, <4>1 DEF InHand, Handling, Taking
      <4>3. \A n \in 1 .. Len(batch) : batch[n] \in Ids /\ (batch[n] >= offset \/ batch[n] = h)
        BY <3>2, AnswerParts DEF IdsGrow, Taking
      <4>4. \A i \in Ids : handled[i] <= 1 /\ (handled[i] > 0 => i <= h /\ i # h)
        <5>1. \A i \in Ids : i < h => i <= h /\ i # h
          BY <3>3, <3>4
        <5> QED
          BY <3>4, <5>1
      <4>5. offset > h
        BY <3>3
      <4>6. \A m, n \in 1 .. Len(batch) : m < n => batch[m] < batch[n]
        BY DEF IdsGrow
      <4>7. \A n \in 1 .. Len(batch') : batch'[n] = h => Taking(batch[n])'
        BY <3>2, <4>1 DEF Taking, InHand
      <4>8. \A n \in 1 .. Len(batch') : batch'[n] >= offset' \/ Taking(batch[n])'
        BY <3>3, <4>1, <4>3, <4>7
      <4> QED
        BY <3>2, <3>3, <4>1, <4>2, <4>4, <4>5, <4>6, <4>8 DEF IdsGrow
    <3> QED
      BY <3>5, <3>6
  <2> QED
    BY <2>2, <2>3
<1>7. ASSUME NotCommitted PROVE IdsGrow'
  <2>1. UNCHANGED rows
    BY <1>7 DEF NotCommitted, WriteFails
  <2>2. CASE ~(loop = "saving" /\ pc = "saving")
    BY <1>1, <1>7, <2>1, <2>2 DEF NotCommitted
  <2>3. CASE loop = "saving" /\ pc = "saving"
    <3>1. Abandon
      BY <1>7, <2>3 DEF NotCommitted
    <3>2. /\ batch' = <<>> /\ pc' = "batch" /\ sent' = sent /\ offset' = offset
          /\ handled' = handled
      BY <3>1 DEF Abandon
    <3> QED
      BY <2>1, <3>2 DEF IdsGrow, InHand, Handling, Taking, Ids
  <2> QED
    BY <2>2, <2>3
<1>8. ASSUME Poll \/ PollFails PROVE IdsGrow'
  BY <1>1, <1>8 DEF Poll, PollFails, storeVars
<1>9. ASSUME Answer PROVE IdsGrow'
  <2>1. batch' \in Ordered(Kept)
    BY <1>9 DEF Answer, Faults
  <2>2. /\ batch' \in Seq(Kept)
        /\ \A m, n \in 1 .. Len(batch') : m < n => batch'[m] < batch'[n]
    BY <2>1, InOrder
  <2>3. \A n \in 1 .. Len(batch') : batch'[n] >= offset
    BY <2>2 DEF Kept
  <2>4. /\ pc = "polling" /\ pc' \in {"idle", "batch"}
        /\ rows' = rows /\ sent' = sent /\ offset' = offset /\ handled' = handled
    BY <1>9 DEF Answer
  <2> QED
    BY <2>2, <2>3, <2>4 DEF IdsGrow, InHand, Handling, Taking, Ids
<1>10. ASSUME Take PROVE IdsGrow'
  <2>1. /\ batch # <<>> /\ pc = "batch" /\ pc' = "saving" /\ offset' = Head(batch) + 1
        /\ rows' = rows /\ sent' = sent /\ batch' = batch /\ handled' = handled
    BY <1>10 DEF Take, SetSetting
  <2>2. PICK h \in Ids : h = Head(batch) /\ h = batch[1]
    BY <2>1, HeadTail
  <2>3. 1 \in 1 .. Len(batch) /\ \A n \in 1 .. Len(batch) : n = 1 \/ 1 < n
    BY <2>1 DEF ListenerTypeOK
  <2>4. h \in Nat /\ offset \in Nat /\ rows[Offset] \in Nat
        /\ \A n \in 1 .. Len(batch) : batch[n] \in Nat /\ batch[n] \in Ids
    <3>1. h \in Nat /\ offset \in Nat
      BY <2>2 DEF Ids, ListenerTypeOK
    <3>2. rows[Offset] \in Nat
      BY KeyTypes DEF StoreTables, Table
    <3> QED
      BY <3>1, <3>2, AnswerParts
  <2>5. h >= offset
    BY <2>1, <2>2, <2>3 DEF IdsGrow, Taking, InHand
  <2>6. h > rows[Offset] /\ h + 1 > rows[Offset]
    BY <2>4, <2>5 DEF IdsGrow
  <2>7. \A n \in 1 .. Len(batch) : batch[n] > h \/ batch[n] = h
    BY <2>2, <2>3 DEF IdsGrow
  <2>8. \A n \in 1 .. Len(batch) : batch[n] >= h + 1 \/ batch[n] = h
    BY <2>4, <2>7
  <2>9. \A n \in 1 .. Len(batch') : batch'[n] >= offset' \/ batch'[n] = h
    BY <2>1, <2>2, <2>8
  <2>10. \A n \in 1 .. Len(batch') : batch'[n] = h => Taking(batch[n])'
    BY <2>1, <2>2 DEF Taking
  <2> QED
    BY <2>1, <2>2, <2>6, <2>9, <2>10 DEF IdsGrow, InHand, Handling, Taking, Ids
<1>11. ASSUME HandleRequest \/ HandlePress \/ RunAction PROVE IdsGrow'
  <2>1. /\ rows' = rows /\ sent' = sent /\ offset' = offset
        /\ InHand
        /\ \/ Done(Head(batch))
           \/ pc = "handling" /\ pc' = "running" /\ batch' = batch /\ handled' = handled
    BY <1>11 DEF HandleRequest, HandlePress, RunAction, storeVars, InHand
  <2>2. CASE Done(Head(batch))
    <3>1. PICK h \in Ids : /\ h = Head(batch) /\ pc' = "batch" /\ batch # <<>>
                           /\ batch' = Tail(batch)
                           /\ handled'[h] = handled[h] + 1
                           /\ \A j \in Ids \ {h} : handled'[j] = handled[j]
                           /\ Ids' = Ids
      BY <2>1, <2>2, DoneCounts
    <3>2. handled[h] \in Nat /\ Handling(h) /\ h = rows[Offset] /\ h \in Nat
      BY <2>1, <3>1 DEF ListenerTypeOK, Ids, Handling, IdsGrow
    <3>3. handled'[h] = 1
      BY <3>1, <3>2 DEF IdsGrow
    <3>4. \A i \in Ids' : handled'[i] <= 1 /\ (handled'[i] > 0 => i <= rows[Offset])
      <4>1. handled'[h] <= 1 /\ h <= rows[Offset]
        BY <3>2, <3>3
      <4>2. \A i \in Ids \ {h} : handled'[i] <= 1 /\ (handled'[i] > 0 => i <= rows[Offset])
        BY <3>1 DEF IdsGrow
      <4> QED
        BY <3>1, <4>1, <4>2
    <3>5. /\ Len(batch) \in Nat /\ Len(batch') = Len(batch) - 1 /\ batch[1] = h
          /\ 1 \in 1 .. Len(batch)
          /\ \A n \in 1 .. Len(batch') :
                /\ batch'[n] = batch[n + 1] /\ n + 1 \in 1 .. Len(batch) /\ 1 < n + 1
                /\ batch[n + 1] \in Nat
      BY <3>1, AnswerParts
    <3>6. \A m, n \in 1 .. Len(batch') : m < n => batch'[m] < batch'[n]
      BY <3>5 DEF IdsGrow
    <3>7. \A n \in 1 .. Len(batch') : batch'[n] > h
      BY <3>5 DEF IdsGrow
    <3>8. \A n \in 1 .. Len(batch') : batch'[n] # h
      BY <3>2, <3>5, <3>7
    <3>9. \A n \in 1 .. Len(batch') : batch'[n] >= offset
      BY <3>1, <3>5, <3>8 DEF IdsGrow, Taking
    <3> QED
      BY <2>1, <3>1, <3>4, <3>6, <3>9 DEF IdsGrow, InHand, Handling
  <2> QED
    BY <1>1, <2>1, <2>2
<1>12. ASSUME EndBatch PROVE IdsGrow'
  BY <1>1, <1>12 DEF EndBatch, LeaveDefer
<1>13. ASSUME Restart PROVE IdsGrow'
  <2>1. /\ rows' = rows /\ sent' = sent /\ handled' = handled
        /\ offset' = rows[Offset] + 1 /\ pc' = "idle" /\ batch' = <<>>
    BY <1>13 DEF Restart, StoreRestart
  <2>2. rows[Offset] + 1 > rows[Offset]
    BY KeyTypes DEF StoreTables, Table
  <2> QED
    BY <2>1, <2>2 DEF IdsGrow, InHand, Handling, Taking, Ids
<1> QED
  BY <1>2, <1>3, <1>4, <1>5, <1>6, <1>7, <1>8, <1>9, <1>10, <1>11, <1>12, <1>13
     DEF ListenerNext

-------------------------------------------------------------------------------
(* The theorems.                                                           *)

DeliveryInv ==
  /\ ListenerInv /\ Faults /\ SavedOffset /\ Passed
  /\ repeats = 0 => IdsGrow
  /\ restarts = 0 => SeenIsDone

LEMMA DeliveryStarts == ListenerInit => DeliveryInv
<1> SUFFICES ASSUME ListenerInit PROVE DeliveryInv
  OBVIOUS
<1>1. ListenerInv
  BY ListenerStarts
<1>2. /\ sent = <<>> /\ Ids = {} /\ offset = 1 /\ batch = <<>> /\ seen = {} /\ pc = "idle"
      /\ repeats = 0 /\ restarts = 0 /\ rows[Offset] = 0 /\ draft = rows
  BY KeyTypes DEF ListenerInit, StoreInit, Ids
<1>3. Faults /\ SavedOffset /\ Passed
  BY <1>2 DEF Faults, SavedOffset, Passed, NoneSkipped
<1>4. IdsGrow /\ SeenIsDone
  BY <1>2 DEF IdsGrow, SeenIsDone, InHand
<1> QED
  BY <1>1, <1>3, <1>4 DEF DeliveryInv

LEMMA DeliveryStepKeeps == DeliveryInv /\ [ListenerNext]_vars => DeliveryInv'
<1> SUFFICES ASSUME DeliveryInv, [ListenerNext]_vars PROVE DeliveryInv'
  OBVIOUS
<1> USE DEF DeliveryInv
<1>1. ListenerInv'
  BY ListenerStepKeeps
<1>2. StoreTables /\ ListenerTypes
  BY DEF ListenerInv
<1>3. CASE ListenerNext
  <2>1. Faults' /\ (repeats' = 0 => repeats = 0) /\ (restarts' = 0 => restarts = 0)
    BY <1>3, FaultsStep
  <2>2. SavedOffset' /\ Passed'
    BY <1>2, <1>3, SavedOffsetStep, PassedStep
  <2>3. repeats' = 0 => IdsGrow'
    BY <1>2, <1>3, <2>1, IdsGrowStep
  <2>4. Restart => restarts' # 0
    BY DEF Restart, Faults
  <2>5. restarts' = 0 => SeenIsDone'
    BY <1>2, <1>3, <2>1, <2>4, SeenIsDoneStep
  <2> QED
    BY <1>1, <2>1, <2>2, <2>3, <2>5
<1>4. CASE UNCHANGED vars
  <2>1. Faults' /\ SavedOffset' /\ Passed'
    BY <1>4 DEF vars, storeVars, listenerVars, Faults, SavedOffset, Passed, NoneSkipped, Settled,
                Taking, Handling, InHand, Ids
  <2>2. (repeats' = 0 => IdsGrow') /\ (restarts' = 0 => SeenIsDone')
    BY <1>4 DEF vars, storeVars, listenerVars, IdsGrow, SeenIsDone, Taking, Handling, InHand, Ids
  <2> QED
    BY <1>1, <2>1, <2>2
<1> QED
  BY <1>3, <1>4

THEOREM DeliveryInvariant == ListenerSpec => []DeliveryInv
  BY DeliveryStarts, DeliveryStepKeeps, PTL DEF ListenerSpec

\* An update that Telegram no longer keeps was handled, or a restart or a failed save cut
\* it short (_save_offset runs before the handler).
THEOREM NothingElseIsLost == ListenerSpec => []LostOnlyIfCut
<1>1. DeliveryInv => LostOnlyIfCut
  <2> SUFFICES ASSUME DeliveryInv, NEW i \in Ids, i \notin queue, handled[i] = 0
               PROVE  i \in cut
    BY DEF LostOnlyIfCut
  <2> QED
    BY DEF DeliveryInv, Passed, Settled
<1> QED
  BY <1>1, DeliveryInvariant, PTL

\* No handler runs twice for an update, unless Telegram delivers it once more after a
\* restart (the offset guards against one, _seen_update_ids against the other).
THEOREM NothingIsDoneTwice == ListenerSpec => []HandledAtMostOnce
<1>1. DeliveryInv => HandledAtMostOnce
  <2> SUFFICES ASSUME DeliveryInv, NEW i \in Ids, handled[i] > 1
               PROVE  repeats > 0 /\ restarts > 0
    BY DEF HandledAtMostOnce
  <2>1. handled[i] \in Nat
    BY DEF DeliveryInv, ListenerInv, ListenerTypes, ListenerTypeOK, Ids
  <2>2. ~IdsGrow /\ ~SeenIsDone
    BY <2>1 DEF IdsGrow, SeenIsDone
  <2> QED
    BY <2>2 DEF DeliveryInv, Faults
<1> QED
  BY <1>1, DeliveryInvariant, PTL

===============================================================================
