------------------------- MODULE TelegramListener -------------------------
(***************************************************************************)
(* The long-poll loop of the Telegram bot (logic/telegram_listener.py) on  *)
(* the settings store, in which it keeps the id of the last update it took *)
(* and finds the switch that turns it on.                                  *)
(*                                                                         *)
(* Telegram keeps an update until a poll names a later offset.  The loop   *)
(* takes the updates of an answer one by one: it moves its offset, saves   *)
(* it, and then handles the update.  An update either asks for something   *)
(* whose reply carries a button, or it is a press of such a button; an     *)
(* action behind a button is kept in memory under a token.                 *)
(***************************************************************************)
EXTENDS SettingsStore, Sequences, FiniteSets

CONSTANTS
    MaxUpdates,    \* updates that people send
    MaxEdits,      \* settings that an administrator saves
    MaxFaults,     \* failing writes
    MaxRestarts,   \* ends of the process
    MaxRepeats     \* updates that Telegram delivers once more

Enabled == "telegram_listener_enabled"
Offset  == "telegram_last_update_id"

ASSUME ListenerAssumption ==
    /\ Enabled \in Announced
    /\ Offset \in Quiet
    /\ {MaxUpdates, MaxEdits, MaxFaults, MaxRestarts, MaxRepeats} \subseteq Nat

VARIABLES
    sent,      \* the updates people sent, an update's id is its index
    queue,     \* ids that Telegram still keeps for the bot
    pc,        \* where the loop is
    offset,    \* its local variable: the next id it asks for
    batch,     \* the rest of the answer it works on
    seen,      \* _seen_update_ids
    actions,   \* tokens in _PENDING_ACTIONS; they are numbered as they are made
    \* History.
    handled,   \* how often an update's handler ran
    ran,       \* how often the action behind a token ran
    cut,       \* updates whose handling a restart or a failed save prevented
    edits, faults, restarts, repeats

listenerVars == <<sent, queue, pc, offset, batch, seen, actions, handled, ran, cut,
                  edits, faults, restarts, repeats>>

vars == <<storeVars, listenerVars>>

Ids == 1 .. Len(sent)

\* An update is a press of the button that carries a token, or a request.
Request == 0

Tokens == 1 .. Len(ran)

Places == {"idle", "polling", "batch", "saving", "handling", "running"}

-----------------------------------------------------------------------------
(* People and Telegram.                                                    *)

\* Somebody writes to the bot, or presses a button they were shown.
Send(t) ==
    /\ Len(sent) < MaxUpdates
    /\ t \in Tokens \cup {Request}
    /\ sent' = Append(sent, t)
    /\ queue' = queue \cup {Len(sent) + 1}
    /\ handled' = Append(handled, 0)
    /\ UNCHANGED <<storeVars, pc, offset, batch, seen, actions, ran, cut,
                   edits, faults, restarts, repeats>>

\* An administrator turns the listener on or off: on the settings page, which
\* buffers, or by a route that calls set_setting itself.
Edit ==
    /\ edits < MaxEdits
    /\ edits' = edits + 1
    /\ \E v \in {0, 1} \ {rows[Enabled]} :
           \/ FillBuffer(Row(Enabled, v)) /\ UNCHANGED faults
           \/ SetSetting(Enabled, v, TRUE) /\ UNCHANGED faults
           \/ /\ faults < MaxFaults
              /\ faults' = faults + 1
              /\ SetSetting(Enabled, v, FALSE)
    /\ UNCHANGED <<sent, queue, pc, offset, batch, seen, actions, handled, ran, cut,
                   restarts, repeats>>

-----------------------------------------------------------------------------
(* The loop.                                                               *)

\* The gate is read through the cache on every round.
Poll ==
    /\ pc = "idle"
    /\ loop = "free"
    /\ Warm /\ cache[Enabled] = 1
    /\ pc' = "polling"
    /\ UNCHANGED <<storeVars, sent, queue, offset, batch, seen, actions, handled, ran, cut,
                   edits, faults, restarts, repeats>>

\* What Telegram keeps once it has seen the offset of a poll.
Kept == {i \in queue : i >= offset}

\* In the order they came, all of them.
Ordered(ids) ==
    {s \in [1 .. Cardinality(ids) -> ids] :
        /\ \A m, n \in DOMAIN s : m < n => s[m] < s[n]
        /\ \A i \in ids : \E n \in DOMAIN s : s[n] = i}

\* The answer; now and then it contains an update once more.
Answer ==
    /\ pc = "polling"
    /\ loop = "free"
    /\ queue' = Kept
    /\ \E ids \in Ordered(Kept) :
          \/ batch' = ids /\ repeats' = repeats
          \/ /\ repeats < MaxRepeats
             /\ repeats' = repeats + 1
             /\ \E i \in Ids : batch' = Append(ids, i)
    /\ pc' = IF batch' = <<>> THEN "idle" ELSE "batch"
    /\ IF batch' = <<>> THEN UNCHANGED deferred ELSE EnterDefer
    /\ UNCHANGED <<rows, draft, loop, cache, selecting, pending, owed, excused,
                   overtaken, sent, offset, seen, actions, handled, ran, cut,
                   edits, faults, restarts>>

\* No answer, or one that is not ok, whether or not Telegram saw the poll.
PollFails ==
    /\ pc = "polling"
    /\ pc' = "idle"
    /\ queue' \in {queue, Kept}
    /\ UNCHANGED <<storeVars, sent, offset, batch, seen, actions, handled, ran, cut,
                   edits, faults, restarts, repeats>>

\* The loop moves past the whole answer at once.
TakeBug ==
    /\ pc = "batch"
    /\ batch # <<>>
    /\ SetSetting(Offset, Head(batch), TRUE)
    /\ offset' = batch[Len(batch)] + 1
    /\ pc' = "saving"
    /\ UNCHANGED <<sent, queue, batch, seen, actions, handled, ran, cut,
                   edits, faults, restarts, repeats>>

\* The next update of the answer: the offset moves and is saved.
Take ==
    /\ pc = "batch"
    /\ batch # <<>>
    /\ SetSetting(Offset, Head(batch), TRUE)
    /\ offset' = Head(batch) + 1
    /\ pc' = "saving"
    /\ UNCHANGED <<sent, queue, batch, seen, actions, handled, ran, cut,
                   edits, faults, restarts, repeats>>

\* The offset is trusted, the window of seen ids is not consulted.
TakenBug ==
    /\ pc' = "handling"
    /\ seen' = seen \cup {Head(batch)}
    /\ UNCHANGED <<sent, queue, offset, batch, actions, handled, ran, cut,
                   edits, faults, restarts, repeats>>

\* The offset is saved, and the update is new or has been seen.
Taken ==
    /\ pc' = IF Head(batch) \in seen THEN "batch" ELSE "handling"
    /\ batch' = IF Head(batch) \in seen THEN Tail(batch) ELSE batch
    /\ seen' = seen \cup {Head(batch)}
    /\ UNCHANGED <<sent, queue, offset, actions, handled, ran, cut,
                   edits, faults, restarts, repeats>>

Committed ==
    /\ Commit
    /\ IF loop = "saving" /\ pc = "saving" THEN Taken ELSE UNCHANGED listenerVars

\* The save raises something that _save_offset does not catch: the rest of
\* the answer is abandoned, the offset stays where it was moved to.
Abandon ==
    /\ batch' = <<>>
    /\ pc' = "batch"
    /\ cut' = IF Head(batch) \in seen THEN cut ELSE cut \cup {Head(batch)}
    /\ UNCHANGED <<sent, queue, offset, seen, actions, handled, ran,
                   edits, restarts, repeats>>

NotCommitted ==
    /\ faults < MaxFaults
    /\ faults' = faults + 1
    /\ WriteFails
    /\ IF loop = "saving" /\ pc = "saving"
          THEN Abandon
          ELSE UNCHANGED <<sent, queue, pc, offset, batch, seen, actions, handled, ran, cut,
                           edits, restarts, repeats>>

Done(i) ==
    /\ handled' = [handled EXCEPT ![i] = @ + 1]
    /\ batch' = Tail(batch)
    /\ pc' = "batch"

\* A request is answered, with a button; the action behind it is registered.
HandleRequest ==
    /\ pc = "handling"
    /\ loop = "free"
    /\ sent[Head(batch)] = Request
    /\ Done(Head(batch))
    /\ ran' = Append(ran, 0)
    /\ actions' = actions \cup {Len(ran) + 1}
    /\ UNCHANGED <<storeVars, sent, queue, offset, seen, cut,
                   edits, faults, restarts, repeats>>

\* A press looks the action up and leaves it where it is.
HandlePressBug ==
    /\ pc = "handling"
    /\ loop = "free"
    /\ sent[Head(batch)] # Request
    /\ IF sent[Head(batch)] \in actions
          THEN pc' = "running" /\ UNCHANGED <<batch, handled>>
          ELSE Done(Head(batch))
    /\ UNCHANGED <<storeVars, sent, queue, offset, seen, actions, ran, cut,
                   edits, faults, restarts, repeats>>

\* A press takes the action out of the store, or finds it gone.
HandlePress ==
    /\ pc = "handling"
    /\ loop = "free"
    /\ sent[Head(batch)] # Request
    /\ LET t == sent[Head(batch)]
       IN  IF t \in actions
              THEN /\ actions' = actions \ {t}
                   /\ pc' = "running"
                   /\ UNCHANGED <<batch, handled>>
              ELSE /\ Done(Head(batch))
                   /\ UNCHANGED actions
    /\ UNCHANGED <<storeVars, sent, queue, offset, seen, ran, cut,
                   edits, faults, restarts, repeats>>

\* The presser has been answered; the action runs.
RunAction ==
    /\ pc = "running"
    /\ loop = "free"
    /\ ran' = [ran EXCEPT ![sent[Head(batch)]] = @ + 1]
    /\ Done(Head(batch))
    /\ UNCHANGED <<storeVars, sent, queue, offset, seen, actions, cut,
                   edits, faults, restarts, repeats>>

\* The answer is worked off (or abandoned) and the deferring context ends.
EndBatch ==
    /\ pc = "batch"
    /\ batch = <<>>
    /\ loop = "free"
    /\ LeaveDefer
    /\ pc' = "idle"
    /\ UNCHANGED <<sent, queue, offset, batch, seen, actions, handled, ran, cut,
                   edits, faults, restarts, repeats>>

\* A button is older than _PENDING_ACTION_TTL_SECONDS, or more than
\* _PENDING_ACTION_CAP came after it.
ActionExpires(t) ==
    /\ actions' = actions \ {t}
    /\ UNCHANGED <<storeVars, sent, queue, pc, offset, batch, seen, handled, ran, cut,
                   edits, faults, restarts, repeats>>

\* The process ends and comes back: the loop starts at the saved offset.
Restart ==
    /\ restarts < MaxRestarts
    /\ restarts' = restarts + 1
    /\ StoreRestart
    /\ offset' = rows[Offset] + 1
    /\ pc' = "idle"
    /\ batch' = <<>>
    /\ seen' = {}
    /\ actions' = {}
    /\ cut' = IF pc \in {"handling", "running"} THEN cut \cup {Head(batch)} ELSE cut
    /\ UNCHANGED <<sent, queue, handled, ran, edits, faults, repeats>>

-----------------------------------------------------------------------------

ListenerInit ==
    /\ StoreInit
    /\ sent = <<>> /\ queue = {} /\ pc = "idle" /\ offset = 1 /\ batch = <<>>
    /\ seen = {} /\ actions = {} /\ handled = <<>> /\ ran = <<>> /\ cut = {}
    /\ edits = 0 /\ faults = 0 /\ restarts = 0 /\ repeats = 0

StoreStep ==
    /\ ReadStep \/ Flush \/ Leave
    /\ UNCHANGED listenerVars

ListenerNext ==
    \/ \E t \in Tokens \cup {Request} : Send(t)
    \/ \E t \in actions : ActionExpires(t)
    \/ Edit
    \/ StoreStep
    \/ Committed
    \/ NotCommitted
    \/ Poll \/ Answer \/ PollFails \/ Take
    \/ HandleRequest \/ HandlePress \/ RunAction
    \/ EndBatch
    \/ Restart

ListenerSpec == ListenerInit /\ [][ListenerNext]_vars

-----------------------------------------------------------------------------
(* Properties.                                                             *)

ListenerTypeOK ==
    /\ sent \in Seq(Nat)
    /\ queue \subseteq Ids
    /\ pc \in Places
    /\ offset \in Nat
    /\ batch \in Seq(Ids)
    /\ seen \subseteq Ids
    /\ actions \subseteq Tokens
    /\ handled \in Seq(Nat) /\ Len(handled) = Len(sent)
    /\ ran \in Seq(Nat)
    /\ cut \subseteq Ids

\* No command is carried out twice, whatever fails and whenever the process
\* ends; only an update that Telegram delivers once more after a restart
\* gets past both the offset and the window of seen ids.
HandledAtMostOnce ==
    \A i \in Ids : handled[i] > 1 => repeats > 0 /\ restarts > 0

\* What Telegram has forgotten has been handled, unless its handling was cut
\* short: by a restart after the offset was saved, or by a save that failed
\* after the offset was moved.
LostOnlyIfCut ==
    \A i \in Ids : i \notin queue /\ handled[i] = 0 => i \in cut

\* The action behind a button runs once, however often the button is
\* pressed, the press is delivered, or the process restarts.
ActionRunsOnce == \A t \in Tokens : ran[t] <= 1
=============================================================================
