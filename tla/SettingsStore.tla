--------------------------- MODULE SettingsStore ---------------------------
(***************************************************************************)
(* The settings table and its read-through cache (logic/db.py).            *)
(*                                                                         *)
(* One event loop writes: set_setting puts one row in a transaction of its *)
(* own, the settings page collects its rows in a buffer and writes them in *)
(* one transaction.  A changed row of Announced must be followed by a new  *)
(* value of the version row; inside a deferring context the new value is   *)
(* owed until the last context ends.  Rows of Quiet are written often and  *)
(* do not count.                                                           *)
(*                                                                         *)
(* Worker threads only read, but a read that finds the cache cold selects  *)
(* the whole table and stores it as the cache, and these are two steps     *)
(* between which the loop goes on.  So the loop's writes are given in the  *)
(* steps a thread can see: what is done in memory, and the commit.         *)
(***************************************************************************)
EXTENDS Naturals

CONSTANTS
    Announced,  \* keys whose changes other tabs must hear of
    Quiet       \* keys of _SETTINGS_VERSION_EXCLUDED

Version == "_settings_version"

ASSUME StoreAssumption ==
    /\ Announced \cap Quiet = {}
    /\ Version \notin Announced \cup Quiet

Keys == Announced \cup Quiet \cup {Version}

\* What the loop is in the middle of.  Nothing else runs on the loop unless
\* it is free: none of these functions awaits.
Stages == {"free", "filled", "flushing", "leaving", "saving", "bumping"}

VARIABLES
    rows,       \* the committed settings table
    draft,      \* the table as the open transaction would leave it
    loop,       \* the stage of the write the loop is in the middle of
    cache,      \* _SETTINGS_KV_CACHE while its stamp is set and young, or Cold
    selecting,  \* a worker thread's refill between SELECT and assignment
    deferred,   \* _settings_version_deferred_count
    pending,    \* _settings_version_pending
    \* History, read by the properties only.
    owed,       \* changed keys of Announced that no version counts yet
    excused,    \* a restart or a failed write lost the count
    overtaken   \* what the cache holds was read before a write it overlapped

storeVars == <<rows, draft, loop, cache, selecting, deferred, pending, owed, excused,
               overtaken>>

\* No stamp, or one that is older than the TTL: nothing reads the dict then.
Cold == <<>>

Warm == cache # Cold

\* No refill is between its SELECT and its assignment.
NoRefill == [rows |-> <<>>, late |-> FALSE]

Refilling == selecting # NoRefill

-----------------------------------------------------------------------------
(* Reading.                                                                *)

\* The loop's refill: it does not await, and takes the lock, which a worker
\* that is refilling holds.
Refill ==
    /\ loop = "free"
    /\ ~Warm
    /\ ~Refilling
    /\ cache' = rows
    /\ overtaken' = FALSE
    /\ UNCHANGED <<rows, draft, loop, selecting, deferred, pending, owed, excused>>

\* A worker thread finds the cache cold: the SELECT sees what is committed.
WorkerSelects ==
    /\ ~Warm
    /\ ~Refilling
    /\ selecting' = [rows |-> rows, late |-> FALSE]
    /\ UNCHANGED <<rows, draft, loop, cache, deferred, pending, owed, excused,
                   overtaken>>

\* It stores what it selected and declares it fresh.
WorkerStores ==
    /\ Refilling
    /\ cache' = selecting.rows
    /\ overtaken' = (selecting.late \/ loop \in {"flushing", "saving", "bumping"})
    /\ selecting' = NoRefill
    /\ UNCHANGED <<rows, draft, loop, deferred, pending, owed, excused>>

\* _SETTINGS_KV_CACHE_TTL has passed.
TtlPasses ==
    /\ Warm
    /\ cache' = Cold
    /\ UNCHANGED <<rows, draft, loop, selecting, deferred, pending, owed, excused,
                   overtaken>>

-----------------------------------------------------------------------------
(* Writing.                                                                *)

\* Some rows, as a buffer holds them, over a table.
Over(written, table) ==
    [k \in Keys |-> IF k \in DOMAIN written THEN written[k] ELSE table[k]]

Row(k, v) == [x \in {k} |-> v]

\* A write that leaves the cache to the TTL.
InPlaceBug(written) == cache

\* A write changes the cache, too, if there is one.
InPlace(written) == IF Warm THEN Over(written, cache) ELSE Cold

Counted(table) == [table EXCEPT ![Version] = @ + 1]

\* set_setting, up to the commit: the cache changes before the row is
\* committed, and a counted write drops the cache before that, too.  A count
\* that fails is swallowed and does not take the row with it.
SetSetting(k, v, counted) ==
    LET due    == k \in Announced /\ deferred = 0
        counts == due /\ counted
        table  == [rows EXCEPT ![k] = v]
    IN  /\ loop = "free"
        /\ loop' = "saving"
        /\ draft' = IF counts THEN Counted(table) ELSE table
        /\ cache' = IF counts THEN Cold ELSE InPlace(Row(k, v))
        /\ pending' = (pending \/ (k \in Announced /\ ~due))
        /\ excused' = (excused \/ (due /\ ~counted))
        /\ UNCHANGED <<rows, selecting, deferred, owed, overtaken>>

\* The settings page: both contexts are entered and the rows are buffered.
\* The handler has no await before it leaves them again.
FillBuffer(written) ==
    /\ loop = "free"
    /\ loop' = "filled"
    /\ draft' = Over(written, rows)
    /\ cache' = InPlace(written)
    /\ deferred' = deferred + 1
    /\ pending' = TRUE
    /\ UNCHANGED <<rows, selecting, owed, excused, overtaken>>

\* The buffer is given up and its rows are written.
Flush ==
    /\ loop = "filled"
    /\ loop' = "flushing"
    /\ UNCHANGED <<rows, draft, cache, selecting, deferred, pending, owed, excused,
                   overtaken>>

\* A counting context is entered ...
EnterDefer == deferred' = deferred + 1

\* What is owed is forgotten by whoever leaves first.
LeaveDeferBug ==
    /\ deferred' = deferred - 1
    /\ pending' = FALSE
    /\ IF deferred = 1 /\ pending
          THEN /\ loop' = "bumping"
               /\ draft' = Counted(rows)
               /\ cache' = Cold
          ELSE /\ loop' = "free"
               /\ UNCHANGED <<draft, cache>>
    /\ UNCHANGED <<rows, selecting, owed, excused, overtaken>>

\* ... and left: the last one out pays what is owed.
LeaveDefer ==
    /\ deferred' = deferred - 1
    /\ IF deferred = 1 /\ pending
          THEN /\ pending' = FALSE
               /\ loop' = "bumping"
               /\ draft' = Counted(rows)
               /\ cache' = Cold
          ELSE /\ loop' = "free"
               /\ UNCHANGED <<pending, draft, cache>>
    /\ UNCHANGED <<rows, selecting, owed, excused, overtaken>>

Leave == loop = "leaving" /\ LeaveDefer

\* What follows the commit, or the failure, of the transaction: the buffer's
\* flush drops the cache and goes on to the end of the deferring context.
AfterWrite ==
    /\ loop' = IF loop = "flushing" THEN "leaving" ELSE "free"
    /\ draft' = rows'
    /\ cache' = IF loop = "flushing" THEN Cold ELSE cache
    /\ UNCHANGED <<deferred, pending>>

Changed == {k \in Announced : draft[k] # rows[k]}

Commit ==
    /\ loop \in {"flushing", "saving", "bumping"}
    /\ rows' = draft
    /\ owed' = IF draft[Version] # rows[Version] THEN {} ELSE owed \cup Changed
    /\ selecting' = IF Refilling THEN [selecting EXCEPT !.late = TRUE] ELSE selecting
    /\ AfterWrite
    /\ UNCHANGED <<excused, overtaken>>

\* The database is locked or full.  A flush and a count swallow that, a
\* single write raises.  The cache keeps what it was given (a statement that
\* fails before the commit leaves less behind).
WriteFails ==
    /\ loop \in {"flushing", "saving", "bumping"}
    /\ excused' = (excused \/ loop = "bumping")
    /\ overtaken' = (overtaken \/ loop = "saving")
    /\ UNCHANGED <<rows, owed, selecting>>
    /\ AfterWrite

\* The process ends; what is in memory and what is not committed is gone.
StoreRestart ==
    /\ draft' = rows
    /\ loop' = "free"
    /\ cache' = Cold
    /\ selecting' = NoRefill
    /\ deferred' = 0
    /\ pending' = FALSE
    /\ excused' = (excused \/ owed # {})
    /\ overtaken' = FALSE
    /\ UNCHANGED <<rows, owed>>

StoreInit ==
    /\ rows = [k \in Keys |-> 0]
    /\ draft = rows
    /\ loop = "free"
    /\ cache = Cold
    /\ selecting = NoRefill
    /\ deferred = 0
    /\ pending = FALSE
    /\ owed = {}
    /\ excused = FALSE
    /\ overtaken = FALSE

\* What goes on without the listener.
ReadStep == Refill \/ WorkerSelects \/ WorkerStores \/ TtlPasses

-----------------------------------------------------------------------------
(* Properties.                                                             *)

StoreTypeOK ==
    /\ rows \in [Keys -> Nat]
    /\ draft \in [Keys -> Nat]
    /\ cache \in [Keys -> Nat] \cup {Cold}
    /\ selecting \in [rows : [Keys -> Nat], late : BOOLEAN] \cup {NoRefill}
    /\ loop \in Stages
    /\ deferred \in Nat
    /\ pending \in BOOLEAN
    /\ owed \subseteq Announced

\* What a reader on the loop is given is what the table holds, unless a
\* thread's refill overlapped a write or a write failed after it had changed
\* the cache; then it is old for one TTL at most.  This is the reason for
\* changing the cache in place, for dropping it with every count and after a
\* flush (the comment above _SETTINGS_KV_CACHE promises it without the
\* exceptions).
ReadsAreCurrent == loop = "free" /\ Warm /\ cache # rows => overtaken

\* Once nobody defers, every change of an announced key has been counted by
\* the version row, unless the count itself failed or the process ended
\* first (defer_settings_version_bump collapses counts, it must not lose one).
ChangesAreCounted ==
    loop = "free" /\ deferred = 0 => ~pending /\ (owed # {} => excused)
=============================================================================
