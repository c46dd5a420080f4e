----------------------------- MODULE HostFailures ------------------------------
(***************************************************************************)
(* The failure counters of curated hosts and the pause they lead to        *)
(* (logic/host_metrics_sampler.py, main_pkg/hosts_*.py).  A row of         *)
(* host_failure_state counts the failures in a row of one (host, provider) *)
(* pair, or of the host as a whole; a prober is to leave a paused pair     *)
(* alone until an operator resumes it.                                     *)
(*                                                                         *)
(* Several probers work on the same rows: the two legs of the sampler's    *)
(* loop and the probes that a browser's view of the host sets off.  Each   *)
(* reads its gate before it awaits the host and records the outcome        *)
(* afterwards, whatever an operator, a save of the host list or another    *)
(* prober has done meanwhile.                                              *)
(***************************************************************************)
EXTENDS Naturals, FiniteSets

CONSTANTS
  Hosts,
  RoundChoices, \* values of *_FAILURE_PAUSE_ROUNDS; 0 disables the pause
  DefaultRounds,
  MaxCount,     \* bound, at least the thresholds: a counter stays there
  MaxEvents     \* bound: acts of operators, recoveries of hosts, database errors
                \* and restarts, taken together

ASSUME HostAssumption ==
  /\ MaxCount \in Nat \ {0}
  /\ RoundChoices \subseteq 0..MaxCount /\ DefaultRounds \in RoundChoices
  /\ MaxEvents \in Nat

Providers == {"node_exporter", "snmp"}

\* "host" is the row of the host as a whole: provider '' in the table.
Slots == Providers \union {"host"}

Legs == {"ne_tick", "snmp_tick"}
Views == {"ne_view", "snmp_view"}
Kinds == Legs \union Views

Provider == [ne_tick |-> "node_exporter", ne_view |-> "node_exporter",
             snmp_tick |-> "snmp", snmp_view |-> "snmp"]

\* The row whose pause keeps a prober away.
Gate == [ne_tick |-> "host", ne_view |-> "node_exporter",
         snmp_tick |-> "snmp", snmp_view |-> "snmp"]

\* The rows a prober records its outcome in.
Records == [ne_tick |-> {"host", "node_exporter"}, ne_view |-> {"node_exporter"},
            snmp_tick |-> {"snmp"}, snmp_view |-> {"snmp"}]

\* Probers that read the threshold before they await the host.
ReadsEarly == {"ne_view", "snmp_tick"}

VARIABLES
  row,      \* host_failure_state
  config,   \* the curated hosts, each with the providers configured for it
  cached,   \* _HOST_PROVIDER_CONFIG_CACHE; <<>> when there is none
  rounds,   \* the pause threshold
  tick,     \* the leg of the sampler's loop under way
  todo,     \* hosts of that leg that wait for the semaphore
  probe,    \* probes under way
  alive,    \* whether a host answers
  events,   \* so far
  streak,   \* history: failures in a row since the last recorded success or resume
  unseen,   \* history: pauses that a probe under way does not know of
  stray     \* history: pairs whose row nothing had to remove

hostVars == <<row, config, cached, rounds, tick, todo, probe, alive, events,
              streak, unseen, stray>>

None == [count |-> 0, by |-> "none"]
Idle == [at |-> "idle", rounds |-> 0]

Paused(r) == r.by \in {"sampler", "operator"}

InFlight == {x \in Hosts \X Kinds : probe[x].at # "idle"}

Configured(h, p) == h \in DOMAIN config /\ p \in config[h]

\* One more act of an operator, or whatever else is not the probers' own work.
Event == events < MaxEvents /\ events' = events + 1

\* Every step remembers which probes under way the new pauses come too late for.
Track ==
  unseen' =
    {u \in unseen : probe'[<<u[1], u[2]>>].at # "idle"} \union
    {u \in Hosts \X Kinds \X Slots :
       /\ probe'[<<u[1], u[2]>>].at # "idle"
       /\ u[3] \in Records[u[2]]
       /\ Paused(row'[<<u[1], u[3]>>]) /\ ~Paused(row[<<u[1], u[3]>>])}

-------------------------------------------------------------------------------
(* Recording an outcome.                                                   *)

\* Bug: the pause hits only at the exact count.
FailedBug(r, n) ==
  IF r = None THEN [count |-> 1, by |-> "open"]
  ELSE [count |-> IF r.count < MaxCount THEN r.count + 1 ELSE MaxCount,
        by |-> IF r.by = "open" /\ n > 0 /\ r.count + 1 = n THEN "sampler" ELSE r.by]

\* _record_failure: the first failure of a streak only opens a row, whatever the
\* threshold n; later ones count up and pause.
Failed(r, n) ==
  IF r = None THEN [count |-> 1, by |-> "open"]
  ELSE [count |-> IF r.count < MaxCount THEN r.count + 1 ELSE MaxCount,
        by |-> IF r.by = "open" /\ n > 0 /\ r.count + 1 >= n THEN "sampler" ELSE r.by]

\* The guard of record_provider_outcome: a failure of a provider that a curated
\* host does not have is not recorded, and its row goes.  A host that is not in
\* cfg passes, and so does every failure when cfg could not be read.
Refused(cfg, h, s) == s \in Providers /\ h \in DOMAIN cfg /\ s \notin cfg[h]

\* _host_provider_config.
Known == IF cached = <<>> THEN config ELSE cached

\* Nobody passes a threshold for the host as a whole: record_provider_outcome
\* takes 0, which disables the pause, and never the time window.
Threshold(s, n) == IF s = "host" THEN 0 ELSE n

\* The rows that the probes in done record their outcome in.
Rows(done) ==
  {x \in Hosts \X Slots : \E y \in done : y[1] = x[1] /\ x[2] \in Records[y[2]]}

\* The rows after prober k failed on host h, with threshold n and the guard's
\* view cfg; the rows in lost could not be written.
AfterFailure(h, k, n, cfg, lost) ==
  [x \in Hosts \X Slots |->
     IF x \notin Rows({<<h, k>>}) \ lost THEN row[x]
     ELSE IF Refused(cfg, h, x[2]) THEN None
     ELSE Failed(row[x], Threshold(x[2], n))]

\* Bug: a success leaves a streak that has not led to a pause.
AfterSuccessBug(cleared) ==
  [x \in Hosts \X Slots |-> IF x \in cleared /\ Paused(row[x]) THEN None ELSE row[x]]

\* The rows after a success was recorded in those of cleared: _clear_failure
\* deletes a row, paused or not.
AfterSuccess(cleared) == [x \in Hosts \X Slots |-> IF x \in cleared THEN None ELSE row[x]]

Counted(h, k) ==
  [x \in Hosts \X Slots |->
     IF x \in Rows({<<h, k>>}) /\ streak[x] < MaxCount THEN streak[x] + 1 ELSE streak[x]]

Forgotten(cleared) == [x \in Hosts \X Slots |-> IF x \in cleared THEN 0 ELSE streak[x]]

-------------------------------------------------------------------------------
(* The probers.                                                            *)

\* A leg is due.  Its hosts are read once, from the configuration of that moment.
TickStarts(k) ==
  /\ tick = "idle"
  /\ tick' = k
  /\ todo' = {h \in Hosts : Configured(h, Provider[k])}
  /\ todo' # {}
  /\ UNCHANGED <<row, config, cached, rounds, probe, alive, events, streak, stray>>
  /\ Track

\* The prober gets to host h and reads its gate; when the row cannot be read
\* the pair counts as not paused.
Admits(h, k, n) ==
  /\ probe' = [probe EXCEPT ![<<h, k>>] = [at |-> "out", rounds |-> n]]
  /\ \/ ~Paused(row[<<h, Gate[k]>>]) /\ UNCHANGED events /\ Track
     \/ /\ Paused(row[<<h, Gate[k]>>]) /\ Event
        /\ unseen' = unseen \union {<<h, k, Gate[k]>>}

EarlyRounds(k) == IF k \in ReadsEarly THEN rounds ELSE 0

TickProbes(h, k) ==
  /\ tick = k /\ h \in todo
  /\ todo' = todo \ {h}
  /\ UNCHANGED <<row, config, cached, rounds, tick, alive, streak, stray>>
  /\ \/ Admits(h, k, EarlyRounds(k))
     \/ Paused(row[<<h, Gate[k]>>]) /\ UNCHANGED <<probe, events>> /\ Track

\* Bug: the probe behind a view does not look at the pause.
ViewProbesBug(h, k) ==
  /\ Configured(h, Provider[k])
  /\ \A v \in Views : probe[<<h, v>>].at = "idle"
  /\ probe' = [probe EXCEPT ![<<h, k>>] = [at |-> "out", rounds |-> EarlyRounds(k)]]
  /\ UNCHANGED <<row, config, cached, rounds, tick, todo, alive, events, streak, stray>>
  /\ Track

\* A browser looks at host h and no cached answer serves.  _merge_one_host comes
\* to its providers one after the other.
ViewProbes(h, k) ==
  /\ Configured(h, Provider[k])
  /\ \A v \in Views : probe[<<h, v>>].at = "idle"
  /\ UNCHANGED <<row, config, cached, rounds, tick, todo, alive, streak, stray>>
  /\ Admits(h, k, EarlyRounds(k))

ProbeRounds(h, k) == IF k \in ReadsEarly THEN probe[<<h, k>>].rounds ELSE rounds

\* The host does not answer, or answers with an error.
ProbeFails(h, k) ==
  /\ probe[<<h, k>>].at = "out" /\ ~alive[h]
  /\ probe' = [probe EXCEPT ![<<h, k>>] = Idle]
  /\ streak' = Counted(h, k)
  /\ \/ /\ row' = AfterFailure(h, k, ProbeRounds(h, k), Known, {})
        /\ cached' = Known
        /\ UNCHANGED <<events, stray>>
     \/ \E lost \in SUBSET Rows({<<h, k>>}) \ {{}} : \* these rows cannot be written
          /\ Event
          /\ row' = AfterFailure(h, k, ProbeRounds(h, k), Known, lost)
          /\ cached' = Known
          /\ stray' = stray \union lost
     \/ /\ cached = <<>> /\ Event \* the guard reads nothing
        /\ row' = AfterFailure(h, k, ProbeRounds(h, k), <<>>, {})
        /\ stray' = stray \union Rows({<<h, k>>})
        /\ UNCHANGED cached
  /\ UNCHANGED <<config, rounds, tick, todo, alive>>
  /\ Track

\* The host answers.  The node-exporter leg keeps its successes until the samples
\* of the whole tick are stored; the others record theirs at once.
ProbeSucceeds(h, k) ==
  /\ probe[<<h, k>>].at = "out" /\ alive[h]
  /\ IF k = "ne_tick"
     THEN /\ probe' = [probe EXCEPT ![<<h, k>>].at = "held"]
          /\ UNCHANGED <<row, streak, events>>
     ELSE /\ probe' = [probe EXCEPT ![<<h, k>>] = Idle]
          /\ \/ /\ row' = AfterSuccess(Rows({<<h, k>>}))
                /\ streak' = Forgotten(Rows({<<h, k>>}))
                /\ UNCHANGED events
             \/ Event /\ UNCHANGED <<row, streak>>
  /\ UNCHANGED <<config, cached, rounds, tick, todo, alive, stray>>
  /\ Track

\* The probe ends without a verdict: an SNMP cool-down or a name that does not
\* resolve skipped it, the counters had no baseline yet, or the browser left.
ProbeLapses(h, k) ==
  /\ probe[<<h, k>>].at = "out"
  /\ probe' = [probe EXCEPT ![<<h, k>>] = Idle]
  /\ UNCHANGED <<row, config, cached, rounds, tick, todo, alive, events, streak, stray>>
  /\ Track

Held == {x \in InFlight : probe[x].at = "held"}

\* Bug: only the row of the host as a whole is cleared.
TickEndsBug ==
  /\ tick # "idle" /\ todo = {}
  /\ \A h \in Hosts : probe[<<h, tick>>].at # "out"
  /\ tick' = "idle"
  /\ probe' = [x \in Hosts \X Kinds |-> IF x \in Held THEN Idle ELSE probe[x]]
  /\ row' = [x \in Hosts \X Slots |-> IF x[2] = "host" THEN AfterSuccess(Rows(Held))[x] ELSE row[x]]
  /\ streak' = Forgotten(Rows(Held))
  /\ UNCHANGED <<config, cached, rounds, todo, alive, events, stray>>
  /\ Track

\* Bug: the leg ends with its list of hosts, not with its probes.
TickEndsHastyBug ==
  /\ tick # "idle" /\ todo = {}
  /\ tick' = "idle"
  /\ probe' = [x \in Hosts \X Kinds |-> IF x \in Held THEN Idle ELSE probe[x]]
  /\ row' = AfterSuccess(Rows(Held)) /\ streak' = Forgotten(Rows(Held))
  /\ UNCHANGED <<config, cached, rounds, todo, alive, events, stray>>
  /\ Track

\* Every probe of the leg has ended.  The samples are stored in one go and the
\* successes recorded; a row that cannot be deleted stays as it is, and so does
\* every row when the samples cannot be stored.
TickEnds ==
  /\ tick # "idle" /\ todo = {}
  /\ \A h \in Hosts : probe[<<h, tick>>].at # "out"
  /\ tick' = "idle"
  /\ probe' = [x \in Hosts \X Kinds |-> IF x \in Held THEN Idle ELSE probe[x]]
  /\ \E lost \in SUBSET Rows(Held) :
       /\ IF lost = {} THEN UNCHANGED events ELSE Event
       /\ row' = AfterSuccess(Rows(Held) \ lost)
       /\ streak' = Forgotten(Rows(Held) \ lost)
  /\ UNCHANGED <<config, cached, rounds, todo, alive, stray>>
  /\ Track

-------------------------------------------------------------------------------
(* Operators, the configuration and the process.                           *)

\* An operator resumes these rows: they go.
Resumes(rows) ==
  /\ row' = [x \in Hosts \X Slots |-> IF x \in rows THEN None ELSE row[x]]
  /\ streak' = [x \in Hosts \X Slots |-> IF x \in rows THEN 0 ELSE streak[x]]

\* Bulk pause: the row of the host as a whole, existing or not, is paused.
BulkPause(h) ==
  /\ Event /\ h \in DOMAIN config
  /\ row' = [row EXCEPT ![<<h, "host">>].by = "operator"]
  /\ UNCHANGED <<config, cached, rounds, tick, todo, probe, alive, streak, stray>>
  /\ Track

\* Bulk resume, also of every paused host and from the chat: all rows of a host.
BulkResume(h) ==
  /\ Event /\ h \in DOMAIN config
  /\ Resumes({h} \X Slots)
  /\ UNCHANGED <<config, cached, rounds, tick, todo, probe, alive, stray>>
  /\ Track

\* resume-sampling (s = "host") and the resume of one provider.
ResumeOne(h, s) ==
  /\ Event /\ h \in DOMAIN config
  /\ Resumes({<<h, s>>})
  /\ UNCHANGED <<config, cached, rounds, tick, todo, probe, alive, stray>>
  /\ Track

SetRounds(n) ==
  /\ Event /\ n # rounds
  /\ rounds' = n
  /\ UNCHANGED <<row, config, cached, tick, todo, probe, alive, streak, stray>>
  /\ Track

Configs == UNION {[S -> SUBSET Providers] : S \in SUBSET Hosts}

\* Rows that the sweep removes: of hosts that are not curated and of providers
\* that a curated host does not have.
Orphaned(cfg) ==
  {x \in Hosts \X Slots : x[1] \notin DOMAIN cfg \/ Refused(cfg, x[1], x[2])}

\* A sweep that fails leaves all of them and is only logged.
Sweep(cfg) ==
  \/ /\ row' = [x \in Hosts \X Slots |-> IF x \in Orphaned(cfg) THEN None ELSE row[x]]
     /\ stray' = {}
  \/ UNCHANGED row /\ stray' = stray \union Orphaned(cfg)

\* Bug: the guard keeps the old configuration until its copy expires.
SaveConfigBug(cfg) ==
  /\ Event
  /\ config' = cfg
  /\ Sweep(cfg)
  /\ UNCHANGED <<cached, rounds, tick, todo, probe, alive, streak>>
  /\ Track

\* The host list is saved: the rows are swept and the guard's copy dropped
\* before anything else runs.
SaveConfig(cfg) ==
  /\ Event
  /\ config' = cfg
  /\ cached' = <<>>
  /\ Sweep(cfg)
  /\ UNCHANGED <<rounds, tick, todo, probe, alive, streak>>
  /\ Track

\* An imported snapshot replaces the host list in the settings table, and
\* nothing else: no sweep, and the guard keeps its copy.
ImportConfig(cfg) ==
  /\ Event
  /\ config' = cfg
  /\ stray' = stray \union Orphaned(cfg)
  /\ UNCHANGED <<row, cached, rounds, tick, todo, probe, alive, streak>>
  /\ Track

\* The time to live of the guard's copy is over.
CacheExpires ==
  /\ cached # <<>>
  /\ cached' = <<>>
  /\ UNCHANGED <<row, config, rounds, tick, todo, probe, alive, events, streak, stray>>
  /\ Track

\* The process stops.  The rows are in the database; the probes under way, the
\* successes held back and the guard's copy are not, and the boot sweeps.
HostRestart ==
  /\ Event
  /\ Sweep(config)
  /\ cached' = <<>>
  /\ tick' = "idle" /\ todo' = {}
  /\ probe' = [x \in Hosts \X Kinds |-> Idle]
  /\ UNCHANGED <<config, rounds, alive, streak>>
  /\ Track

Dies(h) ==
  /\ alive[h]
  /\ alive' = [alive EXCEPT ![h] = FALSE]
  /\ UNCHANGED <<row, config, cached, rounds, tick, todo, probe, events, streak, stray>>
  /\ Track

Mends(h) ==
  /\ ~alive[h] /\ Event
  /\ alive' = [alive EXCEPT ![h] = TRUE]
  /\ UNCHANGED <<row, config, cached, rounds, tick, todo, probe, streak, stray>>
  /\ Track

-------------------------------------------------------------------------------
HostInit ==
  /\ row = [x \in Hosts \X Slots |-> None]
  /\ config = [h \in Hosts |-> Providers]
  /\ cached = <<>>
  /\ rounds = DefaultRounds
  /\ tick = "idle" /\ todo = {}
  /\ probe = [x \in Hosts \X Kinds |-> Idle]
  /\ alive = [h \in Hosts |-> TRUE]
  /\ events = 0
  /\ streak = [x \in Hosts \X Slots |-> 0]
  /\ unseen = {} /\ stray = {}

Reports(h, k) == ProbeFails(h, k) \/ ProbeSucceeds(h, k)

HostNext ==
  \/ \E k \in Legs : TickStarts(k) \/ \E h \in Hosts : TickProbes(h, k)
  \/ \E h \in Hosts, k \in Views : ViewProbes(h, k)
  \/ \E h \in Hosts, k \in Kinds : Reports(h, k) \/ ProbeLapses(h, k)
  \/ TickEnds
  \/ \E h \in Hosts : BulkPause(h) \/ BulkResume(h) \/ Dies(h) \/ Mends(h)
  \/ \E h \in Hosts, s \in Slots : ResumeOne(h, s)
  \/ \E n \in RoundChoices : SetRounds(n)
  \/ \E cfg \in Configs : SaveConfig(cfg) \/ ImportConfig(cfg)
  \/ CacheExpires
  \/ HostRestart

HostSpec == HostInit /\ [][HostNext]_hostVars

\* Both legs come due again and again, every probe has a timeout, and neither a
\* cool-down nor a missing baseline skips a host for ever.  Nobody has to look
\* at a host, act on it or bring it back.
HostFairness ==
  /\ \A k \in Legs :
       /\ SF_hostVars(TickStarts(k))
       /\ \A h \in Hosts :
            /\ WF_hostVars(TickProbes(h, k))
            /\ SF_hostVars(Reports(h, k))
  /\ WF_hostVars(TickEnds)
  /\ WF_hostVars(CacheExpires)

FairHostSpec == HostSpec /\ HostFairness

-------------------------------------------------------------------------------
(* Properties.                                                             *)

\* Types; and a leg under way has nothing but its own probes out.
HostTypeOK ==
  /\ row \in [Hosts \X Slots ->
       [count : 0..MaxCount, by : {"none", "open", "sampler", "operator"}]]
  /\ config \in Configs /\ cached \in Configs
  /\ rounds \in RoundChoices
  /\ tick \in Legs \union {"idle"} /\ todo \subseteq Hosts
  /\ probe \in [Hosts \X Kinds ->
       [at : {"idle", "out", "held"}, rounds : RoundChoices \union {0}]]
  /\ alive \in [Hosts -> BOOLEAN]
  /\ events \in 0..MaxEvents
  /\ streak \in [Hosts \X Slots -> 0..MaxCount]
  /\ unseen \subseteq Hosts \X Kinds \X Slots
  /\ stray \subseteq Hosts \X Slots
  /\ \A x \in InFlight : x[2] \in Legs => x[2] = tick

\* A pair is paused by a sampler only after as many failures in a row as a
\* threshold asks for, whoever recorded them: a success or a resume in between
\* starts the count again, also across a restart, and what an edit of the host
\* list leaves behind never makes a pause come sooner.
PausedEnough ==
  \A x \in Hosts \X Slots :
    row[x].by = "sampler" => \E n \in RoundChoices \ {0} : streak[x] >= n

\* Rows that every prober recording in them also has for its gate.
OwnGated == {s \in Slots : \A k \in Kinds : s \in Records[k] => Gate[k] = s}

\* A pause that all its probers honour ends by an operator's hand, because the
\* pair is no longer configured, or by the success of a probe that was under way
\* when the pause came (or could not read it): never by a later probe.
PauseStands ==
  [][\A h \in Hosts, s \in OwnGated :
       (Paused(row[<<h, s>>]) /\ ~Paused(row'[<<h, s>>])) =>
         \/ probe' = probe
         \/ <<h, s>> \in Orphaned(config) \union Orphaned(cached)
         \/ \E k \in Kinds : <<h, k, s>> \in unseen]_hostVars

\* The row of a provider that a curated host does not have is there only when
\* nothing could remove it: no probe that a save of the host list overtook
\* brings it back.
OrphansAreStray ==
  \A h \in DOMAIN config, s \in Providers :
    row[<<h, s>>] # None /\ s \notin config[h] => <<h, s>> \in stray

\* A host that no longer answers is given up for every provider configured for
\* it, whatever happened to its counters before.
FailingPairIsPaused ==
  \A h \in Hosts, p \in Providers :
    <>[](~alive[h] /\ Configured(h, p) /\ rounds > 0 /\ ~Paused(row[<<h, "host">>]))
      => <>[]Paused(row[<<h, p>>])

\* A host that answers again and is not paused does not keep old failures.
HealthyPairIsClear ==
  \A h \in Hosts, p \in Providers :
    <>[](/\ alive[h] /\ Configured(h, p)
         /\ ~Paused(row[<<h, p>>]) /\ ~Paused(row[<<h, "host">>]))
      => <>[](row[<<h, p>>] = None)

\* docs/guidelines/env_example.md on the thresholds: "subsequent probes are
\* SKIPPED entirely until an admin clicks Resume".  A host that fails for good is
\* in the end left alone by the sampler.
FailingHostLeftAlone ==
  \A h \in Hosts :
    <>[](~alive[h] /\ Configured(h, "node_exporter") /\ rounds > 0)
      => <>[](probe[<<h, "ne_tick">>].at = "idle")
===============================================================================
