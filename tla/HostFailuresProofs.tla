-------------------------- MODULE HostFailuresProofs --------------------------
(***************************************************************************)
(* Proofs about the failure counters, for any set of hosts, any thresholds *)
(* and any bounds that satisfy HostAssumption.                             *)
(***************************************************************************)
EXTENDS HostFailures, TLAPS

RowRecord == [count : 0..MaxCount, by : {"none", "open", "sampler", "operator"}]

ProbeRecord == [at : {"idle", "out", "held"}, rounds : RoundChoices \union {0}]

-------------------------------------------------------------------------------
(* Types.                                                                  *)

\* Thresholds and the bound on counters are numbers.
LEMMA Numbers == /\ MaxCount \in Nat \ {0}
                 /\ RoundChoices \subseteq Nat
                 /\ DefaultRounds \in RoundChoices
  BY HostAssumption

\* The empty host list, which is also how the model writes "no copy".
LEMMA EmptyConfig == <<>> \in Configs
<1>1. <<>> \in [{} -> SUBSET Providers]
  OBVIOUS
<1> QED
  BY <1>1 DEF Configs

\* The tables of the module name providers, gates and rows that exist.
LEMMA TableTypes ==
  /\ None \in RowRecord
  /\ Idle \in ProbeRecord
  /\ \A k \in Kinds : Records[k] \subseteq Slots /\ Gate[k] \in Slots
<1>1. None \in RowRecord /\ Idle \in ProbeRecord
  BY Numbers DEF None, Idle, RowRecord, ProbeRecord
<1>2. ASSUME NEW k \in Kinds
      PROVE  Records[k] \subseteq Slots /\ Gate[k] \in Slots
  BY DEF Kinds, Legs, Views, Records, Gate, Slots, Providers
<1> QED
  BY <1>1, <1>2

LEMMA FailedType ==
  ASSUME NEW r \in RowRecord, NEW n \in Nat
  PROVE  Failed(r, n) \in RowRecord
  BY Numbers DEF Failed, RowRecord, None

LEMMA AfterFailureType ==
  ASSUME HostTypeOK, NEW h \in Hosts, NEW k \in Kinds, NEW n \in Nat, NEW cfg, NEW lost
  PROVE  AfterFailure(h, k, n, cfg, lost) \in [Hosts \X Slots -> RowRecord]
<1>1. ASSUME NEW x \in Hosts \X Slots
      PROVE  /\ row[x] \in RowRecord
             /\ Failed(row[x], Threshold(x[2], n)) \in RowRecord
  <2>1. row[x] \in RowRecord /\ Threshold(x[2], n) \in Nat
    BY DEF HostTypeOK, RowRecord, Threshold
  <2> QED
    BY <2>1, FailedType
<1> QED
  BY <1>1, TableTypes DEF AfterFailure

LEMMA AfterSuccessType ==
  ASSUME HostTypeOK, NEW cleared
  PROVE  /\ AfterSuccess(cleared) \in [Hosts \X Slots -> RowRecord]
         /\ Forgotten(cleared) \in [Hosts \X Slots -> 0..MaxCount]
<1>1. row \in [Hosts \X Slots -> RowRecord] /\ streak \in [Hosts \X Slots -> 0..MaxCount]
  BY DEF HostTypeOK, RowRecord
<1> QED
  BY <1>1, TableTypes, Numbers DEF AfterSuccess, Forgotten

LEMMA CountedType ==
  ASSUME HostTypeOK, NEW h, NEW k
  PROVE  Counted(h, k) \in [Hosts \X Slots -> 0..MaxCount]
  BY Numbers DEF HostTypeOK, Counted

LEMMA TrackType ==
  ASSUME HostTypeOK, Track
  PROVE  unseen' \subseteq Hosts \X Kinds \X Slots
  BY DEF HostTypeOK, Track

LEMMA EventType ==
  ASSUME HostTypeOK, Event
  PROVE  events' \in 0..MaxEvents
  BY HostAssumption DEF HostTypeOK, Event

\* The parts of HostTypeOK: the tables, the simple variables, and the probes of legs.
Tables ==
  /\ row \in [Hosts \X Slots -> RowRecord]
  /\ streak \in [Hosts \X Slots -> 0..MaxCount]
  /\ probe \in [Hosts \X Kinds -> ProbeRecord]
  /\ alive \in [Hosts -> BOOLEAN]

Scalars ==
  /\ config \in Configs /\ cached \in Configs
  /\ rounds \in RoundChoices
  /\ tick \in Legs \union {"idle"} /\ todo \subseteq Hosts
  /\ events \in 0..MaxEvents
  /\ unseen \subseteq Hosts \X Kinds \X Slots
  /\ stray \subseteq Hosts \X Slots

OneLeg == \A h \in Hosts, k \in Legs : probe[<<h, k>>].at # "idle" => k = tick

LEMMA TypeParts == HostTypeOK <=> Tables /\ Scalars /\ OneLeg
  BY DEF HostTypeOK, Tables, Scalars, OneLeg, RowRecord, ProbeRecord, InFlight, Kinds

LEMMA TypePartsNext == HostTypeOK' <=> Tables' /\ Scalars' /\ OneLeg'
  BY DEF HostTypeOK, Tables, Scalars, OneLeg, RowRecord, ProbeRecord, InFlight, Kinds

\* Putting one probe into another state keeps the probes well formed.
LEMMA ProbeUpdate ==
  ASSUME HostTypeOK, NEW h \in Hosts, NEW k \in Kinds, NEW p \in ProbeRecord,
         probe' = [probe EXCEPT ![<<h, k>>] = p]
  PROVE  /\ probe' \in [Hosts \X Kinds -> ProbeRecord]
         /\ probe'[<<h, k>>] = p
         /\ \A g \in Hosts, j \in Kinds :
              <<g, j>> # <<h, k>> => probe'[<<g, j>>] = probe[<<g, j>>]
  BY DEF HostTypeOK, ProbeRecord

LEMMA RoundsType ==
  ASSUME HostTypeOK, NEW h \in Hosts, NEW k \in Kinds
  PROVE  /\ EarlyRounds(k) \in RoundChoices \union {0}
         /\ ProbeRounds(h, k) \in RoundChoices \union {0}
         /\ ProbeRounds(h, k) \in Nat
<1>1. rounds \in RoundChoices /\ probe[<<h, k>>] \in ProbeRecord
  BY TypeParts DEF Tables, Scalars
<1>2. probe[<<h, k>>].rounds \in RoundChoices \union {0}
  BY <1>1 DEF ProbeRecord
<1>3. EarlyRounds(k) \in RoundChoices \union {0}
  BY <1>1 DEF EarlyRounds
<1>4. ProbeRounds(h, k) \in RoundChoices \union {0}
  BY <1>1, <1>2 DEF ProbeRounds
<1>5. RoundChoices \union {0} \subseteq Nat
  BY Numbers
<1> QED
  BY <1>3, <1>4, <1>5, Zenon

LEMMA InitType == HostInit => HostTypeOK
<1> SUFFICES ASSUME HostInit PROVE HostTypeOK
  OBVIOUS
<1>1. Tables
  BY TableTypes, Numbers DEF HostInit, Tables
<1>2. config \in Configs
  BY DEF HostInit, Configs
<1>3. Scalars
  BY <1>2, EmptyConfig, HostAssumption DEF HostInit, Scalars
<1>4. OneLeg
  BY DEF HostInit, OneLeg, Idle, Kinds
<1> QED
  BY <1>1, <1>3, <1>4, TypeParts

LEMMA TickStartsType ==
  ASSUME HostTypeOK, NEW k \in Legs, TickStarts(k)
  PROVE  HostTypeOK'
<1>1. Tables'
  BY TypeParts DEF TickStarts, Tables
<1>2. Scalars'
  BY TypeParts, TrackType DEF TickStarts, Scalars
<1>3. OneLeg'
  BY TypeParts DEF TickStarts, OneLeg, Legs
<1> QED
  BY <1>1, <1>2, <1>3, TypePartsNext

\* A prober that is admitted: its probe is out, the rest is as before.
LEMMA AdmitsType ==
  ASSUME HostTypeOK, NEW h \in Hosts, NEW k \in Kinds, NEW n \in RoundChoices \union {0},
         Admits(h, k, n)
  PROVE  /\ probe' \in [Hosts \X Kinds -> ProbeRecord]
         /\ probe'[<<h, k>>].at = "out"
         /\ \A g \in Hosts, j \in Kinds :
              <<g, j>> # <<h, k>> => probe'[<<g, j>>] = probe[<<g, j>>]
         /\ events' \in 0..MaxEvents
         /\ unseen' \subseteq Hosts \X Kinds \X Slots
<1> DEFINE p == [at |-> "out", rounds |-> n]
<1>1. p \in ProbeRecord
  BY DEF ProbeRecord
<1>2. probe' = [probe EXCEPT ![<<h, k>>] = p]
  BY DEF Admits
<1>3. events' \in 0..MaxEvents
  BY EventType DEF Admits, HostTypeOK
<1>4. unseen' \subseteq Hosts \X Kinds \X Slots
  <2>1. CASE UNCHANGED events /\ Track
    BY <2>1, TrackType
  <2>2. CASE unseen' = unseen \union {<<h, k, Gate[k]>>}
    BY <2>2, TableTypes DEF HostTypeOK
  <2> QED
    BY <2>1, <2>2 DEF Admits
<1> QED
  BY <1>1, <1>2, <1>3, <1>4, ProbeUpdate

LEMMA TickProbesType ==
  ASSUME HostTypeOK, NEW h \in Hosts, NEW k \in Legs, TickProbes(h, k)
  PROVE  HostTypeOK'
<1>1. k \in Kinds
  BY DEF Kinds
<1>2. CASE Admits(h, k, EarlyRounds(k))
  <2>1. /\ probe' \in [Hosts \X Kinds -> ProbeRecord]
        /\ \A g \in Hosts, j \in Kinds :
             <<g, j>> # <<h, k>> => probe'[<<g, j>>] = probe[<<g, j>>]
        /\ events' \in 0..MaxEvents
        /\ unseen' \subseteq Hosts \X Kinds \X Slots
    BY <1>1, <1>2, AdmitsType, RoundsType
  <2>2. Tables'
    BY <2>1, TypeParts DEF TickProbes, Tables
  <2>3. Scalars'
    BY <2>1, TypeParts DEF TickProbes, Scalars
  <2>4. OneLeg'
    BY <2>1, TypeParts DEF TickProbes, OneLeg, Kinds
  <2> QED
    BY <2>2, <2>3, <2>4, TypePartsNext
<1>3. CASE UNCHANGED <<probe, events>> /\ Track
  <2>1. Tables'
    BY <1>3, TypeParts DEF TickProbes, Tables
  <2>2. Scalars'
    BY <1>3, TypeParts, TrackType DEF TickProbes, Scalars
  <2>3. OneLeg'
    BY <1>3, TypeParts DEF TickProbes, OneLeg
  <2> QED
    BY <2>1, <2>2, <2>3, TypePartsNext
<1> QED
  BY <1>2, <1>3 DEF TickProbes

LEMMA ViewProbesType ==
  ASSUME HostTypeOK, NEW h \in Hosts, NEW k \in Views, ViewProbes(h, k)
  PROVE  HostTypeOK'
<1>1. k \in Kinds /\ k \notin Legs
  BY DEF Kinds, Legs, Views
<1>2. /\ probe' \in [Hosts \X Kinds -> ProbeRecord]
      /\ \A g \in Hosts, j \in Kinds :
           <<g, j>> # <<h, k>> => probe'[<<g, j>>] = probe[<<g, j>>]
      /\ events' \in 0..MaxEvents
      /\ unseen' \subseteq Hosts \X Kinds \X Slots
  BY <1>1, AdmitsType, RoundsType DEF ViewProbes
<1>3. Tables'
  BY <1>2, TypeParts DEF ViewProbes, Tables
<1>4. Scalars'
  BY <1>2, TypeParts DEF ViewProbes, Scalars
<1>5. OneLeg'
  BY <1>1, <1>2, TypeParts DEF ViewProbes, OneLeg, Kinds
<1> QED
  BY <1>3, <1>4, <1>5, TypePartsNext

LEMMA ProbeFailsType ==
  ASSUME HostTypeOK, NEW h \in Hosts, NEW k \in Kinds, ProbeFails(h, k)
  PROVE  HostTypeOK'
<1>1. probe' = [probe EXCEPT ![<<h, k>>] = Idle]
  BY DEF ProbeFails
<1>2. /\ probe' \in [Hosts \X Kinds -> ProbeRecord]
      /\ probe'[<<h, k>>] = Idle
      /\ \A g \in Hosts, j \in Kinds :
           <<g, j>> # <<h, k>> => probe'[<<g, j>>] = probe[<<g, j>>]
  BY <1>1, ProbeUpdate, TableTypes
<1>3. row' \in [Hosts \X Slots -> RowRecord]
  <2>1. PICK cfg, lost : row' = AfterFailure(h, k, ProbeRounds(h, k), cfg, lost)
    BY DEF ProbeFails
  <2> QED
    BY <2>1, AfterFailureType, RoundsType
<1>4. Rows({<<h, k>>}) \subseteq Hosts \X Slots
  BY DEF Rows
<1>5. events' \in 0..MaxEvents
  BY EventType DEF ProbeFails, HostTypeOK
<1>6. cached' \in Configs /\ stray' \subseteq Hosts \X Slots
  BY <1>4 DEF ProbeFails, Known, HostTypeOK
<1>7. Tables'
  BY <1>2, <1>3, CountedType, TypeParts DEF ProbeFails, Tables
<1>8. Scalars'
  BY <1>5, <1>6, TrackType, TypeParts DEF ProbeFails, Scalars
<1>9. OneLeg'
  BY <1>2, TypeParts DEF ProbeFails, OneLeg, Idle, Kinds
<1> QED
  BY <1>7, <1>8, <1>9, TypePartsNext

LEMMA ProbeSucceedsType ==
  ASSUME HostTypeOK, NEW h \in Hosts, NEW k \in Kinds, ProbeSucceeds(h, k)
  PROVE  HostTypeOK'
<1>1. PICK p \in ProbeRecord :
        probe' = [probe EXCEPT ![<<h, k>>] = p] /\ (p = Idle \/ k = "ne_tick")
  <2>1. CASE k = "ne_tick"
    <3> DEFINE p == [probe[<<h, k>>] EXCEPT !.at = "held"]
    <3>1. probe[<<h, k>>] \in ProbeRecord
      BY TypeParts DEF Tables
    <3>2. p \in ProbeRecord
      BY <3>1 DEF ProbeRecord
    <3>3. probe' = [probe EXCEPT ![<<h, k>>] = p]
      BY <2>1 DEF ProbeSucceeds
    <3> QED
      BY <2>1, <3>2, <3>3
  <2>2. CASE k # "ne_tick"
    BY <2>2, TableTypes DEF ProbeSucceeds
  <2> QED
    BY <2>1, <2>2
<1>2. /\ probe' \in [Hosts \X Kinds -> ProbeRecord]
      /\ probe'[<<h, k>>] = p
      /\ \A g \in Hosts, j \in Kinds :
           <<g, j>> # <<h, k>> => probe'[<<g, j>>] = probe[<<g, j>>]
  BY <1>1, ProbeUpdate
<1>3. /\ row' \in [Hosts \X Slots -> RowRecord]
      /\ streak' \in [Hosts \X Slots -> 0..MaxCount]
  BY AfterSuccessType, TypeParts DEF ProbeSucceeds, Tables
<1>4. events' \in 0..MaxEvents
  BY EventType DEF ProbeSucceeds, HostTypeOK
<1>5. Tables'
  BY <1>2, <1>3, TypeParts DEF ProbeSucceeds, Tables
<1>6. Scalars'
  BY <1>4, TrackType, TypeParts DEF ProbeSucceeds, Scalars
<1>7. OneLeg'
  BY <1>1, <1>2, TypeParts DEF ProbeSucceeds, OneLeg, Idle, Kinds
<1> QED
  BY <1>5, <1>6, <1>7, TypePartsNext

LEMMA ProbeLapsesType ==
  ASSUME HostTypeOK, NEW h \in Hosts, NEW k \in Kinds, ProbeLapses(h, k)
  PROVE  HostTypeOK'
<1>1. probe' = [probe EXCEPT ![<<h, k>>] = Idle]
  BY DEF ProbeLapses
<1>2. /\ probe' \in [Hosts \X Kinds -> ProbeRecord]
      /\ probe'[<<h, k>>] = Idle
      /\ \A g \in Hosts, j \in Kinds :
           <<g, j>> # <<h, k>> => probe'[<<g, j>>] = probe[<<g, j>>]
  BY <1>1, ProbeUpdate, TableTypes
<1>3. Tables'
  BY <1>2, TypeParts DEF ProbeLapses, Tables
<1>4. Scalars'
  BY TrackType, TypeParts DEF ProbeLapses, Scalars
<1>5. OneLeg'
  BY <1>2, TypeParts DEF ProbeLapses, OneLeg, Idle, Kinds
<1> QED
  BY <1>3, <1>4, <1>5, TypePartsNext

\* At its end a leg has no probe left: those that are not out are held.
LEMMA TickEndsType == HostTypeOK /\ TickEnds => HostTypeOK'
<1> SUFFICES ASSUME HostTypeOK, TickEnds PROVE HostTypeOK'
  OBVIOUS
<1>1. PICK lost \in SUBSET Rows(Held) :
        /\ IF lost = {} THEN UNCHANGED events ELSE Event
        /\ row' = AfterSuccess(Rows(Held) \ lost)
        /\ streak' = Forgotten(Rows(Held) \ lost)
  BY DEF TickEnds
<1>2. /\ row' \in [Hosts \X Slots -> RowRecord]
      /\ streak' \in [Hosts \X Slots -> 0..MaxCount]
  BY <1>1, AfterSuccessType
<1>3. /\ probe' = [x \in Hosts \X Kinds |-> IF x \in Held THEN Idle ELSE probe[x]]
      /\ tick' = "idle"
      /\ UNCHANGED <<config, cached, rounds, todo, alive, stray>>
      /\ Track
  BY DEF TickEnds
<1>4. probe' \in [Hosts \X Kinds -> ProbeRecord]
  BY <1>3, TableTypes, TypeParts DEF Tables
<1>5. events' \in 0..MaxEvents
  BY <1>1, EventType DEF HostTypeOK
<1>6. Tables'
  BY <1>2, <1>3, <1>4, TypeParts DEF Tables
<1>7. Scalars'
  BY <1>3, <1>5, TrackType, TypeParts DEF Scalars
<1>8. ASSUME NEW h \in Hosts, NEW k \in Legs
      PROVE  probe'[<<h, k>>].at = "idle"
  <2>1. k \in Kinds /\ <<h, k>> \in Hosts \X Kinds
    BY DEF Kinds
  <2>2. probe[<<h, k>>].at \in {"idle", "held"}
    <3>1. probe[<<h, k>>].at \in {"idle", "out", "held"}
      BY <2>1, TypeParts DEF Tables, ProbeRecord
    <3>2. probe[<<h, k>>].at = "out" => k = tick
      BY TypeParts DEF OneLeg
    <3> QED
      BY <3>1, <3>2 DEF TickEnds
  <2>3. probe[<<h, k>>].at = "held" => <<h, k>> \in Held
    BY <2>1 DEF Held, InFlight
  <2> QED
    BY <1>3, <2>1, <2>2, <2>3 DEF Idle
<1>9. OneLeg'
  BY <1>8 DEF OneLeg
<1> QED
  BY <1>6, <1>7, <1>9, TypePartsNext

\* A resume and a sweep remove rows like a success does.
LEMMA ResumesClear ==
  ASSUME NEW cleared, Resumes(cleared)
  PROVE  row' = AfterSuccess(cleared) /\ streak' = Forgotten(cleared)
  BY DEF Resumes, AfterSuccess, Forgotten

LEMMA SweepClears ==
  ASSUME NEW cfg, Sweep(cfg)
  PROVE  \/ row' = AfterSuccess(Orphaned(cfg)) /\ stray' = {}
         \/ row' = row /\ stray' = stray \union Orphaned(cfg)
  BY DEF Sweep, AfterSuccess

LEMMA SweepType ==
  ASSUME HostTypeOK, NEW cfg, Sweep(cfg)
  PROVE  /\ row' \in [Hosts \X Slots -> RowRecord]
         /\ stray' \subseteq Hosts \X Slots
<1>1. Orphaned(cfg) \subseteq Hosts \X Slots
  BY DEF Orphaned
<1> QED
  BY <1>1, SweepClears, AfterSuccessType, TypeParts DEF Tables, Scalars

LEMMA SameLeg ==
  ASSUME HostTypeOK, UNCHANGED <<probe, tick>>
  PROVE  OneLeg'
  BY TypeParts DEF OneLeg

\* What operators and hosts do leaves the probes alone.
Acts ==
  \/ \E h \in Hosts : BulkPause(h) \/ BulkResume(h) \/ Dies(h) \/ Mends(h)
  \/ \E h \in Hosts, s \in Slots : ResumeOne(h, s)
  \/ \E n \in RoundChoices : SetRounds(n)
  \/ \E cfg \in Configs : SaveConfig(cfg) \/ ImportConfig(cfg)
  \/ CacheExpires

LEMMA ActsType == HostTypeOK /\ Acts => HostTypeOK'
<1> SUFFICES ASSUME HostTypeOK, Acts PROVE HostTypeOK'
  OBVIOUS
<1>1. UNCHANGED <<probe, tick, todo>> /\ Track
  BY DEF Acts, BulkPause, BulkResume, Dies, Mends, ResumeOne, SetRounds, SaveConfig,
         ImportConfig, CacheExpires
<1>2. events' \in 0..MaxEvents
  BY EventType, TypeParts
     DEF Acts, BulkPause, BulkResume, Dies, Mends, ResumeOne, SetRounds, SaveConfig,
         ImportConfig, CacheExpires, Scalars
<1>3. /\ row' \in [Hosts \X Slots -> RowRecord]
      /\ streak' \in [Hosts \X Slots -> 0..MaxCount]
  <2>0. row \in [Hosts \X Slots -> RowRecord] /\ streak \in [Hosts \X Slots -> 0..MaxCount]
    BY TypeParts DEF Tables
  <2>1. ASSUME NEW h \in Hosts, BulkPause(h) PROVE <1>3
    BY <2>0, <2>1 DEF BulkPause, RowRecord, Slots
  <2>2. ASSUME NEW h \in Hosts, BulkResume(h) PROVE <1>3
    BY <2>2, ResumesClear, AfterSuccessType DEF BulkResume
  <2>3. ASSUME NEW h \in Hosts, NEW s \in Slots, ResumeOne(h, s) PROVE <1>3
    BY <2>3, ResumesClear, AfterSuccessType DEF ResumeOne
  <2>4. ASSUME NEW cfg, SaveConfig(cfg) PROVE <1>3
    BY <2>0, <2>4, SweepType DEF SaveConfig
  <2> QED
    BY <2>0, <2>1, <2>2, <2>3, <2>4
       DEF Acts, Dies, Mends, SetRounds, ImportConfig, CacheExpires
<1>4. /\ config' \in Configs /\ cached' \in Configs
      /\ rounds' \in RoundChoices
  BY EmptyConfig, TypeParts
     DEF Acts, BulkPause, BulkResume, Dies, Mends, ResumeOne, SetRounds, SaveConfig,
         ImportConfig, CacheExpires, Scalars
<1>5. stray' \subseteq Hosts \X Slots
  BY SweepType, TypeParts
     DEF Acts, BulkPause, BulkResume, Dies, Mends, ResumeOne, SetRounds, SaveConfig,
         ImportConfig, CacheExpires, Scalars, Orphaned
<1>6. alive' \in [Hosts -> BOOLEAN]
  BY TypeParts
     DEF Acts, BulkPause, BulkResume, Dies, Mends, ResumeOne, SetRounds, SaveConfig,
         ImportConfig, CacheExpires, Tables
<1>7. Tables'
  BY <1>1, <1>3, <1>6, TypeParts DEF Tables
<1>8. Scalars'
  BY <1>1, <1>2, <1>4, <1>5, TrackType, TypeParts DEF Scalars
<1> QED
  BY <1>1, <1>7, <1>8, SameLeg, TypePartsNext

LEMMA HostRestartType == HostTypeOK /\ HostRestart => HostTypeOK'
<1> SUFFICES ASSUME HostTypeOK, HostRestart PROVE HostTypeOK'
  OBVIOUS
<1>1. /\ row' \in [Hosts \X Slots -> RowRecord]
      /\ stray' \subseteq Hosts \X Slots
  BY SweepType DEF HostRestart
<1>2. Tables'
  BY <1>1, TableTypes, TypeParts DEF HostRestart, Tables
<1>3. Scalars'
  BY <1>1, EventType, TrackType, EmptyConfig, TypeParts DEF HostRestart, Scalars
<1>4. OneLeg'
  BY DEF HostRestart, OneLeg, Idle, Kinds
<1> QED
  BY <1>2, <1>3, <1>4, TypePartsNext

\* The steps, grouped by who takes them.
LEMMA StepCases ==
  HostNext =>
    \/ \E k \in Legs : TickStarts(k) \/ \E h \in Hosts : TickProbes(h, k)
    \/ \E h \in Hosts, k \in Views : ViewProbes(h, k)
    \/ \E h \in Hosts, k \in Kinds : ProbeFails(h, k)
    \/ \E h \in Hosts, k \in Kinds : ProbeSucceeds(h, k)
    \/ \E h \in Hosts, k \in Kinds : ProbeLapses(h, k)
    \/ TickEnds
    \/ Acts
    \/ HostRestart
  BY DEF HostNext, Reports, Acts

LEMMA HostStepType == HostTypeOK /\ [HostNext]_hostVars => HostTypeOK'
<1> SUFFICES ASSUME HostTypeOK, [HostNext]_hostVars PROVE HostTypeOK'
  OBVIOUS
<1>1. CASE UNCHANGED hostVars
  BY <1>1 DEF HostTypeOK, hostVars, InFlight
<1>2. CASE HostNext
  <2>1. Views \subseteq Kinds
    BY DEF Kinds
  <2> QED
    BY <1>2, <2>1, TickStartsType, TickProbesType, ViewProbesType, ProbeFailsType,
       ProbeSucceedsType, ProbeLapsesType, TickEndsType, ActsType, HostRestartType, StepCases
<1> QED
  BY <1>1, <1>2

\* Whatever hosts, operators and edits do, the tables and counters keep their shape,
\* and a leg of the sampler never has another leg's probes left when it begins.
THEOREM HostTypeCorrect == HostSpec => []HostTypeOK
<1> QED
  BY InitType, HostStepType, PTL DEF HostSpec

-------------------------------------------------------------------------------
(* Pauses are earned.                                                      *)

\* A row counts no failure that the history has not counted, too.
CountsBacked == \A x \in Hosts \X Slots : row[x].count <= streak[x]

Earned == CountsBacked /\ PausedEnough

\* What any step does to the rows and to the history of failures: nothing, a
\* failure is recorded, rows go (with the history, or in a sweep without it), or an operator
\* pauses a row.
LEMMA RowSteps ==
  ASSUME HostTypeOK, HostNext
  PROVE  \/ row' = row /\ streak' = streak
         \/ \E h \in Hosts, k \in Kinds, n \in RoundChoices \union {0} : \E cfg, lost :
              row' = AfterFailure(h, k, n, cfg, lost) /\ streak' = Counted(h, k)
         \/ \E cleared : row' = AfterSuccess(cleared) /\ streak' \in {streak, Forgotten(cleared)}
         \/ \E h \in Hosts :
              row' = [row EXCEPT ![<<h, "host">>].by = "operator"] /\ streak' = streak
<1> DEFINE Goal == \/ row' = row /\ streak' = streak
                   \/ \E h \in Hosts, k \in Kinds, n \in RoundChoices \union {0} : \E cfg, lost :
                        row' = AfterFailure(h, k, n, cfg, lost) /\ streak' = Counted(h, k)
                   \/ \E cleared : row' = AfterSuccess(cleared)
                                     /\ streak' \in {streak, Forgotten(cleared)}
                   \/ \E h \in Hosts :
                        row' = [row EXCEPT ![<<h, "host">>].by = "operator"] /\ streak' = streak
<1> SUFFICES Goal
  OBVIOUS
<1>1. ASSUME NEW h \in Hosts, NEW k \in Kinds, ProbeFails(h, k) PROVE Goal
  <2>1. PICK cfg, lost : row' = AfterFailure(h, k, ProbeRounds(h, k), cfg, lost)
    BY <1>1 DEF ProbeFails
  <2> QED
    BY <1>1, <2>1, RoundsType DEF ProbeFails
<1>2. ASSUME NEW h \in Hosts, NEW k \in Kinds, ProbeSucceeds(h, k) PROVE Goal
  BY <1>2 DEF ProbeSucceeds
<1>3. CASE TickEnds
  BY <1>3 DEF TickEnds
<1>4. ASSUME NEW cfg, Sweep(cfg), streak' = streak PROVE Goal
  BY <1>4, SweepClears
<1>5. ASSUME NEW rows, Resumes(rows) PROVE Goal
  BY <1>5, ResumesClear
<1>6. CASE Acts
  <2>1. ASSUME NEW h \in Hosts, BulkPause(h) PROVE Goal
    BY <2>1 DEF BulkPause
  <2> QED
    BY <1>4, <1>5, <1>6, <2>1
       DEF Acts, BulkResume, Dies, Mends, ResumeOne, SetRounds, SaveConfig, ImportConfig,
           CacheExpires
<1>7. CASE HostRestart
  BY <1>4, <1>7 DEF HostRestart
<1>8. ASSUME NEW h \in Hosts, NEW k \in Kinds, ProbeLapses(h, k) PROVE Goal
  BY <1>8 DEF ProbeLapses
<1>9. ASSUME NEW k \in Legs, TickStarts(k) \/ \E h \in Hosts : TickProbes(h, k) PROVE Goal
  BY <1>9 DEF TickStarts, TickProbes
<1>10. ASSUME NEW h \in Hosts, NEW k \in Views, ViewProbes(h, k) PROVE Goal
  BY <1>10 DEF ViewProbes
<1> HIDE DEF Goal
<1>11. CASE \E k \in Legs : TickStarts(k) \/ \E h \in Hosts : TickProbes(h, k)
  BY <1>9, <1>11
<1>12. CASE \E h \in Hosts, k \in Views : ViewProbes(h, k)
  BY <1>10, <1>12
<1>13. CASE \E h \in Hosts, k \in Kinds :
               ProbeFails(h, k) \/ ProbeSucceeds(h, k) \/ ProbeLapses(h, k)
  BY <1>1, <1>2, <1>8, <1>13
<1> QED
  BY <1>3, <1>6, <1>7, <1>11, <1>12, <1>13, StepCases

LEMMA EarnedFailure ==
  ASSUME HostTypeOK, Earned, NEW h \in Hosts, NEW k \in Kinds,
         NEW n \in RoundChoices \union {0}, NEW cfg, NEW lost,
         row' = AfterFailure(h, k, n, cfg, lost), streak' = Counted(h, k)
  PROVE  Earned'
<1> SUFFICES ASSUME NEW x \in Hosts \X Slots
             PROVE  /\ row'[x].count <= streak'[x]
                    /\ row'[x].by = "sampler" => \E m \in RoundChoices \ {0} : streak'[x] >= m
  BY DEF Earned, CountsBacked, PausedEnough
<1> DEFINE t == Threshold(x[2], n)
<1>1. /\ row[x] \in RowRecord /\ streak[x] \in 0..MaxCount
      /\ row[x].count <= streak[x]
      /\ row[x].by = "sampler" => \E m \in RoundChoices \ {0} : streak[x] >= m
  BY TypeParts DEF Tables, Earned, CountsBacked, PausedEnough
<1>2. t \in RoundChoices \union {0} /\ t \in 0..MaxCount
  BY HostAssumption DEF Threshold
<1>3. streak'[x] \in 0..MaxCount /\ streak'[x] >= streak[x]
  BY <1>1, Numbers DEF Counted
<1>4. CASE x \notin Rows({<<h, k>>}) \ lost
  <2>1. row'[x] = row[x]
    BY <1>4 DEF AfterFailure
  <2> QED
    BY <1>1, <1>3, <2>1, Numbers DEF RowRecord
<1>5. CASE x \in Rows({<<h, k>>}) \ lost /\ Refused(cfg, h, x[2])
  <2>1. row'[x] = None
    BY <1>5 DEF AfterFailure
  <2> QED
    BY <1>3, <2>1 DEF None
<1>6. CASE x \in Rows({<<h, k>>}) \ lost /\ ~Refused(cfg, h, x[2])
  <2>1. row'[x] = Failed(row[x], t)
    BY <1>6 DEF AfterFailure
  <2>2. streak'[x] = IF streak[x] < MaxCount THEN streak[x] + 1 ELSE streak[x]
    BY <1>6 DEF Counted
  <2>3. CASE row[x] = None
    BY <1>1, <2>1, <2>2, <2>3, Numbers DEF Failed
  <2>4. CASE row[x] # None
    <3>1. row'[x].count <= streak'[x]
      BY <1>1, <2>1, <2>2, <2>4, Numbers DEF Failed, RowRecord
    <3>2. row'[x].by = "sampler" =>
            row[x].by = "sampler" \/ (t > 0 /\ row[x].count + 1 >= t)
      BY <2>1, <2>4 DEF Failed
    <3>3. ASSUME t > 0, row[x].count + 1 >= t
          PROVE  t \in RoundChoices \ {0} /\ streak'[x] >= t
      BY <1>1, <1>2, <2>2, <3>3, Numbers DEF RowRecord
    <3>4. row[x].by = "sampler" => \E m \in RoundChoices \ {0} : streak'[x] >= m
      BY <1>1, <1>3, Numbers
    <3> QED
      BY <3>1, <3>2, <3>3, <3>4
  <2> QED
    BY <2>3, <2>4
<1> QED
  BY <1>4, <1>5, <1>6

LEMMA EarnedCleared ==
  ASSUME HostTypeOK, Earned, NEW cleared,
         row' = AfterSuccess(cleared), streak' \in {streak, Forgotten(cleared)}
  PROVE  Earned'
<1> SUFFICES ASSUME NEW x \in Hosts \X Slots
             PROVE  /\ row'[x].count <= streak'[x]
                    /\ row'[x].by = "sampler" => \E m \in RoundChoices \ {0} : streak'[x] >= m
  BY DEF Earned, CountsBacked, PausedEnough
<1>1. /\ row[x] \in RowRecord /\ streak[x] \in 0..MaxCount
      /\ row[x].count <= streak[x]
      /\ row[x].by = "sampler" => \E m \in RoundChoices \ {0} : streak[x] >= m
  BY TypeParts DEF Tables, Earned, CountsBacked, PausedEnough
<1>2. CASE x \in cleared
  <2>1. row'[x] = None /\ streak'[x] \in 0..MaxCount
    BY <1>1, <1>2, Numbers DEF AfterSuccess, Forgotten
  <2> QED
    BY <2>1, Numbers DEF None
<1>3. CASE x \notin cleared
  <2>1. row'[x] = row[x] /\ streak'[x] = streak[x]
    BY <1>3 DEF AfterSuccess, Forgotten
  <2> QED
    BY <1>1, <2>1
<1> QED
  BY <1>2, <1>3

LEMMA EarnedStep == HostTypeOK /\ Earned /\ [HostNext]_hostVars => Earned'
<1> SUFFICES ASSUME HostTypeOK, Earned, [HostNext]_hostVars PROVE Earned'
  OBVIOUS
<1>1. CASE row' = row /\ streak' = streak
  BY <1>1 DEF Earned, CountsBacked, PausedEnough
<1>2. ASSUME NEW h \in Hosts, row' = [row EXCEPT ![<<h, "host">>].by = "operator"],
             streak' = streak
      PROVE  Earned'
  <2>1. ASSUME NEW x \in Hosts \X Slots
        PROVE  row'[x].count = row[x].count /\ row'[x].by \in {row[x].by, "operator"}
    BY <1>2, TypeParts DEF Tables, RowRecord
  <2> QED
    BY <1>2, <2>1 DEF Earned, CountsBacked, PausedEnough
<1>3. CASE UNCHANGED hostVars
  BY <1>1, <1>3 DEF hostVars
<1> QED
  BY <1>1, <1>2, <1>3, RowSteps, EarnedFailure, EarnedCleared

\* However the probes of several recorders interleave with resumes, edits, database
\* errors and restarts, a pause by a sampler has a threshold's failures in a row behind it.
THEOREM HostPausedEnough == HostSpec => []PausedEnough
<1>1. HostInit => Earned
  BY Numbers DEF HostInit, Earned, CountsBacked, PausedEnough, None
<1> QED
  BY <1>1, HostTypeCorrect, EarnedStep, PTL DEF HostSpec, Earned

-------------------------------------------------------------------------------
(* Rows of pairs that are configured no more.                              *)

\* The guard's copy of the host list is the list, or what it could let through is
\* known to be stray.
GuardCurrent == cached \in {<<>>, config} \/ Orphaned(config) \subseteq stray

Guarded == GuardCurrent /\ OrphansAreStray

\* The hosts of a host list.
LEMMA ConfigDomain ==
  ASSUME NEW cfg \in Configs
  PROVE  DOMAIN cfg \subseteq Hosts
  BY DEF Configs

\* A step that only takes rows away keeps the rest out.
LEMMA GuardedShrinks ==
  ASSUME HostTypeOK, Guarded, UNCHANGED <<config, stray>>, cached' \in {<<>>, cached},
         \A h \in Hosts, s \in Providers : row'[<<h, s>>] \in {None, row[<<h, s>>]}
  PROVE  Guarded'
<1>1. DOMAIN config \subseteq Hosts
  BY ConfigDomain, TypeParts DEF Scalars
<1>2. OrphansAreStray'
  BY <1>1 DEF Guarded, OrphansAreStray
<1>3. GuardCurrent'
  BY DEF Guarded, GuardCurrent, Orphaned, Refused
<1> QED
  BY <1>2, <1>3 DEF Guarded

\* A failure that the guard judges by the host list itself, or not at all.
LEMMA GuardedFailure ==
  ASSUME HostTypeOK, Guarded, NEW h \in Hosts, NEW k \in Kinds, ProbeFails(h, k)
  PROVE  Guarded'
<1>1. config' = config /\ stray \subseteq stray' /\ cached' \in {cached, Known}
  BY DEF ProbeFails
<1>2. DOMAIN config \subseteq Hosts
  BY ConfigDomain, TypeParts DEF Scalars
<1>3. GuardCurrent'
  BY <1>1 DEF Guarded, GuardCurrent, Known, Orphaned, Refused
<1> SUFFICES ASSUME NEW g \in DOMAIN config, NEW s \in Providers,
                      row'[<<g, s>>] # None, s \notin config[g]
               PROVE  <<g, s>> \in stray'
  BY <1>1, <1>3 DEF Guarded, OrphansAreStray
<1> DEFINE x == <<g, s>>
<1>5. x \in Hosts \X Slots /\ x[1] = g /\ x[2] = s
  BY <1>2 DEF Slots
<1>6. CASE Orphaned(config) \subseteq stray
  BY <1>1, <1>5, <1>6 DEF Orphaned, Refused
<1>7. CASE row'[x] = row[x]
  BY <1>1, <1>7 DEF Guarded, OrphansAreStray
<1>8. CASE row'[x] # row[x] /\ cached \in {<<>>, config}
  <2>1. PICK cfg, lost :
          /\ row' = AfterFailure(h, k, ProbeRounds(h, k), cfg, lost)
          /\ cfg = Known \/ Rows({<<h, k>>}) \subseteq stray'
    BY DEF ProbeFails
  <2>2. x \in Rows({<<h, k>>})
    BY <1>5, <1>8, <2>1 DEF AfterFailure
  <2>3. x[1] = h
    BY <2>2 DEF Rows
  <2>4. CASE cfg = Known
    <3>1. cfg = config /\ g = h
      BY <1>5, <1>8, <2>3, <2>4 DEF Known
    <3>2. Refused(cfg, h, s)
      BY <3>1 DEF Refused
    <3> QED
      BY <1>5, <1>8, <2>1, <2>2, <2>3, <3>2 DEF AfterFailure
  <2> QED
    BY <2>1, <2>2, <2>4
<1> QED
  BY <1>6, <1>7, <1>8 DEF Guarded, GuardCurrent

\* A sweep of the list that is in force from now on.
LEMMA GuardedSweep ==
  ASSUME HostTypeOK, config' \in Configs, Sweep(config'), cached' = <<>>
  PROVE  Guarded'
<1>1. DOMAIN config' \subseteq Hosts
  BY ConfigDomain
<1>2. ASSUME NEW h \in DOMAIN config', NEW s \in Providers, s \notin config'[h]
      PROVE  <<h, s>> \in Orphaned(config')
  BY <1>1, <1>2 DEF Orphaned, Refused, Slots
<1>3. OrphansAreStray'
  BY <1>2, SweepClears DEF OrphansAreStray, AfterSuccess, Orphaned
<1> QED
  BY <1>3 DEF Guarded, GuardCurrent

LEMMA GuardedImport ==
  ASSUME HostTypeOK, NEW cfg \in Configs, ImportConfig(cfg)
  PROVE  Guarded'
<1>1. DOMAIN cfg \subseteq Hosts
  BY ConfigDomain
<1>2. config' = cfg /\ Orphaned(config') \subseteq stray'
  BY DEF ImportConfig
<1>3. OrphansAreStray'
  BY <1>1, <1>2 DEF OrphansAreStray, Orphaned, Refused, Slots
<1>4. GuardCurrent'
  BY <1>2 DEF GuardCurrent, Orphaned, Refused
<1> QED
  BY <1>3, <1>4 DEF Guarded

LEMMA GuardedStep == HostTypeOK /\ Guarded /\ [HostNext]_hostVars => Guarded'
<1> SUFFICES ASSUME HostTypeOK, Guarded, [HostNext]_hostVars PROVE Guarded'
  OBVIOUS
<1> DEFINE Takes == /\ UNCHANGED <<config, stray>>
                    /\ cached' \in {<<>>, cached}
                    /\ \A h \in Hosts, s \in Providers :
                         row'[<<h, s>>] \in {None, row[<<h, s>>]}
<1>1. Takes => Guarded'
  BY GuardedShrinks
<1>2. ASSUME NEW cleared, row' = AfterSuccess(cleared)
      PROVE  \A h \in Hosts, s \in Providers : row'[<<h, s>>] \in {None, row[<<h, s>>]}
  BY <1>2 DEF AfterSuccess, Slots
<1>3. ASSUME NEW h \in Hosts, NEW k \in Kinds, ProbeSucceeds(h, k) PROVE Takes
  BY <1>2, <1>3 DEF ProbeSucceeds
<1>4. ASSUME TickEnds PROVE Takes
  BY <1>2, <1>4 DEF TickEnds
<1>5. ASSUME NEW h \in Hosts, BulkPause(h) PROVE Takes
  BY <1>5, TypeParts DEF BulkPause, Tables, Providers, Slots
<1>6. ASSUME NEW h \in Hosts, BulkResume(h) PROVE Takes
  BY <1>2, <1>6, ResumesClear DEF BulkResume
<1>7. ASSUME NEW h \in Hosts, NEW s \in Slots, ResumeOne(h, s) PROVE Takes
  BY <1>2, <1>7, ResumesClear DEF ResumeOne
<1>8. ASSUME NEW cfg \in Configs, SaveConfig(cfg) PROVE Guarded'
  BY <1>8, GuardedSweep DEF SaveConfig
<1>9. ASSUME HostRestart PROVE Guarded'
  BY <1>9, GuardedSweep, TypeParts DEF HostRestart, Scalars
<1>10. CASE Acts
  <2>1. ASSUME NEW h \in Hosts, Dies(h) \/ Mends(h) PROVE Takes
    BY <2>1 DEF Dies, Mends
  <2>2. ASSUME NEW n \in RoundChoices, SetRounds(n) PROVE Takes
    BY <2>2 DEF SetRounds
  <2>3. ASSUME CacheExpires PROVE Takes
    BY <2>3 DEF CacheExpires
  <2> HIDE DEF Takes
  <2> QED
    BY <1>1, <1>5, <1>6, <1>7, <1>8, <1>10, <2>1, <2>2, <2>3, GuardedImport DEF Acts
<1>11. ASSUME NEW k \in Legs, TickStarts(k) \/ \E h \in Hosts : TickProbes(h, k) PROVE Takes
  BY <1>11 DEF TickStarts, TickProbes
<1>12. ASSUME NEW h \in Hosts, NEW k \in Views, ViewProbes(h, k) PROVE Takes
  BY <1>12 DEF ViewProbes
<1>13. ASSUME NEW h \in Hosts, NEW k \in Kinds, ProbeLapses(h, k) PROVE Takes
  BY <1>13 DEF ProbeLapses
<1>14. ASSUME UNCHANGED hostVars PROVE Takes
  BY <1>14 DEF hostVars
<1> HIDE DEF Takes
<1> QED
  BY <1>1, <1>3, <1>4, <1>9, <1>10, <1>11, <1>12, <1>13, <1>14, GuardedFailure, StepCases

\* No probe that a save of the host list overtakes brings a removed pair's row back,
\* unless something named by stray kept it.
THEOREM HostOrphansAreStray == HostSpec => []OrphansAreStray
<1>1. HostInit => Guarded
  BY DEF HostInit, Guarded, GuardCurrent, OrphansAreStray, Slots
<1> QED
  BY <1>1, HostTypeCorrect, GuardedStep, PTL DEF HostSpec, Guarded

-------------------------------------------------------------------------------
(* Pauses stand.                                                           *)

\* A probe under way of a pair whose pause all its probers honour was let
\* through before the pause, or did not see it.
PausesNoted ==
  \A h \in Hosts, k \in Kinds, s \in OwnGated :
    s \in Records[k] /\ probe[<<h, k>>].at # "idle" /\ Paused(row[<<h, s>>])
      => <<h, k, s>> \in unseen

LEMMA OwnGate ==
  ASSUME NEW k \in Kinds, NEW s \in OwnGated, s \in Records[k]
  PROVE  Gate[k] = s /\ s \in Slots
  BY DEF OwnGated

\* A step that starts no probe: Track notes the pauses it brings.
LEMMA NotedByTrack ==
  ASSUME HostTypeOK, PausesNoted, Track,
         \A h \in Hosts, k \in Kinds :
           probe'[<<h, k>>].at # "idle" => probe[<<h, k>>].at # "idle"
  PROVE  PausesNoted'
<1> SUFFICES ASSUME NEW h \in Hosts, NEW k \in Kinds, NEW s \in OwnGated,
                    s \in Records[k], probe'[<<h, k>>].at # "idle",
                    Paused(row'[<<h, s>>])
             PROVE  <<h, k, s>> \in unseen'
  BY DEF PausesNoted
<1>1. s \in Slots
  BY OwnGate
<1>2. CASE Paused(row[<<h, s>>])
  <2>1. <<h, k, s>> \in unseen
    BY <1>2 DEF PausesNoted
  <2> QED
    BY <2>1 DEF Track
<1>3. CASE ~Paused(row[<<h, s>>])
  BY <1>1, <1>3 DEF Track
<1> QED
  BY <1>2, <1>3

\* A probe that starts: its gate is not paused, or it is noted.
LEMMA NotedByAdmits ==
  ASSUME HostTypeOK, PausesNoted, NEW h \in Hosts, NEW k \in Kinds,
         NEW n \in RoundChoices \union {0}, Admits(h, k, n), row' = row
  PROVE  PausesNoted'
<1> SUFFICES ASSUME NEW g \in Hosts, NEW j \in Kinds, NEW s \in OwnGated,
                    s \in Records[j], probe'[<<g, j>>].at # "idle",
                    Paused(row[<<g, s>>])
             PROVE  <<g, j, s>> \in unseen'
  BY DEF PausesNoted
<1>1. \A i \in Hosts, l \in Kinds : <<i, l>> # <<h, k>> => probe'[<<i, l>>] = probe[<<i, l>>]
  BY AdmitsType
<1>2. CASE <<g, j>> = <<h, k>>
  <2>1. Gate[k] = s /\ g = h /\ j = k
    BY <1>2, OwnGate
  <2> QED
    BY <2>1 DEF Admits
<1>3. CASE <<g, j>> # <<h, k>>
  <2>1. <<g, j, s>> \in unseen /\ probe'[<<g, j>>].at # "idle"
    BY <1>1, <1>3 DEF PausesNoted
  <2>2. CASE Track
    BY <2>1, <2>2 DEF Track
  <2>3. CASE unseen' = unseen \union {<<h, k, Gate[k]>>}
    BY <2>1, <2>3
  <2> QED
    BY <2>2, <2>3 DEF Admits
<1> QED
  BY <1>2, <1>3

LEMMA NotedStep == HostTypeOK /\ PausesNoted /\ [HostNext]_hostVars => PausesNoted'
<1> SUFFICES ASSUME HostTypeOK, PausesNoted, [HostNext]_hostVars PROVE PausesNoted'
  OBVIOUS
<1> DEFINE NoStart == \A h \in Hosts, k \in Kinds :
                        probe'[<<h, k>>].at # "idle" => probe[<<h, k>>].at # "idle"
<1>1. NoStart /\ Track => PausesNoted'
  BY NotedByTrack
<1>2. ASSUME NEW h \in Hosts, NEW k \in Kinds,
             \/ probe' = [probe EXCEPT ![<<h, k>>] = Idle]
             \/ probe' = [probe EXCEPT ![<<h, k>>].at = "held"] /\ probe[<<h, k>>].at = "out"
      PROVE  NoStart
  <2> SUFFICES ASSUME NEW g \in Hosts, NEW j \in Kinds, probe'[<<g, j>>].at # "idle"
               PROVE  probe[<<g, j>>].at # "idle"
    OBVIOUS
  <2>1. <<g, j>> \in Hosts \X Kinds /\ probe \in [Hosts \X Kinds -> ProbeRecord]
    BY TypeParts DEF Tables
  <2>2. CASE <<g, j>> # <<h, k>>
    <3>1. probe'[<<g, j>>] = probe[<<g, j>>]
      BY <1>2, <2>1, <2>2
    <3> QED
      BY <3>1
  <2>3. CASE <<g, j>> = <<h, k>>
    <3>1. probe' = [probe EXCEPT ![<<h, k>>] = Idle] => probe'[<<g, j>>].at = "idle"
      BY <2>1, <2>3 DEF Idle
    <3> QED
      BY <1>2, <2>3, <3>1
  <2> QED
    BY <2>2, <2>3
<1>3. ASSUME NEW h \in Hosts, NEW k \in Kinds,
             ProbeFails(h, k) \/ ProbeSucceeds(h, k) \/ ProbeLapses(h, k)
      PROVE  NoStart /\ Track
  <2>1. Track
    BY <1>3 DEF ProbeFails, ProbeSucceeds, ProbeLapses
  <2>2. \/ probe' = [probe EXCEPT ![<<h, k>>] = Idle]
        \/ probe' = [probe EXCEPT ![<<h, k>>].at = "held"] /\ probe[<<h, k>>].at = "out"
    BY <1>3 DEF ProbeFails, ProbeSucceeds, ProbeLapses
  <2> HIDE DEF NoStart
  <2> QED
    BY <1>2, <2>1, <2>2
<1>4. ASSUME TickEnds \/ HostRestart PROVE NoStart /\ Track
  BY <1>4 DEF TickEnds, HostRestart, Idle
<1>5. ASSUME Acts PROVE NoStart /\ Track
  BY <1>5 DEF Acts, BulkPause, BulkResume, Dies, Mends, ResumeOne, SetRounds, SaveConfig,
              ImportConfig, CacheExpires
<1>6. ASSUME NEW k \in Legs, TickStarts(k) PROVE NoStart /\ Track
  BY <1>6 DEF TickStarts
<1>7. ASSUME NEW k \in Legs, NEW h \in Hosts, TickProbes(h, k) PROVE PausesNoted'
  <2>1. CASE Admits(h, k, EarlyRounds(k))
    BY <1>7, <2>1, NotedByAdmits, RoundsType DEF TickProbes, Kinds
  <2>2. CASE UNCHANGED <<probe, events>> /\ Track
    BY <1>1, <2>2
  <2> QED
    BY <1>7, <2>1, <2>2 DEF TickProbes
<1>8. ASSUME NEW h \in Hosts, NEW k \in Views, ViewProbes(h, k) PROVE PausesNoted'
  BY <1>8, NotedByAdmits, RoundsType DEF ViewProbes, Kinds
<1>9. CASE UNCHANGED hostVars
  BY <1>9 DEF hostVars, PausesNoted
<1> HIDE DEF NoStart
<1> QED
  BY <1>1, <1>3, <1>4, <1>5, <1>6, <1>7, <1>8, <1>9, StepCases

\* What may lift a pause: see PauseStands.
Lifted(h, s) ==
  \/ probe' = probe
  \/ <<h, s>> \in Orphaned(config) \union Orphaned(cached)
  \/ \E k \in Kinds : <<h, k, s>> \in unseen

\* A pause that goes with the success of a probe goes with one that is noted.
LEMMA LiftedBySuccess ==
  ASSUME HostTypeOK, PausesNoted, NEW done \in SUBSET InFlight, NEW cleared \in SUBSET Rows(done),
         row' = AfterSuccess(cleared), NEW h \in Hosts, NEW s \in OwnGated,
         Paused(row[<<h, s>>]), ~Paused(row'[<<h, s>>])
  PROVE  \E k \in Kinds : <<h, k, s>> \in unseen
<1>1. <<h, s>> \in Hosts \X Slots
  BY DEF OwnGated
<1>2. <<h, s>> \in Rows(done)
  BY <1>1 DEF AfterSuccess
<1>3. PICK y \in done : y[1] = h /\ s \in Records[y[2]]
  BY <1>2 DEF Rows
<1>4. y \in Hosts \X Kinds /\ probe[y].at # "idle" /\ y = <<h, y[2]>>
  BY <1>3 DEF InFlight
<1>5. y[2] \in Kinds /\ probe[<<h, y[2]>>].at # "idle"
  BY <1>4
<1> QED
  BY <1>3, <1>5 DEF PausesNoted

LEMMA LiftedStep ==
  ASSUME HostTypeOK, PausesNoted, HostNext, NEW h \in Hosts, NEW s \in OwnGated,
         Paused(row[<<h, s>>]), ~Paused(row'[<<h, s>>])
  PROVE  Lifted(h, s)
<1>0. <<h, s>> \in Hosts \X Slots /\ row[<<h, s>>] \in RowRecord
  BY TypeParts DEF OwnGated, Tables
<1>1. ASSUME NEW g \in Hosts, NEW k \in Kinds, ProbeFails(g, k) PROVE Lifted(h, s)
  <2>1. PICK n, cfg, lost : /\ row' = AfterFailure(g, k, n, cfg, lost)
                            /\ cfg = Known \/ cfg = <<>>
    BY <1>1 DEF ProbeFails
  <2>2. /\ <<h, s>> \in Rows({<<g, k>>})
        /\ Refused(cfg, g, s) \/ row'[<<h, s>>] = Failed(row[<<h, s>>], Threshold(s, n))
    BY <1>0, <2>1 DEF AfterFailure
  <2>3. g = h
    BY <2>2 DEF Rows
  <2>4. row'[<<h, s>>] # Failed(row[<<h, s>>], Threshold(s, n))
    BY <1>0 DEF Failed, Paused, None
  <2>5. Refused(cfg, h, s)
    BY <2>2, <2>3, <2>4
  <2>6. cfg = Known
    BY <2>1, <2>5 DEF Refused
  <2>7. <<h, s>> \in Orphaned(cfg)
    BY <1>0, <2>5 DEF Orphaned
  <2> QED
    BY <2>6, <2>7 DEF Lifted, Known
<1>2. ASSUME NEW g \in Hosts, NEW k \in Kinds, ProbeSucceeds(g, k) PROVE Lifted(h, s)
  <2>1. row' = AfterSuccess(Rows({<<g, k>>}))
    BY <1>2 DEF ProbeSucceeds
  <2>2. {<<g, k>>} \in SUBSET InFlight
    BY <1>2 DEF ProbeSucceeds, InFlight
  <2> QED
    BY <2>1, <2>2, LiftedBySuccess DEF Lifted
<1>3. CASE TickEnds
  <2>1. PICK lost : row' = AfterSuccess(Rows(Held) \ lost)
    BY <1>3 DEF TickEnds
  <2>2. Held \in SUBSET InFlight
    BY DEF Held
  <2>3. Rows(Held) \ lost \in SUBSET Rows(Held)
    OBVIOUS
  <2> QED
    BY <2>1, <2>2, <2>3, LiftedBySuccess DEF Lifted
<1>4. CASE Acts
  BY <1>4 DEF Acts, BulkPause, BulkResume, Dies, Mends, ResumeOne, SetRounds, SaveConfig,
              ImportConfig, CacheExpires, Lifted
<1>5. CASE HostRestart
  <2>1. row' = AfterSuccess(Orphaned(config))
    BY <1>5, SweepClears DEF HostRestart
  <2>2. <<h, s>> \in Orphaned(config)
    BY <1>0, <2>1 DEF AfterSuccess
  <2> QED
    BY <2>2 DEF Lifted
<1>6. row' # row
  OBVIOUS
<1>7. ASSUME NEW k \in Legs, TickStarts(k) \/ \E g \in Hosts : TickProbes(g, k)
      PROVE  Lifted(h, s)
  BY <1>6, <1>7 DEF TickStarts, TickProbes
<1>8. ASSUME NEW g \in Hosts, NEW k \in Views, ViewProbes(g, k) PROVE Lifted(h, s)
  BY <1>6, <1>8 DEF ViewProbes
<1>9. ASSUME NEW g \in Hosts, NEW k \in Kinds, ProbeLapses(g, k) PROVE Lifted(h, s)
  BY <1>6, <1>9 DEF ProbeLapses
<1> QED
  BY <1>1, <1>2, <1>3, <1>4, <1>5, <1>7, <1>8, <1>9, StepCases

\* A pause that all its probers honour goes only by an operator's hand, with its pair's
\* configuration, or by a probe that was under way before it.
THEOREM HostPauseStands == HostSpec => PauseStands
<1>1. HostInit => PausesNoted
  BY DEF HostInit, PausesNoted, Idle
<1>2. HostTypeOK /\ PausesNoted /\ [HostNext]_hostVars =>
        [\A h \in Hosts, s \in OwnGated :
           (Paused(row[<<h, s>>]) /\ ~Paused(row'[<<h, s>>])) =>
             \/ probe' = probe
             \/ <<h, s>> \in Orphaned(config) \union Orphaned(cached)
             \/ \E k \in Kinds : <<h, k, s>> \in unseen]_hostVars
  BY LiftedStep DEF Lifted
<1> QED
  BY <1>1, <1>2, HostTypeCorrect, NotedStep, PTL DEF HostSpec, PauseStands

===============================================================================
