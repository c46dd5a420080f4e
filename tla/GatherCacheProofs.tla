--------------------------- MODULE GatherCacheProofs ---------------------------
(***************************************************************************)
(* What holds of the items cache for every set of callers, every choice of *)
(* the reads that may fail and every bound: the direct node's items are    *)
(* there once, items that count as fresh show nothing from before what was *)
(* invalidated, and the Swarm items never go back, nor away but in part,   *)
(* as long as no two gathers overlap.                                      *)
(***************************************************************************)
EXTENDS GatherCache, TLAPS

\* The parts of the type invariant, apart because provers differ on flags.
Data ==
  /\ fleet \in 1..MaxFleet
  /\ announced \in 0..fleet
  /\ swarm \in [Reads -> 0..fleet]
  /\ direct \in Seq(1..fleet)
  /\ snapshot \in [swarm : [Reads -> 0..fleet], direct : Seq(1..fleet)]
  /\ pc \in [Callers -> {"idle", "reading", "building", "published", "merging", "ending"}]
  /\ read \in [Callers -> [Reads -> 0..fleet]]
  /\ ver \in [Callers -> 0..fleet]
  /\ keeps \in [Callers -> BOOLEAN]
  /\ restarts \in 0..MaxRestarts
  /\ failures \in 0..MaxFailures

Flags ==
  /\ fresh \in BOOLEAN
  /\ waiting \in BOOLEAN
  /\ overlap \in BOOLEAN
  /\ missed \in BOOLEAN

Waited == waiting => pc["background"] # "idle"

\* Without an overlap there is one gather at most, and what it is about to
\* append goes to a list without any copy.
OneGather ==
  ~overlap => \A c, d \in Callers : pc[c] # "idle" /\ pc[d] # "idle" => c = d

Stripped ==
  ~overlap => \A c \in Callers : pc[c] \in {"published", "merging"} => direct = <<>>

Single == OneGather /\ Stripped /\ DirectItemsOnce

\* No part a gather is about to publish is older than what was announced so far ...
UpToDate ==
  ~missed => \A c \in Callers : pc[c] = "building" => ~Older(read[c], announced)

Shown == UpToDate /\ FreshShowsInvalidated

\* ... nor than what it replaces; a part may be missing ...
NoOlder ==
  ~overlap => \A c \in Callers, r \in Reads :
    /\ pc[c] = "reading" => read[c][r] >= swarm[r]
    /\ pc[c] = "building" => read[c][r] = 0 \/ read[c][r] >= swarm[r]

\* ... but then some other, core read has answered.
CoreAnswers ==
  \A c \in Callers : pc[c] = "building" =>
    \/ \A r \in Reads : read[c][r] # 0
    \/ \E q \in Core : read[c][q] # 0

-------------------------------------------------------------------------------
\* CacheTypeOK falls into the data, the Boolean flags and the request that waits,
\* which different provers are good at.
LEMMA TypeParts == CacheTypeOK <=> Data /\ Flags /\ Waited
BY Zenon DEF CacheTypeOK, Data, Flags, Waited

\* The same of the next state.
LEMMA TypePartsNext == CacheTypeOK' <=> Data' /\ Flags' /\ Waited'
BY Zenon DEF CacheTypeOK, Data, Flags, Waited

\* What the reads of one gather may have answered, all of them or in part.
Answered(c, ans) ==
  /\ \A r \in Reads : ans[r] = 0 \/ ans[r] >= read[c][r]
  /\ (\A r \in Reads : ans[r] # 0) \/ (\E q \in Core : ans[q] # 0)
  /\ Build(c, ans)

\* A gather that goes on to build does so from such answers.
LEMMA AnsweredSomehow ==
  ASSUME Data, NEW c \in Callers, Read(c) \/ ReadInPart(c)
  PROVE  \E ans \in [Reads -> 0..fleet] : Answered(c, ans)
<1>1. CASE Read(c)
  BY <1>1 DEF Read, Answers, Answered
<1>2. CASE ReadInPart(c)
  BY <1>2 DEF ReadInPart, Answers, Answered
<1> QED
  BY <1>1, <1>2

\* The versions a gather begins with, and those it leaves behind, are versions.
LEMMA PartsTyped ==
  ASSUME Data
  PROVE  /\ Nothing \in [Reads -> 0..fleet]
         /\ [r \in Reads |-> fleet] \in [Reads -> 0..fleet]
BY CacheAssumption DEF Data, Nothing

\* No step leaves the types; a flag is always a Boolean; and nobody waits for a
\* gather that is gone.
LEMMA DataStep ==
  Data /\ [GcNext]_gcVars => Data'
<1> SUFFICES ASSUME Data, [GcNext]_gcVars
             PROVE  Data'
  OBVIOUS
<1> USE CacheAssumption DEF Data, cacheVars, boundVars
<1>1. CASE Change
  BY <1>1 DEF Change
<1>2. CASE Invalidate
  BY <1>2 DEF Invalidate
<1>3. CASE Expire
  BY <1>3 DEF Expire
<1>4. ASSUME NEW force \in BOOLEAN, GetItems(force)
       PROVE  Data'
  <2>1. CASE Start("background")
    BY <1>4, <2>1, PartsTyped DEF GetItems, Start
  <2>2. CASE UNCHANGED <<pc, read, overlap>>
    BY <1>4, <2>2 DEF GetItems
  <2> QED
    BY <1>4, <2>1, <2>2 DEF GetItems, Kick
<1>5. ASSUME NEW c \in Callers, GatherDirectly(c)
       PROVE  Data'
  BY <1>5, PartsTyped DEF GatherDirectly, Start
<1>6. ASSUME NEW c \in Callers, Read(c) \/ ReadInPart(c)
       PROVE  Data'
  <2>1. PICK ans \in [Reads -> 0..fleet] : Answered(c, ans)
    BY <1>6, AnsweredSomehow
  <2>2. failures' \in 0..MaxFailures
    BY <1>6 DEF Read, ReadInPart
  <2> QED
    BY <2>1, <2>2 DEF Answered, Build
<1>7. ASSUME NEW c \in Callers, Publish(c)
       PROVE  Data'
  BY <1>7, PartsTyped DEF Publish
<1>8. ASSUME NEW c \in Callers, ReadNode(c)
       PROVE  Data'
  BY <1>8 DEF ReadNode
<1>9. ASSUME NEW c \in Callers, Merge(c)
       PROVE  Data'
  <2>1. direct' \in Seq(1..fleet)
    <3>1. CASE ver[c] = 0
      BY <1>9, <3>1 DEF Merge
    <3>2. CASE ver[c] # 0
      BY <1>9, <3>2 DEF Merge
    <3> QED
      BY <3>1, <3>2
  <2>2. CASE UNCHANGED <<snapshot, failures>>
    BY <1>9, <2>1, <2>2 DEF Merge
  <2>3. CASE SaveSnapshot(direct')
    <3>1. snapshot' \in [swarm : [Reads -> 0..fleet], direct : Seq(1..fleet)]
      BY <2>1, <2>3 DEF SaveSnapshot
    <3>2. failures' \in 0..MaxFailures
      BY <2>3 DEF SaveSnapshot
    <3> QED
      BY <1>9, <2>1, <3>1, <3>2 DEF Merge
  <2> QED
    BY <1>9, <2>2, <2>3 DEF Merge
<1>10. ASSUME NEW c \in Callers, End(c)
       PROVE  Data'
  BY <1>10 DEF End
<1>11. ASSUME NEW c \in Callers, PortainerDown(c)
       PROVE  Data'
  BY <1>11, PartsTyped DEF PortainerDown
<1>12. ASSUME NEW c \in Callers, NodeDown(c)
       PROVE  Data'
  BY <1>12 DEF NodeDown
<1>13. ASSUME NEW c \in Callers, Abort(c)
       PROVE  Data'
  BY <1>13, PartsTyped DEF Abort, Gone
<1>14. CASE TimeOut
  BY <1>14, PartsTyped DEF TimeOut, Gone
<1>15. CASE Reboot
  <2>1. Seed
    BY <1>15, Zenon DEF Reboot
  <2>2. /\ swarm' \in [Reads -> 0..fleet]
        /\ direct' \in Seq(1..fleet)
        /\ failures' \in 0..MaxFailures
    <3>1. CASE swarm' = snapshot.swarm /\ direct' = snapshot.direct /\ UNCHANGED failures
      BY <3>1
    <3>2. CASE /\ failures < MaxFailures
               /\ failures' = failures + 1
               /\ swarm' = Nothing
               /\ direct' = <<>>
      BY <3>2, PartsTyped
    <3> QED
      BY <2>1, <3>1, <3>2, Zenon DEF Seed
  <2> QED
    BY <1>15, <2>2, PartsTyped DEF Reboot
<1>16. CASE UNCHANGED gcVars
  BY <1>16 DEF gcVars
<1> QED
  BY <1>1, <1>2, <1>3, <1>4, <1>5, <1>6, <1>7, <1>8, <1>9,
     <1>10, <1>11, <1>12, <1>13, <1>14, <1>15, <1>16 DEF GcNext, GatherStep

\* Whatever a gather, a request or a restart does, a flag stays a Boolean.
LEMMA FlagsStep ==
  Flags /\ [GcNext]_gcVars => Flags'
<1> SUFFICES ASSUME Flags, [GcNext]_gcVars
             PROVE  Flags'
  OBVIOUS
<1> USE DEF Flags, cacheVars, boundVars
<1>1. CASE Change
  BY <1>1, Zenon DEF Change
<1>2. CASE Invalidate
  BY <1>2, Zenon DEF Invalidate
<1>3. CASE Expire
  BY <1>3, Zenon DEF Expire
<1>4. ASSUME NEW force \in BOOLEAN, GetItems(force)
       PROVE  Flags'
  BY <1>4, Zenon DEF GetItems, Kick, Start
<1>5. ASSUME NEW c \in Callers, GatherDirectly(c)
       PROVE  Flags'
  BY <1>5, Zenon DEF GatherDirectly, Start
<1>6. ASSUME NEW c \in Callers, Read(c) \/ ReadInPart(c)
       PROVE  Flags'
  BY <1>6, Zenon DEF Read, ReadInPart, Build
<1>7. ASSUME NEW c \in Callers, Publish(c)
       PROVE  Flags'
  BY <1>7, Zenon DEF Publish
<1>8. ASSUME NEW c \in Callers, ReadNode(c)
       PROVE  Flags'
  BY <1>8, Zenon DEF ReadNode
<1>9. ASSUME NEW c \in Callers, Merge(c)
       PROVE  Flags'
  BY <1>9, Zenon DEF Merge, SaveSnapshot
<1>10. ASSUME NEW c \in Callers, End(c)
       PROVE  Flags'
  BY <1>10, Zenon DEF End
<1>11. ASSUME NEW c \in Callers, PortainerDown(c)
       PROVE  Flags'
  BY <1>11, Zenon DEF PortainerDown
<1>12. ASSUME NEW c \in Callers, NodeDown(c)
       PROVE  Flags'
  BY <1>12, Zenon DEF NodeDown
<1>13. ASSUME NEW c \in Callers, Abort(c)
       PROVE  Flags'
  BY <1>13, Zenon DEF Abort, Gone
<1>14. CASE TimeOut
  BY <1>14, Zenon DEF TimeOut, Gone
<1>15. CASE Reboot
  <2>1. fresh' = FALSE
    BY <1>15, Zenon DEF Reboot, Seed
  <2>2. overlap' \in BOOLEAN
    <3>1. overlap' = (Len(snapshot.direct) > 1)
      BY <1>15, Zenon DEF Reboot
    <3> QED
      BY <3>1, SMT
  <2> QED
    BY <1>15, <2>1, <2>2, Zenon DEF Reboot
<1>16. CASE UNCHANGED gcVars
  BY <1>16, Zenon DEF gcVars
<1> QED
  BY <1>1, <1>2, <1>3, <1>4, <1>5, <1>6, <1>7, <1>8, <1>9,
     <1>10, <1>11, <1>12, <1>13, <1>14, <1>15, <1>16 DEF GcNext, GatherStep

\* A request waits only while the background gather is there: whatever ends that
\* gather lets the request go on.
LEMMA WaitedStep ==
  Data /\ Waited /\ [GcNext]_gcVars => Waited'
<1> SUFFICES ASSUME Data /\ Waited, [GcNext]_gcVars
             PROVE  Waited'
  OBVIOUS
<1> USE CacheAssumption DEF Data, Waited, cacheVars, boundVars
<1>1. CASE Change
  BY <1>1 DEF Change
<1>2. CASE Invalidate
  BY <1>2 DEF Invalidate
<1>3. CASE Expire
  BY <1>3 DEF Expire
<1>4. ASSUME NEW force \in BOOLEAN, GetItems(force)
       PROVE  Waited'
  BY <1>4 DEF GetItems, Kick, Start
<1>5. ASSUME NEW c \in Callers, GatherDirectly(c)
       PROVE  Waited'
  BY <1>5 DEF GatherDirectly, Start
<1>6. ASSUME NEW c \in Callers, Read(c) \/ ReadInPart(c)
       PROVE  Waited'
  <2>1. PICK ans \in [Reads -> 0..fleet] : Answered(c, ans)
    BY <1>6, AnsweredSomehow
  <2> QED
    BY <2>1 DEF Answered, Build
<1>7. ASSUME NEW c \in Callers, Publish(c)
       PROVE  Waited'
  BY <1>7 DEF Publish
<1>8. ASSUME NEW c \in Callers, ReadNode(c)
       PROVE  Waited'
  BY <1>8 DEF ReadNode
<1>9. ASSUME NEW c \in Callers, Merge(c)
       PROVE  Waited'
  BY <1>9 DEF Merge, SaveSnapshot
<1>10. ASSUME NEW c \in Callers, End(c)
       PROVE  Waited'
  BY <1>10 DEF End
<1>11. ASSUME NEW c \in Callers, PortainerDown(c)
       PROVE  Waited'
  BY <1>11 DEF PortainerDown
<1>12. ASSUME NEW c \in Callers, NodeDown(c)
       PROVE  Waited'
  BY <1>12 DEF NodeDown
<1>13. ASSUME NEW c \in Callers, Abort(c)
       PROVE  Waited'
  BY <1>13 DEF Abort, Gone
<1>14. CASE TimeOut
  BY <1>14 DEF TimeOut, Gone
<1>15. CASE Reboot
  BY <1>15 DEF Reboot, Seed
<1>16. CASE UNCHANGED gcVars
  BY <1>16 DEF gcVars
<1> QED
  BY <1>1, <1>2, <1>3, <1>4, <1>5, <1>6, <1>7, <1>8, <1>9,
     <1>10, <1>11, <1>12, <1>13, <1>14, <1>15, <1>16 DEF GcNext, GatherStep

\* The three parts together.
LEMMA CacheTypeStep ==
  CacheTypeOK /\ [GcNext]_gcVars => CacheTypeOK'
BY TypeParts, TypePartsNext, DataStep, FlagsStep, WaitedStep

\* Copies of the direct node's items come from overlapping gathers only.
LEMMA SingleStep ==
  CacheTypeOK /\ Single /\ [GcNext]_gcVars => Single'
<1> SUFFICES ASSUME CacheTypeOK /\ Single, [GcNext]_gcVars
             PROVE  Single'
  OBVIOUS
<1> USE CacheAssumption DEF CacheTypeOK, Single, OneGather, Stripped, DirectItemsOnce,
        cacheVars, boundVars
<1>1. CASE Change
  BY <1>1 DEF Change
<1>2. CASE Invalidate
  BY <1>2 DEF Invalidate, Behind
<1>3. CASE Expire
  BY <1>3 DEF Expire
<1>4. ASSUME NEW force \in BOOLEAN, GetItems(force)
       PROVE  Single'
  <2>1. CASE Start("background") /\ UNCHANGED direct
    BY <2>1 DEF Start, Alone
  <2>2. CASE UNCHANGED <<pc, overlap, direct>>
    BY <2>2
  <2> QED
    BY <1>4, <2>1, <2>2 DEF GetItems, Kick
<1>5. ASSUME NEW c \in Callers, GatherDirectly(c)
       PROVE  Single'
  BY <1>5 DEF GatherDirectly, Start, Alone
<1>6. ASSUME NEW c \in Callers, Read(c) \/ ReadInPart(c)
       PROVE  Single'
  <2>1. PICK ans \in [Reads -> 0..fleet] : Answered(c, ans)
    BY <1>6, TypeParts, AnsweredSomehow
  <2> QED
    BY <2>1 DEF Answered, Build
<1>7. ASSUME NEW c \in Callers, Publish(c)
       PROVE  Single'
  BY <1>7 DEF Publish, Alone, Behind
<1>8. ASSUME NEW c \in Callers, ReadNode(c)
       PROVE  Single'
  BY <1>8 DEF ReadNode
<1>9. ASSUME NEW c \in Callers, Merge(c)
       PROVE  Single'
  <2>1. ~overlap => Len(direct') <= 1
    BY <1>9 DEF Merge
  <2>2. ~overlap => \A d \in Callers : d # c => pc[d] = "idle"
    BY <1>9 DEF Merge
  <2> QED
    BY <1>9, <2>1, <2>2 DEF Merge
<1>10. ASSUME NEW c \in Callers, End(c)
       PROVE  Single'
  BY <1>10 DEF End
<1>11. ASSUME NEW c \in Callers, PortainerDown(c)
       PROVE  Single'
  BY <1>11 DEF PortainerDown, Alone
<1>12. ASSUME NEW c \in Callers, NodeDown(c)
       PROVE  Single'
  BY <1>12 DEF NodeDown
<1>13. ASSUME NEW c \in Callers, Abort(c)
       PROVE  Single'
  BY <1>13 DEF Abort, Gone
<1>14. CASE TimeOut
  BY <1>14 DEF TimeOut, Gone
<1>15. CASE Reboot
  <2>1. Len(direct') > 1 => overlap'
    <3>1. direct' = snapshot.direct \/ direct' = <<>>
      BY <1>15, Zenon DEF Reboot, Seed
    <3>2. overlap' = (Len(snapshot.direct) > 1)
      BY <1>15, Zenon DEF Reboot
    <3>3. CASE direct' = snapshot.direct
      BY <3>2, <3>3, Zenon
    <3>4. CASE direct' = <<>>
      BY <3>4
    <3> QED
      BY <3>1, <3>3, <3>4
  <2>2. Len(direct') \in Nat
    BY <1>15 DEF Reboot, Seed
  <2> QED
    BY <1>15, <2>1, <2>2 DEF Reboot
<1>16. CASE UNCHANGED gcVars
  BY <1>16 DEF gcVars
<1> QED
  BY <1>1, <1>2, <1>3, <1>4, <1>5, <1>6, <1>7, <1>8, <1>9,
     <1>10, <1>11, <1>12, <1>13, <1>14, <1>15, <1>16 DEF GcNext, GatherStep

\* Answers with no part older than v show v, but for what is missing.
LEMMA NotOlder ==
  ASSUME NEW ans \in [Reads -> Nat], NEW v \in Nat, ~Older(ans, v)
  PROVE  \A r \in Reads : ans[r] = 0 \/ ans[r] >= v
<1> SUFFICES ASSUME NEW r \in Reads
             PROVE  ans[r] = 0 \/ ans[r] >= v
  OBVIOUS
<1>1. ans[r] \in Nat
  OBVIOUS
<1>2. ~(0 < ans[r] /\ ans[r] < v)
  BY Zenon DEF Older
<1> QED
  BY <1>1, <1>2

\* An invalidation gets lost only to a gather that had read before it.
LEMMA ShownStep ==
  CacheTypeOK /\ Shown /\ [GcNext]_gcVars => Shown'
<1> SUFFICES ASSUME CacheTypeOK /\ Shown, [GcNext]_gcVars
             PROVE  Shown'
  OBVIOUS
<1> USE CacheAssumption DEF CacheTypeOK, Shown, UpToDate, FreshShowsInvalidated,
        cacheVars, boundVars
<1>1. CASE Change
  BY <1>1 DEF Change
<1>2. CASE Invalidate
  <2>1. ~missed' => Behind(fleet) = {}
    BY <1>2, Zenon DEF Invalidate
  <2>2. ~missed' => UpToDate'
    BY <1>2, <2>1 DEF Invalidate, Behind
  <2> QED
    BY <1>2, <2>2 DEF Invalidate
<1>3. CASE Expire
  BY <1>3 DEF Expire
<1>4. ASSUME NEW force \in BOOLEAN, GetItems(force)
       PROVE  Shown'
  BY <1>4 DEF GetItems, HasItems, Kick, Start, Alone
<1>5. ASSUME NEW c \in Callers, GatherDirectly(c)
       PROVE  Shown'
  BY <1>5 DEF GatherDirectly, Start, Alone
<1>6. ASSUME NEW c \in Callers, Read(c) \/ ReadInPart(c)
       PROVE  Shown'
  <2>1. PICK ans \in [Reads -> 0..fleet] : Answered(c, ans)
    BY <1>6, TypeParts, AnsweredSomehow
  <2> QED
    BY <2>1 DEF Answered, Build, Older
<1>7. ASSUME NEW c \in Callers, Publish(c)
       PROVE  Shown'
  <2>1. ~missed' => \A d \in Callers : pc[d] = "building" => ~Older(read[d], announced)
    BY <1>7 DEF Publish, Behind
  <2>2. /\ swarm' = read[c]
        /\ pc[c] = "building"
        /\ announced' = announced
        /\ \A d \in Callers : pc'[d] = "building" => pc[d] = "building" /\ read'[d] = read[d]
    BY <1>7 DEF Publish
  <2>3. ~missed' => UpToDate'
    BY <2>1, <2>2, Zenon DEF Older
  <2>4. ~missed' => ~Older(swarm', announced')
    BY <2>1, <2>2
  <2>5. swarm' \in [Reads -> Nat] /\ announced' \in Nat
    BY <2>2
  <2> QED
    BY <2>3, <2>4, <2>5, NotOlder
<1>8. ASSUME NEW c \in Callers, ReadNode(c)
       PROVE  Shown'
  BY <1>8 DEF ReadNode
<1>9. ASSUME NEW c \in Callers, Merge(c)
       PROVE  Shown'
  BY <1>9 DEF Merge, SaveSnapshot
<1>10. ASSUME NEW c \in Callers, End(c)
       PROVE  Shown'
  BY <1>10 DEF End
<1>11. ASSUME NEW c \in Callers, PortainerDown(c)
       PROVE  Shown'
  BY <1>11 DEF PortainerDown, Alone
<1>12. ASSUME NEW c \in Callers, NodeDown(c)
       PROVE  Shown'
  BY <1>12 DEF NodeDown
<1>13. ASSUME NEW c \in Callers, Abort(c)
       PROVE  Shown'
  BY <1>13 DEF Abort, Gone
<1>14. CASE TimeOut
  BY <1>14 DEF TimeOut, Gone
<1>15. CASE Reboot
  BY <1>15 DEF Reboot, Seed, NoSnapshot
<1>16. CASE UNCHANGED gcVars
  BY <1>16 DEF gcVars
<1> QED
  BY <1>1, <1>2, <1>3, <1>4, <1>5, <1>6, <1>7, <1>8, <1>9,
     <1>10, <1>11, <1>12, <1>13, <1>14, <1>15, <1>16 DEF GcNext, GatherStep

\* A gather that runs alone reads what it publishes after what it replaces.
LEMMA NoOlderStep ==
  CacheTypeOK /\ Single /\ NoOlder /\ [GcNext]_gcVars => NoOlder'
<1> SUFFICES ASSUME CacheTypeOK /\ Single /\ NoOlder, [GcNext]_gcVars
             PROVE  NoOlder'
  OBVIOUS
<1> USE CacheAssumption DEF CacheTypeOK, Single, OneGather, NoOlder, cacheVars, boundVars
<1>1. CASE Change
  BY <1>1 DEF Change
<1>2. CASE Invalidate
  BY <1>2 DEF Invalidate, Behind
<1>3. CASE Expire
  BY <1>3 DEF Expire
<1>4. ASSUME NEW force \in BOOLEAN, GetItems(force)
       PROVE  NoOlder'
  <2>1. CASE Start("background")
    BY <1>4, <2>1 DEF GetItems, Start, Alone
  <2>2. CASE UNCHANGED <<pc, read, overlap>>
    BY <1>4, <2>2 DEF GetItems
  <2> QED
    BY <1>4, <2>1, <2>2 DEF GetItems, Kick
<1>5. ASSUME NEW c \in Callers, GatherDirectly(c)
       PROVE  NoOlder'
  BY <1>5 DEF GatherDirectly, Start, Alone
<1>6. ASSUME NEW c \in Callers, Read(c) \/ ReadInPart(c)
       PROVE  NoOlder'
  <2>1. PICK ans \in [Reads -> 0..fleet] : Answered(c, ans)
    BY <1>6, TypeParts, AnsweredSomehow
  <2> QED
    BY <2>1 DEF Answered, Build
<1>7. ASSUME NEW c \in Callers, Publish(c)
       PROVE  NoOlder'
  BY <1>7 DEF Publish, Alone, Behind
<1>8. ASSUME NEW c \in Callers, ReadNode(c)
       PROVE  NoOlder'
  BY <1>8 DEF ReadNode
<1>9. ASSUME NEW c \in Callers, Merge(c)
       PROVE  NoOlder'
  BY <1>9 DEF Merge, SaveSnapshot
<1>10. ASSUME NEW c \in Callers, End(c)
       PROVE  NoOlder'
  BY <1>10 DEF End
<1>11. ASSUME NEW c \in Callers, PortainerDown(c)
       PROVE  NoOlder'
  BY <1>11 DEF PortainerDown, Alone
<1>12. ASSUME NEW c \in Callers, NodeDown(c)
       PROVE  NoOlder'
  BY <1>12 DEF NodeDown
<1>13. ASSUME NEW c \in Callers, Abort(c)
       PROVE  NoOlder'
  BY <1>13 DEF Abort, Gone
<1>14. CASE TimeOut
  BY <1>14 DEF TimeOut, Gone
<1>15. CASE Reboot
  BY <1>15 DEF Reboot, Seed, NoSnapshot
<1>16. CASE UNCHANGED gcVars
  BY <1>16 DEF gcVars
<1> QED
  BY <1>1, <1>2, <1>3, <1>4, <1>5, <1>6, <1>7, <1>8, <1>9,
     <1>10, <1>11, <1>12, <1>13, <1>14, <1>15, <1>16 DEF GcNext, GatherStep

\* A gather builds from what a core read answered, or from all answers.
LEMMA CoreAnswersStep ==
  CacheTypeOK /\ CoreAnswers /\ [GcNext]_gcVars => CoreAnswers'
<1> SUFFICES ASSUME CacheTypeOK /\ CoreAnswers, [GcNext]_gcVars
             PROVE  CoreAnswers'
  OBVIOUS
<1> USE DEF CacheTypeOK, CoreAnswers, cacheVars, boundVars
<1>1. ASSUME NEW c \in Callers, Start(c)
      PROVE  CoreAnswers'
  BY <1>1 DEF Start
<1>2. ASSUME NEW c \in Callers, Read(c) \/ ReadInPart(c)
      PROVE  CoreAnswers'
  <2>1. PICK ans \in [Reads -> 0..fleet] : Answered(c, ans)
    BY <1>2, TypeParts, AnsweredSomehow
  <2> QED
    BY <2>1 DEF Answered, Build, Core
<1>3. ASSUME NEW c \in Callers, pc'[c] # "building",
             \A d \in Callers : d # c => pc'[d] = pc[d] /\ read'[d] = read[d]
      PROVE  CoreAnswers'
  <2> SUFFICES ASSUME NEW d \in Callers, pc'[d] = "building"
               PROVE  (\A r \in Reads : read'[d][r] # 0) \/ (\E q \in Core : read'[d][q] # 0)
    OBVIOUS
  <2>1. pc[d] = "building" /\ read'[d] = read[d]
    BY <1>3
  <2> QED
    BY <2>1
<1>4. CASE UNCHANGED <<pc, read>>
  BY <1>4
<1>5. ASSUME NEW c \in Callers,
             \/ Publish(c) \/ ReadNode(c) \/ Merge(c) \/ End(c)
             \/ PortainerDown(c) \/ NodeDown(c) \/ Abort(c)
      PROVE  CoreAnswers'
  BY <1>3, <1>5 DEF Publish, ReadNode, Merge, End, PortainerDown, NodeDown, Abort, Gone
<1>6. CASE TimeOut
  BY <1>3, <1>6, CacheAssumption DEF TimeOut, Gone
<1>7. CASE Reboot
  BY <1>7 DEF Reboot
<1> QED
  BY <1>1, <1>2, <1>4, <1>5, <1>6, <1>7, CacheAssumption
     DEF GcNext, GatherStep, Change, Invalidate, Expire, GetItems, Kick, GatherDirectly, gcVars

-------------------------------------------------------------------------------
CacheInv == CacheTypeOK /\ Single /\ Shown /\ NoOlder /\ CoreAnswers

\* The parts hold initially and every step preserves them.
THEOREM CacheInvariance == GcSpec => []CacheInv
<1>1. GcInit => CacheInv
  <2> SUFFICES ASSUME GcInit PROVE CacheInv
    OBVIOUS
  <2>1. CacheTypeOK
    <3>1. Data
      BY CacheAssumption DEF GcInit, Data, NoSnapshot, Nothing
    <3>2. Flags /\ Waited
      BY Zenon DEF GcInit, Flags, Waited
    <3> QED
      BY <3>1, <3>2, TypeParts
  <2>2. Single /\ Shown /\ NoOlder /\ CoreAnswers
    BY DEF GcInit, Single, OneGather, Stripped, DirectItemsOnce, Shown, UpToDate,
           FreshShowsInvalidated, NoOlder, CoreAnswers
  <2> QED
    BY <2>1, <2>2 DEF CacheInv
<1>2. CacheInv /\ [GcNext]_gcVars => CacheInv'
  BY CacheTypeStep, SingleStep, ShownStep, NoOlderStep, CoreAnswersStep DEF CacheInv
<1> QED
  BY <1>1, <1>2, PTL DEF GcSpec

\* Types, for every number of callers, changes, failures and restarts.
THEOREM CacheTypeCorrect == GcSpec => []CacheTypeOK
<1>1. CacheInv => CacheTypeOK
  BY DEF CacheInv
<1> QED
  BY <1>1, CacheInvariance, PTL

\* The direct node's items are listed once unless gathers overlapped.
THEOREM CacheListsOnce == GcSpec => []DirectItemsOnce
<1>1. CacheInv => DirectItemsOnce
  BY DEF CacheInv, Single
<1> QED
  BY <1>1, CacheInvariance, PTL

\* Items that count as fresh show nothing from before the last change announced, but
\* for an invalidation in the middle of a gather; a part may be missing.
THEOREM CacheShowsInvalidated == GcSpec => []FreshShowsInvalidated
<1>1. CacheInv => FreshShowsInvalidated
  BY DEF CacheInv, Shown
<1> QED
  BY <1>1, CacheInvariance, PTL

\* While gathers do not overlap no part of the Swarm items goes back, and none goes
\* away unless the gather that loses it has read another, core part.
THEOREM CacheMonotone == GcSpec => CacheNeverGoesBack
<1> DEFINE Forward ==
      \/ \A r \in Reads : \/ swarm'[r] >= swarm[r]
                          \/ swarm'[r] = 0 /\ (\E q \in Core : swarm'[q] # 0)
      \/ overlap
      \/ restarts' # restarts
<1>1. CacheInv /\ [GcNext]_gcVars => [Forward]_gcVars
  <2> SUFFICES ASSUME CacheInv, [GcNext]_gcVars
               PROVE  Forward \/ UNCHANGED gcVars
    OBVIOUS
  <2> USE CacheAssumption DEF CacheInv, CacheTypeOK
  <2>1. ASSUME NEW c \in Callers, Publish(c)
        PROVE  Forward
    <3>1. swarm' = read[c] /\ pc[c] = "building"
      BY <2>1 DEF Publish
    <3>2. \A r \in Reads : swarm[r] \in Nat /\ swarm'[r] \in Nat
      BY <3>1
    <3>3. CASE \A r \in Reads : read[c][r] # 0
      BY <3>1, <3>2, <3>3 DEF NoOlder
    <3>4. CASE \E q \in Core : read[c][q] # 0
      BY <3>1, <3>2, <3>4 DEF NoOlder
    <3> QED
      BY <3>1, <3>3, <3>4 DEF CoreAnswers
  <2>2. CASE Reboot
    BY <2>2 DEF Reboot
  <2>3. ASSUME UNCHANGED swarm
        PROVE  Forward
    BY <2>3
  <2>4. CASE UNCHANGED gcVars
    BY <2>4
  <2> QED
    BY <2>1, <2>2, <2>3, <2>4
       DEF GcNext, GatherStep, Change, Invalidate, Expire, GetItems, GatherDirectly, Read,
           ReadInPart, Build, ReadNode, Merge, End, PortainerDown, NodeDown, Abort, TimeOut,
           cacheVars
<1> QED
  BY <1>1, CacheInvariance, PTL DEF GcSpec, CacheNeverGoesBack
===============================================================================
