-------------------------- MODULE PluginLoaderProofs --------------------------
(***************************************************************************)
(* What the plugin loader promises for any directories, editions and       *)
(* number of overlapping loads: its types; that what it lists as loaded is *)
(* what the registry holds; and that the edition on disk is the one that   *)
(* runs, or a load of it has failed.                                       *)
(***************************************************************************)
EXTENDS PluginLoader, SkillRegistryProofs, SequenceTheorems

(* What an edition offers can be registered. *)
LEMMA EditionsOffered ==
  ASSUME NEW d \in Dirs, NEW k \in DOMAIN Editions[d]
  PROVE  /\ Editions[d][k] \in Manifest
         /\ Editions[d][k].name \in Names
         /\ SkillOf(Editions[d][k]) \in Offered
         /\ SkillOf(Editions[d][k]).name = Editions[d][k].name
<1>1. Editions[d] \in Seq(Manifest)
  BY LoaderConfig
<1>2. Editions[d][k] \in Manifest
  BY <1>1, ElementOfSeq
<1> QED BY <1>2, LoaderConfig DEF Manifest, SkillOf

(* Map.set. *)
LEMMA WithDomain ==
  ASSUME NEW g, NEW n, NEW d
  PROVE  /\ DOMAIN With(g, n, d) = DOMAIN g \cup {n}
         /\ With(g, n, d)[n] = d
         /\ \A m \in DOMAIN g : m # n => With(g, n, d)[m] = g[m]
BY DEF With

(* What is left of loaded when a plugin is taken out. *)
LEMMA UnloadedMap ==
  ASSUME NEW n, loaded' = Without(loaded, n)
  PROVE  DOMAIN loaded' = DOMAIN loaded \ {n} /\ \A m \in DOMAIN loaded' : loaded'[m] = loaded[m]
<1> DEFINE w == Without(loaded, n)
<1>1. DOMAIN w = DOMAIN loaded \ {n} /\ \A m \in DOMAIN w : w[m] = loaded[m]
  BY WithoutDomain
<1>2. loaded' = w
  OBVIOUS
<1> HIDE DEF w
<1> QED BY <1>1, <1>2

-----------------------------------------------------------------------------
(* What becomes of loaded and the registry in a step. *)

Untouched == UNCHANGED <<skills, versions, loaded, removed>>
Unloaded == \E n \in Names : Unload(n) /\ UNCHANGED removed
Created == \E d \in Offered : Register(d) /\ UNCHANGED <<loaded, removed>>
Removed == \E n \in Names : Unregister(n) /\ UNCHANGED loaded /\ removed' = removed \cup {n}
Arrived ==
  \E d \in Dirs : \E k \in DOMAIN Editions[d], h \in Nat :
    LET m == Editions[d][k]
    IN /\ Register(SkillOf(m))
       /\ loaded' = With(loaded, m.name, [dir |-> d, edition |-> k, handler |-> h])
       /\ k <= disk[d]
       /\ UNCHANGED <<disk, removed>>

(* A load that begins unloads the plugin of its name, if it comes that far. *)
LEMMA BeginLoadTouches ==
  ASSUME NEW s, NEW d \in Dirs, NEW j, disk[d] \in DOMAIN Editions[d],
         BeginLoad(s, d, j), UNCHANGED removed
  PROVE  Untouched \/ Unloaded
<1>1. OnDisk(d).name \in Names
  BY EditionsOffered DEF OnDisk
<1>2. CASE OnDisk(d).fault = "manifest"
  BY <1>2 DEF BeginLoad, Untouched, registry
<1>3. CASE OnDisk(d).fault # "manifest"
  BY <1>1, <1>3 DEF BeginLoad, Unloaded
<1> QED BY <1>2, <1>3

(* Where a timer or a reload request leads, an edition is on disk. *)
LEMMA LoadedOnDisk ==
  ASSUME LoaderTypeOK, NEW n \in DOMAIN loaded
  PROVE  loaded[n].dir \in Dirs /\ disk[loaded[n].dir] \in DOMAIN Editions[loaded[n].dir]
<1> DEFINE d == loaded[n].dir
           e == loaded[n].edition
<1>1. d \in Dirs /\ e \in DOMAIN Editions[d] /\ e <= disk[d]
  BY DEF LoaderTypeOK, LoadedOK, Source
<1>2. disk[d] \in Nat /\ disk[d] <= Len(Editions[d]) /\ Editions[d] \in Seq(Manifest)
  BY <1>1, LoaderConfig DEF LoaderTypeOK, DiskOK
<1> HIDE DEF d, e
<1>3. disk[d] \in DOMAIN Editions[d]
  BY <1>1, <1>2, LenProperties
<1> QED BY <1>1, <1>3 DEF d

LEMMA OnDiskIsEdition ==
  ASSUME LoaderTypeOK, NEW d \in Dirs, disk[d] # 0
  PROVE  disk[d] \in DOMAIN Editions[d]
<1>1. disk[d] \in Nat /\ disk[d] <= Len(Editions[d]) /\ Editions[d] \in Seq(Manifest)
  BY LoaderConfig DEF LoaderTypeOK, DiskOK
<1> QED BY <1>1, LenProperties

LEMMA TimerTargetOnDisk ==
  ASSUME LoaderTypeOK, NEW d \in timers
  PROVE  TimerTarget(d) \in Dirs /\ disk[TimerTarget(d)] \in DOMAIN Editions[TimerTarget(d)]
<1>1. d \in Dirs /\ disk[d] \in DOMAIN Editions[d]
  BY OnDiskIsEdition DEF LoaderTypeOK
<1> QED BY <1>1, LoadedOnDisk DEF TimerTarget

(* Every step is one of these. *)
LEMMA KindsOfStep ==
  ASSUME LoaderTypeOK, [LoaderNext]_loaderVars
  PROVE  Untouched \/ Unloaded \/ Created \/ Removed \/ Arrived
<1>1. ASSUME NEW s \in Slots, ScanVisits(s) PROVE Untouched \/ Unloaded
  <2> DEFINE d == Head(work[s].rest)
  <2>1. d \in Dirs
    <3>1. work[s].rest \in Seq(Dirs) /\ work[s].rest # <<>>
      BY <1>1 DEF LoaderTypeOK, WorkOK, Work, ScanVisits
    <3> QED BY <3>1, HeadTailProperties
  <2>2. CASE disk[d] = 0
    BY <1>1, <2>2 DEF ScanVisits, Untouched, registry
  <2>3. CASE disk[d] # 0
    <3>1. disk[d] \in DOMAIN Editions[d]
      BY <2>1, <2>3, OnDiskIsEdition
    <3>2. BeginLoad(s, d, [work[s] EXCEPT !.rest = Tail(@)]) /\ UNCHANGED removed
      BY <1>1, <2>3 DEF ScanVisits
    <3> QED BY <2>1, <3>1, <3>2, BeginLoadTouches
  <2> QED BY <2>2, <2>3
<1>2. ASSUME NEW s \in Slots, ScanEnds(s) PROVE Untouched
  BY <1>2 DEF ScanEnds, Untouched, registry, history
<1>3. ASSUME NEW s \in Slots, NEW h, LoadSucceeds(s, h) PROVE Arrived
  <2> DEFINE d == work[s].dir
             k == work[s].edition
  <2>1. d # NoDir /\ d \in Dirs /\ k \in DOMAIN Editions[d] /\ k \in Nat /\ k <= disk[d]
    BY <1>3 DEF LoaderTypeOK, WorkOK, Work, LoadSucceeds, Imported, Importing
  <2>2. disk[d] \in Nat
    BY <2>1 DEF LoaderTypeOK, DiskOK
  <2>3. h \in k..disk[d]
    BY <1>3 DEF LoadSucceeds, Imported
  <2>4. h \in Nat
    BY <2>1, <2>2, <2>3
  <2>5. /\ Register(SkillOf(Editions[d][k]))
        /\ loaded' = With(loaded, Editions[d][k].name, [dir |-> d, edition |-> k, handler |-> h])
        /\ UNCHANGED <<disk, removed>>
    BY <1>3 DEF LoadSucceeds, history
  <2> HIDE DEF d, k
  <2> QED BY <2>1, <2>4, <2>5 DEF Arrived
<1>4. ASSUME NEW s \in Slots, NEW h, LoadFails(s, h) PROVE Untouched
  BY <1>4 DEF LoadFails, Untouched, registry
<1>5. ASSUME NEW d \in Dirs, Changes(d) PROVE Untouched
  BY <1>5 DEF Changes, Untouched, registry
<1>6. ASSUME NEW s \in Slots, NEW d \in Dirs, TimerFires(s, d) PROVE Untouched \/ Unloaded
  <2>1. d \in timers /\ BeginLoad(s, TimerTarget(d), Load) /\ UNCHANGED removed
    BY <1>6 DEF TimerFires
  <2> QED BY <2>1, TimerTargetOnDisk, BeginLoadTouches
<1>7. ASSUME NEW s \in Slots, NEW n \in Names, ReloadPlugin(s, n) PROVE Untouched \/ Unloaded
  <2>1. n \in DOMAIN loaded /\ BeginLoad(s, loaded[n].dir, Load) /\ UNCHANGED removed
    BY <1>7 DEF ReloadPlugin
  <2> QED BY <2>1, LoadedOnDisk, BeginLoadTouches
<1>8. ASSUME NEW s \in Slots, LoadAll(s) PROVE Untouched
  BY <1>8 DEF LoadAll, Untouched, registry, history
<1>9. ASSUME NEW n \in Names, SkillUnregister(n) PROVE Removed
  BY <1>9 DEF SkillUnregister, Removed
<1>10. ASSUME NEW d \in OtherSkills, SkillCreate(d) PROVE Created
  BY <1>10, LoaderConfig DEF SkillCreate, Created, history
<1>11. CASE UNCHANGED loaderVars
  BY <1>11 DEF loaderVars, Untouched, registry, history
<1> QED BY <1>1, <1>2, <1>3, <1>4, <1>5, <1>6, <1>7, <1>8, <1>9, <1>10, <1>11
        DEF LoaderNext, SlotStep

-----------------------------------------------------------------------------
(* A load that begins, or ends, leaves every job well-formed. *)

LEMMA EndedJob ==
  ASSUME NEW j \in Work
  PROVE  Ended(j) \in Work /\ Ended(j).dir = NoDir
<1>1. Idle \in Work /\ Idle.dir = NoDir
  <2>1. <<>> \in Seq(Dirs)
    BY EmptySeq
  <2> QED BY <2>1 DEF Idle, Work
<1> DEFINE e == [j EXCEPT !.dir = NoDir, !.edition = 0]
<1>2. e \in Work /\ e.dir = NoDir
  BY DEF Work
<1> HIDE DEF e
<1>3. Ended(j) = e \/ Ended(j) = Idle
  BY DEF Ended, e
<1> QED BY <1>1, <1>2, <1>3

(* A job can be put in a slot if it imports nothing, or an edition that is there. *)
LEMMA JobInSlot ==
  ASSUME WorkOK, NEW s \in Slots, NEW j \in Work,
         j.dir # NoDir => j.edition \in DOMAIN Editions[j.dir] /\ j.edition <= disk[j.dir],
         work' = [work EXCEPT ![s] = j], disk' = disk
  PROVE  WorkOK'
<1>1. work' \in [Slots -> Work]
  BY DEF WorkOK
<1>2. \A x \in Slots : work'[x] = IF x = s THEN j ELSE work[x]
  BY DEF WorkOK
<1> QED BY <1>1, <1>2 DEF WorkOK

LEMMA BeginLoadWork ==
  ASSUME LoaderTypeOK, NEW s \in Slots, NEW d \in Dirs, NEW j \in Work, j.dir = NoDir,
         disk[d] \in DOMAIN Editions[d], BeginLoad(s, d, j), disk' = disk
  PROVE  WorkOK' /\ failed' \in [Dirs -> BOOLEAN]
<1> DEFINE i == [j EXCEPT !.dir = d, !.edition = disk[d]]
<1>1. disk[d] \in Nat
  BY DEF LoaderTypeOK, DiskOK
<1>2. i \in Work /\ i.dir = d /\ i.edition = disk[d]
  BY <1>1 DEF Work
<1>3. failed' \in [Dirs -> BOOLEAN]
  BY DEF BeginLoad, Fails, LoaderTypeOK
<1>4. work' = [work EXCEPT ![s] = Ended(j)] \/ work' = [work EXCEPT ![s] = i]
  BY DEF BeginLoad
<1> HIDE DEF i
<1>5. CASE work' = [work EXCEPT ![s] = Ended(j)]
  BY <1>3, <1>5, EndedJob, JobInSlot DEF LoaderTypeOK
<1>6. CASE work' = [work EXCEPT ![s] = i]
  <2>1. WorkOK /\ i.edition \in DOMAIN Editions[i.dir] /\ i.edition <= disk[i.dir]
    BY <1>1, <1>2 DEF LoaderTypeOK
  <2>2. WorkOK'
    BY <1>2, <1>6, <2>1, JobInSlot
  <2> QED BY <1>3, <2>2
<1> QED BY <1>4, <1>5, <1>6

(* A load that ends leaves its slot idle, or the scan where it was. *)
LEMMA EndLoadWork ==
  ASSUME LoaderTypeOK, NEW s \in Slots, disk' = disk,
         work' = [work EXCEPT ![s] = Ended(@)]
  PROVE  WorkOK'
<1>1. work[s] \in Work
  BY DEF LoaderTypeOK, WorkOK
<1>2. work' = [work EXCEPT ![s] = Ended(work[s])]
  OBVIOUS
<1> QED BY <1>1, <1>2, EndedJob, JobInSlot DEF LoaderTypeOK

-----------------------------------------------------------------------------
(* The registry keeps its types: the loader offers it nothing it does not know. *)
LEMMA RegistryKeepsTypes ==
  ASSUME LoaderTypeOK, Untouched \/ Unloaded \/ Created \/ Removed \/ Arrived
  PROVE  TypeOK'
<1>1. ASSUME NEW n, Unregister(n) PROVE TypeOK'
  <2>1. /\ DOMAIN skills' = DOMAIN skills \ {n}
        /\ \A m \in DOMAIN skills' : skills'[m] = skills[m]
        /\ DOMAIN versions' = DOMAIN versions \ {n}
        /\ \A m \in DOMAIN versions' : versions'[m] = versions[m]
    BY <1>1, UnregisterMaps
  <2> QED BY <2>1 DEF TypeOK, LoaderTypeOK
<1>2. ASSUME NEW d \in Offered, Register(d) PROVE TypeOK'
  BY <1>2, StoringKeepsTypes DEF Register, LoaderTypeOK
<1>3. CASE UNCHANGED <<skills, versions>>
  BY <1>3 DEF TypeOK, LoaderTypeOK
<1>4. CASE Unloaded
  BY <1>1, <1>3, <1>4 DEF Unloaded, Unload, registry
<1>5. CASE Arrived
  BY <1>2, <1>5, EditionsOffered DEF Arrived
<1> QED BY <1>1, <1>2, <1>3, <1>4, <1>5 DEF Untouched, Created, Removed

(* Every edition listed as loaded has been on disk. *)
LEMMA LoadedKeepsTypes ==
  ASSUME LoaderTypeOK, Untouched \/ Unloaded \/ Created \/ Removed \/ Arrived,
         \A d \in Dirs : disk'[d] \in Nat /\ disk[d] <= disk'[d]
  PROVE  LoadedOK'
<1>0. /\ DOMAIN loaded \subseteq Names
      /\ \A n \in DOMAIN loaded :
           /\ loaded[n] \in Source
           /\ loaded[n].dir \in Dirs /\ loaded[n].edition \in Nat
           /\ loaded[n].edition \in DOMAIN Editions[loaded[n].dir]
           /\ loaded[n].edition <= disk[loaded[n].dir]
           /\ disk[loaded[n].dir] \in Nat
  BY DEF LoaderTypeOK, LoadedOK, DiskOK, Source
<1>1. ASSUME DOMAIN loaded' \subseteq DOMAIN loaded,
             \A n \in DOMAIN loaded' : loaded'[n] = loaded[n]
      PROVE  LoadedOK'
  BY <1>0, <1>1 DEF LoadedOK
<1>2. CASE loaded' = loaded
  BY <1>1, <1>2
<1>3. CASE Unloaded
  <2>1. PICK n \in Names : Unload(n)
    BY <1>3 DEF Unloaded
  <2>2. CASE n \in DOMAIN loaded
    <3>1. loaded' = Without(loaded, n)
      BY <2>1, <2>2 DEF Unload
    <3>2. DOMAIN loaded' = DOMAIN loaded \ {n} /\ \A m \in DOMAIN loaded' : loaded'[m] = loaded[m]
      BY <3>1, UnloadedMap
    <3> QED BY <1>1, <3>2
  <2>3. CASE n \notin DOMAIN loaded
    BY <1>2, <2>1, <2>3 DEF Unload
  <2> QED BY <2>2, <2>3
<1>4. CASE Arrived
  <2>1. PICK d \in Dirs : \E k \in DOMAIN Editions[d], h \in Nat :
          /\ loaded' = With(loaded, Editions[d][k].name, [dir |-> d, edition |-> k, handler |-> h])
          /\ k <= disk[d] /\ disk' = disk
    BY <1>4 DEF Arrived
  <2>2. PICK k \in DOMAIN Editions[d], h \in Nat :
          /\ loaded' = With(loaded, Editions[d][k].name, [dir |-> d, edition |-> k, handler |-> h])
          /\ k <= disk[d] /\ disk' = disk
    BY <2>1
  <2> DEFINE n == Editions[d][k].name
             e == [dir |-> d, edition |-> k, handler |-> h]
  <2>3. n \in Names /\ k \in Nat
    <3>1. Editions[d] \in Seq(Manifest)
      BY LoaderConfig
    <3> QED BY <3>1, EditionsOffered, LenProperties
  <2>4. e \in Source /\ e.dir = d /\ e.edition = k
    BY <2>3 DEF Source
  <2> HIDE DEF n, e
  <2>5. loaded' = With(loaded, n, e)
    BY <2>2 DEF n, e
  <2>6. DOMAIN loaded' = DOMAIN loaded \cup {n} /\ loaded'[n] = e
        /\ \A m \in DOMAIN loaded : m # n => loaded'[m] = loaded[m]
    <3>1. /\ DOMAIN With(loaded, n, e) = DOMAIN loaded \cup {n} /\ With(loaded, n, e)[n] = e
          /\ \A m \in DOMAIN loaded : m # n => With(loaded, n, e)[m] = loaded[m]
      BY DEF With
    <3> QED BY <2>5, <3>1
  <2>7. ASSUME NEW m \in DOMAIN loaded'
        PROVE  /\ loaded'[m] \in Source
               /\ loaded'[m].edition \in DOMAIN Editions[loaded'[m].dir]
               /\ loaded'[m].edition <= disk'[loaded'[m].dir]
    <3>1. CASE m = n
      BY <2>2, <2>4, <2>6, <3>1
    <3>2. CASE m # n
      BY <1>0, <2>2, <2>6, <3>2
    <3> QED BY <3>1, <3>2
  <2> QED BY <1>0, <2>3, <2>6, <2>7 DEF LoadedOK
<1> QED BY <1>2, <1>3, <1>4 DEF Untouched, Created, Removed

-----------------------------------------------------------------------------
(* The other variables, action by action. *)
LEMMA StepKeepsTheRest ==
  ASSUME LoaderTypeOK, [LoaderNext]_loaderVars
  PROVE  /\ DiskOK' /\ WorkOK' /\ timers' \subseteq {d \in Dirs : disk'[d] # 0}
         /\ watching' \in BOOLEAN /\ requests' \in 0..MaxRequests
         /\ seen' \in [Dirs -> BOOLEAN] /\ failed' \in [Dirs -> BOOLEAN] /\ removed' \subseteq Names
         /\ \A d \in Dirs : disk'[d] \in Nat /\ disk[d] <= disk'[d]
<1> DEFINE Goal == /\ DiskOK' /\ WorkOK' /\ timers' \subseteq {d \in Dirs : disk'[d] # 0}
                   /\ watching' \in BOOLEAN /\ requests' \in 0..MaxRequests
                   /\ seen' \in [Dirs -> BOOLEAN] /\ failed' \in [Dirs -> BOOLEAN]
                   /\ removed' \subseteq Names
                   /\ \A d \in Dirs : disk'[d] \in Nat /\ disk[d] <= disk'[d]
<1> SUFFICES Goal
  OBVIOUS
<1>1. ASSUME disk' = disk, timers' \subseteq timers, seen' = seen, WorkOK',
             watching' \in BOOLEAN, requests' \in 0..MaxRequests,
             failed' \in [Dirs -> BOOLEAN], removed' \subseteq Names
      PROVE  Goal
  BY <1>1 DEF LoaderTypeOK, DiskOK
<1>2. /\ watching \in BOOLEAN /\ requests \in 0..MaxRequests /\ removed \subseteq Names
      /\ failed \in [Dirs -> BOOLEAN] /\ WorkOK
  BY DEF LoaderTypeOK
<1>3. Requested => requests' \in 0..MaxRequests
  BY <1>2, LoaderConfig DEF Requested
<1>4. UNCHANGED <<disk, work>> => WorkOK'
  BY <1>2 DEF WorkOK
<1>5. \A d \in Dirs : Fails(d) => failed' \in [Dirs -> BOOLEAN]
  BY <1>2 DEF Fails
<1>6. Load \in Work /\ Load.dir = NoDir
  <2>1. <<>> \in Seq(Dirs)
    BY EmptySeq
  <2> QED BY <2>1 DEF Load, Idle, Work
<1>7. ASSUME NEW s \in Slots, ScanVisits(s) PROVE Goal
  <2> DEFINE d == Head(work[s].rest)
             j == [work[s] EXCEPT !.rest = Tail(@)]
  <2>1. d \in Dirs /\ j \in Work /\ j.dir = NoDir
    <3>1. work[s] \in Work /\ work[s].rest \in Seq(Dirs) /\ work[s].rest # <<>> /\ work[s].dir = NoDir
      BY <1>2, <1>7 DEF WorkOK, Work, ScanVisits, Scanning
    <3>2. Head(work[s].rest) \in Dirs /\ Tail(work[s].rest) \in Seq(Dirs)
      BY <3>1, HeadTailProperties
    <3> QED BY <3>1, <3>2 DEF Work
  <2>2. /\ UNCHANGED <<disk, watching, timers, requests, seen, removed>>
        /\ IF disk[d] = 0 THEN work' = [work EXCEPT ![s] = j] /\ UNCHANGED failed
                          ELSE BeginLoad(s, d, j)
    BY <1>7 DEF ScanVisits
  <2> HIDE DEF d, j
  <2>3. CASE disk[d] = 0
    <3>1. WorkOK'
      BY <1>2, <2>1, <2>2, <2>3, JobInSlot
    <3> QED BY <1>1, <1>2, <2>2, <2>3, <3>1
  <2>4. CASE disk[d] # 0
    <3>1. disk[d] \in DOMAIN Editions[d]
      BY <2>1, <2>4, OnDiskIsEdition
    <3>2. WorkOK' /\ failed' \in [Dirs -> BOOLEAN]
      BY <2>1, <2>2, <2>4, <3>1, BeginLoadWork
    <3> QED BY <1>1, <1>2, <2>2, <3>2
  <2> QED BY <2>3, <2>4
<1>8. ASSUME NEW s \in Slots, ScanEnds(s) PROVE Goal
  <2>1. <<>> \in Seq(Dirs)
    BY EmptySeq
  <2>2. Idle \in Work /\ Idle.dir = NoDir
    BY <2>1 DEF Idle, Work
  <2>3. WorkOK'
    BY <1>2, <1>8, <2>2, JobInSlot DEF ScanEnds
  <2> QED BY <1>1, <1>2, <1>8, <2>3 DEF ScanEnds, history
<1>9. ASSUME NEW s \in Slots, NEW h, LoadSucceeds(s, h) \/ LoadFails(s, h) PROVE Goal
  <2>1. WorkOK'
    BY <1>9, EndLoadWork DEF LoadSucceeds, LoadFails
  <2>2. work[s].dir \in Dirs
    BY <1>2, <1>9 DEF WorkOK, Work, LoadSucceeds, LoadFails, Imported, Importing
  <2>3. failed' \in [Dirs -> BOOLEAN]
    BY <1>2, <1>5, <1>9, <2>2 DEF LoadSucceeds, LoadFails, history
  <2> QED BY <1>1, <1>2, <1>9, <2>1, <2>3 DEF LoadSucceeds, LoadFails, history
<1>10. ASSUME NEW d \in Dirs, Changes(d) PROVE Goal
  <2>1. /\ disk \in [Dirs -> Nat] /\ Editions[d] \in Seq(Manifest) /\ disk[d] < Len(Editions[d])
        /\ \A e \in Dirs : disk[e] <= Len(Editions[e])
    BY <1>10, LoaderConfig DEF LoaderTypeOK, DiskOK, Changes
  <2>2. Len(Editions[d]) \in Nat
    BY <2>1, LenProperties
  <2>3. \A e \in Dirs : disk'[e] = IF e = d THEN disk[d] + 1 ELSE disk[e]
    BY <1>10, <2>1 DEF Changes
  <2>4. disk' \in [Dirs -> Nat] /\ disk'[d] <= Len(Editions[d])
    BY <1>10, <2>1, <2>2 DEF Changes
  <2>5. DiskOK' /\ \A e \in Dirs : disk'[e] \in Nat /\ disk[e] <= disk'[e]
    <3>1. \A e \in Dirs : disk[e] \in Nat /\ disk[e] <= disk'[e] /\ disk'[e] \in Nat
      BY <2>1, <2>3, <2>4
    <3>2. \A e \in Dirs : disk'[e] <= Len(Editions[e])
      <4> TAKE e \in Dirs
      <4>1. CASE e = d
        BY <2>4, <4>1
      <4>2. CASE e # d
        BY <2>1, <2>3, <4>2
      <4> QED BY <4>1, <4>2
    <3> QED BY <2>4, <3>1, <3>2 DEF DiskOK
  <2>6. WorkOK'
    <3>1. work' = work
      BY <1>10 DEF Changes
    <3>2. ASSUME NEW s \in Slots, work[s].dir # NoDir
          PROVE  work[s].edition \in DOMAIN Editions[work[s].dir] /\ work[s].edition <= disk'[work[s].dir]
      <4>1. work[s].dir \in Dirs /\ work[s].edition \in Nat /\ work[s].edition <= disk[work[s].dir]
            /\ work[s].edition \in DOMAIN Editions[work[s].dir]
        BY <1>2, <3>2 DEF WorkOK, Work
      <4> QED BY <2>1, <2>5, <4>1
    <3> QED BY <1>2, <3>1, <3>2 DEF WorkOK
  <2>7. timers' \subseteq {e \in Dirs : disk'[e] # 0}
    BY <1>10, <2>1, <2>3 DEF Changes, LoaderTypeOK
  <2>8. seen' \in [Dirs -> BOOLEAN] /\ failed' \in [Dirs -> BOOLEAN]
    BY <1>2, <1>10 DEF Changes, LoaderTypeOK
  <2> QED BY <1>2, <1>10, <2>5, <2>6, <2>7, <2>8 DEF Changes
<1>11. ASSUME NEW s \in Slots, NEW d \in Dirs, TimerFires(s, d) PROVE Goal
  <2>1. TimerTarget(d) \in Dirs /\ disk[TimerTarget(d)] \in DOMAIN Editions[TimerTarget(d)]
    BY <1>11, TimerTargetOnDisk DEF TimerFires
  <2>2. BeginLoad(s, TimerTarget(d), Load) /\ disk' = disk
    BY <1>11 DEF TimerFires
  <2>3. WorkOK' /\ failed' \in [Dirs -> BOOLEAN]
    BY <1>6, <2>1, <2>2, BeginLoadWork
  <2> QED BY <1>1, <1>2, <1>11, <2>3 DEF TimerFires
<1>12. ASSUME NEW s \in Slots, NEW n \in Names, ReloadPlugin(s, n) PROVE Goal
  <2>1. loaded[n].dir \in Dirs /\ disk[loaded[n].dir] \in DOMAIN Editions[loaded[n].dir]
    BY <1>12, LoadedOnDisk DEF ReloadPlugin
  <2>2. BeginLoad(s, loaded[n].dir, Load) /\ disk' = disk
    BY <1>12 DEF ReloadPlugin
  <2>3. WorkOK' /\ failed' \in [Dirs -> BOOLEAN]
    BY <1>6, <2>1, <2>2, BeginLoadWork
  <2> QED BY <1>1, <1>2, <1>3, <1>12, <2>3 DEF ReloadPlugin
<1>13. ASSUME NEW s \in Slots, LoadAll(s) PROVE Goal
  <2> DEFINE j == [Idle EXCEPT !.job = "scan", !.rest = DirOrder]
  <2>1. j \in Work /\ j.dir = NoDir
    <3>1. DirOrder \in Seq(Dirs)
      BY LoaderConfig
    <3> QED BY <3>1 DEF Idle, Work
  <2>2. work' = [work EXCEPT ![s] = j] /\ disk' = disk
    BY <1>13 DEF LoadAll
  <2> HIDE DEF j
  <2>3. WorkOK'
    BY <1>2, <2>1, <2>2, JobInSlot
  <2> QED BY <1>1, <1>2, <1>3, <1>13, <2>3 DEF LoadAll, history
<1>14. ASSUME NEW n \in Names, SkillUnregister(n) PROVE Goal
  <2>1. WorkOK' /\ requests' \in 0..MaxRequests /\ removed' \subseteq Names
    BY <1>2, <1>3, <1>4, <1>14 DEF SkillUnregister
  <2> QED BY <1>1, <1>2, <1>14, <2>1 DEF SkillUnregister
<1>15. ASSUME NEW d \in OtherSkills, SkillCreate(d) PROVE Goal
  BY <1>1, <1>2, <1>3, <1>4, <1>15 DEF SkillCreate, history
<1>16. CASE UNCHANGED loaderVars
  BY <1>1, <1>2, <1>4, <1>16 DEF loaderVars, history
<1> HIDE DEF Goal
<1> QED BY <1>7, <1>8, <1>9, <1>10, <1>11, <1>12, <1>13, <1>14, <1>15, <1>16
        DEF LoaderNext, SlotStep

-----------------------------------------------------------------------------
(* Type correctness: every job and every entry of loaded names an edition that
   has been on disk, and the registry holds only what it may. *)
THEOREM LoaderTypes == LoaderSpec => []LoaderTypeOK
<1>1. LoaderInit => LoaderTypeOK
  <2> SUFFICES ASSUME LoaderInit PROVE LoaderTypeOK
    OBVIOUS
  <2>1. TypeOK
    BY DEF LoaderInit, Init, TypeOK
  <2>2. DiskOK
    BY LoaderConfig DEF LoaderInit, DiskOK
  <2>3. LoadedOK
    BY DEF LoaderInit, LoadedOK
  <2>4. WorkOK
    <3> DEFINE j == [Idle EXCEPT !.job = "scan", !.rest = DirOrder]
    <3>1. j \in Work /\ j.dir = NoDir
      BY LoaderConfig DEF Idle, Work
    <3>2. <<>> \in Seq(Dirs)
      BY EmptySeq
    <3>3. Idle \in Work /\ Idle.dir = NoDir
      BY <3>2 DEF Idle, Work
    <3>4. /\ work \in [Slots -> Work]
          /\ \A x \in Slots : work[x] = j \/ work[x] = Idle
      <4> DEFINE s == CHOOSE x \in Slots : TRUE
      <4>1. work = [x \in Slots |-> IF x = s THEN j ELSE Idle]
        BY DEF LoaderInit
      <4> HIDE DEF s, j
      <4> QED BY <3>1, <3>3, <4>1
    <3> HIDE DEF j
    <3> QED BY <3>1, <3>3, <3>4 DEF WorkOK
  <2>5. /\ timers = {} /\ watching = FALSE /\ requests = 0 /\ removed = {}
        /\ seen \in [Dirs -> BOOLEAN] /\ failed \in [Dirs -> BOOLEAN]
    BY DEF LoaderInit
  <2>6. MaxRequests \in Nat
    BY LoaderConfig
  <2>7. requests \in 0..MaxRequests /\ timers \subseteq {d \in Dirs : disk[d] # 0}
    BY <2>5, <2>6
  <2> QED BY <2>1, <2>2, <2>3, <2>4, <2>5, <2>7 DEF LoaderTypeOK
<1>2. LoaderTypeOK /\ [LoaderNext]_loaderVars => LoaderTypeOK'
  <2> SUFFICES ASSUME LoaderTypeOK, [LoaderNext]_loaderVars PROVE LoaderTypeOK'
    OBVIOUS
  <2>1. /\ DiskOK' /\ WorkOK' /\ timers' \subseteq {d \in Dirs : disk'[d] # 0}
        /\ watching' \in BOOLEAN /\ requests' \in 0..MaxRequests
        /\ seen' \in [Dirs -> BOOLEAN] /\ failed' \in [Dirs -> BOOLEAN] /\ removed' \subseteq Names
        /\ \A d \in Dirs : disk'[d] \in Nat /\ disk[d] <= disk'[d]
    BY StepKeepsTheRest
  <2>2. Untouched \/ Unloaded \/ Created \/ Removed \/ Arrived
    BY KindsOfStep
  <2>3. TypeOK'
    BY <2>2, RegistryKeepsTypes
  <2>4. LoadedOK'
    BY <2>1, <2>2, LoadedKeepsTypes
  <2> QED BY <2>1, <2>3, <2>4 DEF LoaderTypeOK
<1> QED BY <1>1, <1>2, PTL DEF LoaderSpec

(* What the loader lists as loaded is the skill the registry holds, except for
   one that was unregistered behind the loader's back. *)
THEOREM LoadedRegistered == LoaderSpec => []LoadedIsRegistered
<1>1. LoaderInit => LoadedIsRegistered
  BY DEF LoaderInit, LoadedIsRegistered
<1>2. LoaderTypeOK /\ LoadedIsRegistered /\ [LoaderNext]_loaderVars => LoadedIsRegistered'
  <2> SUFFICES ASSUME LoaderTypeOK, LoadedIsRegistered, [LoaderNext]_loaderVars
               PROVE  LoadedIsRegistered'
    OBVIOUS
  <2> DEFINE Of(l) == SkillOf(Editions[l.dir][l.edition])
  <2>1. \A n \in DOMAIN loaded \ removed : n \in DOMAIN skills /\ skills[n] = Of(loaded[n])
    BY DEF LoadedIsRegistered
  <2>2. SUFFICES \A n \in DOMAIN loaded' \ removed' :
                   n \in DOMAIN skills' /\ skills'[n] = Of(loaded'[n])
    BY DEF LoadedIsRegistered
  <2> HIDE DEF Of
  <2>3. CASE Untouched
    BY <2>1, <2>3 DEF Untouched
  <2>4. CASE Unloaded
    <3>1. PICK n \in Names : Unload(n) /\ removed' = removed
      BY <2>4 DEF Unloaded
    <3>2. CASE n \in DOMAIN loaded
      <4>1. loaded' = Without(loaded, n) /\ (Unregister(n) \/ skills' = skills)
        BY <3>1, <3>2 DEF Unload, registry
      <4>2. DOMAIN loaded' = DOMAIN loaded \ {n} /\ \A m \in DOMAIN loaded' : loaded'[m] = loaded[m]
        BY <4>1, UnloadedMap
      <4>3. ASSUME Unregister(n)
            PROVE  DOMAIN skills' = DOMAIN skills \ {n} /\ \A m \in DOMAIN skills' : skills'[m] = skills[m]
        BY <4>3, UnregisterMaps
      <4>4. \A m \in DOMAIN skills : m # n => m \in DOMAIN skills' /\ skills'[m] = skills[m]
        BY <4>1, <4>3
      <4> QED BY <2>1, <3>1, <4>2, <4>4
    <3>3. CASE n \notin DOMAIN loaded
      BY <2>1, <3>1, <3>3 DEF Unload, registry
    <3> QED BY <3>2, <3>3
  <2>5. ASSUME NEW d \in Offered, Register(d)
        PROVE  /\ d.name \notin DOMAIN skills
               /\ DOMAIN skills' = DOMAIN skills \cup {d.name} /\ skills'[d.name] = d
               /\ \A m \in DOMAIN skills : skills'[m] = skills[m]
    <3>1. d.name \notin DOMAIN skills /\ skills' = With(skills, d.name, d)
      BY <2>5 DEF Register
    <3>2. /\ DOMAIN With(skills, d.name, d) = DOMAIN skills \cup {d.name}
          /\ With(skills, d.name, d)[d.name] = d
          /\ \A m \in DOMAIN skills : m # d.name => With(skills, d.name, d)[m] = skills[m]
      BY DEF With
    <3> QED BY <3>1, <3>2
  <2>6. CASE Created
    <3>1. PICK d \in Offered : Register(d) /\ loaded' = loaded /\ removed' = removed
      BY <2>6 DEF Created
    <3> QED BY <2>1, <2>5, <3>1
  <2>7. CASE Removed
    <3>1. PICK n \in Names : Unregister(n) /\ loaded' = loaded /\ removed' = removed \cup {n}
      BY <2>7 DEF Removed
    <3>2. DOMAIN skills' = DOMAIN skills \ {n} /\ \A m \in DOMAIN skills' : skills'[m] = skills[m]
      BY <3>1, UnregisterMaps
    <3> QED BY <2>1, <3>1, <3>2
  <2>8. CASE Arrived
    <3>0. PICK d \in Dirs : \E k \in DOMAIN Editions[d], h \in Nat :
            /\ Register(SkillOf(Editions[d][k]))
            /\ loaded' = With(loaded, Editions[d][k].name, [dir |-> d, edition |-> k, handler |-> h])
            /\ removed' = removed
      BY <2>8 DEF Arrived
    <3>1. PICK k \in DOMAIN Editions[d], h \in Nat :
            /\ Register(SkillOf(Editions[d][k]))
            /\ loaded' = With(loaded, Editions[d][k].name, [dir |-> d, edition |-> k, handler |-> h])
            /\ removed' = removed
      BY <3>0
    <3> DEFINE n == Editions[d][k].name
               e == [dir |-> d, edition |-> k, handler |-> h]
    <3>2. SkillOf(Editions[d][k]) \in Offered /\ SkillOf(Editions[d][k]).name = n
      BY EditionsOffered
    <3>3. Of(e) = SkillOf(Editions[d][k])
      BY DEF Of
    <3> HIDE DEF n, e
    <3>4. /\ DOMAIN loaded' = DOMAIN loaded \cup {n} /\ loaded'[n] = e
          /\ \A m \in DOMAIN loaded : m # n => loaded'[m] = loaded[m]
      <4>1. loaded' = With(loaded, n, e)
        BY <3>1 DEF n, e
      <4>2. /\ DOMAIN With(loaded, n, e) = DOMAIN loaded \cup {n} /\ With(loaded, n, e)[n] = e
            /\ \A m \in DOMAIN loaded : m # n => With(loaded, n, e)[m] = loaded[m]
        BY DEF With
      <4> QED BY <4>1, <4>2
    <3>5. /\ n \notin DOMAIN skills
          /\ DOMAIN skills' = DOMAIN skills \cup {n} /\ skills'[n] = Of(e)
          /\ \A m \in DOMAIN skills : skills'[m] = skills[m]
      BY <2>5, <3>1, <3>2, <3>3
    <3> QED BY <2>1, <3>1, <3>4, <3>5
  <2> QED BY <2>3, <2>4, <2>6, <2>7, <2>8, KindsOfStep
<1> QED BY <1>1, <1>2, LoaderTypes, PTL DEF LoaderSpec

(* However loads overlap and fail, the graph of what is registered stays sound:
   every dependency is there and there is no cycle. *)
THEOREM LoaderKeepsGraph == LoaderSpec => []IsDag(skills)
<1>1. LoaderInit => IsDag(skills)
  BY DEF LoaderInit, Init, IsDag, Closed, Acyclic
<1>2. LoaderTypeOK /\ IsDag(skills) /\ [LoaderNext]_loaderVars => IsDag(skills)'
  <2> SUFFICES ASSUME LoaderTypeOK, IsDag(skills), [LoaderNext]_loaderVars
               PROVE  IsDag(skills')
    OBVIOUS
  <2>1. ASSUME NEW d, Register(d) PROVE IsDag(skills')
    BY <2>1 DEF Register
  <2>2. ASSUME NEW n, Unregister(n) PROVE IsDag(skills')
    <3>1. \A m \in DOMAIN skills : n \notin DependsOn(skills[m])
      BY <2>2 DEF Unregister, Dependents
    <3>2. IsDag(Without(skills, n))
      BY <3>1, RemovalKeepsDag
    <3> QED BY <2>2, <3>2 DEF Unregister
  <2>3. CASE skills' = skills
    BY <2>3
  <2>4. CASE Unloaded
    BY <2>2, <2>3, <2>4 DEF Unloaded, Unload, registry
  <2>5. CASE Arrived
    <3>1. \E x : Register(x)
      BY <2>5 DEF Arrived
    <3> QED BY <2>1, <3>1
  <2> QED BY <2>1, <2>2, <2>3, <2>4, <2>5, KindsOfStep DEF Untouched, Created, Removed
<1> QED BY <1>1, <1>2, LoaderTypes, PTL DEF LoaderSpec

-----------------------------------------------------------------------------
(* Which edition runs *)

\* A plugin is listed under the name its manifest gave it.
NamesOK == \A n \in DOMAIN loaded : Editions[loaded[n].dir][loaded[n].edition].name = n

\* What is there to take the edition on disk up: a timer, a scan that has yet to
\* come to it, or a load that has read its manifest.  A load that has read an older
\* one is not enough.
ToVisit(x, d) == x.job = "scan" /\ \E i \in DOMAIN x.rest : x.rest[i] = d
Fresh(x, d)   == x.dir = d /\ x.edition = disk[d]
Pending(d)    == d \in timers \/ \E s \in Slots : ToVisit(work[s], d) \/ Fresh(work[s], d)

Claims(d) == Alone(d) /\ seen[d] /\ ~failed[d] /\ ~Disturbed(d)
TakenUp   == \A d \in Dirs : Claims(d) => Newest(d) \/ Pending(d)

(* Loads list a plugin under the name of its manifest. *)
LEMMA StepKeepsNames ==
  ASSUME LoaderTypeOK, NamesOK, [LoaderNext]_loaderVars
  PROVE  NamesOK'
<1>1. ASSUME DOMAIN loaded' \subseteq DOMAIN loaded,
             \A n \in DOMAIN loaded' : loaded'[n] = loaded[n]
      PROVE  NamesOK'
  BY <1>1 DEF NamesOK
<1>2. CASE loaded' = loaded
  BY <1>1, <1>2
<1>3. CASE Unloaded
  <2>1. PICK n \in Names : Unload(n)
    BY <1>3 DEF Unloaded
  <2>2. CASE n \in DOMAIN loaded
    <3>1. loaded' = Without(loaded, n)
      BY <2>1, <2>2 DEF Unload
    <3>2. DOMAIN loaded' = DOMAIN loaded \ {n} /\ \A m \in DOMAIN loaded' : loaded'[m] = loaded[m]
      BY <3>1, UnloadedMap
    <3> QED BY <1>1, <3>2
  <2> QED BY <1>2, <2>1, <2>2 DEF Unload
<1>4. CASE Arrived
  <2>1. PICK d \in Dirs : \E k \in DOMAIN Editions[d], h \in Nat :
          loaded' = With(loaded, Editions[d][k].name, [dir |-> d, edition |-> k, handler |-> h])
    BY <1>4 DEF Arrived
  <2>2. PICK k \in DOMAIN Editions[d], h \in Nat :
          loaded' = With(loaded, Editions[d][k].name, [dir |-> d, edition |-> k, handler |-> h])
    BY <2>1
  <2> DEFINE n == Editions[d][k].name
             e == [dir |-> d, edition |-> k, handler |-> h]
  <2>3. e.dir = d /\ e.edition = k
    OBVIOUS
  <2>4. loaded' = With(loaded, n, e)
    BY <2>2
  <2> HIDE DEF e
  <2>5. DOMAIN loaded' = DOMAIN loaded \cup {n} /\ loaded'[n] = e
        /\ \A m \in DOMAIN loaded : m # n => loaded'[m] = loaded[m]
    <3> HIDE DEF n
    <3>1. /\ DOMAIN With(loaded, n, e) = DOMAIN loaded \cup {n} /\ With(loaded, n, e)[n] = e
          /\ \A m \in DOMAIN loaded : m # n => With(loaded, n, e)[m] = loaded[m]
      BY DEF With
    <3>2. loaded' = With(loaded, n, e)
      BY <2>4 DEF n
    <3> QED BY <3>1, <3>2
  <2> QED BY <2>3, <2>5 DEF NamesOK
<1> QED BY <1>2, <1>3, <1>4, KindsOfStep DEF Untouched, Created, Removed

(* A load that begins in a directory either imports the edition on disk or has
   failed. *)
LEMMA BegunIsFresh ==
  ASSUME LoaderTypeOK, NEW s \in Slots, NEW d \in Dirs, NEW j \in Work,
         BeginLoad(s, d, j), disk' = disk, ~failed'[d]
  PROVE  Pending(d)'
<1> DEFINE x == [j EXCEPT !.dir = d, !.edition = disk[d]]
<1>1. ~Fails(d)
  BY DEF Fails, LoaderTypeOK
<1>2. work' = [work EXCEPT ![s] = x]
  BY <1>1 DEF BeginLoad
<1>3. x.dir = d /\ x.edition = disk[d]
  BY DEF Work
<1> HIDE DEF x
<1>4. work'[s] = x
  BY <1>2 DEF LoaderTypeOK, WorkOK
<1> QED BY <1>3, <1>4 DEF Pending, Fresh

(* A load that begins in another directory leaves the plugin of this one alone, and
   a scan goes on where it was. *)
LEMMA BegunElsewhere ==
  ASSUME LoaderTypeOK, NEW s \in Slots, NEW d \in Dirs, Alone(d), NEW e \in Dirs, e # d,
         disk[e] \in DOMAIN Editions[e], NEW j \in Work, BeginLoad(s, e, j)
  PROVE  /\ OnDisk(d).name \in DOMAIN loaded =>
              OnDisk(d).name \in DOMAIN loaded' /\ loaded'[OnDisk(d).name] = loaded[OnDisk(d).name]
         /\ \E x : /\ work' = [work EXCEPT ![s] = x]
                   /\ j.job = "scan" => x.job = "scan" /\ x.rest = j.rest
<1>1. OnDisk(e).name # OnDisk(d).name
  BY DEF Alone, OnDisk
<1>2. loaded' = loaded \/ loaded' = Without(loaded, OnDisk(e).name)
  BY DEF BeginLoad, Unload
<1>3. ASSUME loaded' = Without(loaded, OnDisk(e).name)
      PROVE  /\ DOMAIN loaded' = DOMAIN loaded \ {OnDisk(e).name}
             /\ \A m \in DOMAIN loaded' : loaded'[m] = loaded[m]
  BY <1>3, UnloadedMap
<1>4. OnDisk(d).name \in DOMAIN loaded =>
        OnDisk(d).name \in DOMAIN loaded' /\ loaded'[OnDisk(d).name] = loaded[OnDisk(d).name]
  BY <1>1, <1>2, <1>3
<1> DEFINE x == [j EXCEPT !.dir = e, !.edition = disk[e]]
           y == [j EXCEPT !.dir = NoDir, !.edition = 0]
<1>5. x.job = j.job /\ x.rest = j.rest /\ y.job = j.job /\ y.rest = j.rest
  BY DEF Work
<1>6. work' = [work EXCEPT ![s] = Ended(j)] \/ work' = [work EXCEPT ![s] = x]
  BY DEF BeginLoad
<1>7. j.job = "scan" => Ended(j) = y
  BY DEF Ended
<1> HIDE DEF x, y
<1>8. \E z : /\ work' = [work EXCEPT ![s] = z]
             /\ j.job = "scan" => z.job = "scan" /\ z.rest = j.rest
  BY <1>5, <1>6, <1>7
<1> QED BY <1>4, <1>8

(* What is pending stays pending when another job is put in a slot, unless that
   slot was what there was to take it up. *)
LEMMA SlotKeepsPending ==
  ASSUME LoaderTypeOK, NEW s \in Slots, NEW d \in Dirs, NEW x,
         work' = [work EXCEPT ![s] = x], disk' = disk, d \in timers => d \in timers',
         ToVisit(work[s], d) => ToVisit(x, d), ~Fresh(work[s], d)
  PROVE  Pending(d) => Pending(d)'
<1>1. \A t \in Slots : work'[t] = IF t = s THEN x ELSE work[t]
  BY DEF LoaderTypeOK, WorkOK
<1>2. \A t \in Slots : ToVisit(work[t], d) => ToVisit(work'[t], d)
  BY <1>1
<1>3. \A t \in Slots : Fresh(work[t], d) => Fresh(work[t], d)' /\ work'[t] = work[t]
  BY <1>1 DEF Fresh
<1> QED BY <1>2, <1>3 DEF Pending, ToVisit, Fresh

(* The edition that runs goes on running as long as its entry is left alone. *)
LEMMA NewestStays ==
  ASSUME NEW d \in Dirs, disk' = disk,
         OnDisk(d).name \in DOMAIN loaded =>
              OnDisk(d).name \in DOMAIN loaded' /\ loaded'[OnDisk(d).name] = loaded[OnDisk(d).name]
  PROVE  Newest(d) => Newest(d)'
BY DEF Newest, OnDisk

(* An idle slot takes nothing up. *)
LEMMA IdleTakesNothing ==
  ASSUME NEW d \in Dirs
  PROVE  ~ToVisit(Idle, d) /\ ~Fresh(Idle, d)
BY LoaderConfig DEF Idle, ToVisit, Fresh

(* A claim that is made after a step that changes no directory was made before it. *)
LEMMA ClaimStays ==
  ASSUME LoaderTypeOK, NEW d \in Dirs, disk' = disk, seen' = seen, removed \subseteq removed',
         ~failed'[d] => ~failed[d], Claims(d)'
  PROVE  Claims(d)
BY DEF Claims, Alone, Disturbed, OnDisk

(* A step that begins a load takes up the directory it begins with, and leaves the
   others to what there was to take them up. *)
LEMMA BeginningKeepsTakenUp ==
  ASSUME LoaderTypeOK, NEW s \in Slots, NEW e \in Dirs, disk[e] \in DOMAIN Editions[e],
         NEW j \in Work, BeginLoad(s, e, j), UNCHANGED disk,
         NEW d \in Dirs, Alone(d), ~failed'[d], Newest(d) \/ Pending(d), ~Fresh(work[s], d),
         e # d => /\ d \in timers => d \in timers'
                  /\ ToVisit(work[s], d) => ToVisit(j, d)
  PROVE  Newest(d)' \/ Pending(d)'
<1>1. CASE e = d
  BY <1>1, BegunIsFresh
<1>2. CASE e # d
  <2>1. OnDisk(d).name \in DOMAIN loaded =>
          OnDisk(d).name \in DOMAIN loaded' /\ loaded'[OnDisk(d).name] = loaded[OnDisk(d).name]
    BY <1>2, BegunElsewhere
  <2>2. PICK x : /\ work' = [work EXCEPT ![s] = x]
                 /\ j.job = "scan" => x.job = "scan" /\ x.rest = j.rest
    BY <1>2, BegunElsewhere
  <2>3. Newest(d) => Newest(d)'
    BY <2>1, NewestStays
  <2>4. ToVisit(work[s], d) => ToVisit(x, d)
    BY <1>2, <2>2 DEF ToVisit
  <2>5. Pending(d) => Pending(d)'
    BY <1>2, <2>2, <2>4, SlotKeepsPending
  <2> QED BY <2>3, <2>5
<1> QED BY <1>1, <1>2

(* A scan that comes to a directory begins a load of what is there. *)
LEMMA VisitKeepsTakenUp ==
  ASSUME LoaderTypeOK, NEW s \in Slots, ScanVisits(s),
         NEW d \in Dirs, Alone(d), ~failed'[d], Newest(d) \/ Pending(d)
  PROVE  Newest(d)' \/ Pending(d)'
<1> DEFINE e == Head(work[s].rest)
           j == [work[s] EXCEPT !.rest = Tail(@)]
<1>1. /\ work[s] \in Work /\ work[s].rest \in Seq(Dirs) /\ work[s].rest # <<>>
      /\ work[s].dir = NoDir /\ work[s].job = "scan"
  BY DEF LoaderTypeOK, WorkOK, Work, ScanVisits, Scanning
<1>2. e \in Dirs /\ Tail(work[s].rest) \in Seq(Dirs)
  BY <1>1, HeadTailProperties
<1>3. j \in Work /\ j.job = "scan" /\ j.rest = Tail(work[s].rest)
  BY <1>1, <1>2 DEF Work
<1>4. /\ UNCHANGED <<disk, timers>>
      /\ IF disk[e] = 0 THEN work' = [work EXCEPT ![s] = j] /\ UNCHANGED loaded
                        ELSE BeginLoad(s, e, j)
  BY DEF ScanVisits
<1>5. ToVisit(work[s], d) /\ e # d => ToVisit(j, d)
  <2> SUFFICES ASSUME ToVisit(work[s], d), e # d PROVE ToVisit(j, d)
    OBVIOUS
  <2> DEFINE q == work[s].rest
  <2>1. PICK i \in DOMAIN q : q[i] = d
    BY DEF ToVisit
  <2>2. q \in Seq(Dirs) /\ q # <<>>
    BY <1>1
  <2> HIDE DEF q
  <2>3. Len(q) \in Nat /\ DOMAIN q = 1..Len(q) /\ Head(q) = q[1]
    BY <2>2, LenProperties
  <2>4. /\ DOMAIN Tail(q) = 1..Len(q)-1
        /\ \A k \in 1..Len(q)-1 : Tail(q)[k] = q[k+1]
    <3>1. Tail(q) \in Seq(Dirs) /\ Len(Tail(q)) = Len(q) - 1 /\ \A k \in 1..Len(Tail(q)) : Tail(q)[k] = q[k+1]
      BY <2>2, HeadTailProperties
    <3>2. DOMAIN Tail(q) = 1..Len(Tail(q))
      BY <3>1, LenProperties
    <3> QED BY <3>1, <3>2
  <2>5. i # 1
    BY <2>1, <2>3 DEF q
  <2>6. i - 1 \in DOMAIN Tail(q) /\ Tail(q)[i - 1] = d
    BY <2>1, <2>3, <2>4, <2>5
  <2> QED BY <1>3, <2>6 DEF ToVisit, q
<1>6. ~Fresh(work[s], d)
  BY <1>1, LoaderConfig DEF Fresh
<1> HIDE DEF e, j
<1>7. CASE disk[e] = 0
  <2>1. e # d
    BY <1>7 DEF Alone
  <2>2. Pending(d) => Pending(d)'
    BY <1>4, <1>5, <1>6, <1>7, <2>1, SlotKeepsPending
  <2>3. Newest(d) => Newest(d)'
    BY <1>4, <1>7, NewestStays
  <2> QED BY <2>2, <2>3
<1>8. CASE disk[e] # 0
  <2>1. disk[e] \in DOMAIN Editions[e]
    BY <1>2, <1>8, OnDiskIsEdition
  <2> QED BY <1>2, <1>3, <1>4, <1>5, <1>6, <1>8, <2>1, BeginningKeepsTakenUp
<1> QED BY <1>7, <1>8

(* A timer leads to a load of its directory: a plugin of that name which is loaded
   from elsewhere is none of a directory that claims the name for itself. *)
LEMMA TimerKeepsTakenUp ==
  ASSUME LoaderTypeOK, NamesOK, NEW s \in Slots, NEW f \in Dirs, TimerFires(s, f),
         NEW d \in Dirs, Alone(d), ~failed'[d], Newest(d) \/ Pending(d)
  PROVE  Newest(d)' \/ Pending(d)'
<1> DEFINE e == TimerTarget(f)
<1>1. /\ f \in timers /\ work[s] = Idle /\ timers' = timers \ {f}
      /\ BeginLoad(s, e, Load) /\ UNCHANGED disk
  BY DEF TimerFires
<1>2. e \in Dirs /\ disk[e] \in DOMAIN Editions[e]
  BY <1>1, TimerTargetOnDisk
<1>3. f = d => e = d
  <2> SUFFICES ASSUME f = d, e # d PROVE FALSE
    OBVIOUS
  <2>1. OnDisk(d).name \in DOMAIN loaded /\ e = loaded[OnDisk(d).name].dir
    BY DEF TimerTarget
  <2>2. /\ Editions[e][loaded[OnDisk(d).name].edition].name = OnDisk(d).name
        /\ loaded[OnDisk(d).name].edition \in DOMAIN Editions[e]
    BY <2>1 DEF NamesOK, LoaderTypeOK, LoadedOK
  <2> QED BY <1>2, <2>2 DEF Alone
<1>4. Load \in Work
  <2>1. <<>> \in Seq(Dirs)
    BY EmptySeq
  <2> QED BY <2>1 DEF Load, Idle, Work
<1> HIDE DEF e
<1>5. ~ToVisit(work[s], d) /\ ~Fresh(work[s], d)
  BY <1>1, IdleTakesNothing
<1> QED BY <1>1, <1>2, <1>3, <1>4, <1>5, BeginningKeepsTakenUp

(* A request to reload a plugin begins a load where it came from. *)
LEMMA ReloadKeepsTakenUp ==
  ASSUME LoaderTypeOK, NEW s \in Slots, NEW n \in Names, ReloadPlugin(s, n),
         NEW d \in Dirs, Alone(d), ~failed'[d], Newest(d) \/ Pending(d)
  PROVE  Newest(d)' \/ Pending(d)'
<1> DEFINE e == loaded[n].dir
<1>1. /\ n \in DOMAIN loaded /\ work[s] = Idle /\ UNCHANGED <<disk, timers>>
      /\ BeginLoad(s, e, Load)
  BY DEF ReloadPlugin
<1>2. e \in Dirs /\ disk[e] \in DOMAIN Editions[e]
  BY <1>1, LoadedOnDisk
<1>3. Load \in Work
  <2>1. <<>> \in Seq(Dirs)
    BY EmptySeq
  <2> QED BY <2>1 DEF Load, Idle, Work
<1> HIDE DEF e
<1>4. ~ToVisit(work[s], d) /\ ~Fresh(work[s], d)
  BY <1>1, IdleTakesNothing
<1> QED BY <1>1, <1>2, <1>3, <1>4, BeginningKeepsTakenUp

(* What is left of a job when a load of it ends: the directories a scan has yet to
   visit. *)
LEMMA EndedVisits ==
  ASSUME NEW j \in Work, NEW d \in Dirs
  PROVE  ToVisit(j, d) => ToVisit(Ended(j), d)
<1> DEFINE x == [j EXCEPT !.dir = NoDir, !.edition = 0]
<1>1. x.job = j.job /\ x.rest = j.rest
  BY DEF Work
<1>2. j.job = "scan" => Ended(j) = x
  BY DEF Ended
<1> HIDE DEF x
<1> QED BY <1>1, <1>2 DEF ToVisit

(* A load that succeeds makes the edition run that it has read, if none of that
   name does; a fresh one makes the newest run. *)
LEMMA SuccessKeepsTakenUp ==
  ASSUME LoaderTypeOK, LoadedIsRegistered, NEW s \in Slots, NEW h, LoadSucceeds(s, h),
         NEW d \in Dirs, Alone(d), ~Disturbed(d), Newest(d) \/ Pending(d)
  PROVE  Newest(d)' \/ Pending(d)'
<1> DEFINE e == work[s].dir
           k == work[s].edition
           m == Editions[e][k]
           l == [dir |-> e, edition |-> k, handler |-> h]
           n == OnDisk(d).name
<1>1. /\ e \in Dirs /\ k \in DOMAIN Editions[e] /\ k \in Nat /\ k <= disk[e] /\ disk[e] \in Nat
      /\ work[s] \in Work
  BY DEF LoaderTypeOK, WorkOK, Work, DiskOK, LoadSucceeds, Imported, Importing
<1>2. /\ h \in k..disk[e] /\ CanRegister(SkillOf(m)) /\ loaded' = With(loaded, m.name, l)
      /\ work' = [work EXCEPT ![s] = Ended(work[s])]
      /\ UNCHANGED <<disk, timers>>
  BY DEF LoadSucceeds, Imported
<1>3. DOMAIN loaded' = DOMAIN loaded \cup {m.name} /\ loaded'[m.name] = l
      /\ \A x \in DOMAIN loaded : x # m.name => loaded'[x] = loaded[x]
  <2> HIDE DEF m, l
  <2>1. /\ DOMAIN With(loaded, m.name, l) = DOMAIN loaded \cup {m.name} /\ With(loaded, m.name, l)[m.name] = l
        /\ \A x \in DOMAIN loaded : x # m.name => With(loaded, m.name, l)[x] = loaded[x]
    BY DEF With
  <2> QED BY <1>2, <2>1
<1>4. ToVisit(work[s], d) => ToVisit(Ended(work[s]), d)
  BY <1>1, EndedVisits
<1>5. CASE Fresh(work[s], d)
  <2>1. e = d /\ k = disk[d] /\ h = disk[d] /\ m.name = n
    BY <1>1, <1>2, <1>5 DEF Fresh, OnDisk
  <2>2. l = [dir |-> d, edition |-> disk[d], handler |-> disk[d]]
    BY <2>1
  <2>3. disk[d] # 0
    BY DEF Alone
  <2> HIDE DEF l, m, n, k, e
  <2>4. n \in DOMAIN loaded' /\ loaded'[n] = [dir |-> d, edition |-> disk[d], handler |-> disk[d]]
    BY <1>3, <2>1, <2>2
  <2> QED BY <1>2, <2>3, <2>4 DEF Newest, OnDisk, n
<1>6. CASE ~Fresh(work[s], d)
  <2>1. Pending(d) => Pending(d)'
    BY <1>2, <1>4, <1>6, SlotKeepsPending
  <2>2. ASSUME Newest(d)
        PROVE  Newest(d)'
    <3>1. n \in DOMAIN skills
      BY <2>2 DEF Newest, Disturbed, LoadedIsRegistered
    <3>2. m.name # n
      <4>1. SkillOf(m).name = m.name /\ m.name \notin DOMAIN skills
        BY <1>1, <1>2, EditionsOffered DEF CanRegister
      <4> QED BY <3>1, <4>1
    <3> HIDE DEF l, m
    <3>3. n \in DOMAIN loaded => n \in DOMAIN loaded' /\ loaded'[n] = loaded[n]
      BY <1>3, <3>2
    <3> QED BY <1>2, <2>2, <3>3, NewestStays
  <2> QED BY <2>1, <2>2
<1> QED BY <1>5, <1>6

(* A load that fails is the one that was fresh, and says so, or another. *)
LEMMA FailureKeepsTakenUp ==
  ASSUME LoaderTypeOK, NEW s \in Slots, NEW h, LoadFails(s, h),
         NEW d \in Dirs, ~failed'[d], Newest(d) \/ Pending(d)
  PROVE  Newest(d)' \/ Pending(d)'
<1>1. /\ Fails(work[s].dir) /\ work' = [work EXCEPT ![s] = Ended(work[s])] /\ work[s] \in Work
      /\ UNCHANGED <<disk, loaded, timers>>
  BY DEF LoadFails, LoaderTypeOK, WorkOK
<1>2. work[s].dir # d
  BY <1>1 DEF Fails, LoaderTypeOK
<1>3. ~Fresh(work[s], d)
  BY <1>2 DEF Fresh
<1>4. ToVisit(work[s], d) => ToVisit(Ended(work[s]), d)
  BY <1>1, EndedVisits
<1>5. Pending(d) => Pending(d)'
  BY <1>1, <1>3, <1>4, SlotKeepsPending
<1>6. Newest(d) => Newest(d)'
  BY <1>1, NewestStays
<1> QED BY <1>5, <1>6

(* Every step keeps it. *)
LEMMA StepKeepsTakenUp ==
  ASSUME LoaderTypeOK, LoadedIsRegistered, NamesOK, TakenUp, [LoaderNext]_loaderVars
  PROVE  TakenUp'
<1> SUFFICES ASSUME NEW d \in Dirs, Claims(d)'
             PROVE  Newest(d)' \/ Pending(d)'
  BY DEF TakenUp
<1>1. ~failed'[d] /\ removed \in SUBSET Names
  BY DEF Claims, LoaderTypeOK
\* But for a change, the claim was made before.
<1>2. ASSUME disk' = disk, seen' = seen, removed \subseteq removed', failed' = failed \/ \E e \in Dirs : Fails(e)
      PROVE  Alone(d) /\ ~Disturbed(d) /\ (Newest(d) \/ Pending(d))
  <2>1. ~failed[d]
    BY <1>1, <1>2 DEF Fails, LoaderTypeOK
  <2>2. Claims(d)
    BY <1>2, <2>1, ClaimStays
  <2> QED BY <2>2 DEF Claims, TakenUp
<1>3. ASSUME UNCHANGED <<disk, loaded, work, timers>>, Newest(d) \/ Pending(d)
      PROVE  Newest(d)' \/ Pending(d)'
  BY <1>3 DEF Newest, OnDisk, Pending, ToVisit, Fresh
<1>4. \A s, e, j : BeginLoad(s, e, j) => failed' = failed \/ Fails(e)
  BY DEF BeginLoad
<1>5. ASSUME NEW s \in Slots, ScanVisits(s)
      PROVE  Newest(d)' \/ Pending(d)'
  <2>1. Head(work[s].rest) \in Dirs
    <3>1. work[s].rest \in Seq(Dirs) /\ work[s].rest # <<>>
      BY <1>5 DEF LoaderTypeOK, WorkOK, Work, ScanVisits
    <3> QED BY <3>1, HeadTailProperties
  <2>2. disk' = disk /\ seen' = seen /\ removed' = removed /\ (failed' = failed \/ Fails(Head(work[s].rest)))
    BY <1>4, <1>5 DEF ScanVisits
  <2> QED BY <1>1, <1>2, <1>5, <2>1, <2>2, VisitKeepsTakenUp
<1>6. ASSUME NEW s \in Slots, ScanEnds(s)
      PROVE  Newest(d)' \/ Pending(d)'
  <2>1. /\ work' = [work EXCEPT ![s] = Idle] /\ UNCHANGED <<disk, loaded, timers, seen, failed, removed>>
        /\ work[s].rest = <<>> /\ work[s].dir = NoDir
    BY <1>6 DEF ScanEnds, history, Scanning
  <2>2. ~ToVisit(work[s], d) /\ ~Fresh(work[s], d)
    BY <2>1, LoaderConfig DEF ToVisit, Fresh
  <2>3. Newest(d) \/ Pending(d)
    BY <1>2, <2>1
  <2>4. Pending(d) => Pending(d)'
    BY <2>1, <2>2, SlotKeepsPending
  <2>5. Newest(d) => Newest(d)'
    BY <2>1, NewestStays
  <2> QED BY <2>3, <2>4, <2>5
<1>7. ASSUME NEW s \in Slots, NEW h, LoadSucceeds(s, h)
      PROVE  Newest(d)' \/ Pending(d)'
  <2>1. UNCHANGED <<disk, seen, failed, removed>>
    BY <1>7 DEF LoadSucceeds, history
  <2> QED BY <1>2, <1>7, <2>1, SuccessKeepsTakenUp
<1>8. ASSUME NEW s \in Slots, NEW h, LoadFails(s, h)
      PROVE  Newest(d)' \/ Pending(d)'
  <2>1. UNCHANGED <<disk, seen, removed>> /\ Fails(work[s].dir)
    BY <1>8 DEF LoadFails
  <2>2. work[s].dir \in Dirs
    BY <1>8 DEF LoadFails, Imported, Importing, LoaderTypeOK, WorkOK, Work
  <2> QED BY <1>1, <1>2, <1>8, <2>1, <2>2, FailureKeepsTakenUp
<1>9. ASSUME NEW e \in Dirs, Changes(e)
      PROVE  Newest(d)' \/ Pending(d)'
  <2>1. /\ \A x \in Dirs : x # e => disk'[x] = disk[x] /\ seen'[x] = seen[x] /\ failed'[x] = failed[x]
        /\ seen'[e] = watching /\ timers' = IF watching THEN timers \cup {e} ELSE timers
        /\ UNCHANGED <<loaded, work, removed>>
    BY <1>9 DEF Changes, LoaderTypeOK, DiskOK
  <2>2. CASE e = d
    BY <2>1, <2>2 DEF Claims, Pending
  <2>3. CASE e # d
    <3>1. disk'[d] = disk[d] /\ seen'[d] = seen[d] /\ failed'[d] = failed[d]
      BY <2>1, <2>3
    <3>2. Claims(d)
      BY <2>1, <3>1 DEF Claims, Alone, Disturbed, OnDisk
    <3>3. Newest(d) \/ Pending(d)
      BY <3>2 DEF TakenUp
    <3>4. Pending(d) => Pending(d)'
      BY <2>1, <3>1 DEF Pending, ToVisit, Fresh
    <3>5. Newest(d) => Newest(d)'
      BY <2>1, <3>1 DEF Newest, OnDisk
    <3> QED BY <3>3, <3>4, <3>5
  <2> QED BY <2>2, <2>3
<1>10. ASSUME NEW s \in Slots, NEW e \in Dirs, TimerFires(s, e)
       PROVE  Newest(d)' \/ Pending(d)'
  <2>1. UNCHANGED <<disk, seen, removed>> /\ (failed' = failed \/ Fails(TimerTarget(e)))
    BY <1>4, <1>10 DEF TimerFires
  <2>2. TimerTarget(e) \in Dirs
    BY <1>10, TimerTargetOnDisk DEF TimerFires
  <2> QED BY <1>1, <1>2, <1>10, <2>1, <2>2, TimerKeepsTakenUp
<1>11. ASSUME NEW s \in Slots, NEW n \in Names, ReloadPlugin(s, n)
       PROVE  Newest(d)' \/ Pending(d)'
  <2>1. UNCHANGED <<disk, seen, removed>> /\ (failed' = failed \/ Fails(loaded[n].dir))
    BY <1>4, <1>11 DEF ReloadPlugin
  <2>2. loaded[n].dir \in Dirs
    BY <1>11, LoadedOnDisk DEF ReloadPlugin
  <2> QED BY <1>1, <1>2, <1>11, <2>1, <2>2, ReloadKeepsTakenUp
<1>12. ASSUME NEW s \in Slots, LoadAll(s)
       PROVE  Newest(d)' \/ Pending(d)'
  <2> DEFINE x == [Idle EXCEPT !.job = "scan", !.rest = DirOrder]
  <2>1. /\ work[s] = Idle /\ work' = [work EXCEPT ![s] = x]
        /\ UNCHANGED <<disk, loaded, timers, seen, failed, removed>>
    BY <1>12 DEF LoadAll, history
  <2> HIDE DEF x
  <2>2. ~ToVisit(work[s], d) /\ ~Fresh(work[s], d)
    BY <2>1, IdleTakesNothing
  <2>3. Newest(d) \/ Pending(d)
    BY <1>2, <2>1
  <2>4. Pending(d) => Pending(d)'
    BY <2>1, <2>2, SlotKeepsPending
  <2>5. Newest(d) => Newest(d)'
    BY <2>1, NewestStays
  <2> QED BY <2>3, <2>4, <2>5
<1>13. ASSUME NEW n \in Names, SkillUnregister(n)
       PROVE  Newest(d)' \/ Pending(d)'
  <2>1. /\ UNCHANGED <<disk, loaded, work, timers, seen, failed>> /\ removed \subseteq removed'
    BY <1>13 DEF SkillUnregister
  <2> QED BY <1>2, <1>3, <2>1
<1>14. ASSUME NEW x \in OtherSkills, SkillCreate(x)
       PROVE  Newest(d)' \/ Pending(d)'
  <2>1. UNCHANGED <<disk, loaded, work, timers, seen, failed, removed>>
    BY <1>14 DEF SkillCreate, history
  <2> QED BY <1>2, <1>3, <2>1
<1>15. CASE UNCHANGED loaderVars
  <2>1. UNCHANGED <<disk, loaded, work, timers, seen, failed, removed>>
    BY <1>15 DEF loaderVars, history
  <2> QED BY <1>2, <1>3, <2>1
<1> QED BY <1>5, <1>6, <1>7, <1>8, <1>9, <1>10, <1>11, <1>12, <1>13, <1>14, <1>15
        DEF LoaderNext, SlotStep

(* Once nothing of a directory is under way, the edition on disk is the one that
   runs, manifest and handler, or a load has failed since it was put there.  Of two
   loads that overlap the older may win, but then the newer finds the name taken
   and fails. *)
THEOREM NewestRuns == LoaderSpec => []NewestOrFailed
<1>1. LoaderInit => NamesOK
  BY DEF LoaderInit, NamesOK
<1>2. LoaderInit => TakenUp
  <2> SUFFICES ASSUME LoaderInit, NEW d \in Dirs PROVE Pending(d)
    BY DEF TakenUp
  <2> DEFINE s == CHOOSE x \in Slots : TRUE
             j == [Idle EXCEPT !.job = "scan", !.rest = DirOrder]
  <2>1. work = [x \in Slots |-> IF x = s THEN j ELSE Idle]
    BY DEF LoaderInit
  <2>2. s \in Slots
    BY LoaderConfig
  <2>3. j.job = "scan" /\ j.rest = DirOrder
    BY DEF Idle
  <2> HIDE DEF s, j
  <2>4. work[s] = j
    BY <2>1, <2>2
  <2> QED BY <2>2, <2>3, <2>4, LoaderConfig DEF Pending, ToVisit
<1>3. LoaderTypeOK /\ NamesOK /\ [LoaderNext]_loaderVars => NamesOK'
  BY StepKeepsNames
<1>4. LoaderTypeOK /\ LoadedIsRegistered /\ NamesOK /\ TakenUp /\ [LoaderNext]_loaderVars => TakenUp'
  BY StepKeepsTakenUp
<1>5. TakenUp => NewestOrFailed
  <2> SUFFICES ASSUME TakenUp, NEW d \in Dirs, Alone(d), Quiet(d), seen[d], ~failed[d], ~Disturbed(d)
               PROVE  Newest(d)
    BY DEF NewestOrFailed
  <2>1. ~Pending(d)
    BY DEF Quiet, Pending, ToVisit, Fresh
  <2> QED BY <2>1 DEF TakenUp, Claims
<1> QED BY <1>1, <1>2, <1>3, <1>4, <1>5, LoaderTypes, LoadedRegistered, PTL DEF LoaderSpec
=============================================================================
