----------------------------- MODULE PluginLoader -----------------------------
(***************************************************************************)
(* The plugin loader (src/src/plugin/plugin-loader.ts) over the registry   *)
(* it fills.  Each directory holds a manifest and an entry file, which an  *)
(* author replaces by their next edition.  A load reads the manifest,      *)
(* unloads the plugin of that name, imports the entry file and registers   *)
(* the skill; the import is asynchronous, so loads overlap.  Loads are     *)
(* started by the scan of all directories (at start-up, when nobody        *)
(* watches them yet, and on request), by the debounced watcher, and by     *)
(* requests to reload a plugin.  Skills are also removed and created       *)
(* behind the loader's back.                                               *)
(***************************************************************************)
EXTENDS SkillRegistry, FiniteSets

CONSTANTS Dirs,           \* plugin directories
          DirOrder,       \* the order readdirSync lists them in
          Editions,       \* per directory, what its author puts there in turn
          Initially,      \* what the directories may hold at start-up
          DefaultVersion, \* the version defineSkill gives a skill without one
          OtherSkills,    \* definitions created through meta skills
          Slots,          \* loads and scans that may be under way at once
          MaxRequests     \* bound on what is requested from outside

\* fault: "none", "manifest" (unreadable or incomplete), "entry" (file missing
\* or checksum wrong) or "handler" (import throws, or nothing to call in it).
Faults == {"none", "manifest", "entry", "handler"}
Manifest == [name : Names, dependencies : Seq(Names), fault : Faults]

\* loadPlugin does not pass the manifest's version on to defineSkill.
SkillOf(m) ==
  [name |-> m.name, version |-> DefaultVersion, dependencies |-> m.dependencies]

NoDir == "no directory"

ASSUME LoaderConfig ==
  /\ NoDir \notin Dirs /\ DirOrder \in Seq(Dirs)
  /\ \A d \in Dirs : \E i \in DOMAIN DirOrder : DirOrder[i] = d
  /\ Editions \in [Dirs -> Seq(Manifest)]
  /\ \A d \in Dirs : \A k \in DOMAIN Editions[d] : SkillOf(Editions[d][k]) \in Offered
  /\ Initially \subseteq [Dirs -> Nat]
  /\ \A f \in Initially : \A d \in Dirs : f[d] <= Len(Editions[d])
  /\ OtherSkills \subseteq Offered
  /\ Slots # {} /\ MaxRequests \in Nat

VARIABLES disk,      \* per directory, the edition it holds; 0 while it has no manifest
          loaded,    \* per plugin, where its skill was loaded from
          work,      \* per slot, the scan or load under way
          watching,  \* the directories are watched
          timers,    \* directories whose debounce timer is running
          requests,  \* requests made from outside
          seen,      \* history: the last change of a directory was watched
          failed,    \* history: a load of it has failed since that change
          removed    \* history: skills unregistered behind the loader's back

registry == <<skills, versions>>
history  == <<seen, failed, removed>>
loaderVars == <<registry, disk, loaded, work, watching, timers, requests, history>>

\* rest: directories a scan has yet to visit; dir: the one being imported, with
\* the edition its manifest was read from.
Idle == [job |-> "none", rest |-> <<>>, dir |-> NoDir, edition |-> 0]
Work == [job : {"none", "scan", "load"}, rest : Seq(Dirs), dir : Dirs \cup {NoDir}, edition : Nat]

\* handler: the edition the imported handler came from.
Source == [dir : Dirs, edition : Nat, handler : Nat]

DiskOK == disk \in [Dirs -> Nat] /\ \A d \in Dirs : disk[d] <= Len(Editions[d])

LoadedOK ==
  /\ DOMAIN loaded \subseteq Names
  /\ \A n \in DOMAIN loaded :
       /\ loaded[n] \in Source
       /\ loaded[n].edition \in DOMAIN Editions[loaded[n].dir]
       /\ loaded[n].edition <= disk[loaded[n].dir]

WorkOK ==
  /\ work \in [Slots -> Work]
  /\ \A s \in Slots : work[s].dir # NoDir =>
       work[s].edition \in DOMAIN Editions[work[s].dir] /\ work[s].edition <= disk[work[s].dir]

LoaderTypeOK ==
  /\ TypeOK /\ DiskOK /\ LoadedOK /\ WorkOK
  /\ timers \subseteq {d \in Dirs : disk[d] # 0}
  /\ watching \in BOOLEAN /\ requests \in 0..MaxRequests
  /\ seen \in [Dirs -> BOOLEAN] /\ failed \in [Dirs -> BOOLEAN] /\ removed \subseteq Names

\* The server starts with loadAll under way in one of the slots.
LoaderInit ==
  /\ Init
  /\ disk \in Initially
  /\ loaded = <<>>
  /\ LET s == CHOOSE x \in Slots : TRUE IN
       work = [x \in Slots |-> IF x = s THEN [Idle EXCEPT !.job = "scan", !.rest = DirOrder]
                                        ELSE Idle]
  /\ watching = FALSE /\ timers = {} /\ requests = 0
  /\ seen = [d \in Dirs |-> TRUE] /\ failed = [d \in Dirs |-> FALSE] /\ removed = {}

-----------------------------------------------------------------------------
(* Parts of loadPlugin *)

OnDisk(d) == Editions[d][disk[d]]

Fails(d) == failed' = [failed EXCEPT ![d] = TRUE]

\* unloadPlugin: a plugin leaves loaded even if the registry refuses to let go
\* of its skill.
Unload(n) ==
  IF n \in DOMAIN loaded
  THEN /\ loaded' = Without(loaded, n)
       /\ IF n \in DOMAIN skills /\ Dependents(n) = {} THEN Unregister(n)
                                                      ELSE UNCHANGED registry
  ELSE UNCHANGED <<registry, loaded>>

\* What is left of a job when one load of it has ended: the scan, or nothing.
Ended(j) == IF j.job = "scan" THEN [j EXCEPT !.dir = NoDir, !.edition = 0] ELSE Idle

\* loadPlugin up to the await, in slot s as a part of job j.
BeginLoad(s, d, j) ==
  LET m == OnDisk(d)
  IN IF m.fault = "manifest"
     THEN /\ work' = [work EXCEPT ![s] = Ended(j)]
          /\ Fails(d)
          /\ UNCHANGED <<registry, loaded>>
     ELSE /\ Unload(m.name)
          /\ IF m.fault = "entry"
             THEN work' = [work EXCEPT ![s] = Ended(j)] /\ Fails(d)
             ELSE /\ work' = [work EXCEPT ![s] = [j EXCEPT !.dir = d, !.edition = disk[d]]]
                  /\ UNCHANGED failed

Load == [Idle EXCEPT !.job = "load"]

-----------------------------------------------------------------------------
(* The scan: loadAll *)

Scanning(s) == work[s].job = "scan" /\ work[s].dir = NoDir

ScanVisits(s) ==
  /\ Scanning(s) /\ work[s].rest # <<>>
  /\ LET d == Head(work[s].rest)
         j == [work[s] EXCEPT !.rest = Tail(@)]
     IN IF disk[d] = 0
        THEN work' = [work EXCEPT ![s] = j] /\ UNCHANGED <<registry, loaded, failed>>
        ELSE BeginLoad(s, d, j)
  /\ UNCHANGED <<disk, watching, timers, requests, seen, removed>>

\* After the last directory the watcher is started, unless there is one.
ScanEnds(s) ==
  /\ Scanning(s) /\ work[s].rest = <<>>
  /\ work' = [work EXCEPT ![s] = Idle]
  /\ watching' = TRUE
  /\ UNCHANGED <<registry, disk, loaded, timers, requests, history>>

-----------------------------------------------------------------------------
(* The end of a load *)

Importing(s) == work[s].dir # NoDir

\* The file was imported some time since the manifest was read.
Imported(s, h) == Importing(s) /\ h \in work[s].edition .. disk[work[s].dir]

CanRegister(d) == d.name \notin DOMAIN skills /\ IsDag(With(skills, d.name, d))

\* Mutant of LoadSucceeds: a name that is taken is recorded as loaded all the same.
LoadSucceeds_Overwrites(s, h) ==
  LET d == work[s].dir
      m == Editions[d][work[s].edition]
  IN /\ Imported(s, h) /\ Editions[d][h].fault \in {"none", "manifest"}
     /\ IF CanRegister(SkillOf(m)) THEN Register(SkillOf(m)) ELSE UNCHANGED registry
     /\ loaded' = With(loaded, m.name, [dir |-> d, edition |-> work[s].edition, handler |-> h])
     /\ work' = [work EXCEPT ![s] = Ended(@)]
     /\ UNCHANGED <<disk, watching, timers, requests, history>>

LoadSucceeds(s, h) ==
  LET d == work[s].dir
      m == Editions[d][work[s].edition]
  IN /\ Imported(s, h) /\ Editions[d][h].fault \in {"none", "manifest"}
     /\ CanRegister(SkillOf(m))
     /\ Register(SkillOf(m))
     /\ loaded' = With(loaded, m.name, [dir |-> d, edition |-> work[s].edition, handler |-> h])
     /\ work' = [work EXCEPT ![s] = Ended(@)]
     /\ UNCHANGED <<disk, watching, timers, requests, history>>

\* The import throws, or register does: the name is taken, a dependency is
\* missing, or there would be a cycle.
LoadFails(s, h) ==
  LET d == work[s].dir
  IN /\ Imported(s, h)
     /\ \/ Editions[d][h].fault \in {"entry", "handler"}
        \/ ~CanRegister(SkillOf(Editions[d][work[s].edition]))
     /\ Fails(d)
     /\ work' = [work EXCEPT ![s] = Ended(@)]
     /\ UNCHANGED <<registry, disk, loaded, watching, timers, requests, seen, removed>>

-----------------------------------------------------------------------------
(* The watcher *)

\* Mutant of Changes: a change while a load of the directory is under way is dropped.
Changes_DroppedWhileLoading(d) ==
  /\ disk[d] < Len(Editions[d])
  /\ disk' = [disk EXCEPT ![d] = @ + 1]
  /\ timers' = IF watching /\ \A s \in Slots : work[s].dir # d THEN timers \cup {d} ELSE timers
  /\ seen' = [seen EXCEPT ![d] = watching]
  /\ failed' = [failed EXCEPT ![d] = FALSE]
  /\ UNCHANGED <<registry, loaded, work, watching, requests, removed>>

\* The author puts the next edition in place; a running timer is started again.
Changes(d) ==
  /\ disk[d] < Len(Editions[d])
  /\ disk' = [disk EXCEPT ![d] = @ + 1]
  /\ timers' = IF watching THEN timers \cup {d} ELSE timers
  /\ seen' = [seen EXCEPT ![d] = watching]
  /\ failed' = [failed EXCEPT ![d] = FALSE]
  /\ UNCHANGED <<registry, loaded, work, watching, requests, removed>>

\* A plugin that is loaded is reloaded from the directory it came from.
TimerTarget(d) ==
  LET n == OnDisk(d).name
  IN IF OnDisk(d).fault # "manifest" /\ n \in DOMAIN loaded THEN loaded[n].dir ELSE d

\* Mutant of TimerFires: the timer is left in reloadTimers, the load not begun.
TimerFires_LoadForgotten(s, d) ==
  /\ d \in timers
  /\ work[s] = Idle
  /\ timers' = timers \ {d}
  /\ UNCHANGED <<registry, loaded, work, failed, disk, watching, requests, seen, removed>>

TimerFires(s, d) ==
  /\ d \in timers
  /\ work[s] = Idle
  /\ timers' = timers \ {d}
  /\ BeginLoad(s, TimerTarget(d), Load)
  /\ UNCHANGED <<disk, watching, requests, seen, removed>>

-----------------------------------------------------------------------------
(* Requests from outside *)

Requested == requests < MaxRequests /\ requests' = requests + 1

\* POST /plugins/reload with a name; an unknown one is answered with 404.
ReloadPlugin(s, n) ==
  /\ Requested
  /\ work[s] = Idle
  /\ n \in DOMAIN loaded
  /\ BeginLoad(s, loaded[n].dir, Load)
  /\ UNCHANGED <<disk, watching, timers, seen, removed>>

\* POST /plugins/reload without one.
LoadAll(s) ==
  /\ Requested
  /\ work[s] = Idle
  /\ work' = [work EXCEPT ![s] = [Idle EXCEPT !.job = "scan", !.rest = DirOrder]]
  /\ UNCHANGED <<registry, disk, loaded, watching, timers, history>>

\* skill_unregister
SkillUnregister(n) ==
  /\ Requested
  /\ Unregister(n)
  /\ removed' = removed \cup {n}
  /\ UNCHANGED <<disk, loaded, work, watching, timers, seen, failed>>

\* skill_create and skill_compose
SkillCreate(d) ==
  /\ Requested
  /\ Register(d)
  /\ UNCHANGED <<disk, loaded, work, watching, timers, history>>

-----------------------------------------------------------------------------
SlotStep(s) ==
  \/ ScanVisits(s) \/ ScanEnds(s)
  \/ \E h \in 1 .. (IF Importing(s) THEN disk[work[s].dir] ELSE 0) : LoadSucceeds(s, h) \/ LoadFails(s, h)

LoaderNext ==
  \/ \E s \in Slots : SlotStep(s)
  \/ \E d \in Dirs : Changes(d)
  \/ \E s \in Slots, d \in Dirs : TimerFires(s, d)
  \/ \E s \in Slots, n \in Names : ReloadPlugin(s, n)
  \/ \E s \in Slots : LoadAll(s)
  \/ \E n \in Names : SkillUnregister(n)
  \/ \E d \in OtherSkills : SkillCreate(d)

LoaderSpec == LoaderInit /\ [][LoaderNext]_loaderVars

\* Imports end and timers fire; nothing is promised of authors and requests.
FairLoaderSpec ==
  /\ LoaderSpec
  /\ \A s \in Slots : WF_loaderVars(SlotStep(s))
  /\ \A d \in Dirs : WF_loaderVars(\E s \in Slots : TimerFires(s, d))

-----------------------------------------------------------------------------
(* Properties *)

\* What the loader lists as loaded is what the engine runs: the registered skill
\* is the one of the edition listed, whatever loads overlapped or failed half-way.
LoadedIsRegistered ==
  \A n \in DOMAIN loaded \ removed :
    n \in DOMAIN skills /\ skills[n] = SkillOf(Editions[loaded[n].dir][loaded[n].edition])

Quiet(d) ==
  /\ d \notin timers
  /\ \A s \in Slots : work[s].dir # d /\ \A i \in DOMAIN work[s].rest : work[s].rest[i] # d

\* No other directory ever offers a plugin of this one's name.
Alone(d) ==
  /\ disk[d] # 0
  /\ \A e \in Dirs \ {d} : \A k \in DOMAIN Editions[e] : Editions[e][k].name # OnDisk(d).name

\* Its skill was unregistered behind the loader's back.
Disturbed(d) == disk[d] # 0 /\ OnDisk(d).name \in removed

Newest(d) ==
  /\ disk[d] # 0
  /\ OnDisk(d).name \in DOMAIN loaded
  /\ loaded[OnDisk(d).name] = [dir |-> d, edition |-> disk[d], handler |-> disk[d]]

\* Once nothing of a directory is under way, the edition on disk is the one that
\* runs, manifest and handler, or a load has failed since it was put there: of two
\* overlapping loads the older never wins in silence.  It may for a change made
\* before anybody watched, and when the skill was unregistered in between.
NewestOrFailed ==
  \A d \in Dirs :
    Alone(d) /\ Quiet(d) /\ seen[d] /\ ~failed[d] /\ ~Disturbed(d) => Newest(d)

\* A change the watcher saw is taken up, or its failure reported: no chain of
\* timers, scans and imports loses it.
ChangesTakenUp ==
  \A d \in Dirs :
    Alone(d) /\ seen[d] ~> Newest(d) \/ failed[d] \/ Disturbed(d) \/ ~seen[d]
=============================================================================
