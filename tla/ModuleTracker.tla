----------------------------- MODULE ModuleTracker -----------------------------
(***************************************************************************)
(* How the server follows the file system: an update request names paths,  *)
(* the server looks which of them exist (server/requestHandler.ml), has    *)
(* Buck rebuild the link tree (server/buildSystem.ml), or defers the       *)
(* events if the build fails (server/serverState.ml), and lets the module  *)
(* tracker (analysis/moduleTracker.ml, the eager one) work out which       *)
(* modules are new, changed or gone.  The file system goes on changing     *)
(* between these steps.                                                    *)
(***************************************************************************)
EXTENDS Naturals, Sequences, SequencesExt, FiniteSets

CONSTANTS
  Sources,        \* files of the source tree
  TARGETS,        \* the one of them that says what is built
  CriticalFiles,  \* those the server stops for
  Targets(_),     \* what each version of TARGETS links: artifact -> source
  ArtifactOrder,  \* all artifacts, in the order of their paths
  Qualifier(_),   \* the module of an artifact
  Parent(_),      \* and the package that module is in, or NULL
  Priority(_),    \* same_module_compare: the lowest shadows the others
  Internal(_),    \* is_internal_path, of a source or of a link that leads nowhere
  Versions,       \* bound: contents of a file, positive numbers
  MaxChanges,     \* bound: changes of the file system
  MaxFailures,    \* bound: failed builds
  NULL

Artifacts == Range(ArtifactOrder)
Qualifiers == {Qualifier(a) : a \in Artifacts} \cup ({Parent(a) : a \in Artifacts} \ {NULL})
Absent == 0
Contents == Versions \cup {Absent, 1}

(* moduleTracker.ml:401-405: "same_module_compare is only zero when the    *)
(* module paths are the same", that is, the raw paths: "We don't require   *)
(* the ModulePaths to be the same because filesystem changes and race      *)
(* conditions can lead to the is_external field - which requires reading a *)
(* symlink - being different for ModulePaths created at different times."  *)
ASSUME PriorityAssumption ==
  \A a, b \in Artifacts :
    /\ Priority(a) \in Nat
    /\ Qualifier(a) = Qualifier(b) /\ Priority(a) = Priority(b) => a = b

ASSUME SourcesAssumption ==
  /\ TARGETS \in Sources
  /\ \A v \in Contents : Targets(v) \in [DOMAIN Targets(v) -> Sources] /\ DOMAIN Targets(v) \subseteq Artifacts

ASSUME ArtifactsAssumption ==
  /\ ArtifactOrder \in Seq(Artifacts) /\ NULL \notin Seq(Artifacts)
  /\ \A a \in Artifacts : Qualifier(a) # NULL
  /\ "implicit" \notin Artifacts /\ "not found" \notin Artifacts

VARIABLES
  disk,      \* the content of each source, or Absent
  pending,   \* paths that watchman has yet to report
  status,    \* idle, building, updating, or how the server ended
  events,    \* the source path events of the request under way
  current,   \* those that are not deferred ones
  deferred,  \* BuildFailure.deferred_events
  build_map, \* artifact -> source
  rebuilt,   \* the artifact events of the rebuild
  explicit,  \* ExplicitModules: the paths of a module, NULL if it never had one
  checked,   \* the should_type_check field of the module path that is kept for an artifact
  implicit,  \* ImplicitModules: the children of a package
  loaded,    \* what the environments hold of a module: its module path and the content
  mixed,     \* history: artifacts whose last batch had events of both kinds
  changes, failures

vars == <<disk, pending, status, events, current, deferred, build_map, rebuilt,
          explicit, checked, implicit, loaded, mixed, changes, failures>>
tracker == <<explicit, checked, implicit, loaded, mixed>>

Event(kind, path) == [kind |-> kind, path |-> path]
Sorted(S) == FoldLeft(LAMBDA seq, a : IF a \in S THEN Append(seq, a) ELSE seq, <<>>, ArtifactOrder)

-----------------------------------------------------------------------------
(* The build: what Buck links, and how two build maps differ *)

construct_build_map(d) ==
  LET t == Targets(d[TARGETS]) IN [a \in {x \in DOMAIN t : d[t[x]] # Absent} |-> t[a]]

lookup_artifact(map, source) == {a \in DOMAIN map : map[a] = source}

difference(original, new) ==
  {Event("Deleted", a) : a \in DOMAIN original \ DOMAIN new}
    \cup {Event("CreatedOrChanged", a) :
            a \in {x \in DOMAIN new : x \notin DOMAIN original \/ original[x] # new[x]}}

(* What is read through a link: a link may be dead. *)
ContentOf(a) == IF a \in DOMAIN build_map THEN disk[build_map[a]] ELSE Absent

(* The field of a module path that is created now: is_internal_path follows *)
(* the link, and looks at the link itself if that fails.                    *)
should_type_check(a) == Internal(IF ContentOf(a) # Absent THEN build_map[a] ELSE a)

-----------------------------------------------------------------------------
(* ExplicitModules and ImplicitModules.  A module path of a list is its     *)
(* artifact and the field that checked has for it: a list has an artifact  *)
(* once, and the field is set when the artifact enters the list.           *)

(* The first place whose path does not come before a. *)
Place(a, paths) ==
  CHOOSE n \in 1 .. Len(paths) + 1 :
    /\ \A m \in 1 .. n - 1 : Priority(paths[m]) < Priority(a)
    /\ n <= Len(paths) => Priority(paths[n]) >= Priority(a)

insert_module_path(a, paths) ==
  IF a \in Range(paths) THEN paths ELSE InsertAt(paths, Place(a, paths), a)

(* "Duplicate entry detected. Do nothing": the old field stays. *)
insert_should_type_check(a, paths, flags) ==
  IF a \in Range(paths) THEN flags ELSE [flags EXCEPT ![a] = should_type_check(a)]

remove_module_path(a, paths) ==
  IF a \in Range(paths) THEN RemoveAt(paths, Place(a, paths)) ELSE paths

None == [kind |-> "None"]
Update(kind, path) == [kind |-> kind, path |-> path]
IllegalState == [kind |-> "Illegal"]

(* merge_updates: one update per module, or a failure. *)
merge(before, update) ==
  CASE update = None -> before
    [] before = None -> update
    [] before = IllegalState -> before
    [] update.kind = "New" /\ before.kind = "Delete" -> Update("Changed", update.path)
    [] update.kind = "Changed" /\ before.kind = "Changed" -> update
    [] update.kind = "Changed" /\ before.kind = "New" -> Update("New", update.path)
    [] update.kind = "Delete" /\ before.kind = "Changed" -> update
    [] OTHER -> IllegalState

(* mutant: a path that was not there makes the module new *)
ProcessNewOrChangedNew(paths, flags, a) ==
  IF paths = NULL \/ a \notin Range(paths)
  THEN [paths |-> IF paths = NULL THEN <<a>> ELSE insert_module_path(a, paths),
        flags |-> [flags EXCEPT ![a] = should_type_check(a)], update |-> Update("New", a)]
  ELSE [paths |-> paths, flags |-> flags, update |-> IF Head(paths) = a THEN Update("Changed", a) ELSE None]

(* process_module_path_update, for one qualifier.  Removing a module leaves *)
(* an empty list in the table.  The module is changed if the first path of *)
(* the list equals the one of the event, its field included.               *)
ProcessNewOrChanged(paths, flags, a) ==
  IF paths = NULL
  THEN [paths |-> <<a>>, flags |-> [flags EXCEPT ![a] = should_type_check(a)], update |-> Update("New", a)]
  ELSE LET new == insert_module_path(a, paths)
           kept == insert_should_type_check(a, paths, flags)
       IN [paths |-> new, flags |-> kept,
           update |-> IF Head(new) = a /\ kept[a] = should_type_check(a) THEN Update("Changed", a) ELSE None]

(* mutant: removing a path that is not the last one changes nothing *)
ProcessRemoveQuietly(paths, a) ==
  IF paths = NULL \/ paths = <<>> THEN [paths |-> paths, update |-> None]
  ELSE LET new == remove_module_path(a, paths)
       IN [paths |-> new, update |-> IF new = <<>> THEN Update("Delete", NULL) ELSE None]

ProcessRemove(paths, a) ==
  IF paths = NULL \/ paths = <<>> THEN [paths |-> paths, update |-> None]
  ELSE LET new == remove_module_path(a, paths)
       IN [paths |-> new,
           update |-> CASE new = <<>> -> Update("Delete", NULL)
                        [] new # <<>> /\ Head(new) = Head(paths) -> None
                        [] OTHER -> Update("Changed", Head(new))]

process_module_path_update(state, event) ==
  LET q == Qualifier(event.path)
      r == IF event.kind = "Deleted" THEN ProcessRemove(state.paths[q], event.path)
           ELSE ProcessNewOrChanged(state.paths[q], state.flags, event.path)
  IN [paths |-> [state.paths EXCEPT ![q] = r.paths],
      flags |-> IF event.kind = "Deleted" THEN state.flags ELSE r.flags,
      updates |-> [state.updates EXCEPT ![q] = merge(@, r.update)]]

(* The children of a package after the events. *)
ImplicitAfter(children, event) ==
  LET q == Parent(event.path)
  IN IF q = NULL THEN children
     ELSE [children EXCEPT ![q] = IF event.kind = "Deleted" THEN @ \ {event.path} ELSE @ \cup {event.path}]

(* to_update: a package comes or goes. *)
ImplicitChanged(before, after) == {q \in Qualifiers : (before[q] = {}) # (after[q] = {})}

(* look_up_qualifier, and what is behind it *)
look_up_qualifier(paths, children, q) ==
  CASE paths[q] \notin {NULL, <<>>} -> Head(paths[q])
    [] paths[q] \in {NULL, <<>>} /\ children[q] # {} -> "implicit"
    [] OTHER -> "not found"

Load(a, flags) ==
  [path |-> a, checked |-> a \in Artifacts /\ flags[a], content |-> IF a \in Artifacts THEN ContentOf(a) ELSE Absent]

-----------------------------------------------------------------------------

(* Layouts.Eager.create after a first build. *)
Exists(a) == ContentOf(a) # Absent
PathsOf(q) ==
  FoldLeft(LAMBDA paths, a : insert_module_path(a, paths), <<>>,
           Sorted({a \in Artifacts : Qualifier(a) = q /\ Exists(a)}))
ChildrenOf(q) == {a \in Artifacts : Parent(a) = q /\ Exists(a)}

Init ==
  /\ disk \in [Sources -> {Absent, 1}] /\ disk[TARGETS] # Absent
  /\ build_map = construct_build_map(disk)
  /\ explicit = [q \in Qualifiers |-> IF PathsOf(q) = <<>> THEN NULL ELSE PathsOf(q)]
  /\ checked = [a \in Artifacts |-> should_type_check(a)]
  /\ implicit = [q \in Qualifiers |-> ChildrenOf(q)]
  /\ loaded = [q \in Qualifiers |-> Load(look_up_qualifier(explicit, implicit, q), checked)]
  /\ pending = {} /\ status = "idle" /\ events = {} /\ current = {} /\ deferred = {}
  /\ rebuilt = {} /\ mixed = {} /\ changes = 0 /\ failures = 0

(* Somebody writes or removes a file; watchman will say so. *)
ChangeFile ==
  /\ changes < MaxChanges /\ status \notin {"stopped", "illegal"}
  /\ \E s \in Sources : \E v \in Versions \cup {Absent} :
       /\ v # disk[s] /\ disk' = [disk EXCEPT ![s] = v]
       /\ pending' = pending \cup {s}
  /\ changes' = changes + 1
  /\ UNCHANGED <<status, events, current, deferred, build_map, rebuilt, tracker, failures>>

create_source_path_event(s) ==
  Event(IF disk[s] # Absent THEN "CreatedOrChanged" ELSE "Deleted", s)

(* process_incremental_update_request, up to the build. *)
ReceiveUpdate ==
  /\ status = "idle"
  /\ \E paths \in SUBSET pending \ {{}} :
       /\ pending' = pending \ paths
       /\ IF paths \cap CriticalFiles # {}
          THEN status' = "stopped" /\ UNCHANGED <<events, current>>
          ELSE /\ status' = "building"
               /\ current' = {create_source_path_event(s) : s \in paths}
               /\ events' = deferred \cup current'
  /\ UNCHANGED <<disk, deferred, build_map, rebuilt, tracker, changes, failures>>

(* BuildSystem.update: which events need a build. *)
NeedsBuild ==
  \/ \E e \in events : e.path = TARGETS
  \/ \E e \in events : e.kind = "Deleted"
  \/ \E e \in events : lookup_artifact(build_map, e.path) = {}

SkipRebuild ==
  /\ status = "building" /\ ~ NeedsBuild
  /\ status' = "updating" /\ rebuilt' = {} /\ deferred' = {}
  /\ UNCHANGED <<disk, pending, events, current, build_map, tracker, changes, failures>>

(* The build succeeds, the links are updated, BuildFailure.clear. *)
Rebuild ==
  /\ status = "building" /\ NeedsBuild
  /\ build_map' = construct_build_map(disk)
  /\ rebuilt' = difference(build_map, build_map')
  /\ status' = "updating" /\ deferred' = {}
  /\ UNCHANGED <<disk, pending, events, current, tracker, changes, failures>>

(* mutant: the last failure replaces the ones before *)
BuckErrorForgets ==
  /\ status = "building" /\ NeedsBuild /\ failures < MaxFailures
  /\ deferred' = current
  /\ status' = "idle" /\ failures' = failures + 1
  /\ UNCHANGED <<disk, pending, events, current, build_map, rebuilt, tracker, changes>>

(* BuildFailure.update: the current events join the deferred ones. *)
BuckError ==
  /\ status = "building" /\ NeedsBuild /\ failures < MaxFailures
  /\ deferred' = deferred \cup current
  /\ status' = "idle" /\ failures' = failures + 1
  /\ UNCHANGED <<disk, pending, events, current, build_map, rebuilt, tracker, changes>>

(* LinkTreeConstructionError: the server does not know how to go on. *)
LinkTreeError ==
  /\ status = "building" /\ NeedsBuild
  /\ difference(build_map, construct_build_map(disk)) # {}
  /\ status' = "stopped"
  /\ UNCHANGED <<disk, pending, events, current, deferred, build_map, rebuilt, tracker, changes, failures>>

(* The artifact events of a batch: those of the rebuild and those of the   *)
(* sources that have an artifact now, without duplicates, in the order of  *)
(* kinds and paths.                                                        *)
ArtifactEvents ==
  rebuilt \cup UNION {{Event(e.kind, a) : a \in lookup_artifact(build_map, e.path)} : e \in events}

Batch(kind) ==
  LET seq == Sorted({e.path : e \in {x \in ArtifactEvents : x.kind = kind}})
  IN [n \in DOMAIN seq |-> Event(kind, seq[n])]

dedup_and_sort == Batch("CreatedOrChanged") \o Batch("Deleted")

(* The paths of all modules, their fields and their updates, and the       *)
(* children, after a batch.                                                *)
update_module_paths ==
  FoldLeft(process_module_path_update,
           [paths |-> explicit, flags |-> checked, updates |-> [q \in Qualifiers |-> None]], dedup_and_sort)
update_children == FoldLeft(ImplicitAfter, implicit, dedup_and_sort)

(* process_successful_rebuild and Layouts.update; the environments load a  *)
(* module that is reported anew, and ask the tracker for it otherwise.     *)
UpdateModules ==
  LET result == update_module_paths
      children == update_children
      Kinds(a) == {e.kind : e \in {x \in ArtifactEvents : x.path = a}}
      touched == {e.path : e \in ArtifactEvents}
  IN
  /\ status = "updating"
  /\ mixed' = (mixed \ touched) \cup {a \in touched : Cardinality(Kinds(a)) = 2}
  /\ explicit' = result.paths /\ checked' = result.flags
  /\ IF \E q \in Qualifiers : result.updates[q] = IllegalState
     THEN status' = "illegal" /\ UNCHANGED <<implicit, loaded>>
     ELSE /\ status' = "idle"
          /\ implicit' = children
          /\ loaded' = [q \in Qualifiers |->
               CASE result.updates[q].kind \in {"New", "Changed"} -> Load(result.updates[q].path, result.flags)
                 [] result.updates[q].kind = "Delete" \/ q \in ImplicitChanged(implicit, children)
                      -> Load(look_up_qualifier(result.paths, children, q), result.flags)
                 [] OTHER -> loaded[q]]
  /\ events' = {} /\ current' = {} /\ rebuilt' = {}
  /\ UNCHANGED <<disk, pending, deferred, build_map, changes, failures>>

Next ==
  \/ ChangeFile \/ ReceiveUpdate \/ SkipRebuild \/ Rebuild \/ BuckError \/ LinkTreeError
  \/ UpdateModules

Spec == Init /\ [][Next]_vars

-----------------------------------------------------------------------------

(* Everything that was reported has been dealt with. *)
Quiet == status = "idle" /\ pending = {} /\ deferred = {}

(* The modules that the last mixed batch of an artifact may have left wrong. *)
Disturbed == {Qualifier(a) : a \in mixed} \cup {Parent(a) : a \in mixed}

(***************************************************************************)
(* Incremental is as good as from scratch: when the server is up to date,  *)
(* build map and tracker are those that a new server would create, however *)
(* the changes interleaved with looking at the files, with the builds and  *)
(* with their failures.  Except for modules of which one batch had a path  *)
(* both as created and as deleted, and up to should_type_check, of which   *)
(* the code says no such thing (moduleTracker.ml:401-405).                 *)
(***************************************************************************)
TrackerExact ==
  Quiet =>
    /\ build_map = construct_build_map(disk)
    /\ \A q \in Qualifiers \ Disturbed :
         /\ explicit[q] = PathsOf(q) \/ (explicit[q] = NULL /\ PathsOf(q) = <<>>)
         /\ implicit[q] = ChildrenOf(q)

(* The module path that is kept is not the one a new server would create:  *)
(* the link has moved between internal and external sources, or was dead.  *)
Outdated(a) == a \in Artifacts /\ checked[a] # should_type_check(a)

(***************************************************************************)
(* The module updates that the tracker reports are enough, up to what an   *)
(* outdated module path hides: when the server is up to date, the          *)
(* environments hold of every module the path that a lookup would give,    *)
(* and they hold it with the content that the file has now, unless the     *)
(* path that was found is outdated (an event of it equals no path of the   *)
(* list, moduleTracker.ml:573, and is taken for one of a shadowed file).   *)
(***************************************************************************)
ModulesFresh ==
  Quiet =>
    \A q \in Qualifiers \ Disturbed :
      LET found == look_up_qualifier(explicit, implicit, q)
      IN loaded[q].path = found /\ (~ Outdated(found) => loaded[q] = Load(found, checked))

(***************************************************************************)
(* merge_updates never fails on a batch that has one event per path.       *)
(***************************************************************************)
IllegalOnlyIfMixed == status = "illegal" => mixed # {}

(***************************************************************************)
(* moduleTracker.ml:521, "Illegal state: delete after new module": the     *)
(* failures of merge_updates are for states that cannot be.                *)
(***************************************************************************)
NoIllegalState == status # "illegal"

================================================================================
