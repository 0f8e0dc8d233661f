---------------------------- MODULE LayeredConfig ----------------------------
(***************************************************************************)
(* The server's configuration: the user's file, shared by all projects,    *)
(* under the project's own file; what the server holds of them in memory;  *)
(* the requests that change it; and the observer threads that notice edits *)
(* (config/manager.py, config/providers.py, config/schema.py).             *)
(*                                                                         *)
(* Handlers run on the event loop without giving way, so that one load or  *)
(* save is in progress at a time.  Files change at any step of it: people  *)
(* edit them, other servers save the shared one.                           *)
(*                                                                         *)
(* A configuration maps fields to values.  The fields are the providers    *)
(* (value: the key), the workloads (value: the provider), one of the       *)
(* slots that name a workload, and one scalar, the port.                   *)
(*                                                                         *)
(* NullHides, KeepNull, TrustSaved and Unchecked are likely defects of the *)
(* operator that follows them.                                             *)
(***************************************************************************)
EXTENDS Naturals

CONSTANTS
    Providers, Workloads, Slot, Port,  \* the fields
    Keys, Ports,                       \* values of providers and of Port
    StdPort,                           \* the schema's default
    Absent, Unset,                     \* no such field; JSON null
    Remove,                            \* in a request: null for a field
    Defaults,                          \* get_default_config
    Requests,                          \* updates that clients send
    Drafts,                            \* contents that editors write
    Broken, Missing,                   \* not JSON; no file
    MaxEdits                           \* bound: changes of a file by others

Fields == Providers \cup Workloads \cup {Slot, Port}
Layers == {"global", "local"}

ASSUME FieldAssumption ==
    /\ Providers \cap Workloads = {}
    /\ Slot \notin Providers \cup Workloads \cup {Port}
    /\ Port \notin Providers \cup Workloads
    /\ {Absent, Unset, Remove} \cap (Providers \cup Workloads) = {}
    /\ Absent # Unset /\ Remove \notin {Absent, Unset}
    /\ {Absent, Unset} \cap (Keys \cup Ports) = {}

Domain(f) == {Absent} \cup (IF f \in Providers THEN Keys \cup {Unset}
                            ELSE IF f \in Workloads THEN Providers \cup {Unset}
                            ELSE IF f = Slot THEN Workloads \cup {Unset}
                            ELSE Ports)
Values == UNION {Domain(f) : f \in Fields}
Configs == {c \in [Fields -> Values] : \A f \in Fields : c[f] \in Domain(f)}
Updates == {u \in [Fields -> Values \cup {Remove}] : \A f \in Fields : u[f] \in Domain(f) \cup {Remove}}

ASSUME PortAssumption == StdPort \in Ports
ASSUME BoundAssumption == MaxEdits \in Nat

VARIABLES
    file,      \* of each layer
    cache,     \* _layer_configs
    lastValid, \* _last_valid_config of each layer
    seen,      \* whether _last_mtime is the time of each layer's file
    config,    \* the manager's _config
    task,      \* the load or save in progress
    watching,  \* whether the observers run
    event,     \* layers with an event of the file system to handle
    due,       \* layers whose reload is scheduled
    up,
    missed,    \* layers changed without an event, or between the read or the
               \* creation of the file and its stat
    dirty,     \* whether memory has what no file has: an unsaved change, the port
    edits      \* how many changes there have been

vars == <<file, cache, lastValid, seen, config, task, watching, event, due, up,
          missed, dirty, edits>>
-----------------------------------------------------------------------------
(* deep_merge: null does not hide what is there.                           *)
NullHides(x, y) == IF y = Absent THEN x ELSE y
Over(x, y) == IF y = Absent \/ (y = Unset /\ x # Absent) THEN x ELSE y
Merge(a, b) == [f \in Fields |-> Over(a[f], b[f])]

(* check_referential_integrity.                                            *)
Valid(c) ==
    /\ \A w \in Workloads : c[w] \in Providers => c[c[w]] # Absent
    /\ c[Slot] \in Workloads => c[c[Slot]] # Absent

(* What validate_config returns: the schema's defaults are filled in.      *)
Validated(c) ==
    [c EXCEPT ![Port] = IF @ = Absent THEN StdPort ELSE @,
              ![Slot] = IF @ = Absent THEN Unset ELSE @]

Nothing == [f \in Fields |-> Absent]
DefaultsOf(l) == IF l = "global" THEN Defaults ELSE Nothing
Loaded(l, c) == Validated(Merge(DefaultsOf(l), c))
Loadable(l, c) == Valid(Merge(DefaultsOf(l), c))

ASSUME DefaultsAssumption == Defaults \in Configs /\ Valid(Defaults)
ASSUME CompleteAssumption == Defaults[Slot] # Absent /\ Defaults[Port] # Absent
ASSUME RequestAssumption == Requests \subseteq Updates
ASSUME DraftAssumption == Drafts \subseteq Configs
ASSUME FileAssumption == {Broken, Missing} \cap Configs = {} /\ Broken # Missing

(* deep_merge with a request's values, then apply_deletions.               *)
KeepNull(c, u) == [f \in Fields |-> IF u[f] = Absent THEN c[f] ELSE u[f]]
Apply(c, u) ==
    [f \in Fields |-> IF u[f] = Absent THEN c[f] ELSE IF u[f] = Remove THEN Absent ELSE u[f]]

(* check_deletion_dependencies: what is removed is still referred to.      *)
Referenced(c, u) ==
    \E f \in Providers \cup Workloads :
        u[f] = Remove /\ \E g \in Workloads \cup {Slot} : Apply(c, u)[g] = f

(* rename_entity: the references to the entity follow it.                  *)
Rename(c, old, new) ==
    [f \in Fields |-> IF f = new THEN c[old]
                      ELSE IF f = old THEN Absent
                      ELSE IF f \in Workloads \cup {Slot} /\ c[f] = old THEN new
                      ELSE c[f]]

(* LayeredConfigProvider._merge.                                           *)
Merged(cs) == Merge(cs["global"], cs["local"])
-----------------------------------------------------------------------------
NoTask == [at |-> "none", layer |-> "global", conf |-> Nothing]
Free == up /\ task.at = "none"
Contents == Configs \cup {Broken, Missing}

TypeOK ==
    /\ file \in [Layers -> Contents]
    /\ cache \in [Layers -> Configs] /\ lastValid \in [Layers -> Configs]
    /\ seen \in [Layers -> BOOLEAN]
    /\ config \in Configs
    /\ task \in [at : {"none", "write", "stat", "create", "created", "read", "mark"},
                 layer : Layers, conf : Configs]
    /\ watching \in BOOLEAN /\ up \in BOOLEAN /\ dirty \in BOOLEAN
    /\ event \subseteq Layers /\ due \subseteq Layers /\ missed \subseteq Layers
    /\ edits \in Nat

Init ==
    /\ file = [l \in Layers |-> Missing]
    /\ cache = [l \in Layers |-> Nothing] /\ lastValid = cache
    /\ seen = [l \in Layers |-> FALSE]
    /\ config = Nothing
    /\ task = NoTask
    /\ watching = FALSE /\ up = FALSE /\ dirty = FALSE
    /\ event = {} /\ due = {} /\ missed = {}
    /\ edits = 0
-----------------------------------------------------------------------------
(* A file is edited in place, replaced, damaged or removed.  An edit in    *)
(* place gives an event while it is watched; a replacement may not, and a  *)
(* removal does not.                                                       *)
Edit(l) ==
    /\ edits < MaxEdits
    /\ \E c \in (Drafts \cup {Broken, Missing}) \ {file[l]} :
        /\ file' = [file EXCEPT ![l] = c]
        /\ \/ watching /\ c # Missing /\ event' = event \cup {l}
           \/ event' = event
        /\ missed' = IF \/ event' = event /\ l \notin event
                        \/ task.layer = l /\ task.at \in {"mark", "created"}
                     THEN missed \cup {l} ELSE missed
    /\ seen' = [seen EXCEPT ![l] = FALSE]
    /\ edits' = edits + 1
    /\ UNCHANGED <<cache, lastValid, config, task, watching, due, up, dirty>>

(* ConfigFileHandler._handle_event, in an observer's thread: the time that *)
(* was seen last tells the server's own writes from others'.               *)
Notice(l) ==
    /\ l \in event
    /\ event' = event \ {l}
    /\ due' = IF IF file[l] = Missing THEN l = "global" ELSE seen[l]
              THEN due ELSE due \cup {l}
    /\ UNCHANGED <<file, cache, lastValid, seen, config, task, watching, up, missed,
                   dirty, edits>>

(* _handle_file_change, on the event loop.                                 *)
Reload(l) ==
    /\ Free /\ l \in due
    /\ due' = due \ {l}
    /\ task' = [at |-> "read", layer |-> l, conf |-> Nothing]
    /\ UNCHANGED <<file, cache, lastValid, seen, config, watching, event, up, missed,
                   dirty, edits>>
-----------------------------------------------------------------------------
(* A layer has a new value: LayeredConfigProvider keeps it, and tells the  *)
(* manager once it watches.                                                *)
Emit(l, c) ==
    /\ cache' = [cache EXCEPT ![l] = c]
    /\ config' = IF watching THEN Merged(cache') ELSE config
    /\ dirty' = IF watching THEN FALSE ELSE dirty
    /\ task' = NoTask

(* LocalFileConfigProvider.load: the file is read, if it can be; the user's*)
(* file is created if it is not there, the project's is not;               *)
Read ==
    /\ task.at = "read"
    /\ LET l == task.layer
       IN  \/ /\ file[l] \in Configs
              /\ task' = [task EXCEPT !.at = "mark", !.conf = file[l]]
              /\ missed' = missed \ {l}
              /\ UNCHANGED <<lastValid, cache, config, dirty>>
           \/ /\ file[l] = Missing /\ l = "local"
              /\ lastValid' = [lastValid EXCEPT ![l] = Nothing]
              /\ Emit(l, Nothing)
              /\ missed' = missed \ {l}
           \/ /\ file[l] = Missing /\ l = "global"
              /\ task' = [task EXCEPT !.at = "create", !.conf = Defaults]
              /\ UNCHANGED <<lastValid, cache, config, dirty, missed>>
           \/ /\ file[l] = Broken
              /\ Emit(l, lastValid[l])
              /\ UNCHANGED <<lastValid, missed>>
    /\ UNCHANGED <<file, seen, watching, event, due, up, edits>>

(* its time is noted, and it is merged with the defaults and validated; an *)
(* invalid one raises, which leaves the layer as it was.                   *)
Mark ==
    /\ task.at = "mark"
    /\ LET l == task.layer
           c == Loaded(l, task.conf)
       IN  /\ IF file[l] = Missing
              THEN /\ Emit(l, lastValid[l])
                   /\ UNCHANGED <<seen, lastValid>>
              ELSE /\ seen' = [seen EXCEPT ![l] = TRUE]
                   /\ IF Loadable(l, task.conf)
                      THEN Emit(l, c) /\ lastValid' = [lastValid EXCEPT ![l] = c]
                      ELSE task' = NoTask /\ UNCHANGED <<cache, config, dirty, lastValid>>
    /\ UNCHANGED <<file, watching, event, due, up, missed, edits>>

(* LocalFileConfigProvider.save: the file is replaced, which may fail;     *)
Write ==
    /\ task.at \in {"write", "create"}
    /\ \/ /\ file' = [file EXCEPT !["global"] = Loaded("global", task.conf)]
          /\ seen' = [seen EXCEPT !["global"] = FALSE]
          /\ event' \in {event, IF watching THEN event \cup {"global"} ELSE event}
          /\ missed' = missed \ {"global"}
          /\ task' = [task EXCEPT !.at = IF @ = "write" THEN "stat" ELSE "created"]
       \/ /\ task' = NoTask
          /\ UNCHANGED <<file, event, missed, seen>>
    /\ UNCHANGED <<cache, lastValid, config, watching, due, up, dirty, edits>>

(* its time is noted, as that of whoever has replaced it meanwhile, unless *)
(* it is gone; a request's save loads the file again, a created file is    *)
(* taken to hold the defaults.                                             *)
TrustSaved ==
    /\ task.at \in {"stat", "created"} /\ file["global"] # Missing
    /\ seen' = [seen EXCEPT !["global"] = TRUE]
    /\ lastValid' = [lastValid EXCEPT !["global"] = Loaded("global", task.conf)]
    /\ Emit("global", Loaded("global", task.conf))
    /\ UNCHANGED <<file, watching, event, due, up, missed, edits>>
StatSaved ==
    /\ task.at \in {"stat", "created"}
    /\ \/ /\ file["global"] # Missing
          /\ seen' = [seen EXCEPT !["global"] = TRUE]
          /\ lastValid' = [lastValid EXCEPT !["global"] = Loaded("global", task.conf)]
          /\ \/ /\ task.at = "stat" /\ task' = [task EXCEPT !.at = "read"]
                /\ UNCHANGED <<cache, config, dirty>>
             \/ task.at = "created" /\ Emit("global", task.conf)
       \/ /\ file["global"] = Missing
          /\ task' = NoTask
          /\ UNCHANGED <<seen, lastValid, cache, config, dirty>>
    /\ UNCHANGED <<file, watching, event, due, up, missed, edits>>
-----------------------------------------------------------------------------
(* The manager changes what it holds, and saves all of it.                 *)
Save(c) ==
    /\ config' = c
    /\ dirty' = TRUE
    /\ task' = [at |-> "write", layer |-> "global", conf |-> c]
    /\ UNCHANGED <<file, cache, lastValid, seen, watching, event, due, up, missed, edits>>

(* PUT /api/config.                                                        *)
Unchecked(u) ==
    /\ Free
    /\ Save(Apply(config, u))
Put(u) ==
    /\ Free
    /\ ~Referenced(config, u)
    /\ Valid(Apply(config, u))
    /\ Save(Apply(config, u))

(* POST /api/config/rename.                                                *)
RenameEntity(old, new) ==
    /\ Free
    /\ config[old] # Absent /\ config[new] = Absent
    /\ Valid(Rename(config, old, new))
    /\ Save(Rename(config, old, new))

(* main: a project's file is copied where the user has none, both layers   *)
(* are loaded, and the port is set; an invalid file ends the start.  The   *)
(* observers do not run yet: what changes during the loads is missed just  *)
(* like what changes after them, so that they are one step.                *)
Start ==
    LET first == IF file["global"] = Missing /\ file["local"] # Missing
                 THEN file["local"] ELSE file["global"]
        stored == IF first = Missing THEN Loaded("global", Defaults) ELSE first
        value(l, f) == IF f = Broken \/ f = Missing THEN DefaultsOf(l) ELSE Loaded(l, f)
        loaded == [l \in Layers |-> value(l, IF l = "global" THEN first ELSE file[l])]
    IN  /\ ~up /\ up' = TRUE
        /\ first \in Configs => Loadable("global", first)
        /\ file["local"] \in Configs => Loadable("local", file["local"])
        /\ file' = [file EXCEPT !["global"] = stored]
        /\ cache' = loaded /\ lastValid' = loaded
        /\ seen' = [l \in Layers |-> file'[l] \in Configs]
        /\ \E port \in Ports : config' = [Merged(loaded) EXCEPT ![Port] = port]
        /\ task' = [at |-> "write", layer |-> "global", conf |-> config']
        /\ dirty' = TRUE
        /\ missed' = {}
        /\ UNCHANGED <<watching, event, due, edits>>

(* lifespan.                                                               *)
Watch ==
    /\ Free /\ ~watching
    /\ watching' = TRUE
    /\ UNCHANGED <<file, cache, lastValid, seen, config, task, event, due, up, missed,
                   dirty, edits>>

(* The server ends, orderly or not.                                        *)
End ==
    /\ up /\ up' = FALSE
    /\ watching' = FALSE
    /\ task' = NoTask
    /\ event' = {} /\ due' = {}
    /\ UNCHANGED <<file, cache, lastValid, seen, config, missed, dirty, edits>>

Next ==
    \/ \E l \in Layers : Edit(l) \/ Notice(l) \/ Reload(l)
    \/ Read \/ Mark \/ Write \/ StatSaved
    \/ \E u \in Requests : Put(u)
    \/ \E kind \in {Providers, Workloads} : \E old, new \in kind : RenameEntity(old, new)
    \/ Start \/ Watch \/ End

Spec == Init /\ [][Next]_vars
-----------------------------------------------------------------------------
(* What the server works with has no dangling reference, although each     *)
(* file is validated on its own, and files and requests change it in turn  *)
(* (check_referential_integrity, _merge, rename_entity).                   *)
RefsHold == Valid(config)

(* What the server should hold of a layer: a broken or invalid file leaves *)
(* it as it was.                                                           *)
Readable(l) == file[l] \in Configs /\ Loadable(l, file[l])
Says(l) == IF Readable(l) THEN Loaded(l, file[l])
           ELSE IF l = "local" /\ file[l] = Missing THEN Nothing
           ELSE cache[l]

Quiet == event = {} /\ due = {} /\ missed = {}

(* When nothing is under way the server works with what the files say, the *)
(* project's one being there or not: an edit is not lost on the way from   *)
(* the observer's thread, whatever saves and reloads it meets.  Excepted   *)
(* (missed) are changes that gave no event, and those between the read of  *)
(* a file, or its creation with the defaults, and its stat.                *)
Converged ==
    Free /\ watching /\ ~dirty /\ Quiet => config = Merge(Says("global"), Says("local"))

(* A request leaves the user's other keys alone: what is about to be       *)
(* written over the user's file has each key of it that the request does   *)
(* not name, and the same one, although memory has been put together from  *)
(* several loads and saves and the project's layer may name the provider   *)
(* without a key (deep_merge's null).  Excepted is a provider to which the *)
(* project's layer gives a key: that one is written over the user's.       *)
KeysKept ==
    [][\A u \in Requests :
         Put(u) /\ watching /\ ~dirty /\ Quiet /\ Readable("global") =>
            \A p \in Providers :
               file["global"][p] \in Keys /\ u[p] = Absent /\ Says("local")[p] \notin Keys
                 => task'.conf[p] = file["global"][p]]_vars
=============================================================================
