------------------------ MODULE LayeredConfig_proofs ------------------------
(***************************************************************************)
(* Proofs about LayeredConfig, for any providers, workloads, requests,     *)
(* drafts and bounds: what the server works with has no dangling reference,*)
(* is what the files say when nothing is under way, and keeps the keys.    *)
(*                                                                         *)
(* A reference is checked in one layer at a time, and before a request is  *)
(* saved; the invariant carries it through the merges: the cached and the  *)
(* last valid value of each layer, and what a save is about to write, are  *)
(* valid too.  InSync, further down, says what will load a file that the   *)
(* server has not loaded yet.                                              *)
(***************************************************************************)
EXTENDS LayeredConfig, TLAPS

Saving == {"write", "stat", "create", "created"}

AllValid ==
    /\ Valid(config)
    /\ \A l \in Layers : Valid(cache[l]) /\ Valid(lastValid[l])
    /\ task.at \in Saving => Valid(task.conf)

IInv == TypeOK /\ AllValid
-----------------------------------------------------------------------------
LEMMA ConfigType ==
    ASSUME NEW c, DOMAIN c = Fields /\ c = [f \in Fields |-> c[f]],
           \A f \in Fields : c[f] \in Domain(f)
    PROVE  c \in Configs
<1>1. \A f \in Fields : c[f] \in Values
  BY DEF Values
<1>2. c \in [Fields -> Values]
  BY <1>1
<1>3. QED
  BY <1>2 DEF Configs

LEMMA MergeType == ASSUME NEW a \in Configs, NEW b \in Configs PROVE Merge(a, b) \in Configs
<1>1. \A f \in Fields : Merge(a, b)[f] \in Domain(f)
  BY DEF Merge, Over, Configs
<1>2. Merge(a, b) = [f \in Fields |-> Merge(a, b)[f]] /\ DOMAIN Merge(a, b) = Fields
  BY DEF Merge
<1>3. QED
  BY <1>1, <1>2, ConfigType

LEMMA NothingType == Nothing \in Configs /\ Valid(Nothing)
<1>1. \A f \in Fields : Nothing[f] \in Domain(f)
  BY DEF Nothing, Domain
<1>2. Nothing = [f \in Fields |-> Nothing[f]] /\ DOMAIN Nothing = Fields
  BY DEF Nothing
<1>3. Valid(Nothing)
  BY FieldAssumption DEF Nothing, Valid, Fields
<1>4. QED
  BY <1>1, <1>2, <1>3, ConfigType

LEMMA DefaultsType == ASSUME NEW l PROVE DefaultsOf(l) \in Configs /\ Valid(DefaultsOf(l))
  BY NothingType, DefaultsAssumption DEF DefaultsOf

LEMMA SlotAndPort ==
    /\ Slot \in Fields /\ Port \in Fields /\ Slot # Port
    /\ Domain(Slot) = {Absent, Unset} \cup Workloads /\ Domain(Port) = {Absent} \cup Ports
    /\ \A w \in Workloads : w \in Fields /\ w # Slot /\ w # Port
                            /\ Domain(w) = {Absent, Unset} \cup Providers
    /\ \A p \in Providers : p \in Fields /\ p # Slot /\ p # Port
                            /\ Domain(p) = {Absent, Unset} \cup Keys
  BY FieldAssumption DEF Fields, Domain

LEMMA ValidatedType == ASSUME NEW c \in Configs PROVE Validated(c) \in Configs
<1>1. c \in [Fields -> Values] /\ \A f \in Fields : c[f] \in Domain(f)
  BY DEF Configs
<1>2. Validated(c) = [f \in Fields |-> IF f = Slot THEN IF c[f] = Absent THEN Unset ELSE c[f]
                                       ELSE IF f = Port THEN IF c[f] = Absent THEN StdPort ELSE c[f]
                                       ELSE c[f]]
  BY <1>1, SlotAndPort DEF Validated
<1>3. \A f \in Fields : Validated(c)[f] \in Domain(f)
  BY <1>1, <1>2, SlotAndPort, PortAssumption
<1>4. Validated(c) = [f \in Fields |-> Validated(c)[f]] /\ DOMAIN Validated(c) = Fields
  BY <1>2
<1>5. QED
  BY <1>3, <1>4, ConfigType

LEMMA LoadedType == ASSUME NEW l, NEW c \in Configs PROVE Loaded(l, c) \in Configs
  BY MergeType, ValidatedType, DefaultsType DEF Loaded

LEMMA PortType ==
    ASSUME NEW c \in Configs, NEW port \in Ports PROVE [c EXCEPT ![Port] = port] \in Configs
<1> DEFINE d == [c EXCEPT ![Port] = port]
<1>1. c \in [Fields -> Values] /\ \A f \in Fields : c[f] \in Domain(f)
  BY DEF Configs
<1>2. d = [f \in Fields |-> IF f = Port THEN port ELSE c[f]]
  BY <1>1
<1>3. \A f \in Fields : d[f] \in Domain(f)
  BY <1>1, <1>2, SlotAndPort
<1>4. d = [f \in Fields |-> d[f]] /\ DOMAIN d = Fields
  BY <1>2
<1> HIDE DEF d
<1>5. d \in Configs
  BY <1>3, <1>4, ConfigType
<1>6. QED
  BY <1>5 DEF d

LEMMA ApplyType == ASSUME NEW c \in Configs, NEW u \in Updates PROVE Apply(c, u) \in Configs
<1>1. \A f \in Fields : u[f] \in Domain(f) \cup {Remove} /\ c[f] \in Domain(f)
  BY DEF Updates, Configs
<1>2. \A f \in Fields : Absent \in Domain(f)
  BY DEF Domain
<1>3. \A f \in Fields : Apply(c, u)[f] \in Domain(f)
  BY <1>1, <1>2 DEF Apply
<1>4. Apply(c, u) = [f \in Fields |-> Apply(c, u)[f]] /\ DOMAIN Apply(c, u) = Fields
  BY DEF Apply
<1>5. QED
  BY <1>3, <1>4, ConfigType

LEMMA RenameType ==
    ASSUME NEW c \in Configs, NEW kind \in {Providers, Workloads}, NEW old \in kind, NEW new \in kind
    PROVE  Rename(c, old, new) \in Configs
<1>1. \A f \in Fields : c[f] \in Domain(f) /\ Absent \in Domain(f)
  BY DEF Configs, Domain
<1>2. Domain(new) = Domain(old) /\ old \in Fields
  BY SlotAndPort
<1>3. ASSUME NEW f \in Workloads \cup {Slot}, c[f] = old PROVE new \in Domain(f)
  <2>1. CASE f \in Workloads
    <3>1. old \in {Absent, Unset} \cup Providers
      BY <1>1, <1>3, <2>1, SlotAndPort
    <3>2. kind = Providers
      BY <3>1, FieldAssumption
    <3>3. QED
      BY <2>1, <3>2, SlotAndPort
  <2>2. CASE f = Slot
    <3>1. old \in {Absent, Unset} \cup Workloads
      BY <1>1, <1>3, <2>2, SlotAndPort
    <3>2. kind = Workloads
      BY <3>1, FieldAssumption
    <3>3. QED
      BY <2>2, <3>2, SlotAndPort
  <2>3. QED
    BY <2>1, <2>2
<1>4. \A f \in Fields : Rename(c, old, new)[f] \in Domain(f)
  BY <1>1, <1>2, <1>3 DEF Rename
<1>5. /\ Rename(c, old, new) = [f \in Fields |-> Rename(c, old, new)[f]]
      /\ DOMAIN Rename(c, old, new) = Fields
  BY DEF Rename
<1>6. QED
  BY <1>4, <1>5, ConfigType
-----------------------------------------------------------------------------
(* What is valid in each layer is valid in both together: null and missing *)
(* fields hide nothing.                                                    *)
LEMMA MergeValid == ASSUME NEW a, NEW b, Valid(a), Valid(b) PROVE Valid(Merge(a, b))
<1>1. \A f \in Fields : /\ Merge(a, b)[f] \in {a[f], b[f]}
                        /\ a[f] # Absent \/ b[f] # Absent => Merge(a, b)[f] # Absent
  BY DEF Merge, Over
<1>2. \A w \in Workloads : w \in Fields
  BY SlotAndPort
<1>3. \A p \in Providers : p \in Fields
  BY SlotAndPort
<1>4. QED
  BY <1>1, <1>2, <1>3, SlotAndPort DEF Valid

LEMMA ValidatedValid == ASSUME NEW c \in Configs, Valid(c) PROVE Valid(Validated(c))
<1>1. \A f \in Fields : f # Slot /\ f # Port => Validated(c)[f] = c[f]
  BY SlotAndPort DEF Validated, Configs
<1>2. Validated(c)[Slot] \in Workloads => Validated(c)[Slot] = c[Slot]
  BY SlotAndPort, FieldAssumption DEF Validated, Configs
<1>3. QED
  BY <1>1, <1>2, SlotAndPort DEF Valid

LEMMA LoadedValid == ASSUME NEW l, NEW c \in Configs, Loadable(l, c) PROVE Valid(Loaded(l, c))
  BY MergeType, ValidatedValid, DefaultsType DEF Loaded, Loadable

LEMMA ValidLoadable == ASSUME NEW l, NEW c, Valid(c) PROVE Loadable(l, c)
  BY MergeValid, DefaultsType DEF Loadable

LEMMA PortValid ==
    ASSUME NEW c \in Configs, Valid(c), NEW port PROVE Valid([c EXCEPT ![Port] = port])
<1>1. \A f \in Fields : f # Port => [c EXCEPT ![Port] = port][f] = c[f]
  BY DEF Configs
<1>2. QED
  BY <1>1, SlotAndPort DEF Valid
-----------------------------------------------------------------------------
TaskStates == [at : {"none", "write", "stat", "create", "created", "read", "mark"},
               layer : Layers, conf : Configs]

LEMMA NoTaskType == NoTask \in TaskStates /\ NoTask.at = "none"
  BY NothingType DEF NoTask, TaskStates, Layers

LEMMA InitIInv == Init => IInv
<1> SUFFICES ASSUME Init PROVE IInv
  OBVIOUS
<1>1. Nothing \in Configs /\ Valid(Nothing)
  BY NothingType
<1>2. task \in TaskStates /\ task.at = "none"
  BY NoTaskType DEF Init
<1>3. file \in [Layers -> Contents] /\ cache \in [Layers -> Configs] /\ lastValid = cache
  BY <1>1 DEF Init, Contents
<1>4. AllValid
  BY <1>1, <1>2, <1>3 DEF AllValid, Saving, Init
<1>5. TypeOK
  BY <1>1, <1>2, <1>3 DEF TypeOK, Init, TaskStates
<1>6. QED
  BY <1>4, <1>5 DEF IInv

(* A layer's new value, alone and merged with the other.                   *)
LEMMA EmitIInv ==
    ASSUME IInv, NEW l \in Layers, NEW c \in Configs, Valid(c), Emit(l, c)
    PROVE  /\ cache' \in [Layers -> Configs] /\ config' \in Configs /\ dirty' \in BOOLEAN
           /\ task' \in TaskStates /\ task'.at = "none"
           /\ Valid(config') /\ \A m \in Layers : Valid(cache'[m])
<1>1. cache' = [cache EXCEPT ![l] = c] /\ cache \in [Layers -> Configs]
  BY DEF Emit, IInv, TypeOK
<1>2. cache' \in [Layers -> Configs] /\ \A m \in Layers : Valid(cache'[m])
  BY <1>1 DEF IInv, AllValid
<1>3. Merged(cache') \in Configs /\ Valid(Merged(cache'))
  BY <1>2, MergeType, MergeValid DEF Merged, Layers
<1>4. config' \in Configs /\ Valid(config') /\ dirty' \in BOOLEAN
  BY <1>3 DEF Emit, IInv, TypeOK, AllValid
<1>5. task' = NoTask
  BY DEF Emit
<1>6. QED
  BY <1>2, <1>4, <1>5, NoTaskType

LEMMA EventIInv ==
    ASSUME IInv, NEW l \in Layers, Edit(l) \/ Notice(l) \/ Reload(l)
    PROVE  IInv'
<1>1. CASE Edit(l)
  <2>1. PICK c \in (Drafts \cup {Broken, Missing}) : file' = [file EXCEPT ![l] = c]
    BY <1>1 DEF Edit
  <2>2. c \in Contents
    BY <2>1, DraftAssumption DEF Contents
  <2>3. file' \in [Layers -> Contents]
    BY <2>1, <2>2 DEF IInv, TypeOK
  <2>4. event' \subseteq Layers /\ missed' \subseteq Layers /\ edits' \in Nat
    BY <1>1 DEF Edit, IInv, TypeOK
  <2>5. seen' \in [Layers -> BOOLEAN]
    BY <1>1 DEF Edit, IInv, TypeOK
  <2>6. UNCHANGED <<cache, lastValid, config, task, watching, due, up, dirty>>
    BY <1>1 DEF Edit
  <2>7. QED
    BY <2>3, <2>4, <2>5, <2>6 DEF IInv, TypeOK, AllValid
<1>2. CASE Notice(l)
  <2>1. event' \subseteq Layers /\ due' \subseteq Layers
    BY <1>2 DEF Notice, IInv, TypeOK
  <2>2. UNCHANGED <<file, cache, lastValid, seen, config, task, watching, up, missed, dirty, edits>>
    BY <1>2 DEF Notice
  <2>3. QED
    BY <2>1, <2>2 DEF IInv, TypeOK, AllValid
<1>3. CASE Reload(l)
  <2>1. task' = [at |-> "read", layer |-> l, conf |-> Nothing]
    BY <1>3 DEF Reload
  <2>2. task' \in TaskStates /\ task'.at = "read"
    BY <2>1, NothingType DEF TaskStates
  <2>3. due' \subseteq Layers
    BY <1>3 DEF Reload, IInv, TypeOK
  <2>4. UNCHANGED <<file, cache, lastValid, seen, config, watching, event, up, missed, dirty, edits>>
    BY <1>3 DEF Reload
  <2>5. QED
    BY <2>2, <2>3, <2>4 DEF IInv, TypeOK, AllValid, Saving, TaskStates
<1>4. QED
  BY <1>1, <1>2, <1>3

(* The four ways a read can go.                                            *)
LEMMA ReadIInv == ASSUME IInv, Read PROVE IInv'
<1> DEFINE l == task.layer
<1>1. task \in TaskStates /\ l \in Layers
  BY DEF IInv, TypeOK, TaskStates
<1>2. UNCHANGED <<file, seen, watching, event, due, up, edits>> /\ missed' \subseteq Layers
  BY DEF Read, IInv, TypeOK
<1>3. CASE /\ file[l] \in Configs
           /\ task' = [task EXCEPT !.at = "mark", !.conf = file[l]]
           /\ UNCHANGED <<lastValid, cache, config, dirty>>
  <2>1. task' \in TaskStates /\ task'.at = "mark"
    BY <1>1, <1>3 DEF TaskStates
  <2>2. QED
    BY <1>2, <1>3, <2>1 DEF IInv, TypeOK, AllValid, Saving, TaskStates
<1>4. ASSUME NEW m \in Layers, NEW c \in Configs, Valid(c), Emit(m, c),
             lastValid' = lastValid \/ lastValid' = [lastValid EXCEPT ![m] = c]
      PROVE  IInv'
  <2>1. /\ cache' \in [Layers -> Configs] /\ config' \in Configs /\ dirty' \in BOOLEAN
        /\ task' \in TaskStates /\ task'.at = "none"
        /\ Valid(config') /\ \A k \in Layers : Valid(cache'[k])
    BY <1>4, EmitIInv
  <2>2. lastValid' \in [Layers -> Configs] /\ \A k \in Layers : Valid(lastValid'[k])
    BY <1>4 DEF IInv, TypeOK, AllValid
  <2>3. QED
    BY <1>2, <1>4, <2>1, <2>2 DEF IInv, TypeOK, AllValid, Saving, TaskStates
<1>5. CASE lastValid' = [lastValid EXCEPT !["local"] = Nothing] /\ Emit("local", Nothing)
  BY <1>4, <1>5, NothingType DEF Layers
<1>6. CASE /\ task' = [task EXCEPT !.at = "create", !.conf = Defaults]
           /\ UNCHANGED <<lastValid, cache, config, dirty>>
  <2>1. task' \in TaskStates /\ task'.conf = Defaults
    BY <1>1, <1>6, DefaultsAssumption DEF TaskStates
  <2>2. QED
    BY <1>2, <1>6, <2>1, DefaultsAssumption DEF IInv, TypeOK, AllValid, Saving, TaskStates
<1>7. CASE Emit(l, lastValid[l]) /\ UNCHANGED lastValid
  <2>1. lastValid[l] \in Configs /\ Valid(lastValid[l])
    BY <1>1 DEF IInv, TypeOK, AllValid
  <2>2. QED
    BY <1>1, <1>4, <1>7, <2>1
<1>8. QED
  BY <1>3, <1>5, <1>6, <1>7 DEF Read

LEMMA MarkIInv == ASSUME IInv, Mark PROVE IInv'
<1> DEFINE l == task.layer
           c == Loaded(l, task.conf)
<1>1. task \in TaskStates /\ l \in Layers /\ task.conf \in Configs
  BY DEF IInv, TypeOK, TaskStates
<1>2. UNCHANGED <<file, watching, event, due, up, missed, edits>>
  BY DEF Mark
<1>3. seen' \in [Layers -> BOOLEAN]
  BY DEF Mark, IInv, TypeOK
<1>4. CASE task' = NoTask /\ UNCHANGED <<cache, config, dirty, lastValid>>
  BY <1>2, <1>3, <1>4, NoTaskType DEF IInv, TypeOK, AllValid, Saving, TaskStates
<1>5. ASSUME NEW d \in Configs, Valid(d), Emit(l, d),
             lastValid' = lastValid \/ lastValid' = [lastValid EXCEPT ![l] = d]
      PROVE  IInv'
  <2>1. /\ cache' \in [Layers -> Configs] /\ config' \in Configs /\ dirty' \in BOOLEAN
        /\ task' \in TaskStates /\ task'.at = "none"
        /\ Valid(config') /\ \A k \in Layers : Valid(cache'[k])
    BY <1>1, <1>5, EmitIInv
  <2>2. lastValid' \in [Layers -> Configs] /\ \A k \in Layers : Valid(lastValid'[k])
    BY <1>1, <1>5 DEF IInv, TypeOK, AllValid
  <2>3. QED
    BY <1>2, <1>3, <2>1, <2>2 DEF IInv, TypeOK, AllValid, Saving, TaskStates
<1>6. CASE Emit(l, lastValid[l]) /\ UNCHANGED lastValid
  <2>1. lastValid[l] \in Configs /\ Valid(lastValid[l])
    BY <1>1 DEF IInv, TypeOK, AllValid
  <2>2. QED
    BY <1>5, <1>6, <2>1
<1>7. CASE Loadable(l, task.conf) /\ Emit(l, c) /\ lastValid' = [lastValid EXCEPT ![l] = c]
  <2>1. c \in Configs /\ Valid(c)
    BY <1>1, <1>7, LoadedType, LoadedValid
  <2> HIDE DEF c
  <2>2. QED
    BY <1>5, <1>7, <2>1
<1>8. QED
  BY <1>4, <1>6, <1>7 DEF Mark

(* A save writes what memory holds, or the defaults, over the defaults.    *)
LEMMA WriteIInv == ASSUME IInv, Write PROVE IInv'
<1> DEFINE c == Loaded("global", task.conf)
<1>1. task \in TaskStates /\ task.conf \in Configs /\ task.at \in Saving /\ Valid(task.conf)
  BY DEF Write, IInv, TypeOK, TaskStates, AllValid, Saving
<1>2. UNCHANGED <<cache, lastValid, config, watching, due, up, dirty, edits>>
  BY DEF Write
<1>3. CASE task' = NoTask /\ UNCHANGED <<file, event, missed, seen>>
  BY <1>2, <1>3, NoTaskType DEF IInv, TypeOK, AllValid, Saving, TaskStates
<1>4. CASE /\ file' = [file EXCEPT !["global"] = c]
           /\ seen' = [seen EXCEPT !["global"] = FALSE]
           /\ event' \in {event, IF watching THEN event \cup {"global"} ELSE event}
           /\ missed' = missed \ {"global"}
           /\ task' = [task EXCEPT !.at = IF @ = "write" THEN "stat" ELSE "created"]
  <2>1. c \in Configs
    BY <1>1, LoadedType
  <2> HIDE DEF c
  <2>2. file' \in [Layers -> Contents]
    BY <1>4, <2>1 DEF IInv, TypeOK, Contents
  <2>3. seen' \in [Layers -> BOOLEAN] /\ event' \subseteq Layers /\ missed' \subseteq Layers
    BY <1>4 DEF IInv, TypeOK, Layers
  <2>4. task' \in TaskStates /\ task'.conf = task.conf
    BY <1>1, <1>4 DEF TaskStates
  <2>5. QED
    BY <1>1, <1>2, <2>2, <2>3, <2>4 DEF IInv, TypeOK, AllValid, Saving, TaskStates
<1>5. QED
  BY <1>3, <1>4 DEF Write

LEMMA StatIInv == ASSUME IInv, StatSaved PROVE IInv'
<1> DEFINE c == Loaded("global", task.conf)
<1>1. task \in TaskStates /\ task.conf \in Configs /\ task.at \in Saving /\ Valid(task.conf)
  BY DEF StatSaved, IInv, TypeOK, TaskStates, AllValid, Saving
<1>2. UNCHANGED <<file, watching, event, due, up, missed, edits>> /\ seen' \in [Layers -> BOOLEAN]
  BY DEF StatSaved, IInv, TypeOK
<1>3. CASE task' = NoTask /\ UNCHANGED <<seen, lastValid, cache, config, dirty>>
  BY <1>2, <1>3, NoTaskType DEF IInv, TypeOK, AllValid, Saving, TaskStates
<1>4. ASSUME lastValid' = [lastValid EXCEPT !["global"] = c]
      PROVE  lastValid' \in [Layers -> Configs] /\ \A k \in Layers : Valid(lastValid'[k])
  <2>1. c \in Configs /\ Valid(c)
    BY <1>1, LoadedType, ValidLoadable, LoadedValid
  <2> HIDE DEF c
  <2>2. QED
    BY <1>4, <2>1 DEF IInv, TypeOK, AllValid
<1>5. CASE /\ lastValid' = [lastValid EXCEPT !["global"] = c]
           /\ task' = [task EXCEPT !.at = "read"]
           /\ UNCHANGED <<cache, config, dirty>>
  <2>1. task' \in TaskStates /\ task'.at = "read"
    BY <1>1, <1>5 DEF TaskStates
  <2> HIDE DEF c
  <2>2. QED
    BY <1>2, <1>4, <1>5, <2>1 DEF IInv, TypeOK, AllValid, Saving, TaskStates
<1>6. CASE lastValid' = [lastValid EXCEPT !["global"] = c] /\ Emit("global", task.conf)
  <2>1. /\ cache' \in [Layers -> Configs] /\ config' \in Configs /\ dirty' \in BOOLEAN
        /\ task' \in TaskStates /\ task'.at = "none"
        /\ Valid(config') /\ \A k \in Layers : Valid(cache'[k])
    BY <1>1, <1>6, EmitIInv DEF Layers
  <2> HIDE DEF c
  <2>2. QED
    BY <1>2, <1>4, <1>6, <2>1 DEF IInv, TypeOK, AllValid, Saving, TaskStates
<1>7. QED
  BY <1>3, <1>5, <1>6 DEF StatSaved

LEMMA SaveIInv ==
    ASSUME IInv, NEW c \in Configs, Valid(c), Save(c)
    PROVE  IInv'
<1>1. task' \in TaskStates /\ task'.conf = c
  BY DEF Save, TaskStates, Layers
<1>2. QED
  BY <1>1 DEF Save, IInv, TypeOK, AllValid, Saving, TaskStates

(* Both layers are loaded; a file that is invalid ends the start.          *)
LEMMA StartIInv == ASSUME IInv, Start PROVE IInv'
<1> DEFINE first == IF file["global"] = Missing /\ file["local"] # Missing
                    THEN file["local"] ELSE file["global"]
           stored == IF first = Missing THEN Loaded("global", Defaults) ELSE first
           value(l, f) == IF f = Broken \/ f = Missing THEN DefaultsOf(l) ELSE Loaded(l, f)
           loaded == [l \in Layers |-> value(l, IF l = "global" THEN first ELSE file[l])]
<1>1. file["global"] \in Contents /\ file["local"] \in Contents
  BY DEF IInv, TypeOK, Layers
<1>2. first \in Contents
  BY <1>1
<1>3. stored \in Contents
  <2>1. Loaded("global", Defaults) \in Configs
    BY LoadedType, DefaultsAssumption
  <2>2. QED
    BY <1>2, <2>1 DEF Contents
<1>4. /\ first \in Configs => Loadable("global", first)
      /\ file["local"] \in Configs => Loadable("local", file["local"])
  BY DEF Start
<1>5. ASSUME NEW l, NEW f \in Contents, f \in Configs => Loadable(l, f)
      PROVE  value(l, f) \in Configs /\ Valid(value(l, f))
  <2>1. CASE f = Broken \/ f = Missing
    BY <2>1, DefaultsType
  <2>2. CASE ~(f = Broken \/ f = Missing)
    <3>1. f \in Configs /\ Loadable(l, f)
      BY <1>5, <2>2 DEF Contents
    <3>2. QED
      BY <2>2, <3>1, LoadedType, LoadedValid
  <2>3. QED
    BY <2>1, <2>2
<1> HIDE DEF first, stored, value
<1>6. loaded \in [Layers -> Configs] /\ \A l \in Layers : Valid(loaded[l])
  <2>1. value("global", first) \in Configs /\ Valid(value("global", first))
    BY <1>2, <1>4, <1>5
  <2>2. value("local", file["local"]) \in Configs /\ Valid(value("local", file["local"]))
    BY <1>1, <1>4, <1>5
  <2>3. QED
    BY <2>1, <2>2 DEF Layers
<1>7. cache' = loaded /\ lastValid' = loaded
  BY DEF Start, first, value
<1>8. file' \in [Layers -> Contents]
  <2>1. file' = [file EXCEPT !["global"] = stored]
    BY DEF Start, stored, first
  <2>2. QED
    BY <1>3, <2>1 DEF IInv, TypeOK
<1> HIDE DEF loaded
<1>9. Merged(loaded) \in Configs /\ Valid(Merged(loaded))
  BY <1>6, MergeType, MergeValid DEF Merged, Layers
<1>10. PICK port \in Ports : config' = [Merged(loaded) EXCEPT ![Port] = port]
  BY DEF Start, loaded, value, first
<1>11. config' \in Configs /\ Valid(config')
  BY <1>9, <1>10, PortType, PortValid
<1>12. task' = [at |-> "write", layer |-> "global", conf |-> config']
  BY DEF Start
<1>13. task' \in TaskStates /\ task'.conf = config'
  BY <1>11, <1>12 DEF TaskStates, Layers
<1>14. /\ seen' \in [Layers -> BOOLEAN] /\ up' \in BOOLEAN /\ dirty' \in BOOLEAN
       /\ missed' \subseteq Layers
  BY DEF Start
<1>15. UNCHANGED <<watching, event, due, edits>>
  BY DEF Start
<1>16. QED
  BY <1>6, <1>7, <1>8, <1>11, <1>13, <1>14, <1>15 DEF IInv, TypeOK, AllValid, Saving, TaskStates

LEMMA NextIInv == ASSUME IInv, [Next]_vars PROVE IInv'
<1>1. CASE UNCHANGED vars
  BY <1>1 DEF vars, IInv, TypeOK, AllValid
<1>2. ASSUME NEW l \in Layers, Edit(l) \/ Notice(l) \/ Reload(l) PROVE IInv'
  BY <1>2, EventIInv
<1>3. CASE Read \/ Mark \/ Write \/ StatSaved
  BY <1>3, ReadIInv, MarkIInv, WriteIInv, StatIInv
<1>4. ASSUME NEW u \in Requests, Put(u) PROVE IInv'
  <2>1. Apply(config, u) \in Configs
    BY ApplyType, RequestAssumption DEF IInv, TypeOK
  <2>2. QED
    BY <1>4, <2>1, SaveIInv DEF Put
<1>5. ASSUME NEW kind \in {Providers, Workloads}, NEW old \in kind, NEW new \in kind,
             RenameEntity(old, new)
      PROVE  IInv'
  <2>1. Rename(config, old, new) \in Configs
    BY RenameType DEF IInv, TypeOK
  <2>2. QED
    BY <1>5, <2>1, SaveIInv DEF RenameEntity
<1>6. CASE Start
  BY <1>6, StartIInv
<1>7. CASE Watch
  BY <1>7 DEF Watch, IInv, TypeOK, AllValid
<1>8. CASE End
  <2>1. task' \in TaskStates /\ task'.at = "none"
    BY <1>8, NoTaskType DEF End
  <2>2. QED
    BY <1>8, <2>1 DEF End, IInv, TypeOK, AllValid, Saving, TaskStates
<1>9. QED
  BY <1>1, <1>2, <1>3, <1>4, <1>5, <1>6, <1>7, <1>8 DEF Next

(* No reference of the configuration in memory dangles, whatever the files,*)
(* the requests, the renames and the order of loads and saves: the theorem *)
(* of check_referential_integrity and deep_merge.                          *)
THEOREM ReferencesHold == Spec => []RefsHold
<1>1. IInv => RefsHold
  BY DEF IInv, AllValid, RefsHold
<1>2. QED
  BY <1>1, InitIInv, NextIInv, PTL DEF Spec

(* Files, caches and memory keep their shape.                              *)
THEOREM ConfigTypes == Spec => []TypeOK
<1>1. IInv => TypeOK
  BY DEF IInv
<1>2. QED
  BY <1>1, InitIInv, NextIInv, PTL DEF Spec
-----------------------------------------------------------------------------
(* What makes the server follow the files: a layer's cached value is that  *)
(* of its file, or something is still to come that will load it.  An event *)
(* counts only while the time seen last is another, for Notice drops those *)
(* whose time has been seen.                                               *)
Fresh(l) == cache[l] = Says(l)
Waiting(l) == l \in due \cup missed \/ (l \in event /\ ~seen[l])
Coming(l) ==
    \/ Waiting(l)
    \/ task.layer = l /\ task.at \in {"stat", "create", "created", "read", "mark"}

FilesFollowed == up => \A l \in Layers : Fresh(l) \/ Coming(l)
TaskSound ==
    /\ task.at = "mark" => task.layer \in missed \/ file[task.layer] = task.conf
    /\ task.at = "create" => Waiting("global") \/ file["global"] = Missing
    /\ task.at = "created" => "global" \in missed \/ file["global"] = Loaded("global", Defaults)
    /\ task.at \in {"create", "created"} => task.conf = Defaults
    /\ task.at \in Saving => task.layer = "global"
MemoryFollows ==
    /\ up /\ ~watching => dirty
    /\ watching /\ ~dirty => config = Merged(cache)

InSync == FilesFollowed /\ TaskSound /\ MemoryFollows

(* The defaults are a value that loading gives back unchanged.             *)
LEMMA DefaultsLoad == Loaded("global", Loaded("global", Defaults)) = Defaults
<1> DEFINE D == Defaults
<1>1. D \in [Fields -> Values] /\ Slot \in Fields /\ Port \in Fields /\ Slot # Port
  BY DefaultsAssumption, SlotAndPort DEF Configs
<1>2. Merge(D, D) = [f \in Fields |-> D[f]]
  BY DEF Merge, Over
<1>3. Merge(D, D) = D
  BY <1>1, <1>2
<1>4. Validated(D) = D
  BY <1>1, CompleteAssumption DEF Validated
<1>5. QED
  BY <1>3, <1>4 DEF Loaded, DefaultsOf

LEMMA InitInSync == Init => InSync
<1> SUFFICES ASSUME Init PROVE InSync
  OBVIOUS
<1>1. up = FALSE /\ watching = FALSE /\ task.at = "none"
  BY DEF Init, NoTask
<1>2. QED
  BY <1>1 DEF InSync, FilesFollowed, TaskSound, Saving, MemoryFollows

(* A layer's part of the invariant survives a step that leaves what it     *)
(* depends on.                                                             *)
LEMMA LayerKept ==
    ASSUME NEW m, Fresh(m) \/ Coming(m),
           file'[m] = file[m], cache'[m] = cache[m], seen'[m] = seen[m] \/ ~seen'[m],
           m \in event => m \in event', m \in due => m \in due', m \in missed => m \in missed',
           \/ task.layer # m \/ task.at \notin {"stat", "create", "created", "read", "mark"}
           \/ UNCHANGED task
    PROVE  (Fresh(m) \/ Coming(m))'
  BY DEF Fresh, Coming, Waiting, Says, Readable

LEMMA EventInSync ==
    ASSUME TypeOK, InSync, NEW l \in Layers, Edit(l) \/ Notice(l) \/ Reload(l)
    PROVE  InSync'
<1>1. UNCHANGED <<cache, config, watching, up, dirty>>
  BY DEF Edit, Notice, Reload
<1>2. MemoryFollows'
  BY <1>1 DEF InSync, MemoryFollows
<1>3. CASE Edit(l)
  <2>1. PICK c : file' = [file EXCEPT ![l] = c]
    BY <1>3 DEF Edit
  <2>2. UNCHANGED <<task, due>> /\ seen' = [seen EXCEPT ![l] = FALSE]
    BY <1>3 DEF Edit
  <2>3. event \subseteq event' /\ missed \subseteq missed' /\ l \in event' \cup missed'
    BY <1>3 DEF Edit
  <2>4. ~seen'[l]
    BY <2>2 DEF TypeOK
  <2>5. Waiting(l)'
    BY <2>3, <2>4 DEF Waiting
  <2>6. \A m \in Layers : m # l => file'[m] = file[m] /\ seen'[m] = seen[m]
    BY <2>1, <2>2 DEF TypeOK
  <2>7. ASSUME NEW m \in Layers, m # l, Fresh(m) \/ Coming(m) PROVE (Fresh(m) \/ Coming(m))'
    BY <1>1, <2>2, <2>3, <2>6, <2>7, LayerKept
  <2>8. FilesFollowed'
    BY <1>1, <2>5, <2>7 DEF InSync, FilesFollowed, Coming
  <2>9. TaskSound'
    <3>1. task.at \in {"mark", "created"} /\ task.layer = l => l \in missed'
      BY <1>3 DEF Edit
    <3>2. task.layer # l => file'[task.layer] = file[task.layer]
      BY <2>1 DEF TypeOK
    <3>3. l # "global" /\ Waiting("global") => Waiting("global")'
      BY <2>2, <2>3, <2>6 DEF Waiting, Layers
    <3>4. task.at \in Saving => task.layer = "global"
      BY DEF InSync, TaskSound
    <3>5. task.at = "mark" => task.layer \in missed' \/ file'[task.layer] = task.conf
      BY <2>3, <3>1, <3>2 DEF InSync, TaskSound
    <3>6. task.at = "create" => Waiting("global")' \/ file'["global"] = Missing
      BY <2>5, <3>2, <3>3, <3>4 DEF InSync, TaskSound, Saving
    <3>7. task.at = "created" => "global" \in missed' \/ file'["global"] = Loaded("global", Defaults)
      BY <2>3, <3>1, <3>2, <3>4 DEF InSync, TaskSound, Saving
    <3>8. QED
      BY <2>2, <3>4, <3>5, <3>6, <3>7 DEF InSync, TaskSound
  <2>10. QED
    BY <1>2, <2>8, <2>9 DEF InSync
<1>4. CASE Notice(l)
  <2>1. UNCHANGED <<file, seen, task, missed>> /\ due \subseteq due'
    BY <1>4 DEF Notice
  <2>2. event' = event \ {l}
    BY <1>4 DEF Notice
  <2>3. ~seen[l] => l \in due' \/ (l = "global" /\ file[l] = Missing)
    BY <1>4 DEF Notice
  <2>4. ASSUME NEW m \in Layers, Waiting(m)
        PROVE  Waiting(m)' \/ (m = "global" /\ file[m] = Missing)
    BY <2>1, <2>2, <2>3, <2>4 DEF Waiting
  <2>5. file["global"] = Missing => Fresh("global")'
    BY <2>1, FileAssumption DEF Fresh, Says, Readable
  <2>6. ASSUME NEW m \in Layers, Fresh(m) \/ Coming(m) PROVE (Fresh(m) \/ Coming(m))'
    <3>1. CASE Fresh(m)
      BY <1>1, <2>1, <3>1 DEF Fresh, Says, Readable
    <3>2. CASE Waiting(m)
      BY <2>4, <2>5, <3>2 DEF Coming
    <3>3. CASE task.layer = m /\ task.at \in {"stat", "create", "created", "read", "mark"}
      BY <2>1, <3>3 DEF Coming
    <3>4. QED
      BY <2>6, <3>1, <3>2, <3>3 DEF Coming
  <2>7. TaskSound'
    <3>1. task.at = "create" => Waiting("global")' \/ file["global"] = Missing
      BY <2>4 DEF InSync, TaskSound, Layers
    <3>2. QED
      BY <2>1, <3>1 DEF InSync, TaskSound
  <2>8. QED
    BY <1>1, <1>2, <2>6, <2>7 DEF InSync, FilesFollowed
<1>5. CASE Reload(l)
  <2>1. /\ UNCHANGED <<file, seen, event, missed>> /\ due' = due \ {l}
        /\ task.at = "none" /\ task'.at = "read" /\ task'.layer = l
    BY <1>5 DEF Reload, Free
  <2>2. TaskSound'
    BY <2>1 DEF TaskSound, Saving
  <2>3. ASSUME NEW m \in Layers, Fresh(m) \/ Coming(m) PROVE (Fresh(m) \/ Coming(m))'
    <3>1. CASE m = l
      BY <2>1, <3>1 DEF Coming
    <3>2. CASE m # l
      BY <1>1, <2>1, <2>3, <3>2, LayerKept
    <3>3. QED
      BY <3>1, <3>2
  <2>4. QED
    BY <1>1, <1>2, <2>2, <2>3 DEF InSync, FilesFollowed
<1>6. QED
  BY <1>3, <1>4, <1>5

(* A layer's value is replaced: what it must be is what its file says,     *)
(* unless something has been missed.                                       *)
LEMMA EmitInSync ==
    ASSUME TypeOK, InSync, NEW l \in Layers, NEW c, Emit(l, c), task.layer = l,
           UNCHANGED <<watching, event, due, up>>,
           \A m \in Layers : m # l => /\ file'[m] = file[m] /\ seen'[m] = seen[m]
                                      /\ m \in missed => m \in missed',
           \/ l \in missed'
           \/ /\ file'[l] \in Configs /\ Loadable(l, file'[l]) => c = Loaded(l, file'[l])
              /\ l = "local" /\ file'[l] = Missing => c = Nothing
    PROVE  InSync'
<1>1. cache' = [cache EXCEPT ![l] = c] /\ task'.at = "none"
  BY DEF Emit, NoTask
<1>2. MemoryFollows'
  BY DEF Emit, InSync, MemoryFollows
<1>3. cache'[l] = c
  BY <1>1 DEF TypeOK
<1>4. Fresh(l)' \/ Coming(l)'
  <2>1. CASE l \in missed'
    BY <2>1 DEF Coming, Waiting
  <2>2. CASE l \notin missed'
    BY <1>3, <2>2, FileAssumption DEF Fresh, Says, Readable
  <2>3. QED
    BY <2>1, <2>2
<1>5. ASSUME NEW m \in Layers, m # l, Fresh(m) \/ Coming(m) PROVE (Fresh(m) \/ Coming(m))'
  <2>1. cache'[m] = cache[m]
    BY <1>1, <1>5 DEF TypeOK
  <2>2. QED
    BY <1>5, <2>1, LayerKept
<1>6. TaskSound'
  BY <1>1 DEF TaskSound, Saving
<1>7. QED
  BY <1>2, <1>4, <1>5, <1>6 DEF InSync, FilesFollowed

LEMMA ReadInSync == ASSUME TypeOK, InSync, Read PROVE InSync'
<1> DEFINE l == task.layer
<1>1. l \in Layers /\ task \in TaskStates /\ task.at = "read"
  BY DEF Read, TypeOK, TaskStates
<1>2. UNCHANGED <<file, seen, watching, event, due, up, edits>>
  BY DEF Read
<1>3. \A m \in Layers : m # l /\ m \in missed => m \in missed'
  BY DEF Read
<1>4. CASE /\ \/ task' = [task EXCEPT !.at = "mark", !.conf = file[l]]
              \/ /\ file[l] = Missing /\ l = "global"
                 /\ task' = [task EXCEPT !.at = "create", !.conf = Defaults]
           /\ UNCHANGED <<lastValid, cache, config, dirty>>
  <2>1. /\ task'.layer = l
        /\ \/ task'.at = "mark" /\ task'.conf = file[l]
           \/ /\ file[l] = Missing /\ l = "global"
              /\ task'.at = "create" /\ task'.conf = Defaults
    BY <1>1, <1>4 DEF TaskStates
  <2>2. TaskSound'
    BY <1>2, <2>1 DEF TaskSound, Saving
  <2>3. MemoryFollows'
    BY <1>2, <1>4 DEF InSync, MemoryFollows
  <2>4. ASSUME NEW m \in Layers, Fresh(m) \/ Coming(m) PROVE (Fresh(m) \/ Coming(m))'
    <3>1. CASE m = l
      BY <2>1, <3>1 DEF Coming
    <3>2. CASE m # l
      BY <1>2, <1>3, <1>4, <2>4, <3>2, LayerKept
    <3>3. QED
      BY <3>1, <3>2
  <2>5. QED
    BY <1>2, <2>2, <2>3, <2>4 DEF InSync, FilesFollowed
<1>5. CASE file[l] = Missing /\ l = "local" /\ Emit(l, Nothing)
  <2>1. file'[l] \notin Configs
    BY <1>2, <1>5, FileAssumption
  <2>2. QED
    BY <1>1, <1>2, <1>3, <1>5, <2>1, EmitInSync
<1>6. CASE file[l] = Broken /\ Emit(l, lastValid[l])
  <2>1. file'[l] \notin Configs /\ file'[l] # Missing
    BY <1>2, <1>6, FileAssumption
  <2>2. QED
    BY <1>1, <1>2, <1>3, <1>6, <2>1, EmitInSync
<1>7. QED
  BY <1>4, <1>5, <1>6 DEF Read

LEMMA MarkInSync == ASSUME TypeOK, InSync, Mark PROVE InSync'
<1>0. PICK l \in Layers : l = task.layer
  BY DEF TypeOK
<1> DEFINE c == Loaded(l, task.conf)
<1>1. task.at = "mark" /\ task.layer = l /\ task.conf \in Configs
  BY <1>0 DEF Mark, TypeOK
<1>2. l \in missed \/ file[l] = task.conf
  BY <1>1 DEF InSync, TaskSound
<1>3. UNCHANGED <<file, watching, event, due, up, missed, edits>>
  BY DEF Mark
<1>4. \A m \in Layers : m # l => seen'[m] = seen[m]
  BY <1>1 DEF Mark, TypeOK
<1>5. CASE file[l] = Missing /\ Emit(l, lastValid[l])
  <2>1. l \in missed'
    BY <1>1, <1>2, <1>3, <1>5, FileAssumption
  <2>2. QED
    BY <1>1, <1>3, <1>4, <1>5, <2>1, EmitInSync
<1>6. CASE Loadable(l, task.conf) /\ Emit(l, c)
  <2>1. l \in missed' \/ (c = Loaded(l, file'[l]) /\ file'[l] # Missing)
    BY <1>1, <1>2, <1>3, FileAssumption
  <2> HIDE DEF c
  <2>2. QED
    BY <1>1, <1>3, <1>4, <1>6, <2>1, EmitInSync
<1>7. CASE /\ ~Loadable(l, task.conf)
           /\ task' = NoTask /\ UNCHANGED <<cache, config, dirty, lastValid>>
  <2>1. task'.at = "none"
    BY <1>7 DEF NoTask
  <2>2. TaskSound'
    BY <2>1 DEF TaskSound, Saving
  <2>3. MemoryFollows'
    BY <1>3, <1>7 DEF InSync, MemoryFollows
  <2>4. Fresh(l)' \/ Coming(l)'
    <3>1. CASE l \in missed
      BY <1>3, <3>1 DEF Coming, Waiting
    <3>2. CASE file[l] = task.conf
      <4>1. file'[l] = task.conf /\ file'[l] # Missing
        BY <1>1, <1>3, <3>2, FileAssumption
      <4>2. QED
        BY <1>7, <4>1 DEF Fresh, Says, Readable
    <3>3. QED
      BY <1>2, <3>1, <3>2
  <2>5. ASSUME NEW m \in Layers, m # l, Fresh(m) \/ Coming(m) PROVE (Fresh(m) \/ Coming(m))'
    BY <1>1, <1>3, <1>4, <1>7, <2>5, LayerKept
  <2>6. QED
    BY <1>3, <2>2, <2>3, <2>4, <2>5 DEF InSync, FilesFollowed
<1>8. QED
  BY <1>1, <1>5, <1>6, <1>7 DEF Mark

(* A step of a save that leaves the user's file to be loaded, or as it was.*)
LEMMA SavingInSync ==
    ASSUME TypeOK, InSync, UNCHANGED <<cache, config, watching, due, up, dirty>>,
           \A m \in Layers : m # "global" => /\ file'[m] = file[m] /\ seen'[m] = seen[m]
                                             /\ m \in missed => m \in missed',
           event \subseteq event', task.layer = "global",
           (Fresh("global") \/ Coming("global")) => (Fresh("global") \/ Coming("global"))',
           TaskSound'
    PROVE  InSync'
<1>1. MemoryFollows'
  BY DEF InSync, MemoryFollows
<1>2. ASSUME NEW m \in Layers, Fresh(m) \/ Coming(m) PROVE (Fresh(m) \/ Coming(m))'
  <2>1. CASE m = "global"
    BY <1>2, <2>1
  <2>2. CASE m # "global"
    BY <1>2, <2>2, LayerKept
  <2>3. QED
    BY <2>1, <2>2
<1>3. QED
  BY <1>1, <1>2 DEF InSync, FilesFollowed

(* A missing user's file says nothing.                                     *)
LEMMA MissingFresh == file["global"] = Missing => Fresh("global")
  BY FileAssumption DEF Fresh, Says, Readable

LEMMA WriteInSync == ASSUME TypeOK, InSync, Write PROVE InSync'
<1>1. UNCHANGED <<cache, lastValid, config, watching, due, up, dirty, edits>>
  BY DEF Write
<1>2. task.layer = "global" /\ task.at \in {"write", "create"} /\ task \in TaskStates
  BY DEF Write, InSync, TaskSound, Saving, TypeOK, TaskStates
<1>3. CASE task' = NoTask /\ UNCHANGED <<file, event, missed, seen>>
  <2>1. task'.at = "none"
    BY <1>3 DEF NoTask
  <2>2. TaskSound'
    BY <2>1 DEF TaskSound, Saving
  <2>3. task.at = "create" => Waiting("global") \/ Fresh("global")
    BY MissingFresh DEF InSync, TaskSound
  <2>4. Fresh("global") \/ Coming("global") => Fresh("global") \/ Waiting("global")
    BY <1>2, <2>3 DEF Coming
  <2>5. Fresh("global") \/ Waiting("global") => (Fresh("global") \/ Coming("global"))'
    BY <1>1, <1>3 DEF Fresh, Says, Readable, Coming, Waiting
  <2>6. QED
    BY <1>1, <1>2, <1>3, <2>2, <2>4, <2>5, SavingInSync
<1>4. CASE /\ file' = [file EXCEPT !["global"] = Loaded("global", task.conf)]
           /\ seen' = [seen EXCEPT !["global"] = FALSE]
           /\ event' \in {event, IF watching THEN event \cup {"global"} ELSE event}
           /\ missed' = missed \ {"global"}
           /\ task' = [task EXCEPT !.at = IF @ = "write" THEN "stat" ELSE "created"]
  <2>1. /\ task'.layer = "global" /\ task'.conf = task.conf
        /\ task'.at = IF task.at = "write" THEN "stat" ELSE "created"
    BY <1>2, <1>4 DEF TaskStates
  <2>2. file'["global"] = Loaded("global", task.conf)
    BY <1>4 DEF TypeOK, Layers
  <2>3. task.at = "create" => task.conf = Defaults
    BY DEF InSync, TaskSound
  <2>4. TaskSound'
    BY <1>2, <2>1, <2>2, <2>3 DEF TaskSound, Saving
  <2>5. Coming("global")'
    BY <1>2, <2>1 DEF Coming
  <2>6. \A m \in Layers : m # "global" => /\ file'[m] = file[m] /\ seen'[m] = seen[m]
                                          /\ m \in missed => m \in missed'
    BY <1>4 DEF TypeOK
  <2>7. event \subseteq event'
    BY <1>4
  <2>8. QED
    BY <1>1, <1>2, <2>4, <2>5, <2>6, <2>7, SavingInSync
<1>5. QED
  BY <1>3, <1>4 DEF Write

LEMMA StatInSync == ASSUME TypeOK, InSync, StatSaved PROVE InSync'
<1>1. UNCHANGED <<file, watching, event, due, up, missed, edits>>
  BY DEF StatSaved
<1>2. task.layer = "global" /\ task.at \in {"stat", "created"} /\ task \in TaskStates
  BY DEF StatSaved, InSync, TaskSound, Saving, TypeOK, TaskStates
<1>3. \A m \in Layers : m # "global" => seen'[m] = seen[m]
  BY DEF StatSaved, TypeOK
<1>4. CASE task' = [task EXCEPT !.at = "read"] /\ UNCHANGED <<cache, config, dirty>>
  <2>1. task'.at = "read" /\ task'.layer = "global"
    BY <1>2, <1>4 DEF TaskStates
  <2>2. TaskSound' /\ Coming("global")'
    BY <2>1 DEF TaskSound, Saving, Coming
  <2>3. QED
    BY <1>1, <1>2, <1>3, <1>4, <2>2, SavingInSync
<1>5. CASE task.at = "created" /\ Emit("global", task.conf)
  <2>1. task.conf = Defaults /\ ("global" \in missed \/ file["global"] = Loaded("global", Defaults))
    BY <1>5 DEF InSync, TaskSound
  <2>2. "global" \in missed' \/ Loaded("global", file'["global"]) = task.conf
    BY <1>1, <2>1, DefaultsLoad
  <2>3. "global" \in Layers /\ "global" # "local"
    BY DEF Layers
  <2>4. QED
    BY <1>1, <1>2, <1>3, <1>5, <2>2, <2>3, EmitInSync
<1>6. CASE /\ file["global"] = Missing
           /\ task' = NoTask /\ UNCHANGED <<seen, lastValid, cache, config, dirty>>
  <2>1. task'.at = "none"
    BY <1>6 DEF NoTask
  <2>2. TaskSound'
    BY <2>1 DEF TaskSound, Saving
  <2>3. Fresh("global")'
    BY <1>1, <1>6, MissingFresh DEF Fresh, Says, Readable
  <2>4. QED
    BY <1>1, <1>2, <1>6, <2>2, <2>3, SavingInSync
<1>7. QED
  BY <1>4, <1>5, <1>6 DEF StatSaved

LEMMA SaveInSync == ASSUME InSync, task.at = "none", NEW c, Save(c) PROVE InSync'
<1>1. /\ task'.at = "write" /\ task'.layer = "global" /\ dirty' = TRUE
      /\ UNCHANGED <<file, cache, seen, watching, event, due, up, missed>>
  BY DEF Save
<1>2. ASSUME NEW m \in Layers, Fresh(m) \/ Coming(m) PROVE (Fresh(m) \/ Coming(m))'
  BY <1>1, <1>2, LayerKept
<1>3. QED
  BY <1>1, <1>2 DEF InSync, FilesFollowed, TaskSound, MemoryFollows

(* Both layers are loaded from their files as they are.                    *)
LEMMA StartInSync == ASSUME TypeOK, InSync, Start PROVE InSync'
<1> DEFINE first == IF file["global"] = Missing /\ file["local"] # Missing
                    THEN file["local"] ELSE file["global"]
           stored == IF first = Missing THEN Loaded("global", Defaults) ELSE first
           value(l, f) == IF f = Broken \/ f = Missing THEN DefaultsOf(l) ELSE Loaded(l, f)
           loaded == [l \in Layers |-> value(l, IF l = "global" THEN first ELSE file[l])]
<1>1. cache' = loaded /\ file' = [file EXCEPT !["global"] = stored]
  BY DEF Start
<1>2. /\ file'["global"] = stored /\ file'["local"] = file["local"]
      /\ cache'["global"] = value("global", first) /\ cache'["local"] = value("local", file["local"])
  BY <1>1 DEF TypeOK, Layers
<1>3. Broken \notin Configs /\ Missing \notin Configs /\ Broken # Missing
  BY FileAssumption
<1>4. Fresh("local")'
  <2>1. CASE file["local"] = Missing
    BY <1>2, <1>3, <2>1 DEF Fresh, Says, Readable, DefaultsOf
  <2>2. CASE file["local"] # Missing
    BY <1>2, <1>3, <2>2 DEF Fresh, Says, Readable
  <2>3. QED
    BY <2>1, <2>2
<1>5. Fresh("global")'
  <2>1. CASE first = Missing
    BY <1>2, <2>1, DefaultsLoad DEF Fresh, Says, Readable, DefaultsOf
  <2>2. CASE first # Missing
    BY <1>2, <1>3, <2>2 DEF Fresh, Says, Readable
  <2>3. QED
    BY <2>1, <2>2
<1> HIDE DEF first, stored, value, loaded
<1>6. task'.at = "write" /\ task'.layer = "global" /\ dirty' = TRUE
  BY DEF Start
<1>7. QED
  BY <1>4, <1>5, <1>6 DEF InSync, FilesFollowed, TaskSound, MemoryFollows, Layers

LEMMA NextInSync == ASSUME TypeOK, InSync, [Next]_vars PROVE InSync'
<1>1. ASSUME UNCHANGED <<file, cache, seen, config, task, event, due, up, missed, dirty>>,
             watching' = watching \/ (watching' /\ dirty)
      PROVE  InSync'
  <2>1. \A m \in Layers : Fresh(m) \/ Coming(m) => (Fresh(m) \/ Coming(m))'
    BY <1>1, LayerKept
  <2>2. TaskSound'
    BY <1>1 DEF InSync, TaskSound, Waiting
  <2>3. QED
    BY <1>1, <2>1, <2>2 DEF InSync, FilesFollowed, MemoryFollows
<1>2. ASSUME NEW l \in Layers, Edit(l) \/ Notice(l) \/ Reload(l) PROVE InSync'
  BY <1>2, EventInSync
<1>3. CASE Read \/ Mark \/ Write \/ StatSaved
  BY <1>3, ReadInSync, MarkInSync, WriteInSync, StatInSync
<1>4. ASSUME NEW u \in Requests, Put(u) PROVE InSync'
  BY <1>4, SaveInSync DEF Put, Free
<1>5. ASSUME NEW old, NEW new, RenameEntity(old, new) PROVE InSync'
  BY <1>5, SaveInSync DEF RenameEntity, Free
<1>6. CASE Watch
  BY <1>1, <1>6 DEF Watch, Free, InSync, MemoryFollows
<1>7. CASE End
  BY <1>7 DEF End, NoTask, InSync, FilesFollowed, TaskSound, MemoryFollows
<1>8. CASE UNCHANGED vars
  BY <1>1, <1>8 DEF vars
<1>9. QED
  BY <1>2, <1>3, <1>4, <1>5, <1>6, <1>7, <1>8, StartInSync DEF Next

LEMMA Invariance == Spec => [](IInv /\ InSync)
<1>1. ASSUME IInv, InSync, [Next]_vars PROVE IInv' /\ InSync'
  BY <1>1, NextIInv, NextInSync DEF IInv
<1>2. QED
  BY <1>1, InitIInv, InitInSync, PTL DEF Spec

(* The server ends up with what the files say, however edits, observers'   *)
(* threads, requests, renames and failing saves interleave: the theorem of *)
(* _handle_event, which drops the events of the server's own writes only,  *)
(* of save, which notes the time of what it has written, and of the reload *)
(* that follows it.                                                        *)
THEOREM ServerConverges == Spec => []Converged
<1>1. IInv /\ InSync => Converged
  <2> SUFFICES ASSUME TypeOK, InSync, Free, watching, ~dirty, Quiet
               PROVE  config = Merge(Says("global"), Says("local"))
    BY DEF IInv, Converged
  <2>1. \A l \in Layers : ~Coming(l)
    BY DEF Free, Quiet, Coming, Waiting
  <2>2. \A l \in Layers : cache[l] = Says(l)
    BY <2>1 DEF InSync, FilesFollowed, Free, Fresh
  <2>3. QED
    BY <2>2 DEF InSync, MemoryFollows, Merged, Layers
<1>2. QED
  BY <1>1, Invariance, PTL

(* A request leaves the user's other keys as they are, a project's key     *)
(* aside: the theorem of deep_merge's null and of the reload that precedes *)
(* the request.                                                            *)
THEOREM RequestsKeepKeys == Spec => KeysKept
<1>1. IInv /\ InSync /\ [Next]_vars =>
        [\A u \in Requests :
           Put(u) /\ watching /\ ~dirty /\ Quiet /\ Readable("global") =>
              \A p \in Providers :
                 file["global"][p] \in Keys /\ u[p] = Absent /\ Says("local")[p] \notin Keys
                   => task'.conf[p] = file["global"][p]]_vars
  <2> SUFFICES ASSUME TypeOK, InSync, NEW u \in Requests, Put(u), watching, ~dirty,
                      Quiet, Readable("global"), NEW p \in Providers,
                      file["global"][p] \in Keys, u[p] = Absent, Says("local")[p] \notin Keys
               PROVE  task'.conf[p] = file["global"][p]
    BY DEF IInv
  <2>1. up /\ \A l \in Layers : ~Coming(l)
    BY DEF Put, Free, Quiet, Coming, Waiting
  <2>2. \A l \in Layers : cache[l] = Says(l)
    BY <2>1 DEF InSync, FilesFollowed, Fresh
  <2>3. cache["global"] = Loaded("global", file["global"]) /\ cache["local"][p] \notin Keys
    BY <2>2 DEF Says, Layers
  <2>4. config = Merge(cache["global"], cache["local"])
    BY DEF InSync, MemoryFollows, Merged
  <2>5. p \in Fields /\ p # Slot /\ p # Port /\ Domain(p) = {Absent, Unset} \cup Keys
    BY SlotAndPort
  <2>6. cache["local"][p] \in {Absent, Unset} /\ file["global"][p] # Absent
    <3>1. cache["local"][p] \in Domain(p) /\ Absent \notin Keys
      BY <2>5, FieldAssumption DEF TypeOK, Layers, Configs
    <3>2. QED
      BY <2>3, <2>5, <3>1
  <2>7. cache["global"][p] = Over(Defaults[p], file["global"][p])
    <3>1. DOMAIN Merge(Defaults, file["global"]) = Fields
      BY DEF Merge
    <3>2. Validated(Merge(Defaults, file["global"]))[p] = Merge(Defaults, file["global"])[p]
      BY <2>5, <3>1 DEF Validated
    <3>3. QED
      BY <2>3, <2>5, <3>2 DEF Loaded, DefaultsOf, Merge
  <2>8. cache["global"][p] = file["global"][p]
    BY <2>6, <2>7, FieldAssumption DEF Over
  <2>9. config[p] = file["global"][p]
    <3>1. config[p] = Over(cache["global"][p], cache["local"][p])
      BY <2>4, <2>5 DEF Merge
    <3>2. QED
      BY <2>6, <2>8, <3>1 DEF Over
  <2>10. task'.conf = Apply(config, u)
    BY DEF Put, Save
  <2>11. QED
    BY <2>5, <2>9, <2>10 DEF Apply
<1>2. QED
  BY <1>1, Invariance, PTL DEF Spec, KeysKept
=============================================================================
