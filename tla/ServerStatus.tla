---------------------------- MODULE ServerStatus ----------------------------
(***************************************************************************)
(* Server processes of one project and the status.json they share: the     *)
(* check that no other server runs, the claim, the states an editor reads  *)
(* while it waits for the server, the project scan, the config callback,   *)
(* signals, failures and kills.                                            *)
(*                                                                         *)
(* A process has one event loop.  Its tasks (run_server, uvicorn's serve,  *)
(* the inspector) alternate at awaits; an update of status.json has none,  *)
(* so it is one step to its own process and three to the others: read,     *)
(* write status.tmp, rename.  The names of the temporary files are equal.  *)
(*                                                                         *)
(* Ports are abstract: any free one may be chosen (base port, SERVER_PORT  *)
(* and the stored server_port are settings).  Messages, times and the      *)
(* validity of the configuration are left out; error says whether          *)
(* server_error is there.                                                  *)
(*                                                                         *)
(* StoppingForgotten, BlindCrash, PortNotKept, ReadyBeforeBind,            *)
(* DoneBeforeSave and ExitNotAsked are likely defects of the operator that *)
(* follows them: the properties are shown to catch them.                   *)
(***************************************************************************)
EXTENDS Integers, FiniteSets

CONSTANTS
    Pids,       \* process ids; a new process may get the id of one that died
    Ports,      \* ports probed
    None,       \* no pid, no port, no file
    Overlap,    \* FALSE restricts a model to behaviours where Apart holds
    MaxStarts   \* bound: processes started in one behaviour

ASSUME NoneAssumption == None \notin Pids \cup Ports
ASSUME StartsAssumption == MaxStarts \in Nat /\ Overlap \in BOOLEAN

VARIABLES
    file,      \* status.json, or None
    tmp,       \* status.tmp, or None
    upd,       \* the update of status.json each process is in the middle of
    proc,      \* the tasks and local variables of each process
    metadata,  \* metadata.json of the project: what the scan has saved
    starts     \* processes started so far

vars == <<file, tmp, upd, proc, metadata, starts>>

Statuses == {"none", "starting", "ready", "stopping", "stopped", "error", "crashed"}
StoppingForgotten == {"starting", "ready"}
Running == {"starting", "ready", "stopping"}
Scans == {"none", "scanning", "done", "error"}
Docs == [status : Statuses, pid : Pids \cup {None}, port : Ports \cup {None},
         error : BOOLEAN, scan : Scans]
NoDoc == [status |-> "none", pid |-> None, port |-> None,
          error |-> FALSE, scan |-> "none"]
ASSUME FileAssumption == None \notin Docs

(* What an update changes: a server status, a scan status, or, for the     *)
(* config callback, only fields that are left out here.                    *)
Changes == [kind : {"server", "scan", "config"}, to : Statuses \cup Scans]
Idle == [at |-> "idle", change |-> [kind |-> "config", to |-> "none"], doc |-> NoDoc]

(* main: the main thread up to run_server, then run_server; serve: the     *)
(* task of uvicorn's Server.serve; event: shutdown_event; caught: a signal *)
(* uvicorn caught; exit: should_exit; seen: what ensure_singleton read.    *)
Off == [main |-> "off", serve |-> "none", scan |-> "none", seen |-> NoDoc, port |-> None,
        bound |-> FALSE, event |-> FALSE, caught |-> FALSE, exit |-> FALSE]

TypeOK ==
    /\ file \in Docs \cup {None} /\ tmp \in Docs \cup {None}
    /\ upd \in [Pids -> [at : {"idle", "read", "write", "rename"}, change : Changes, doc : Docs]]
    /\ \A p \in Pids :
        /\ proc[p].main \in {"off", "check", "admit", "probe", "boot", "wait", "join", "exit"}
        /\ proc[p].serve \in {"none", "startup", "failed", "aborted",
                             "binding", "up", "closing", "returned"}
        /\ proc[p].scan \in {"none", "todo", "model", "saved"}
        /\ proc[p].seen \in Docs /\ proc[p].port \in Ports \cup {None}
        /\ proc[p].bound => proc[p].port # None
    /\ metadata \in {"none", "note", "analysis"}
    /\ starts \in 0..MaxStarts

Init ==
    /\ file = None /\ tmp = None
    /\ upd = [p \in Pids |-> Idle]
    /\ proc = [p \in Pids |-> Off]
    /\ metadata = "none"
    /\ starts = 0
-----------------------------------------------------------------------------
Alive(p) == p \in Pids /\ proc[p].main # "off"
Doc == IF file = None THEN NoDoc ELSE file

(* update_server_status, update_scan_status and on_config_change as        *)
(* functions of the document they read.                                    *)
Apply(p, change, d) ==
    LET to == change.to
    IN  CASE change.kind = "scan" -> [d EXCEPT !.scan = to]
          [] change.kind = "config" -> d
          [] change.kind = "server" ->
               [d EXCEPT !.status = to,
                         !.pid = CASE to = "starting" -> p
                                   [] to \in {"ready", "stopping"} -> @
                                   [] OTHER -> None,
                         !.port = CASE to = "starting" -> proc[p].port
                                    [] to \in {"ready", "stopping"} -> @
                                    [] OTHER -> None,
                         !.error = to \in {"error", "crashed"}]

Post(p, kind, to) ==
    upd' = [upd EXCEPT ![p] = [Idle EXCEPT !.at = "read", !.change = [kind |-> kind, to |-> to]]]

ReadDoc(p) ==
    /\ upd[p].at = "read"
    /\ upd' = [upd EXCEPT ![p].at = "write", ![p].doc = Apply(p, upd[p].change, Doc)]
    /\ UNCHANGED <<file, tmp, proc, metadata, starts>>

WriteTmp(p) ==
    /\ upd[p].at = "write"
    /\ tmp' = upd[p].doc
    /\ upd' = [upd EXCEPT ![p].at = "rename"]
    /\ UNCHANGED <<file, proc, metadata, starts>>

(* When another process has renamed the file already, replace raises and   *)
(* the error is swallowed.                                                 *)
Rename(p) ==
    /\ upd[p].at = "rename"
    /\ file' = IF tmp = None THEN file ELSE tmp
    /\ tmp' = None
    /\ upd' = [upd EXCEPT ![p] = Idle]
    /\ UNCHANGED <<proc, metadata, starts>>

Update(p) == ReadDoc(p) \/ WriteTmp(p) \/ Rename(p)
-----------------------------------------------------------------------------
(* The process's own code runs between its updates.                        *)
At(p, pc) == proc[p].main = pc /\ upd[p].at = "idle"
Serve(p, pc) == proc[p].serve = pc /\ upd[p].at = "idle"

Ends(p) ==
    /\ proc' = [proc EXCEPT ![p] = Off]
    /\ upd' = [upd EXCEPT ![p] = Idle]
    /\ UNCHANGED <<file, tmp, metadata, starts>>

(* A claim lasts from the read of status.json to the rename that writes    *)
(* "starting"; a failed start-up from "error" to the end of its process.   *)
(* Nothing in the code keeps two claims, or a claim and a failed start-up, *)
(* apart: it takes no lock.                                                *)
Claiming(p) ==
    \/ proc[p].main \in {"admit", "probe"}
    \/ proc[p].main = "boot" /\ upd[p].at # "idle"
Failing(p) == proc[p].serve \in {"failed", "aborted"}
Apart == \A p, q \in Pids : Claiming(p) => ~Failing(q) /\ (Claiming(q) => p = q)

Start(p) ==
    /\ At(p, "off")
    /\ starts < MaxStarts /\ starts' = starts + 1
    /\ proc' = [proc EXCEPT ![p].main = "check"]
    /\ UNCHANGED <<file, tmp, upd, metadata>>

(* ensure_singleton_and_select_port: the document is read once; whether    *)
(* its process is alive is asked twice.                                    *)
BlindCrash(d) == d.pid # None /\ d.status \in Running
FoundDead(d) == d.pid # None /\ ~Alive(d.pid) /\ d.status \in Running
FoundAlive(d) == d.pid # None /\ Alive(d.pid) /\ d.status \in Running

ReadStatus(p) ==
    /\ At(p, "check")
    /\ proc' = [proc EXCEPT ![p].main = "admit", ![p].seen = Doc]
    /\ IF FoundDead(Doc) THEN Post(p, "server", "crashed") ELSE UNCHANGED upd
    /\ UNCHANGED <<file, tmp, metadata, starts>>
    /\ Overlap \/ Apart'

Refuse(p) == At(p, "admit") /\ FoundAlive(proc[p].seen) /\ Ends(p)

Admit(p) ==
    /\ At(p, "admit")
    /\ ~FoundAlive(proc[p].seen)
    /\ proc' = [proc EXCEPT ![p].main = "probe", ![p].seen = NoDoc]
    /\ UNCHANGED <<file, tmp, upd, metadata, starts>>

Free(port) == \A q \in Pids : proc[q].bound => proc[q].port # port

PortNotKept(p) ==
    /\ At(p, "probe")
    /\ \E port \in Ports :
        /\ Free(port)
        /\ proc' = [proc EXCEPT ![p].main = "boot"]
    /\ Post(p, "server", "starting")
    /\ UNCHANGED <<file, tmp, metadata, starts>>
Claim(p) ==
    /\ At(p, "probe")
    /\ \E port \in Ports :
        /\ Free(port)
        /\ proc' = [proc EXCEPT ![p].main = "boot", ![p].port = port]
    /\ Post(p, "server", "starting")
    /\ UNCHANGED <<file, tmp, metadata, starts>>

(* Other programs hold every port probed.                                  *)
NoPort(p) == At(p, "probe") /\ Ends(p)

(* run_server: the inspector, if there is no metadata, and uvicorn are     *)
(* started, and either the shutdown event or the end of uvicorn awaited.   *)
RunServer(p) ==
    /\ At(p, "boot")
    /\ proc' = [proc EXCEPT ![p].main = "wait", ![p].serve = "startup",
                            ![p].scan = IF metadata = "none" THEN "todo" ELSE "none"]
    /\ UNCHANGED <<file, tmp, upd, metadata, starts>>

ExitNotAsked(p) ==
    /\ At(p, "wait")
    /\ proc[p].event
    /\ proc' = [proc EXCEPT ![p].main = "join"]
    /\ Post(p, "server", "stopping")
    /\ UNCHANGED <<file, tmp, metadata, starts>>
NoticeShutdown(p) ==
    /\ At(p, "wait")
    /\ proc[p].event
    /\ proc' = [proc EXCEPT ![p].main = "join", ![p].exit = TRUE]
    /\ Post(p, "server", "stopping")
    /\ UNCHANGED <<file, tmp, metadata, starts>>

(* serve_task has ended: awaited after the event, or first of the two.     *)
MarkStopped(p) ==
    /\ Serve(p, "returned") \/ Serve(p, "aborted")
    /\ At(p, "join") \/ (At(p, "wait") /\ ~proc[p].event)
    /\ proc' = [proc EXCEPT ![p].main = "exit"]
    /\ Post(p, "server", "stopped")
    /\ UNCHANGED <<file, tmp, metadata, starts>>

Exit(p) == At(p, "exit") /\ Ends(p)

MainStep(p) ==
    \/ ReadStatus(p) \/ Refuse(p) \/ Admit(p) \/ Claim(p) \/ NoPort(p)
    \/ RunServer(p) \/ NoticeShutdown(p) \/ MarkStopped(p) \/ Exit(p)
-----------------------------------------------------------------------------
(* serve_task: the lifespan's start-up, the socket, requests, shutdown.    *)
ReadyBeforeBind(p) ==
    /\ Serve(p, "startup")
    /\ proc' = [proc EXCEPT ![p].serve = "binding"]
    /\ Post(p, "server", "ready")
    /\ UNCHANGED <<file, tmp, metadata, starts>>
LifespanUp(p) ==
    /\ Serve(p, "startup")
    /\ proc' = [proc EXCEPT ![p].serve = "binding"]
    /\ UNCHANGED <<file, tmp, upd, metadata, starts>>

LifespanFails(p) ==
    /\ Serve(p, "startup")
    /\ proc' = [proc EXCEPT ![p].serve = "failed"]
    /\ Post(p, "server", "error")
    /\ UNCHANGED <<file, tmp, metadata, starts>>
    /\ Overlap \/ Apart'

(* uvicorn's startup returns after a failed lifespan as well, and the      *)
(* override goes on; serve returns, and raises the signals it caught again.*)
ReadyAnyway(p) ==
    /\ Serve(p, "failed")
    /\ proc' = [proc EXCEPT ![p].serve = "aborted", ![p].event = @ \/ proc[p].caught]
    /\ Post(p, "server", "ready")
    /\ UNCHANGED <<file, tmp, metadata, starts>>

(* should_exit is looked at once the server has started: a shutdown asked  *)
(* for before then skips the lifespan's cleanup.                           *)
Bind(p) ==
    /\ Serve(p, "binding")
    /\ Free(proc[p].port)
    /\ proc' = [proc EXCEPT ![p].bound = TRUE,
                            ![p].serve = IF proc[p].exit THEN "returned" ELSE "up",
                            ![p].event = @ \/ (proc[p].exit /\ proc[p].caught)]
    /\ Post(p, "server", "ready")
    /\ UNCHANGED <<file, tmp, metadata, starts>>

(* The port is taken: sys.exit(1) inside the task, status.json as it is.   *)
BindFails(p) == Serve(p, "binding") /\ Ends(p)

StopServing(p) ==
    /\ Serve(p, "up")
    /\ proc[p].exit
    /\ proc' = [proc EXCEPT ![p].serve = "closing", ![p].bound = FALSE]
    /\ UNCHANGED <<file, tmp, upd, metadata, starts>>

Cleanup(p) ==
    /\ Serve(p, "closing")
    /\ proc' = [proc EXCEPT ![p].serve = "returned", ![p].event = @ \/ proc[p].caught]
    /\ UNCHANGED <<file, tmp, upd, metadata, starts>>

ServeStep(p) ==
    \/ LifespanUp(p) \/ LifespanFails(p) \/ ReadyAnyway(p)
    \/ Bind(p) \/ BindFails(p) \/ StopServing(p) \/ Cleanup(p)
-----------------------------------------------------------------------------
(* The inspector: _run_inspector and inspect_and_save.                     *)
Inspecting(p, pc) ==
    proc[p].scan = pc /\ proc[p].main \in {"wait", "join"} /\ upd[p].at = "idle"
ScanAt(p, pc) == proc' = [proc EXCEPT ![p].scan = pc]

BeginScan(p) ==
    /\ Inspecting(p, "todo")
    /\ ScanAt(p, "model")
    /\ Post(p, "scan", "scanning")
    /\ UNCHANGED <<file, tmp, metadata, starts>>

(* No model is configured; or the model, or its answer, fails.             *)
ScanFails(p) ==
    /\ Inspecting(p, "todo") \/ Inspecting(p, "model")
    /\ ScanAt(p, "none")
    /\ Post(p, "scan", "error")
    /\ UNCHANGED <<file, tmp, metadata, starts>>

DoneBeforeSave(p) ==
    /\ Inspecting(p, "model")
    /\ ScanAt(p, "none")
    /\ Post(p, "scan", "done")
    /\ UNCHANGED <<file, tmp, metadata, starts>>
SaveAnalysis(p) ==
    /\ Inspecting(p, "model")
    /\ metadata' = "analysis"
    /\ ScanAt(p, "saved")
    /\ UNCHANGED <<file, tmp, upd, starts>>

(* Saving the analysis raised: a note is saved in its place.               *)
SaveNote(p) ==
    /\ Inspecting(p, "model")
    /\ metadata' = "note"
    /\ ScanAt(p, "saved")
    /\ Post(p, "scan", "error")
    /\ UNCHANGED <<file, tmp, starts>>

ReportDone(p) ==
    /\ Inspecting(p, "saved")
    /\ ScanAt(p, "none")
    /\ Post(p, "scan", "done")
    /\ UNCHANGED <<file, tmp, metadata, starts>>

ScanStep(p) ==
    BeginScan(p) \/ ScanFails(p) \/ SaveAnalysis(p) \/ SaveNote(p) \/ ReportDone(p)
-----------------------------------------------------------------------------
(* on_config_change: the document is read and, with its config_valid and   *)
(* config_errors replaced, written back.                                   *)
ConfigChange(p) ==
    /\ proc[p].main \in {"wait", "join"}
    /\ proc[p].serve \notin {"none", "startup"} /\ upd[p].at = "idle"
    /\ Post(p, "config", "none")
    /\ UNCHANGED <<file, tmp, proc, metadata, starts>>

(* SIGTERM or SIGINT: main.py's handler sets the event; while serve runs,  *)
(* uvicorn's handler asks serve to exit.                                   *)
Signal(p) ==
    /\ Alive(p)
    /\ ~proc[p].event /\ ~proc[p].caught
    /\ proc' = IF proc[p].serve \in {"none", "returned", "aborted"}
               THEN [proc EXCEPT ![p].event = TRUE]
               ELSE [proc EXCEPT ![p].caught = TRUE, ![p].exit = TRUE]
    /\ UNCHANGED <<file, tmp, upd, metadata, starts>>

(* SIGKILL, or an exception on the way to run_server.                      *)
Kill(p) == Alive(p) /\ Ends(p)

Next ==
    \E p \in Pids :
        \/ Update(p) \/ MainStep(p) \/ ServeStep(p) \/ ScanStep(p)
        \/ Start(p) \/ ConfigChange(p) \/ Signal(p) \/ Kill(p)

Spec == Init /\ [][Next]_vars

(* asyncio runs what is ready in the order it became ready, and everything *)
(* a shutdown waits for has a timeout; so each task moves on although      *)
(* config callbacks run in between.                                        *)
FairSpec ==
    /\ Spec
    /\ \A p \in Pids :
        WF_vars(Update(p)) /\ SF_vars(MainStep(p)) /\ SF_vars(ServeStep(p))
-----------------------------------------------------------------------------
(* A process that has claimed the project and has not written "stopped".   *)
Owner(p) ==
    proc[p].main \in {"wait", "join"} \/ At(p, "boot")

(* One server per project: as long as Apart has held, two processes never  *)
(* own it at a time, whatever is killed, signalled and restarted           *)
(* (ensure_singleton_and_select_port).                                     *)
SingleServer ==
    \A p, q \in Pids : Owner(p) /\ Owner(q) => p = q

(* "ready" with the pid of an owner: that process has finished its start-up*)
(* and has bound the port the file names (startup override in main.py), as *)
(* long as Apart has held.                                                 *)
ReadyTellsTruth ==
    \A p \in Pids :
        Owner(p) /\ Doc.status = "ready" /\ Doc.pid = p
          => /\ proc[p].serve \in {"up", "closing", "returned"}
             /\ proc[p].port = Doc.port

(* The file says the scan is done only when something has been saved.      *)
ScanDoneIsSaved == Doc.scan = "done" => metadata # "none"

(* No other process takes an owner's pid out of the file, as long as Apart *)
(* has held.                                                               *)
ClaimStands ==
    [][\A p \in Pids :
        Owner(p) /\ Doc.pid = p => Doc'.pid = p \/ upd'[p] # upd[p]]_vars

(* A process that gets a signal ends.                                      *)
SignalledStops ==
    \A p \in Pids : proc[p].event \/ proc[p].caught ~> ~Alive(p)
=============================================================================
