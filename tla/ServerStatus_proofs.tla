------------------------- MODULE ServerStatus_proofs -------------------------
(***************************************************************************)
(* ServerStatus for any processes, ports and number of starts.  Always:    *)
(* the types, and "done" only after a save.  In every state up to which    *)
(* Apart has held: one server owns the project, "ready" tells the truth,   *)
(* and nobody takes an owner's pid away.  So two servers can own a project *)
(* only after two claims, or a claim and a failed start-up, have           *)
(* overlapped, which no lock of the code prevents.                         *)
(*                                                                         *)
(* The inductive invariant follows the pid through status.json.  A process *)
(* holds the project from the rename that wrote its claim until the one    *)
(* that writes "stopped"; while it does the file names it, so that whoever *)
(* reads the file in between is refused or finds it dead.  Hence no two    *)
(* processes update the file at the same time, and what one renames is     *)
(* what it wrote, made from the document that is still there.              *)
(***************************************************************************)
EXTENDS ServerStatus, TLAPS

Mains == {"off", "check", "admit", "probe", "boot", "wait", "join", "exit"}
Serves == {"none", "startup", "failed", "aborted", "binding", "up", "closing", "returned"}
Procs == [main : Mains, serve : Serves, scan : {"none", "todo", "model", "saved"},
          seen : Docs, port : Ports \cup {None}, bound : BOOLEAN, event : BOOLEAN,
          caught : BOOLEAN, exit : BOOLEAN]
Updates == [at : {"idle", "read", "write", "rename"}, change : Changes, doc : Docs]

Typed ==
    /\ file \in Docs \cup {None} /\ tmp \in Docs \cup {None}
    /\ upd \in [Pids -> Updates]
    /\ proc \in [Pids -> Procs]
    /\ metadata \in {"none", "note", "analysis"}
    /\ starts \in 0..MaxStarts

Writing(p) == upd[p].at # "idle"
Served(p) == proc[p].serve \in {"up", "closing", "returned"}
Posted(p, to) == upd[p].change.kind = "server" /\ upd[p].change.to = to

(* From the claim's rename to that of "stopped".                           *)
Holder(p) == Owner(p) \/ (proc[p].main = "exit" /\ Writing(p))

(* Which task is where, and what updates each may have under way.          *)
PhaseOK(p) ==
    /\ proc[p].main \in {"off", "check", "admit", "probe", "boot"} => proc[p].serve = "none"
    /\ proc[p].main \in {"wait", "join"} => proc[p].serve # "none"
    /\ proc[p].main = "exit" => proc[p].serve \in {"returned", "aborted"}
    /\ proc[p].main \in {"off", "check", "probe"} => ~Writing(p)
    /\ proc[p].bound => proc[p].port # None
    /\ proc[p].main \in {"boot", "wait", "join", "exit"} => proc[p].port # None
    /\ proc[p].scan = "saved" => metadata # "none"

ChangeOK(p) ==
    /\ upd[p].change.kind = "server" => upd[p].change.to \in Statuses
    /\ upd[p].change.kind = "scan" => upd[p].change.to \in Scans
    /\ Writing(p) =>
        /\ proc[p].main = "boot" => Posted(p, "starting")
        /\ proc[p].main = "exit" => Posted(p, "stopped")
        /\ proc[p].main \in {"wait", "join"} /\ upd[p].change.kind = "server" =>
              \/ upd[p].change.to \in {"ready", "stopping"}
              \/ upd[p].change.to = "error" /\ Failing(p)
        /\ Posted(p, "ready") => Served(p) \/ Failing(p)

(* The document under way is made from the one that is there.              *)
DocOK(p) ==
    /\ upd[p].at \in {"write", "rename"} => upd[p].doc = Apply(p, upd[p].change, Doc)
    /\ upd[p].at = "rename" => tmp = upd[p].doc

(* What the file says of a process that holds the project, and of one      *)
(* whose lifespan has failed.                                              *)
HeldOK(p) ==
    Holder(p) /\ ~Failing(p) =>
        /\ Doc.pid = p /\ Doc.status \in Running /\ Doc.port = proc[p].port
        /\ Doc.status = "ready" => Served(p)

FailedOK(p) ==
    Failing(p) =>
        Doc.pid # p \/ (Doc.status # "ready" /\ Writing(p) /\ Posted(p, "error"))

Own(p) == PhaseOK(p) /\ ChangeOK(p) /\ DocOK(p) /\ HeldOK(p) /\ FailedOK(p)

(* What processes know of each other.                                      *)
Clear(p) == proc[p].main = "probe" \/ (proc[p].main = "boot" /\ Writing(p))
Saw(p, q) == proc[p].seen.pid = q /\ proc[p].seen.status \in Running /\ ~Writing(p)

Pair(p, q) ==
    /\ Claiming(p) => ~Failing(q)
    /\ Claiming(p) /\ Claiming(q) => p = q
    /\ proc[p].main = "admit" /\ Holder(q) => Saw(p, q)
    /\ Clear(p) => ~Holder(q)
    /\ Holder(p) /\ Holder(q) => p = q
    /\ Failing(p) /\ Holder(q) => p = q

IInv ==
    /\ Typed
    /\ \A p \in Pids : Own(p)
    /\ \A p, q \in Pids : Pair(p, q)
-----------------------------------------------------------------------------
(* What an update makes of a document.                                     *)
LEMMA ApplyFields ==
    ASSUME NEW p \in Pids, NEW c \in Changes, NEW d \in Docs, Typed
    PROVE  LET r == Apply(p, c, d)
           IN  /\ c.kind # "server" => r.status = d.status /\ r.pid = d.pid /\ r.port = d.port
               /\ c.kind # "scan" => r.scan = d.scan
               /\ c.kind = "scan" => r.scan = c.to
               /\ c.kind = "server" =>
                    /\ r.status = c.to
                    /\ c.to \in {"ready", "stopping"} => r.pid = d.pid /\ r.port = d.port
                    /\ c.to = "starting" => r.pid = p /\ r.port = proc[p].port
                    /\ c.to \notin {"ready", "stopping", "starting"} => r.pid = None
<1>1. CASE c.kind = "scan"
  BY <1>1 DEF Apply, Docs
<1>2. CASE c.kind = "config"
  BY <1>2 DEF Apply, Docs
<1>3. CASE c.kind = "server"
  BY <1>3 DEF Apply, Docs
<1>4. QED
  BY <1>1, <1>2, <1>3 DEF Changes

LEMMA ApplyType ==
    ASSUME NEW p \in Pids, NEW c \in Changes, NEW d \in Docs, Typed,
           c.kind = "server" => c.to \in Statuses, c.kind = "scan" => c.to \in Scans
    PROVE  Apply(p, c, d) \in Docs
<1>1. proc[p].port \in Ports \cup {None}
  BY DEF Typed, Procs
<1>2. CASE c.kind = "scan"
  BY <1>2 DEF Apply, Docs
<1>3. CASE c.kind = "config"
  BY <1>3 DEF Apply, Docs
<1>4. CASE c.kind = "server"
  <2> DEFINE pid == CASE c.to = "starting" -> p
                      [] c.to \in {"ready", "stopping"} -> d.pid
                      [] OTHER -> None
  <2> DEFINE port == CASE c.to = "starting" -> proc[p].port
                       [] c.to \in {"ready", "stopping"} -> d.port
                       [] OTHER -> None
  <2> DEFINE error == c.to \in {"error", "crashed"}
  <2>1. pid \in Pids \cup {None} /\ port \in Ports \cup {None} /\ error \in BOOLEAN
    BY <1>1 DEF Docs
  <2>2. Apply(p, c, d) = [d EXCEPT !.status = c.to, !.pid = pid, !.port = port, !.error = error]
    BY <1>4 DEF Apply
  <2> HIDE DEF pid, port, error
  <2>3. QED
    BY <1>4, <2>1, <2>2 DEF Docs
<1>5. QED
  BY <1>2, <1>3, <1>4 DEF Changes

LEMMA DocType == ASSUME Typed PROVE Doc \in Docs
  BY DEF Typed, Doc, Docs, NoDoc, Statuses, Scans

LEMMA InitIInv == Init => IInv
<1> SUFFICES ASSUME Init PROVE IInv
  OBVIOUS
<1>1. NoDoc \in Docs /\ Idle \in Updates
  BY DEF NoDoc, Docs, Statuses, Scans, Idle, Updates, Changes
<1>2. Off \in Procs
  BY <1>1 DEF Off, Procs, Mains, Serves
<1>3. Typed
  BY <1>1, <1>2, StartsAssumption DEF Init, Typed
<1>4. \A p \in Pids : proc[p] = Off /\ upd[p] = Idle
  BY DEF Init
<1>5. \A p \in Pids : Own(p)
  BY <1>4 DEF Own, PhaseOK, ChangeOK, DocOK, HeldOK, FailedOK, Holder, Owner, At, Failing,
              Writing, Off, Idle
<1>6. \A p, q \in Pids : Pair(p, q)
  BY <1>4 DEF Pair, Claiming, Failing, Holder, Owner, At, Clear, Writing, Off, Idle
<1>7. QED
  BY <1>3, <1>5, <1>6 DEF IInv

-----------------------------------------------------------------------------
(* A process that claims, or holds the project, is the only one to write.  *)
LEMMA OneWriter ==
    ASSUME IInv, NEW p \in Pids, NEW q \in Pids, Writing(p), Writing(q)
    PROVE  p = q
<1>1. \A r \in Pids : Writing(r) =>
        Holder(r) \/ (Claiming(r) /\ proc[r].main \in {"admit", "boot"})
  <2> SUFFICES ASSUME NEW r \in Pids, Writing(r)
               PROVE  Holder(r) \/ (Claiming(r) /\ proc[r].main \in {"admit", "boot"})
    OBVIOUS
  <2>1. proc[r].main \in {"admit", "boot", "wait", "join", "exit"}
    BY DEF IInv, Own, PhaseOK, Typed, Procs, Mains
  <2>2. QED
    BY <2>1 DEF Holder, Owner, Claiming, Writing
<1>2. Pair(p, q) /\ Pair(q, p)
  BY DEF IInv
<1>3. QED
  BY <1>1, <1>2 DEF Pair, Saw, Clear

(* A step of one process that leaves the files alone keeps the invariant   *)
(* if it keeps the process's own part, and starts no claim, hold or failure*)
(* while another process would mind.                                       *)
LEMMA Local ==
    ASSUME IInv, Apart', NEW p \in Pids, Typed', file' = file, tmp' = tmp,
           metadata # "none" => metadata' # "none",
           \A q \in Pids \ {p} : proc'[q] = proc[q] /\ upd'[q] = upd[q],
           Own(p)',
           Holder(p)' => Holder(p),
           Failing(p)' => Failing(p) \/ Holder(p),
           \A q \in Pids \ {p} : (proc[p].main = "admit")' /\ Holder(q) => Saw(p, q)',
           \A q \in Pids \ {p} : Clear(p)' => ~Holder(q)
    PROVE  IInv'
<1>1. \A q \in Pids \ {p} : Own(q)'
  <2> SUFFICES ASSUME NEW q \in Pids \ {p} PROVE Own(q)'
    OBVIOUS
  <2>1. Own(q) /\ proc'[q] = proc[q] /\ upd'[q] = upd[q] /\ Doc' = Doc /\ tmp' = tmp
    BY DEF IInv, Doc
  <2>2. PhaseOK(q)' /\ ChangeOK(q)'
    BY <2>1 DEF Own, PhaseOK, ChangeOK, Writing, Posted, Failing, Served
  <2>3. DocOK(q)'
    BY <2>1 DEF Own, DocOK, Apply
  <2>4. HeldOK(q)' /\ FailedOK(q)'
    BY <2>1 DEF Own, HeldOK, FailedOK, Holder, Owner, At, Writing, Posted, Failing, Served
  <2>5. QED
    BY <2>2, <2>3, <2>4 DEF Own
<1>2. \A q \in Pids \ {p} :
        /\ Holder(q)' <=> Holder(q)
        /\ Failing(q)' <=> Failing(q)
        /\ Claiming(q)' <=> Claiming(q)
        /\ Clear(q)' <=> Clear(q)
        /\ (proc[q].main = "admit")' <=> proc[q].main = "admit"
        /\ \A r : Saw(q, r)' <=> Saw(q, r)
  BY DEF Holder, Owner, At, Failing, Claiming, Clear, Writing, Saw
<1>3. \A q, r \in Pids : Pair(q, r)
  BY DEF IInv
<1>4. Holder(p)' => ~Claiming(p)' /\ ~(proc[p].main = "admit")' /\ ~Clear(p)'
  BY DEF Holder, Owner, At, Claiming, Clear, Writing
<1>5. ~(Claiming(p)' /\ Failing(p)')
  BY DEF Own, PhaseOK, Claiming, Failing
<1>6. \A q, r \in Pids : Pair(q, r)'
  BY <1>2, <1>3, <1>4, <1>5 DEF Pair, Apart
<1>7. QED
  BY <1>1, <1>6 DEF IInv
-----------------------------------------------------------------------------
(* Posting an update.                                                      *)
LEMMA Posting ==
    ASSUME Typed, NEW p \in Pids, NEW kind \in {"server", "scan", "config"},
           NEW to \in Statuses \cup Scans, Post(p, kind, to)
    PROVE  /\ upd' \in [Pids -> Updates]
           /\ \A q \in Pids \ {p} : upd'[q] = upd[q]
           /\ upd'[p].at = "read" /\ upd'[p].change.kind = kind /\ upd'[p].change.to = to
<1> DEFINE new == [Idle EXCEPT !.at = "read", !.change = [kind |-> kind, to |-> to]]
<1>1. new \in Updates /\ new.at = "read" /\ new.change.kind = kind /\ new.change.to = to
  BY DEF Idle, Updates, Changes, NoDoc, Docs, Statuses, Scans
<1>2. upd' = [upd EXCEPT ![p] = new]
  BY DEF Post
<1> HIDE DEF new
<1>3. QED
  BY <1>1, <1>2 DEF Typed

(* The work of a process that holds the project.                           *)
LEMMA Work ==
    ASSUME IInv, Apart', NEW p \in Pids, Typed', file' = file, tmp' = tmp,
           metadata # "none" => metadata' # "none",
           \A q \in Pids \ {p} : proc'[q] = proc[q] /\ upd'[q] = upd[q],
           Own(p)', Holder(p),
           (proc[p].main \in {"wait", "join"} \/ (proc[p].main = "exit" /\ Writing(p)))'
    PROVE  IInv'
<1>1. ~Claiming(p)' /\ ~(proc[p].main = "admit")' /\ ~Clear(p)'
  BY DEF Claiming, Clear
<1>2. QED
  BY <1>1, Local

(* The tasks of the process that holds the project: run_server,            *)
LEMMA RunServerKeeps == ASSUME IInv, Apart', NEW p \in Pids, RunServer(p) PROVE IInv'
<1>1. Typed /\ Own(p)
  BY DEF IInv
<1>2. ~Writing(p) /\ Holder(p)
  BY <1>1 DEF RunServer, At, At, Own, PhaseOK, Typed, Procs, Mains, Holder, Owner, Writing
<1>3. upd' = upd
  BY DEF RunServer, At
<1> DEFINE new == [proc[p] EXCEPT !.main = "wait", !.serve = "startup",
                            !.scan = IF metadata = "none" THEN "todo" ELSE "none"]
<1>4. proc' = [proc EXCEPT ![p] = new]
  BY <1>1 DEF RunServer, At, Typed, Procs
<1>5. new \in Procs
  BY <1>1 DEF Typed, Procs, Mains, Serves
<1>6. /\ proc' \in [Pids -> Procs] /\ proc'[p] = new
      /\ \A q \in Pids \ {p} : proc'[q] = proc[q]
  BY <1>1, <1>4, <1>5 DEF Typed
<1>7. Typed'
  BY <1>1, <1>3, <1>6 DEF RunServer, At, Typed
<1>8. Own(p)'
  BY <1>1, <1>2, <1>3, <1>6, <1>4
     DEF RunServer, At, Typed, Procs, Own, PhaseOK, ChangeOK, DocOK, HeldOK, FailedOK,
         Holder, Owner, Serve, Failing, Writing, Served, Posted, Doc, Statuses, Scans
<1>9. (proc[p].main \in {"wait", "join"} \/ (proc[p].main = "exit" /\ Writing(p)))'
  BY <1>1, <1>2, <1>3, <1>6 DEF RunServer, At, Typed, Procs, Failing, Writing
<1>10. QED
  BY <1>1, <1>2, <1>3, <1>6, <1>7, <1>8, <1>9, Work DEF RunServer, At

LEMMA NoticeShutdownKeeps == ASSUME IInv, Apart', NEW p \in Pids, NoticeShutdown(p) PROVE IInv'
<1>1. Typed /\ Own(p)
  BY DEF IInv
<1>2. ~Writing(p) /\ Holder(p) /\ proc[p].main \in {"wait", "join"}
  BY <1>1 DEF NoticeShutdown, At, Own, PhaseOK, Typed, Procs, Mains, Holder, Owner, Writing
<1>3. /\ upd' \in [Pids -> Updates]
      /\ \A q \in Pids \ {p} : upd'[q] = upd[q]
      /\ upd'[p].at = "read" /\ upd'[p].change.kind = "server" /\ upd'[p].change.to = "stopping"
  BY <1>1, Posting DEF NoticeShutdown, At, Statuses, Scans
<1> DEFINE new == [proc[p] EXCEPT !.main = "join", !.exit = TRUE]
<1>4. proc' = [proc EXCEPT ![p] = new]
  BY <1>1 DEF NoticeShutdown, At, Typed, Procs
<1>5. new \in Procs
  BY <1>1 DEF Typed, Procs, Mains, Serves
<1>6. /\ proc' \in [Pids -> Procs] /\ proc'[p] = new
      /\ \A q \in Pids \ {p} : proc'[q] = proc[q]
  BY <1>1, <1>4, <1>5 DEF Typed
<1>7. Typed'
  BY <1>1, <1>3, <1>6 DEF NoticeShutdown, At, Typed
<1>8. Own(p)'
  BY <1>1, <1>2, <1>3, <1>6, <1>4
     DEF NoticeShutdown, At, Typed, Procs, Own, PhaseOK, ChangeOK, DocOK, HeldOK, FailedOK,
         Holder, Owner, Serve, Failing, Writing, Served, Posted, Doc, Statuses, Scans
<1>9. (proc[p].main \in {"wait", "join"} \/ (proc[p].main = "exit" /\ Writing(p)))'
  BY <1>1, <1>2, <1>3, <1>6 DEF NoticeShutdown, At, Typed, Procs, Failing, Writing
<1>10. QED
  BY <1>1, <1>2, <1>3, <1>6, <1>7, <1>8, <1>9, Work DEF NoticeShutdown, At

LEMMA MarkStoppedKeeps == ASSUME IInv, Apart', NEW p \in Pids, MarkStopped(p) PROVE IInv'
<1>1. Typed /\ Own(p)
  BY DEF IInv
<1>2. ~Writing(p) /\ Holder(p) /\ proc[p].main \in {"wait", "join"}
  BY <1>1
     DEF MarkStopped, At, Serve, Own, PhaseOK, Typed, Procs, Mains, Holder, Owner, Writing
<1>3. /\ upd' \in [Pids -> Updates]
      /\ \A q \in Pids \ {p} : upd'[q] = upd[q]
      /\ upd'[p].at = "read" /\ upd'[p].change.kind = "server" /\ upd'[p].change.to = "stopped"
  BY <1>1, Posting DEF MarkStopped, At, Serve, Statuses, Scans
<1> DEFINE new == [proc[p] EXCEPT !.main = "exit"]
<1>4. proc' = [proc EXCEPT ![p] = new]
  BY <1>1 DEF MarkStopped, At, Serve, Typed, Procs
<1>5. new \in Procs
  BY <1>1 DEF Typed, Procs, Mains, Serves
<1>6. /\ proc' \in [Pids -> Procs] /\ proc'[p] = new
      /\ \A q \in Pids \ {p} : proc'[q] = proc[q]
  BY <1>1, <1>4, <1>5 DEF Typed
<1>7. Typed'
  BY <1>1, <1>3, <1>6 DEF MarkStopped, At, Serve, Typed
<1>8. Own(p)'
  BY <1>1, <1>2, <1>3, <1>6, <1>4
     DEF MarkStopped, At, Serve, Typed, Procs, Own, PhaseOK, ChangeOK, DocOK, HeldOK,
         FailedOK, Holder, Owner, Failing, Writing, Served, Posted, Doc, Statuses, Scans
<1>9. (proc[p].main \in {"wait", "join"} \/ (proc[p].main = "exit" /\ Writing(p)))'
  BY <1>1, <1>2, <1>3, <1>6 DEF MarkStopped, At, Serve, Typed, Procs, Failing, Writing
<1>10. QED
  BY <1>1, <1>2, <1>3, <1>6, <1>7, <1>8, <1>9, Work DEF MarkStopped, At, Serve

(* serve,                                                                  *)
LEMMA LifespanUpKeeps == ASSUME IInv, Apart', NEW p \in Pids, LifespanUp(p) PROVE IInv'
<1>1. Typed /\ Own(p)
  BY DEF IInv
<1>2. ~Writing(p) /\ Holder(p) /\ proc[p].main \in {"wait", "join"}
  BY <1>1
     DEF LifespanUp, Serve, At, Own, PhaseOK, Typed, Procs, Mains, Holder, Owner, Writing
<1>3. upd' = upd
  BY DEF LifespanUp, Serve
<1> DEFINE new == [proc[p] EXCEPT !.serve = "binding"]
<1>4. proc' = [proc EXCEPT ![p] = new]
  BY <1>1 DEF LifespanUp, Serve, Typed, Procs
<1>5. new \in Procs
  BY <1>1 DEF Typed, Procs, Mains, Serves
<1>6. /\ proc' \in [Pids -> Procs] /\ proc'[p] = new
      /\ \A q \in Pids \ {p} : proc'[q] = proc[q]
  BY <1>1, <1>4, <1>5 DEF Typed
<1>7. Typed'
  BY <1>1, <1>3, <1>6 DEF LifespanUp, Serve, Typed
<1>8. Own(p)'
  BY <1>1, <1>2, <1>3, <1>6, <1>4
     DEF LifespanUp, Serve, Typed, Procs, Own, PhaseOK, ChangeOK, DocOK, HeldOK, FailedOK,
         Holder, Owner, At, Failing, Writing, Served, Posted, Doc, Statuses, Scans
<1>9. (proc[p].main \in {"wait", "join"} \/ (proc[p].main = "exit" /\ Writing(p)))'
  BY <1>1, <1>2, <1>3, <1>6 DEF LifespanUp, Serve, Typed, Procs, Failing, Writing
<1>10. QED
  BY <1>1, <1>2, <1>3, <1>6, <1>7, <1>8, <1>9, Work DEF LifespanUp, Serve

LEMMA LifespanFailsKeeps == ASSUME IInv, Apart', NEW p \in Pids, LifespanFails(p) PROVE IInv'
<1>1. Typed /\ Own(p)
  BY DEF IInv
<1>2. ~Writing(p) /\ Holder(p) /\ proc[p].main \in {"wait", "join"}
  BY <1>1
     DEF LifespanFails, Serve, At, Own, PhaseOK, Typed, Procs, Mains, Holder, Owner, Writing
<1>3. /\ upd' \in [Pids -> Updates]
      /\ \A q \in Pids \ {p} : upd'[q] = upd[q]
      /\ upd'[p].at = "read" /\ upd'[p].change.kind = "server" /\ upd'[p].change.to = "error"
  BY <1>1, Posting DEF LifespanFails, Serve, Statuses, Scans
<1> DEFINE new == [proc[p] EXCEPT !.serve = "failed"]
<1>4. proc' = [proc EXCEPT ![p] = new]
  BY <1>1 DEF LifespanFails, Serve, Typed, Procs
<1>5. new \in Procs
  BY <1>1 DEF Typed, Procs, Mains, Serves
<1>6. /\ proc' \in [Pids -> Procs] /\ proc'[p] = new
      /\ \A q \in Pids \ {p} : proc'[q] = proc[q]
  BY <1>1, <1>4, <1>5 DEF Typed
<1>7. Typed'
  BY <1>1, <1>3, <1>6 DEF LifespanFails, Serve, Typed
<1>8. Own(p)'
  BY <1>1, <1>2, <1>3, <1>6, <1>4
     DEF LifespanFails, Serve, Typed, Procs, Own, PhaseOK, ChangeOK, DocOK, HeldOK, FailedOK,
         Holder, Owner, At, Failing, Writing, Served, Posted, Doc, Statuses, Scans
<1>9. (proc[p].main \in {"wait", "join"} \/ (proc[p].main = "exit" /\ Writing(p)))'
  BY <1>1, <1>2, <1>3, <1>6 DEF LifespanFails, Serve, Typed, Procs, Failing, Writing
<1>10. QED
  BY <1>1, <1>2, <1>3, <1>6, <1>7, <1>8, <1>9, Work DEF LifespanFails, Serve

LEMMA ReadyAnywayKeeps == ASSUME IInv, Apart', NEW p \in Pids, ReadyAnyway(p) PROVE IInv'
<1>1. Typed /\ Own(p)
  BY DEF IInv
<1>2. ~Writing(p) /\ Holder(p) /\ proc[p].main \in {"wait", "join"}
  BY <1>1
     DEF ReadyAnyway, Serve, At, Own, PhaseOK, Typed, Procs, Mains, Holder, Owner, Writing
<1>3. /\ upd' \in [Pids -> Updates]
      /\ \A q \in Pids \ {p} : upd'[q] = upd[q]
      /\ upd'[p].at = "read" /\ upd'[p].change.kind = "server" /\ upd'[p].change.to = "ready"
  BY <1>1, Posting DEF ReadyAnyway, Serve, Statuses, Scans
<1> DEFINE event == proc[p].event \/ proc[p].caught
<1> DEFINE new == [proc[p] EXCEPT !.serve = "aborted", !.event = event]
<1>4. event \in BOOLEAN
  BY <1>1 DEF Typed, Procs, Serves
<1>5. proc' = [proc EXCEPT ![p] = new]
  BY <1>1 DEF ReadyAnyway, Serve, Typed, Procs
<1> HIDE DEF event
<1>6. new \in Procs
  BY <1>1, <1>4 DEF Typed, Procs, Mains, Serves
<1>7. /\ proc' \in [Pids -> Procs] /\ proc'[p] = new
      /\ \A q \in Pids \ {p} : proc'[q] = proc[q]
  BY <1>1, <1>5, <1>6 DEF Typed
<1>8. Typed'
  BY <1>1, <1>3, <1>7 DEF ReadyAnyway, Serve, Typed
<1>9. Own(p)'
  BY <1>1, <1>2, <1>3, <1>7, <1>5
     DEF ReadyAnyway, Serve, Typed, Procs, Own, PhaseOK, ChangeOK, DocOK, HeldOK, FailedOK,
         Holder, Owner, At, Failing, Writing, Served, Posted, Doc, Statuses, Scans
<1>10. (proc[p].main \in {"wait", "join"} \/ (proc[p].main = "exit" /\ Writing(p)))'
  BY <1>1, <1>2, <1>3, <1>7 DEF ReadyAnyway, Serve, Typed, Procs, Failing, Writing
<1>11. QED
  BY <1>1, <1>2, <1>3, <1>7, <1>8, <1>9, <1>10, Work DEF ReadyAnyway, Serve

LEMMA BindKeeps == ASSUME IInv, Apart', NEW p \in Pids, Bind(p) PROVE IInv'
<1>1. Typed /\ Own(p)
  BY DEF IInv
<1>2. ~Writing(p) /\ Holder(p) /\ proc[p].main \in {"wait", "join"}
  BY <1>1 DEF Bind, Serve, At, Own, PhaseOK, Typed, Procs, Mains, Holder, Owner, Writing
<1>3. /\ upd' \in [Pids -> Updates]
      /\ \A q \in Pids \ {p} : upd'[q] = upd[q]
      /\ upd'[p].at = "read" /\ upd'[p].change.kind = "server" /\ upd'[p].change.to = "ready"
  BY <1>1, Posting DEF Bind, Serve, Statuses, Scans
<1> DEFINE serve == IF proc[p].exit THEN "returned" ELSE "up"
<1> DEFINE event == proc[p].event \/ (proc[p].exit /\ proc[p].caught)
<1> DEFINE new == [proc[p] EXCEPT !.bound = TRUE, !.serve = serve, !.event = event]
<1>4. serve \in Serves /\ event \in BOOLEAN
  BY <1>1 DEF Typed, Procs, Serves
<1>5. proc' = [proc EXCEPT ![p] = new]
  BY <1>1 DEF Bind, Serve, Typed, Procs
<1> HIDE DEF serve, event
<1>6. new \in Procs
  BY <1>1, <1>4 DEF Typed, Procs, Mains, Serves
<1>7. /\ proc' \in [Pids -> Procs] /\ proc'[p] = new
      /\ \A q \in Pids \ {p} : proc'[q] = proc[q]
  BY <1>1, <1>5, <1>6 DEF Typed
<1>8. Typed'
  BY <1>1, <1>3, <1>7 DEF Bind, Serve, Typed
<1>9. Own(p)'
  BY <1>1, <1>2, <1>3, <1>7, <1>5
     DEF Bind, Serve, Typed, Procs, Own, PhaseOK, ChangeOK, DocOK, HeldOK, FailedOK, Holder,
         Owner, At, Failing, Writing, Served, Posted, Doc, Statuses, Scans
<1>10. (proc[p].main \in {"wait", "join"} \/ (proc[p].main = "exit" /\ Writing(p)))'
  BY <1>1, <1>2, <1>3, <1>7 DEF Bind, Serve, Typed, Procs, Failing, Writing
<1>11. QED
  BY <1>1, <1>2, <1>3, <1>7, <1>8, <1>9, <1>10, Work DEF Bind, Serve

LEMMA StopServingKeeps == ASSUME IInv, Apart', NEW p \in Pids, StopServing(p) PROVE IInv'
<1>1. Typed /\ Own(p)
  BY DEF IInv
<1>2. ~Writing(p) /\ Holder(p) /\ proc[p].main \in {"wait", "join"}
  BY <1>1
     DEF StopServing, Serve, At, Own, PhaseOK, Typed, Procs, Mains, Holder, Owner, Writing
<1>3. upd' = upd
  BY DEF StopServing, Serve
<1> DEFINE new == [proc[p] EXCEPT !.serve = "closing", !.bound = FALSE]
<1>4. proc' = [proc EXCEPT ![p] = new]
  BY <1>1 DEF StopServing, Serve, Typed, Procs
<1>5. new \in Procs
  BY <1>1 DEF Typed, Procs, Mains, Serves
<1>6. /\ proc' \in [Pids -> Procs] /\ proc'[p] = new
      /\ \A q \in Pids \ {p} : proc'[q] = proc[q]
  BY <1>1, <1>4, <1>5 DEF Typed
<1>7. Typed'
  BY <1>1, <1>3, <1>6 DEF StopServing, Serve, Typed
<1>8. Own(p)'
  BY <1>1, <1>2, <1>3, <1>6, <1>4
     DEF StopServing, Serve, Typed, Procs, Own, PhaseOK, ChangeOK, DocOK, HeldOK, FailedOK,
         Holder, Owner, At, Failing, Writing, Served, Posted, Doc, Statuses, Scans
<1>9. (proc[p].main \in {"wait", "join"} \/ (proc[p].main = "exit" /\ Writing(p)))'
  BY <1>1, <1>2, <1>3, <1>6 DEF StopServing, Serve, Typed, Procs, Failing, Writing
<1>10. QED
  BY <1>1, <1>2, <1>3, <1>6, <1>7, <1>8, <1>9, Work DEF StopServing, Serve

LEMMA CleanupKeeps == ASSUME IInv, Apart', NEW p \in Pids, Cleanup(p) PROVE IInv'
<1>1. Typed /\ Own(p)
  BY DEF IInv
<1>2. ~Writing(p) /\ Holder(p) /\ proc[p].main \in {"wait", "join"}
  BY <1>1 DEF Cleanup, Serve, At, Own, PhaseOK, Typed, Procs, Mains, Holder, Owner, Writing
<1>3. upd' = upd
  BY DEF Cleanup, Serve
<1> DEFINE event == proc[p].event \/ proc[p].caught
<1> DEFINE new == [proc[p] EXCEPT !.serve = "returned", !.event = event]
<1>4. event \in BOOLEAN
  BY <1>1 DEF Typed, Procs, Serves
<1>5. proc' = [proc EXCEPT ![p] = new]
  BY <1>1 DEF Cleanup, Serve, Typed, Procs
<1> HIDE DEF event
<1>6. new \in Procs
  BY <1>1, <1>4 DEF Typed, Procs, Mains, Serves
<1>7. /\ proc' \in [Pids -> Procs] /\ proc'[p] = new
      /\ \A q \in Pids \ {p} : proc'[q] = proc[q]
  BY <1>1, <1>5, <1>6 DEF Typed
<1>8. Typed'
  BY <1>1, <1>3, <1>7 DEF Cleanup, Serve, Typed
<1>9. Own(p)'
  BY <1>1, <1>2, <1>3, <1>7, <1>5
     DEF Cleanup, Serve, Typed, Procs, Own, PhaseOK, ChangeOK, DocOK, HeldOK, FailedOK,
         Holder, Owner, At, Failing, Writing, Served, Posted, Doc, Statuses, Scans
<1>10. (proc[p].main \in {"wait", "join"} \/ (proc[p].main = "exit" /\ Writing(p)))'
  BY <1>1, <1>2, <1>3, <1>7 DEF Cleanup, Serve, Typed, Procs, Failing, Writing
<1>11. QED
  BY <1>1, <1>2, <1>3, <1>7, <1>8, <1>9, <1>10, Work DEF Cleanup, Serve

(* the inspector and the config callback.                                  *)
LEMMA BeginScanKeeps == ASSUME IInv, Apart', NEW p \in Pids, BeginScan(p) PROVE IInv'
<1>1. Typed /\ Own(p)
  BY DEF IInv
<1>2. ~Writing(p) /\ Holder(p) /\ proc[p].main \in {"wait", "join"}
  BY <1>1
     DEF BeginScan, Inspecting, ScanAt, At, Own, PhaseOK, Typed, Procs, Mains, Holder, Owner,
         Writing
<1>3. /\ upd' \in [Pids -> Updates]
      /\ \A q \in Pids \ {p} : upd'[q] = upd[q]
      /\ upd'[p].at = "read" /\ upd'[p].change.kind = "scan" /\ upd'[p].change.to = "scanning"
  BY <1>1, Posting DEF BeginScan, Inspecting, ScanAt, Statuses, Scans
<1> DEFINE new == [proc[p] EXCEPT !.scan = "model"]
<1>4. proc' = [proc EXCEPT ![p] = new]
  BY <1>1 DEF BeginScan, Inspecting, ScanAt, Typed, Procs
<1>5. new \in Procs
  BY <1>1 DEF Typed, Procs, Mains, Serves
<1>6. /\ proc' \in [Pids -> Procs] /\ proc'[p] = new
      /\ \A q \in Pids \ {p} : proc'[q] = proc[q]
  BY <1>1, <1>4, <1>5 DEF Typed
<1>7. Typed'
  BY <1>1, <1>3, <1>6 DEF BeginScan, Inspecting, ScanAt, Typed
<1>8. Own(p)'
  BY <1>1, <1>2, <1>3, <1>6, <1>4
     DEF BeginScan, Inspecting, ScanAt, Typed, Procs, Own, PhaseOK, ChangeOK, DocOK, HeldOK,
         FailedOK, Holder, Owner, At, Serve, Failing, Writing, Served, Posted, Doc, Statuses,
         Scans
<1>9. (proc[p].main \in {"wait", "join"} \/ (proc[p].main = "exit" /\ Writing(p)))'
  BY <1>1, <1>2, <1>3, <1>6
     DEF BeginScan, Inspecting, ScanAt, Typed, Procs, Failing, Writing
<1>10. QED
  BY <1>1, <1>2, <1>3, <1>6, <1>7, <1>8, <1>9, Work DEF BeginScan, Inspecting, ScanAt

LEMMA ScanFailsKeeps == ASSUME IInv, Apart', NEW p \in Pids, ScanFails(p) PROVE IInv'
<1>1. Typed /\ Own(p)
  BY DEF IInv
<1>2. ~Writing(p) /\ Holder(p) /\ proc[p].main \in {"wait", "join"}
  BY <1>1
     DEF ScanFails, Inspecting, ScanAt, At, Own, PhaseOK, Typed, Procs, Mains, Holder, Owner,
         Writing
<1>3. /\ upd' \in [Pids -> Updates]
      /\ \A q \in Pids \ {p} : upd'[q] = upd[q]
      /\ upd'[p].at = "read" /\ upd'[p].change.kind = "scan" /\ upd'[p].change.to = "error"
  BY <1>1, Posting DEF ScanFails, Inspecting, ScanAt, Statuses, Scans
<1> DEFINE new == [proc[p] EXCEPT !.scan = "none"]
<1>4. proc' = [proc EXCEPT ![p] = new]
  BY <1>1 DEF ScanFails, Inspecting, ScanAt, Typed, Procs
<1>5. new \in Procs
  BY <1>1 DEF Typed, Procs, Mains, Serves
<1>6. /\ proc' \in [Pids -> Procs] /\ proc'[p] = new
      /\ \A q \in Pids \ {p} : proc'[q] = proc[q]
  BY <1>1, <1>4, <1>5 DEF Typed
<1>7. Typed'
  BY <1>1, <1>3, <1>6 DEF ScanFails, Inspecting, ScanAt, Typed
<1>8. Own(p)'
  BY <1>1, <1>2, <1>3, <1>6, <1>4
     DEF ScanFails, Inspecting, ScanAt, Typed, Procs, Own, PhaseOK, ChangeOK, DocOK, HeldOK,
         FailedOK, Holder, Owner, At, Serve, Failing, Writing, Served, Posted, Doc, Statuses,
         Scans
<1>9. (proc[p].main \in {"wait", "join"} \/ (proc[p].main = "exit" /\ Writing(p)))'
  BY <1>1, <1>2, <1>3, <1>6
     DEF ScanFails, Inspecting, ScanAt, Typed, Procs, Failing, Writing
<1>10. QED
  BY <1>1, <1>2, <1>3, <1>6, <1>7, <1>8, <1>9, Work DEF ScanFails, Inspecting, ScanAt

LEMMA SaveAnalysisKeeps == ASSUME IInv, Apart', NEW p \in Pids, SaveAnalysis(p) PROVE IInv'
<1>1. Typed /\ Own(p)
  BY DEF IInv
<1>2. ~Writing(p) /\ Holder(p) /\ proc[p].main \in {"wait", "join"}
  BY <1>1
     DEF SaveAnalysis, Inspecting, ScanAt, At, Own, PhaseOK, Typed, Procs, Mains, Holder,
         Owner, Writing
<1>3. upd' = upd
  BY DEF SaveAnalysis, Inspecting, ScanAt
<1> DEFINE new == [proc[p] EXCEPT !.scan = "saved"]
<1>4. proc' = [proc EXCEPT ![p] = new]
  BY <1>1 DEF SaveAnalysis, Inspecting, ScanAt, Typed, Procs
<1>5. new \in Procs
  BY <1>1 DEF Typed, Procs, Mains, Serves
<1>6. /\ proc' \in [Pids -> Procs] /\ proc'[p] = new
      /\ \A q \in Pids \ {p} : proc'[q] = proc[q]
  BY <1>1, <1>4, <1>5 DEF Typed
<1>7. Typed'
  BY <1>1, <1>3, <1>6 DEF SaveAnalysis, Inspecting, ScanAt, Typed
<1>8. Own(p)'
  BY <1>1, <1>2, <1>3, <1>6, <1>4
     DEF SaveAnalysis, Inspecting, ScanAt, Typed, Procs, Own, PhaseOK, ChangeOK, DocOK,
         HeldOK, FailedOK, Holder, Owner, At, Serve, Failing, Writing, Served, Posted, Doc,
         Statuses, Scans
<1>9. (proc[p].main \in {"wait", "join"} \/ (proc[p].main = "exit" /\ Writing(p)))'
  BY <1>1, <1>2, <1>3, <1>6
     DEF SaveAnalysis, Inspecting, ScanAt, Typed, Procs, Failing, Writing
<1>10. QED
  BY <1>1, <1>2, <1>3, <1>6, <1>7, <1>8, <1>9, Work DEF SaveAnalysis, Inspecting, ScanAt

LEMMA SaveNoteKeeps == ASSUME IInv, Apart', NEW p \in Pids, SaveNote(p) PROVE IInv'
<1>1. Typed /\ Own(p)
  BY DEF IInv
<1>2. ~Writing(p) /\ Holder(p) /\ proc[p].main \in {"wait", "join"}
  BY <1>1
     DEF SaveNote, Inspecting, ScanAt, At, Own, PhaseOK, Typed, Procs, Mains, Holder, Owner,
         Writing
<1>3. /\ upd' \in [Pids -> Updates]
      /\ \A q \in Pids \ {p} : upd'[q] = upd[q]
      /\ upd'[p].at = "read" /\ upd'[p].change.kind = "scan" /\ upd'[p].change.to = "error"
  BY <1>1, Posting DEF SaveNote, Inspecting, ScanAt, Statuses, Scans
<1> DEFINE new == [proc[p] EXCEPT !.scan = "saved"]
<1>4. proc' = [proc EXCEPT ![p] = new]
  BY <1>1 DEF SaveNote, Inspecting, ScanAt, Typed, Procs
<1>5. new \in Procs
  BY <1>1 DEF Typed, Procs, Mains, Serves
<1>6. /\ proc' \in [Pids -> Procs] /\ proc'[p] = new
      /\ \A q \in Pids \ {p} : proc'[q] = proc[q]
  BY <1>1, <1>4, <1>5 DEF Typed
<1>7. Typed'
  BY <1>1, <1>3, <1>6 DEF SaveNote, Inspecting, ScanAt, Typed
<1>8. Own(p)'
  BY <1>1, <1>2, <1>3, <1>6, <1>4
     DEF SaveNote, Inspecting, ScanAt, Typed, Procs, Own, PhaseOK, ChangeOK, DocOK, HeldOK,
         FailedOK, Holder, Owner, At, Serve, Failing, Writing, Served, Posted, Doc, Statuses,
         Scans
<1>9. (proc[p].main \in {"wait", "join"} \/ (proc[p].main = "exit" /\ Writing(p)))'
  BY <1>1, <1>2, <1>3, <1>6 DEF SaveNote, Inspecting, ScanAt, Typed, Procs, Failing, Writing
<1>10. QED
  BY <1>1, <1>2, <1>3, <1>6, <1>7, <1>8, <1>9, Work DEF SaveNote, Inspecting, ScanAt

LEMMA ReportDoneKeeps == ASSUME IInv, Apart', NEW p \in Pids, ReportDone(p) PROVE IInv'
<1>1. Typed /\ Own(p)
  BY DEF IInv
<1>2. ~Writing(p) /\ Holder(p) /\ proc[p].main \in {"wait", "join"}
  BY <1>1
     DEF ReportDone, Inspecting, ScanAt, At, Own, PhaseOK, Typed, Procs, Mains, Holder,
         Owner, Writing
<1>3. /\ upd' \in [Pids -> Updates]
      /\ \A q \in Pids \ {p} : upd'[q] = upd[q]
      /\ upd'[p].at = "read" /\ upd'[p].change.kind = "scan" /\ upd'[p].change.to = "done"
  BY <1>1, Posting DEF ReportDone, Inspecting, ScanAt, Statuses, Scans
<1> DEFINE new == [proc[p] EXCEPT !.scan = "none"]
<1>4. proc' = [proc EXCEPT ![p] = new]
  BY <1>1 DEF ReportDone, Inspecting, ScanAt, Typed, Procs
<1>5. new \in Procs
  BY <1>1 DEF Typed, Procs, Mains, Serves
<1>6. /\ proc' \in [Pids -> Procs] /\ proc'[p] = new
      /\ \A q \in Pids \ {p} : proc'[q] = proc[q]
  BY <1>1, <1>4, <1>5 DEF Typed
<1>7. Typed'
  BY <1>1, <1>3, <1>6 DEF ReportDone, Inspecting, ScanAt, Typed
<1>8. Own(p)'
  BY <1>1, <1>2, <1>3, <1>6, <1>4
     DEF ReportDone, Inspecting, ScanAt, Typed, Procs, Own, PhaseOK, ChangeOK, DocOK, HeldOK,
         FailedOK, Holder, Owner, At, Serve, Failing, Writing, Served, Posted, Doc, Statuses,
         Scans
<1>9. (proc[p].main \in {"wait", "join"} \/ (proc[p].main = "exit" /\ Writing(p)))'
  BY <1>1, <1>2, <1>3, <1>6
     DEF ReportDone, Inspecting, ScanAt, Typed, Procs, Failing, Writing
<1>10. QED
  BY <1>1, <1>2, <1>3, <1>6, <1>7, <1>8, <1>9, Work DEF ReportDone, Inspecting, ScanAt

LEMMA ConfigChangeKeeps == ASSUME IInv, Apart', NEW p \in Pids, ConfigChange(p) PROVE IInv'
<1>1. Typed /\ Own(p)
  BY DEF IInv
<1>2. ~Writing(p) /\ Holder(p) /\ proc[p].main \in {"wait", "join"}
  BY <1>1 DEF ConfigChange, At, Own, PhaseOK, Typed, Procs, Mains, Holder, Owner, Writing
<1>3. /\ upd' \in [Pids -> Updates]
      /\ \A q \in Pids \ {p} : upd'[q] = upd[q]
      /\ upd'[p].at = "read" /\ upd'[p].change.kind = "config" /\ upd'[p].change.to = "none"
  BY <1>1, Posting DEF ConfigChange, Statuses, Scans
<1>4. proc' = proc
  BY DEF ConfigChange
<1>5. Typed'
  BY <1>1, <1>3, <1>4 DEF ConfigChange, Typed
<1>6. Own(p)'
  BY <1>1, <1>2, <1>3, <1>4
     DEF ConfigChange, Typed, Procs, Own, PhaseOK, ChangeOK, DocOK, HeldOK, FailedOK, Holder,
         Owner, At, Serve, Failing, Writing, Served, Posted, Doc, Statuses, Scans
<1>7. (proc[p].main \in {"wait", "join"} \/ (proc[p].main = "exit" /\ Writing(p)))'
  BY <1>1, <1>2, <1>3, <1>4 DEF ConfigChange, Typed, Procs, Failing, Writing
<1>8. QED
  BY <1>1, <1>2, <1>3, <1>4, <1>5, <1>6, <1>7, Work DEF ConfigChange

-----------------------------------------------------------------------------
(* A process that starts, or is about to claim.                            *)
LEMMA StartKeeps == ASSUME IInv, Apart', NEW p \in Pids, Start(p) PROVE IInv'
<1>1. Typed /\ Own(p)
  BY DEF IInv
<1>2. upd' = upd /\ ~Writing(p) /\ proc[p].main = "off"
  BY DEF Start, At, Writing
<1> DEFINE new == [proc[p] EXCEPT !.main = "check"]
<1>3. new \in Procs
  BY <1>1 DEF Typed, Procs, Mains
<1>4. /\ proc' \in [Pids -> Procs] /\ proc'[p] = new
      /\ \A q \in Pids \ {p} : proc'[q] = proc[q]
  BY <1>1, <1>3 DEF Start, Typed
<1>5. starts' \in 0..MaxStarts
  BY <1>1, StartsAssumption DEF Start, Typed
<1>6. Typed'
  BY <1>1, <1>2, <1>4, <1>5 DEF Start, Typed
<1>7. Own(p)'
  BY <1>1, <1>2, <1>4
     DEF Start, Typed, Procs, Own, PhaseOK, ChangeOK, DocOK, HeldOK, FailedOK,
       Holder, Owner, At, Failing, Writing, Posted, Doc
<1>8. ~Holder(p)' /\ ~Clear(p)' /\ proc'[p].main = "check" /\ ~Failing(p)'
  BY <1>1, <1>2, <1>4
     DEF Typed, Procs, Holder, Owner, At, Clear, Writing, Own, PhaseOK, Failing
<1>9. QED
  BY <1>1, <1>2, <1>4, <1>6, <1>7, <1>8, Local DEF Start

(* What it reads names the holder, if there is one.                        *)
LEMMA ReadStatusKeeps == ASSUME IInv, Apart', NEW p \in Pids, ReadStatus(p) PROVE IInv'
<1>1. Typed /\ Own(p) /\ Doc \in Docs
  BY DocType DEF IInv
<1>2. proc[p].main = "check" /\ ~Writing(p)
  BY DEF ReadStatus, At, Writing
<1>3. /\ upd' \in [Pids -> Updates]
      /\ \A q \in Pids \ {p} : upd'[q] = upd[q]
      /\ \/ FoundDead(Doc) /\ upd'[p].at = "read" /\ upd'[p].change.kind = "server"
            /\ upd'[p].change.to = "crashed"
         \/ ~FoundDead(Doc) /\ upd' = upd
  <2>1. CASE FoundDead(Doc)
    BY <1>1, <2>1, Posting DEF ReadStatus, Statuses, Scans
  <2>2. CASE ~FoundDead(Doc)
    BY <1>1, <2>2 DEF ReadStatus, Typed
  <2>3. QED
    BY <2>1, <2>2
<1> DEFINE new == [proc[p] EXCEPT !.main = "admit", !.seen = Doc]
<1>4. new \in Procs
  BY <1>1 DEF Typed, Procs, Mains
<1>5. /\ proc' \in [Pids -> Procs] /\ proc'[p] = new
      /\ \A q \in Pids \ {p} : proc'[q] = proc[q]
  BY <1>1, <1>4 DEF ReadStatus, Typed
<1>6. Typed'
  BY <1>1, <1>3, <1>5 DEF ReadStatus, Typed
<1>7. proc'[p].main = "admit" /\ proc'[p].seen = Doc /\ proc'[p].serve = proc[p].serve
      /\ proc'[p].bound = proc[p].bound /\ proc'[p].port = proc[p].port
      /\ proc'[p].scan = proc[p].scan
  BY <1>1, <1>5 DEF Typed, Procs
<1> HIDE DEF new
<1>8. Own(p)'
  BY <1>1, <1>2, <1>3, <1>7 DEF ReadStatus, Own, PhaseOK, ChangeOK, DocOK, HeldOK, FailedOK,
       Holder, Owner, At, Failing, Writing, Posted, Doc, Statuses
<1>9. \A q \in Pids \ {p} : Holder(q) => Saw(p, q)'
  <2> SUFFICES ASSUME NEW q \in Pids \ {p}, Holder(q) PROVE Saw(p, q)'
    OBVIOUS
  <2>1. Own(q) /\ ~Failing(q)
    BY <1>5, <1>7 DEF IInv, Apart, Claiming, Failing
  <2>2. Doc.pid = q /\ Doc.status \in Running
    BY <2>1 DEF Own, HeldOK
  <2>3. ~FoundDead(Doc)
    BY <2>2 DEF FoundDead, Alive, Holder, Owner, At
  <2>4. QED
    BY <1>2, <1>3, <1>7, <2>2, <2>3 DEF Saw, Writing
<1>10. ~Holder(p)' /\ ~Clear(p)' /\ ~Failing(p)'
  BY <1>1, <1>2, <1>7 DEF Holder, Owner, At, Clear, Failing, Own, PhaseOK
<1>11. QED
  BY <1>1, <1>2, <1>3, <1>5, <1>6, <1>8, <1>9, <1>10, Local DEF ReadStatus

(* It is admitted only when what it read names no live process, and so     *)
(* nobody holds the project;                                               *)
LEMMA AdmitKeeps == ASSUME IInv, Apart', NEW p \in Pids, Admit(p) PROVE IInv'
<1>1. Typed /\ Own(p)
  BY DEF IInv
<1>2. proc[p].main = "admit" /\ ~Writing(p) /\ Claiming(p) /\ upd' = upd
  BY DEF Admit, At, Writing, Claiming
<1> DEFINE new == [proc[p] EXCEPT !.main = "probe", !.seen = NoDoc]
<1>3. new \in Procs
  <2>1. NoDoc \in Docs
    BY DEF NoDoc, Docs, Statuses, Scans
  <2>2. QED
    BY <1>1, <2>1 DEF Typed, Procs, Mains
<1>4. /\ proc' \in [Pids -> Procs] /\ proc'[p] = new
      /\ \A q \in Pids \ {p} : proc'[q] = proc[q]
  BY <1>1, <1>3 DEF Admit, Typed
<1>5. Typed'
  BY <1>1, <1>2, <1>4 DEF Admit, Typed
<1>6. Own(p)'
  BY <1>1, <1>2, <1>4
     DEF Admit, Typed, Procs, Own, PhaseOK, ChangeOK, DocOK, HeldOK, FailedOK,
       Holder, Owner, At, Failing, Writing, Posted, Doc
<1>7. \A q \in Pids \ {p} : ~Holder(q)
  <2> SUFFICES ASSUME NEW q \in Pids \ {p}, Holder(q) PROVE FALSE
    OBVIOUS
  <2>1. Saw(p, q)
    BY <1>2 DEF IInv, Pair
  <2>2. FoundAlive(proc[p].seen)
    BY <2>1, NoneAssumption DEF Saw, FoundAlive, Alive, Holder, Owner, At
  <2>3. QED
    BY <2>2 DEF Admit
<1>8. ~Holder(p)' /\ ~Failing(p)' /\ proc'[p].main = "probe"
  BY <1>1, <1>2, <1>4 DEF Typed, Procs, Holder, Owner, At, Failing, Own, PhaseOK
<1>9. QED
  BY <1>1, <1>2, <1>4, <1>5, <1>6, <1>7, <1>8, Local DEF Admit

(* and nobody has come to hold it when it claims.                          *)
LEMMA ClaimKeeps == ASSUME IInv, Apart', NEW p \in Pids, Claim(p) PROVE IInv'
<1>1. Typed /\ Own(p)
  BY DEF IInv
<1>2. proc[p].main = "probe" /\ ~Writing(p) /\ Claiming(p) /\ Clear(p)
  BY DEF Claim, At, Writing, Claiming, Clear
<1>3. /\ upd' \in [Pids -> Updates]
      /\ \A q \in Pids \ {p} : upd'[q] = upd[q]
      /\ upd'[p].at = "read" /\ upd'[p].change.kind = "server" /\ upd'[p].change.to = "starting"
  BY <1>1, Posting DEF Claim, Statuses, Scans
<1>4. PICK port \in Ports : proc' = [proc EXCEPT ![p].main = "boot", ![p].port = port]
  BY DEF Claim
<1> DEFINE new == [proc[p] EXCEPT !.main = "boot", !.port = port]
<1>5. new \in Procs
  BY <1>1 DEF Typed, Procs, Mains
<1>6. /\ proc' \in [Pids -> Procs] /\ proc'[p] = new
      /\ \A q \in Pids \ {p} : proc'[q] = proc[q]
  BY <1>1, <1>4, <1>5 DEF Typed
<1>7. Typed'
  BY <1>1, <1>3, <1>6 DEF Claim, Typed
<1>8. Own(p)'
  BY <1>1, <1>2, <1>3, <1>6, NoneAssumption
     DEF Claim, Typed, Procs, Own, PhaseOK, ChangeOK, DocOK,
       HeldOK, FailedOK, Holder, Owner, At, Failing, Writing, Posted, Doc, Statuses
<1>9. \A q \in Pids : ~Holder(q)
  BY <1>2 DEF IInv, Pair
<1>10. ~Holder(p)' /\ ~Failing(p)' /\ proc'[p].main = "boot"
  BY <1>1, <1>2, <1>3, <1>6 DEF Typed, Procs, Holder, Owner, At, Failing, Own, PhaseOK
<1>11. QED
  BY <1>1, <1>2, <1>3, <1>6, <1>7, <1>8, <1>9, <1>10, Local DEF Claim

-----------------------------------------------------------------------------
(* Signals change nothing that matters here; a process may end anywhere.   *)
LEMMA SignalKeeps == ASSUME IInv, Apart', NEW p \in Pids, Signal(p) PROVE IInv'
<1>1. Typed /\ Own(p)
  BY DEF IInv
<1>2. upd' = upd
  BY DEF Signal
<1>3. PICK new \in {[proc[p] EXCEPT !.event = TRUE],
                   [proc[p] EXCEPT !.caught = TRUE, !.exit = TRUE]} :
        proc' = [proc EXCEPT ![p] = new]
  BY <1>1 DEF Signal, Typed, Procs
<1>4. /\ new \in Procs
      /\ new.main = proc[p].main /\ new.serve = proc[p].serve /\ new.scan = proc[p].scan
      /\ new.seen = proc[p].seen /\ new.port = proc[p].port /\ new.bound = proc[p].bound
  BY <1>1, <1>3 DEF Typed, Procs
<1>5. /\ proc' \in [Pids -> Procs] /\ proc'[p] = new
      /\ \A q \in Pids \ {p} : proc'[q] = proc[q]
  BY <1>1, <1>3, <1>4 DEF Typed
<1>6. Typed'
  BY <1>1, <1>2, <1>5 DEF Signal, Typed
<1>7. /\ Holder(p)' <=> Holder(p)
      /\ Failing(p)' <=> Failing(p)
      /\ Claiming(p)' <=> Claiming(p)
      /\ Clear(p)' <=> Clear(p)
      /\ \A q : Saw(p, q)' <=> Saw(p, q)
  BY <1>2, <1>4, <1>5 DEF Holder, Owner, At, Failing, Claiming, Clear, Writing, Saw
<1>8. Own(p)'
  <2>1. Doc' = Doc /\ tmp' = tmp /\ metadata' = metadata
    BY DEF Signal, Doc
  <2>2. DocOK(p)'
    BY <1>1, <1>2, <1>4, <1>5, <2>1 DEF Own, DocOK, Apply
  <2>3. PhaseOK(p)' /\ ChangeOK(p)' /\ HeldOK(p)' /\ FailedOK(p)'
    BY <1>1, <1>2, <1>4, <1>5, <1>7, <2>1
       DEF Own, PhaseOK, ChangeOK, HeldOK, FailedOK, Posted, Served, Writing
  <2>4. QED
    BY <2>2, <2>3 DEF Own
<1>9. \A q \in Pids : Pair(p, q)
  BY DEF IInv
<1>10. QED
  BY <1>1, <1>2, <1>4, <1>5, <1>6, <1>7, <1>8, <1>9, Local DEF Signal, Pair

LEMMA EndsKeeps == ASSUME IInv, Apart', NEW p \in Pids, Ends(p) PROVE IInv'
<1>1. Typed
  BY DEF IInv
<1>2. Off \in Procs /\ Idle \in Updates
  BY DEF Off, Procs, Mains, Serves, Idle, Updates, Changes, NoDoc, Docs, Statuses, Scans
<1>3. /\ proc' \in [Pids -> Procs] /\ upd' \in [Pids -> Updates]
      /\ proc'[p] = Off /\ upd'[p] = Idle
      /\ \A q \in Pids \ {p} : proc'[q] = proc[q] /\ upd'[q] = upd[q]
  BY <1>1, <1>2 DEF Ends, Typed
<1>4. Typed'
  BY <1>1, <1>3 DEF Ends, Typed
<1>5. Own(p)'
  BY <1>3 DEF Own, PhaseOK, ChangeOK, DocOK, HeldOK, FailedOK, Holder, Owner, At, Failing,
              Writing, Off, Idle
<1>6. ~Holder(p)' /\ ~Failing(p)' /\ ~Claiming(p)' /\ ~Clear(p)' /\ proc'[p].main = "off"
  BY <1>3 DEF Holder, Owner, At, Failing, Claiming, Clear, Writing, Off, Idle
<1>7. QED
  BY <1>1, <1>3, <1>4, <1>5, <1>6, Local DEF Ends

-----------------------------------------------------------------------------
(* The three steps of an update.                                           *)
LEMMA WriterAlone ==
    ASSUME IInv, NEW p \in Pids, Writing(p), NEW q \in Pids \ {p}
    PROVE  ~Holder(q) /\ ~Failing(q) /\ ~Writing(q)
<1>1. proc[p].main \in {"admit", "boot", "wait", "join", "exit"}
  BY DEF IInv, Own, PhaseOK, Typed, Procs, Mains
<1>2. Pair(p, q) /\ Pair(q, p)
  BY DEF IInv
<1>3. CASE proc[p].main \in {"admit", "boot"}
  BY <1>2, <1>3, OneWriter DEF Pair, Claiming, Clear, Saw, Writing
<1>4. CASE proc[p].main \in {"wait", "join", "exit"}
  BY <1>2, <1>4, OneWriter DEF Pair, Holder, Owner
<1>5. QED
  BY <1>1, <1>3, <1>4

(* The document is made of the file,                                       *)
LEMMA ReadDocKeeps == ASSUME IInv, Apart', NEW p \in Pids, ReadDoc(p) PROVE IInv'
<1>1. Typed /\ Own(p) /\ Doc \in Docs
  BY DocType DEF IInv
<1> DEFINE made == Apply(p, upd[p].change, Doc)
<1>2. made \in Docs
  BY <1>1, ApplyType DEF Own, ChangeOK, Typed, Updates
<1>3. upd' = [upd EXCEPT ![p] = [@ EXCEPT !.at = "write", !.doc = made]]
  BY <1>1 DEF ReadDoc, Typed
<1> HIDE DEF made
<1>4. /\ upd' \in [Pids -> Updates]
      /\ \A q \in Pids \ {p} : upd'[q] = upd[q]
      /\ upd'[p].at = "write" /\ upd'[p].change = upd[p].change /\ upd'[p].doc = made
  BY <1>1, <1>2, <1>3 DEF Typed, Updates
<1>5. Typed'
  BY <1>1, <1>4 DEF ReadDoc, Typed
<1>6. proc' = proc /\ Doc' = Doc /\ metadata' = metadata /\ tmp' = tmp /\ upd[p].at = "read"
  BY DEF ReadDoc, Doc
<1>7. Own(p)'
  <2>1. DocOK(p)'
    BY <1>4, <1>6 DEF DocOK, Apply, made
  <2>2. PhaseOK(p)' /\ ChangeOK(p)' /\ HeldOK(p)' /\ FailedOK(p)'
    BY <1>1, <1>4, <1>6 DEF Own, PhaseOK, ChangeOK, HeldOK, FailedOK, Holder, Owner, At,
         Failing, Writing, Posted, Served
  <2>3. QED
    BY <2>1, <2>2 DEF Own
<1>8. /\ Holder(p)' <=> Holder(p)
      /\ Failing(p)' <=> Failing(p)
      /\ Claiming(p)' <=> Claiming(p)
      /\ Clear(p)' <=> Clear(p)
      /\ \A q : Saw(p, q)' <=> Saw(p, q)
  BY <1>4, <1>6 DEF Holder, Owner, At, Failing, Claiming, Clear, Writing, Saw
<1>9. \A q \in Pids : Pair(p, q)
  BY DEF IInv
<1>10. QED
  BY <1>1, <1>4, <1>5, <1>6, <1>7, <1>8, <1>9, Local DEF ReadDoc, Pair

(* written,                                                                *)
LEMMA WriteTmpKeeps == ASSUME IInv, Apart', NEW p \in Pids, WriteTmp(p) PROVE IInv'
<1>1. Typed /\ Own(p) /\ Writing(p) /\ upd[p].at = "write"
  BY DEF IInv, WriteTmp, Writing
<1>2. /\ upd' \in [Pids -> Updates]
      /\ \A q \in Pids \ {p} : upd'[q] = upd[q]
      /\ upd'[p].at = "rename" /\ upd'[p].change = upd[p].change /\ upd'[p].doc = upd[p].doc
  BY <1>1 DEF WriteTmp, Typed, Updates
<1>3. proc' = proc /\ Doc' = Doc /\ metadata' = metadata /\ tmp' = upd[p].doc
  BY DEF WriteTmp, Doc
<1>4. Typed'
  BY <1>1, <1>2 DEF WriteTmp, Typed, Updates
<1>5. \A q \in Pids :
        /\ Holder(q)' <=> Holder(q)
        /\ Failing(q)' <=> Failing(q)
        /\ Claiming(q)' <=> Claiming(q)
        /\ Clear(q)' <=> Clear(q)
        /\ Writing(q)' <=> Writing(q)
        /\ \A r : Saw(q, r)' <=> Saw(q, r)
  BY <1>1, <1>2, <1>3 DEF Holder, Owner, At, Failing, Claiming, Clear, Writing, Saw
<1>6. \A q \in Pids : Own(q)'
  <2> SUFFICES ASSUME NEW q \in Pids PROVE Own(q)'
    OBVIOUS
  <2>1. Own(q) /\ upd'[q].change = upd[q].change
    BY <1>2 DEF IInv
  <2>2. PhaseOK(q)' /\ ChangeOK(q)' /\ HeldOK(q)' /\ FailedOK(q)'
    BY <1>3, <1>5, <2>1 DEF Own, PhaseOK, ChangeOK, HeldOK, FailedOK, Posted, Served
  <2>3. DocOK(q)'
    <3>1. CASE q = p
      BY <1>1, <1>2, <1>3, <3>1 DEF Own, DocOK, Apply
    <3>2. CASE q # p
      BY <1>1, <1>2, <3>2, WriterAlone DEF DocOK, Writing
    <3>3. QED
      BY <3>1, <3>2
  <2>4. QED
    BY <2>2, <2>3 DEF Own
<1>7. \A q, r \in Pids : Pair(q, r)'
  BY <1>3, <1>5 DEF IInv, Pair
<1>8. QED
  BY <1>4, <1>6, <1>7 DEF IInv

(* and becomes the file: here holds begin and end.                         *)
LEMMA RenameKeeps == ASSUME IInv, Apart', NEW p \in Pids, Rename(p) PROVE IInv'
<1>1. Typed /\ Own(p) /\ Writing(p) /\ upd[p].at = "rename" /\ Doc \in Docs
  BY DocType DEF IInv, Rename, Writing
<1> DEFINE change == upd[p].change
<1>2. /\ change \in Changes
      /\ change.kind = "server" => change.to \in Statuses
      /\ change.kind = "scan" => change.to \in Scans
  BY <1>1 DEF Own, ChangeOK, Typed, Updates
<1>3. tmp = Apply(p, change, Doc) /\ tmp \in Docs
  BY <1>1, <1>2, ApplyType DEF Own, DocOK
<1>4. file' = tmp /\ Doc' = tmp /\ tmp' = None /\ proc' = proc /\ metadata' = metadata
  BY <1>3, FileAssumption DEF Rename, Doc
<1>5. Idle \in Updates
  BY DEF Idle, Updates, Changes, NoDoc, Docs, Statuses, Scans
<1>6. /\ upd' \in [Pids -> Updates] /\ upd'[p] = Idle
      /\ \A q \in Pids \ {p} : upd'[q] = upd[q]
  BY <1>1, <1>5 DEF Rename, Typed
<1>7. Typed'
  BY <1>1, <1>3, <1>4, <1>6 DEF Rename, Typed
<1>8. /\ change.kind # "server" =>
           Doc'.status = Doc.status /\ Doc'.pid = Doc.pid /\ Doc'.port = Doc.port
      /\ change.kind # "scan" => Doc'.scan = Doc.scan
      /\ change.kind = "scan" => Doc'.scan = change.to
      /\ change.kind = "server" =>
           /\ Doc'.status = change.to
           /\ change.to \in {"ready", "stopping"} => Doc'.pid = Doc.pid /\ Doc'.port = Doc.port
           /\ change.to = "starting" => Doc'.pid = p /\ Doc'.port = proc[p].port
           /\ change.to \notin {"ready", "stopping", "starting"} => Doc'.pid = None
  BY <1>1, <1>2, <1>3, <1>4, ApplyFields
<1>9. ~Writing(p)'
  BY <1>6 DEF Writing, Idle
<1> HIDE DEF change
<1>10. proc[p].main \in {"admit", "boot", "wait", "join", "exit"}
  BY <1>1 DEF Own, PhaseOK, Typed, Procs, Mains
<1>11. Own(p)'
  <2>1. PhaseOK(p)' /\ ChangeOK(p)' /\ DocOK(p)'
    BY <1>1, <1>4, <1>6, <1>9 DEF Own, PhaseOK, ChangeOK, DocOK, Idle, Writing, Posted
  <2>2. HeldOK(p)' /\ FailedOK(p)'
    <3>1. CASE proc[p].main = "admit"
      BY <1>1, <1>4, <1>9, <3>1
         DEF HeldOK, FailedOK, Holder, Owner, At, Failing, Own, PhaseOK
    <3>2. CASE proc[p].main = "boot"
      BY <1>1, <1>4, <1>8, <1>9, <3>2
         DEF HeldOK, FailedOK, Failing, Own, PhaseOK, ChangeOK, Posted, Running, change
    <3>3. CASE proc[p].main \in {"wait", "join"}
      <4>1. CASE Failing(p)
        <5>1. Doc'.pid # p
          BY <1>1, <1>8, <3>3, <4>1, NoneAssumption
             DEF Own, FailedOK, ChangeOK, Posted, change
        <5>2. QED
          BY <1>4, <4>1, <5>1 DEF HeldOK, FailedOK, Failing
      <4>2. CASE ~Failing(p)
        <5>1. Holder(p)
          BY <3>3 DEF Holder, Owner
        <5>2. QED
          BY <1>1, <1>4, <1>8, <3>3, <4>2, <5>1
             DEF Own, HeldOK, FailedOK, ChangeOK, Posted, Served, Failing, Running, change
      <4>3. QED
        BY <4>1, <4>2
    <3>4. CASE proc[p].main = "exit"
      <4>1. Doc'.pid = None
        BY <1>1, <1>8, <3>4 DEF Own, ChangeOK, Posted, change
      <4>2. QED
        BY <1>4, <1>9, <3>4, <4>1, NoneAssumption DEF HeldOK, FailedOK, Holder, Owner, At
    <3>5. QED
      BY <1>10, <3>1, <3>2, <3>3, <3>4
  <2>3. QED
    BY <2>1, <2>2 DEF Own
<1>12. \A q \in Pids \ {p} : ~Holder(q) /\ ~Failing(q) /\ ~Writing(q)
  BY <1>1, WriterAlone
<1>13. \A q \in Pids \ {p} :
        /\ ~Holder(q)' /\ ~Failing(q)' /\ ~Writing(q)'
        /\ Claiming(q)' <=> Claiming(q)
        /\ Clear(q)' <=> Clear(q)
  BY <1>4, <1>6, <1>12 DEF Holder, Owner, At, Failing, Claiming, Clear, Writing
<1>14. \A q \in Pids \ {p} : Own(q)'
  BY <1>4, <1>6, <1>13
     DEF IInv, Own, PhaseOK, ChangeOK, DocOK, HeldOK, FailedOK, Writing
<1>15. \A q, r \in Pids : Pair(q, r)'
  <2>1. /\ Claiming(p)' => Claiming(p)
        /\ Failing(p)' <=> Failing(p)
        /\ ~Clear(p)'
        /\ ~(Holder(p)' /\ (proc[p].main = "admit")')
        /\ ~(Claiming(p)' /\ Failing(p)')
    BY <1>1, <1>4, <1>9, <1>10
       DEF Claiming, Failing, Clear, Holder, Owner, At, Writing, Own, PhaseOK
  <2>2. Holder(p)' => Holder(p) \/ (Claiming(p) /\ Clear(p))
    BY <1>1, <1>4, <1>9 DEF Holder, Owner, At, Claiming, Clear, Writing
  <2>3. \A q, r \in Pids : Pair(q, r)
    BY DEF IInv
  <2>4. \A q \in Pids \ {p} : Claiming(q) => ~Failing(p)
    BY <2>3 DEF Pair
  <2>5. \A q \in Pids \ {p} : Holder(p)' => ~Clear(q) /\ ~((proc[q].main = "admit")' /\ ~Saw(q, p)')
    BY <1>4, <1>6, <2>2, <2>3 DEF Pair, Claiming, Clear, Saw, Writing
  <2>6. QED
    BY <1>13, <2>1, <2>3, <2>4, <2>5 DEF Pair
<1>16. QED
  BY <1>7, <1>11, <1>14, <1>15 DEF IInv

(* The invariant is inductive as long as Apart holds.                      *)
LEMMA NextIInv == ASSUME IInv, Apart', [Next]_vars PROVE IInv'
<1>1. ASSUME NEW p \in Pids, Update(p) PROVE IInv'
  BY <1>1, ReadDocKeeps, WriteTmpKeeps, RenameKeeps DEF Update
<1>2. ASSUME NEW p \in Pids, MainStep(p) PROVE IInv'
  BY <1>2, ReadStatusKeeps, AdmitKeeps, ClaimKeeps, RunServerKeeps, NoticeShutdownKeeps,
     MarkStoppedKeeps, EndsKeeps DEF MainStep, Refuse, NoPort, Exit
<1>3. ASSUME NEW p \in Pids, ServeStep(p) PROVE IInv'
  BY <1>3, LifespanUpKeeps, LifespanFailsKeeps, ReadyAnywayKeeps, BindKeeps, StopServingKeeps,
     CleanupKeeps, EndsKeeps DEF ServeStep, BindFails
<1>4. ASSUME NEW p \in Pids, ScanStep(p) PROVE IInv'
  BY <1>4, BeginScanKeeps, ScanFailsKeeps, SaveAnalysisKeeps, SaveNoteKeeps, ReportDoneKeeps
     DEF ScanStep
<1>5. ASSUME NEW p \in Pids, Start(p) \/ ConfigChange(p) \/ Signal(p) \/ Kill(p) PROVE IInv'
  BY <1>5, StartKeeps, ConfigChangeKeeps, SignalKeeps, EndsKeeps DEF Kill
<1>6. CASE UNCHANGED vars
  <2>1. /\ file' = file /\ tmp' = tmp /\ upd' = upd /\ proc' = proc /\ metadata' = metadata
        /\ starts' = starts /\ Doc' = Doc
    BY <1>6 DEF vars, Doc
  <2>2. Typed'
    BY <2>1 DEF IInv, Typed
  <2>3. \A p \in Pids : Own(p)'
    <3> SUFFICES ASSUME NEW p \in Pids PROVE Own(p)'
      OBVIOUS
    <3>1. Own(p)
      BY DEF IInv
    <3>2. DocOK(p)'
      BY <2>1, <3>1 DEF Own, DocOK, Apply
    <3>3. PhaseOK(p)' /\ ChangeOK(p)' /\ HeldOK(p)' /\ FailedOK(p)'
      BY <2>1, <3>1 DEF Own, PhaseOK, ChangeOK, HeldOK, FailedOK, Holder, Owner, At,
         Failing, Writing, Posted, Served
    <3>4. QED
      BY <3>2, <3>3 DEF Own
  <2>4. \A p, q \in Pids : Pair(p, q)'
    BY <2>1 DEF IInv, Pair, Holder, Owner, At, Failing, Claiming, Clear, Saw, Writing
  <2>5. QED
    BY <2>2, <2>3, <2>4 DEF IInv
<1>7. QED
  BY <1>1, <1>2, <1>3, <1>4, <1>5, <1>6 DEF Next

-----------------------------------------------------------------------------
(* The invariant holds as long as Apart does.  (A behaviour may stop       *)
(* anywhere, so []Apart => []P says that P holds in every state up to      *)
(* which Apart has held, whatever comes later.)                            *)
THEOREM Invariance == Spec => ([]Apart => []IInv)
<1>1. IInv /\ Apart' /\ [Next]_vars => IInv'
  BY NextIInv
<1>2. QED
  BY <1>1, InitIInv, PTL DEF Spec

(* One server per project: however many processes are started, killed and  *)
(* restarted, under whatever ids, two own it only after two claims, or a   *)
(* claim and a failed start-up, have overlapped                            *)
(* (ensure_singleton_and_select_port).                                     *)
THEOREM OneServer == Spec => ([]Apart => []SingleServer)
<1>1. IInv => SingleServer
  BY DEF IInv, Pair, Holder, SingleServer
<1>2. QED
  BY <1>1, Invariance, PTL

(* "ready" with the pid of an owner: it has bound the port that the file   *)
(* names (the startup override in main.py), unless claims, or a claim and  *)
(* a failed start-up, have overlapped before.                              *)
THEOREM ReadyIsTrue == Spec => ([]Apart => []ReadyTellsTruth)
<1>1. IInv => ReadyTellsTruth
  BY DEF IInv, Own, HeldOK, FailedOK, Holder, Served, ReadyTellsTruth
<1>2. QED
  BY <1>1, Invariance, PTL

(* Nobody else takes an owner's pid out of status.json, killed processes   *)
(* and pids used again included, in a behaviour whose claims and failed    *)
(* start-ups do not overlap (update_server_status,                         *)
(* ensure_singleton_and_select_port).                                      *)
THEOREM PidStands == Spec => ([]Apart => ClaimStands)
<1>1. ASSUME IInv, [Next]_vars, NEW p \in Pids, Owner(p), Doc.pid = p
      PROVE  Doc'.pid = p \/ upd'[p] # upd[p]
  <2>1. CASE Doc' = Doc
    BY <1>1, <2>1
  <2>2. ASSUME NEW q \in Pids, Rename(q) PROVE Doc'.pid = p \/ upd'[p] # upd[p]
    <3>1. Writing(q) /\ Holder(p)
      BY <1>1, <2>2 DEF Rename, Writing, Holder
    <3>2. q = p
      BY <1>1, <3>1, WriterAlone
    <3>3. upd'[p] = Idle /\ upd[p].at = "rename"
      BY <1>1, <2>2, <3>2 DEF Rename, IInv, Typed
    <3>4. QED
      BY <3>3 DEF Idle
  <2>3. QED
    BY <1>1, <2>1, <2>2
       DEF Next, vars, Update, ReadDoc, WriteTmp, MainStep, ReadStatus, Refuse,
       Admit, Claim, NoPort, RunServer, NoticeShutdown, MarkStopped, Exit, Ends, ServeStep,
       LifespanUp, LifespanFails, ReadyAnyway, Bind, BindFails, StopServing, Cleanup, ScanStep,
       BeginScan, ScanFails, SaveAnalysis, SaveNote, ReportDone, Start, ConfigChange, Signal,
       Kill, Doc
<1>2. IInv /\ [Next]_vars =>
        [\A p \in Pids : Owner(p) /\ Doc.pid = p => Doc'.pid = p \/ upd'[p] # upd[p]]_vars
  BY <1>1
<1>3. QED
  BY <1>2, Invariance, PTL DEF Spec, ClaimStands
-----------------------------------------------------------------------------
(* What holds although claims overlap: the types, the order of a process's *)
(* tasks, and that every document which says "done", wherever it is on its *)
(* way to status.json, was made when something had been saved.             *)
Fits(p) ==
    /\ PhaseOK(p)
    /\ upd[p].change.kind = "server" => upd[p].change.to \in Statuses
    /\ upd[p].change.kind = "scan" => upd[p].change.to \in Scans

NoneDone ==
    /\ Doc.scan # "done"
    /\ tmp # None => tmp.scan # "done"
    /\ \A p \in Pids :
        /\ upd[p].at \in {"write", "rename"} => upd[p].doc.scan # "done"
        /\ Writing(p) /\ upd[p].change.kind = "scan" => upd[p].change.to # "done"

Base ==
    /\ Typed
    /\ \A p \in Pids : Fits(p)
    /\ metadata = "none" => NoneDone

LEMMA InitBase == Init => Base
<1> SUFFICES ASSUME Init PROVE Base
  OBVIOUS
<1>1. Typed
  BY InitIInv DEF IInv
<1>2. \A p \in Pids : proc[p] = Off /\ upd[p] = Idle
  BY DEF Init
<1>3. \A p \in Pids : Fits(p)
  BY <1>2 DEF Fits, PhaseOK, Writing, Off, Idle
<1>4. NoneDone
  BY <1>2 DEF Init, NoneDone, Doc, NoDoc, Writing, Idle
<1>5. QED
  BY <1>1, <1>3, <1>4 DEF Base

(* A task moves on, and posts no update;                                   *)
LEMMA BaseMove ==
    ASSUME Base, NEW p \in Pids, NEW new \in Procs, proc' = [proc EXCEPT ![p] = new],
           upd' = upd, file' = file, tmp' = tmp,
           metadata' \in {"none", "note", "analysis"}, starts' \in 0..MaxStarts,
           metadata # "none" => metadata' # "none", PhaseOK(p)'
    PROVE  Base'
<1>1. Typed'
  BY DEF Base, Typed
<1>2. \A q \in Pids \ {p} : proc'[q] = proc[q]
  BY DEF Base, Typed
<1>3. \A q \in Pids : Fits(q)'
  <2>1. \A q \in Pids \ {p} : PhaseOK(q)'
    BY <1>2 DEF Base, Fits, PhaseOK, Writing
  <2>2. QED
    BY <2>1 DEF Base, Fits
<1>4. metadata' = "none" => NoneDone'
  BY DEF Base, NoneDone, Doc, Writing
<1>5. QED
  BY <1>1, <1>3, <1>4 DEF Base

(* or posts one.                                                           *)
LEMMA BasePost ==
    ASSUME Base, NEW p \in Pids, NEW new \in Procs, proc' = [proc EXCEPT ![p] = new],
           NEW kind \in {"server", "scan", "config"}, NEW to \in Statuses \cup Scans,
           kind = "server" => to \in Statuses, kind = "scan" => to \in Scans,
           Post(p, kind, to), file' = file, tmp' = tmp,
           metadata' \in {"none", "note", "analysis"}, starts' = starts,
           metadata # "none" => metadata' # "none",
           kind = "scan" /\ to = "done" => metadata' # "none", PhaseOK(p)'
    PROVE  Base'
<1>1. /\ upd' \in [Pids -> Updates]
      /\ \A q \in Pids \ {p} : upd'[q] = upd[q]
      /\ upd'[p].at = "read" /\ upd'[p].change.kind = kind /\ upd'[p].change.to = to
  BY Posting DEF Base
<1>2. Typed'
  BY <1>1 DEF Base, Typed
<1>3. \A q \in Pids \ {p} : proc'[q] = proc[q]
  BY DEF Base, Typed
<1>4. \A q \in Pids : Fits(q)'
  <2>1. \A q \in Pids \ {p} : Fits(q)'
    BY <1>1, <1>3 DEF Base, Fits, PhaseOK, Writing
  <2>2. Fits(p)'
    BY <1>1 DEF Fits
  <2>3. QED
    BY <2>1, <2>2
<1>5. metadata' = "none" => NoneDone'
  BY <1>1 DEF Base, NoneDone, Doc, Writing
<1>6. QED
  BY <1>2, <1>4, <1>5 DEF Base

LEMMA BaseEnds == ASSUME Base, NEW p \in Pids, Ends(p) PROVE Base'
<1>1. Off \in Procs /\ Idle \in Updates
  BY DEF Off, Procs, Mains, Serves, Idle, Updates, Changes, NoDoc, Docs, Statuses, Scans
<1>2. /\ proc' \in [Pids -> Procs] /\ upd' \in [Pids -> Updates]
      /\ proc'[p] = Off /\ upd'[p] = Idle
      /\ \A q \in Pids \ {p} : proc'[q] = proc[q] /\ upd'[q] = upd[q]
  BY <1>1 DEF Ends, Base, Typed
<1>3. Typed'
  BY <1>2 DEF Ends, Base, Typed
<1>4. \A q \in Pids : Fits(q)'
  BY <1>2 DEF Ends, Base, Fits, PhaseOK, Writing, Off, Idle
<1>5. metadata' = "none" => NoneDone'
  BY <1>2 DEF Ends, Base, NoneDone, Doc, Writing, Idle
<1>6. QED
  BY <1>3, <1>4, <1>5 DEF Base

LEMMA BaseUpdate == ASSUME Base, NEW p \in Pids, Update(p) PROVE Base'
<1>1. Typed /\ Doc \in Docs /\ Fits(p)
  BY DocType DEF Base
<1>2. CASE ReadDoc(p)
  <2> DEFINE made == Apply(p, upd[p].change, Doc)
  <2>1. upd[p].change \in Changes /\ upd[p].at = "read"
    BY <1>1, <1>2 DEF ReadDoc, Typed, Updates
  <2>2. made \in Docs
    BY <1>1, <2>1, ApplyType DEF Fits
  <2>3. metadata = "none" => made.scan # "done"
    <3>1. /\ upd[p].change.kind # "scan" => made.scan = Doc.scan
          /\ upd[p].change.kind = "scan" => made.scan = upd[p].change.to
      BY <1>1, <2>1, ApplyFields
    <3>2. QED
      BY <2>1, <3>1 DEF Base, NoneDone, Writing
  <2>4. upd' = [upd EXCEPT ![p] = [@ EXCEPT !.at = "write", !.doc = made]]
    BY <1>1, <1>2 DEF ReadDoc, Typed
  <2> HIDE DEF made
  <2>5. /\ upd' \in [Pids -> Updates]
        /\ \A q \in Pids \ {p} : upd'[q] = upd[q]
        /\ upd'[p].at = "write" /\ upd'[p].change = upd[p].change /\ upd'[p].doc = made
    BY <1>1, <2>2, <2>4 DEF Typed, Updates
  <2>6. Typed'
    BY <1>1, <1>2, <2>5 DEF ReadDoc, Typed
  <2>7. \A q \in Pids : Fits(q)'
    BY <1>2, <2>1, <2>5 DEF ReadDoc, Base, Fits, PhaseOK, Writing
  <2>8. metadata' = "none" => NoneDone'
    BY <1>2, <2>1, <2>3, <2>5 DEF ReadDoc, Base, NoneDone, Doc, Writing
  <2>9. QED
    BY <2>6, <2>7, <2>8 DEF Base
<1>3. CASE WriteTmp(p)
  <2>1. /\ upd[p].at = "write" /\ upd[p].doc \in Docs
        /\ upd' \in [Pids -> Updates]
        /\ \A q \in Pids \ {p} : upd'[q] = upd[q]
        /\ upd'[p].at = "rename" /\ upd'[p].change = upd[p].change /\ upd'[p].doc = upd[p].doc
    BY <1>1, <1>3 DEF WriteTmp, Typed, Updates
  <2>2. Typed'
    BY <1>1, <1>3, <2>1 DEF WriteTmp, Typed
  <2>3. \A q \in Pids : Fits(q)'
    BY <1>3, <2>1 DEF WriteTmp, Base, Fits, PhaseOK, Writing
  <2>4. metadata' = "none" => NoneDone'
    BY <1>3, <2>1 DEF WriteTmp, Base, NoneDone, Doc, Writing
  <2>5. QED
    BY <2>2, <2>3, <2>4 DEF Base
<1>4. CASE Rename(p)
  <2>1. Idle \in Updates
    BY DEF Idle, Updates, Changes, NoDoc, Docs, Statuses, Scans
  <2>2. /\ upd' \in [Pids -> Updates] /\ upd'[p] = Idle
        /\ \A q \in Pids \ {p} : upd'[q] = upd[q]
    BY <1>1, <1>4, <2>1 DEF Rename, Typed
  <2>3. Typed'
    BY <1>1, <1>4, <2>2 DEF Rename, Typed
  <2>4. \A q \in Pids : Fits(q)'
    BY <1>4, <2>2 DEF Rename, Base, Fits, PhaseOK, Writing, Idle
  <2>5. metadata' = "none" => NoneDone'
    BY <1>4, <2>2 DEF Rename, Base, NoneDone, Doc, Writing, Idle
  <2>6. QED
    BY <2>3, <2>4, <2>5 DEF Base
<1>5. QED
  BY <1>2, <1>3, <1>4 DEF Update

LEMMA BaseMain == ASSUME Base, NEW p \in Pids, MainStep(p) PROVE Base'
<1>0. Typed /\ Fits(p) /\ PhaseOK(p) /\ Doc \in Docs
  BY DocType DEF Base, Fits
<1>1. ASSUME ReadStatus(p) PROVE Base'
  <2> DEFINE new == [proc[p] EXCEPT !.main = "admit", !.seen = Doc]
  <2>1. new \in Procs
    BY <1>0 DEF Typed, Procs, Mains
  <2>2. proc' = [proc EXCEPT ![p] = new]
    BY <1>0, <1>1 DEF ReadStatus, Typed, Procs
  <2>3. PhaseOK(p)'
    BY <1>0, <1>1, <2>1, <2>2 DEF ReadStatus, At, Typed, Procs, PhaseOK
  <2> HIDE DEF new
  <2>4. CASE FoundDead(Doc)
    BY <1>0, <1>1, <2>1, <2>2, <2>3, <2>4, BasePost DEF ReadStatus, Typed, Statuses
  <2>5. CASE ~FoundDead(Doc)
    BY <1>0, <1>1, <2>1, <2>2, <2>3, <2>5, BaseMove DEF ReadStatus, Typed
  <2>6. QED
    BY <2>4, <2>5
<1>2. ASSUME Admit(p) PROVE Base'
  <2> DEFINE new == [proc[p] EXCEPT !.main = "probe", !.seen = NoDoc]
  <2>1. NoDoc \in Docs
    BY DEF NoDoc, Docs, Statuses, Scans
  <2>2. new \in Procs
    BY <1>0, <2>1 DEF Typed, Procs, Mains
  <2>3. proc' = [proc EXCEPT ![p] = new]
    BY <1>0, <1>2 DEF Admit, Typed, Procs
  <2>4. PhaseOK(p)'
    BY <1>0, <1>2, <2>2, <2>3 DEF Admit, At, Typed, Procs, PhaseOK, Writing
  <2> HIDE DEF new
  <2>5. QED
    BY <1>0, <1>2, <2>2, <2>3, <2>4, BaseMove DEF Admit, At, Typed
<1>3. ASSUME Claim(p) PROVE Base'
  <2>1. PICK port \in Ports : proc' = [proc EXCEPT ![p].main = "boot", ![p].port = port]
    BY <1>3 DEF Claim
  <2> DEFINE new == [proc[p] EXCEPT !.main = "boot", !.port = port]
  <2>2. new \in Procs
    BY <1>0 DEF Typed, Procs, Mains
  <2>3. proc' = [proc EXCEPT ![p] = new]
    BY <1>0, <2>1 DEF Typed, Procs
  <2>4. PhaseOK(p)'
    BY <1>0, <1>3, <2>2, <2>3, NoneAssumption DEF Claim, At, Typed, Procs, PhaseOK
  <2> HIDE DEF new
  <2>5. QED
    BY <1>0, <1>3, <2>2, <2>3, <2>4, BasePost DEF Claim, Typed, Statuses
<1>4. ASSUME RunServer(p) PROVE Base'
  <2> DEFINE new == [proc[p] EXCEPT !.main = "wait", !.serve = "startup",
                                !.scan = IF metadata = "none" THEN "todo" ELSE "none"]
  <2>1. new \in Procs
    BY <1>0 DEF Typed, Procs, Mains, Serves
  <2>2. proc' = [proc EXCEPT ![p] = new]
    BY <1>0, <1>4 DEF RunServer, At, Typed, Procs
  <2>3. PhaseOK(p)'
    BY <1>0, <1>4, <2>1, <2>2 DEF RunServer, At, Post, Idle, Typed, Procs, PhaseOK, Writing
  <2> HIDE DEF new
  <2>4. QED
    BY <1>0, <1>4, <2>1, <2>2, <2>3, BaseMove DEF RunServer, At, Typed, Statuses, Scans
<1>5. ASSUME NoticeShutdown(p) PROVE Base'
  <2> DEFINE new == [proc[p] EXCEPT !.main = "join", !.exit = TRUE]
  <2>1. new \in Procs
    BY <1>0 DEF Typed, Procs, Mains, Serves
  <2>2. proc' = [proc EXCEPT ![p] = new]
    BY <1>0, <1>5 DEF NoticeShutdown, At, Typed, Procs
  <2>3. PhaseOK(p)'
    BY <1>0, <1>5, <2>1, <2>2
       DEF NoticeShutdown, At, Post, Idle, Typed, Procs, PhaseOK, Writing
  <2> HIDE DEF new
  <2>4. QED
    BY <1>0, <1>5, <2>1, <2>2, <2>3, BasePost DEF NoticeShutdown, At, Typed, Statuses, Scans
<1>6. ASSUME MarkStopped(p) PROVE Base'
  <2> DEFINE new == [proc[p] EXCEPT !.main = "exit"]
  <2>1. new \in Procs
    BY <1>0 DEF Typed, Procs, Mains, Serves
  <2>2. proc' = [proc EXCEPT ![p] = new]
    BY <1>0, <1>6 DEF MarkStopped, At, Serve, Typed, Procs
  <2>3. PhaseOK(p)'
    BY <1>0, <1>6, <2>1, <2>2
       DEF MarkStopped, At, Serve, Post, Idle, Typed, Procs, PhaseOK, Writing
  <2> HIDE DEF new
  <2>4. QED
    BY <1>0, <1>6, <2>1, <2>2, <2>3, BasePost
       DEF MarkStopped, At, Serve, Typed, Statuses, Scans
<1>7. QED
  BY <1>1, <1>2, <1>3, <1>4, <1>5, <1>6, BaseEnds DEF MainStep, Refuse, NoPort, Exit

LEMMA BaseServe == ASSUME Base, NEW p \in Pids, ServeStep(p) PROVE Base'
<1>0. Typed /\ Fits(p) /\ PhaseOK(p)
  BY DEF Base, Fits
<1>1. ASSUME LifespanUp(p) PROVE Base'
  <2> DEFINE new == [proc[p] EXCEPT !.serve = "binding"]
  <2>1. new \in Procs
    BY <1>0 DEF Typed, Procs, Mains, Serves
  <2>2. proc' = [proc EXCEPT ![p] = new]
    BY <1>0, <1>1 DEF LifespanUp, Serve, Typed, Procs
  <2>3. PhaseOK(p)'
    BY <1>0, <1>1, <2>1, <2>2
       DEF LifespanUp, Serve, Post, Idle, Typed, Procs, PhaseOK, Writing
  <2> HIDE DEF new
  <2>4. QED
    BY <1>0, <1>1, <2>1, <2>2, <2>3, BaseMove DEF LifespanUp, Serve, Typed, Statuses, Scans
<1>2. ASSUME LifespanFails(p) PROVE Base'
  <2> DEFINE new == [proc[p] EXCEPT !.serve = "failed"]
  <2>1. new \in Procs
    BY <1>0 DEF Typed, Procs, Mains, Serves
  <2>2. proc' = [proc EXCEPT ![p] = new]
    BY <1>0, <1>2 DEF LifespanFails, Serve, Typed, Procs
  <2>3. PhaseOK(p)'
    BY <1>0, <1>2, <2>1, <2>2
       DEF LifespanFails, Serve, Post, Idle, Typed, Procs, PhaseOK, Writing
  <2> HIDE DEF new
  <2>4. QED
    BY <1>0, <1>2, <2>1, <2>2, <2>3, BasePost
       DEF LifespanFails, Serve, Typed, Statuses, Scans
<1>3. ASSUME ReadyAnyway(p) PROVE Base'
  <2> DEFINE new == [proc[p] EXCEPT !.serve = "aborted",
                                !.event = proc[p].event \/ proc[p].caught]
  <2>1. new \in Procs
    BY <1>0 DEF Typed, Procs, Mains, Serves
  <2>2. proc' = [proc EXCEPT ![p] = new]
    BY <1>0, <1>3 DEF ReadyAnyway, Serve, Typed, Procs
  <2>3. PhaseOK(p)'
    BY <1>0, <1>3, <2>1, <2>2
       DEF ReadyAnyway, Serve, Post, Idle, Typed, Procs, PhaseOK, Writing
  <2> HIDE DEF new
  <2>4. QED
    BY <1>0, <1>3, <2>1, <2>2, <2>3, BasePost DEF ReadyAnyway, Serve, Typed, Statuses, Scans
<1>4. ASSUME Bind(p) PROVE Base'
  <2> DEFINE new == [proc[p] EXCEPT !.bound = TRUE,
                                !.serve = IF proc[p].exit THEN "returned" ELSE "up",
                                !.event = @ \/ (proc[p].exit /\ proc[p].caught)]
  <2>1. new \in Procs
    BY <1>0 DEF Typed, Procs, Mains, Serves
  <2>2. proc' = [proc EXCEPT ![p] = new]
    BY <1>0, <1>4 DEF Bind, Serve, Typed, Procs
  <2>3. proc[p].main \in {"wait", "join"} /\ proc[p].port # None
    BY <1>0, <1>4 DEF Bind, Serve, PhaseOK, Typed, Procs, Mains
  <2>4. /\ proc'[p].main = proc[p].main /\ proc'[p].port = proc[p].port
        /\ proc'[p].scan = proc[p].scan /\ proc'[p].serve \in {"up", "returned"}
    BY <1>0, <2>2 DEF Typed, Procs
  <2> HIDE DEF new
  <2>5. PhaseOK(p)'
    BY <1>0, <1>4, <2>3, <2>4 DEF Bind, PhaseOK
  <2>6. QED
    BY <1>0, <1>4, <2>1, <2>2, <2>5, BasePost DEF Bind, Serve, Typed, Statuses, Scans
<1>5. ASSUME StopServing(p) PROVE Base'
  <2> DEFINE new == [proc[p] EXCEPT !.serve = "closing", !.bound = FALSE]
  <2>1. new \in Procs
    BY <1>0 DEF Typed, Procs, Mains, Serves
  <2>2. proc' = [proc EXCEPT ![p] = new]
    BY <1>0, <1>5 DEF StopServing, Serve, Typed, Procs
  <2>3. PhaseOK(p)'
    BY <1>0, <1>5, <2>1, <2>2
       DEF StopServing, Serve, Post, Idle, Typed, Procs, PhaseOK, Writing
  <2> HIDE DEF new
  <2>4. QED
    BY <1>0, <1>5, <2>1, <2>2, <2>3, BaseMove DEF StopServing, Serve, Typed, Statuses, Scans
<1>6. ASSUME Cleanup(p) PROVE Base'
  <2> DEFINE new == [proc[p] EXCEPT !.serve = "returned",
                                !.event = proc[p].event \/ proc[p].caught]
  <2>1. new \in Procs
    BY <1>0 DEF Typed, Procs, Mains, Serves
  <2>2. proc' = [proc EXCEPT ![p] = new]
    BY <1>0, <1>6 DEF Cleanup, Serve, Typed, Procs
  <2>3. PhaseOK(p)'
    BY <1>0, <1>6, <2>1, <2>2 DEF Cleanup, Serve, Post, Idle, Typed, Procs, PhaseOK, Writing
  <2> HIDE DEF new
  <2>4. QED
    BY <1>0, <1>6, <2>1, <2>2, <2>3, BaseMove DEF Cleanup, Serve, Typed, Statuses, Scans
<1>7. QED
  BY <1>1, <1>2, <1>3, <1>4, <1>5, <1>6, BaseEnds DEF ServeStep, BindFails

LEMMA BaseScan == ASSUME Base, NEW p \in Pids, ScanStep(p) PROVE Base'
<1>0. Typed /\ Fits(p) /\ PhaseOK(p)
  BY DEF Base, Fits
<1>1. ASSUME BeginScan(p) PROVE Base'
  <2> DEFINE new == [proc[p] EXCEPT !.scan = "model"]
  <2>1. new \in Procs
    BY <1>0 DEF Typed, Procs, Mains, Serves
  <2>2. proc' = [proc EXCEPT ![p] = new]
    BY <1>1 DEF BeginScan, Inspecting, ScanAt, ScanAt
  <2>3. PhaseOK(p)'
    BY <1>0, <1>1, <2>1, <2>2
       DEF BeginScan, Inspecting, ScanAt, Post, Idle, Typed, Procs, PhaseOK, Writing
  <2> HIDE DEF new
  <2>4. QED
    BY <1>0, <1>1, <2>1, <2>2, <2>3, BasePost
       DEF BeginScan, Inspecting, ScanAt, Typed, Statuses, Scans
<1>2. ASSUME ScanFails(p) PROVE Base'
  <2> DEFINE new == [proc[p] EXCEPT !.scan = "none"]
  <2>1. new \in Procs
    BY <1>0 DEF Typed, Procs, Mains, Serves
  <2>2. proc' = [proc EXCEPT ![p] = new]
    BY <1>2 DEF ScanFails, Inspecting, ScanAt, ScanAt
  <2>3. PhaseOK(p)'
    BY <1>0, <1>2, <2>1, <2>2
       DEF ScanFails, Inspecting, ScanAt, Post, Idle, Typed, Procs, PhaseOK, Writing
  <2> HIDE DEF new
  <2>4. QED
    BY <1>0, <1>2, <2>1, <2>2, <2>3, BasePost
       DEF ScanFails, Inspecting, ScanAt, Typed, Statuses, Scans
<1>3. ASSUME SaveAnalysis(p) PROVE Base'
  <2> DEFINE new == [proc[p] EXCEPT !.scan = "saved"]
  <2>1. new \in Procs
    BY <1>0 DEF Typed, Procs, Mains, Serves
  <2>2. proc' = [proc EXCEPT ![p] = new]
    BY <1>3 DEF SaveAnalysis, Inspecting, ScanAt, ScanAt
  <2>3. PhaseOK(p)'
    BY <1>0, <1>3, <2>1, <2>2
       DEF SaveAnalysis, Inspecting, ScanAt, Post, Idle, Typed, Procs, PhaseOK, Writing
  <2> HIDE DEF new
  <2>4. QED
    BY <1>0, <1>3, <2>1, <2>2, <2>3, BaseMove
       DEF SaveAnalysis, Inspecting, ScanAt, Typed, Statuses, Scans
<1>4. ASSUME SaveNote(p) PROVE Base'
  <2> DEFINE new == [proc[p] EXCEPT !.scan = "saved"]
  <2>1. new \in Procs
    BY <1>0 DEF Typed, Procs, Mains, Serves
  <2>2. proc' = [proc EXCEPT ![p] = new]
    BY <1>4 DEF SaveNote, Inspecting, ScanAt, ScanAt
  <2>3. PhaseOK(p)'
    BY <1>0, <1>4, <2>1, <2>2
       DEF SaveNote, Inspecting, ScanAt, Post, Idle, Typed, Procs, PhaseOK, Writing
  <2> HIDE DEF new
  <2>4. QED
    BY <1>0, <1>4, <2>1, <2>2, <2>3, BasePost
       DEF SaveNote, Inspecting, ScanAt, Typed, Statuses, Scans
<1>5. ASSUME ReportDone(p) PROVE Base'
  <2> DEFINE new == [proc[p] EXCEPT !.scan = "none"]
  <2>1. new \in Procs
    BY <1>0 DEF Typed, Procs, Mains, Serves
  <2>2. proc' = [proc EXCEPT ![p] = new]
    BY <1>5 DEF ReportDone, Inspecting, ScanAt, ScanAt
  <2>3. PhaseOK(p)'
    BY <1>0, <1>5, <2>1, <2>2
       DEF ReportDone, Inspecting, ScanAt, Post, Idle, Typed, Procs, PhaseOK, Writing
  <2> HIDE DEF new
  <2>4. QED
    BY <1>0, <1>5, <2>1, <2>2, <2>3, BasePost
       DEF ReportDone, Inspecting, ScanAt, Typed, Statuses, Scans, PhaseOK
<1>6. QED
  BY <1>1, <1>2, <1>3, <1>4, <1>5 DEF ScanStep

LEMMA BaseOther ==
    ASSUME Base, NEW p \in Pids, Start(p) \/ ConfigChange(p) \/ Signal(p) \/ Kill(p)
    PROVE  Base'
<1>0. Typed /\ Fits(p) /\ PhaseOK(p)
  BY DEF Base, Fits
<1>1. ASSUME Start(p) PROVE Base'
  <2> DEFINE new == [proc[p] EXCEPT !.main = "check"]
  <2>1. new \in Procs
    BY <1>0 DEF Typed, Procs, Mains
  <2>2. proc' = [proc EXCEPT ![p] = new]
    BY <1>0, <1>1 DEF Start, Typed, Procs
  <2>3. PhaseOK(p)'
    BY <1>0, <1>1, <2>1, <2>2 DEF Start, At, Typed, Procs, PhaseOK, Writing
  <2> HIDE DEF new
  <2>4. starts' \in 0..MaxStarts
    BY <1>0, <1>1, StartsAssumption DEF Start, Typed
  <2>5. QED
    BY <1>0, <1>1, <2>1, <2>2, <2>3, <2>4, BaseMove DEF Start, Typed
<1>2. ASSUME ConfigChange(p) PROVE Base'
  <2>1. proc[p] \in Procs /\ proc' = [proc EXCEPT ![p] = proc[p]]
    BY <1>0, <1>2 DEF ConfigChange, Typed
  <2>2. PhaseOK(p)'
    BY <1>0, <1>2 DEF ConfigChange, PhaseOK, Writing
  <2>3. QED
    BY <1>0, <1>2, <2>1, <2>2, BasePost DEF ConfigChange, Typed, Scans
<1>3. ASSUME Signal(p) PROVE Base'
  <2>1. PICK new \in {[proc[p] EXCEPT !.event = TRUE],
                      [proc[p] EXCEPT !.caught = TRUE, !.exit = TRUE]} :
          proc' = [proc EXCEPT ![p] = new]
    BY <1>0, <1>3 DEF Signal, Typed, Procs
  <2>2. /\ new \in Procs
        /\ new.main = proc[p].main /\ new.serve = proc[p].serve /\ new.scan = proc[p].scan
        /\ new.port = proc[p].port /\ new.bound = proc[p].bound
    BY <1>0, <2>1 DEF Typed, Procs
  <2>3. PhaseOK(p)'
    BY <1>0, <1>3, <2>1, <2>2 DEF Signal, Typed, PhaseOK, Writing
  <2>4. QED
    BY <1>0, <1>3, <2>1, <2>2, <2>3, BaseMove DEF Signal, Typed
<1>4. QED
  BY <1>1, <1>2, <1>3, BaseEnds DEF Kill

LEMMA NextBase == ASSUME Base, [Next]_vars PROVE Base'
<1>1. CASE UNCHANGED vars
  BY <1>1 DEF vars, Base, Typed, Fits, PhaseOK, NoneDone, Doc, Writing
<1>2. QED
  BY <1>1, BaseUpdate, BaseMain, BaseServe, BaseScan, BaseOther DEF Next

THEOREM BaseInvariance == Spec => []Base
<1>1. Base /\ [Next]_vars => Base'
  BY NextBase
<1>2. QED
  BY <1>1, InitBase, PTL DEF Spec

(* Every variable keeps its type, and only a process with a port is bound. *)
THEOREM TypeCorrect == Spec => []TypeOK
<1>1. Base => TypeOK
  BY DEF Base, Typed, Procs, Mains, Serves, Updates, Fits, PhaseOK, TypeOK
<1>2. QED
  BY <1>1, BaseInvariance, PTL

(* The scan is reported done only when something has been saved, whichever *)
(* processes overwrite each other's status.json (_run_inspector and        *)
(* inspect_and_save).                                                      *)
THEOREM DoneIsSaved == Spec => []ScanDoneIsSaved
<1>1. Base => ScanDoneIsSaved
  BY DEF Base, NoneDone, ScanDoneIsSaved
<1>2. QED
  BY <1>1, BaseInvariance, PTL
=============================================================================
