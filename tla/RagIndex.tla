------------------------------ MODULE RagIndex ------------------------------
(***************************************************************************)
(* The index of file contents (rag/vector_store.py) beside the files it    *)
(* describes, and the background tasks that keep it up to date.            *)
(*                                                                         *)
(* read_file, write_file and replace_in_file schedule index_file with the  *)
(* content they have seen; a restore or a reset starts a thread that reads *)
(* the files again; every chat request checks all indexed files first.  On *)
(* the event loop index_file runs from its delete to its add without an    *)
(* await, but a thread with its own event loop may run in between, and the *)
(* files are changed by users and by restores at any moment.               *)
(*                                                                         *)
(* A content is indexed as one batch of chunks.  Which batch of a file the *)
(* store returns first is left open.  An edit sets the modification time   *)
(* to the clock, which counts whole seconds as the code's int() does; time *)
(* 0 marks content that was given to index_file.                           *)
(*                                                                         *)
(* GuessTime, RereadTask, TrustSize and ForgetStop are likely defects of   *)
(* the operator that follows them.                                         *)
(***************************************************************************)
EXTENDS Naturals, Sequences, FiniteSets

CONSTANTS
    Paths, Contents,
    Blank,     \* a content without chunks
    Size,      \* of each content
    Absent,    \* no file
    None,      \* no content
    Loop,      \* the server's event loop
    Workers,   \* threads that reindex
    Syncs,     \* chat requests that check the index
    MaxClock,  \* bound: seconds
    MaxQueue   \* bound: scheduled tasks

Procs == {Loop} \cup Workers

ASSUME LoopAssumption == Loop \notin Workers
ASSUME ContentAssumption == Blank \in Contents /\ None \notin Contents
ASSUME SizeAssumption == Size \in [Contents -> Nat]
ASSUME BoundAssumption == MaxClock \in Nat /\ MaxQueue \in Nat
Files == [text : Contents, mtime : Nat \ {0}]
ASSUME AbsentAssumption == Absent \notin Files

VARIABLES
    disk,    \* the files
    store,   \* the batches of chunks of each file
    run,     \* index_file in progress, of each process
    queue,   \* tasks of the event loop that have not started
    job,     \* reindex_files of each worker
    sync,    \* sync_files_if_needed of each request
    clock,   \* the second it is
    phase,   \* of the server
    blurred, \* files changed unseen: between a read and its stat, or within a second
    mixed,   \* files that two processes have indexed at the same time
    known    \* files the index should have

vars == <<disk, store, run, queue, job, sync, clock, phase, blurred, mixed, known>>

Batches == [text : Contents, mtime : Nat, size : Nat]
Tasks == [p : Paths, text : Contents]

Runs(p) == {q \in Procs : run[q].at # "rest" /\ run[q].p = p}
LoopFree == phase # "down" /\ run[Loop].at = "rest" /\ \A s \in Syncs : sync[s].at # "stat"

Rest(p) == [at |-> "rest", p |-> p, text |-> Blank, mtime |-> 0, size |-> 0]
NoJob == [at |-> "none", left |-> {}, hits |-> {}]
NoSync == [at |-> "none", hash |-> [p \in Paths |-> None], todo |-> {},
           got |-> [p \in Paths |-> None], calm |-> FALSE]

RunStates == [at : {"rest", "read", "stat", "add"}, p : Paths, text : Contents,
              mtime : Nat, size : Nat]
Jobs == [at : {"none", "wait", "check", "index"}, left : SUBSET Paths, hits : SUBSET Paths]
Found == [Paths -> Contents \cup {None}]
SyncStates == [at : {"none", "stat", "read"}, hash : Found, todo : SUBSET Paths, got : Found,
               calm : BOOLEAN]

TypeOK ==
    /\ disk \in [Paths -> Files \cup {Absent}]
    /\ store \in [Paths -> SUBSET Batches]
    /\ run \in [Procs -> RunStates]
    /\ \A q \in Procs : run[q].at \in {"read", "stat"} => q \in Workers
    /\ queue \in Seq(Tasks)
    /\ job \in [Workers -> Jobs]
    /\ sync \in [Syncs -> SyncStates]
    /\ clock \in Nat \ {0}
    /\ phase \in {"up", "closing", "down"}
    /\ blurred \subseteq Paths /\ mixed \subseteq Paths /\ known \subseteq Paths

Init ==
    /\ disk = [p \in Paths |-> Absent]
    /\ store = [p \in Paths |-> {}]
    /\ run \in {[q \in Procs |-> Rest(p)] : p \in Paths}
    /\ queue = <<>>
    /\ job = [w \in Workers |-> NoJob]
    /\ sync = [s \in Syncs |-> NoSync]
    /\ clock = 1
    /\ phase = "up"
    /\ blurred = {} /\ mixed = {} /\ known = {}
-----------------------------------------------------------------------------
(* The requests other than those of S do not see an undisturbed index.     *)
Disturbed(sy, S) == [t \in Syncs |-> IF t \in S THEN sy[t] ELSE [sy[t] EXCEPT !.calm = FALSE]]

(* A file gets a content, or goes.  The change is unseen where a batch, or *)
(* a run that has read the file, will carry its time and size.             *)
Change(p, f) ==
    /\ disk' = [disk EXCEPT ![p] = f]
    /\ blurred' =
        IF \/ \E q \in Runs(p) : run[q].at = "stat"
           \/ \E b \in store[p] \cup {run[q] : q \in {r \in Runs(p) : run[r].at = "add"}} :
                f # Absent /\ b.mtime = f.mtime /\ b.size = Size[f.text] /\ b.text # f.text
        THEN blurred \cup {p} ELSE blurred

File(text) == [text |-> text, mtime |-> clock]

(* delete_by_source.                                                       *)
Delete(p) ==
    /\ store' = [store EXCEPT ![p] = {}]
    /\ known' = known \ {p}

(* index_file up to its delete; at names what comes next.                  *)
StartIndex(q, p, at, text) ==
    /\ run' = [run EXCEPT ![q] =
                 [at |-> at, p |-> p, text |-> text, mtime |-> 0, size |-> Size[text]]]
    /\ store' = [store EXCEPT ![p] = {}]
    /\ mixed' = IF Runs(p) = {} THEN mixed \ {p} ELSE mixed \cup {p}
    /\ blurred' = IF Runs(p) = {} THEN blurred \ {p} ELSE blurred

(* index_file's add, which fails when the embeddings cannot be had.        *)
GuessTime(q) ==
    /\ run[q].at = "add"
    /\ store' = [store EXCEPT ![run[q].p] =
                    @ \cup {[text |-> run[q].text, mtime |-> clock, size |-> run[q].size]}]
    /\ known' = known \cup {run[q].p}
    /\ run' = [run EXCEPT ![q].at = "rest"]
    /\ UNCHANGED <<disk, queue, job, sync, clock, phase, blurred, mixed>>
AddChunks(q) ==
    /\ run[q].at = "add"
    /\ \/ /\ run[q].text # Blank
          /\ store' = [store EXCEPT ![run[q].p] =
                @ \cup {[text |-> run[q].text, mtime |-> run[q].mtime, size |-> run[q].size]}]
          /\ known' = known \cup {run[q].p}
       \/ /\ known' = known \ {run[q].p}
          /\ UNCHANGED store
    /\ run' = [run EXCEPT ![q].at = "rest"]
    /\ UNCHANGED <<disk, queue, job, sync, clock, phase, blurred, mixed>>
-----------------------------------------------------------------------------
(* A user, or the thread of a restore, changes a file.                     *)
Edit(p) ==
    /\ \E f \in {File(c) : c \in Contents} \cup {Absent} : Change(p, f)
    /\ sync' = Disturbed(sync, {})
    /\ UNCHANGED <<store, run, queue, job, clock, phase, mixed, known>>

Tick ==
    /\ clock < MaxClock
    /\ clock' = clock + 1
    /\ UNCHANGED <<disk, store, run, queue, job, sync, phase, blurred, mixed, known>>

(* read_file.                                                              *)
ReadFile(p) ==
    /\ LoopFree /\ disk[p] # Absent /\ Len(queue) < MaxQueue
    /\ queue' = Append(queue, [p |-> p, text |-> disk[p].text])
    /\ UNCHANGED <<disk, store, run, job, sync, clock, phase, blurred, mixed, known>>

(* write_file and replace_in_file.                                         *)
WriteFile(p) ==
    /\ LoopFree /\ Len(queue) < MaxQueue
    /\ \E c \in Contents :
        /\ Change(p, File(c))
        /\ queue' = Append(queue, [p |-> p, text |-> c])
    /\ sync' = Disturbed(sync, {})
    /\ UNCHANGED <<store, run, job, clock, phase, mixed, known>>

(* delete_file; tasks scheduled before it stay scheduled.                  *)
DeleteFile(p) ==
    /\ LoopFree
    /\ Change(p, Absent)
    /\ Delete(p)
    /\ sync' = Disturbed(sync, {})
    /\ UNCHANGED <<run, queue, job, clock, phase, mixed>>

(* create_task's wrapper: tasks run in the order they were scheduled in.   *)
RereadTask ==
    /\ LoopFree /\ queue # <<>>
    /\ StartIndex(Loop, Head(queue).p, "read", Blank)
    /\ queue' = Tail(queue)
    /\ sync' = Disturbed(sync, {})
    /\ UNCHANGED <<disk, job, clock, phase, known>>
RunTask ==
    /\ LoopFree /\ queue # <<>>
    /\ StartIndex(Loop, Head(queue).p, "add", Head(queue).text)
    /\ queue' = Tail(queue)
    /\ sync' = Disturbed(sync, {})
    /\ UNCHANGED <<disk, job, clock, phase, known>>
-----------------------------------------------------------------------------
(* A restore or a reset has changed files: create_thread_task,             *)
Restored(w) ==
    /\ LoopFree /\ job[w] = NoJob
    /\ \E files \in SUBSET Paths \ {{}} :
        job' = [job EXCEPT ![w] = [at |-> "wait", left |-> files, hits |-> {}]]
    /\ UNCHANGED <<disk, store, run, queue, sync, clock, phase, blurred, mixed, known>>

(* its thread,                                                             *)
StartThread(w) ==
    /\ LoopFree /\ job[w].at = "wait"
    /\ job' = [job EXCEPT ![w].at = "check"]
    /\ UNCHANGED <<disk, store, run, queue, sync, clock, phase, blurred, mixed, known>>

(* and reindex_files: which of the files are indexed,                      *)
CheckFile(w) ==
    /\ job[w].at = "check"
    /\ \E p \in job[w].left :
        job' = [job EXCEPT
            ![w] = [at   |-> IF job[w].left = {p} THEN "index" ELSE "check",
                    left |-> job[w].left \ {p},
                    hits |-> IF store[p] = {} THEN job[w].hits ELSE job[w].hits \cup {p}]]
    /\ UNCHANGED <<disk, store, run, queue, sync, clock, phase, blurred, mixed, known>>

(* reindex_file of each of them,                                           *)
ReindexFile(w) ==
    /\ job[w].at = "index" /\ run[w].at = "rest"
    /\ \E p \in job[w].hits :
        /\ job' = [job EXCEPT ![w].hits = @ \ {p}]
        /\ \/ /\ disk[p] # Absent
              /\ StartIndex(w, p, "read", Blank)
              /\ UNCHANGED known
           \/ /\ disk[p] = Absent
              /\ Delete(p)
              /\ UNCHANGED <<run, mixed, blurred>>
    /\ sync' = Disturbed(sync, {})
    /\ UNCHANGED <<disk, queue, clock, phase>>

(* index_file without a content: read, stat, each of which may fail.       *)
ReadText(w) ==
    /\ run[w].at = "read"
    /\ \/ /\ disk[run[w].p] # Absent
          /\ run' = [run EXCEPT ![w].at = "stat", ![w].text = disk[run[w].p].text]
          /\ UNCHANGED known
       \/ /\ run' = [run EXCEPT ![w].at = "rest"]
          /\ known' = known \ {run[w].p}
    /\ UNCHANGED <<disk, store, queue, job, sync, clock, phase, blurred, mixed>>

StatFile(w) ==
    /\ run[w].at = "stat"
    /\ \/ /\ disk[run[w].p] # Absent
          /\ run' = [run EXCEPT ![w].at = "add", ![w].mtime = disk[run[w].p].mtime,
                                ![w].size = Size[disk[run[w].p].text]]
          /\ UNCHANGED known
       \/ /\ disk[run[w].p] = Absent
          /\ run' = [run EXCEPT ![w].at = "rest"]
          /\ known' = known \ {run[w].p}
    /\ UNCHANGED <<disk, store, queue, job, sync, clock, phase, blurred, mixed>>

EndJob(w) ==
    /\ job[w].at = "index" /\ job[w].hits = {} /\ run[w].at = "rest"
    /\ job' = [job EXCEPT ![w] = NoJob]
    /\ UNCHANGED <<disk, store, run, queue, sync, clock, phase, blurred, mixed, known>>
-----------------------------------------------------------------------------
(* sync_files_if_needed: the hashes of all indexed files;                  *)
StartSync(s) ==
    /\ LoopFree /\ sync[s].at = "none"
    /\ \E hash \in [Paths -> Contents \cup {None}] :
        /\ \A p \in Paths : IF store[p] = {} THEN hash[p] = None
                                             ELSE hash[p] \in {b.text : b \in store[p]}
        /\ sync' = [sync EXCEPT ![s] =
              [NoSync EXCEPT !.hash = hash, !.calm = \A q \in Procs : run[q].at = "rest",
                             !.at = IF \A p \in Paths : hash[p] = None THEN "read" ELSE "stat",
                             !.todo = {p \in Paths : hash[p] # None}]]
    /\ UNCHANGED <<disk, store, run, queue, job, clock, phase, blurred, mixed, known>>

(* whether a batch says that the file has not changed;                     *)
TrustSize(b, f) == b.size = Size[f.text]
Unchanged(b, f) == b.mtime = f.mtime /\ b.size = Size[f.text]

(* the first pass: a missing file leaves the index, an unchanged one is    *)
(* skipped, every other one is put off;                                    *)
StatIndexed(s) ==
    LET after(p, put) == [sync[s] EXCEPT !.todo = @ \ {p},
                             !.at = IF sync[s].todo = {p} THEN "read" ELSE "stat",
                             !.hash = IF put THEN @ ELSE [@ EXCEPT ![p] = None]]
    IN  /\ sync[s].at = "stat"
        /\ \E p \in sync[s].todo :
            \/ /\ disk[p] = Absent
               /\ Delete(p)
               /\ sync' = Disturbed([sync EXCEPT ![s] = after(p, FALSE)], {s})
            \/ /\ disk[p] # Absent
               /\ \E b \in store[p] : Unchanged(b, disk[p])
               /\ sync' = [sync EXCEPT ![s] = after(p, FALSE)]
               /\ UNCHANGED <<store, known>>
            \/ /\ disk[p] # Absent
               /\ store[p] = {} \/ \E b \in store[p] : ~Unchanged(b, disk[p])
               /\ sync' = [sync EXCEPT ![s] = after(p, TRUE)]
               /\ UNCHANGED <<store, known>>
        /\ UNCHANGED <<disk, run, queue, job, clock, phase, blurred, mixed>>

(* the second: a thread reads the file, which may fail,                    *)
Unread(s) == {p \in Paths : sync[s].hash[p] # None /\ sync[s].got[p] = None}

ReadIndexed(s) ==
    /\ sync[s].at = "read"
    /\ \E p \in Unread(s) :
        \/ /\ disk[p] # Absent
           /\ sync' = [sync EXCEPT ![s].got[p] = disk[p].text]
        \/ sync' = [sync EXCEPT ![s].hash[p] = None, ![s].calm = FALSE]
    /\ UNCHANGED <<disk, store, run, queue, job, clock, phase, blurred, mixed, known>>

(* and the event loop indexes what it has read if the hash is another.     *)
Compare(s) ==
    /\ LoopFree
    /\ \E p \in {r \in Paths : sync[s].got[r] # None} :
        LET done == [sync EXCEPT ![s].hash[p] = None, ![s].got[p] = None]
        IN  \/ /\ sync[s].got[p] # sync[s].hash[p]
               /\ StartIndex(Loop, p, "add", sync[s].got[p])
               /\ sync' = Disturbed(done, {s})
            \/ /\ sync[s].got[p] = sync[s].hash[p]
               /\ sync' = done
               /\ UNCHANGED <<run, store, mixed, blurred>>
    /\ UNCHANGED <<disk, queue, job, clock, phase, known>>

EndSync(s) ==
    /\ LoopFree
    /\ sync[s].at = "read" /\ \A p \in Paths : sync[s].hash[p] = None
    /\ sync' = [sync EXCEPT ![s] = NoSync]
    /\ UNCHANGED <<disk, store, run, queue, job, clock, phase, blurred, mixed, known>>
-----------------------------------------------------------------------------
(* BackgroundTaskManager.shutdown: tasks get some seconds, what has not    *)
(* started by then is cancelled; a thread cannot be.                       *)
Close ==
    /\ phase = "up" /\ phase' = "closing"
    /\ UNCHANGED <<disk, store, run, queue, job, sync, clock, blurred, mixed, known>>

CancelTasks ==
    /\ phase = "closing" /\ LoopFree
    /\ queue' = <<>>
    /\ job' = [w \in Workers |-> IF job[w].at = "wait" THEN NoJob ELSE job[w]]
    /\ UNCHANGED <<disk, store, run, sync, clock, phase, blurred, mixed, known>>

(* The process ends when its threads have; what streams have scheduled     *)
(* since is dropped.                                                       *)
Stopped ==
    /\ phase' = "down"
    /\ queue' = <<>>
    /\ job' = [w \in Workers |-> NoJob]
    /\ sync' = [s \in Syncs |-> NoSync]
    /\ run' = [q \in Procs |-> [run[q] EXCEPT !.at = "rest"]]

ForgetStop ==
    /\ phase = "closing" /\ LoopFree
    /\ Stopped
    /\ UNCHANGED <<disk, store, clock, blurred, mixed, known>>
Stop ==
    /\ phase = "closing" /\ LoopFree
    /\ \A w \in Workers : job[w].at \in {"none", "wait"}
    /\ Stopped
    /\ UNCHANGED <<disk, store, clock, blurred, mixed, known>>

Crash ==
    /\ phase # "down"
    /\ Stopped
    /\ known' = {p \in known : Runs(p) = {}}
    /\ UNCHANGED <<disk, store, clock, blurred, mixed>>

Start ==
    /\ phase = "down" /\ phase' = "up"
    /\ UNCHANGED <<disk, store, run, queue, job, sync, clock, blurred, mixed, known>>

Next ==
    \/ \E p \in Paths : Edit(p) \/ ReadFile(p) \/ WriteFile(p) \/ DeleteFile(p)
    \/ Tick \/ RunTask
    \/ \E q \in Procs : AddChunks(q)
    \/ \E w \in Workers :
        \/ Restored(w) \/ StartThread(w) \/ CheckFile(w) \/ ReindexFile(w)
        \/ ReadText(w) \/ StatFile(w) \/ EndJob(w)
    \/ \E s \in Syncs :
        StartSync(s) \/ StatIndexed(s) \/ ReadIndexed(s) \/ Compare(s) \/ EndSync(s)
    \/ Close \/ CancelTasks \/ Stop \/ Crash \/ Start

Spec == Init /\ [][Next]_vars
-----------------------------------------------------------------------------
(* Skipping is right: a batch that bears the time and the size of the file *)
(* holds its content, so that a check never passes over a stale file it    *)
(* could have repaired (sync_files_if_needed's "mtime and size unchanged,  *)
(* skip reading file"), but for files changed between the read and the     *)
(* stat of a thread, or twice in a second at the same size.                *)
SkipIsRight ==
    \A p \in Paths \ blurred :
        disk[p] # Absent =>
            \A b \in store[p] : Unchanged(b, disk[p]) => b.text = disk[p].text

(* A check that nothing disturbed leaves no stale chunk behind, whatever   *)
(* tasks, threads, edits and crashes came before it ("catch-all for any    *)
(* changes"), but for files that two processes have indexed at a time.     *)
SyncRepairs ==
    [][\A s \in Syncs :
         EndSync(s) /\ sync[s].calm =>
             \A p \in Paths \ (blurred \cup mixed) :
                 \A b \in store[p] : disk[p] # Absent /\ b.text = disk[p].text]_vars

(* A file does not drop out of the index: between its delete and its add   *)
(* there is a process at work on it, which a graceful shutdown waits for;  *)
(* only a failing add, an unreadable or missing file and a kill lose it.   *)
KeptIndexed == \A p \in known : store[p] = {} => Runs(p) # {}
=============================================================================
