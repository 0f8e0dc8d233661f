--------------------------- MODULE RagIndex_proofs ---------------------------
(***************************************************************************)
(* Proofs about RagIndex, for any files, contents, threads, requests and   *)
(* bounds: what the check skips is up to date, no file drops out of the    *)
(* index, and an undisturbed check leaves nothing stale.                   *)
(*                                                                         *)
(* No property is inductive by itself.  A batch is only as good as         *)
(* the run of index_file that adds it: StatIsRight and AddIsRight say what *)
(* a run may have read between its steps, JobsRest that a thread is inside *)
(* index_file only while it has a job.  Single and Undisturbed, further    *)
(* down, say what a check has established when it is half done.            *)
(***************************************************************************)
EXTENDS RagIndex, TLAPS

StatIsRight ==
    \A q \in Procs : run[q].at = "stat" /\ run[q].p \notin blurred =>
        disk[run[q].p] # Absent /\ run[q].text = disk[run[q].p].text

AddIsRight ==
    \A q \in Procs :
        /\ run[q].at = "add" /\ run[q].p \notin blurred
        /\ disk[run[q].p] # Absent /\ Unchanged(run[q], disk[run[q].p])
        => run[q].text = disk[run[q].p].text

JobsRest == \A w \in Workers : job[w].at \in {"none", "wait"} => run[w].at = "rest"

Right == SkipIsRight /\ StatIsRight /\ AddIsRight

IInv == TypeOK /\ Right /\ KeptIndexed /\ JobsRest
-----------------------------------------------------------------------------
LEMMA InitIInv == Init => IInv
<1> SUFFICES ASSUME Init PROVE IInv
  OBVIOUS
<1> USE DEF Init, Rest, NoJob, NoSync
<1>1. PICK p \in Paths : run = [q \in Procs |-> Rest(p)]
  OBVIOUS
<1>2. run \in [Procs -> RunStates] /\ \A q \in Procs : run[q].at = "rest"
  BY <1>1, ContentAssumption DEF RunStates
<1>3. job \in [Workers -> Jobs]
  BY DEF Jobs
<1>4. sync \in [Syncs -> SyncStates]
  BY DEF SyncStates, Found
<1>5. TypeOK
  <2>1. disk \in [Paths -> Files \cup {Absent}] /\ store \in [Paths -> SUBSET Batches]
    OBVIOUS
  <2>2. queue \in Seq(Tasks)
    OBVIOUS
  <2>3. clock = 1 /\ phase = "up" /\ blurred = {} /\ mixed = {} /\ known = {}
    OBVIOUS
  <2> HIDE DEF Init
  <2>4. QED
    BY <1>2, <1>3, <1>4, <2>1, <2>2, <2>3 DEF TypeOK
<1>6. Right /\ KeptIndexed /\ JobsRest
  <2>1. Right
    BY <1>2 DEF Right, SkipIsRight, StatIsRight, AddIsRight
  <2>2. KeptIndexed /\ JobsRest
    BY <1>2 DEF KeptIndexed, JobsRest, Procs
  <2>3. QED
    BY <2>1, <2>2
<1>7. QED
  BY <1>5, <1>6 DEF IInv

(* A file that changes unseen is blurred.                                  *)
LEMMA ChangeKeeps ==
    ASSUME TypeOK, Right, NEW p \in Paths, NEW f \in Files \cup {Absent}, Change(p, f),
           run' = run, \A r \in Paths : store'[r] \subseteq store[r]
    PROVE  Right'
<1> USE DEF Right, TypeOK
<1>1. \A r \in Paths : r # p => disk'[r] = disk[r]
  BY DEF Change
<1>2. disk'[p] = f
  BY DEF Change
<1>3. blurred \subseteq blurred'
  BY DEF Change
<1>4. ASSUME p \notin blurred'
      PROVE  /\ \A q \in Runs(p) : run[q].at # "stat"
             /\ \A b \in store[p] \cup {run[q] : q \in {r \in Runs(p) : run[r].at = "add"}} :
                  f # Absent /\ Unchanged(b, f) => b.text = f.text
  BY <1>4 DEF Change, Unchanged
<1>5. SkipIsRight'
  BY <1>1, <1>2, <1>3, <1>4 DEF SkipIsRight, Unchanged
<1>6. StatIsRight'
  BY <1>1, <1>2, <1>3, <1>4 DEF StatIsRight, Runs, RunStates
<1>7. AddIsRight'
  <2> SUFFICES ASSUME NEW q \in Procs, run[q].at = "add", run[q].p \notin blurred',
                      disk'[run[q].p] # Absent, Unchanged(run[q], disk'[run[q].p])
               PROVE  run[q].text = disk'[run[q].p].text
    BY DEF AddIsRight, Unchanged
  <2>1. CASE run[q].p = p
    <3>1. q \in {r \in Runs(p) : run[r].at = "add"}
      BY <2>1 DEF Runs
    <3>2. run[q] \in {run[r] : r \in {r \in Runs(p) : run[r].at = "add"}}
      BY <3>1
    <3>3. QED
      BY <2>1, <3>2, <1>2, <1>4
  <2>2. CASE run[q].p # p
    BY <2>2, <1>1, <1>3 DEF AddIsRight, RunStates
  <2>3. QED
    BY <2>1, <2>2
<1>8. QED
  BY <1>5, <1>6, <1>7

(* index_file starts from nothing, with content that bears no time.        *)
LEMMA StartKeeps ==
    ASSUME TypeOK, Right, NEW q \in Procs, NEW p \in Paths, NEW at \in {"read", "add"},
           NEW text \in Contents, run[q].at = "rest", StartIndex(q, p, at, text), disk' = disk
    PROVE  Right'
<1> USE DEF Right, TypeOK
<1>1. run'[q] = [at |-> at, p |-> p, text |-> text, mtime |-> 0, size |-> Size[text]]
  BY DEF StartIndex
<1>2. \A r \in Procs : r # q => run'[r] = run[r]
  BY DEF StartIndex
<1>3. store'[p] = {} /\ \A r \in Paths : r # p => store'[r] = store[r]
  BY DEF StartIndex
<1>4. blurred' = blurred \/ (Runs(p) = {} /\ blurred' = blurred \ {p})
  BY DEF StartIndex
<1>5. SkipIsRight'
  BY <1>3, <1>4 DEF SkipIsRight, Unchanged
<1>6. StatIsRight'
  BY <1>1, <1>2, <1>4 DEF StatIsRight, Runs
<1>7. AddIsRight'
  <2> SUFFICES ASSUME NEW r \in Procs, run'[r].at = "add", run'[r].p \notin blurred',
                      disk[run'[r].p] # Absent, Unchanged(run'[r], disk[run'[r].p])
               PROVE  run'[r].text = disk[run'[r].p].text
    BY DEF AddIsRight, Unchanged
  <2>1. CASE r = q
    <3>1. disk[p] \in Files
      BY <2>1, <1>1
    <3>2. QED
      BY <2>1, <1>1, <3>1 DEF Unchanged, Files
  <2>2. CASE r # q
    BY <2>2, <1>2, <1>4 DEF AddIsRight, Runs
  <2>3. QED
    BY <2>1, <2>2
<1>8. QED
  BY <1>5, <1>6, <1>7
-----------------------------------------------------------------------------
LEMMA RunType ==
    ASSUME TypeOK, NEW q \in Procs, NEW r \in RunStates,
           r.at \in {"read", "stat"} => q \in Workers, run' = [run EXCEPT ![q] = r]
    PROVE  /\ run' \in [Procs -> RunStates]
           /\ \A t \in Procs : run'[t].at \in {"read", "stat"} => t \in Workers
  BY DEF TypeOK

LEMMA StartType ==
    ASSUME TypeOK, NEW q \in Procs, NEW p \in Paths, NEW at \in {"read", "add"},
           NEW text \in Contents, StartIndex(q, p, at, text), at = "read" => q \in Workers
    PROVE  /\ run' \in [Procs -> RunStates]
           /\ \A t \in Procs : run'[t].at \in {"read", "stat"} => t \in Workers
           /\ store' \in [Paths -> SUBSET Batches]
           /\ mixed' \subseteq Paths /\ blurred' \subseteq Paths
<1>1. [at |-> at, p |-> p, text |-> text, mtime |-> 0, size |-> Size[text]] \in RunStates
  BY SizeAssumption DEF RunStates
<1>2. run' = [run EXCEPT ![q] = [at |-> at, p |-> p, text |-> text, mtime |-> 0, size |-> Size[text]]]
  BY DEF StartIndex
<1>3. store' = [store EXCEPT ![p] = {}]
  BY DEF StartIndex
<1>4. mixed' \subseteq Paths /\ blurred' \subseteq Paths
  BY DEF StartIndex, TypeOK
<1>5. store' \in [Paths -> SUBSET Batches]
  BY <1>3 DEF TypeOK
<1>6. QED
  BY <1>1, <1>2, <1>4, <1>5, RunType

LEMMA ChangeType ==
    ASSUME TypeOK, NEW p \in Paths, NEW f \in Files \cup {Absent}, Change(p, f)
    PROVE  disk' \in [Paths -> Files \cup {Absent}] /\ blurred' \subseteq Paths
  BY DEF Change, TypeOK

LEMMA FileType == ASSUME TypeOK, NEW c \in Contents PROVE File(c) \in Files
  BY DEF File, Files, TypeOK

LEMMA DisturbedType ==
    ASSUME NEW sy \in [Syncs -> SyncStates], NEW S
    PROVE  Disturbed(sy, S) \in [Syncs -> SyncStates]
<1>1. \A t \in Syncs : [sy[t] EXCEPT !.calm = FALSE] \in SyncStates
  BY DEF SyncStates
<1>2. QED
  BY <1>1 DEF Disturbed

(* Only a change of one request's state.                                   *)
LEMMA SyncUpdate ==
    ASSUME TypeOK, NEW s \in Syncs, NEW y \in SyncStates, sync' = [sync EXCEPT ![s] = y]
    PROVE  sync' \in [Syncs -> SyncStates]
  BY DEF TypeOK

LEMMA FoundUpdate ==
    ASSUME NEW h \in Found, NEW p \in Paths, NEW c \in Contents \cup {None}
    PROVE  [h EXCEPT ![p] = c] \in Found
  BY DEF Found

LEMMA ToolType ==
    ASSUME TypeOK, NEW p \in Paths, Edit(p) \/ ReadFile(p) \/ WriteFile(p) \/ DeleteFile(p)
    PROVE  TypeOK'
<1>1. CASE Edit(p)
  <2>1. PICK f \in {File(c) : c \in Contents} \cup {Absent} : Change(p, f)
    BY <1>1 DEF Edit
  <2>2. f \in Files \cup {Absent}
    BY <2>1, FileType
  <2>3. sync' \in [Syncs -> SyncStates]
    BY <1>1, DisturbedType DEF Edit, TypeOK
  <2>4. disk' \in [Paths -> Files \cup {Absent}] /\ blurred' \subseteq Paths
    BY <2>1, <2>2, ChangeType
  <2>5. QED
    BY <1>1, <2>3, <2>4 DEF Edit, TypeOK
<1>2. CASE ReadFile(p)
  <2>1. [p |-> p, text |-> disk[p].text] \in Tasks
    BY <1>2 DEF ReadFile, Tasks, Files, TypeOK
  <2>2. queue' \in Seq(Tasks)
    BY <2>1, <1>2 DEF ReadFile, TypeOK
  <2>3. QED
    BY <2>2, <1>2 DEF ReadFile, TypeOK
<1>3. CASE WriteFile(p)
  <2>1. PICK c \in Contents : Change(p, File(c)) /\ queue' = Append(queue, [p |-> p, text |-> c])
    BY <1>3 DEF WriteFile
  <2>2. [p |-> p, text |-> c] \in Tasks
    BY DEF Tasks
  <2>3. queue' \in Seq(Tasks)
    BY <2>1, <2>2 DEF TypeOK
  <2>4. disk' \in [Paths -> Files \cup {Absent}] /\ blurred' \subseteq Paths
    BY <2>1, ChangeType, FileType
  <2>5. sync' \in [Syncs -> SyncStates]
    BY <1>3, DisturbedType DEF WriteFile, TypeOK
  <2>6. QED
    BY <1>3, <2>3, <2>4, <2>5 DEF WriteFile, TypeOK
<1>4. CASE DeleteFile(p)
  <2>1. disk' \in [Paths -> Files \cup {Absent}] /\ blurred' \subseteq Paths
    BY <1>4, ChangeType DEF DeleteFile
  <2>2. sync' \in [Syncs -> SyncStates]
    BY <1>4, DisturbedType DEF DeleteFile, TypeOK
  <2>3. store' \in [Paths -> SUBSET Batches] /\ known' \subseteq Paths
    BY <1>4 DEF DeleteFile, Delete, TypeOK
  <2>4. QED
    BY <1>4, <2>1, <2>2, <2>3 DEF DeleteFile, TypeOK
<1>5. QED
  BY <1>1, <1>2, <1>3, <1>4

LEMMA IndexType ==
    ASSUME TypeOK, RunTask \/ \E q \in Procs : AddChunks(q)
    PROVE  TypeOK'
<1>1. CASE RunTask
  <2>1. Head(queue) \in Tasks /\ Tail(queue) \in Seq(Tasks)
    BY <1>1 DEF RunTask, TypeOK
  <2>2. Loop \in Procs /\ Head(queue).p \in Paths /\ Head(queue).text \in Contents
    BY <2>1 DEF Procs, Tasks
  <2>3. StartIndex(Loop, Head(queue).p, "add", Head(queue).text)
    BY <1>1 DEF RunTask
  <2>4. sync' \in [Syncs -> SyncStates]
    BY <1>1, DisturbedType DEF RunTask, TypeOK
  <2> HIDE DEF StartIndex
  <2>5. /\ run' \in [Procs -> RunStates]
        /\ \A t \in Procs : run'[t].at \in {"read", "stat"} => t \in Workers
        /\ store' \in [Paths -> SUBSET Batches]
        /\ mixed' \subseteq Paths /\ blurred' \subseteq Paths
    BY <2>2, <2>3, StartType
  <2>6. QED
    BY <1>1, <2>1, <2>4, <2>5 DEF RunTask, TypeOK
<1>2. ASSUME NEW q \in Procs, AddChunks(q) PROVE TypeOK'
  <2>1. [run[q] EXCEPT !.at = "rest"] \in RunStates /\ run[q].p \in Paths
    BY DEF TypeOK, RunStates
  <2>2. run' = [run EXCEPT ![q] = [run[q] EXCEPT !.at = "rest"]]
    BY <1>2 DEF AddChunks, TypeOK
  <2>3. [text |-> run[q].text, mtime |-> run[q].mtime, size |-> run[q].size] \in Batches
    BY DEF TypeOK, RunStates, Batches
  <2>4. store' \in [Paths -> SUBSET Batches] /\ known' \subseteq Paths
    BY <1>2, <2>1, <2>3 DEF AddChunks, TypeOK
  <2>5. [run[q] EXCEPT !.at = "rest"].at = "rest"
    BY DEF TypeOK, RunStates
  <2>6. /\ run' \in [Procs -> RunStates]
        /\ \A t \in Procs : run'[t].at \in {"read", "stat"} => t \in Workers
    BY <2>1, <2>2, <2>5, RunType
  <2>7. QED
    BY <1>2, <2>4, <2>6 DEF AddChunks, TypeOK
<1>3. QED
  BY <1>1, <1>2

LEMMA JobType ==
    ASSUME TypeOK, NEW w \in Workers,
           Restored(w) \/ StartThread(w) \/ CheckFile(w) \/ ReindexFile(w) \/ ReadText(w)
             \/ StatFile(w) \/ EndJob(w)
    PROVE  TypeOK'
<1>1. w \in Procs /\ job[w] \in Jobs /\ run[w] \in RunStates
  BY DEF Procs, TypeOK
<1>2. ASSUME NEW j \in Jobs, job' = [job EXCEPT ![w] = j] PROVE job' \in [Workers -> Jobs]
  BY <1>2 DEF TypeOK
<1>3. CASE Restored(w)
  <2>1. PICK files \in SUBSET Paths :
          job' = [job EXCEPT ![w] = [at |-> "wait", left |-> files, hits |-> {}]]
    BY <1>3 DEF Restored
  <2>2. [at |-> "wait", left |-> files, hits |-> {}] \in Jobs
    BY DEF Jobs
  <2>3. QED
    BY <1>2, <1>3, <2>1, <2>2 DEF Restored, TypeOK
<1>4. CASE StartThread(w)
  <2>1. [job[w] EXCEPT !.at = "check"] \in Jobs
    BY <1>1 DEF Jobs
  <2>2. job' = [job EXCEPT ![w] = [job[w] EXCEPT !.at = "check"]]
    BY <1>4 DEF StartThread, TypeOK
  <2>3. QED
    BY <1>2, <1>4, <2>1, <2>2 DEF StartThread, TypeOK
<1>5. CASE CheckFile(w)
  <2>1. PICK p \in job[w].left :
          job' = [job EXCEPT
            ![w] = [at   |-> IF job[w].left = {p} THEN "index" ELSE "check",
                    left |-> job[w].left \ {p},
                    hits |-> IF store[p] = {} THEN job[w].hits ELSE job[w].hits \cup {p}]]
    BY <1>5 DEF CheckFile
  <2>2. [at   |-> IF job[w].left = {p} THEN "index" ELSE "check",
         left |-> job[w].left \ {p},
         hits |-> IF store[p] = {} THEN job[w].hits ELSE job[w].hits \cup {p}] \in Jobs
    BY <1>1 DEF Jobs
  <2>3. QED
    BY <1>2, <1>5, <2>1, <2>2 DEF CheckFile, TypeOK
<1>6. CASE ReindexFile(w)
  <2>1. PICK p \in job[w].hits :
          /\ job' = [job EXCEPT ![w].hits = @ \ {p}]
          /\ \/ StartIndex(w, p, "read", Blank) /\ UNCHANGED known
             \/ Delete(p) /\ UNCHANGED <<run, mixed, blurred>>
    BY <1>6 DEF ReindexFile
  <2>2. p \in Paths
    BY <1>1 DEF Jobs
  <2>3. [job[w] EXCEPT !.hits = @ \ {p}] \in Jobs
    BY <1>1 DEF Jobs
  <2>4. job' = [job EXCEPT ![w] = [job[w] EXCEPT !.hits = @ \ {p}]]
    BY <2>1 DEF TypeOK
  <2>5. sync' \in [Syncs -> SyncStates]
    BY <1>6, DisturbedType DEF ReindexFile, TypeOK
  <2>6. /\ run' \in [Procs -> RunStates]
        /\ \A t \in Procs : run'[t].at \in {"read", "stat"} => t \in Workers
        /\ store' \in [Paths -> SUBSET Batches] /\ known' \subseteq Paths
        /\ mixed' \subseteq Paths /\ blurred' \subseteq Paths
    <3>1. CASE StartIndex(w, p, "read", Blank) /\ UNCHANGED known
      BY <1>1, <2>2, <3>1, StartType, ContentAssumption DEF TypeOK
    <3>2. CASE Delete(p) /\ UNCHANGED <<run, mixed, blurred>>
      BY <2>2, <3>2 DEF TypeOK, Delete
    <3>3. QED
      BY <2>1, <3>1, <3>2
  <2>7. job' \in [Workers -> Jobs]
    BY <1>2, <2>3, <2>4
  <2>8. QED
    BY <1>6, <2>5, <2>6, <2>7 DEF ReindexFile, TypeOK
<1>7. CASE ReadText(w)
  <2>1. PICK r \in RunStates : run' = [run EXCEPT ![w] = r]
    <3>1. [run[w] EXCEPT !.at = "rest"] \in RunStates
      BY <1>1 DEF RunStates
    <3>2. disk[run[w].p] # Absent =>
            [run[w] EXCEPT !.at = "stat", !.text = disk[run[w].p].text] \in RunStates
      BY <1>1 DEF RunStates, TypeOK, Files
    <3>3. \/ run' = [run EXCEPT ![w] = [run[w] EXCEPT !.at = "rest"]]
          \/ /\ disk[run[w].p] # Absent
             /\ run' = [run EXCEPT ![w] = [run[w] EXCEPT !.at = "stat", !.text = disk[run[w].p].text]]
      BY <1>1, <1>7 DEF ReadText, TypeOK
    <3>4. QED
      BY <3>1, <3>2, <3>3
  <2>2. QED
    BY <1>1, <1>7, <2>1, RunType DEF ReadText, TypeOK
<1>8. CASE StatFile(w)
  <2>1. PICK r \in RunStates : run' = [run EXCEPT ![w] = r]
    <3>1. [run[w] EXCEPT !.at = "rest"] \in RunStates
      BY <1>1 DEF RunStates
    <3>2. disk[run[w].p] # Absent =>
            [run[w] EXCEPT !.at = "add", !.mtime = disk[run[w].p].mtime,
                           !.size = Size[disk[run[w].p].text]] \in RunStates
      BY <1>1, SizeAssumption DEF RunStates, TypeOK, Files
    <3>3. \/ run' = [run EXCEPT ![w] = [run[w] EXCEPT !.at = "rest"]]
          \/ /\ disk[run[w].p] # Absent
             /\ run' = [run EXCEPT ![w] = [run[w] EXCEPT !.at = "add",
                            !.mtime = disk[run[w].p].mtime, !.size = Size[disk[run[w].p].text]]]
      BY <1>1, <1>8 DEF StatFile, TypeOK
    <3>4. QED
      BY <3>1, <3>2, <3>3
  <2>2. QED
    BY <1>1, <1>8, <2>1, RunType DEF StatFile, TypeOK
<1>9. CASE EndJob(w)
  <2>1. NoJob \in Jobs
    BY DEF NoJob, Jobs
  <2>2. QED
    BY <1>2, <1>9, <2>1 DEF EndJob, TypeOK
<1>10. QED
  BY <1>3, <1>4, <1>5, <1>6, <1>7, <1>8, <1>9

(* The pieces a request's state is made of.                                *)
LEMMA SyncType ==
    ASSUME TypeOK, NEW s \in Syncs,
           StartSync(s) \/ StatIndexed(s) \/ ReadIndexed(s) \/ Compare(s) \/ EndSync(s)
    PROVE  TypeOK'
<1>1. sync[s] \in SyncStates /\ sync[s].hash \in Found /\ sync[s].got \in Found
  BY DEF TypeOK, SyncStates
<1>2. NoSync \in SyncStates
  BY DEF NoSync, SyncStates, Found
<1>3. CASE StartSync(s)
  <2>1. PICK hash \in Found :
          sync' = [sync EXCEPT ![s] =
              [NoSync EXCEPT !.hash = hash, !.calm = \A q \in Procs : run[q].at = "rest",
                             !.at = IF \A p \in Paths : hash[p] = None THEN "read" ELSE "stat",
                             !.todo = {p \in Paths : hash[p] # None}]]
    BY <1>3 DEF StartSync, Found
  <2>2. PICK y \in SyncStates : sync' = [sync EXCEPT ![s] = y]
    <3>1. [NoSync EXCEPT !.hash = hash, !.calm = \A q \in Procs : run[q].at = "rest",
                         !.at = IF \A p \in Paths : hash[p] = None THEN "read" ELSE "stat",
                         !.todo = {p \in Paths : hash[p] # None}] \in SyncStates
      BY <1>2 DEF SyncStates
    <3>2. QED
      BY <2>1, <3>1
  <2>3. QED
    BY <1>3, <2>2, SyncUpdate DEF StartSync, TypeOK
<1>4. CASE StatIndexed(s)
  <2> DEFINE after(p, put) == [sync[s] EXCEPT !.todo = @ \ {p},
                             !.at = IF sync[s].todo = {p} THEN "read" ELSE "stat",
                             !.hash = IF put THEN @ ELSE [@ EXCEPT ![p] = None]]
  <2>1. PICK p \in sync[s].todo, put \in BOOLEAN :
          /\ \/ sync' = Disturbed([sync EXCEPT ![s] = after(p, put)], {s})
             \/ sync' = [sync EXCEPT ![s] = after(p, put)]
          /\ Delete(p) \/ UNCHANGED <<store, known>>
    BY <1>4 DEF StatIndexed
  <2>2. p \in Paths
    BY <1>1, <2>1 DEF SyncStates
  <2>3. [sync[s].hash EXCEPT ![p] = None] \in Found
    BY <1>1, <2>2, FoundUpdate
  <2>4. after(p, put) \in SyncStates
    BY <1>1, <2>3 DEF SyncStates
  <2> HIDE DEF after
  <2>5. [sync EXCEPT ![s] = after(p, put)] \in [Syncs -> SyncStates]
    BY <2>4 DEF TypeOK
  <2>6. sync' \in [Syncs -> SyncStates]
    BY <2>1, <2>5, DisturbedType
  <2>7. store' \in [Paths -> SUBSET Batches] /\ known' \subseteq Paths
    BY <2>1, <2>2 DEF Delete, TypeOK
  <2>8. QED
    BY <1>4, <2>6, <2>7 DEF StatIndexed, TypeOK
<1>5. CASE ReadIndexed(s)
  <2>1. PICK p \in Unread(s) :
          \/ disk[p] # Absent /\ sync' = [sync EXCEPT ![s].got[p] = disk[p].text]
          \/ sync' = [sync EXCEPT ![s].hash[p] = None, ![s].calm = FALSE]
    BY <1>5 DEF ReadIndexed
  <2>2. p \in Paths
    BY <2>1 DEF Unread
  <2>3. PICK y \in SyncStates : sync' = [sync EXCEPT ![s] = y]
    <3>1. CASE disk[p] # Absent /\ sync' = [sync EXCEPT ![s].got[p] = disk[p].text]
      <4>1. [sync[s].got EXCEPT ![p] = disk[p].text] \in Found
        BY <1>1, <2>2, <3>1, FoundUpdate DEF TypeOK, Files
      <4>2. [sync[s] EXCEPT !.got = [sync[s].got EXCEPT ![p] = disk[p].text]] \in SyncStates
        BY <1>1, <4>1 DEF SyncStates
      <4>3. sync' = [sync EXCEPT ![s] =
                       [sync[s] EXCEPT !.got = [sync[s].got EXCEPT ![p] = disk[p].text]]]
        BY <3>1
      <4>4. QED
        BY <4>2, <4>3
    <3>2. CASE sync' = [sync EXCEPT ![s].hash[p] = None, ![s].calm = FALSE]
      <4>1. [sync[s].hash EXCEPT ![p] = None] \in Found
        BY <1>1, <2>2, FoundUpdate
      <4>2. [sync[s] EXCEPT !.hash = [sync[s].hash EXCEPT ![p] = None], !.calm = FALSE]
              \in SyncStates
        BY <1>1, <4>1 DEF SyncStates
      <4>3. sync' = [sync EXCEPT ![s] = [sync[s] EXCEPT
                       !.hash = [sync[s].hash EXCEPT ![p] = None], !.calm = FALSE]]
        BY <3>2, <1>1 DEF TypeOK, SyncStates
      <4>4. QED
        BY <4>2, <4>3
    <3>3. QED
      BY <2>1, <3>1, <3>2
  <2>4. QED
    BY <1>5, <2>3, SyncUpdate DEF ReadIndexed, TypeOK
<1>6. CASE Compare(s)
  <2> DEFINE done(p) == [sync EXCEPT ![s].hash[p] = None, ![s].got[p] = None]
  <2>1. PICK p \in Paths :
          /\ sync[s].got[p] # None
          /\ \/ /\ StartIndex(Loop, p, "add", sync[s].got[p])
                /\ sync' = Disturbed(done(p), {s})
             \/ sync' = done(p) /\ UNCHANGED <<run, store, mixed, blurred>>
    BY <1>6 DEF Compare
  <2>2. done(p) \in [Syncs -> SyncStates]
    <3>1. [sync[s].hash EXCEPT ![p] = None] \in Found /\ [sync[s].got EXCEPT ![p] = None] \in Found
      BY <1>1, FoundUpdate
    <3>2. [sync[s] EXCEPT !.hash = [sync[s].hash EXCEPT ![p] = None],
                          !.got = [sync[s].got EXCEPT ![p] = None]] \in SyncStates
      BY <1>1, <3>1 DEF SyncStates
    <3>3. done(p) = [sync EXCEPT ![s] = [sync[s] EXCEPT
                       !.hash = [sync[s].hash EXCEPT ![p] = None],
                       !.got = [sync[s].got EXCEPT ![p] = None]]]
      BY <1>1 DEF TypeOK, SyncStates
    <3>4. QED
      BY <3>2, <3>3 DEF TypeOK
  <2> HIDE DEF done
  <2>3. sync' \in [Syncs -> SyncStates]
    BY <2>1, <2>2, DisturbedType
  <2>4. Loop \in Procs /\ sync[s].got[p] \in Contents
    BY <1>1, <2>1 DEF Procs, Found
  <2>5. /\ run' \in [Procs -> RunStates]
        /\ \A t \in Procs : run'[t].at \in {"read", "stat"} => t \in Workers
        /\ store' \in [Paths -> SUBSET Batches]
        /\ mixed' \subseteq Paths /\ blurred' \subseteq Paths
    <3>1. CASE StartIndex(Loop, p, "add", sync[s].got[p])
      BY <2>4, <3>1, StartType
    <3>2. CASE UNCHANGED <<run, store, mixed, blurred>>
      BY <3>2 DEF TypeOK
    <3>3. QED
      BY <2>1, <3>1, <3>2
  <2>6. QED
    BY <1>6, <2>3, <2>5 DEF Compare, TypeOK
<1>7. CASE EndSync(s)
  BY <1>2, <1>7, SyncUpdate DEF EndSync, TypeOK
<1>8. QED
  BY <1>3, <1>4, <1>5, <1>6, <1>7

LEMMA PhaseType ==
    ASSUME TypeOK, Close \/ CancelTasks \/ Stop \/ Crash \/ Start \/ Tick
    PROVE  TypeOK'
<1>1. NoJob \in Jobs /\ NoSync \in SyncStates
  BY DEF NoJob, Jobs, NoSync, SyncStates, Found
<1>2. CASE Close \/ Start \/ Tick
  BY <1>2 DEF Close, Start, Tick, TypeOK
<1>3. CASE CancelTasks
  <2>1. job' \in [Workers -> Jobs]
    BY <1>1, <1>3 DEF CancelTasks, TypeOK
  <2>2. QED
    BY <1>3, <2>1 DEF CancelTasks, TypeOK
<1>4. CASE Stopped /\ known' \subseteq known /\ UNCHANGED <<disk, store, clock, blurred, mixed>>
  <2>1. \A q \in Procs : [run[q] EXCEPT !.at = "rest"] \in RunStates
    BY DEF TypeOK, RunStates
  <2>2. run' \in [Procs -> RunStates] /\ \A q \in Procs : run'[q].at = "rest"
    BY <1>4, <2>1 DEF Stopped, TypeOK, RunStates
  <2>3. job' \in [Workers -> Jobs] /\ sync' \in [Syncs -> SyncStates]
    BY <1>1, <1>4 DEF Stopped
  <2>4. QED
    BY <1>4, <2>2, <2>3 DEF Stopped, TypeOK
<1>5. QED
  BY <1>2, <1>3, <1>4 DEF Stop, Crash

LEMMA NextType == ASSUME TypeOK, [Next]_vars PROVE TypeOK'
<1>1. CASE UNCHANGED vars
  BY <1>1 DEF vars, TypeOK
<1>2. ASSUME NEW p \in Paths, Edit(p) \/ ReadFile(p) \/ WriteFile(p) \/ DeleteFile(p)
      PROVE  TypeOK'
  BY <1>2, ToolType
<1>3. CASE RunTask \/ \E q \in Procs : AddChunks(q)
  BY <1>3, IndexType
<1>4. ASSUME NEW w \in Workers,
             Restored(w) \/ StartThread(w) \/ CheckFile(w) \/ ReindexFile(w)
               \/ ReadText(w) \/ StatFile(w) \/ EndJob(w)
      PROVE  TypeOK'
  BY <1>4, JobType
<1>5. ASSUME NEW s \in Syncs,
             StartSync(s) \/ StatIndexed(s) \/ ReadIndexed(s) \/ Compare(s) \/ EndSync(s)
      PROVE  TypeOK'
  BY <1>5, SyncType
<1>6. CASE Close \/ CancelTasks \/ Stop \/ Crash \/ Start \/ Tick
  BY <1>6, PhaseType
<1>7. QED
  BY <1>1, <1>2, <1>3, <1>4, <1>5, <1>6 DEF Next
-----------------------------------------------------------------------------
(* Fewer batches, and runs that end, leave right what is right.            *)
LEMMA FewerRight ==
    ASSUME TypeOK, Right, UNCHANGED <<disk, blurred>>,
           \A p \in Paths : store'[p] \subseteq store[p],
           \A q \in Procs : run'[q] = run[q] \/ run'[q].at = "rest"
    PROVE  Right'
<1>1. SkipIsRight'
  BY DEF Right, SkipIsRight, Unchanged
<1>2. StatIsRight'
  BY DEF Right, StatIsRight
<1>3. AddIsRight'
  BY DEF Right, AddIsRight, Unchanged
<1>4. QED
  BY <1>1, <1>2, <1>3 DEF Right

LEMMA AddRight == ASSUME TypeOK, Right, NEW q \in Procs, AddChunks(q) PROVE Right'
<1> DEFINE b == [text |-> run[q].text, mtime |-> run[q].mtime, size |-> run[q].size]
<1>1. run[q].p \in Paths /\ UNCHANGED <<disk, blurred>>
  BY DEF AddChunks, TypeOK, RunStates
<1>2. \A r \in Procs : run'[r] = run[r] \/ run'[r].at = "rest"
  BY DEF AddChunks, TypeOK, RunStates
<1>3. CASE store' = [store EXCEPT ![run[q].p] = @ \cup {b}]
  <2>1. ASSUME NEW p \in Paths \ blurred, disk[p] # Absent, NEW c \in store'[p],
               Unchanged(c, disk[p])
        PROVE  c.text = disk[p].text
    <3>1. CASE c \in store[p]
      BY <2>1, <3>1 DEF Right, SkipIsRight
    <3>2. CASE c \notin store[p]
      <4>1. p = run[q].p /\ c = b
        BY <1>1, <1>3, <2>1, <3>2 DEF TypeOK
      <4>2. Unchanged(run[q], disk[run[q].p])
        BY <2>1, <4>1 DEF Unchanged
      <4>3. run[q].at = "add" /\ run[q].p \notin blurred
        BY <2>1, <4>1 DEF AddChunks
      <4>4. QED
        BY <2>1, <4>1, <4>2, <4>3 DEF Right, AddIsRight
    <3>3. QED
      BY <3>1, <3>2
  <2>2. SkipIsRight'
    BY <1>1, <2>1 DEF SkipIsRight, Unchanged
  <2>3. StatIsRight'
    BY <1>1, <1>2 DEF Right, StatIsRight
  <2>4. AddIsRight'
    BY <1>1, <1>2 DEF Right, AddIsRight, Unchanged
  <2>5. QED
    BY <2>2, <2>3, <2>4 DEF Right
<1>4. CASE UNCHANGED store
  BY <1>1, <1>2, <1>4, FewerRight
<1>5. QED
  BY <1>3, <1>4 DEF AddChunks

(* A thread reads a file and looks at its time: what it has read is the    *)
(* file's content, or the file is blurred.                                 *)
LEMMA ReadRight ==
    ASSUME TypeOK, Right, NEW w \in Workers, ReadText(w) \/ StatFile(w)
    PROVE  Right'
<1>1. w \in Procs /\ run[w] \in RunStates /\ run[w].p \in Paths
  BY DEF Procs, TypeOK, RunStates
<1>2. UNCHANGED <<disk, store, blurred>>
  BY DEF ReadText, StatFile
<1>3. \A q \in Procs : q # w => run'[q] = run[q]
  BY DEF ReadText, StatFile, TypeOK
<1>4. SkipIsRight'
  BY <1>2 DEF Right, SkipIsRight, Unchanged
<1>5. CASE run'[w].at = "rest"
  <2>1. \A q \in Procs : run'[q] = run[q] \/ run'[q].at = "rest"
    BY <1>3, <1>5
  <2>2. \A p \in Paths : store'[p] \subseteq store[p]
    BY <1>2
  <2>3. QED
    BY <1>2, <2>1, <2>2, FewerRight
<1>6. CASE /\ disk[run[w].p] # Absent
           /\ run' = [run EXCEPT ![w].at = "stat", ![w].text = disk[run[w].p].text]
  <2>1. run'[w].at = "stat" /\ run'[w].p = run[w].p /\ run'[w].text = disk[run[w].p].text
    BY <1>1, <1>6 DEF TypeOK, RunStates
  <2>2. StatIsRight'
    <3>1. ASSUME NEW q \in Procs, run'[q].at = "stat", run'[q].p \notin blurred
          PROVE  disk[run'[q].p] # Absent /\ run'[q].text = disk[run'[q].p].text
      <4>1. CASE q = w
        BY <1>6, <2>1, <4>1
      <4>2. CASE q # w
        BY <1>3, <3>1, <4>2 DEF Right, StatIsRight
      <4>3. QED
        BY <4>1, <4>2
    <3>2. QED
      BY <1>2, <3>1 DEF StatIsRight
  <2>3. AddIsRight'
    BY <1>1, <1>2, <1>3, <2>1 DEF Right, AddIsRight, Unchanged
  <2>4. QED
    BY <1>4, <2>2, <2>3 DEF Right
<1>7. CASE /\ disk[run[w].p] # Absent /\ run[w].at = "stat"
           /\ run' = [run EXCEPT ![w].at = "add", ![w].mtime = disk[run[w].p].mtime,
                                 ![w].size = Size[disk[run[w].p].text]]
  <2>1. run'[w].at = "add" /\ run'[w].p = run[w].p /\ run'[w].text = run[w].text
    BY <1>1, <1>7 DEF TypeOK, RunStates
  <2>2. StatIsRight'
    BY <1>1, <1>2, <1>3, <2>1 DEF Right, StatIsRight
  <2>3. run[w].p \notin blurred => run[w].text = disk[run[w].p].text
    BY <1>1, <1>7 DEF Right, StatIsRight
  <2>4. AddIsRight'
    BY <1>1, <1>2, <1>3, <2>1, <2>3 DEF Right, AddIsRight, Unchanged
  <2>5. QED
    BY <1>4, <2>2, <2>4 DEF Right
<1>8. QED
  <2>1. run' = [run EXCEPT ![w].at = "rest"] => run'[w].at = "rest"
    BY <1>1 DEF TypeOK, RunStates
  <2>2. QED
    BY <1>5, <1>6, <1>7, <2>1 DEF ReadText, StatFile

LEMMA NextRight == ASSUME TypeOK, Right, [Next]_vars PROVE Right'
<1>1. ASSUME UNCHANGED <<disk, store, run, blurred>> PROVE Right'
  BY <1>1, FewerRight
<1>2. ASSUME NEW p \in Paths, Delete(p), UNCHANGED <<disk, run, blurred>> PROVE Right'
  <2>1. \A r \in Paths : store'[r] \subseteq store[r]
    BY <1>2 DEF Delete, TypeOK
  <2>2. QED
    BY <1>2, <2>1, FewerRight
<1>3. ASSUME NEW p \in Paths, Edit(p) \/ ReadFile(p) \/ WriteFile(p) \/ DeleteFile(p)
      PROVE  Right'
  <2>1. CASE ReadFile(p)
    BY <1>1, <2>1 DEF ReadFile
  <2>2. CASE Edit(p) \/ WriteFile(p) \/ DeleteFile(p)
    <3>1. PICK f \in Files \cup {Absent} : Change(p, f)
      BY <2>2, FileType DEF Edit, WriteFile, DeleteFile
    <3>2. run' = run /\ \A r \in Paths : store'[r] \subseteq store[r]
      BY <2>2 DEF Edit, WriteFile, DeleteFile, Delete, TypeOK
    <3>3. QED
      BY <3>1, <3>2, ChangeKeeps
  <2>3. QED
    BY <1>3, <2>1, <2>2
<1>4. CASE RunTask
  <2>1. Head(queue).p \in Paths /\ Head(queue).text \in Contents /\ Loop \in Procs
    <3>1. Head(queue) \in Tasks
      BY <1>4 DEF RunTask, TypeOK
    <3>2. QED
      BY <3>1 DEF Tasks, Procs
  <2>2. /\ run[Loop].at = "rest" /\ disk' = disk
        /\ StartIndex(Loop, Head(queue).p, "add", Head(queue).text)
    BY <1>4 DEF RunTask, LoopFree
  <2>3. QED
    BY <2>1, <2>2, StartKeeps
<1>5. ASSUME NEW w \in Workers, ReindexFile(w) PROVE Right'
  <2>1. PICK p \in job[w].hits :
          \/ StartIndex(w, p, "read", Blank)
          \/ Delete(p) /\ UNCHANGED <<run, mixed, blurred>>
    BY <1>5 DEF ReindexFile
  <2>2. p \in Paths /\ w \in Procs /\ run[w].at = "rest" /\ disk' = disk
    BY <1>5 DEF ReindexFile, TypeOK, Jobs, Procs
  <2>3. QED
    BY <1>2, <2>1, <2>2, StartKeeps, ContentAssumption
<1>6. ASSUME NEW s \in Syncs, StatIndexed(s) PROVE Right'
  <2>1. PICK p \in sync[s].todo : Delete(p) \/ UNCHANGED store
    BY <1>6 DEF StatIndexed
  <2>2. p \in Paths /\ UNCHANGED <<disk, run, blurred>>
    BY <1>6 DEF StatIndexed, TypeOK, SyncStates
  <2>3. QED
    BY <1>1, <1>2, <2>1, <2>2
<1>7. ASSUME NEW s \in Syncs, Compare(s) PROVE Right'
  <2>1. PICK p \in Paths :
          /\ sync[s].got[p] # None
          /\ \/ StartIndex(Loop, p, "add", sync[s].got[p])
             \/ UNCHANGED <<run, store, mixed, blurred>>
    BY <1>7 DEF Compare
  <2>2. /\ Loop \in Procs /\ sync[s].got[p] \in Contents
        /\ run[Loop].at = "rest" /\ disk' = disk
    BY <1>7, <2>1 DEF Compare, LoopFree, Procs, TypeOK, SyncStates, Found
  <2>3. QED
    BY <1>1, <2>1, <2>2, StartKeeps
<1>8. CASE Stop \/ Crash
  <2>1. \A q \in Procs : run'[q].at = "rest"
    BY <1>8 DEF Stop, Crash, Stopped, TypeOK, RunStates
  <2>2. UNCHANGED <<disk, store, blurred>>
    BY <1>8 DEF Stop, Crash
  <2>3. QED
    BY <2>1, <2>2, FewerRight
<1>9. CASE \/ Tick \/ Close \/ CancelTasks \/ Start \/ UNCHANGED vars
           \/ \E w \in Workers : Restored(w) \/ StartThread(w) \/ CheckFile(w) \/ EndJob(w)
           \/ \E s \in Syncs : StartSync(s) \/ ReadIndexed(s) \/ EndSync(s)
  BY <1>1, <1>9 DEF Tick, Close, CancelTasks, Start, Restored, StartThread, CheckFile, EndJob,
                    StartSync, ReadIndexed, EndSync, vars
<1>10. QED
  BY <1>3, <1>4, <1>5, <1>6, <1>7, <1>8, <1>9, AddRight, ReadRight DEF Next
-----------------------------------------------------------------------------
(* Files that leave the index on purpose, and runs that do not end, take   *)
(* no file out of it.                                                      *)
LEMMA FewerKept ==
    ASSUME TypeOK, KeptIndexed, known' \subseteq known,
           \A p \in known' : store'[p] = {} => store[p] = {} /\ Runs(p) \subseteq Runs(p)'
    PROVE  KeptIndexed'
<1>1. ASSUME NEW p \in known', store'[p] = {} PROVE Runs(p)' # {}
  <2>1. p \in known /\ store[p] = {} /\ Runs(p) \subseteq Runs(p)'
    BY <1>1
  <2>2. Runs(p) # {}
    BY <2>1 DEF KeptIndexed
  <2>3. QED
    BY <2>1, <2>2
<1>2. QED
  BY <1>1 DEF KeptIndexed

(* index_file deletes the chunks of its file, and is at work on it.        *)
LEMMA StartKept ==
    ASSUME TypeOK, KeptIndexed, NEW q \in Procs, NEW p \in Paths, NEW at \in {"read", "add"},
           NEW text \in Contents, run[q].at = "rest", StartIndex(q, p, at, text), known' = known
    PROVE  KeptIndexed'
<1>1. run'[q].at # "rest" /\ run'[q].p = p
  BY DEF StartIndex, TypeOK
<1>2. \A r \in Procs : r # q => run'[r] = run[r]
  BY DEF StartIndex, TypeOK
<1>3. \A r \in Paths : r # p => store'[r] = store[r]
  BY DEF StartIndex, TypeOK
<1>4. \A r \in Paths : Runs(r) \subseteq Runs(r)'
  BY <1>2 DEF Runs
<1>5. q \in Runs(p)'
  BY <1>1 DEF Runs
<1>6. ASSUME NEW r \in known', store'[r] = {} PROVE Runs(r)' # {}
  <2>1. r \in Paths /\ r \in known
    BY <1>6 DEF TypeOK
  <2>2. CASE r = p
    BY <1>5, <2>2
  <2>3. CASE r # p
    <3>1. Runs(r) # {}
      BY <1>3, <1>6, <2>1, <2>3 DEF KeptIndexed
    <3>2. QED
      BY <1>4, <2>1, <3>1
  <2>4. QED
    BY <2>2, <2>3
<1>7. QED
  BY <1>6 DEF KeptIndexed

(* A run ends: it has added its chunks, or has given the file up.          *)
LEMMA EndKept ==
    ASSUME TypeOK, KeptIndexed, NEW q \in Procs, run' = [run EXCEPT ![q].at = "rest"],
           \/ known' = known \ {run[q].p} /\ UNCHANGED store
           \/ /\ known' = known \cup {run[q].p}
              /\ \E b : store' = [store EXCEPT ![run[q].p] = @ \cup {b}]
    PROVE  KeptIndexed'
<1>1. \A r \in Procs : r # q => run'[r] = run[r]
  BY DEF TypeOK
<1>2. run[q].p \in Paths
  BY DEF TypeOK, RunStates
<1>3. ASSUME NEW p \in known', store'[p] = {} PROVE Runs(p)' # {}
  <2>1. p # run[q].p
    BY <1>2, <1>3 DEF TypeOK
  <2>2. p \in known /\ store[p] = {}
    BY <1>2, <1>3, <2>1 DEF TypeOK
  <2>3. PICK r \in Procs : run[r].at # "rest" /\ run[r].p = p
    BY <2>2 DEF KeptIndexed, Runs
  <2>4. r \in Runs(p)'
    BY <1>1, <2>1, <2>3 DEF Runs
  <2>5. QED
    BY <2>4
<1>4. QED
  BY <1>3 DEF KeptIndexed

(* At a graceful end no run is in progress.                                *)
LEMMA StopKept ==
    ASSUME TypeOK, KeptIndexed, JobsRest, Stop \/ Crash
    PROVE  KeptIndexed'
<1>1. UNCHANGED store
  BY DEF Stop, Crash
<1>2. known' \subseteq known /\ \A p \in known' : Runs(p) = {}
  <2>1. CASE Stop
    <3>1. \A q \in Procs : run[q].at = "rest"
      BY <2>1 DEF Stop, LoopFree, JobsRest, Procs
    <3>2. QED
      BY <2>1, <3>1 DEF Stop, Runs
  <2>2. CASE Crash
    BY <2>2 DEF Crash
  <2>3. QED
    BY <2>1, <2>2
<1>3. \A p \in known' : store'[p] # {}
  BY <1>1, <1>2 DEF KeptIndexed
<1>4. QED
  BY <1>3 DEF KeptIndexed

LEMMA NextKept == ASSUME TypeOK, KeptIndexed, JobsRest, [Next]_vars PROVE KeptIndexed'
<1>1. ASSUME UNCHANGED <<store, run, known>> PROVE KeptIndexed'
  <2>1. \A p : Runs(p)' = Runs(p)
    BY <1>1 DEF Runs
  <2>2. QED
    BY <1>1, <2>1 DEF KeptIndexed
<1>2. ASSUME NEW p \in Paths, Delete(p), UNCHANGED run PROVE KeptIndexed'
  <2>1. \A r : Runs(r)' = Runs(r)
    BY <1>2 DEF Runs
  <2>2. known' \subseteq known /\ \A r \in known' : store'[r] = store[r]
    BY <1>2 DEF Delete, TypeOK
  <2>3. QED
    BY <2>1, <2>2, FewerKept
<1>3. ASSUME NEW p \in Paths, Edit(p) \/ ReadFile(p) \/ WriteFile(p) PROVE KeptIndexed'
  BY <1>1, <1>3 DEF Edit, ReadFile, WriteFile
<1>4. ASSUME NEW p \in Paths, DeleteFile(p) PROVE KeptIndexed'
  BY <1>2, <1>4 DEF DeleteFile
<1>5. CASE RunTask
  <2>1. Head(queue) \in Tasks
    BY <1>5 DEF RunTask, TypeOK
  <2>2. Head(queue).p \in Paths /\ Head(queue).text \in Contents /\ Loop \in Procs
    BY <2>1 DEF Tasks, Procs
  <2>3. /\ run[Loop].at = "rest" /\ known' = known
        /\ StartIndex(Loop, Head(queue).p, "add", Head(queue).text)
    BY <1>5 DEF RunTask, LoopFree
  <2>4. QED
    BY <2>2, <2>3, StartKept
<1>6. ASSUME NEW q \in Procs, AddChunks(q) PROVE KeptIndexed'
  BY <1>6, EndKept DEF AddChunks
<1>7. ASSUME NEW w \in Workers, ReindexFile(w) PROVE KeptIndexed'
  <2>1. PICK p \in job[w].hits :
          \/ StartIndex(w, p, "read", Blank) /\ UNCHANGED known
          \/ Delete(p) /\ UNCHANGED <<run, mixed, blurred>>
    BY <1>7 DEF ReindexFile
  <2>2. p \in Paths /\ w \in Procs /\ run[w].at = "rest"
    BY <1>7 DEF ReindexFile, TypeOK, Jobs, Procs
  <2>3. QED
    BY <1>2, <2>1, <2>2, StartKept, ContentAssumption
<1>8. ASSUME NEW w \in Workers, ReadText(w) \/ StatFile(w) PROVE KeptIndexed'
  <2>1. w \in Procs /\ run[w] \in RunStates /\ run[w].at # "rest" /\ UNCHANGED store
    BY <1>8 DEF ReadText, StatFile, Procs, TypeOK
  <2>2. CASE run' = [run EXCEPT ![w].at = "rest"] /\ known' = known \ {run[w].p}
    BY <2>1, <2>2, EndKept
  <2>3. CASE ~(run' = [run EXCEPT ![w].at = "rest"] /\ known' = known \ {run[w].p})
    <3>1. /\ known' = known
          /\ \/ run' = [run EXCEPT ![w].at = "stat", ![w].text = disk[run[w].p].text]
             \/ run' = [run EXCEPT ![w].at = "add", ![w].mtime = disk[run[w].p].mtime,
                                   ![w].size = Size[disk[run[w].p].text]]
      BY <1>8, <2>3 DEF ReadText, StatFile
    <3>2. run'[w].at # "rest" /\ run'[w].p = run[w].p
      BY <2>1, <3>1 DEF TypeOK, RunStates
    <3>3. \A q \in Procs : q # w => run'[q] = run[q]
      BY <3>1 DEF TypeOK
    <3>4. \A p : Runs(p) \subseteq Runs(p)'
      BY <3>2, <3>3 DEF Runs
    <3>5. QED
      BY <2>1, <3>1, <3>4, FewerKept
  <2>4. QED
    BY <2>2, <2>3
<1>9. ASSUME NEW s \in Syncs, StatIndexed(s) PROVE KeptIndexed'
  <2>1. PICK p \in sync[s].todo : Delete(p) \/ UNCHANGED <<store, known>>
    BY <1>9 DEF StatIndexed
  <2>2. p \in Paths /\ UNCHANGED run
    BY <1>9 DEF StatIndexed, TypeOK, SyncStates
  <2>3. QED
    BY <1>1, <1>2, <2>1, <2>2
<1>10. ASSUME NEW s \in Syncs, Compare(s) PROVE KeptIndexed'
  <2>1. PICK p \in Paths :
          /\ sync[s].got[p] # None
          /\ \/ StartIndex(Loop, p, "add", sync[s].got[p])
             \/ UNCHANGED <<run, store, mixed, blurred>>
    BY <1>10 DEF Compare
  <2>2. /\ Loop \in Procs /\ sync[s].got[p] \in Contents
        /\ run[Loop].at = "rest" /\ known' = known
    BY <1>10, <2>1 DEF Compare, LoopFree, Procs, TypeOK, SyncStates, Found
  <2>3. QED
    BY <1>1, <2>1, <2>2, StartKept
<1>11. CASE \/ Tick \/ Close \/ CancelTasks \/ Start \/ UNCHANGED vars
            \/ \E w \in Workers : Restored(w) \/ StartThread(w) \/ CheckFile(w) \/ EndJob(w)
            \/ \E s \in Syncs : StartSync(s) \/ ReadIndexed(s) \/ EndSync(s)
  BY <1>1, <1>11 DEF Tick, Close, CancelTasks, Start, Restored, StartThread, CheckFile, EndJob,
                     StartSync, ReadIndexed, EndSync, vars
<1>12. QED
  BY <1>3, <1>4, <1>5, <1>6, <1>7, <1>8, <1>9, <1>10, <1>11, StopKept DEF Next

LEMMA NextRests == ASSUME TypeOK, JobsRest, [Next]_vars PROVE JobsRest'
<1>1. ASSUME UNCHANGED <<job, run>> PROVE JobsRest'
  BY <1>1 DEF JobsRest
<1>2. ASSUME NEW p, NEW text, StartIndex(Loop, p, "add", text), UNCHANGED job PROVE JobsRest'
  <2>1. \A w \in Workers : run'[w] = run[w]
    BY <1>2, LoopAssumption DEF StartIndex, Procs, TypeOK
  <2>2. QED
    BY <1>2, <2>1 DEF JobsRest
<1>3. CASE RunTask
  BY <1>2, <1>3 DEF RunTask
<1>4. ASSUME NEW q \in Procs, AddChunks(q) PROVE JobsRest'
  <2>1. \A w \in Workers : run'[w] = run[w] \/ run'[w].at = "rest"
    BY <1>4 DEF AddChunks, TypeOK, RunStates, Procs
  <2>2. UNCHANGED job
    BY <1>4 DEF AddChunks
  <2>3. QED
    BY <2>1, <2>2 DEF JobsRest
<1>5. ASSUME NEW s \in Syncs, Compare(s) PROVE JobsRest'
  BY <1>1, <1>2, <1>5 DEF Compare
<1>6. ASSUME NEW w \in Workers,
             Restored(w) \/ StartThread(w) \/ CheckFile(w) \/ ReindexFile(w)
               \/ ReadText(w) \/ StatFile(w) \/ EndJob(w)
      PROVE  JobsRest'
  <2>1. \A v \in Workers : v # w => job'[v] = job[v] /\ run'[v] = run[v]
    BY <1>6 DEF Restored, StartThread, CheckFile, ReindexFile, ReadText, StatFile, EndJob,
                StartIndex, Procs, TypeOK
  <2>2. job'[w].at \in {"none", "wait"} => run'[w].at = "rest"
    <3>1. CASE Restored(w)
      BY <3>1 DEF Restored, NoJob, JobsRest
    <3>2. CASE StartThread(w) \/ CheckFile(w)
      BY <3>2 DEF StartThread, CheckFile, TypeOK, Jobs
    <3>3. CASE ReindexFile(w)
      <4>1. job'[w].at = "index"
        BY <3>3 DEF ReindexFile, TypeOK, Jobs
      <4>2. QED
        BY <4>1
    <3>4. CASE ReadText(w) \/ StatFile(w)
      BY <3>4 DEF ReadText, StatFile, JobsRest
    <3>5. CASE EndJob(w)
      BY <3>5 DEF EndJob
    <3>6. QED
      BY <1>6, <3>1, <3>2, <3>3, <3>4, <3>5
  <2>3. QED
    BY <2>1, <2>2 DEF JobsRest
<1>7. CASE CancelTasks
  BY <1>7 DEF CancelTasks, JobsRest, NoJob
<1>8. CASE Stop \/ Crash
  BY <1>8 DEF Stop, Crash, Stopped, JobsRest, Procs, TypeOK, RunStates
<1>9. CASE \/ Tick \/ Close \/ Start \/ UNCHANGED vars
           \/ \E p \in Paths : Edit(p) \/ ReadFile(p) \/ WriteFile(p) \/ DeleteFile(p)
           \/ \E s \in Syncs : StartSync(s) \/ StatIndexed(s) \/ ReadIndexed(s) \/ EndSync(s)
  BY <1>1, <1>9 DEF Tick, Close, Start, Edit, ReadFile, WriteFile, DeleteFile, StartSync,
                    StatIndexed, ReadIndexed, EndSync, vars
<1>10. QED
  BY <1>3, <1>4, <1>5, <1>6, <1>7, <1>8, <1>9 DEF Next

-----------------------------------------------------------------------------
(* What a check relies on: unless two processes have indexed a file at a   *)
(* time, it has one batch, or one process at work on it and none;          *)
Single ==
    \A p \in Paths \ mixed :
        /\ \A q, r \in Runs(p) : q = r
        /\ Runs(p) # {} => store[p] = {}
        /\ \A b, c \in store[p] : b = c

(* and what it has done so far: the files it is through with are current,  *)
(* the others have the hash it has seen, and what it has read is there.    *)
Current(p) == \A b \in store[p] : disk[p] # Absent /\ b.text = disk[p].text
Undisturbed(s) ==
    /\ \A w \in Workers : run[w].at = "rest"
    /\ run[Loop].at # "rest" =>
          /\ sync[s].hash[run[Loop].p] = None
          /\ disk[run[Loop].p] # Absent /\ disk[run[Loop].p].text = run[Loop].text
    /\ \A p \in Paths :
          /\ sync[s].hash[p] = None => p \in blurred \cup mixed \/ Current(p)
          /\ sync[s].hash[p] # None => p \in mixed \/ \A b \in store[p] : b.text = sync[s].hash[p]
          /\ sync[s].got[p] # None => /\ sync[s].at = "read" /\ sync[s].hash[p] # None
                                      /\ disk[p] # Absent /\ disk[p].text = sync[s].got[p]

Going(s) == sync[s].at # "none" /\ sync[s].calm
ChecksSound == \A s \in Syncs : Going(s) => Undisturbed(s)

LEMMA InitChecks == Init => Single /\ ChecksSound
<1> SUFFICES ASSUME Init PROVE Single /\ ChecksSound
  OBVIOUS
<1>1. \A q \in Procs : run[q].at = "rest"
  BY DEF Init, Rest
<1>2. \A p \in Paths : Runs(p) = {} /\ store[p] = {}
  BY <1>1 DEF Runs, Init
<1>3. \A s \in Syncs : ~Going(s)
  BY DEF Init, NoSync, Going
<1>4. QED
  BY <1>2, <1>3 DEF Single, ChecksSound

LEMMA FewerSingle ==
    ASSUME TypeOK, Single, mixed' = mixed,
           \A p \in Paths : store'[p] \subseteq store[p] /\ Runs(p)' \subseteq Runs(p)
    PROVE  Single'
  BY DEF Single

LEMMA StartSingle ==
    ASSUME TypeOK, Single, NEW q \in Procs, NEW p \in Paths, NEW at, NEW text,
           run[q].at = "rest", at # "rest", StartIndex(q, p, at, text)
    PROVE  Single'
<1>1. run'[q].at # "rest" /\ run'[q].p = p /\ \A r \in Procs : r # q => run'[r] = run[r]
  BY DEF StartIndex, TypeOK
<1>2. store'[p] = {} /\ \A x \in Paths : x # p => store'[x] = store[x]
  BY DEF StartIndex, TypeOK
<1>3. Runs(p)' = Runs(p) \cup {q}
  BY <1>1 DEF Runs
<1>4. \A x \in Paths : x # p => Runs(x)' = Runs(x)
  BY <1>1 DEF Runs
<1>5. /\ p \notin mixed' => Runs(p) = {}
      /\ \A x \in Paths : x # p /\ x \notin mixed' => x \notin mixed
  BY DEF StartIndex
<1>6. QED
  BY <1>2, <1>3, <1>4, <1>5 DEF Single

LEMMA AddSingle == ASSUME TypeOK, Single, NEW q \in Procs, AddChunks(q) PROVE Single'
<1> DEFINE p == run[q].p
<1>1. q \in Runs(p) /\ p \in Paths
  BY DEF AddChunks, Runs, TypeOK, RunStates
<1>2. run' = [run EXCEPT ![q].at = "rest"] /\ mixed' = mixed
  BY DEF AddChunks
<1>3. \A x \in Paths : Runs(x)' = Runs(x) \ {q}
  BY <1>2 DEF Runs, TypeOK, RunStates
<1>4. PICK b : store' = [store EXCEPT ![p] = @ \cup {b}] \/ store' = store
  BY DEF AddChunks
<1>5. ASSUME NEW x \in Paths, x \notin mixed, x # p
      PROVE  store'[x] = store[x] /\ Runs(x)' \subseteq Runs(x)
  BY <1>3, <1>4, <1>5 DEF TypeOK
<1>6. p \notin mixed => Runs(p) = {q} /\ store[p] = {}
  BY <1>1 DEF Single
<1>7. p \notin mixed => Runs(p) \ {q} = {} /\ store'[p] \subseteq {b}
  BY <1>1, <1>4, <1>6 DEF TypeOK
<1> HIDE DEF p
<1>8. QED
  BY <1>2, <1>3, <1>5, <1>7 DEF Single

LEMMA NextSingle == ASSUME TypeOK, Single, [Next]_vars PROVE Single'
<1>1. ASSUME UNCHANGED <<store, run, mixed>> PROVE Single'
  <2>1. \A p : Runs(p)' = Runs(p)
    BY <1>1 DEF Runs
  <2>2. QED
    BY <1>1, <2>1, FewerSingle
<1>2. ASSUME NEW p \in Paths, Delete(p), UNCHANGED <<run, mixed>> PROVE Single'
  <2>1. \A x : Runs(x)' = Runs(x)
    BY <1>2 DEF Runs
  <2>2. \A x \in Paths : store'[x] \subseteq store[x]
    BY <1>2 DEF Delete, TypeOK
  <2>3. QED
    BY <1>2, <2>1, <2>2, FewerSingle
<1>3. ASSUME NEW p \in Paths, DeleteFile(p) PROVE Single'
  BY <1>2, <1>3 DEF DeleteFile
<1>4. CASE RunTask
  <2>1. Head(queue) \in Tasks
    BY <1>4 DEF RunTask, TypeOK
  <2>2. /\ Head(queue).p \in Paths /\ Loop \in Procs /\ run[Loop].at = "rest"
        /\ StartIndex(Loop, Head(queue).p, "add", Head(queue).text)
    BY <1>4, <2>1 DEF RunTask, LoopFree, Tasks, Procs
  <2>3. QED
    BY <2>2, StartSingle
<1>5. ASSUME NEW w \in Workers, ReindexFile(w) PROVE Single'
  <2>1. PICK p \in job[w].hits :
          \/ StartIndex(w, p, "read", Blank)
          \/ Delete(p) /\ UNCHANGED <<run, mixed, blurred>>
    BY <1>5 DEF ReindexFile
  <2>2. p \in Paths /\ w \in Procs /\ run[w].at = "rest"
    BY <1>5 DEF ReindexFile, TypeOK, Jobs, Procs
  <2>3. QED
    BY <1>2, <2>1, <2>2, StartSingle
<1>6. ASSUME NEW w \in Workers, ReadText(w) \/ StatFile(w) PROVE Single'
  <2>1. /\ w \in Procs /\ run[w].at # "rest" /\ run'[w].p = run[w].p
        /\ \A q \in Procs : q # w => run'[q] = run[q]
    BY <1>6 DEF ReadText, StatFile, Procs, TypeOK, RunStates
  <2>2. \A p \in Paths : Runs(p)' \subseteq Runs(p)
    BY <2>1 DEF Runs
  <2>3. UNCHANGED <<store, mixed>>
    BY <1>6 DEF ReadText, StatFile
  <2>4. QED
    BY <2>2, <2>3, FewerSingle
<1>7. ASSUME NEW s \in Syncs, StatIndexed(s) PROVE Single'
  <2>1. PICK p \in sync[s].todo : Delete(p) \/ UNCHANGED store
    BY <1>7 DEF StatIndexed
  <2>2. p \in Paths /\ UNCHANGED <<run, mixed>>
    BY <1>7 DEF StatIndexed, TypeOK, SyncStates
  <2>3. QED
    BY <1>1, <1>2, <2>1, <2>2
<1>8. ASSUME NEW s \in Syncs, Compare(s) PROVE Single'
  <2>1. PICK p \in Paths :
          \/ StartIndex(Loop, p, "add", sync[s].got[p])
          \/ UNCHANGED <<run, store, mixed, blurred>>
    BY <1>8 DEF Compare
  <2>2. Loop \in Procs /\ run[Loop].at = "rest"
    BY <1>8 DEF Compare, LoopFree, Procs
  <2>3. QED
    BY <1>1, <2>1, <2>2, StartSingle
<1>9. CASE Stop \/ Crash
  <2>1. \A p \in Paths : Runs(p)' = {}
    BY <1>9 DEF Stop, Crash, Stopped, Runs, TypeOK, RunStates
  <2>2. UNCHANGED <<store, mixed>>
    BY <1>9 DEF Stop, Crash
  <2>3. QED
    BY <2>1, <2>2, FewerSingle
<1>10. CASE \/ Tick \/ Close \/ CancelTasks \/ Start \/ UNCHANGED vars
            \/ \E p \in Paths : Edit(p) \/ ReadFile(p) \/ WriteFile(p)
            \/ \E w \in Workers : Restored(w) \/ StartThread(w) \/ CheckFile(w) \/ EndJob(w)
            \/ \E s \in Syncs : StartSync(s) \/ ReadIndexed(s) \/ EndSync(s)
  BY <1>1, <1>10 DEF Tick, Close, CancelTasks, Start, Edit, ReadFile, WriteFile, Restored,
                     StartThread, CheckFile, EndJob, StartSync, ReadIndexed, EndSync, vars
<1>11. QED
  BY <1>3, <1>4, <1>5, <1>6, <1>7, <1>8, <1>9, <1>10, AddSingle DEF Next
-----------------------------------------------------------------------------
(* Only one of the checks moves, or none does; the others stand as they    *)
(* were, or are disturbed.                                                 *)
LEMMA OthersSound ==
    ASSUME ChecksSound, NEW t, UNCHANGED <<disk, store, run, blurred, mixed>>,
           \A s \in Syncs : s # t => sync'[s] = sync[s],
           t \in Syncs /\ Going(t)' => Undisturbed(t)'
    PROVE  ChecksSound'
<1>1. ASSUME NEW s \in Syncs, s # t, Going(s)' PROVE Undisturbed(s)'
  <2>1. sync'[s] = sync[s] /\ Undisturbed(s)
    BY <1>1 DEF ChecksSound, Going
  <2>2. QED
    BY <2>1 DEF Undisturbed, Current
<1>2. QED
  BY <1>1 DEF ChecksSound

LEMMA DisturbedSound ==
    ASSUME TypeOK, NEW sy \in [Syncs -> SyncStates], NEW t, sync' = Disturbed(sy, {t}),
           t \in Syncs /\ Going(t)' => Undisturbed(t)'
    PROVE  ChecksSound'
<1>1. \A s \in Syncs : s # t => ~Going(s)'
  BY DEF Disturbed, Going, SyncStates
<1>2. QED
  BY <1>1 DEF ChecksSound

LEMMA AllDisturbed ==
    ASSUME TypeOK, sync' = Disturbed(sync, {}) PROVE ChecksSound'
<1>1. \A s \in Syncs : ~Going(s)'
  BY DEF Disturbed, Going, TypeOK, SyncStates
<1>2. QED
  BY <1>1 DEF ChecksSound

(* While a check goes on undisturbed, only the event loop indexes.         *)
LEMMA AddSound ==
    ASSUME TypeOK, Single, ChecksSound, NEW q \in Procs, AddChunks(q)
    PROVE  ChecksSound'
<1> SUFFICES ASSUME NEW s \in Syncs, Going(s)' PROVE Undisturbed(s)'
  BY DEF ChecksSound
<1>1. UNCHANGED <<disk, sync, blurred, mixed>> /\ run' = [run EXCEPT ![q].at = "rest"]
  BY DEF AddChunks
<1>2. Undisturbed(s)
  BY <1>1 DEF ChecksSound, Going
<1>3. q = Loop
  BY <1>2 DEF AddChunks, Undisturbed, Procs
<1>4. PICK p \in Paths : p = run[Loop].p
  BY <1>3 DEF TypeOK, RunStates
<1>5. /\ sync[s].hash[p] = None
      /\ disk[p] # Absent /\ disk[p].text = run[Loop].text
  BY <1>2, <1>3, <1>4 DEF Undisturbed, AddChunks
<1>6. \A x \in Paths : x # p => store'[x] = store[x]
  BY <1>3, <1>4 DEF AddChunks, TypeOK
<1>7. p \in mixed \/ store[p] = {}
  <2>1. Loop \in Runs(p)
    BY <1>3, <1>4 DEF Runs, AddChunks
  <2>2. QED
    BY <2>1 DEF Single
<1>8. p \in mixed \/ Current(p)'
  <2>1. store'[p] = store[p] \/ \E b : b.text = run[Loop].text /\ store'[p] = store[p] \cup {b}
    BY <1>3, <1>4 DEF AddChunks, TypeOK
  <2>2. QED
    BY <1>1, <1>5, <1>7, <2>1 DEF Current
<1>9. run'[Loop].at = "rest" /\ \A w \in Workers : run'[w].at = "rest"
  BY <1>1, <1>2, <1>3, LoopAssumption DEF Undisturbed, TypeOK, RunStates, Procs
<1>10. \A x \in Paths : x # p => (Current(x) => Current(x)')
  BY <1>1, <1>6 DEF Current
<1>11. QED
  BY <1>1, <1>2, <1>5, <1>6, <1>8, <1>9, <1>10 DEF Undisturbed

(* A check starts with the hashes of what is indexed.                      *)
LEMMA StartSound ==
    ASSUME TypeOK, Single, ChecksSound, NEW s \in Syncs, StartSync(s) PROVE ChecksSound'
<1>1. PICK hash \in [Paths -> Contents \cup {None}] :
        /\ \A p \in Paths : IF store[p] = {} THEN hash[p] = None
                                             ELSE hash[p] \in {b.text : b \in store[p]}
        /\ sync' = [sync EXCEPT ![s] =
              [NoSync EXCEPT !.hash = hash, !.calm = \A q \in Procs : run[q].at = "rest",
                             !.at = IF \A p \in Paths : hash[p] = None THEN "read" ELSE "stat",
                             !.todo = {p \in Paths : hash[p] # None}]]
  BY DEF StartSync
<1>2. /\ sync'[s].hash = hash
      /\ sync'[s].calm = \A q \in Procs : run[q].at = "rest"
      /\ \A p \in Paths : sync'[s].got[p] = None
  BY <1>1 DEF TypeOK, NoSync
<1>3. UNCHANGED <<disk, store, run, blurred, mixed>> /\ \A t \in Syncs : t # s => sync'[t] = sync[t]
  BY <1>1 DEF StartSync, TypeOK
<1>4. ASSUME NEW p \in Paths, hash[p] = None PROVE Current(p)'
  <2>1. \A b \in store[p] : b.text \in Contents
    BY DEF TypeOK, Batches
  <2>2. store[p] = {}
    BY <1>1, <1>4, <2>1, ContentAssumption
  <2>3. QED
    BY <1>3, <2>2 DEF Current
<1>5. ASSUME NEW p \in Paths \ mixed, hash[p] # None PROVE \A b \in store[p] : b.text = hash[p]
  BY <1>1, <1>5 DEF Single
<1>6. Going(s)' => Undisturbed(s)'
  BY <1>2, <1>3, <1>4, <1>5 DEF Going, Undisturbed, Procs
<1>7. QED
  BY <1>3, <1>6, OthersSound

(* Its first pass: what it leaves out is current, by SkipIsRight.          *)
LEMMA StatSound ==
    ASSUME TypeOK, Single, SkipIsRight, ChecksSound, NEW s \in Syncs, StatIndexed(s)
    PROVE  ChecksSound'
<1> DEFINE after(p, put) == [sync[s] EXCEPT !.todo = @ \ {p},
                               !.at = IF sync[s].todo = {p} THEN "read" ELSE "stat",
                               !.hash = IF put THEN @ ELSE [@ EXCEPT ![p] = None]]
<1>1. /\ sync[s] \in SyncStates /\ sync[s].at = "stat"
      /\ UNCHANGED <<disk, run, blurred, mixed>>
  BY DEF StatIndexed, TypeOK
<1>2. PICK p \in sync[s].todo :
        \/ /\ disk[p] = Absent
           /\ Delete(p)
           /\ sync' = Disturbed([sync EXCEPT ![s] = after(p, FALSE)], {s})
        \/ /\ disk[p] # Absent
           /\ \E b \in store[p] : Unchanged(b, disk[p])
           /\ sync' = [sync EXCEPT ![s] = after(p, FALSE)]
           /\ UNCHANGED <<store, known>>
        \/ /\ disk[p] # Absent
           /\ store[p] = {} \/ \E b \in store[p] : ~Unchanged(b, disk[p])
           /\ sync' = [sync EXCEPT ![s] = after(p, TRUE)]
           /\ UNCHANGED <<store, known>>
  BY DEF StatIndexed
<1>3. p \in Paths
  BY <1>1 DEF SyncStates
<1>4. \A put \in BOOLEAN : after(p, put) \in SyncStates
  BY <1>1 DEF SyncStates, Found
<1>5. \A put \in BOOLEAN :
        /\ after(p, put).calm = sync[s].calm /\ after(p, put).got = sync[s].got
        /\ after(p, put).at \in {"read", "stat"}
        /\ \A x \in Paths : after(p, put).hash[x] = IF x = p /\ ~put THEN None ELSE sync[s].hash[x]
  BY <1>1, <1>3 DEF SyncStates, Found
<1> HIDE DEF after
<1>6. ASSUME NEW put \in BOOLEAN, sync'[s] = after(p, put),
             ~put => p \in blurred \cup mixed \/ Current(p)',
             \A x \in Paths : put \/ x # p => store'[x] = store[x],
             Going(s)'
      PROVE  Undisturbed(s)'
  <2>1. Undisturbed(s)
    BY <1>1, <1>5, <1>6 DEF Going, ChecksSound
  <2>2. \A x \in Paths : sync[s].got[x] = None
    BY <1>1, <2>1 DEF Undisturbed
  <2>3. \A x \in Paths : store'[x] = store[x] => (Current(x) <=> Current(x)')
    BY <1>1 DEF Current
  <2>4. run[Loop].p \in Paths
    BY DEF TypeOK, RunStates, Procs
  <2>5. QED
    BY <1>1, <1>5, <1>6, <2>1, <2>2, <2>3, <2>4 DEF Undisturbed
<1>7. CASE Delete(p) /\ sync' = Disturbed([sync EXCEPT ![s] = after(p, FALSE)], {s})
  <2> DEFINE sy == [sync EXCEPT ![s] = after(p, FALSE)]
  <2>1. sy \in [Syncs -> SyncStates] /\ sy[s] = after(p, FALSE)
    BY <1>4 DEF TypeOK
  <2>2. sync'[s] = after(p, FALSE)
    BY <1>7, <2>1 DEF Disturbed
  <2>3. Current(p)' /\ \A x \in Paths : x # p => store'[x] = store[x]
    BY <1>3, <1>7 DEF Delete, Current, TypeOK
  <2>4. Going(s)' => Undisturbed(s)'
    BY <1>6, <2>2, <2>3
  <2> HIDE DEF sy
  <2>5. sync' = Disturbed(sy, {s})
    BY <1>7 DEF sy
  <2>6. QED
    BY <2>1, <2>4, <2>5, DisturbedSound
<1>8. ASSUME NEW put \in BOOLEAN, sync' = [sync EXCEPT ![s] = after(p, put)], UNCHANGED store,
             ~put => disk[p] # Absent /\ \E b \in store[p] : Unchanged(b, disk[p])
      PROVE  ChecksSound'
  <2>1. sync'[s] = after(p, put) /\ \A t \in Syncs : t # s => sync'[t] = sync[t]
    BY <1>8 DEF TypeOK
  <2>2. ~put => p \in blurred \cup mixed \/ Current(p)
    BY <1>3, <1>8 DEF SkipIsRight, Single, Current
  <2>3. Current(p) => Current(p)'
    BY <1>1, <1>8 DEF Current
  <2>4. Going(s)' => Undisturbed(s)'
    BY <1>6, <1>8, <2>1, <2>2, <2>3
  <2>5. QED
    BY <1>1, <1>8, <2>1, <2>4, OthersSound
<1>9. QED
  BY <1>2, <1>7, <1>8

(* Its second pass: what it has read is there,                             *)
LEMMA ReadSound ==
    ASSUME TypeOK, ChecksSound, NEW s \in Syncs, ReadIndexed(s) PROVE ChecksSound'
<1>1. UNCHANGED <<disk, store, run, blurred, mixed>> /\ sync[s].at = "read" /\ sync[s] \in SyncStates
  BY DEF ReadIndexed, TypeOK
<1>2. PICK p \in Unread(s) :
        \/ disk[p] # Absent /\ sync' = [sync EXCEPT ![s].got[p] = disk[p].text]
        \/ sync' = [sync EXCEPT ![s].hash[p] = None, ![s].calm = FALSE]
  BY DEF ReadIndexed
<1>3. \A t \in Syncs : t # s => sync'[t] = sync[t]
  BY <1>2 DEF TypeOK
<1>4. ASSUME Going(s)' PROVE Undisturbed(s)'
  <2>1. disk[p] # Absent /\ sync' = [sync EXCEPT ![s].got[p] = disk[p].text]
    BY <1>2, <1>4 DEF Going, TypeOK, SyncStates
  <2>2. /\ sync'[s].at = "read" /\ sync'[s].calm = sync[s].calm /\ sync'[s].hash = sync[s].hash
        /\ \A x \in Paths : sync'[s].got[x] = IF x = p THEN disk[p].text ELSE sync[s].got[x]
    BY <1>1, <2>1 DEF TypeOK, SyncStates, Found
  <2>3. p \in Paths /\ sync[s].hash[p] # None
    BY DEF Unread
  <2>4. Undisturbed(s)
    BY <1>1, <1>4, <2>2 DEF ChecksSound, Going
  <2>5. \A x \in Paths : Current(x) <=> Current(x)'
    BY <1>1 DEF Current
  <2>6. QED
    BY <1>1, <2>1, <2>2, <2>3, <2>4, <2>5 DEF Undisturbed
<1>5. QED
  BY <1>1, <1>3, <1>4, OthersSound

(* and is indexed if it is another content than the index has.             *)
LEMMA CompareSound ==
    ASSUME TypeOK, Single, ChecksSound, NEW s \in Syncs, Compare(s) PROVE ChecksSound'
<1>1. UNCHANGED disk /\ run[Loop].at = "rest" /\ Loop \in Procs /\ sync[s] \in SyncStates
  BY DEF Compare, LoopFree, Procs, TypeOK
<1>2. PICK p \in Paths :
        LET done == [sync EXCEPT ![s].hash[p] = None, ![s].got[p] = None]
        IN  /\ sync[s].got[p] # None
            /\ \/ /\ StartIndex(Loop, p, "add", sync[s].got[p])
                  /\ sync' = Disturbed(done, {s})
               \/ /\ sync[s].got[p] = sync[s].hash[p]
                  /\ sync' = done
                  /\ UNCHANGED <<run, store, mixed, blurred>>
  BY DEF Compare
<1> DEFINE done == [sync EXCEPT ![s].hash[p] = None, ![s].got[p] = None]
<1>3. done = [sync EXCEPT ![s] = [sync[s] EXCEPT !.hash = [@ EXCEPT ![p] = None],
                                                 !.got = [@ EXCEPT ![p] = None]]]
  BY DEF TypeOK, SyncStates
<1>4. /\ done[s].at = sync[s].at /\ done[s].calm = sync[s].calm
      /\ \A x \in Paths : done[s].hash[x] = IF x = p THEN None ELSE sync[s].hash[x]
      /\ \A x \in Paths : done[s].got[x] = IF x = p THEN None ELSE sync[s].got[x]
  BY <1>1, <1>3 DEF TypeOK, SyncStates, Found
<1>5. done \in [Syncs -> SyncStates]
  BY <1>1, <1>3 DEF TypeOK, SyncStates, Found
<1>6. \A t \in Syncs : t # s => done[t] = sync[t]
  BY <1>3 DEF TypeOK
<1> HIDE DEF done
<1>7. CASE StartIndex(Loop, p, "add", sync[s].got[p]) /\ sync' = Disturbed(done, {s})
  <2>1. sync'[s] = done[s]
    BY <1>7 DEF Disturbed
  <2>2. ASSUME Going(s)' PROVE Undisturbed(s)'
    <3>1. Undisturbed(s)
      BY <1>4, <2>1, <2>2 DEF ChecksSound, Going
    <3>2. disk[p] # Absent /\ disk[p].text = sync[s].got[p]
      BY <1>2, <3>1 DEF Undisturbed
    <3>3. run'[Loop].p = p /\ run'[Loop].text = sync[s].got[p]
      BY <1>1, <1>7 DEF StartIndex, TypeOK
    <3>4. \A w \in Workers : run'[w] = run[w]
      BY <1>7, LoopAssumption DEF StartIndex, TypeOK, Procs
    <3>5. store'[p] = {} /\ \A x \in Paths : x # p => store'[x] = store[x]
      BY <1>7 DEF StartIndex, TypeOK
    <3>6. Current(p)' /\ \A x \in Paths : x # p => (Current(x) <=> Current(x)')
      BY <1>1, <3>5 DEF Current
    <3>7. \A x \in Paths : x # p => /\ x \in blurred => x \in blurred'
                                    /\ x \in mixed => x \in mixed'
      BY <1>7 DEF StartIndex
    <3>8. \A w \in Workers : run'[w].at = "rest"
      BY <3>1, <3>4 DEF Undisturbed
    <3>9. ASSUME NEW x \in Paths
          PROVE  /\ sync'[s].hash[x] = None => x \in blurred' \cup mixed' \/ Current(x)'
                 /\ sync'[s].hash[x] # None =>
                       x \in mixed' \/ \A b \in store'[x] : b.text = sync'[s].hash[x]
                 /\ sync'[s].got[x] # None => /\ sync'[s].at = "read" /\ sync'[s].hash[x] # None
                                              /\ disk'[x] # Absent
                                              /\ disk'[x].text = sync'[s].got[x]
      <4>1. CASE x = p
        BY <1>4, <2>1, <3>6, <4>1
      <4>2. CASE x # p
        BY <1>1, <1>4, <2>1, <3>1, <3>5, <3>6, <3>7, <4>2 DEF Undisturbed
      <4>3. QED
        BY <4>1, <4>2
    <3>10. QED
      BY <1>1, <1>4, <2>1, <3>2, <3>3, <3>8, <3>9 DEF Undisturbed
  <2>3. QED
    BY <1>5, <1>7, <2>2, DisturbedSound
<1>8. CASE /\ sync[s].got[p] = sync[s].hash[p]
           /\ sync' = done
           /\ UNCHANGED <<run, store, mixed, blurred>>
  <2>1. ASSUME Going(s)' PROVE Undisturbed(s)'
    <3>1. Undisturbed(s)
      BY <1>4, <1>8, <2>1 DEF ChecksSound, Going
    <3>2. p \in mixed \/ Current(p)
      BY <1>2, <1>8, <3>1 DEF Undisturbed, Current
    <3>3. \A x \in Paths : Current(x) <=> Current(x)'
      BY <1>1, <1>8 DEF Current
    <3>4. QED
      BY <1>1, <1>4, <1>8, <3>1, <3>2, <3>3 DEF Undisturbed
  <2>2. QED
    BY <1>1, <1>6, <1>8, <2>1, OthersSound
<1>9. QED
  BY <1>2, <1>7, <1>8 DEF done

LEMMA NextChecks ==
    ASSUME TypeOK, Single, SkipIsRight, ChecksSound, [Next]_vars PROVE ChecksSound'
<1>1. ASSUME UNCHANGED <<disk, store, run, sync, blurred, mixed>> PROVE ChecksSound'
  BY <1>1 DEF ChecksSound, Going, Undisturbed, Current
<1>2. CASE \/ \E p \in Paths : Edit(p) \/ WriteFile(p) \/ DeleteFile(p)
           \/ RunTask
           \/ \E w \in Workers : ReindexFile(w)
  BY <1>2, AllDisturbed DEF Edit, WriteFile, DeleteFile, RunTask, ReindexFile
<1>3. ASSUME NEW w \in Workers, ReadText(w) \/ StatFile(w) PROVE ChecksSound'
  <2>1. \A s \in Syncs : ~Going(s)
    BY <1>3 DEF ReadText, StatFile, ChecksSound, Undisturbed
  <2>2. sync' = sync
    BY <1>3 DEF ReadText, StatFile
  <2>3. QED
    BY <2>1, <2>2 DEF ChecksSound, Going
<1>4. ASSUME NEW s \in Syncs, EndSync(s) PROVE ChecksSound'
  <2>1. sync' = [sync EXCEPT ![s] = NoSync] /\ UNCHANGED <<disk, store, run, blurred, mixed>>
    BY <1>4 DEF EndSync
  <2>2. ~Going(s)' /\ \A t \in Syncs : t # s => sync'[t] = sync[t]
    BY <2>1 DEF Going, NoSync, TypeOK
  <2>3. QED
    BY <2>1, <2>2, OthersSound
<1>5. CASE Stop \/ Crash
  <2>1. \A s \in Syncs : ~Going(s)'
    BY <1>5 DEF Stop, Crash, Stopped, NoSync, Going
  <2>2. QED
    BY <2>1 DEF ChecksSound
<1>6. CASE \/ Tick \/ Close \/ CancelTasks \/ Start \/ UNCHANGED vars
           \/ \E p \in Paths : ReadFile(p)
           \/ \E w \in Workers : Restored(w) \/ StartThread(w) \/ CheckFile(w) \/ EndJob(w)
  BY <1>1, <1>6 DEF Tick, Close, CancelTasks, Start, ReadFile, Restored, StartThread, CheckFile,
                    EndJob, vars
<1>7. QED
  BY <1>2, <1>3, <1>4, <1>5, <1>6, AddSound, StartSound, StatSound, ReadSound, CompareSound DEF Next
-----------------------------------------------------------------------------
LEMMA Invariance == Spec => [](IInv /\ Single /\ ChecksSound)
<1>1. ASSUME IInv, Single, ChecksSound, [Next]_vars PROVE IInv' /\ Single' /\ ChecksSound'
  <2>1. TypeOK /\ Right /\ SkipIsRight /\ KeptIndexed /\ JobsRest
    BY <1>1 DEF IInv, Right
  <2>2. IInv'
    BY <1>1, <2>1, NextType, NextRight, NextKept, NextRests DEF IInv
  <2>3. QED
    BY <1>1, <2>1, <2>2, NextSingle, NextChecks
<1>2. QED
  BY <1>1, InitIInv, InitChecks, PTL DEF Spec

(* What the check skips is up to date: the theorem of the comparison of    *)
(* time and size in sync_files_if_needed.                                  *)
THEOREM SkippedIsCurrent == Spec => []SkipIsRight
<1>1. IInv => SkipIsRight
  BY DEF IInv, Right
<1>2. QED
  BY <1>1, Invariance, PTL

(* No file drops out of the index but by a failing add, a missing file or  *)
(* a kill: the theorem of index_file and of BackgroundTaskManager.shutdown.*)
THEOREM FilesStayIndexed == Spec => []KeptIndexed
<1>1. IInv => KeptIndexed
  BY DEF IInv
<1>2. QED
  BY <1>1, Invariance, PTL

(* The index keeps its shape, with any files, threads and requests.        *)
THEOREM RagTypes == Spec => []TypeOK
<1>1. IInv => TypeOK
  BY DEF IInv
<1>2. QED
  BY <1>1, Invariance, PTL

(* A check that nothing disturbs leaves no stale chunk behind, for any     *)
(* files, threads and other checks: the theorem of sync_files_if_needed.   *)
THEOREM ChecksRepair == Spec => SyncRepairs
<1>1. IInv /\ ChecksSound /\ [Next]_vars =>
        [\A s \in Syncs :
           EndSync(s) /\ sync[s].calm =>
               \A p \in Paths \ (blurred \cup mixed) :
                   \A b \in store[p] : disk[p] # Absent /\ b.text = disk[p].text]_vars
  <2> SUFFICES ASSUME ChecksSound, NEW s \in Syncs, EndSync(s), sync[s].calm,
                      NEW p \in Paths \ (blurred \cup mixed)
               PROVE  Current(p)
    BY DEF Current
  <2>1. Going(s) /\ sync[s].hash[p] = None
    BY DEF EndSync, Going
  <2>2. QED
    BY <2>1 DEF ChecksSound, Undisturbed
<1>2. QED
  BY <1>1, Invariance, PTL DEF Spec, SyncRepairs
=============================================================================
