------------------------- MODULE SessionSteps_proofs -------------------------
(***************************************************************************)
(* Theorems about SessionSteps, for any number of sessions, of worker      *)
(* threads and of commits, with or without overlap and crashes: the types, *)
(* the order of the sessions table, and that approved history only grows;  *)
(* and, when calls neither overlap nor are cut off, that their steps add   *)
(* up to those of ApprovalWorkflow.                                        *)
(* They assume that git's init.defaultBranch is not main: otherwise HEAD   *)
(* names main, and the first new session makes main a link to its branch.  *)
(***************************************************************************)
EXTENDS SessionSteps, ShadowRepo_proofs, SequenceTheorems

(* What is known of the local variables of a process's call.               *)
CallOK(p) ==
    /\ call[p].parent \in CommitIds(repo) \cup {0}
    /\ call[p].head \in CommitIds(repo) \cup {0}
    /\ call[p].main \in CommitIds(repo) \cup {0}
    /\ call[p].base \in CommitIds(repo) \cup {0}
    /\ call[p].pc # "idle" => call[p].op # "none" /\ call[p].base # 0
    /\ call[p].op = "approve" => p = Loop
    /\ call[p].pc \in {"decide", "merge"} => p = Loop
    /\ call[p].pc = "merge" => call[p].main = MainHead(repo)
    /\ status[call[p].s] # "none"
    /\ call[p].pc = "insert" => status[call[p].s] \in Closed

(* The inductive invariant.  RowsInOrder alone is not inductive: the       *)
(* session a call goes by must exist, and be closed when the call comes to *)
(* insert the next; MainDescends needs to know that the main an approval   *)
(* has read is still main when it merges, since only the event loop        *)
(* approves.                                                               *)
Inv ==
    /\ Sound(repo)
    /\ status \in [Sessions -> {"none", "active"} \cup Closed]
    /\ call \in [Procs -> Calls]
    /\ RowsInOrder
    /\ status[1] # "none"
    /\ \A p \in Procs : CallOK(p)
-----------------------------------------------------------------------------
LEMMA InvTypes == Inv => TypeOK
BY DEF Inv, TypeOK, Sound, RepoType

LEMMA FirstSession == 1 \in Sessions
BY MaxSessionAssumption DEF Sessions

(* The active session is a row of the table.                               *)
LEMMA ActiveRow ==
    ASSUME Inv
    PROVE  Active \in Sessions /\ status[Active] # "none"
<1>1. CASE ActiveRows(status) = {}
  BY <1>1, FirstSession DEF Active, ActiveSession, Inv
<1>2. CASE ActiveRows(status) # {}
  <2>1. PICK n \in ActiveRows(status) : TRUE
    BY <1>2
  <2>2. \A m \in ActiveRows(status) : n <= m
    BY <2>1, MaxSessionAssumption
       DEF Inv, RowsInOrder, ActiveRows, Closed, Sessions
  <2>3. Active \in ActiveRows(status)
    BY <1>2, <2>1, <2>2 DEF Active, ActiveSession
  <2> QED
    BY <2>3 DEF ActiveRows
<1> QED
  BY <1>1, <1>2

LEMMA InitInv ==
    ASSUME DefaultBranch = MASTER, Init
    PROVE  Inv
<1>1. Sound(repo)
  <2>1. EmptyTree \in Trees
    BY DEF EmptyTree, Trees
  <2> QED
    BY <2>1, FirstRepoSound DEF Init, FirstRepo
<1>2. Quiet \in Calls
  BY FirstSession DEF Quiet, Calls, Steps
<1>3. call \in [Procs -> Calls] /\ \A p \in Procs : call[p] = Quiet
  BY <1>2 DEF Init
<1>4. /\ status \in [Sessions -> {"none", "active"} \cup Closed]
      /\ status[1] = "active"
      /\ \A n \in Sessions \ {1} : status[n] = "none"
  BY FirstSession DEF Init
<1>5. RowsInOrder
  BY <1>4, MaxSessionAssumption DEF RowsInOrder, Sessions
<1>6. \A p \in Procs : CallOK(p)
  BY <1>3, <1>4 DEF CallOK, Quiet
<1> QED
  BY <1>1, <1>3, <1>4, <1>5, <1>6 DEF Inv
-----------------------------------------------------------------------------
(* The invariant follows for the next state once it is shown for the       *)
(* repository, the table and the process that moved: every other call      *)
(* keeps what is known of it.                                              *)
LEMMA Assemble ==
    ASSUME Inv, NEW p \in Procs,
           Sound(repo'), Len(repo.commits) <= Len(repo'.commits),
           MainHead(repo') = MainHead(repo) \/ p = Loop,
           status' \in [Sessions -> {"none", "active"} \cup Closed],
           RowsInOrder',
           \A n \in Sessions : status[n] # "none" => status'[n] # "none",
           \A n \in Sessions : status[n] \in Closed => status'[n] \in Closed,
           call' \in [Procs -> Calls],
           \A q \in Procs \ {p} : call'[q] = call[q],
           CallOK(p)'
    PROVE  Inv'
<1>1. status'[1] # "none"
  BY FirstSession DEF Inv
<1>2. Len(repo.commits) \in Nat /\ Len(repo'.commits) \in Nat
  BY CommitCount DEF Inv
<1>3. CommitIds(repo) \subseteq CommitIds(repo')
  BY <1>2 DEF CommitIds
<1>4. ASSUME NEW q \in Procs \ {p}
      PROVE  CallOK(q)'
  <2>1. CallOK(q) /\ call'[q] = call[q] /\ call[q].s \in Sessions
    BY DEF Inv, Calls
  <2>2. call[q].pc = "merge" => call[q].main = MainHead(repo')
    BY <2>1 DEF CallOK
  <2> QED
    BY <1>3, <2>1, <2>2 DEF CallOK
<1> QED
  BY <1>1, <1>4 DEF Inv

(* A step that leaves the table alone.                                     *)
LEMMA AssembleSameTable ==
    ASSUME Inv, NEW p \in Procs, status' = status,
           Sound(repo'), Len(repo.commits) <= Len(repo'.commits),
           MainHead(repo') = MainHead(repo) \/ p = Loop,
           call' \in [Procs -> Calls],
           \A q \in Procs \ {p} : call'[q] = call[q],
           CallOK(p)'
    PROVE  Inv'
<1>1. RowsInOrder' /\ status' \in [Sessions -> {"none", "active"} \cup Closed]
  BY DEF Inv, RowsInOrder
<1> QED
  BY <1>1, Assemble
-----------------------------------------------------------------------------
(* One step of approved history: main's head is kept among the ancestors   *)
(* of main's next head.                                                    *)
Descends == MainHead(repo) \in Ancestors(repo', MainHead(repo'))

LEMMA SameMainDescends ==
    ASSUME Inv, SameMain(repo, repo')
    PROVE  Descends /\ Len(repo.commits) <= Len(repo'.commits)
<1>1. MainHead(repo) \in CommitIds(repo) /\ Len(repo.commits) \in Nat
  BY MainReads, CommitCount DEF Inv
<1> QED
  BY <1>1 DEF Inv, Sound, SameMain, Descends, Ancestors

LEMMA BeginKeeps ==
    ASSUME Inv, NEW p \in Procs, NEW op \in Ops(p), NEW pending \in BOOLEAN,
           Begin(p, op, pending)
    PROVE  Inv' /\ Descends
<1> DEFINE main == MainHead(repo')
           pc == CASE op = "checkpoint" \/ pending -> "save"
                   [] op = "approve" /\ ~pending   -> "decide"
                   [] op = "reset" /\ ~pending     -> "branch"
           new == [Quiet EXCEPT !.op = op, !.s = Active, !.main = main,
                                !.base = main, !.pc = pc]
<1>1. /\ Active \in Sessions /\ status[Active] # "none"
      /\ repo' = EnsureRepo(repo, Active) /\ status' = status
      /\ call' = [call EXCEPT ![p] = new]
  BY ActiveRow DEF Begin
<1>2. Sound(repo') /\ SameMain(repo, repo')
  BY <1>1, EnsureRepoSound DEF Inv
<1>3. main \in CommitIds(repo') /\ main \in Nat
  BY <1>2, MainReads DEF CommitIds
<1>4. /\ op \in {"checkpoint", "approve", "reset"}
      /\ op = "approve" => p = Loop
  BY DEF Ops
<1>5. pc \in {"save", "decide", "branch"} /\ (pc = "decide" => op = "approve")
  BY <1>4
<1> HIDE DEF main, pc
<1>6. /\ new \in Calls
      /\ new.op = op /\ new.s = Active /\ new.parent = 0 /\ new.head = 0
      /\ new.main = main /\ new.base = main /\ new.pc = pc
  BY <1>1, <1>3, <1>4, <1>5, FirstSession DEF Quiet, Calls, Steps
<1> HIDE DEF new
<1>7. /\ call' \in [Procs -> Calls] /\ call'[p] = new
      /\ \A q \in Procs \ {p} : call'[q] = call[q]
  BY <1>1, <1>6 DEF Inv
<1>8. CallOK(p)'
  BY <1>1, <1>3, <1>4, <1>5, <1>6, <1>7 DEF CallOK, CommitIds
<1>9. Descends /\ Len(repo.commits) <= Len(repo'.commits)
  BY <1>2, SameMainDescends
<1> QED
  BY <1>1, <1>2, <1>7, <1>8, <1>9, AssembleSameTable DEF SameMain

LEMMA SaveWorkKeeps ==
    ASSUME Inv, NEW p \in Procs, SaveWork(p)
    PROVE  Inv' /\ Descends
<1> DEFINE parent == CheckpointParent(repo', Active)
           new == [call[p] EXCEPT !.cs = Active, !.parent = parent, !.pc = "commit"]
<1>1. /\ Active \in Sessions
      /\ repo' = EnsureRepo(repo, Active) /\ status' = status
      /\ call' = [call EXCEPT ![p] = new]
      /\ call[p] \in Calls /\ CallOK(p) /\ call[p].pc = "save"
  BY ActiveRow DEF SaveWork, At, Inv
<1>2. Sound(repo') /\ SameMain(repo, repo')
  BY <1>1, EnsureRepoSound DEF Inv
<1>3. parent \in CommitIds(repo') \cup {0} /\ parent \in Nat
  BY <1>1, <1>2, CheckpointParentType DEF CommitIds
<1> HIDE DEF parent
<1>4. /\ new \in Calls
      /\ new.op = call[p].op /\ new.s = call[p].s /\ new.parent = parent
      /\ new.head = call[p].head /\ new.main = call[p].main /\ new.base = call[p].base
      /\ new.pc = "commit"
  BY <1>1, <1>3 DEF Calls, Steps
<1> HIDE DEF new
<1>5. /\ call' \in [Procs -> Calls] /\ call'[p] = new
      /\ \A q \in Procs \ {p} : call'[q] = call[q]
  BY <1>1, <1>4 DEF Inv
<1>6. CommitIds(repo') = CommitIds(repo)
  BY <1>2 DEF SameMain, CommitIds
<1>7. CallOK(p)'
  BY <1>1, <1>3, <1>4, <1>5, <1>6 DEF CallOK
<1>8. Descends /\ Len(repo.commits) <= Len(repo'.commits)
  BY <1>2, SameMainDescends
<1> QED
  BY <1>1, <1>2, <1>5, <1>7, <1>8, AssembleSameTable DEF SameMain

LEMMA CommitWorkKeeps ==
    ASSUME Inv, NEW p \in Procs, CommitWork(p)
    PROVE  Inv' /\ Descends
<1> DEFINE pc == AfterSave(call[p].op)
           new == [call[p] EXCEPT !.pc = pc]
<1>1. /\ repo' = CommitCheckpoint(repo, call[p].cs, EmptyTree, call[p].parent)
      /\ status' = status
      /\ call' = [call EXCEPT ![p] = new]
      /\ call[p] \in Calls /\ CallOK(p) /\ call[p].pc = "commit"
  BY DEF CommitWork, At, Goto, Inv
<1>2. /\ call[p].cs \in Sessions /\ EmptyTree \in Trees
      /\ call[p].parent \in CommitIds(repo) \cup {0}
  BY <1>1 DEF Calls, EmptyTree, Trees, CallOK
<1>3. /\ Sound(repo') /\ Len(repo'.commits) = Len(repo.commits) + 1
      /\ MainHead(repo') = MainHead(repo)
      /\ \A i \in CommitIds(repo) : Ancestors(repo', i) = Ancestors(repo, i)
  BY <1>1, <1>2, CommitCheckpointSound DEF Inv
<1>4. /\ Len(repo.commits) \in Nat
      /\ Len(repo.commits) <= Len(repo'.commits)
      /\ CommitIds(repo) \subseteq CommitIds(repo')
  BY <1>3, CommitCount DEF Inv, CommitIds
<1>5. /\ pc \in {"idle", "decide", "branch"}
      /\ pc = "decide" => call[p].op = "approve"
  BY <1>1 DEF AfterSave, CallOK, Calls
<1> HIDE DEF pc
<1>6. /\ new \in Calls
      /\ new.op = call[p].op /\ new.s = call[p].s /\ new.parent = call[p].parent
      /\ new.head = call[p].head /\ new.main = call[p].main /\ new.base = call[p].base
      /\ new.pc = pc
  BY <1>1, <1>5 DEF Calls, Steps
<1> HIDE DEF new
<1>7. /\ call' \in [Procs -> Calls] /\ call'[p] = new
      /\ \A q \in Procs \ {p} : call'[q] = call[q]
  BY <1>1, <1>6 DEF Inv
<1>8. CallOK(p)'
  BY <1>1, <1>4, <1>5, <1>6, <1>7 DEF CallOK
<1>9. Descends
  BY <1>3, MainReads DEF Descends, Inv, Sound
<1> QED
  BY <1>1, <1>3, <1>4, <1>7, <1>8, <1>9, AssembleSameTable

LEMMA DecideKeeps ==
    ASSUME Inv, NEW p \in Procs, Decide(p)
    PROVE  Inv' /\ Descends
<1> DEFINE head == Resolve(repo', Active)
           main == MainHead(repo')
           pc == IF head = main THEN "branch" ELSE "merge"
           new == [call[p] EXCEPT !.s = Active, !.head = head, !.main = main,
                                  !.base = main, !.pc = pc]
<1>1. /\ Active \in Sessions /\ status[Active] # "none"
      /\ repo' = EnsureRepo(repo, Active) /\ status' = status
      /\ call' = [call EXCEPT ![p] = new]
      /\ call[p] \in Calls /\ CallOK(p) /\ call[p].pc = "decide"
  BY ActiveRow DEF Decide, At, Inv
<1>2. Sound(repo') /\ SameMain(repo, repo')
  BY <1>1, EnsureRepoSound DEF Inv
<1>3. main \in CommitIds(repo') /\ main \in Nat
  BY <1>2, MainReads DEF CommitIds
<1>4. head \in CommitIds(repo') \cup {0} /\ head \in Nat
  BY <1>1, <1>2, ResolveType, NamesDiffer DEF CommitIds
<1>5. pc \in {"branch", "merge"}
  OBVIOUS
<1> HIDE DEF head, main, pc
<1>6. /\ new \in Calls
      /\ new.op = call[p].op /\ new.s = Active /\ new.parent = call[p].parent
      /\ new.head = head /\ new.main = main /\ new.base = main /\ new.pc = pc
  BY <1>1, <1>3, <1>4, <1>5 DEF Calls, Steps
<1> HIDE DEF new
<1>7. /\ call' \in [Procs -> Calls] /\ call'[p] = new
      /\ \A q \in Procs \ {p} : call'[q] = call[q]
  BY <1>1, <1>6 DEF Inv
<1>8. CommitIds(repo') = CommitIds(repo) /\ main # 0
  BY <1>2, <1>3 DEF SameMain, CommitIds
<1>9. CallOK(p)'
  BY <1>1, <1>3, <1>4, <1>5, <1>6, <1>7, <1>8 DEF CallOK, main
<1>10. Descends /\ Len(repo.commits) <= Len(repo'.commits)
  BY <1>2, SameMainDescends
<1> QED
  BY <1>1, <1>2, <1>7, <1>9, <1>10, AssembleSameTable DEF SameMain

(* The step of an approval that moves main: the main it read is still      *)
(* main, and a parent of the merge commit.                                 *)
LEMMA MergeMainKeeps ==
    ASSUME Inv, NEW p \in Procs, MergeMain(p)
    PROVE  Inv' /\ Descends
<1> DEFINE id == Len(repo.commits) + 1
           added == AddCommit(repo, EmptyTree, MergeParents(p))
           new == [call[p] EXCEPT !.base = id, !.pc = "mergeSession"]
<1>1. /\ repo' = SetRef(added, MAIN, id) /\ status' = status
      /\ call' = [call EXCEPT ![p] = new]
      /\ call[p] \in Calls /\ CallOK(p) /\ call[p].pc = "merge"
  BY DEF MergeMain, At, Inv
<1>2. /\ p = Loop /\ call[p].main = MainHead(repo)
      /\ MainHead(repo) \in CommitIds(repo)
  BY <1>1, MainReads DEF CallOK, Inv
<1>3. /\ MergeParents(p) \in SUBSET CommitIds(repo) /\ MainHead(repo) \in MergeParents(p)
      /\ EmptyTree \in Trees
  BY <1>1, <1>2 DEF MergeParents, CallOK, CommitIds, EmptyTree, Trees
<1>4. /\ Sound(added) /\ Len(added.commits) = id
      /\ MainHead(repo) \in Ancestors(added, id)
  BY <1>3, AddCommitSound DEF Inv
<1>5. Len(repo.commits) \in Nat
  BY CommitCount DEF Inv
<1> HIDE DEF added
<1>6. id \in CommitIds(added)
  BY <1>4, <1>5 DEF CommitIds
<1>7. Sound(repo') /\ repo'.commits = added.commits /\ MainHead(repo') = id
  BY <1>1, <1>4, <1>6, SetMainSound
<1>8. /\ Len(repo.commits) <= Len(repo'.commits)
      /\ CommitIds(repo) \subseteq CommitIds(repo')
      /\ id \in CommitIds(repo') /\ id \in Nat /\ id # 0
  BY <1>4, <1>5, <1>6, <1>7 DEF CommitIds
<1>9. Descends
  BY <1>4, <1>7 DEF Descends, Ancestors
<1> HIDE DEF id
<1>10. /\ new \in Calls
       /\ new.op = call[p].op /\ new.s = call[p].s /\ new.parent = call[p].parent
       /\ new.head = call[p].head /\ new.main = call[p].main /\ new.base = id
       /\ new.pc = "mergeSession"
  BY <1>1, <1>8 DEF Calls, Steps
<1> HIDE DEF new
<1>11. /\ call' \in [Procs -> Calls] /\ call'[p] = new
       /\ \A q \in Procs \ {p} : call'[q] = call[q]
  BY <1>1, <1>10 DEF Inv
<1>12. CallOK(p)'
  BY <1>1, <1>8, <1>10, <1>11 DEF CallOK
<1> QED
  BY <1>1, <1>2, <1>7, <1>8, <1>9, <1>11, <1>12, AssembleSameTable

(* The two steps that go on to another and touch no variable but pc.       *)
LEMMA GotoKeeps ==
    ASSUME Inv, NEW p \in Procs, NEW pc \in {"branch", "close", "idle"}, Goto(p, pc),
           call[p].pc # "idle", status' = status, Sound(repo'), SameMain(repo, repo')
    PROVE  Inv' /\ Descends
<1> DEFINE new == [call[p] EXCEPT !.pc = pc]
<1>1. call[p] \in Calls /\ CallOK(p) /\ call' = [call EXCEPT ![p] = new]
  BY DEF Goto, Inv
<1>2. /\ new \in Calls
      /\ new.op = call[p].op /\ new.s = call[p].s /\ new.parent = call[p].parent
      /\ new.head = call[p].head /\ new.main = call[p].main /\ new.base = call[p].base
      /\ new.pc = pc
  BY <1>1 DEF Calls, Steps
<1> HIDE DEF new
<1>3. /\ call' \in [Procs -> Calls] /\ call'[p] = new
      /\ \A q \in Procs \ {p} : call'[q] = call[q]
  BY <1>1, <1>2 DEF Inv
<1>4. CommitIds(repo') = CommitIds(repo)
  BY DEF SameMain, CommitIds
<1>5. CallOK(p)'
  BY <1>1, <1>2, <1>3, <1>4 DEF CallOK
<1>6. Descends /\ Len(repo.commits) <= Len(repo'.commits)
  BY SameMainDescends
<1> QED
  BY <1>3, <1>5, <1>6, AssembleSameTable DEF SameMain

LEMMA MergeBranchKeeps ==
    ASSUME Inv, NEW p \in Procs, MergeBranch(p)
    PROVE  Inv' /\ Descends
<1>1. /\ repo' = SetRef(repo, call[p].s, call[p].base) /\ status' = status
      /\ Goto(p, "branch") /\ call[p].pc # "idle"
      /\ call[p].s \in RefNames \ {MAIN} /\ call[p].base \in CommitIds(repo) \cup {0}
  BY NamesDiffer DEF MergeBranch, At, Inv, CallOK, Calls
<1>2. Sound(repo') /\ SameMain(repo, repo')
  BY <1>1, SetRefSound DEF Inv
<1> QED
  BY <1>1, <1>2, GotoKeeps

LEMMA StartBranchKeeps ==
    ASSUME Inv, NEW p \in Procs, StartBranch(p)
    PROVE  Inv' /\ Descends
<1>1. /\ repo' = CreateSession(repo, Active, call[p].s + 1, call[p].base)
      /\ status' = status /\ Goto(p, "close") /\ call[p].pc # "idle"
      /\ Active \in Sessions /\ call[p].s + 1 \in Sessions
      /\ call[p].base \in CommitIds(repo)
  BY ActiveRow DEF StartBranch, At, Inv, CallOK
<1>2. Sound(repo') /\ SameMain(repo, repo')
  BY <1>1, CreateSessionSound DEF Inv
<1> QED
  BY <1>1, <1>2, GotoKeeps

LEMMA ClearIndexKeeps ==
    ASSUME Inv, NEW p \in Procs, ClearIndex(p)
    PROVE  Inv' /\ Descends
<1>1. /\ repo' = ClearStaging(repo, Active) /\ status' = status
      /\ Goto(p, "idle") /\ call[p].pc # "idle" /\ Active \in Sessions
  BY ActiveRow DEF ClearIndex, At
<1>2. Sound(repo') /\ SameMain(repo, repo')
  BY <1>1, ClearStagingSound DEF Inv
<1> QED
  BY <1>1, <1>2, GotoKeeps
-----------------------------------------------------------------------------
(* The two steps that write the table leave the repository alone.          *)
LEMMA UnchangedRepo ==
    ASSUME Inv, repo' = repo
    PROVE  /\ Sound(repo') /\ SameMain(repo, repo')
           /\ Descends /\ Len(repo.commits) <= Len(repo'.commits)
<1>1. Sound(repo') /\ SameMain(repo, repo')
  BY DEF Inv, SameMain
<1> QED
  BY <1>1, SameMainDescends

LEMMA CloseSessionKeeps ==
    ASSUME Inv, NEW p \in Procs, CloseSession(p)
    PROVE  Inv' /\ Descends
<1> DEFINE s == call[p].s
           new == [call[p] EXCEPT !.pc = "insert"]
<1>1. /\ repo' = repo /\ status' = [status EXCEPT ![s] = Verdict(call[p].op)]
      /\ call' = [call EXCEPT ![p] = new]
      /\ call[p] \in Calls /\ CallOK(p) /\ call[p].pc = "close"
      /\ s \in Sessions /\ status[s] # "none"
  BY DEF CloseSession, At, Goto, Inv, CallOK, Calls
<1>2. Verdict(call[p].op) \in Closed
  BY DEF Verdict, Closed
<1>3. /\ status' \in [Sessions -> {"none", "active"} \cup Closed]
      /\ status'[s] \in Closed
      /\ \A n \in Sessions \ {s} : status'[n] = status[n]
  BY <1>1, <1>2 DEF Inv
<1>4. \A n \in Sessions : /\ status[n] # "none" <=> status'[n] # "none"
                          /\ status[n] \in Closed => status'[n] \in Closed
  BY <1>1, <1>3 DEF Closed
<1>5. RowsInOrder'
  BY <1>3, <1>4 DEF Inv, RowsInOrder
<1>6. /\ new \in Calls
      /\ new.op = call[p].op /\ new.s = s /\ new.parent = call[p].parent
      /\ new.head = call[p].head /\ new.main = call[p].main /\ new.base = call[p].base
      /\ new.pc = "insert"
  BY <1>1 DEF Calls, Steps
<1> HIDE DEF new
<1>7. /\ call' \in [Procs -> Calls] /\ call'[p] = new
      /\ \A q \in Procs \ {p} : call'[q] = call[q]
  BY <1>1, <1>6 DEF Inv
<1>8. CallOK(p)'
  BY <1>1, <1>3, <1>4, <1>6, <1>7 DEF CallOK
<1> QED
  BY <1>1, <1>3, <1>4, <1>5, <1>7, <1>8, UnchangedRepo, Assemble DEF SameMain

LEMMA InsertSessionKeeps ==
    ASSUME Inv, NEW p \in Procs, InsertSession(p)
    PROVE  Inv' /\ Descends
<1> DEFINE s == call[p].s
           pc == IF call[p].op = "approve" /\ status' # status THEN "clear" ELSE "idle"
           new == [call[p] EXCEPT !.pc = pc]
<1>1. /\ repo' = repo /\ status' = InsertRow(status, s + 1)
      /\ call' = [call EXCEPT ![p] = new]
      /\ call[p] \in Calls /\ CallOK(p) /\ call[p].pc = "insert"
      /\ s \in Sessions /\ s + 1 \in Sessions
      /\ status[s] \in Closed /\ status[s] # "none"
  BY DEF InsertSession, At, Goto, Inv, CallOK, Calls
<1>2. /\ status' \in [Sessions -> {"none", "active"} \cup Closed]
      /\ \A n \in Sessions : status[n] # "none" => status'[n] = status[n]
      /\ \A n \in Sessions \ {s + 1} : status'[n] = status[n]
  BY <1>1 DEF Inv, InsertRow
<1>3. RowsInOrder'
  <2> SUFFICES ASSUME NEW m \in Sessions, NEW n \in Sessions, m < n, status'[n] # "none"
               PROVE  status'[m] \in Closed
    BY DEF RowsInOrder
  <2>1. CASE status[n] # "none"
    BY <1>2, <2>1 DEF Inv, RowsInOrder, Closed
  <2>2. CASE status[n] = "none"
    <3>1. n = s + 1
      BY <1>2, <2>2
    <3>2. m = s \/ m < s
      BY <1>1, <3>1 DEF Sessions
    <3>3. status[m] \in Closed
      BY <1>1, <3>2 DEF Inv, RowsInOrder
    <3> QED
      BY <1>2, <3>3 DEF Closed
  <2> QED
    BY <2>1, <2>2
<1>4. pc \in {"clear", "idle"}
  OBVIOUS
<1> HIDE DEF pc
<1>5. /\ new \in Calls
      /\ new.op = call[p].op /\ new.s = s /\ new.parent = call[p].parent
      /\ new.head = call[p].head /\ new.main = call[p].main /\ new.base = call[p].base
      /\ new.pc = pc
  BY <1>1, <1>4 DEF Calls, Steps
<1> HIDE DEF new
<1>6. /\ call' \in [Procs -> Calls] /\ call'[p] = new
      /\ \A q \in Procs \ {p} : call'[q] = call[q]
  BY <1>1, <1>5 DEF Inv
<1>7. CallOK(p)'
  BY <1>1, <1>2, <1>4, <1>5, <1>6 DEF CallOK
<1>8. \A n \in Sessions : /\ status[n] # "none" => status'[n] # "none"
                          /\ status[n] \in Closed => status'[n] \in Closed
  BY <1>2 DEF Closed
<1> QED
  BY <1>1, <1>2, <1>3, <1>6, <1>7, <1>8, UnchangedRepo, Assemble DEF SameMain

(* A crash forgets every call.                                             *)
LEMMA CrashKeeps ==
    ASSUME Inv, Crash
    PROVE  Inv' /\ Descends
<1>1. repo' = repo /\ status' = status /\ call' = [p \in Procs |-> Quiet]
  BY DEF Crash
<1>2. Quiet \in Calls
  BY FirstSession DEF Quiet, Calls, Steps
<1>3. call' \in [Procs -> Calls] /\ \A p \in Procs : CallOK(p)'
  BY <1>1, <1>2 DEF CallOK, Quiet, Inv
<1>4. Sound(repo)' /\ RowsInOrder' /\ status'[1] # "none"
  BY <1>1 DEF Inv, RowsInOrder
<1> QED
  BY <1>1, <1>3, <1>4, UnchangedRepo DEF Inv
-----------------------------------------------------------------------------
LEMMA NextKeeps ==
    ASSUME Inv, [Next]_vars
    PROVE  Inv' /\ Descends
<1>1. ASSUME NEW p \in Procs, Step(p)
      PROVE  Inv' /\ Descends
  <2>1. CASE SaveWork(p)      BY <2>1, SaveWorkKeeps
  <2>2. CASE CommitWork(p)    BY <2>2, CommitWorkKeeps
  <2>3. CASE Decide(p)        BY <2>3, DecideKeeps
  <2>4. CASE MergeMain(p)     BY <2>4, MergeMainKeeps
  <2>5. CASE MergeBranch(p)   BY <2>5, MergeBranchKeeps
  <2>6. CASE StartBranch(p)   BY <2>6, StartBranchKeeps
  <2>7. CASE CloseSession(p)  BY <2>7, CloseSessionKeeps
  <2>8. CASE InsertSession(p) BY <2>8, InsertSessionKeeps
  <2>9. CASE ClearIndex(p)    BY <2>9, ClearIndexKeeps
  <2> QED
    BY <1>1, <2>1, <2>2, <2>3, <2>4, <2>5, <2>6, <2>7, <2>8, <2>9 DEF Step
<1>2. ASSUME NEW p \in Procs, NEW op \in Ops(p), NEW pending \in BOOLEAN,
             Begin(p, op, pending)
      PROVE  Inv' /\ Descends
  BY <1>2, BeginKeeps
<1>3. CASE Crash
  BY <1>3, CrashKeeps
<1>4. CASE UNCHANGED vars
  <2>1. repo' = repo /\ status' = status /\ call' = call
    BY <1>4 DEF vars
  <2>2. Inv'
    BY <2>1 DEF Inv, RowsInOrder, CallOK
  <2> QED
    BY <2>1, <2>2, UnchangedRepo
<1> QED
  BY <1>1, <1>2, <1>3, <1>4 DEF Next

THEOREM Invariance ==
    ASSUME DefaultBranch = MASTER
    PROVE  Spec => []Inv
<1>1. Init => Inv
  BY InitInv
<1>2. Inv /\ [Next]_vars => Inv'
  BY NextKeeps
<1> QED
  BY <1>1, <1>2, PTL DEF Spec

(* Every variable keeps its type, and references and local variables only  *)
(* ever hold numbers of commits that exist.                                *)
THEOREM TypeCorrect ==
    ASSUME DefaultBranch = MASTER
    PROVE  Spec => []TypeOK
BY Invariance, InvTypes, PTL

(* The sessions table (db/sessions.py) stays in order and never has two    *)
(* active rows, whatever calls overlap and wherever the server is killed.  *)
THEOREM TableInOrder ==
    ASSUME DefaultBranch = MASTER
    PROVE  Spec => []RowsInOrder
<1>1. Inv => RowsInOrder
  BY DEF Inv
<1> QED
  BY <1>1, Invariance, PTL

(* Approved history only grows: no step of any call, however it overlaps   *)
(* with others, and no crash moves main to a commit that does not descend  *)
(* from the one it held.                                                   *)
THEOREM HistoryGrows ==
    ASSUME DefaultBranch = MASTER
    PROVE  Spec => MainDescends
<1>1. Inv /\ [Next]_vars => [MainHead(repo) \in Ancestors(repo', MainHead(repo'))]_vars
  BY NextKeeps DEF Descends
<1> QED
  BY <1>1, Invariance, PTL DEF Spec, MainDescends
-----------------------------------------------------------------------------
(* When calls do not overlap and the server is not killed, the steps of a  *)
(* call make up one step of ApprovalWorkflow, as Checkpoints takes them.   *)
(* A session is decided when its verdict is in the table, and already when *)
(* an approval has come so far that it will be: when it has moved main, or *)
(* has found that there is nothing to merge.                               *)
Commits(p, n) == /\ call[p].op = "approve" /\ call[p].s = n
                 /\ call[p].pc \in {"mergeSession", "branch", "close"}

Outcome(n) == IF status[n] \in Closed THEN status[n]
              ELSE IF \E p \in Procs : Commits(p, n) THEN "merged"
              ELSE "none"

Decided == {n \in Sessions : Outcome(n) # "none"}
Decisions == [n \in Decided |-> Outcome(n)]
Approved == Ancestors(repo, MainHead(repo))

Workflow == INSTANCE ApprovalWorkflow WITH decisions <- Decisions, approved <- Approved

(* Of the call under way: its session is the active one up to the end of   *)
(* the transaction that closes it, and the next session has no row yet.    *)
OpenSteps == {"save", "commit", "decide", "merge", "mergeSession", "branch", "close"}

CallFits(p) ==
    /\ call[p].pc \in OpenSteps => status[call[p].s] = "active"
    /\ call[p].pc \in {"decide", "merge", "mergeSession"} => call[p].op = "approve"
    /\ call[p].pc \in {"branch", "close", "insert"} => call[p].op \in {"approve", "reset"}
    /\ call[p].pc \in {"close", "insert"} => call[p].s + 1 \in Sessions
    /\ call[p].pc = "insert" => /\ status[call[p].s] \in Closed
                                /\ status[call[p].s + 1] = "none"

Serial ==
    /\ \A p, q \in Procs : call[p].pc # "idle" /\ call[q].pc # "idle" => p = q
    /\ \A p \in Procs : CallFits(p)
    /\ (\A p \in Procs : call[p].pc # "insert") => \E n \in Sessions : status[n] = "active"

(* No other process is in a call.                                          *)
Lone(p) == \A q \in Procs \ {p} : call[q].pc = "idle"

LEMMA LoneOutcome ==
    ASSUME NEW p \in Procs, Lone(p), NEW n
    PROVE  Outcome(n) = IF status[n] \in Closed THEN status[n]
                        ELSE IF Commits(p, n) THEN "merged" ELSE "none"
BY DEF Lone, Outcome, Commits

LEMMA LoneOutcomeNext ==
    ASSUME NEW p \in Procs, Lone(p)', NEW n
    PROVE  Outcome(n)' = IF status'[n] \in Closed THEN status'[n]
                         ELSE IF Commits(p, n)' THEN "merged" ELSE "none"
BY DEF Lone, Outcome, Commits

LEMMA SerialLone ==
    ASSUME Serial, NEW p \in Procs, call[p].pc # "idle"
    PROVE  Lone(p) /\ CallFits(p)
BY DEF Serial, Lone

(* An active row is the last of the table, and the active session.         *)
LEMMA ActiveIs ==
    ASSUME Inv, NEW s \in Sessions, status[s] = "active"
    PROVE  /\ Active = s
           /\ \A n \in Sessions : n < s => status[n] \in Closed
           /\ \A n \in Sessions : n > s => status[n] = "none"
<1>1. \A n \in Sessions : n < s => status[n] \in Closed
  BY DEF Inv, RowsInOrder, Closed
<1>2. \A n \in Sessions : n > s => status[n] = "none"
  <2>1. "active" \notin Closed
    BY DEF Closed
  <2>2. QED
    BY <2>1 DEF Inv, RowsInOrder
<1>3. \A n \in Sessions : status[n] = "active" => n = s
  BY <1>1, <1>2, MaxSessionAssumption DEF Sessions, Closed
<1>4. ActiveRows(status) = {s}
  BY <1>3 DEF ActiveRows
<1>5. Active = s
  BY <1>4, MaxSessionAssumption DEF Active, ActiveSession, Sessions
<1>6. QED
  BY <1>1, <1>2, <1>5

(* A step that changes no outcome stutters; one that gives the session     *)
(* after the decided ones its outcome appends it.                          *)
LEMMA SameOutcomes ==
    ASSUME \A n \in Sessions : Outcome(n)' = Outcome(n)
    PROVE  Decisions' = Decisions
<1>1. Decided' = Decided
  BY DEF Decided
<1>2. \A n \in Decided : Outcome(n)' = Outcome(n)
  BY DEF Decided
<1>3. QED
  BY <1>1, <1>2 DEF Decisions

LEMMA NextOutcome ==
    ASSUME NEW s \in Sessions, NEW v \in Closed,
           \A n \in Sessions : n < s => Outcome(n) \in Closed,
           \A n \in Sessions : n >= s => Outcome(n) = "none",
           \A n \in Sessions : n # s => Outcome(n)' = Outcome(n),
           Outcome(s)' = v
    PROVE  Decisions' = Append(Decisions, v)
<1>1. /\ s \in Nat /\ s >= 1 /\ s - 1 \in Nat
      /\ \A n \in 1..s : n \in Sessions
      /\ \A n \in Sessions : n \in Nat /\ n >= 1
  BY MaxSessionAssumption DEF Sessions
<1>2. "none" \notin Closed
  BY DEF Closed
<1>3. Decided = 1..(s - 1)
  <2>1. \A n \in Sessions : n \in Decided <=> n < s
    BY <1>1, <1>2 DEF Decided
  <2>2. Decided \subseteq Sessions
    BY DEF Decided
  <2>3. \A x \in Decided : x \in 1..(s - 1)
    BY <1>1, <2>1, <2>2
  <2>4. \A x \in 1..(s - 1) : x \in Decided
    BY <1>1, <2>1
  <2>5. QED
    BY <2>3, <2>4
<1>4. Decided' = 1..s
  <2>1. \A n \in Sessions : n \in Decided' <=> n <= s
    BY <1>1, <1>2 DEF Decided
  <2>2. Decided' \subseteq Sessions
    BY DEF Decided
  <2>3. \A x \in Decided' : x \in 1..s
    BY <1>1, <2>1, <2>2
  <2>4. \A x \in 1..s : x \in Decided'
    BY <1>1, <2>1
  <2>5. QED
    BY <2>3, <2>4
<1>5. Decisions \in Seq(Closed) /\ Len(Decisions) = s - 1
  <2>1. \A n \in 1..(s - 1) : Outcome(n) \in Closed
    BY <1>1
  <2>2. Decisions = [n \in 1..(s - 1) |-> Outcome(n)]
    BY <1>3 DEF Decisions
  <2>3. Decisions \in [1..(s - 1) -> Closed] /\ DOMAIN Decisions = 1..(s - 1)
    BY <2>1, <2>2
  <2>4. QED
    BY <1>1, <2>3, SeqDef, LenProperties
<1>6. Decisions' \in Seq(Closed) /\ Len(Decisions') = s
  <2>1. \A n \in 1..s : Outcome(n)' \in Closed
    BY <1>1
  <2>2. Decisions' = [n \in 1..s |-> Outcome(n)']
    BY <1>4 DEF Decisions
  <2>3. Decisions' \in [1..s -> Closed] /\ DOMAIN Decisions' = 1..s
    BY <2>1, <2>2
  <2>4. QED
    BY <1>1, <2>3, SeqDef, LenProperties
<1>7. /\ Append(Decisions, v) \in Seq(Closed) /\ Len(Append(Decisions, v)) = s
      /\ \A i \in 1..s : Append(Decisions, v)[i] = IF i = s THEN v ELSE Decisions[i]
  BY <1>1, <1>5, AppendProperties
<1>8. ASSUME NEW i \in 1..s
      PROVE  Decisions'[i] = Append(Decisions, v)[i]
  <2>1. i \in Sessions /\ Decisions'[i] = Outcome(i)'
    BY <1>1, <1>4 DEF Decisions
  <2>2. i # s => Decisions[i] = Outcome(i)
    BY <1>1, <1>3 DEF Decisions
  <2>3. QED
    BY <1>7, <2>1, <2>2
<1>9. QED
  BY <1>6, <1>7, <1>8, SeqEqual

LEMMA FirstDecided ==
    ASSUME Inv, NEW p \in Procs, Lone(p), NEW s \in Sessions, status[s] = "active",
           \A n \in Sessions : ~Commits(p, n),
           NEW v \in Closed, Outcome(s)' = v,
           \A n \in Sessions : n # s => Outcome(n)' = Outcome(n)
    PROVE  Decisions' = Append(Decisions, v)
<1>1. \A n \in Sessions : Outcome(n) = IF status[n] \in Closed THEN status[n] ELSE "none"
  BY LoneOutcome
<1>2. /\ \A n \in Sessions : n < s => status[n] \in Closed
      /\ \A n \in Sessions : n > s => status[n] = "none"
  BY ActiveIs
<1>3. "none" \notin Closed /\ "active" \notin Closed
  BY DEF Closed
<1>4. \A n \in Sessions : n < s => Outcome(n) \in Closed
  BY <1>1, <1>2
<1>5. \A n \in Sessions : n >= s => Outcome(n) = "none"
  <2>1. \A n \in Sessions : n >= s => n = s \/ n > s
    BY MaxSessionAssumption DEF Sessions
  <2>2. QED
    BY <1>1, <1>2, <1>3, <2>1
<1>6. QED
  BY <1>4, <1>5, NextOutcome

LEMMA SameApproved ==
    ASSUME SameMain(repo, repo')
    PROVE  Approved' = Approved
BY DEF SameMain, Approved, Ancestors

(* What a step of a call needs to show for Serial.                         *)
LEMMA SerialNext ==
    ASSUME Serial, NEW p \in Procs, Lone(p),
           \A q \in Procs \ {p} : call'[q] = call[q],
           CallFits(p)',
           call'[p].pc # "insert" => \E n \in Sessions : status'[n] = "active"
    PROVE  Serial' /\ Lone(p)'
<1>1. \A q \in Procs \ {p} : call'[q].pc = "idle"
  BY DEF Lone
<1>2. \A q \in Procs \ {p} : CallFits(q)'
  BY <1>1 DEF CallFits, OpenSteps
<1>3. \A q, r \in Procs : call'[q].pc # "idle" /\ call'[r].pc # "idle" => q = r
  BY <1>1
<1>4. QED
  BY <1>1, <1>2, <1>3 DEF Serial, Lone

(* A step that decides nothing: neither the table nor what is known to be  *)
(* decided changes.                                                        *)
LEMMA SameTableSerial ==
    ASSUME Inv, Serial, NEW p \in Procs, Lone(p), status' = status,
           \A q \in Procs \ {p} : call'[q] = call[q],
           call[p].pc # "insert", call'[p].pc # "insert",
           CallFits(p)',
           \A n \in Sessions : Commits(p, n)' <=> Commits(p, n)
    PROVE  Serial' /\ Decisions' = Decisions
<1>1. \E n \in Sessions : status[n] = "active"
  BY DEF Serial, Lone
<1>2. Serial' /\ Lone(p)'
  BY <1>1, SerialNext
<1>3. ASSUME NEW n \in Sessions PROVE Outcome(n)' = Outcome(n)
  BY <1>2, LoneOutcome, LoneOutcomeNext
<1>4. QED
  BY <1>2, <1>3, SameOutcomes
-----------------------------------------------------------------------------
(* What is done so by each step: Serial is kept, and the step is one of    *)
(* the workflow, or none.                                                  *)
Honours == [Workflow!Next]_<<Decisions, Approved>>

LEMMA Stutters ==
    ASSUME Decisions' = Decisions, Approved' = Approved
    PROVE  Honours
BY DEF Honours

LEMMA Approves ==
    ASSUME Decisions' = Append(Decisions, "merged"), Approved \subseteq Approved'
    PROVE  Honours
BY DEF Honours, Workflow!Next, Workflow!Approve

LEMMA Abandons ==
    ASSUME Decisions' = Append(Decisions, "abandoned"), Approved' = Approved
    PROVE  Honours
BY DEF Honours, Workflow!Next, Workflow!Abandon

LEMMA BeginHonours ==
    ASSUME Inv, Serial, Overlap = FALSE,
           NEW p \in Procs, NEW op \in Ops(p), NEW pending \in BOOLEAN, Begin(p, op, pending)
    PROVE  Serial' /\ Honours
<1> DEFINE new == call'[p]
<1>1. \A q \in Procs : call[q].pc = "idle"
  BY DEF Begin, At
<1>2. Lone(p) /\ Active \in Sessions
  BY <1>1, ActiveRow DEF Lone
<1>3. /\ repo' = EnsureRepo(repo, Active) /\ status' = status
      /\ \A q \in Procs \ {p} : call'[q] = call[q]
      /\ new.op = op /\ new.s = Active
      /\ new.pc = CASE op = "checkpoint" \/ pending -> "save"
                    [] op = "approve" /\ ~pending   -> "decide"
                    [] op = "reset" /\ ~pending     -> "branch"
  BY DEF Begin, Inv, Quiet
<1>4. op \in {"checkpoint", "approve", "reset"}
  BY DEF Ops
<1>5. \/ new.pc = "save"
      \/ new.pc = "decide" /\ new.op = "approve"
      \/ new.pc = "branch" /\ new.op = "reset"
  BY <1>3, <1>4
<1>6. status'[new.s] = "active"
  <2>1. PICK n \in Sessions : status[n] = "active"
    BY <1>1 DEF Serial
  <2>2. QED
    BY <1>3, <2>1, ActiveIs
<1>7. CallFits(p)'
  BY <1>5, <1>6 DEF CallFits, OpenSteps
<1>8. \A n \in Sessions : ~Commits(p, n) /\ ~Commits(p, n)'
  BY <1>1, <1>5 DEF Commits
<1>9. Serial' /\ Decisions' = Decisions
  <2>1. new.pc # "insert" /\ call[p].pc # "insert"
    BY <1>1, <1>5
  <2>2. QED
    BY <1>2, <1>3, <1>7, <1>8, <2>1, SameTableSerial
<1>10. Approved' = Approved
  BY <1>2, <1>3, EnsureRepoSound, SameApproved DEF Inv
<1>11. QED
  BY <1>9, <1>10, Stutters

LEMMA SaveWorkHonours ==
    ASSUME Inv, Serial, NEW p \in Procs, SaveWork(p)
    PROVE  Serial' /\ Honours
<1>1. Lone(p) /\ CallFits(p) /\ call[p].pc = "save" /\ Active \in Sessions
  BY SerialLone, ActiveRow DEF SaveWork, At
<1>2. /\ repo' = EnsureRepo(repo, Active) /\ status' = status
      /\ \A q \in Procs \ {p} : call'[q] = call[q]
      /\ call'[p].op = call[p].op /\ call'[p].s = call[p].s /\ call'[p].pc = "commit"
  BY DEF SaveWork, Inv, Calls
<1>3. CallFits(p)'
  BY <1>1, <1>2 DEF CallFits, OpenSteps
<1>4. \A n \in Sessions : Commits(p, n)' <=> Commits(p, n)
  BY <1>1, <1>2 DEF Commits
<1>5. Serial' /\ Decisions' = Decisions
  BY <1>1, <1>2, <1>3, <1>4, SameTableSerial
<1>6. Approved' = Approved
  BY <1>1, <1>2, EnsureRepoSound, SameApproved DEF Inv
<1>7. QED
  BY <1>5, <1>6, Stutters

LEMMA CommitWorkHonours ==
    ASSUME Inv, Serial, NEW p \in Procs, CommitWork(p)
    PROVE  Serial' /\ Honours
<1>1. Lone(p) /\ CallFits(p) /\ CallOK(p) /\ call[p].pc = "commit" /\ call[p] \in Calls
  BY SerialLone DEF CommitWork, At, Inv
<1>2. /\ repo' = CommitCheckpoint(repo, call[p].cs, EmptyTree, call[p].parent)
      /\ status' = status
      /\ \A q \in Procs \ {p} : call'[q] = call[q]
      /\ call'[p].op = call[p].op /\ call'[p].s = call[p].s
      /\ call'[p].pc = AfterSave(call[p].op)
  BY DEF CommitWork, Goto, Inv, Calls
<1>3. \/ call'[p].pc = "idle"
      \/ call'[p].pc = "decide" /\ call'[p].op = "approve"
      \/ call'[p].pc = "branch" /\ call'[p].op = "reset"
  BY <1>1, <1>2 DEF AfterSave, CallOK, Calls
<1>4. CallFits(p)'
  BY <1>1, <1>2, <1>3 DEF CallFits, OpenSteps
<1>5. \A n \in Sessions : Commits(p, n)' <=> Commits(p, n)
  BY <1>1, <1>3 DEF Commits
<1>6. Serial' /\ Decisions' = Decisions
  <2>1. call'[p].pc # "insert" /\ call[p].pc # "insert"
    BY <1>1, <1>3
  <2>2. QED
    BY <1>1, <1>2, <1>4, <1>5, <2>1, SameTableSerial
<1>7. Approved' = Approved
  <2>1. /\ call[p].cs \in Sessions /\ EmptyTree \in Trees
        /\ call[p].parent \in CommitIds(repo) \cup {0}
    BY <1>1 DEF Calls, EmptyTree, Trees, CallOK
  <2>2. /\ MainHead(repo') = MainHead(repo)
        /\ \A i \in CommitIds(repo) : Ancestors(repo', i) = Ancestors(repo, i)
    BY <1>2, <2>1, CommitCheckpointSound DEF Inv
  <2>3. MainHead(repo) \in CommitIds(repo)
    BY MainReads DEF Inv
  <2>4. QED
    BY <2>2, <2>3 DEF Approved
<1>8. QED
  BY <1>6, <1>7, Stutters

LEMMA MergeBranchHonours ==
    ASSUME Inv, Serial, NEW p \in Procs, MergeBranch(p)
    PROVE  Serial' /\ Honours
<1>1. /\ Lone(p) /\ CallFits(p) /\ CallOK(p) /\ call[p].pc = "mergeSession"
      /\ call[p] \in Calls
  BY SerialLone DEF MergeBranch, At, Inv
<1>2. /\ repo' = SetRef(repo, call[p].s, call[p].base) /\ status' = status
      /\ \A q \in Procs \ {p} : call'[q] = call[q]
      /\ call'[p].op = call[p].op /\ call'[p].s = call[p].s /\ call'[p].pc = "branch"
  BY DEF MergeBranch, Goto, Inv, Calls
<1>3. CallFits(p)'
  BY <1>1, <1>2 DEF CallFits, OpenSteps
<1>4. \A n \in Sessions : Commits(p, n)' <=> Commits(p, n)
  BY <1>1, <1>2 DEF Commits
<1>5. Serial' /\ Decisions' = Decisions
  BY <1>1, <1>2, <1>3, <1>4, SameTableSerial
<1>6. Approved' = Approved
  <2>1. call[p].s \in RefNames \ {MAIN} /\ call[p].base \in CommitIds(repo) \cup {0}
    BY <1>1, NamesDiffer DEF CallOK, Calls
  <2>2. QED
    BY <1>2, <2>1, SetRefSound, SameApproved DEF Inv
<1>7. QED
  BY <1>5, <1>6, Stutters

LEMMA StartBranchHonours ==
    ASSUME Inv, Serial, NEW p \in Procs, StartBranch(p)
    PROVE  Serial' /\ Honours
<1>1. /\ Lone(p) /\ CallFits(p) /\ CallOK(p) /\ call[p].pc = "branch"
      /\ call[p] \in Calls /\ Active \in Sessions
  BY SerialLone, ActiveRow DEF StartBranch, At, Inv
<1>2. /\ repo' = CreateSession(repo, Active, call[p].s + 1, call[p].base) /\ status' = status
      /\ call[p].s + 1 \in Sessions
      /\ \A q \in Procs \ {p} : call'[q] = call[q]
      /\ call'[p].op = call[p].op /\ call'[p].s = call[p].s /\ call'[p].pc = "close"
  BY DEF StartBranch, Goto, Inv, Calls
<1>3. CallFits(p)'
  BY <1>1, <1>2 DEF CallFits, OpenSteps
<1>4. \A n \in Sessions : Commits(p, n)' <=> Commits(p, n)
  BY <1>1, <1>2 DEF Commits
<1>5. Serial' /\ Decisions' = Decisions
  BY <1>1, <1>2, <1>3, <1>4, SameTableSerial
<1>6. Approved' = Approved
  <2>1. call[p].base \in CommitIds(repo)
    BY <1>1 DEF CallOK
  <2>2. QED
    BY <1>1, <1>2, <2>1, CreateSessionSound, SameApproved DEF Inv
<1>7. QED
  BY <1>5, <1>6, Stutters

LEMMA ClearIndexHonours ==
    ASSUME Inv, Serial, NEW p \in Procs, ClearIndex(p)
    PROVE  Serial' /\ Honours
<1>1. Lone(p) /\ call[p].pc = "clear" /\ Active \in Sessions
  BY SerialLone, ActiveRow DEF ClearIndex, At
<1>2. /\ repo' = ClearStaging(repo, Active) /\ status' = status
      /\ \A q \in Procs \ {p} : call'[q] = call[q]
      /\ call'[p].pc = "idle"
  BY DEF ClearIndex, Goto, Inv, Calls
<1>3. CallFits(p)'
  BY <1>2 DEF CallFits, OpenSteps
<1>4. \A n \in Sessions : Commits(p, n)' <=> Commits(p, n)
  BY <1>1, <1>2 DEF Commits
<1>5. Serial' /\ Decisions' = Decisions
  BY <1>1, <1>2, <1>3, <1>4, SameTableSerial
<1>6. Approved' = Approved
  BY <1>1, <1>2, ClearStagingSound, SameApproved DEF Inv
<1>7. QED
  BY <1>5, <1>6, Stutters

(* An approval that finds main where the session's branch is decides here, *)
(* and adds nothing to the approved history.                               *)
LEMMA DecideHonours ==
    ASSUME Inv, Serial, NEW p \in Procs, Decide(p)
    PROVE  Serial' /\ Honours
<1>1. /\ Lone(p) /\ CallFits(p) /\ call[p].pc = "decide" /\ call[p] \in Calls
      /\ call[p].s \in Sessions
  BY SerialLone DEF Decide, At, Inv, Calls
<1>2. PICK s \in Sessions : s = call[p].s
  BY <1>1
<1>3. status[s] = "active" /\ call[p].op = "approve" /\ Active = s
  BY <1>1, <1>2, ActiveIs DEF CallFits, OpenSteps
<1>4. /\ repo' = EnsureRepo(repo, Active) /\ status' = status
      /\ \A q \in Procs \ {p} : call'[q] = call[q]
      /\ call'[p].op = call[p].op /\ call'[p].s = s /\ call'[p].pc \in {"branch", "merge"}
  BY <1>2, <1>3 DEF Decide, Inv, Calls
<1>5. CallFits(p)'
  BY <1>3, <1>4 DEF CallFits, OpenSteps
<1>6. Approved' = Approved
  BY <1>1, <1>2, <1>3, <1>4, EnsureRepoSound, SameApproved DEF Inv
<1>7. \A n \in Sessions : ~Commits(p, n)
  BY <1>1, <1>2 DEF Commits
<1>8. CASE call'[p].pc = "merge"
  <2>1. \A n \in Sessions : ~Commits(p, n)'
    BY <1>8 DEF Commits
  <2>2. Serial' /\ Decisions' = Decisions
    BY <1>1, <1>2, <1>4, <1>5, <1>7, <1>8, <2>1, SameTableSerial
  <2>3. QED
    BY <1>6, <2>2, Stutters
<1>9. CASE call'[p].pc = "branch"
  <2>1. Serial' /\ Lone(p)'
    BY <1>1, <1>2, <1>3, <1>4, <1>5, <1>9, SerialNext
  <2>2. \A n \in Sessions : Commits(p, n)' <=> n = s
    BY <1>3, <1>4, <1>9 DEF Commits
  <2>3. Outcome(s)' = "merged" /\ \A n \in Sessions : n # s => Outcome(n)' = Outcome(n)
    <3>1. "active" \notin Closed
      BY DEF Closed
    <3>2. QED
      BY <1>1, <1>2, <1>3, <1>4, <1>7, <2>1, <2>2, <3>1, LoneOutcome, LoneOutcomeNext
  <2>4. Decisions' = Append(Decisions, "merged")
    <3>1. "merged" \in Closed
      BY DEF Closed
    <3>2. QED
      BY <1>1, <1>2, <1>3, <1>7, <2>3, <3>1, FirstDecided
  <2>5. QED
    BY <1>6, <2>1, <2>4, Approves
<1>10. QED
  BY <1>4, <1>8, <1>9

(* An approval that merges decides when it moves main: all that was        *)
(* approved is among the ancestors of the merge commit.                    *)
LEMMA MergeGrows ==
    ASSUME Inv, NEW p \in Procs, MergeMain(p)
    PROVE  Approved \subseteq Approved'
<1> DEFINE id == Len(repo.commits) + 1
           anc == {id} \cup UNION {Ancestors(repo, q) : q \in MergeParents(p)}
           new == [tree |-> EmptyTree, anc |-> anc]
           added == AddCommit(repo, EmptyTree, MergeParents(p))
<1>1. CallOK(p) /\ call[p].pc = "merge" /\ repo' = SetRef(added, MAIN, id)
  BY DEF MergeMain, At, Inv
<1>2. call[p].main = MainHead(repo) /\ MainHead(repo) \in CommitIds(repo)
  BY <1>1, MainReads DEF CallOK, Inv
<1>3. /\ MergeParents(p) \in SUBSET CommitIds(repo) /\ MainHead(repo) \in MergeParents(p)
      /\ EmptyTree \in Trees
  BY <1>1, <1>2 DEF MergeParents, CallOK, CommitIds, EmptyTree, Trees
<1>4. Sound(added) /\ Len(added.commits) = id /\ Len(repo.commits) \in Nat
  BY <1>3, AddCommitSound, CommitCount DEF Inv
<1>5. added.commits = Append(repo.commits, new)
  BY DEF AddCommit, Inv, Sound, RepoType
<1>6. added.commits[id] = new
  <2> HIDE DEF new, added
  <2>1. repo.commits \in Seq([tree : Trees, anc : SUBSET Nat])
    BY DEF Inv, Sound, RepoType
  <2>2. QED
    BY <1>5, <2>1
<1>7. Ancestors(added, id) = anc
  BY <1>6 DEF Ancestors
<1> HIDE DEF added
<1>8. id \in CommitIds(added)
  BY <1>4 DEF CommitIds
<1>9. repo'.commits = added.commits /\ MainHead(repo') = id
  BY <1>1, <1>4, <1>8, SetMainSound
<1>10. Approved' = anc
  BY <1>7, <1>9 DEF Approved, Ancestors
<1>11. Ancestors(repo, MainHead(repo)) \subseteq anc
  BY <1>3
<1>12. QED
  BY <1>10, <1>11 DEF Approved

LEMMA MergeMainHonours ==
    ASSUME Inv, Serial, NEW p \in Procs, MergeMain(p)
    PROVE  Serial' /\ Honours
<1>1. /\ Lone(p) /\ CallFits(p) /\ call[p].pc = "merge" /\ call[p] \in Calls
      /\ call[p].s \in Sessions
  BY SerialLone DEF MergeMain, At, Inv, Calls
<1>2. PICK s \in Sessions : s = call[p].s
  BY <1>1
<1>3. status[s] = "active" /\ call[p].op = "approve"
  BY <1>1, <1>2 DEF CallFits, OpenSteps
<1>4. /\ status' = status
      /\ \A q \in Procs \ {p} : call'[q] = call[q]
      /\ call'[p].op = call[p].op /\ call'[p].s = s /\ call'[p].pc = "mergeSession"
  BY <1>2 DEF MergeMain, Inv, Calls
<1>5. CallFits(p)'
  BY <1>3, <1>4 DEF CallFits, OpenSteps
<1>6. Serial' /\ Lone(p)'
  BY <1>1, <1>2, <1>3, <1>4, <1>5, SerialNext
<1>7. \A n \in Sessions : ~Commits(p, n) /\ (Commits(p, n)' <=> n = s)
  BY <1>1, <1>2, <1>3, <1>4 DEF Commits
<1>8. Outcome(s)' = "merged" /\ \A n \in Sessions : n # s => Outcome(n)' = Outcome(n)
  <2>1. "active" \notin Closed
    BY DEF Closed
  <2>2. QED
    BY <1>1, <1>2, <1>3, <1>4, <1>6, <1>7, <2>1, LoneOutcome, LoneOutcomeNext
<1>9. Decisions' = Append(Decisions, "merged")
  <2>1. "merged" \in Closed
    BY DEF Closed
  <2>2. QED
    BY <1>1, <1>2, <1>3, <1>7, <1>8, <2>1, FirstDecided
<1>10. QED
  BY <1>6, <1>9, MergeGrows, Approves

(* The row of a session that an approval closes says what was decided      *)
(* before; that of one which a reset closes decides it.                    *)
LEMMA CloseSessionHonours ==
    ASSUME Inv, Serial, NEW p \in Procs, CloseSession(p)
    PROVE  Serial' /\ Honours
<1>1. /\ Lone(p) /\ CallFits(p) /\ call[p].pc = "close" /\ call[p] \in Calls
      /\ call[p].s \in Sessions
  BY SerialLone DEF CloseSession, At, Inv, Calls
<1>2. PICK s \in Sessions : s = call[p].s
  BY <1>1
<1>3. /\ status[s] = "active" /\ call[p].op \in {"approve", "reset"}
      /\ s + 1 \in Sessions /\ s \in Int
  BY <1>1, <1>2, MaxSessionAssumption DEF CallFits, OpenSteps, Sessions
<1>4. /\ repo' = repo /\ status' = [status EXCEPT ![s] = Verdict(call[p].op)]
      /\ \A q \in Procs \ {p} : call'[q] = call[q]
      /\ call'[p].op = call[p].op /\ call'[p].s = s /\ call'[p].pc = "insert"
  BY <1>2 DEF CloseSession, Goto, Inv, Calls
<1>5. /\ status'[s] = Verdict(call[p].op) /\ Verdict(call[p].op) \in Closed
      /\ \A n \in Sessions : n # s => status'[n] = status[n]
  BY <1>1, <1>2, <1>4 DEF Inv, Verdict, Closed
<1>6. status'[s + 1] = "none"
  BY <1>1, <1>2, <1>3, <1>5, ActiveIs
<1>7. CallFits(p)'
  BY <1>3, <1>4, <1>5, <1>6 DEF CallFits, OpenSteps
<1>8. Serial' /\ Lone(p)'
  BY <1>1, <1>2, <1>4, <1>7, SerialNext
<1>9. Approved' = Approved
  BY <1>4 DEF Approved
<1>10. \A n \in Sessions : ~Commits(p, n)' /\ (Commits(p, n) <=> call[p].op = "approve" /\ n = s)
  BY <1>1, <1>2, <1>4 DEF Commits
<1>11. \A n \in Sessions : n # s => Outcome(n)' = Outcome(n)
  BY <1>1, <1>2, <1>5, <1>8, <1>10, LoneOutcome, LoneOutcomeNext
<1>12. Outcome(s)' = Verdict(call[p].op)
  BY <1>1, <1>2, <1>5, <1>8, LoneOutcomeNext
<1>13. CASE call[p].op = "approve"
  <2>1. Outcome(s) = "merged" /\ Outcome(s)' = "merged"
    <3>1. "active" \notin Closed
      BY DEF Closed
    <3>2. QED
      BY <1>1, <1>2, <1>3, <1>10, <1>12, <1>13, <3>1, LoneOutcome DEF Verdict
  <2>2. Decisions' = Decisions
    BY <1>11, <2>1, SameOutcomes
  <2>3. QED
    BY <1>8, <1>9, <2>2, Stutters
<1>14. CASE call[p].op = "reset"
  <2>1. Outcome(s)' = "abandoned" /\ "abandoned" \in Closed
    BY <1>12, <1>14 DEF Verdict, Closed
  <2>2. \A n \in Sessions : ~Commits(p, n)
    BY <1>10, <1>14
  <2>3. Decisions' = Append(Decisions, "abandoned")
    BY <1>1, <1>2, <1>3, <1>11, <2>1, <2>2, FirstDecided
  <2>4. QED
    BY <1>8, <1>9, <2>3, Abandons
<1>15. QED
  BY <1>3, <1>13, <1>14

LEMMA InsertSessionHonours ==
    ASSUME Inv, Serial, NEW p \in Procs, InsertSession(p)
    PROVE  Serial' /\ Honours
<1> DEFINE s == call[p].s
<1>1. /\ Lone(p) /\ CallFits(p) /\ call[p].pc = "insert" /\ call[p] \in Calls
      /\ s \in Sessions
  BY SerialLone DEF InsertSession, At, Inv, Calls
<1>2. s + 1 \in Sessions /\ status[s + 1] = "none"
  BY <1>1 DEF CallFits
<1>3. /\ repo' = repo /\ status' = InsertRow(status, s + 1)
      /\ \A q \in Procs \ {p} : call'[q] = call[q]
      /\ call'[p].pc \in {"clear", "idle"}
  BY DEF InsertSession, Goto, Inv, Calls
<1> HIDE DEF s
<1>4. /\ status'[s + 1] = "active"
      /\ \A n \in Sessions : n # s + 1 => status'[n] = status[n]
  BY <1>2, <1>3 DEF InsertRow, Inv
<1>5. CallFits(p)'
  BY <1>3 DEF CallFits, OpenSteps
<1>6. Serial' /\ Lone(p)'
  BY <1>1, <1>2, <1>3, <1>4, <1>5, SerialNext
<1>7. \A n \in Sessions : ~Commits(p, n) /\ ~Commits(p, n)'
  BY <1>1, <1>3 DEF Commits
<1>8. ASSUME NEW n \in Sessions PROVE Outcome(n)' = Outcome(n)
  <2>1. "active" \notin Closed /\ "none" \notin Closed
    BY DEF Closed
  <2>2. QED
    BY <1>1, <1>2, <1>4, <1>6, <1>7, <2>1, LoneOutcome, LoneOutcomeNext
<1>9. Decisions' = Decisions /\ Approved' = Approved
  BY <1>3, <1>8, SameOutcomes DEF Approved
<1>10. QED
  BY <1>6, <1>9, Stutters
-----------------------------------------------------------------------------
LEMMA InitSerial ==
    ASSUME DefaultBranch = MASTER, Init
    PROVE  Serial /\ Workflow!Init
<1>1. /\ \A p \in Procs : call[p].pc = "idle"
      /\ status[1] = "active" /\ 1 \in Sessions
      /\ \A n \in Sessions : status[n] \in {"active", "none"}
  BY FirstSession DEF Init, Quiet
<1>2. Serial
  BY <1>1 DEF Serial, CallFits, OpenSteps
<1>3. \A n \in Sessions : Outcome(n) = "none"
  BY <1>1 DEF Outcome, Commits, Closed
<1>4. Decisions = <<>>
  <2>1. Decided = {}
    BY <1>3 DEF Decided
  <2>2. QED
    BY <2>1 DEF Decisions
<1>5. Approved = {1}
  <2>1. EmptyTree \in Trees
    BY DEF EmptyTree, Trees
  <2>2. PICK q : q = FirstRepo(EmptyTree)
    OBVIOUS
  <2>3. /\ Sound(q) /\ q.commits = <<[tree |-> EmptyTree, anc |-> {1}]>> /\ q.sha[MAIN] = 1
    BY <2>1, <2>2, FirstRepoSound, NamesDiffer
  <2>4. repo = q
    BY <2>2 DEF Init, FirstRepo
  <2>5. MainHead(repo) = 1
    BY <2>3, <2>4, MainReads
  <2>6. QED
    BY <2>3, <2>4, <2>5 DEF Approved, Ancestors
<1>6. QED
  BY <1>2, <1>4, <1>5 DEF Workflow!Init

LEMMA NextHonours ==
    ASSUME Inv, Serial, [Next]_vars, Overlap = FALSE, MayCrash = FALSE
    PROVE  Serial' /\ Honours
<1>1. ASSUME NEW p \in Procs, Step(p)
      PROVE  Serial' /\ Honours
  <2>1. CASE SaveWork(p)      BY <2>1, SaveWorkHonours
  <2>2. CASE CommitWork(p)    BY <2>2, CommitWorkHonours
  <2>3. CASE Decide(p)        BY <2>3, DecideHonours
  <2>4. CASE MergeMain(p)     BY <2>4, MergeMainHonours
  <2>5. CASE MergeBranch(p)   BY <2>5, MergeBranchHonours
  <2>6. CASE StartBranch(p)   BY <2>6, StartBranchHonours
  <2>7. CASE CloseSession(p)  BY <2>7, CloseSessionHonours
  <2>8. CASE InsertSession(p) BY <2>8, InsertSessionHonours
  <2>9. CASE ClearIndex(p)    BY <2>9, ClearIndexHonours
  <2> QED
    BY <1>1, <2>1, <2>2, <2>3, <2>4, <2>5, <2>6, <2>7, <2>8, <2>9 DEF Step
<1>2. ASSUME NEW p \in Procs, NEW op \in Ops(p), NEW pending \in BOOLEAN,
             Begin(p, op, pending)
      PROVE  Serial' /\ Honours
  BY <1>2, BeginHonours
<1>3. CASE UNCHANGED vars
  <2>1. repo' = repo /\ status' = status /\ call' = call
    BY <1>3 DEF vars
  <2>2. Serial'
    BY <2>1 DEF Serial, CallFits
  <2>3. \A n \in Sessions : Outcome(n)' = Outcome(n)
    BY <2>1 DEF Outcome, Commits
  <2>4. Approved' = Approved
    BY <2>1 DEF Approved
  <2> QED
    BY <2>2, <2>3, <2>4, SameOutcomes, Stutters
<1> QED
  BY <1>1, <1>2, <1>3 DEF Next, Crash

(* Without overlap and without a kill, the steps of the calls add up to    *)
(* those of ApprovalWorkflow: however a call is cut into reads and writes  *)
(* of the repository and of the sessions table, each session is decided    *)
(* once, in order, and only an approval extends the approved history.      *)
THEOREM StepsHonourWorkflow ==
    ASSUME DefaultBranch = MASTER, Overlap = FALSE, MayCrash = FALSE
    PROVE  Spec => Workflow!Spec
<1>1. Init => Serial /\ Workflow!Init
  BY InitSerial
<1>2. Inv /\ Serial /\ [Next]_vars => Serial' /\ [Workflow!Next]_<<Decisions, Approved>>
  BY NextHonours DEF Honours
<1> QED
  BY <1>1, <1>2, Invariance, PTL DEF Spec, Workflow!Spec
=============================================================================
