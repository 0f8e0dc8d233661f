---------------------------- MODULE SessionSteps ----------------------------
(***************************************************************************)
(* The steps inside the tracker calls that create a checkpoint, approve a  *)
(* session and reset to the approved state: reads of the references and of *)
(* the sessions table, and each write of either, which is committed on its *)
(* own.  The chat and approve requests make their calls on the event loop; *)
(* restore and reset make theirs in worker threads, so the steps of two    *)
(* calls interleave; and the server may be killed between any two steps    *)
(* and be started again on the files as they are.                          *)
(*                                                                         *)
(* The content of files is left out: trees are those of an empty project,  *)
(* and whether a call finds pending work is a free choice.                 *)
(*                                                                         *)
(* MainParentLost, OpAsVerdict, InsertNothing and InsertOrReplace are      *)
(* likely defects of the operator that follows them: the properties are    *)
(* shown to catch them.                                                    *)
(***************************************************************************)
EXTENDS ShadowRepo

CONSTANTS
    Loop,        \* the event loop
    Workers,     \* worker threads of asyncio.to_thread
    MaxCommits,  \* bound: commits made in one behaviour
    Overlap,     \* whether calls may overlap
    MayCrash     \* whether the server may be killed

ASSUME LoopAssumption == Loop \notin Workers
ASSUME SwitchAssumption == Overlap \in BOOLEAN /\ MayCrash \in BOOLEAN
ASSUME StepsMaxCommitsAssumption == MaxCommits \in Nat

VARIABLES
    repo,    \* the shadow repository
    status,  \* the sessions table
    call     \* the tracker call each process is in, with its local variables

vars == <<repo, status, call>>

Procs == {Loop} \cup Workers
Ops(p) == IF p = Loop THEN {"checkpoint", "approve"} ELSE {"checkpoint", "reset"}
Closed == {"merged", "abandoned"}
Steps == {"idle", "save", "commit", "decide", "merge", "mergeSession",
          "branch", "close", "insert", "clear"}

(* s: active_session; cs, parent: create_checkpoint's session and parent;  *)
(* head, main: session_head and main_head; base: the new session's commit. *)
Quiet == [op |-> "none", pc |-> "idle", s |-> 1, cs |-> 1, parent |-> 0,
          head |-> 0, main |-> 0, base |-> 0]

ActiveRows(db) == {n \in Sessions : db[n] = "active"}
ActiveSession(db) ==
    IF ActiveRows(db) = {} THEN 1
    ELSE CHOOSE n \in ActiveRows(db) : \A m \in ActiveRows(db) : n <= m
Active == ActiveSession(status)
Room(k) == Len(repo.commits) + k <= MaxCommits

Calls == [op : {"none", "checkpoint", "approve", "reset"}, pc : Steps,
          s : Sessions, cs : Sessions, parent : Nat, head : Nat, main : Nat, base : Nat]

TypeOK ==
    /\ repo \in [sha : [RefNames -> Nat], link : [RefNames -> RefNames \cup {Direct}],
                 index : Trees, commits : Seq([tree : Trees, anc : SUBSET Nat])]
    /\ status \in [Sessions -> {"none", "active"} \cup Closed]
    /\ call \in [Procs -> Calls]

Init ==
    /\ LET first == CommitCheckpoint(NewRepo, 1, EmptyTree, 0)
       IN  repo = SetRef(first, MAIN, Resolve(first, 1))
    /\ status = [n \in Sessions |-> IF n = 1 THEN "active" ELSE "none"]
    /\ call = [p \in Procs |-> Quiet]
-----------------------------------------------------------------------------
At(p, pc) == call[p].pc = pc
Goto(p, pc) == call' = [call EXCEPT ![p].pc = pc]

(* The head of a call: ensure_repo; reset_to_approved reads main and then  *)
(* the active session; "pending" is what has_staged_changes and            *)
(* has_uncommitted_changes answer.                                         *)
Begin(p, op, pending) ==
    /\ At(p, "idle")
    /\ op \in Ops(p)
    /\ Overlap \/ \A q \in Procs : At(q, "idle")
    /\ Room(2) /\ Active + 1 \in Sessions
    /\ repo' = EnsureRepo(repo, Active)
    /\ call' = [call EXCEPT ![p] =
           [Quiet EXCEPT !.op = op,
                         !.s = Active,
                         !.main = MainHead(repo'),
                         !.base = MainHead(repo'),
                         !.pc = CASE op = "checkpoint" \/ pending -> "save"
                                  [] op = "approve" /\ ~pending   -> "decide"
                                  [] op = "reset" /\ ~pending     -> "branch"]]
    /\ UNCHANGED status

(* create_checkpoint up to the scan: the parent is read here ...           *)
SaveWork(p) ==
    /\ At(p, "save")
    /\ repo' = EnsureRepo(repo, Active)
    /\ call' = [call EXCEPT ![p].cs = Active,
                            ![p].parent = CheckpointParent(repo', Active),
                            ![p].pc = "commit"]
    /\ UNCHANGED status

(* ... and the commit is made, and the branch set to it, after the scan.   *)
AfterSave(op) ==
    CASE op = "checkpoint" -> "idle" [] op = "approve" -> "decide" [] op = "reset" -> "branch"

CommitWork(p) ==
    /\ At(p, "commit")
    /\ Room(1)
    /\ repo' = CommitCheckpoint(repo, call[p].cs, EmptyTree, call[p].parent)
    /\ Goto(p, AfterSave(call[p].op))
    /\ UNCHANGED status

(* approve_all: clear_staging (ensure_repo), then the heads are compared.  *)
Decide(p) ==
    LET e == EnsureRepo(repo, Active)
        head == Resolve(e, Active)
    IN  /\ At(p, "decide")
        /\ repo' = e
        /\ call' = [call EXCEPT ![p].s = Active,
                                ![p].head = head,
                                ![p].main = MainHead(e),
                                ![p].base = MainHead(e),
                                ![p].pc = IF head = MainHead(e) THEN "branch" ELSE "merge"]
        /\ UNCHANGED status

(* The merge commit, and main set to it; then the session's branch.        *)
MainParentLost(p) == {call[p].head} \ {0}
MergeParents(p) == {call[p].main, call[p].head} \ {0}

MergeMain(p) ==
    /\ At(p, "merge")
    /\ Room(1)
    /\ repo' = SetRef(AddCommit(repo, EmptyTree, MergeParents(p)), MAIN, Len(repo.commits) + 1)
    /\ call' = [call EXCEPT ![p].base = Len(repo.commits) + 1, ![p].pc = "mergeSession"]
    /\ UNCHANGED status

MergeBranch(p) ==
    /\ At(p, "mergeSession")
    /\ repo' = SetRef(repo, call[p].s, call[p].base)
    /\ Goto(p, "branch")
    /\ UNCHANGED status

(* _create_session.                                                        *)
StartBranch(p) ==
    /\ At(p, "branch")
    /\ call[p].s + 1 \in Sessions
    /\ repo' = CreateSession(repo, Active, call[p].s + 1, call[p].base)
    /\ Goto(p, "close")
    /\ UNCHANGED status

(* close_session: one transaction.                                         *)
OpAsVerdict(op) == op
Verdict(op) == IF op = "approve" THEN "merged" ELSE "abandoned"

CloseSession(p) ==
    /\ At(p, "close")
    /\ status' = [status EXCEPT ![call[p].s] = Verdict(call[p].op)]
    /\ Goto(p, "insert")
    /\ UNCHANGED repo

(* create_new_session: another.  session_name is UNIQUE, so that an insert *)
(* of a name already there raises, and the request fails.                  *)
InsertNothing(db, n) == db
InsertOrReplace(db, n) == [db EXCEPT ![n] = "active"]
InsertRow(db, n) == IF db[n] = "none" THEN [db EXCEPT ![n] = "active"] ELSE db

InsertSession(p) ==
    /\ At(p, "insert")
    /\ call[p].s + 1 \in Sessions
    /\ status' = InsertRow(status, call[p].s + 1)
    /\ Goto(p, IF call[p].op = "approve" /\ status' # status THEN "clear" ELSE "idle")
    /\ UNCHANGED repo

(* The approve route's clear_staging.                                      *)
ClearIndex(p) ==
    /\ At(p, "clear")
    /\ repo' = ClearStaging(repo, Active)
    /\ Goto(p, "idle")
    /\ UNCHANGED status

(* The server is killed and started again.                                 *)
Crash ==
    /\ MayCrash
    /\ call' = [p \in Procs |-> Quiet]
    /\ UNCHANGED <<repo, status>>
-----------------------------------------------------------------------------
Step(p) ==
    \/ SaveWork(p) \/ CommitWork(p) \/ Decide(p)
    \/ MergeMain(p) \/ MergeBranch(p) \/ StartBranch(p)
    \/ CloseSession(p) \/ InsertSession(p) \/ ClearIndex(p)

Next ==
    \/ \E p \in Procs : Step(p) \/ \E op \in Ops(p), pending \in BOOLEAN : Begin(p, op, pending)
    \/ Crash

Spec == Init /\ [][Next]_vars

(* A thread that has closed a session goes on to insert the next: nothing  *)
(* between the two statements waits for another process.                   *)
FairSpec == Spec /\ \A p \in Procs : WF_vars(InsertSession(p))
-----------------------------------------------------------------------------
(* Whatever calls overlap and wherever the server is killed, sessions are  *)
(* numbered without gaps and only the last can be active:                  *)
(* get_active_session's LIMIT 1 never has to choose.                       *)
RowsInOrder ==
    \A m, n \in Sessions : m < n /\ status[n] # "none" => status[m] \in Closed

(* Approved history only grows, also when a reset or a checkpoint in a     *)
(* worker thread overlaps an approval, or when it is cut short.            *)
MainDescends ==
    [][MainHead(repo) \in Ancestors(repo', MainHead(repo'))]_vars

(* The gap between close_session and create_new_session closes again: the  *)
(* dialog gets an active session back.                                     *)
GapCloses == ActiveRows(status) = {} ~> ActiveRows(status) # {}
=============================================================================
