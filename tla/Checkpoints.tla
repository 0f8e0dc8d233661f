----------------------------- MODULE Checkpoints -----------------------------
(***************************************************************************)
(* Checkpoints and approval sessions of one dialog: the working directory  *)
(* that the agent's tools, its commands and the user edit, the dialog's    *)
(* shadow repository, and the sessions table of its journal.sqlite.        *)
(*                                                                         *)
(* An action is one call into VersioningTracker together with what the     *)
(* caller does before its next await: a tool runs, a chat request takes    *)
(* its checkpoint and the approve route runs wholly on the event loop;     *)
(* restore and reset await two tracker calls in worker threads, and other  *)
(* requests run in between.  The steps inside one call are the subject of  *)
(* module SessionSteps.                                                    *)
(*                                                                         *)
(* SaveOnlyStaged, CloseAsApproved, CloseAll and PendingStaged are likely  *)
(* defects of the operator that follows them: the properties are shown to  *)
(* catch them.                                                             *)
(***************************************************************************)
EXTENDS ShadowRepo

CONSTANTS
    MaxCommits,     \* bound: commits made in one behaviour
    MayBeUnreadable \* paths that another process may hold or protect

ASSUME MaxCommitsAssumption == MaxCommits \in Nat
ASSUME UnreadableAssumption == MayBeUnreadable \subseteq Paths

VARIABLES
    workdir,   \* the project's files
    repo,      \* the shadow repository
    status,    \* sessions table: status of each session, "none" when no row
    route      \* the restore or reset request that awaits its second call

vars == <<workdir, repo, status, route>>

Idle == [kind |-> "idle", target |-> 0]
Statuses == {"none", "active", "merged", "abandoned"}

(* get_active_session takes the first active row, and                      *)
(* _get_active_session_name falls back to session_1.                       *)
ActiveRows(db) == {n \in Sessions : db[n] = "active"}
FirstActive(db) == CHOOSE n \in ActiveRows(db) : \A m \in ActiveRows(db) : n <= m
ActiveSession(db) == IF ActiveRows(db) = {} THEN 1 ELSE FirstActive(db)
Active == ActiveSession(status)

(* Files that a blob of the project's git repository may stand for.        *)
Reusable == {p \in Paths : ProjectGit[p] # Absent}
Room == Len(repo'.commits) <= MaxCommits

TypeOK ==
    /\ workdir \in Trees
    /\ repo \in [sha : [RefNames -> Nat], link : [RefNames -> RefNames \cup {Direct}],
                 index : Trees, commits : Seq([tree : Trees, anc : SUBSET Nat])]
    /\ status \in [Sessions -> Statuses]
    /\ route \in [kind : {"idle", "restore", "reset"}, target : Nat]
-----------------------------------------------------------------------------
(* Project.create_dialog: the table gets session_1, the initial checkpoint *)
(* is taken of whatever the project holds, and main is set to it.          *)
Init ==
    /\ workdir \in Trees
    /\ LET first == CreateCheckpoint(NewRepo, 1, workdir, {})
       IN  repo = SetRef(first, MAIN, Resolve(first, 1))
    /\ status = [n \in Sessions |-> IF n = 1 THEN "active" ELSE "none"]
    /\ route = Idle

(* write_to_file and replace_in_file: the file is written and staged.      *)
(* Staging is best effort: an error in it is swallowed.                    *)
AgentWrite(p, c, staged) ==
    /\ workdir' = [workdir EXCEPT ![p] = c]
    /\ LET e == EnsureRepo(repo, Active)
       IN  repo' = IF staged THEN StageFile(e, workdir', p) ELSE e
    /\ UNCHANGED <<status, route>>

(* delete_file: the file is unlinked if it is there; its index entry goes. *)
AgentDelete(p) ==
    /\ workdir' = [workdir EXCEPT ![p] = Absent]
    /\ repo' = StageFileDeletion(EnsureRepo(repo, Active), p)
    /\ UNCHANGED <<status, route>>

(* run_command, or the user's editor: the tracker is not told.             *)
OutsideEdit(p, c) ==
    /\ workdir' = [workdir EXCEPT ![p] = c]
    /\ UNCHANGED <<repo, status, route>>

(* A chat request: the checkpoint before the user's message.  When a file  *)
(* cannot be read nothing is committed and the request goes on.            *)
ChatCheckpoint(unreadable, old) ==
    /\ repo' = IF Scannable(workdir, unreadable, old)
               THEN CreateCheckpoint(repo, Active, workdir, old)
               ELSE EnsureRepo(repo, Active)
    /\ Room
    /\ UNCHANGED <<workdir, status, route>>

(* GET /session and GET /checkpoints, polled by the IDE, and a restore     *)
(* request answered with 404: they run ensure_repo.                        *)
Poll ==
    /\ repo' = EnsureRepo(repo, Active)
    /\ UNCHANGED <<workdir, status, route>>
-----------------------------------------------------------------------------
(* POST /restore, up to its second await: the id must be listed; the files *)
(* are restored; the staging area is cleared.                              *)
RestoreFiles(c, skipped) ==
    /\ route = Idle
    /\ LET e == EnsureRepo(repo, Active)
       IN  /\ c \in Listed(e, Active)
           /\ workdir' = RestoredWorkdir(e, Active, workdir, c, skipped)
           /\ repo' = ClearStaging(e, Active)
    /\ route' = [kind |-> "restore", target |-> c]
    /\ UNCHANGED status

(* The rest of POST /restore: a checkpoint of the result.                  *)
RestoreCheckpoint(unreadable, old) ==
    /\ route.kind = "restore"
    /\ repo' = IF Scannable(workdir, unreadable, old)
               THEN CreateCheckpoint(repo, Active, workdir, old)
               ELSE EnsureRepo(repo, Active)
    /\ Room
    /\ route' = Idle
    /\ UNCHANGED <<workdir, status>>

(* POST /reset, up to its second await: reset_to_approved.  Pending work   *)
(* is saved in a checkpoint, or not when the scan fails; session n + 1     *)
(* starts at the head main had on entry; the old session is abandoned.     *)
SaveOnlyStaged(r, unreadable, old) ==
    IF HasStaged(r) /\ Scannable(workdir, unreadable, old)
    THEN CreateCheckpoint(r, Active, workdir, old)
    ELSE r

SaveBeforeReset(r, unreadable, old) ==
    IF /\ HasStaged(r) \/ HasUncommitted(r, Active, workdir, unreadable)
       /\ Scannable(workdir, unreadable, old)
    THEN CreateCheckpoint(r, Active, workdir, old)
    ELSE r

CloseAsApproved(db, s, how) == [db EXCEPT ![s] = "approved", ![s + 1] = "active"]
CloseAll(db, s, how) ==
    [n \in Sessions |-> IF n <= s THEN how ELSE IF n = s + 1 THEN "active" ELSE db[n]]
Close(db, s, how) == [db EXCEPT ![s] = how, ![s + 1] = "active"]

ResetSession(unreadable, old) ==
    LET s == Active
        e == EnsureRepo(repo, s)
        approved == MainHead(e)
    IN  /\ route = Idle
        /\ s + 1 \in Sessions
        /\ repo' = CreateSession(SaveBeforeReset(e, unreadable, old), s, s + 1, approved)
        /\ Room
        /\ status' = Close(status, s, "abandoned")
        /\ route' = [kind |-> "reset", target |-> approved]
        /\ UNCHANGED workdir

(* The rest of POST /reset: the files of that head are restored.           *)
ResetFiles(skipped) ==
    LET e == EnsureRepo(repo, Active)
    IN  /\ route.kind = "reset"
        /\ workdir' = RestoredWorkdir(e, Active, workdir, route.target, skipped)
        /\ repo' = ClearStaging(e, Active)
        /\ route' = Idle
        /\ UNCHANGED status
-----------------------------------------------------------------------------
(* POST /approve: approve_all, then clear_staging.  Pending work is first  *)
(* committed to the session, and the staging area cleared.                 *)
PendingStaged(unreadable) == HasStaged(EnsureRepo(repo, Active))
Pending(unreadable) ==
    LET e == EnsureRepo(repo, Active)
    IN  HasUncommitted(e, Active, workdir, unreadable) \/ HasStaged(e)

Prepared(unreadable, old) ==
    LET e == EnsureRepo(repo, Active)
    IN  IF Pending(unreadable)
        THEN ClearStaging(CreateCheckpoint(e, Active, workdir, old), Active)
        ELSE e

(* The merge commit has the session's tree, and main and the session as    *)
(* parents; main and the session's branch are set to it.                   *)
MergeSession(r, s) ==
    LET id    == Len(r.commits) + 1
        added == AddCommit(r, Tree(r, Resolve(r, s)), {MainHead(r), Resolve(r, s)})
    IN  SetRef(SetRef(added, MAIN, id), s, id)

Approve(unreadable, old) ==
    LET s == Active
        r == Prepared(unreadable, old)
        merged == IF Resolve(r, s) = MainHead(r) THEN r ELSE MergeSession(r, s)
    IN  /\ s + 1 \in Sessions
        /\ Pending(unreadable) => Scannable(workdir, unreadable, old)
        /\ repo' = ClearStaging(CreateSession(merged, s, s + 1, MainHead(merged)), s + 1)
        /\ Room
        /\ status' = Close(status, s, "merged")
        /\ UNCHANGED <<workdir, route>>

(* The auto-commit raises: the route answers 500.                          *)
ApproveFails(unreadable, old) ==
    /\ Pending(unreadable) /\ ~Scannable(workdir, unreadable, old)
    /\ repo' = EnsureRepo(repo, Active)
    /\ UNCHANGED <<workdir, status, route>>
-----------------------------------------------------------------------------
Edit ==
    \/ \E p \in Paths, c \in Contents, staged \in BOOLEAN : AgentWrite(p, c, staged)
    \/ \E p \in Paths : AgentDelete(p)
    \/ \E p \in Paths, c \in Contents \cup {Absent} : OutsideEdit(p, c)

Request ==
    \/ Poll
    \/ \E u \in SUBSET MayBeUnreadable, old \in SUBSET Reusable :
           \/ ChatCheckpoint(u, old)
           \/ RestoreCheckpoint(u, old)
           \/ ResetSession(u, old)
           \/ Approve(u, old)
           \/ ApproveFails(u, old)
    \/ \E c \in 1..Len(repo.commits), skipped \in SUBSET MayBeUnreadable :
           RestoreFiles(c, skipped)
    \/ \E skipped \in SUBSET MayBeUnreadable : ResetFiles(skipped)

Next == Edit \/ Request

Spec == Init /\ [][Next]_vars
-----------------------------------------------------------------------------
ActiveHead == Resolve(repo, Active)

(* The branch of the active session contains the approved state, however   *)
(* often ensure_repo recreates it and however HEAD is chained: work never  *)
(* starts from something older than main.                                  *)
ActiveHoldsMain == MainHead(repo) \in Ancestors(repo, ActiveHead)

(* A commit made of the project has the content on disk of every file that *)
(* is neither ignored nor staged nor held by another process               *)
(* (create_checkpoint, and the merge commit of approve_all).               *)
CheckpointMatchesProject ==
    [][\A i \in 1..Len(repo'.commits) : i > Len(repo.commits) =>
           \A p \in Paths \ (Ignored \cup MayBeUnreadable) :
               repo.index[p] = Absent => Tree(repo', i)[p] = workdir[p]]_vars

(* Restoring never deletes or changes a file that no checkpoint has and    *)
(* the agent has not staged (files of the user outside the agent's work).  *)
RestoreSparesUnknown ==
    [][route # route' =>
          \A p \in Paths :
              /\ repo.index[p] = Absent
              /\ \A i \in 1..Len(repo.commits) : Tree(repo, i)[p] = Absent
              => workdir'[p] = workdir[p]]_vars

(* A reset does not lose work: when the files can be read, each file that  *)
(* is neither ignored nor staged is in some commit before the session is   *)
(* abandoned ("creates an automatic checkpoint before reset to preserve    *)
(* work").                                                                 *)
ResetSavesWork ==
    [][(\E n \in Sessions : status[n] = "active" /\ status'[n] = "abandoned") =>
          \A p \in Paths \ (Ignored \cup MayBeUnreadable) :
              (repo.index[p] = Absent /\ workdir[p] # Absent) =>
                  \E i \in 1..Len(repo'.commits) : Tree(repo', i)[p] = workdir[p]]_vars
-----------------------------------------------------------------------------
(* The workflow a user is promised: sessions are decided one after the     *)
(* other, only an approval extends the approved history, and no step takes *)
(* anything out of it.                                                     *)
Workflow == INSTANCE ApprovalWorkflow WITH
    decisions <- [n \in 1..(Active - 1) |-> status[n]],
    approved  <- Ancestors(repo, MainHead(repo))

ImplementsWorkflow == Workflow!Spec
-----------------------------------------------------------------------------
(* A promise of the documentation that the code does not keep.             *)

(* "Current session changes are locked in as approved": when a session has *)
(* been merged, main has every file that is neither ignored nor staged     *)
(* (while no restore or reset is under way).                               *)
ApprovalLocksIn ==
    [][(route = Idle /\ \E n \in Sessions : status[n] = "active" /\ status'[n] = "merged") =>
          \A p \in Paths \ Ignored :
              repo.index[p] = Absent => Tree(repo', MainHead(repo'))[p] = workdir[p]]_vars
=============================================================================
