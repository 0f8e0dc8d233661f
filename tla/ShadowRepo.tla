----------------------------- MODULE ShadowRepo -----------------------------
(***************************************************************************)
(* The shadow repository a dialog keeps under                              *)
(* .agentsmithy/dialogs/<id>/checkpoints, as services/versioning.py        *)
(* (VersioningTracker) reads and writes it.  A repository value r has      *)
(*   sha, link   the references (module RefStore)                          *)
(*   index       the staging area: a tree of the staged blobs              *)
(*   commits     the object store: commit i is [tree, anc], where anc is   *)
(*               the set of commits reachable from i over parents, i       *)
(*               included                                                  *)
(* The operators below are the methods of VersioningTracker, as functions  *)
(* from repository values to repository values; the modules that use them  *)
(* make actions of them.                                                   *)
(*                                                                         *)
(* ParentFromHead and WipedWorkdir are likely defects of the operator that *)
(* follows each: the properties are shown to catch them.                   *)
(***************************************************************************)
EXTENDS RefStore

CONSTANTS
    Paths,        \* project files
    Contents,     \* file contents; two contents have the same size
    Absent,       \* "no such file" in a tree
    Ignored,      \* paths the ignore patterns match (.gitignore, DEFAULT_EXCLUDES)
    ProjectGit,   \* the tree at HEAD of the project's own git repository
    PathIsGitDir  \* whether dulwich's repo.path names the .git directory.
                  \* It names the working tree (dulwich 0.24.8), so FALSE is the
                  \* program; TRUE is what _ensure_branches_exist was written for

Trees == [Paths -> Contents \cup {Absent}]
EmptyTree == [p \in Paths |-> Absent]
Files(t) == {p \in Paths : t[p] # Absent}

ASSUME AbsentAssumption == Absent \notin Contents
ASSUME IgnoredAssumption == Ignored \subseteq Paths
ASSUME ProjectGitAssumption == ProjectGit \in Trees
ASSUME PathIsGitDirAssumption == PathIsGitDir \in BOOLEAN

NewRepo == [sha |-> NewContainer.sha, link |-> NewContainer.link,
            index |-> EmptyTree, commits |-> <<>>]

Tree(r, c)      == r.commits[c].tree
Ancestors(r, c) == r.commits[c].anc
MainHead(r)     == Resolve(r, MAIN)
-----------------------------------------------------------------------------
(* ensure_repo and _ensure_branches_exist, which every public method of    *)
(* the tracker calls first.  Nothing happens until HEAD resolves.  Then    *)
(* main is created when missing, and the branch of the active session s is *)
(* (re)created from main unless its file is found as a plain commit id.    *)
(* The file is looked for under repo.path.                                 *)
CreateMain(r) ==
    IF Exists(r, MAIN) THEN r ELSE SetRef(r, MAIN, Resolve(r, HEAD))

(* The three cases of the session's ref file: not found under repo.path,   *)
(* a symbolic reference (unlinked and recreated), a commit id (kept).      *)
RecreateBranch(r, s) ==
    IF ~(PathIsGitDir /\ Exists(r, s)) THEN SetRef(r, s, MainHead(r))
    ELSE IF r.link[s] # Direct THEN WriteRefFile(r, s, MainHead(r))
    ELSE r

PointHead(r, s) == IF PathIsGitDir THEN WriteHeadFile(r, s) ELSE r

EnsureRepo(r, s) ==
    IF Resolve(r, HEAD) = 0 THEN r
    ELSE PointHead(RecreateBranch(CreateMain(r), s), s)
-----------------------------------------------------------------------------
(* stage_file: the file's current content becomes its entry in the index;  *)
(* nothing when the file is gone.  stage_file_deletion drops the entry.    *)
StageFile(r, wd, p) ==
    IF wd[p] = Absent THEN r ELSE [r EXCEPT !.index = [@ EXCEPT ![p] = wd[p]]]

StageFileDeletion(r, p) == [r EXCEPT !.index = [@ EXCEPT ![p] = Absent]]

HasStaged(r) == Files(r.index) # {}

ClearStaging(r, s) == [EnsureRepo(r, s) EXCEPT !.index = EmptyTree]

(* _build_tree_from_workdir: every file that is not ignored, with the blob *)
(* of the project's git HEAD for a file in "old" (not modified in the last *)
(* second) that has the size of that blob.  Contents have one size.        *)
Reused(old, p) == p \in old /\ ProjectGit[p] # Absent
BlobOf(wd, old, p) == IF Reused(old, p) THEN ProjectGit[p] ELSE wd[p]

ScanWorkdir(wd, old) ==
    [p \in Paths |->
        IF p \in Ignored \/ wd[p] = Absent THEN Absent
        ELSE BlobOf(wd, old, p)]

(* _merge_staging_into_tree: an index entry replaces what the scan found.  *)
MergeStaging(tree, index) ==
    [p \in Paths |-> IF index[p] # Absent THEN index[p] ELSE tree[p]]

(* A scan raises when a file it has to read cannot be read; it does not    *)
(* read a file for which it takes the project's blob.                      *)
Scannable(wd, unreadable, old) ==
    \A p \in unreadable \ Ignored : wd[p] = Absent \/ Reused(old, p)

(* The parent a new checkpoint gets, read before the scan (0: none).       *)
ParentFromHead(r, s) == Resolve(r, HEAD)
CheckpointParent(r, s) == IF Exists(r, s) THEN Resolve(r, s) ELSE Resolve(r, HEAD)

AddCommit(r, tree, parents) ==
    LET id == Len(r.commits) + 1
    IN  [r EXCEPT !.commits =
            Append(@, [tree |-> tree,
                       anc  |-> {id} \cup UNION {Ancestors(r, q) : q \in parents}])]

(* The end of create_checkpoint: the commit is added, the session's branch *)
(* is set to it through the container and again as a file, and main is     *)
(* created with the first commit.  The index is left as it is.             *)
CommitCheckpoint(r, s, tree, parent) ==
    LET id    == Len(r.commits) + 1
        added == AddCommit(r, tree, {parent} \ {0})
        moved == WriteRefFile(SetRef(added, s, id), s, id)
    IN  IF parent = 0 /\ ~Exists(moved, MAIN) THEN SetRef(moved, MAIN, id) ELSE moved

CreateCheckpoint(r, s, wd, old) ==
    LET e == EnsureRepo(r, s)
    IN  CommitCheckpoint(e, s, MergeStaging(ScanWorkdir(wd, old), e.index),
                         CheckpointParent(e, s))
-----------------------------------------------------------------------------
(* has_uncommitted_changes: whether a file that is not ignored differs     *)
(* from the head of the session's branch.  A file that cannot be read is   *)
(* taken to be unchanged when it is on both sides.                         *)
Differs(tree, wd, unreadable, p) ==
    /\ tree[p] # wd[p]
    /\ ~(p \in unreadable /\ tree[p] # Absent /\ wd[p] # Absent)

HasUncommitted(r, s, wd, unreadable) ==
    /\ Exists(r, s)
    /\ Resolve(r, s) # 0
    /\ \E p \in Paths \ Ignored :
           Differs(Tree(r, Resolve(r, s)), wd, unreadable, p)

(* list_checkpoints: what can be reached from the branch of the active     *)
(* session.                                                                *)
Listed(r, s) ==
    LET head == CheckpointParent(r, s)
    IN  IF head = 0 THEN {} ELSE Ancestors(r, head)

(* _create_session: branch n is set to commit c, and HEAD made to name it. *)
PointHeadAt(r, n) == SetSymRef(r, HEAD, n)
CreateSession(r, s, n, c) ==
    PointHeadAt(WriteRefFile(SetRef(EnsureRepo(r, s), n, c), n, c), n)

(* restore_checkpoint(c): files of the session's head, or staged, that c   *)
(* lacks are deleted, then all files of c are written.  A file in          *)
(* "skipped" could not be deleted or written.                              *)
TrackedFiles(r, s) ==
    Files(r.index) \cup
    (IF CheckpointParent(r, s) = 0 THEN {} ELSE Files(Tree(r, CheckpointParent(r, s))))

WipedWorkdir(r, s, wd, c, skipped) ==
    [p \in Paths |-> IF p \in skipped THEN wd[p] ELSE Tree(r, c)[p]]
RestoredWorkdir(r, s, wd, c, skipped) ==
    [p \in Paths |->
        IF p \in skipped THEN wd[p]
        ELSE IF Tree(r, c)[p] # Absent THEN Tree(r, c)[p]
        ELSE IF p \in TrackedFiles(r, s) THEN Absent
        ELSE wd[p]]
=============================================================================
