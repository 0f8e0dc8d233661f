--------------------------- MODULE Checkpoints_proofs --------------------------
(***************************************************************************)
(* Checkpoints for any number of sessions and commits, any paths and       *)
(* contents: its types, that work always starts from the approved state,   *)
(* that it implements ApprovalWorkflow, and what its commits, a restore    *)
(* and a reset do with the project's files.  As in SessionSteps_proofs,    *)
(* git's init.defaultBranch is master.                                     *)
(*                                                                         *)
(* The sessions table alone says which session is active; the repository   *)
(* says it too, by HEAD, and the two disagree.  The invariant therefore    *)
(* follows the active session's branch through every operator: it is a     *)
(* plain reference (the chain that starts at HEAD ends before it, since    *)
(* no link is later than the active session), it holds a commit, and main  *)
(* is an ancestor of that commit.                                          *)
(***************************************************************************)
EXTENDS Checkpoints, ShadowRepo_proofs, SequenceTheorems

Closed == {"merged", "abandoned"}

InOrder(db, s) ==
    /\ s \in Sessions
    /\ \A n \in Sessions : /\ n < s => db[n] \in Closed
                           /\ n = s => db[n] = "active"
                           /\ n > s => db[n] = "none"

Low(r, s) == \A x \in RefNames : r.link[x] <= s

Based(r, s) ==
    /\ Low(r, s)
    /\ r.link[s] = Direct /\ r.sha[s] # 0
    /\ MainHead(r) \in Ancestors(r, r.sha[s])

(* Commits are never changed; q is what r becomes while session s is       *)
(* active, and no approval takes place.                                    *)
Keeps(r, q) ==
    /\ Len(r.commits) <= Len(q.commits)
    /\ \A i \in CommitIds(r) : q.commits[i] = r.commits[i]

Works(r, q, s) == Sound(q) /\ Based(q, s) /\ MainHead(q) = MainHead(r) /\ Keeps(r, q)

Routes == [kind : {"idle", "restore", "reset"}, target : Nat]

RouteOK == route \in Routes /\ (route.kind # "idle" => route.target \in CommitIds(repo))

Inv ==
    /\ Sound(repo) /\ Based(repo, Active)
    /\ workdir \in Trees
    /\ status \in [Sessions -> Statuses] /\ InOrder(status, Active)
    /\ RouteOK

(* A step leaves the active session at work, or closes it.                 *)
Stays == status' = status /\ Works(repo, repo', Active)

Advances(how) ==
    /\ Active + 1 \in Sessions
    /\ status' = Close(status, Active, how)
    /\ Sound(repo') /\ Based(repo', Active + 1) /\ Keeps(repo, repo')
    /\ Ancestors(repo, MainHead(repo)) \subseteq Ancestors(repo', MainHead(repo'))
    /\ how = "abandoned" => MainHead(repo') = MainHead(repo)

(* The commits of q are those of r and at most one checkpoint of wd.       *)
Scanned(r, q, wd, old) ==
    \/ q.commits = r.commits
    \/ /\ Len(q.commits) = Len(r.commits) + 1
       /\ Tree(q, Len(q.commits)) = MergeStaging(ScanWorkdir(wd, old), r.index)
-----------------------------------------------------------------------------
LEMMA Names ==
    /\ Sessions \subseteq Int /\ RefNames \subseteq Int /\ Direct \in Int
    /\ \A s \in Sessions : s >= 1 /\ Direct <= s /\ HEAD < s /\ MAIN < s /\ MASTER < s
    /\ \A s \in Sessions : s # HEAD /\ s # MAIN /\ s # MASTER /\ s # Direct
BY MaxSessionAssumption DEF Sessions, RefNames, MAIN, HEAD, MASTER, Direct

(* The table determines the active session.                                *)
LEMMA ActiveIs ==
    ASSUME NEW db \in [Sessions -> Statuses], NEW s, InOrder(db, s)
    PROVE  ActiveSession(db) = s
<1>1. s \in Sessions /\ \A n \in Sessions : db[n] = "active" <=> n = s
  BY Names DEF InOrder, Closed
<1>2. ActiveRows(db) = {s}
  BY <1>1 DEF ActiveRows
<1>3. FirstActive(db) = s
  BY <1>1, <1>2, Names DEF FirstActive
<1>4. QED
  BY <1>2, <1>3 DEF ActiveSession

LEMMA CloseInOrder ==
    ASSUME NEW db \in [Sessions -> Statuses], NEW s, InOrder(db, s), s + 1 \in Sessions,
           NEW how \in Closed
    PROVE  /\ Close(db, s, how) \in [Sessions -> Statuses]
           /\ InOrder(Close(db, s, how), s + 1)
           /\ ActiveSession(Close(db, s, how)) = s + 1
<1> DEFINE new == Close(db, s, how)
<1>1. new \in [Sessions -> Statuses]
  BY DEF Close, Statuses, Closed
<1>2. s \in Sessions /\ s + 1 # s
  BY Names DEF InOrder
<1>3. \A n \in Sessions : new[n] = IF n = s + 1 THEN "active" ELSE IF n = s THEN how ELSE db[n]
  BY <1>2 DEF Close
<1> HIDE DEF new
<1>4. InOrder(new, s + 1)
  BY <1>2, <1>3, Names DEF InOrder
<1>5. QED
  BY <1>1, <1>4, ActiveIs DEF new

LEMMA KeepsFacts ==
    ASSUME NEW r, NEW q, Sound(r), Sound(q), Keeps(r, q)
    PROVE  /\ CommitIds(r) \subseteq CommitIds(q)
           /\ \A i \in CommitIds(r) : Tree(q, i) = Tree(r, i) /\ Ancestors(q, i) = Ancestors(r, i)
<1>1. Len(r.commits) \in Nat /\ Len(q.commits) \in Nat
  BY CommitCount
<1>2. QED
  BY <1>1 DEF Keeps, CommitIds, Tree, Ancestors

LEMMA KeepsTrans ==
    ASSUME NEW r, NEW m, NEW q, Sound(r), Sound(m), Sound(q), Keeps(r, m), Keeps(m, q)
    PROVE  Keeps(r, q)
<1>1. Len(r.commits) \in Nat /\ Len(m.commits) \in Nat /\ Len(q.commits) \in Nat
  BY CommitCount
<1>2. QED
  BY <1>1 DEF Keeps, CommitIds

LEMMA KeepsSame ==
    ASSUME NEW r, NEW q, Sound(r), q.commits = r.commits
    PROVE  Keeps(r, q)
BY CommitCount DEF Keeps

LEMMA WorksTrans ==
    ASSUME NEW r, NEW m, NEW q, NEW s, Sound(r), Works(r, m, s), Works(m, q, s)
    PROVE  Works(r, q, s)
BY KeepsTrans DEF Works

LEMMA CommitType ==
    ASSUME NEW r, Sound(r), NEW i \in CommitIds(r)
    PROVE  Tree(r, i) \in Trees /\ Ancestors(r, i) \in SUBSET Nat
<1>1. r.commits \in Seq([tree : Trees, anc : SUBSET Nat])
  BY DEF Sound, RepoType
<1>2. r.commits[i] \in [tree : Trees, anc : SUBSET Nat]
  BY <1>1, ElementType, Zenon DEF CommitIds
<1>3. QED
  BY <1>2 DEF Tree, Ancestors

(* The active session's branch reads as the commit its file holds.         *)
LEMMA BasedFacts ==
    ASSUME NEW r, Sound(r), NEW s \in Sessions, Based(r, s)
    PROVE  /\ Resolve(r, s) = r.sha[s] /\ Target(r, s) = s /\ Exists(r, s)
           /\ CheckpointParent(r, s) = r.sha[s] /\ r.sha[s] \in CommitIds(r)
           /\ MainHead(r) \in CommitIds(r)
<1>1. Resolve(r, s) = r.sha[s] /\ Target(r, s) = s
  BY DirectRef DEF Based
<1>2. Exists(r, s)
  BY DEF Exists, Based
<1>3. r.sha[s] \in CommitIds(r)
  BY NamesDiffer DEF Sound, Based
<1>4. QED
  BY <1>1, <1>2, <1>3, MainReads DEF CheckpointParent
-----------------------------------------------------------------------------
(* What the writers of references do to the files of the others.           *)
LEMMA SetRefFields ==
    ASSUME NEW r, Sound(r), NEW x \in RefNames, NEW c \in CommitIds(r) \cup {0},
           NEW q, q = SetRef(r, x, c)
    PROVE  /\ q.commits = r.commits /\ q.index = r.index
           /\ \A z \in RefNames : q.link[z] \in {r.link[z], Direct}
           /\ r.link[x] = Direct =>
                /\ q.link[x] = Direct /\ q.sha[x] = c
                /\ \A z \in RefNames \ {x} : q.sha[z] = r.sha[z] /\ q.link[z] = r.link[z]
<1> DEFINE t == Target(r, x)
<1>1. t \in RefNames /\ r \in RepoType
  BY TargetStays DEF Sound
<1>2. q = Rewrite(r, t, c, Direct)
  BY DEF SetRef, Rewrite
<1>3. r.link[x] = Direct => t = x
  BY DirectRef
<1>4. q.index = r.index
  BY <1>1, <1>2 DEF Rewrite, RepoType
<1> HIDE DEF t
<1>5. /\ q.commits = r.commits
      /\ \A z \in RefNames : /\ q.sha[z] = IF z = t THEN c ELSE r.sha[z]
                             /\ q.link[z] = IF z = t THEN Direct ELSE r.link[z]
  BY <1>1, <1>2, RewriteType
<1>6. QED
  BY <1>3, <1>4, <1>5

LEMMA WriteRefFields ==
    ASSUME NEW r, Sound(r), NEW n \in Sessions, NEW c \in CommitIds(r) \cup {0},
           NEW q, q = WriteRefFile(r, n, c)
    PROVE  /\ q.commits = r.commits /\ q.index = r.index
           /\ q.link[n] = Direct /\ q.sha[n] = c
           /\ \A z \in RefNames \ {n} : q.sha[z] = r.sha[z] /\ q.link[z] = r.link[z]
<1>1. n \in RefNames /\ r \in RepoType
  BY NamesDiffer DEF Sound
<1>2. q = Rewrite(r, n, c, Direct)
  BY DEF WriteRefFile, Rewrite
<1>3. q.index = r.index
  BY <1>1, <1>2 DEF Rewrite, RepoType
<1>4. QED
  BY <1>1, <1>2, <1>3, RewriteType

(* Names are integers.                                                     *)
LEMMA LinkIsInt ==
    ASSUME NEW r, Sound(r), NEW x \in RefNames
    PROVE  r.link[x] \in Int
<1>1. r.link[x] \in RefNames \cup {Direct}
  BY DEF Sound, RepoType
<1>2. QED
  BY <1>1, Names

LEMMA LowerIsLow ==
    ASSUME NEW r, Sound(r), NEW n \in Int, Low(r, n - 1), NEW x \in RefNames
    PROVE  r.link[x] < n
<1>1. r.link[x] \in Int /\ r.link[x] <= n - 1
  BY LinkIsInt DEF Low
<1>2. QED
  BY <1>1

(* HEAD is made to name n, through whatever it names already: never n      *)
(* itself, when no link is as late as n.                                   *)
LEMMA HeadElsewhere ==
    ASSUME NEW r, Sound(r), NEW n \in Sessions, Low(r, n - 1)
    PROVE  Target(r, HEAD) # n
<1>1. \A x \in RefNames : r.link[x] # n
  BY LowerIsLow, Names
<1>2. \A x \in RefNames : x # n => Hop(r, x) \in RefNames /\ Hop(r, x) # n
  BY <1>1, HopStays DEF Hop
<1>3. HEAD \in RefNames /\ HEAD # n
  BY NamesDiffer
<1>4. Tail4(r, HEAD) # n
  BY <1>2, <1>3 DEF Tail4
<1>5. QED
  BY <1>3, <1>4 DEF Target

(* A file made a symbolic reference.                                       *)
LEMMA LinkFields ==
    ASSUME NEW r, r \in RepoType, NEW x \in RefNames, NEW y \in RefNames,
           NEW q, q = Rewrite(r, x, 0, y)
    PROVE  /\ q.commits = r.commits /\ q.index = r.index
           /\ \A z \in RefNames : /\ q.sha[z] = IF z = x THEN 0 ELSE r.sha[z]
                                  /\ q.link[z] = IF z = x THEN y ELSE r.link[z]
BY DEF Rewrite, RepoType

LEMMA PointFields ==
    ASSUME NEW r, Sound(r), NEW n \in Sessions, Low(r, n - 1), NEW q, q = SetSymRef(r, HEAD, n)
    PROVE  /\ q.commits = r.commits /\ q.index = r.index /\ Low(q, n)
           /\ q.link[n] = r.link[n] /\ q.sha[n] = r.sha[n]
<1> DEFINE t == Target(r, HEAD)
<1>1. t \in RefNames /\ r \in RepoType /\ n \in RefNames /\ t # n
  BY NamesDiffer, TargetStays, HeadElsewhere DEF Sound
<1>2. q = Rewrite(r, t, 0, n)
  BY DEF SetSymRef, Rewrite
<1> HIDE DEF t
<1>4. /\ q.commits = r.commits /\ q.index = r.index
      /\ \A z \in RefNames : /\ q.sha[z] = IF z = t THEN 0 ELSE r.sha[z]
                             /\ q.link[z] = IF z = t THEN n ELSE r.link[z]
  BY <1>1, <1>2, LinkFields
<1>5. n \in Int /\ \A z \in RefNames : r.link[z] \in Int /\ r.link[z] < n
  BY Names, LinkIsInt, LowerIsLow
<1>6. Low(q, n)
  BY <1>4, <1>5 DEF Low
<1>7. QED
  BY <1>1, <1>4, <1>6

LEMMA HeadFileFields ==
    ASSUME NEW r, Sound(r), NEW s \in Sessions, Low(r, s), NEW q, q = WriteHeadFile(r, s)
    PROVE  /\ q.commits = r.commits /\ q.index = r.index /\ Low(q, s)
           /\ q.link[s] = r.link[s] /\ q.sha[s] = r.sha[s]
<1>1. HEAD \in RefNames /\ r \in RepoType /\ s \in RefNames /\ HEAD # s
  BY NamesDiffer DEF Sound
<1>2. q = Rewrite(r, HEAD, 0, s)
  BY DEF WriteHeadFile, Rewrite
<1>4. /\ q.commits = r.commits /\ q.index = r.index
      /\ \A z \in RefNames : /\ q.sha[z] = IF z = HEAD THEN 0 ELSE r.sha[z]
                             /\ q.link[z] = IF z = HEAD THEN s ELSE r.link[z]
  BY <1>1, <1>2, LinkFields
<1>5. s \in Int /\ \A z \in RefNames : r.link[z] \in Int /\ r.link[z] <= s
  BY Names, LinkIsInt DEF Low
<1>6. Low(q, s)
  BY <1>4, <1>5 DEF Low
<1>7. QED
  BY <1>1, <1>4, <1>6
-----------------------------------------------------------------------------
(* ensure_repo: the active session's branch keeps its commit, or is made   *)
(* anew from main.                                                         *)
LEMMA EnsureFields ==
    ASSUME NEW r, Sound(r), NEW s \in Sessions, Low(r, s), NEW q, q = EnsureRepo(r, s)
    PROVE  /\ Sound(q) /\ MainHead(q) = MainHead(r)
           /\ q.commits = r.commits /\ q.index = r.index /\ Low(q, s)
           /\ r.link[s] = Direct => q.link[s] = Direct /\ q.sha[s] \in {r.sha[s], MainHead(r)}
<1> DEFINE b == RecreateBranch(r, s)
           c == MainHead(r)
<1>1. Sound(q) /\ SameMain(r, q)
  BY EnsureRepoSound
<1>2. CreateMain(r) = r
  BY DEF CreateMain, Exists, Sound
<1>3. s \in RefNames \ {MAIN} /\ s \in Int /\ Direct <= s /\ c \in CommitIds(r) \cup {0}
  BY NamesDiffer, Names, MainReads
<1>4. /\ Sound(b) /\ b.commits = r.commits /\ b.index = r.index
      /\ \A z \in RefNames : b.link[z] \in {r.link[z], Direct}
      /\ r.link[s] = Direct => b.link[s] = Direct /\ b.sha[s] \in {r.sha[s], c}
  <2>1. CASE b = SetRef(r, s, c)
    BY <1>3, <2>1, SetRefFields, SetRefSound
  <2>2. CASE b = WriteRefFile(r, s, c)
    BY <1>3, <2>2, WriteRefFields, WriteRefFileSound
  <2>3. CASE b = r
    BY <2>3
  <2>4. QED
    BY <2>1, <2>2, <2>3 DEF RecreateBranch
<1>5. Low(b, s)
  BY <1>3, <1>4 DEF Low
<1> HIDE DEF b, c
<1>6. CASE q = r
  BY <1>1, <1>6 DEF SameMain
<1>7. CASE q = b
  BY <1>1, <1>4, <1>5, <1>7 DEF SameMain, c
<1>8. CASE q = WriteHeadFile(b, s)
  BY <1>1, <1>4, <1>5, <1>8, HeadFileFields DEF SameMain, c
<1>9. q = r \/ q = PointHead(b, s)
  BY <1>2 DEF EnsureRepo, b
<1>10. QED
  BY <1>6, <1>7, <1>8, <1>9 DEF PointHead

LEMMA EnsureWorks ==
    ASSUME NEW r, Sound(r), NEW s \in Sessions, Based(r, s), NEW q, q = EnsureRepo(r, s)
    PROVE  Works(r, q, s) /\ q.commits = r.commits /\ q.index = r.index
<1>1. /\ Sound(q) /\ MainHead(q) = MainHead(r)
      /\ q.commits = r.commits /\ q.index = r.index /\ Low(q, s)
      /\ q.link[s] = Direct /\ q.sha[s] \in {r.sha[s], MainHead(r)}
  BY EnsureFields DEF Based
<1>2. MainHead(r) \in CommitIds(r) /\ MainHead(r) # 0
  BY MainReads DEF Sound
<1>3. MainHead(r) \in Ancestors(r, MainHead(r))
  BY <1>2 DEF Sound
<1>4. \A i : Ancestors(q, i) = Ancestors(r, i)
  BY <1>1 DEF Ancestors
<1>5. MainHead(q) \in Ancestors(q, q.sha[s])
  BY <1>1, <1>3, <1>4 DEF Based
<1>6. q.sha[s] # 0
  BY <1>1, <1>2 DEF Based
<1>7. QED
  BY <1>1, <1>5, <1>6, KeepsSame DEF Works, Based

(* A change of the index alone.                                            *)
LEMMA IndexWorks ==
    ASSUME NEW r, Sound(r), NEW s, Based(r, s), NEW t \in Trees,
           NEW q, q = [r EXCEPT !.index = t]
    PROVE  Works(r, q, s) /\ q.commits = r.commits /\ q.index = t /\ q.sha = r.sha
<1>1. /\ q \in RepoType /\ q.sha = r.sha /\ q.link = r.link
      /\ q.commits = r.commits /\ q.index = t
  BY DEF Sound, RepoType
<1>2. Sound(q)
  BY <1>1 DEF Sound, CommitIds, Ancestors
<1>3. MainHead(q) = MainHead(r)
  BY <1>1, <1>2, MainReads
<1>4. Based(q, s)
  BY <1>1, <1>3 DEF Based, Low, Ancestors
<1>5. QED
  BY <1>1, <1>2, <1>3, <1>4, KeepsSame DEF Works

LEMMA ClearWorks ==
    ASSUME NEW r, Sound(r), NEW s \in Sessions, Based(r, s), NEW q, q = ClearStaging(r, s)
    PROVE  /\ Works(r, q, s) /\ q.commits = r.commits
           /\ q.sha[s] \in {r.sha[s], MainHead(r)}
<1> DEFINE e == EnsureRepo(r, s)
<1>1. Works(r, e, s) /\ e.commits = r.commits /\ e.sha[s] \in {r.sha[s], MainHead(r)}
  BY EnsureWorks, EnsureFields DEF Based
<1>2. EmptyTree \in Trees
  BY DEF EmptyTree, Trees
<1>3. q = [e EXCEPT !.index = EmptyTree]
  BY DEF ClearStaging
<1> HIDE DEF e
<1>4. Works(e, q, s) /\ q.commits = e.commits /\ q.sha = e.sha
  BY <1>1, <1>2, <1>3, IndexWorks DEF Works
<1>5. QED
  BY <1>1, <1>4, WorksTrans

LEMMA StageWorks ==
    ASSUME NEW r, Sound(r), NEW s \in Sessions, Based(r, s), NEW wd \in Trees, NEW p \in Paths
    PROVE  /\ Works(r, StageFile(r, wd, p), s)
           /\ StageFile(r, wd, p).commits = r.commits
           /\ Works(r, StageFileDeletion(r, p), s)
           /\ StageFileDeletion(r, p).commits = r.commits
<1>1. r.index \in Trees
  BY DEF Sound, RepoType
<1>2. [r.index EXCEPT ![p] = wd[p]] \in Trees /\ [r.index EXCEPT ![p] = Absent] \in Trees
  BY <1>1 DEF Trees
<1>3. Works(r, r, s)
  BY KeepsSame DEF Works
<1>4. QED
  BY <1>2, <1>3, IndexWorks DEF StageFile, StageFileDeletion
-----------------------------------------------------------------------------
(* A new commit: its tree, and what its ancestors include.                 *)
LEMMA AddCommitFields ==
    ASSUME NEW r, Sound(r), NEW tree \in Trees, NEW parents \in SUBSET CommitIds(r),
           NEW q, q = AddCommit(r, tree, parents)
    PROVE  /\ Sound(q) /\ MainHead(q) = MainHead(r) /\ Keeps(r, q)
           /\ q.sha = r.sha /\ q.link = r.link /\ q.index = r.index
           /\ Len(q.commits) = Len(r.commits) + 1
           /\ Tree(q, Len(q.commits)) = tree
           /\ \A p \in parents : Ancestors(r, p) \subseteq Ancestors(q, Len(q.commits))
<1> DEFINE id == Len(r.commits) + 1
           anc == {id} \cup UNION {Ancestors(r, p) : p \in parents}
           new == [tree |-> tree, anc |-> anc]
<1>1. Sound(q) /\ Len(q.commits) = id /\ MainHead(q) = MainHead(r)
  BY AddCommitSound
<1>2. r \in RepoType /\ Len(r.commits) \in Nat
  BY CommitCount DEF Sound
<1>3. new.tree = tree /\ new.anc = anc
  OBVIOUS
<1>4. q = [r EXCEPT !.commits = Append(@, new)]
  BY DEF AddCommit
<1> HIDE DEF new
<1>5. /\ q.sha = r.sha /\ q.link = r.link /\ q.index = r.index
      /\ q.commits = Append(r.commits, new)
  BY <1>2, <1>4 DEF RepoType
<1>6. r.commits \in Seq([tree : Trees, anc : SUBSET Nat])
  BY <1>2 DEF RepoType
<1>7. q.commits[id] = new /\ \A i \in CommitIds(r) : q.commits[i] = r.commits[i]
  BY <1>2, <1>5, <1>6 DEF CommitIds
<1>8. Keeps(r, q)
  BY <1>1, <1>2, <1>7 DEF Keeps
<1>9. Tree(q, id) = tree /\ Ancestors(q, id) = anc
  BY <1>3, <1>7 DEF Tree, Ancestors
<1>10. QED
  BY <1>1, <1>5, <1>8, <1>9

LEMMA ScanType ==
    ASSUME NEW wd \in Trees, NEW old, NEW index \in Trees
    PROVE  MergeStaging(ScanWorkdir(wd, old), index) \in Trees
<1>1. ScanWorkdir(wd, old) \in Trees
  BY ProjectGitAssumption DEF ScanWorkdir, BlobOf, Reused, Trees
<1>2. QED
  BY <1>1 DEF MergeStaging, Trees

(* A branch that is a plain reference set to a commit that contains main.  *)
LEMMA SetBranchWorks ==
    ASSUME NEW r, Sound(r), NEW s \in Sessions, Low(r, s), r.link[s] = Direct,
           NEW c \in CommitIds(r), MainHead(r) \in Ancestors(r, c), NEW q, q = SetRef(r, s, c)
    PROVE  /\ Works(r, q, s) /\ q.commits = r.commits /\ q.index = r.index
           /\ q.sha[s] = c
<1>1. s \in RefNames \ {MAIN} /\ c \in CommitIds(r) \cup {0} /\ c # 0
  BY NamesDiffer DEF CommitIds
<1>2. Sound(q) /\ SameMain(r, q)
  BY <1>1, SetRefSound
<1>3. /\ q.commits = r.commits /\ q.index = r.index
      /\ q.link[s] = Direct /\ q.sha[s] = c
      /\ \A z \in RefNames \ {s} : q.link[z] = r.link[z]
  BY <1>1, SetRefFields
<1>4. Low(q, s)
  BY <1>3 DEF Low
<1>5. QED
  BY <1>1, <1>2, <1>3, <1>4, KeepsSame DEF Works, Based, SameMain, Ancestors

(* create_checkpoint: one commit of the project, at the head of the        *)
(* session's branch; main and the index stay.                              *)
LEMMA CheckpointWorks ==
    ASSUME NEW r, Sound(r), NEW s \in Sessions, Based(r, s), NEW wd \in Trees, NEW old,
           NEW q, q = CreateCheckpoint(r, s, wd, old)
    PROVE  /\ Works(r, q, s) /\ q.index = r.index
           /\ Len(q.commits) = Len(r.commits) + 1
           /\ q.sha[s] = Len(q.commits)
           /\ Tree(q, Len(q.commits)) = MergeStaging(ScanWorkdir(wd, old), r.index)
<1> DEFINE e == EnsureRepo(r, s)
           tree == MergeStaging(ScanWorkdir(wd, old), e.index)
           parent == CheckpointParent(e, s)
           id == Len(e.commits) + 1
           a == AddCommit(e, tree, {parent} \ {0})
           b == SetRef(a, s, id)
           c == WriteRefFile(b, s, id)
<1>1. Works(r, e, s) /\ e.commits = r.commits /\ e.index = r.index
  BY EnsureWorks
<1>2. Sound(e) /\ Based(e, s) /\ Len(e.commits) \in Nat /\ e.index \in Trees
  BY <1>1, CommitCount DEF Works, Sound, RepoType
<1>3. tree \in Trees
  BY <1>2, ScanType
<1>4. parent = e.sha[s] /\ parent \in CommitIds(e) /\ parent # 0
  BY <1>2, BasedFacts DEF Based
<1> HIDE DEF e, tree, parent
<1>5. {parent} \ {0} \in SUBSET CommitIds(e) /\ parent \in {parent} \ {0}
  BY <1>4
<1>6. /\ Sound(a) /\ MainHead(a) = MainHead(e) /\ Keeps(e, a)
      /\ a.sha = e.sha /\ a.link = e.link /\ a.index = e.index
      /\ Len(a.commits) = id /\ Tree(a, id) = tree
      /\ Ancestors(e, parent) \subseteq Ancestors(a, id)
  BY <1>2, <1>3, <1>5, AddCommitFields
<1> HIDE DEF a
<1>7. id \in CommitIds(a)
  BY <1>2, <1>6 DEF CommitIds
<1>8. Low(a, s) /\ a.link[s] = Direct /\ MainHead(a) \in Ancestors(a, id)
  BY <1>2, <1>4, <1>6 DEF Based, Low
<1> HIDE DEF id
<1>9. Works(a, b, s) /\ b.commits = a.commits /\ b.index = a.index /\ b.sha[s] = id
  BY <1>6, <1>7, <1>8, SetBranchWorks
<1>10. Sound(b) /\ Based(b, s) /\ id \in CommitIds(b) \cup {0}
  BY <1>7, <1>9 DEF Works, CommitIds
<1> HIDE DEF b
<1>11. /\ c.commits = b.commits /\ c.index = b.index /\ c.link[s] = Direct /\ c.sha[s] = id
       /\ \A z \in RefNames \ {s} : c.sha[z] = b.sha[z] /\ c.link[z] = b.link[z]
       /\ Sound(c) /\ SameMain(b, c)
  BY <1>10, WriteRefFields, WriteRefFileSound
<1> HIDE DEF c
<1>12. Low(c, s) /\ Based(c, s)
  BY <1>9, <1>10, <1>11 DEF Based, Low, SameMain, Ancestors
<1>13. Works(b, c, s)
  BY <1>10, <1>11, <1>12, KeepsSame DEF Works, SameMain
<1>14. Works(a, c, s)
  BY <1>6, <1>9, <1>13, WorksTrans
<1>15. Works(e, c, s)
  BY <1>2, <1>6, <1>14, KeepsTrans DEF Works
<1>16. Works(r, c, s)
  BY <1>1, <1>15, WorksTrans
<1>17. q = c
  BY <1>4 DEF CreateCheckpoint, CommitCheckpoint, a, b, c, e, tree, parent, id
<1>18. c.commits = a.commits /\ c.index = e.index /\ c.sha[s] = id
  BY <1>6, <1>9, <1>11
<1>19. Tree(c, id) = tree /\ Len(c.commits) = id
  BY <1>6, <1>18 DEF Tree
<1>20. QED
  BY <1>1, <1>16, <1>17, <1>18, <1>19 DEF tree, id

(* _create_session: the next session's branch is made at the head of main. *)
LEMMA NextSession ==
    ASSUME NEW r, Sound(r), NEW s \in Sessions, Low(r, s), s + 1 \in Sessions,
           NEW c, c = MainHead(r), NEW q, q = CreateSession(r, s, s + 1, c)
    PROVE  Works(r, q, s + 1) /\ q.commits = r.commits
<1> DEFINE n == s + 1
           e == EnsureRepo(r, s)
           a == SetRef(e, n, c)
           b == WriteRefFile(a, n, c)
<1>1. /\ Sound(e) /\ MainHead(e) = c /\ e.commits = r.commits /\ Low(e, s)
  BY EnsureFields
<1>2. c \in CommitIds(e) /\ c # 0 /\ c \in Ancestors(e, c)
  BY <1>1, MainReads DEF CommitIds, Sound
<1> HIDE DEF e
<1>3. /\ n \in RefNames \ {MAIN} /\ n \in Sessions /\ s \in Int /\ Direct \in Int /\ Direct <= s
      /\ n - 1 = s
  BY NamesDiffer, Names
<1> HIDE DEF n
<1>4. Sound(a) /\ SameMain(e, a) /\ \A z \in RefNames : a.link[z] \in {e.link[z], Direct}
  BY <1>1, <1>2, <1>3, SetRefSound, SetRefFields
<1>5. Low(a, s) /\ c \in CommitIds(a)
  BY <1>1, <1>2, <1>3, <1>4 DEF Low, SameMain, CommitIds
<1> HIDE DEF a
<1>6. /\ Sound(b) /\ SameMain(a, b) /\ b.link[n] = Direct /\ b.sha[n] = c
      /\ \A z \in RefNames \ {n} : b.link[z] = a.link[z]
  BY <1>3, <1>4, <1>5, WriteRefFileSound, WriteRefFields
<1>7. Low(b, n - 1)
  BY <1>3, <1>5, <1>6 DEF Low
<1> HIDE DEF b
<1>8. q = SetSymRef(b, HEAD, n)
  BY DEF CreateSession, PointHeadAt, a, b, e, n
<1>9. /\ Sound(q) /\ SameMain(b, q) /\ Low(q, n)
      /\ q.link[n] = Direct /\ q.sha[n] = c
  BY <1>3, <1>6, <1>7, <1>8, PointHeadSound, PointFields
<1>10. q.commits = r.commits /\ MainHead(q) = c
  BY <1>1, <1>4, <1>6, <1>9 DEF SameMain
<1>11. Based(q, n)
  BY <1>1, <1>2, <1>9, <1>10 DEF Based, Ancestors
<1>12. QED
  BY <1>9, <1>10, <1>11, KeepsSame DEF Works, n

(* approve_all: the merge commit has the session's tree and descends from  *)
(* main and the session.                                                   *)
LEMMA MergeFacts ==
    ASSUME NEW r, Sound(r), NEW s \in Sessions, Based(r, s), NEW q, q = MergeSession(r, s)
    PROVE  /\ Sound(q) /\ Low(q, s) /\ Keeps(r, q)
           /\ Len(q.commits) = Len(r.commits) + 1 /\ MainHead(q) = Len(q.commits)
           /\ Ancestors(r, MainHead(r)) \subseteq Ancestors(q, MainHead(q))
           /\ Tree(q, Len(q.commits)) = Tree(r, r.sha[s])
<1> DEFINE id == Len(r.commits) + 1
           parents == {MainHead(r), r.sha[s]}
           a == AddCommit(r, Tree(r, r.sha[s]), parents)
           b == SetRef(a, MAIN, id)
<1>1. Resolve(r, s) = r.sha[s] /\ r.sha[s] \in CommitIds(r) /\ MainHead(r) \in CommitIds(r)
  BY BasedFacts
<1>2. Tree(r, r.sha[s]) \in Trees /\ Len(r.commits) \in Nat
  BY <1>1, CommitType, CommitCount
<1>3. parents \in SUBSET CommitIds(r) /\ MainHead(r) \in parents
  BY <1>1
<1> HIDE DEF parents
<1>4. /\ Sound(a) /\ Keeps(r, a) /\ a.link = r.link /\ Len(a.commits) = id
      /\ Tree(a, id) = Tree(r, r.sha[s])
      /\ Ancestors(r, MainHead(r)) \subseteq Ancestors(a, id)
  BY <1>2, <1>3, AddCommitFields
<1> HIDE DEF a
<1>5. /\ id \in CommitIds(a) /\ a.link[MAIN] = Direct /\ MAIN \in RefNames
      /\ s \in RefNames \ {MAIN} /\ id \in CommitIds(a) \cup {0}
  BY <1>2, <1>4, NamesDiffer DEF CommitIds, Sound
<1> HIDE DEF id
<1>6. /\ Sound(b) /\ b.commits = a.commits /\ MainHead(b) = id
      /\ b.link[MAIN] = Direct /\ \A z \in RefNames \ {MAIN} : b.link[z] = a.link[z]
  BY <1>4, <1>5, SetMainSound, SetRefFields
<1> HIDE DEF b
<1>7. q = SetRef(b, s, id)
  BY <1>1 DEF MergeSession, a, b, id, parents
<1>8. b.link[s] = Direct /\ id \in CommitIds(b) \cup {0}
  BY <1>4, <1>5, <1>6 DEF Based, CommitIds
<1>9. /\ Sound(q) /\ SameMain(b, q)
      /\ q.link[s] = Direct /\ \A z \in RefNames \ {s} : q.link[z] = b.link[z]
  BY <1>5, <1>6, <1>7, <1>8, SetRefSound, SetRefFields
<1>10. q.commits = a.commits /\ MainHead(q) = id
  BY <1>6, <1>9 DEF SameMain
<1>11. \A z \in RefNames : q.link[z] = r.link[z]
  BY <1>4, <1>5, <1>6, <1>9 DEF Based, Sound
<1>12. Low(q, s)
  BY <1>11 DEF Based, Low
<1>13. Keeps(r, q) /\ Tree(q, id) = Tree(a, id) /\ Ancestors(q, id) = Ancestors(a, id)
  BY <1>4, <1>10 DEF Keeps, Tree, Ancestors
<1>14. QED
  BY <1>4, <1>9, <1>10, <1>12, <1>13 DEF id
-----------------------------------------------------------------------------
(* The actions, first those that leave the session at work.                *)
LEMMA ActiveType == ASSUME Inv PROVE Active \in Sessions
BY DEF Inv, InOrder

LEMMA EditStep ==
    ASSUME Inv, Edit
    PROVE  /\ Stays /\ repo'.commits = repo.commits
           /\ workdir' \in Trees /\ route' = route
<1> DEFINE s == Active
           e == EnsureRepo(repo, s)
<1>1. s \in Sessions /\ Sound(repo) /\ Based(repo, s) /\ workdir \in Trees
  BY ActiveType DEF Inv
<1>2. Works(repo, e, s) /\ e.commits = repo.commits
  BY <1>1, EnsureWorks
<1>3. Sound(e) /\ Based(e, s)
  BY <1>2 DEF Works
<1> HIDE DEF s, e
<1>4. ASSUME NEW p \in Paths, NEW c \in Contents, NEW staged \in BOOLEAN,
             AgentWrite(p, c, staged)
      PROVE  /\ Stays /\ repo'.commits = repo.commits
             /\ workdir' \in Trees /\ route' = route
  <2>1. workdir' \in Trees
    BY <1>1, <1>4 DEF AgentWrite, Trees
  <2>2. repo' \in {e, StageFile(e, workdir', p)} /\ status' = status /\ route' = route
    BY <1>4 DEF AgentWrite, e, s
  <2>3. /\ Works(e, StageFile(e, workdir', p), s)
        /\ StageFile(e, workdir', p).commits = e.commits
    BY <1>1, <1>3, <2>1, StageWorks
  <2>4. Works(repo, repo', s) /\ repo'.commits = repo.commits
    BY <1>1, <1>2, <2>2, <2>3, WorksTrans
  <2>5. QED
    BY <2>1, <2>2, <2>4 DEF Stays, s
<1>5. ASSUME NEW p \in Paths, AgentDelete(p)
      PROVE  /\ Stays /\ repo'.commits = repo.commits
             /\ workdir' \in Trees /\ route' = route
  <2>1. workdir' \in Trees
    BY <1>1, <1>5 DEF AgentDelete, Trees
  <2>2. repo' = StageFileDeletion(e, p) /\ status' = status /\ route' = route
    BY <1>5 DEF AgentDelete, e, s
  <2>3. Works(e, repo', s) /\ repo'.commits = e.commits
    BY <1>1, <1>3, <2>2, StageWorks
  <2>4. Works(repo, repo', s) /\ repo'.commits = repo.commits
    BY <1>1, <1>2, <2>3, WorksTrans
  <2>5. QED
    BY <2>1, <2>2, <2>4 DEF Stays, s
<1>6. ASSUME NEW p \in Paths, NEW c \in Contents \cup {Absent}, OutsideEdit(p, c)
      PROVE  /\ Stays /\ repo'.commits = repo.commits
             /\ workdir' \in Trees /\ route' = route
  <2>1. workdir' \in Trees /\ repo' = repo /\ status' = status /\ route' = route
    BY <1>1, <1>6 DEF OutsideEdit, Trees
  <2>2. Works(repo, repo', s)
    BY <1>1, <2>1, KeepsSame DEF Works
  <2>3. QED
    BY <2>1, <2>2 DEF Stays, s
<1>7. QED
  BY <1>4, <1>5, <1>6 DEF Edit

LEMMA PollStep ==
    ASSUME Inv, NEW u, NEW old, Poll \/ ApproveFails(u, old)
    PROVE  /\ Stays /\ repo'.commits = repo.commits
           /\ workdir' = workdir /\ route' = route
<1>1. Active \in Sessions /\ Sound(repo) /\ Based(repo, Active)
  BY ActiveType DEF Inv
<1>2. repo' = EnsureRepo(repo, Active) /\ <<workdir, status, route>>' = <<workdir, status, route>>
  BY DEF Poll, ApproveFails
<1>3. QED
  BY <1>1, <1>2, EnsureWorks DEF Stays

LEMMA CheckpointStep ==
    ASSUME Inv, NEW u, NEW old, ChatCheckpoint(u, old) \/ RestoreCheckpoint(u, old)
    PROVE  /\ Stays /\ Scanned(repo, repo', workdir, old)
           /\ workdir' = workdir /\ route' \in {route, Idle}
<1>1. Active \in Sessions /\ Sound(repo) /\ Based(repo, Active) /\ workdir \in Trees
  BY ActiveType DEF Inv
<1>2. /\ repo' \in {EnsureRepo(repo, Active), CreateCheckpoint(repo, Active, workdir, old)}
      /\ status' = status /\ workdir' = workdir /\ route' \in {route, Idle}
  BY DEF ChatCheckpoint, RestoreCheckpoint
<1>3. CASE repo' = EnsureRepo(repo, Active)
  BY <1>1, <1>2, <1>3, EnsureWorks DEF Stays, Scanned
<1>4. CASE repo' = CreateCheckpoint(repo, Active, workdir, old)
  BY <1>1, <1>2, <1>4, CheckpointWorks DEF Stays, Scanned
<1>5. QED
  BY <1>2, <1>3, <1>4

(* What a restore writes is a tree; it leaves alone what neither the       *)
(* index nor a commit has.                                                 *)
LEMMA RestoredFiles ==
    ASSUME NEW r, Sound(r), NEW s \in Sessions, NEW wd \in Trees, NEW c \in CommitIds(r),
           NEW skipped, NEW q, q = RestoredWorkdir(r, s, wd, c, skipped)
    PROVE  /\ q \in Trees
           /\ \A p \in Paths :
                  /\ r.index[p] = Absent
                  /\ \A i \in CommitIds(r) : Tree(r, i)[p] = Absent
                  => q[p] = wd[p]
<1> DEFINE tree == Tree(r, c)
           tracked == TrackedFiles(r, s)
<1>1. tree \in Trees
  BY CommitType
<1>2. ASSUME NEW p \in Paths, r.index[p] = Absent,
             \A i \in CommitIds(r) : Tree(r, i)[p] = Absent
      PROVE  tree[p] = Absent /\ p \notin tracked
  <2>1. CheckpointParent(r, s) \in CommitIds(r) \cup {0}
    BY CheckpointParentType
  <2>2. QED
    BY <1>2, <2>1 DEF TrackedFiles, Files
<1> HIDE DEF tree, tracked
<1>3. q = [p \in Paths |-> IF p \in skipped THEN wd[p]
                           ELSE IF tree[p] # Absent THEN tree[p]
                           ELSE IF p \in tracked THEN Absent ELSE wd[p]]
  BY DEF RestoredWorkdir, tree, tracked
<1>4. q \in Trees
  BY <1>1, <1>3 DEF Trees
<1>5. QED
  BY <1>2, <1>3, <1>4

LEMMA RestoreStep ==
    ASSUME Inv, NEW c \in CommitIds(repo), NEW skipped,
           workdir' = RestoredWorkdir(EnsureRepo(repo, Active), Active, workdir, c, skipped),
           repo' = ClearStaging(EnsureRepo(repo, Active), Active),
           status' = status
    PROVE  /\ Stays /\ repo'.commits = repo.commits
           /\ workdir' \in Trees
           /\ \A p \in Paths :
                  /\ repo.index[p] = Absent
                  /\ \A i \in CommitIds(repo) : Tree(repo, i)[p] = Absent
                  => workdir'[p] = workdir[p]
<1> DEFINE s == Active
           e == EnsureRepo(repo, s)
<1>1. s \in Sessions /\ Sound(repo) /\ Based(repo, s) /\ workdir \in Trees
  BY ActiveType DEF Inv
<1>2. Works(repo, e, s) /\ e.commits = repo.commits /\ e.index = repo.index
  BY <1>1, EnsureWorks
<1> HIDE DEF e
<1>3. Sound(e) /\ Based(e, s)
  BY <1>2 DEF Works
<1>4. Works(e, repo', s) /\ repo'.commits = e.commits
  BY <1>1, <1>3, ClearWorks DEF e
<1>5. Works(repo, repo', s)
  BY <1>1, <1>2, <1>4, WorksTrans
<1>6. CommitIds(e) = CommitIds(repo) /\ \A i : Tree(e, i) = Tree(repo, i)
  BY <1>2 DEF CommitIds, Tree
<1>7. /\ workdir' \in Trees
      /\ \A p \in Paths :
             /\ e.index[p] = Absent
             /\ \A i \in CommitIds(e) : Tree(e, i)[p] = Absent
             => workdir'[p] = workdir[p]
  BY <1>1, <1>3, <1>6, RestoredFiles DEF e
<1>8. QED
  BY <1>2, <1>4, <1>5, <1>6, <1>7 DEF Stays
-----------------------------------------------------------------------------
(* When every file is read and the project is not under git, a scan has    *)
(* the content of each file that is neither ignored nor staged.            *)
LEMMA ScanReads ==
    ASSUME ProjectGit = EmptyTree, NEW wd \in Trees, NEW old, NEW index \in Trees,
           NEW p \in Paths \ Ignored, index[p] = Absent
    PROVE  MergeStaging(ScanWorkdir(wd, old), index)[p] = wd[p]
<1>1. ~Reused(old, p)
  BY DEF Reused, EmptyTree
<1>2. ScanWorkdir(wd, old)[p] = wd[p]
  BY <1>1 DEF ScanWorkdir, BlobOf
<1>3. QED
  BY <1>2 DEF MergeStaging

(* So has the head of the session when nothing differs from it.            *)
LEMMA CleanReads ==
    ASSUME NEW r, Sound(r), NEW s \in Sessions, Based(r, s), NEW wd \in Trees, NEW u,
           ~HasUncommitted(r, s, wd, u), NEW p \in Paths \ Ignored, p \notin u
    PROVE  Tree(r, r.sha[s])[p] = wd[p]
<1>1. Exists(r, s) /\ Resolve(r, s) = r.sha[s] /\ r.sha[s] # 0
  BY BasedFacts DEF Based
<1>2. ~Differs(Tree(r, r.sha[s]), wd, u, p)
  BY <1>1 DEF HasUncommitted
<1>3. QED
  BY <1>2 DEF Differs

(* Every commit that q has and r has not is the project, as far as it      *)
(* could be read.                                                          *)
ReadsProject(r, q, wd, u) ==
    \A i \in CommitIds(q) \ CommitIds(r) : \A p \in Paths \ Ignored :
        (p \notin u /\ r.index[p] = Absent) => Tree(q, i)[p] = wd[p]

LEMMA ScannedReads ==
    ASSUME ProjectGit = EmptyTree, NEW r, Sound(r), NEW q, NEW wd \in Trees, NEW old, NEW u,
           Scanned(r, q, wd, old)
    PROVE  ReadsProject(r, q, wd, u)
<1>1. Len(r.commits) \in Nat /\ r.index \in Trees
  BY CommitCount DEF Sound, RepoType
<1>2. CASE q.commits = r.commits
  BY <1>2 DEF ReadsProject, CommitIds
<1>3. CASE /\ Len(q.commits) = Len(r.commits) + 1
           /\ Tree(q, Len(q.commits)) = MergeStaging(ScanWorkdir(wd, old), r.index)
  <2>1. \A i \in CommitIds(q) \ CommitIds(r) : i = Len(q.commits)
    BY <1>1, <1>3 DEF CommitIds
  <2>2. \A p \in Paths \ Ignored : r.index[p] = Absent => Tree(q, Len(q.commits))[p] = wd[p]
    BY <1>1, <1>3, ScanReads
  <2>3. QED
    BY <2>1, <2>2 DEF ReadsProject
<1>4. QED
  BY <1>2, <1>3 DEF Scanned

(* POST /reset: the pending work is in a commit before the next session    *)
(* starts, at main.                                                        *)
LEMMA ResetStep ==
    ASSUME Inv, NEW u, NEW old, ResetSession(u, old)
    PROVE  /\ Advances("abandoned") /\ Scanned(repo, repo', workdir, old)
           /\ workdir' = workdir
           /\ route' \in Routes /\ route'.target \in CommitIds(repo')
           /\ (ProjectGit = EmptyTree /\ u = {}) =>
                  \A p \in Paths \ Ignored : repo.index[p] = Absent =>
                      \E i \in CommitIds(repo') : Tree(repo', i)[p] = workdir[p]
<1> DEFINE s == Active
           e == EnsureRepo(repo, s)
           m == SaveBeforeReset(e, u, old)
           saves == HasStaged(e) \/ HasUncommitted(e, s, workdir, u)
<1>1. s \in Sessions /\ Sound(repo) /\ Based(repo, s) /\ workdir \in Trees
  BY ActiveType DEF Inv
<1>2. Works(repo, e, s) /\ e.commits = repo.commits /\ e.index = repo.index
  BY <1>1, EnsureWorks
<1>3. Sound(e) /\ Based(e, s) /\ e.index \in Trees
  BY <1>2 DEF Works, Sound, RepoType
<1>4. m = IF saves /\ Scannable(workdir, u, old)
          THEN CreateCheckpoint(e, s, workdir, old) ELSE e
  BY DEF SaveBeforeReset
<1>5. /\ s + 1 \in Sessions /\ repo' = CreateSession(m, s, s + 1, MainHead(e))
      /\ status' = Close(status, s, "abandoned")
      /\ route' = [kind |-> "reset", target |-> MainHead(e)] /\ workdir' = workdir
  BY DEF ResetSession
<1> HIDE DEF s, e, m, saves
<1>6. Works(e, m, s) /\ Scanned(e, m, workdir, old)
  <2>1. CASE m = e
    BY <1>3, <2>1, KeepsSame DEF Works, Scanned
  <2>2. CASE m = CreateCheckpoint(e, s, workdir, old)
    BY <1>1, <1>3, <2>2, CheckpointWorks DEF Scanned
  <2>3. QED
    BY <1>4, <2>1, <2>2
<1>7. /\ Sound(m) /\ Low(m, s) /\ MainHead(m) = MainHead(e)
      /\ MainHead(m) = MainHead(repo) /\ Keeps(repo, m)
  BY <1>1, <1>2, <1>6, WorksTrans DEF Works, Based
<1>8. Works(m, repo', s + 1) /\ repo'.commits = m.commits
  BY <1>1, <1>5, <1>7, NextSession
<1>9. Sound(repo') /\ Based(repo', s + 1) /\ MainHead(repo') = MainHead(repo)
  BY <1>7, <1>8 DEF Works
<1>10. Keeps(repo, repo')
  BY <1>1, <1>7, <1>8, KeepsTrans DEF Works
<1>11. MainHead(repo) \in CommitIds(repo) /\ MainHead(repo') \in CommitIds(repo')
  BY <1>1, <1>9, MainReads
<1>12. Ancestors(repo', MainHead(repo')) = Ancestors(repo, MainHead(repo))
  BY <1>1, <1>9, <1>10, <1>11, KeepsFacts
<1>13. Advances("abandoned")
  BY <1>5, <1>9, <1>10, <1>12 DEF Advances, s
<1>14. Scanned(repo, repo', workdir, old)
  BY <1>2, <1>6, <1>8 DEF Scanned, Tree
<1>15. route' \in Routes /\ route'.target \in CommitIds(repo')
  <2>1. MainHead(e) \in CommitIds(repo')
    BY <1>7, <1>9, <1>11
  <2>2. MainHead(e) \in Nat
    BY <2>1 DEF CommitIds
  <2>3. QED
    BY <1>5, <2>1, <2>2 DEF Routes
<1>16. ASSUME ProjectGit = EmptyTree, u = {}, NEW p \in Paths \ Ignored, repo.index[p] = Absent
       PROVE  \E i \in CommitIds(repo') : Tree(repo', i)[p] = workdir[p]
  <2>1. Scannable(workdir, u, old)
    BY <1>16 DEF Scannable
  <2>2. CASE saves
    <3>1. m = CreateCheckpoint(e, s, workdir, old)
      BY <1>4, <2>1, <2>2
    <3>2. /\ Len(m.commits) = Len(e.commits) + 1 /\ Len(e.commits) \in Nat
          /\ Tree(m, Len(m.commits)) = MergeStaging(ScanWorkdir(workdir, old), e.index)
      BY <1>1, <1>3, <3>1, CheckpointWorks, CommitCount
    <3>3. Tree(m, Len(m.commits))[p] = workdir[p]
      BY <1>1, <1>2, <1>3, <1>16, <3>2, ScanReads
    <3>4. Len(m.commits) \in CommitIds(repo') /\ Tree(repo', Len(m.commits))[p] = workdir[p]
      BY <1>8, <3>2, <3>3 DEF CommitIds, Tree
    <3>5. QED
      BY <3>4
  <2>3. CASE ~saves
    <3>1. m = e /\ ~HasUncommitted(e, s, workdir, u)
      BY <1>4, <2>3 DEF saves
    <3>2. Tree(e, e.sha[s])[p] = workdir[p] /\ e.sha[s] \in CommitIds(e)
      BY <1>1, <1>3, <1>16, <3>1, CleanReads, BasedFacts
    <3>3. e.sha[s] \in CommitIds(repo') /\ Tree(repo', e.sha[s])[p] = workdir[p]
      BY <1>8, <3>1, <3>2 DEF CommitIds, Tree
    <3>4. QED
      BY <3>3
  <2>4. QED
    BY <2>2, <2>3
<1>17. QED
  BY <1>5, <1>13, <1>14, <1>15, <1>16

(* What approve_all commits before it merges.                              *)
LEMMA PreparedFacts ==
    ASSUME Inv, NEW u, NEW old, NEW r, r = Prepared(u, old)
    PROVE  /\ Works(repo, r, Active) /\ Scanned(repo, r, workdir, old)
           /\ (ProjectGit = EmptyTree /\ r.sha[Active] # MainHead(r)) =>
                  \A p \in Paths \ Ignored : (p \notin u /\ repo.index[p] = Absent) =>
                      Tree(r, r.sha[Active])[p] = workdir[p]
<1> DEFINE s == Active
           e == EnsureRepo(repo, s)
           m == CreateCheckpoint(e, s, workdir, old)
<1>1. s \in Sessions /\ Sound(repo) /\ Based(repo, s) /\ workdir \in Trees
  BY ActiveType DEF Inv
<1>2. Works(repo, e, s) /\ e.commits = repo.commits /\ e.index = repo.index
  BY <1>1, EnsureWorks
<1>3. Sound(e) /\ Based(e, s) /\ e.index \in Trees
  BY <1>2 DEF Works, Sound, RepoType
<1>4. r = IF Pending(u) THEN ClearStaging(m, s) ELSE e
  BY DEF Prepared
<1>5. ~Pending(u) => ~HasUncommitted(e, s, workdir, u)
  BY DEF Pending
<1>6. /\ Works(e, m, s) /\ Len(m.commits) = Len(e.commits) + 1 /\ m.sha[s] = Len(m.commits)
      /\ Tree(m, Len(m.commits)) = MergeStaging(ScanWorkdir(workdir, old), e.index)
  BY <1>1, <1>3, CheckpointWorks
<1> HIDE DEF s, e, m
<1>7. CASE Pending(u)
  <2>1. /\ Works(m, r, s) /\ r.commits = m.commits /\ r.sha[s] \in {m.sha[s], MainHead(m)}
    BY <1>1, <1>4, <1>6, <1>7, ClearWorks DEF Works
  <2>2. Works(repo, r, s)
    BY <1>1, <1>2, <1>6, <2>1, WorksTrans
  <2>3. Scanned(repo, r, workdir, old)
    BY <1>2, <1>6, <2>1 DEF Scanned, Tree
  <2>4. r.sha[s] # MainHead(r) => Tree(r, r.sha[s]) = Tree(m, Len(m.commits))
    BY <1>6, <2>1 DEF Works, Tree
  <2>5. ASSUME ProjectGit = EmptyTree, r.sha[s] # MainHead(r), NEW p \in Paths \ Ignored,
               repo.index[p] = Absent
        PROVE  Tree(r, r.sha[s])[p] = workdir[p]
    BY <1>1, <1>2, <1>3, <1>6, <2>4, <2>5, ScanReads
  <2>6. QED
    BY <2>2, <2>3, <2>5 DEF s
<1>8. CASE ~Pending(u)
  <2>1. r = e /\ ~HasUncommitted(e, s, workdir, u)
    BY <1>4, <1>5, <1>8
  <2>2. \A p \in Paths \ Ignored : p \notin u => Tree(r, r.sha[s])[p] = workdir[p]
    BY <1>1, <1>3, <2>1, CleanReads
  <2>3. QED
    BY <1>2, <2>1, <2>2 DEF Scanned, s
<1>9. QED
  BY <1>7, <1>8

(* POST /approve: main gains the session, and the next session starts      *)
(* there.                                                                  *)
LEMMA ApproveStep ==
    ASSUME Inv, NEW u, NEW old, Approve(u, old)
    PROVE  /\ Advances("merged") /\ workdir' = workdir /\ route' = route
           /\ ProjectGit = EmptyTree => ReadsProject(repo, repo', workdir, u)
<1> DEFINE s == Active
           r == Prepared(u, old)
           m == IF Resolve(r, s) = MainHead(r) THEN r ELSE MergeSession(r, s)
           x == CreateSession(m, s, s + 1, MainHead(m))
<1>1. s \in Sessions /\ Sound(repo) /\ Based(repo, s) /\ workdir \in Trees
  BY ActiveType DEF Inv
<1>2. /\ s + 1 \in Sessions /\ repo' = ClearStaging(x, s + 1)
      /\ status' = Close(status, s, "merged") /\ workdir' = workdir /\ route' = route
  BY DEF Approve
<1>3. /\ Works(repo, r, s) /\ Scanned(repo, r, workdir, old)
      /\ (ProjectGit = EmptyTree /\ r.sha[s] # MainHead(r)) =>
             \A p \in Paths \ Ignored : (p \notin u /\ repo.index[p] = Absent) =>
                 Tree(r, r.sha[s])[p] = workdir[p]
  BY PreparedFacts
<1> HIDE DEF s, r
<1>4. Sound(r) /\ Based(r, s) /\ MainHead(r) = MainHead(repo) /\ Keeps(repo, r)
  BY <1>3 DEF Works
<1>5. Resolve(r, s) = r.sha[s] /\ MainHead(r) \in CommitIds(r)
  BY <1>1, <1>4, BasedFacts
<1>6. /\ Sound(m) /\ Low(m, s) /\ Keeps(r, m)
      /\ Ancestors(r, MainHead(r)) \subseteq Ancestors(m, MainHead(m))
      /\ \/ m.commits = r.commits
         \/ /\ r.sha[s] # MainHead(r)
            /\ Len(m.commits) = Len(r.commits) + 1
            /\ Tree(m, Len(m.commits)) = Tree(r, r.sha[s])
  <2>1. CASE m = r
    BY <1>4, <2>1, KeepsSame DEF Based
  <2>2. CASE r.sha[s] # MainHead(r) /\ m = MergeSession(r, s)
    BY <1>1, <1>4, <2>2, MergeFacts
  <2>3. QED
    BY <1>5, <2>1, <2>2
<1> HIDE DEF m
<1>7. Works(m, x, s + 1) /\ x.commits = m.commits
  BY <1>1, <1>2, <1>6, NextSession
<1> HIDE DEF x
<1>8. Works(x, repo', s + 1) /\ repo'.commits = x.commits
  BY <1>2, <1>7, ClearWorks DEF Works
<1>9. Sound(repo') /\ Based(repo', s + 1) /\ MainHead(repo') = MainHead(m)
  BY <1>7, <1>8 DEF Works
<1>10. Keeps(m, repo') /\ Keeps(repo, m) /\ Keeps(repo, repo')
  BY <1>1, <1>4, <1>6, <1>7, <1>8, <1>9, KeepsTrans, KeepsSame DEF Works
<1>11. /\ Ancestors(r, MainHead(r)) = Ancestors(repo, MainHead(repo))
       /\ Ancestors(repo', MainHead(repo')) = Ancestors(m, MainHead(m))
  <2>1. MainHead(repo) \in CommitIds(repo)
    BY <1>1, MainReads
  <2>2. \A i : Ancestors(repo', i) = Ancestors(m, i)
    BY <1>7, <1>8 DEF Ancestors
  <2>3. QED
    BY <1>1, <1>4, <1>9, <2>1, <2>2, KeepsFacts
<1>12. Advances("merged")
  BY <1>2, <1>6, <1>9, <1>10, <1>11 DEF Advances, s
<1>13. ASSUME ProjectGit = EmptyTree
       PROVE  ReadsProject(repo, repo', workdir, u)
  <2>1. ReadsProject(repo, r, workdir, u)
    BY <1>1, <1>3, <1>13, ScannedReads
  <2>2. Len(r.commits) \in Nat
    BY <1>4, CommitCount
  <2>3. CommitIds(repo') = CommitIds(m) /\ \A i : Tree(repo', i) = Tree(m, i)
    BY <1>7, <1>8 DEF CommitIds, Tree
  <2>4. \A i \in CommitIds(r) : Tree(m, i) = Tree(r, i)
    BY <1>4, <1>6, KeepsFacts
  <2>5. CASE m.commits = r.commits
    BY <2>1, <2>3, <2>4, <2>5 DEF ReadsProject, CommitIds
  <2>6. CASE /\ r.sha[s] # MainHead(r)
             /\ Len(m.commits) = Len(r.commits) + 1
             /\ Tree(m, Len(m.commits)) = Tree(r, r.sha[s])
    <3>1. \A i \in CommitIds(m) : i \in CommitIds(r) \/ i = Len(m.commits)
      BY <2>2, <2>6 DEF CommitIds
    <3>2. QED
      BY <1>3, <1>13, <2>1, <2>3, <2>4, <2>6, <3>1 DEF ReadsProject
  <2>7. QED
    BY <1>6, <2>5, <2>6
<1>14. QED
  BY <1>2, <1>12, <1>13
-----------------------------------------------------------------------------
(* The invariant across both kinds of steps.                               *)
LEMMA StaysKeepsInv ==
    ASSUME Inv, Stays, workdir' \in Trees, route' \in Routes,
           route'.kind # "idle" => route'.target \in CommitIds(repo) \cup CommitIds(repo')
    PROVE  Inv'
<1>1. Sound(repo) /\ Sound(repo') /\ Based(repo', Active) /\ Keeps(repo, repo')
  BY DEF Inv, Stays, Works
<1>2. status' = status /\ Active' = Active
  BY DEF Stays, Active
<1>3. CommitIds(repo) \subseteq CommitIds(repo')
  BY <1>1, KeepsFacts
<1>4. RouteOK'
  BY <1>3 DEF RouteOK
<1>5. QED
  BY <1>1, <1>2, <1>4 DEF Inv

LEMMA AdvancesKeepsInv ==
    ASSUME Inv, NEW how \in Closed, Advances(how), workdir' \in Trees, route' \in Routes,
           route'.kind # "idle" => route'.target \in CommitIds(repo) \cup CommitIds(repo')
    PROVE  Inv' /\ Active' = Active + 1
<1>1. Sound(repo) /\ Sound(repo') /\ Based(repo', Active + 1) /\ Keeps(repo, repo')
  BY DEF Inv, Advances
<1>2. /\ status' \in [Sessions -> Statuses] /\ InOrder(status', Active + 1)
      /\ Active' = Active + 1
  BY CloseInOrder DEF Inv, Advances, Active
<1>3. CommitIds(repo) \subseteq CommitIds(repo')
  BY <1>1, KeepsFacts
<1>4. RouteOK'
  BY <1>3 DEF RouteOK
<1>5. QED
  BY <1>1, <1>2, <1>4 DEF Inv

LEMMA InitInv ==
    ASSUME DefaultBranch = MASTER, Init
    PROVE  /\ Inv /\ Active = 1
           /\ MainHead(repo) = 1 /\ Ancestors(repo, 1) = {1}
<1> DEFINE tree == MergeStaging(ScanWorkdir(workdir, {}), EmptyTree)
<1>1. workdir \in Trees /\ EmptyTree \in Trees
  BY DEF Init, EmptyTree, Trees
<1>2. tree \in Trees
  BY <1>1, ScanType
<1>3. 1 \in Sessions /\ 1 \in RefNames /\ 1 # MAIN /\ 1 # HEAD /\ MAIN \in RefNames /\ MAIN # HEAD
  BY MaxSessionAssumption DEF Sessions, RefNames, MAIN, HEAD
<1>4. /\ \A x \in RefNames : NewRepo.sha[x] = 0
      /\ \A x \in RefNames \ {HEAD} : NewRepo.link[x] = Direct
      /\ NewRepo.link[HEAD] = MASTER /\ NewRepo.index = EmptyTree
  BY NamesDiffer DEF NewRepo, NewContainer
<1>5. Resolve(NewRepo, HEAD) = 0
  <2>1. HEAD \in RefNames /\ MASTER \in RefNames /\ MASTER # HEAD /\ MASTER # Direct
    BY NamesDiffer DEF MASTER, HEAD, Direct
  <2>2. Hop(NewRepo, HEAD) = MASTER /\ Hop(NewRepo, MASTER) = MASTER
    BY <1>4, <2>1 DEF Hop
  <2>3. Tail4(NewRepo, HEAD) = MASTER
    BY <2>2 DEF Tail4
  <2>4. QED
    BY <1>4, <2>1, <2>3 DEF Resolve
<1>6. ~Exists(NewRepo, 1)
  BY <1>3, <1>4 DEF Exists
<1>7. EnsureRepo(NewRepo, 1) = NewRepo /\ CheckpointParent(NewRepo, 1) = 0
  BY <1>5, <1>6 DEF EnsureRepo, CheckpointParent
<1>8. repo = FirstRepo(tree)
  BY <1>4, <1>7 DEF Init, CreateCheckpoint, FirstRepo
<1> HIDE DEF tree
<1>9. /\ Sound(repo)
      /\ repo.commits = <<[tree |-> tree, anc |-> {1}]>>
      /\ \A x \in RefNames : /\ repo.sha[x] = IF x \in {1, MAIN} THEN 1 ELSE 0
                             /\ repo.link[x] = IF x = HEAD THEN MASTER ELSE Direct
  BY <1>2, <1>8, FirstRepoSound
<1>10. Ancestors(repo, 1) = {1}
  BY <1>9 DEF Ancestors
<1>11. MainHead(repo) = 1
  BY <1>3, <1>9, MainReads
<1>12. Low(repo, 1)
  BY <1>9 DEF Low, MASTER, Direct
<1>13. Based(repo, 1)
  BY <1>3, <1>9, <1>10, <1>11, <1>12 DEF Based
<1>14. status \in [Sessions -> Statuses] /\ InOrder(status, 1)
  BY <1>3, MaxSessionAssumption DEF Init, Statuses, InOrder, Sessions
<1>15. Active = 1
  BY <1>14, ActiveIs DEF Active
<1>16. RouteOK
  BY DEF Init, RouteOK, Routes, Idle
<1>17. QED
  BY <1>1, <1>9, <1>10, <1>11, <1>13, <1>14, <1>15, <1>16 DEF Inv

(* Every step keeps the invariant; it leaves the session at work or closes *)
(* it.                                                                     *)
Step == Stays \/ \E how \in Closed : Advances(how) /\ Active' = Active + 1

LEMMA NextInv ==
    ASSUME Inv, [Next]_vars
    PROVE  Inv' /\ Step
<1>1. /\ workdir \in Trees /\ route \in Routes /\ Idle \in Routes /\ Idle.kind = "idle"
      /\ route.kind # "idle" => route.target \in CommitIds(repo)
  BY DEF Inv, RouteOK, Routes, Idle
<1>2. CASE Edit
  BY <1>1, <1>2, EditStep, StaysKeepsInv DEF Step
<1>3. ASSUME NEW u \in SUBSET MayBeUnreadable, NEW old \in SUBSET Reusable,
             Poll \/ ApproveFails(u, old)
      PROVE  Inv' /\ Step
  BY <1>1, <1>3, PollStep, StaysKeepsInv DEF Step
<1>4. ASSUME NEW u \in SUBSET MayBeUnreadable, NEW old \in SUBSET Reusable,
             ChatCheckpoint(u, old) \/ RestoreCheckpoint(u, old)
      PROVE  Inv' /\ Step
  BY <1>1, <1>4, CheckpointStep, StaysKeepsInv DEF Step
<1>5. ASSUME NEW c \in 1..Len(repo.commits), NEW skipped \in SUBSET MayBeUnreadable,
             RestoreFiles(c, skipped)
      PROVE  Inv' /\ Step
  <2>1. c \in CommitIds(repo) /\ c \in Nat
    BY DEF CommitIds
  <2>2. /\ workdir' = RestoredWorkdir(EnsureRepo(repo, Active), Active, workdir, c, skipped)
        /\ repo' = ClearStaging(EnsureRepo(repo, Active), Active)
        /\ status' = status /\ route' = [kind |-> "restore", target |-> c]
    BY <1>5 DEF RestoreFiles
  <2>3. Stays /\ workdir' \in Trees
    BY <2>1, <2>2, RestoreStep
  <2>4. route' \in Routes /\ route'.target \in CommitIds(repo)
    BY <2>1, <2>2 DEF Routes
  <2>5. QED
    BY <2>3, <2>4, StaysKeepsInv DEF Step
<1>6. ASSUME NEW skipped \in SUBSET MayBeUnreadable, ResetFiles(skipped)
      PROVE  Inv' /\ Step
  <2>1. /\ route.target \in CommitIds(repo)
        /\ workdir' = RestoredWorkdir(EnsureRepo(repo, Active), Active, workdir,
                                      route.target, skipped)
        /\ repo' = ClearStaging(EnsureRepo(repo, Active), Active)
        /\ status' = status /\ route' = Idle
    BY <1>1, <1>6 DEF ResetFiles
  <2>2. Stays /\ workdir' \in Trees
    BY <2>1, RestoreStep
  <2>3. QED
    BY <1>1, <2>1, <2>2, StaysKeepsInv DEF Step
<1>7. ASSUME NEW u \in SUBSET MayBeUnreadable, NEW old \in SUBSET Reusable,
             ResetSession(u, old)
      PROVE  Inv' /\ Step
  <2>1. "abandoned" \in Closed
    BY DEF Closed
  <2>2. QED
    BY <1>1, <1>7, <2>1, ResetStep, AdvancesKeepsInv DEF Step
<1>8. ASSUME NEW u \in SUBSET MayBeUnreadable, NEW old \in SUBSET Reusable, Approve(u, old)
      PROVE  Inv' /\ Step
  <2>1. "merged" \in Closed
    BY DEF Closed
  <2>2. QED
    BY <1>1, <1>8, <2>1, ApproveStep, AdvancesKeepsInv DEF Step
<1>9. CASE UNCHANGED vars
  <2>1. workdir' = workdir /\ repo' = repo /\ status' = status /\ route' = route
    BY <1>9 DEF vars
  <2>2. Stays
    BY <2>1, KeepsSame DEF Stays, Works, Inv
  <2>3. QED
    BY <1>1, <2>1, <2>2, StaysKeepsInv DEF Step
<1>10. QED
  BY <1>2, <1>3, <1>4, <1>5, <1>6, <1>7, <1>8, <1>9 DEF Next, Request

THEOREM Invariance ==
    ASSUME DefaultBranch = MASTER
    PROVE  Spec => []Inv
<1>1. Init => Inv
  BY InitInv
<1>2. Inv /\ [Next]_vars => Inv'
  BY NextInv
<1>3. QED
  BY <1>1, <1>2, PTL DEF Spec

(* Every variable keeps its type.                                          *)
THEOREM CheckpointTypes ==
    ASSUME DefaultBranch = MASTER
    PROVE  Spec => []TypeOK
<1>1. Inv => TypeOK
  BY DEF Inv, TypeOK, RouteOK, Routes, Sound, RepoType
<1>2. QED
  BY <1>1, Invariance, PTL

(* Whatever the requests, and however often ensure_repo recreates it, the  *)
(* branch of the active session contains the head of main.                 *)
THEOREM WorkStartsFromMain ==
    ASSUME DefaultBranch = MASTER
    PROVE  Spec => []ActiveHoldsMain
<1>1. Inv => ActiveHoldsMain
  BY BasedFacts, ActiveType DEF Inv, Based, ActiveHoldsMain, ActiveHead
<1>2. QED
  BY <1>1, Invariance, PTL
-----------------------------------------------------------------------------
(* The abstract workflow: what it sees of a step.                          *)
Decided  == [n \in 1..(Active - 1) |-> status[n]]
Approved == Ancestors(repo, MainHead(repo))

LEMMA DecidedType ==
    ASSUME NEW s \in Sessions, NEW db \in [Sessions -> Statuses], NEW d,
           d = [n \in 1..(s - 1) |-> db[n]]
    PROVE  d \in Seq(Statuses) /\ Len(d) = s - 1
<1>1. s - 1 \in Nat /\ \A n \in 1..(s - 1) : db[n] \in Statuses
  BY MaxSessionAssumption DEF Sessions
<1>2. d \in [1..(s - 1) -> Statuses]
  BY <1>1
<1>3. QED
  BY <1>1, <1>2

LEMMA StaysStutters ==
    ASSUME Inv, Stays
    PROVE  Decided' = Decided /\ Approved' = Approved
<1>1. Decided' = Decided
  BY DEF Stays, Decided, Active
<1>2. /\ Sound(repo) /\ Sound(repo') /\ Keeps(repo, repo')
      /\ MainHead(repo') = MainHead(repo)
  BY DEF Inv, Stays, Works
<1>3. MainHead(repo) \in CommitIds(repo)
  BY <1>2, MainReads
<1>4. QED
  BY <1>1, <1>2, <1>3, KeepsFacts DEF Approved

LEMMA AdvancesDecides ==
    ASSUME Inv, Inv', NEW how \in Closed, Advances(how), Active' = Active + 1
    PROVE  /\ Decided' = Append(Decided, how)
           /\ Approved \subseteq Approved'
           /\ how = "abandoned" => Approved' = Approved
<1> DEFINE s == Active
<1>1. s \in Sessions /\ s \in Int /\ s >= 1 /\ how \in Statuses /\ status \in [Sessions -> Statuses]
  BY ActiveType, Names DEF Closed, Statuses, Inv
<1>2. Decided \in Seq(Statuses) /\ Len(Decided) = s - 1
  BY <1>1, DecidedType DEF Decided
<1>3. Decided' \in Seq(Statuses) /\ Len(Decided') = s
  <2>1. Active' \in Sessions /\ status' \in [Sessions -> Statuses] /\ Active' - 1 = s
    BY <1>1 DEF Inv, InOrder
  <2>2. Decided' = [n \in 1..(Active' - 1) |-> status'[n]]
    BY DEF Decided
  <2>3. QED
    BY <2>1, <2>2, DecidedType
<1>4. /\ Append(Decided, how) \in Seq(Statuses) /\ Len(Append(Decided, how)) = s
      /\ \A i \in 1..s : Append(Decided, how)[i] = IF i = s THEN how ELSE Decided[i]
  BY <1>1, <1>2, AppendProperties
<1>5. status' = Close(status, s, how)
  BY DEF Advances
<1>6. ASSUME NEW i \in 1..s
      PROVE  Decided'[i] = Append(Decided, how)[i]
  <2>1. i \in Sessions /\ i # s + 1
    BY <1>1, MaxSessionAssumption DEF Sessions
  <2>2. status'[i] = IF i = s THEN how ELSE status[i]
    BY <1>1, <1>5, <2>1 DEF Close
  <2>3. Decided'[i] = status'[i]
    BY <1>1 DEF Decided
  <2>4. i # s => Decided[i] = status[i]
    BY <1>1 DEF Decided
  <2>5. QED
    BY <1>4, <2>2, <2>3, <2>4
<1> HIDE DEF s
<1>7. Decided' = Append(Decided, how)
  BY <1>3, <1>4, <1>6, SeqEqual
<1>8. Approved \subseteq Approved'
  BY DEF Advances, Approved
<1>9. ASSUME how = "abandoned" PROVE Approved' = Approved
  <2>1. /\ Sound(repo) /\ Sound(repo') /\ Keeps(repo, repo')
        /\ MainHead(repo') = MainHead(repo)
    BY <1>9 DEF Inv, Advances
  <2>2. MainHead(repo) \in CommitIds(repo)
    BY <2>1, MainReads
  <2>3. QED
    BY <2>1, <2>2, KeepsFacts DEF Approved
<1>10. QED
  BY <1>7, <1>8, <1>9

(* The program implements ApprovalWorkflow: sessions are decided in order  *)
(* and once, and only an approval extends the approved history, from which *)
(* nothing is ever lost.                                                   *)
THEOREM HonoursWorkflow ==
    ASSUME DefaultBranch = MASTER
    PROVE  Spec => ImplementsWorkflow
<1>1. Init => Workflow!Init
  <2> SUFFICES ASSUME Init PROVE Workflow!Init
    OBVIOUS
  <2>1. Active = 1 /\ Ancestors(repo, MainHead(repo)) = {1}
    BY InitInv
  <2>2. [n \in 1..(Active - 1) |-> status[n]] = <<>>
    BY <2>1
  <2>3. QED
    BY <2>1, <2>2 DEF Workflow!Init
<1>2. Inv /\ Inv' /\ [Next]_vars => [Workflow!Next]_<<Decided, Approved>>
  <2> SUFFICES ASSUME Inv, Inv', [Next]_vars
               PROVE  [Workflow!Next]_<<Decided, Approved>>
    OBVIOUS
  <2>1. CASE Stays
    BY <2>1, StaysStutters
  <2>2. ASSUME NEW how \in Closed, Advances(how), Active' = Active + 1
        PROVE  Workflow!Next
    <3>1. /\ Decided' = Append(Decided, how) /\ Approved \subseteq Approved'
          /\ how = "abandoned" => Approved' = Approved
      BY <2>2, AdvancesDecides
    <3>2. how = "merged" \/ how = "abandoned"
      BY DEF Closed
    <3>3. QED
      BY <3>1, <3>2 DEF Workflow!Next, Workflow!Approve, Workflow!Abandon, Decided, Approved
  <2>3. QED
    BY <2>1, <2>2, NextInv DEF Step
<1>3. QED
  BY <1>1, <1>2, Invariance, PTL DEF Spec, ImplementsWorkflow, Workflow!Spec, Decided, Approved
-----------------------------------------------------------------------------
(* What the commits, a restore and a reset do with the project's files,    *)
(* step by step.                                                           *)
LEMMA NextReads ==
    ASSUME ProjectGit = EmptyTree, Inv, Next
    PROVE  ReadsProject(repo, repo', workdir, MayBeUnreadable)
<1>1. Sound(repo) /\ workdir \in Trees
  BY DEF Inv
<1>2. repo'.commits = repo.commits => ReadsProject(repo, repo', workdir, MayBeUnreadable)
  BY DEF ReadsProject, CommitIds
<1>3. CASE Edit
  BY <1>2, <1>3, EditStep
<1>4. ASSUME NEW u \in SUBSET MayBeUnreadable, NEW old \in SUBSET Reusable,
             Poll \/ ApproveFails(u, old)
      PROVE  ReadsProject(repo, repo', workdir, MayBeUnreadable)
  BY <1>2, <1>4, PollStep
<1>5. ASSUME NEW u \in SUBSET MayBeUnreadable, NEW old \in SUBSET Reusable,
             ChatCheckpoint(u, old) \/ RestoreCheckpoint(u, old)
      PROVE  ReadsProject(repo, repo', workdir, MayBeUnreadable)
  BY <1>1, <1>5, CheckpointStep, ScannedReads
<1>6. ASSUME NEW u \in SUBSET MayBeUnreadable, NEW old \in SUBSET Reusable,
             ResetSession(u, old)
      PROVE  ReadsProject(repo, repo', workdir, MayBeUnreadable)
  BY <1>1, <1>6, ResetStep, ScannedReads
<1>7. ASSUME NEW u \in SUBSET MayBeUnreadable, NEW old \in SUBSET Reusable, Approve(u, old)
      PROVE  ReadsProject(repo, repo', workdir, MayBeUnreadable)
  <2>1. ReadsProject(repo, repo', workdir, u)
    BY <1>7, ApproveStep
  <2>2. QED
    BY <2>1 DEF ReadsProject
<1>8. ASSUME NEW c \in 1..Len(repo.commits), NEW skipped,
             RestoreFiles(c, skipped) \/ ResetFiles(skipped)
      PROVE  repo'.commits = repo.commits
  <2>1. c \in CommitIds(repo) /\ (ResetFiles(skipped) => route.target \in CommitIds(repo))
    BY DEF CommitIds, Inv, RouteOK, ResetFiles
  <2>2. QED
    BY <1>8, <2>1, RestoreStep DEF RestoreFiles, ResetFiles
<1>9. 1 \in 1..Len(repo.commits)
  BY <1>1, CommitCount, MainReads DEF CommitIds
<1>10. QED
  BY <1>2, <1>3, <1>4, <1>5, <1>6, <1>7, <1>8, <1>9 DEF Next, Request

(* Every commit made of the project has the content on disk of each file   *)
(* that is neither ignored nor staged and can be read - unless the project *)
(* is itself under git, whose blobs a scan may reuse.                      *)
THEOREM CommitsMatchProject ==
    ASSUME DefaultBranch = MASTER, ProjectGit = EmptyTree
    PROVE  Spec => CheckpointMatchesProject
<1> DEFINE Matches ==
        \A i \in 1..Len(repo'.commits) : i > Len(repo.commits) =>
            \A p \in Paths \ (Ignored \cup MayBeUnreadable) :
                repo.index[p] = Absent => Tree(repo', i)[p] = workdir[p]
<1>1. Inv /\ [Next]_vars => [Matches]_vars
  <2> SUFFICES ASSUME Inv, Next PROVE Matches
    OBVIOUS
  <2>1. ReadsProject(repo, repo', workdir, MayBeUnreadable)
    BY NextReads
  <2>2. Len(repo.commits) \in Nat
    BY CommitCount DEF Inv
  <2>3. QED
    BY <2>1, <2>2 DEF ReadsProject, CommitIds
<1>2. QED
  BY <1>1, Invariance, PTL DEF Spec, CheckpointMatchesProject

(* A restore or a reset leaves alone every file that the agent has not     *)
(* staged and no checkpoint has, whatever cannot be deleted or written.    *)
THEOREM RestoreSparesFiles ==
    ASSUME DefaultBranch = MASTER
    PROVE  Spec => RestoreSparesUnknown
<1> DEFINE Spares ==
        route # route' =>
            \A p \in Paths :
                /\ repo.index[p] = Absent
                /\ \A i \in 1..Len(repo.commits) : Tree(repo, i)[p] = Absent
                => workdir'[p] = workdir[p]
<1>1. Inv /\ [Next]_vars => [Spares]_vars
  <2> SUFFICES ASSUME Inv, Next PROVE Spares
    OBVIOUS
  <2>1. ASSUME NEW c \in CommitIds(repo), NEW skipped,
               workdir' = RestoredWorkdir(EnsureRepo(repo, Active), Active, workdir, c, skipped),
               repo' = ClearStaging(EnsureRepo(repo, Active), Active),
               status' = status
        PROVE  Spares
    BY <2>1, RestoreStep DEF CommitIds
  <2>2. ASSUME NEW c \in 1..Len(repo.commits), NEW skipped \in SUBSET MayBeUnreadable,
               RestoreFiles(c, skipped)
        PROVE  Spares
    BY <2>1, <2>2 DEF RestoreFiles, CommitIds
  <2>3. ASSUME NEW skipped \in SUBSET MayBeUnreadable, ResetFiles(skipped)
        PROVE  Spares
    <3>1. route.target \in CommitIds(repo)
      BY <2>3 DEF Inv, RouteOK, ResetFiles
    <3>2. QED
      BY <2>1, <2>3, <3>1 DEF ResetFiles
  <2>4. CASE Edit
    BY <2>4, EditStep
  <2>5. ASSUME NEW u \in SUBSET MayBeUnreadable, NEW old \in SUBSET Reusable,
               \/ Poll
               \/ ChatCheckpoint(u, old) \/ RestoreCheckpoint(u, old)
               \/ ResetSession(u, old) \/ Approve(u, old) \/ ApproveFails(u, old)
        PROVE  Spares
    <3>1. workdir' = workdir
      BY <2>5 DEF Poll, ChatCheckpoint, RestoreCheckpoint, ResetSession, Approve, ApproveFails
    <3>2. QED
      BY <3>1
  <2>6. QED
    BY <2>2, <2>3, <2>4, <2>5 DEF Next, Request
<1>2. QED
  BY <1>1, Invariance, PTL DEF Spec, RestoreSparesUnknown

(* A reset loses no work that can be read.                                 *)
THEOREM ResetSavesFiles ==
    ASSUME DefaultBranch = MASTER, ProjectGit = EmptyTree, MayBeUnreadable = {}
    PROVE  Spec => ResetSavesWork
<1> DEFINE Saves ==
        (\E n \in Sessions : status[n] = "active" /\ status'[n] = "abandoned") =>
            \A p \in Paths \ (Ignored \cup MayBeUnreadable) :
                (repo.index[p] = Absent /\ workdir[p] # Absent) =>
                    \E i \in 1..Len(repo'.commits) : Tree(repo', i)[p] = workdir[p]
<1>1. Inv /\ [Next]_vars => [Saves]_vars
  <2> SUFFICES ASSUME Inv, Next PROVE Saves
    OBVIOUS
  <2>1. ASSUME NEW u \in SUBSET MayBeUnreadable, NEW old \in SUBSET Reusable,
               ResetSession(u, old)
        PROVE  Saves
    <3>1. u = {}
      OBVIOUS
    <3>2. QED
      BY <2>1, <3>1, ResetStep DEF CommitIds
  <2>2. ASSUME NEW u \in SUBSET MayBeUnreadable, NEW old \in SUBSET Reusable, Approve(u, old)
        PROVE  Saves
    <3>1. status' = Close(status, Active, "merged") /\ status \in [Sessions -> Statuses]
      BY <2>2 DEF Approve, Inv
    <3>2. \A n \in Sessions : status'[n] \in {status[n], "merged", "active"}
      BY <3>1 DEF Close
    <3>3. QED
      BY <3>2
  <2>3. ASSUME status' = status PROVE Saves
    BY <2>3
  <2>4. CASE Edit
    BY <2>3, <2>4, EditStep DEF Stays
  <2>5. ASSUME NEW u \in SUBSET MayBeUnreadable, NEW old \in SUBSET Reusable,
               Poll \/ ChatCheckpoint(u, old) \/ RestoreCheckpoint(u, old) \/ ApproveFails(u, old)
        PROVE  Saves
    BY <2>3, <2>5 DEF Poll, ChatCheckpoint, RestoreCheckpoint, ApproveFails
  <2>6. ASSUME NEW c, NEW skipped, RestoreFiles(c, skipped) \/ ResetFiles(skipped)
        PROVE  Saves
    BY <2>3, <2>6 DEF RestoreFiles, ResetFiles
  <2>7. QED
    BY <2>1, <2>2, <2>4, <2>5, <2>6 DEF Next, Request
<1>2. QED
  BY <1>1, Invariance, PTL DEF Spec, ResetSavesWork
=============================================================================
