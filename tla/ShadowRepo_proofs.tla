-------------------------- MODULE ShadowRepo_proofs --------------------------
(***************************************************************************)
(* Lemmas about the operators of ShadowRepo, for every number of sessions  *)
(* and every set of paths and contents.  They carry one notion, Sound,     *)
(* through each operator that changes a repository, and say what becomes   *)
(* of the head of main.  The proofs about SessionSteps and Checkpoints     *)
(* rest on them.                                                           *)
(***************************************************************************)
EXTENDS ShadowRepo, TLAPS

RepoType ==
    [sha : [RefNames -> Nat], link : [RefNames -> RefNames \cup {Direct}],
     index : Trees, commits : Seq([tree : Trees, anc : SUBSET Nat])]

CommitIds(r) == 1..Len(r.commits)

(* References name existing commits, a commit is among its own ancestors,  *)
(* main holds a commit id, and no symbolic reference leads to main.        *)
Sound(r) ==
    /\ r \in RepoType
    /\ \A x \in RefNames : r.sha[x] \in CommitIds(r) \cup {0}
    /\ \A i \in CommitIds(r) : i \in Ancestors(r, i)
    /\ r.link[MAIN] = Direct
    /\ r.sha[MAIN] # 0
    /\ \A x \in RefNames : r.link[x] # MAIN

(* What most operators keep: the commits and the head of main.             *)
SameMain(r, q) == q.commits = r.commits /\ MainHead(q) = MainHead(r)
-----------------------------------------------------------------------------
(* The names are pairwise different.                                       *)
LEMMA NamesDiffer ==
    /\ MAIN \in RefNames /\ HEAD \in RefNames /\ MASTER \in RefNames
    /\ Sessions \subseteq RefNames /\ Direct \notin RefNames
    /\ HEAD # MAIN /\ MASTER # MAIN /\ MAIN \notin Sessions
    /\ HEAD \notin Sessions
BY MaxSessionAssumption DEF MAIN, HEAD, MASTER, Direct, Sessions, RefNames

LEMMA ElementType ==
    ASSUME NEW S, NEW t \in Seq(S), NEW i \in 1..Len(t)
    PROVE  t[i] \in S
OBVIOUS

LEMMA CommitCount ==
    ASSUME NEW r, Sound(r)
    PROVE  Len(r.commits) \in Nat
BY DEF Sound, RepoType

(* Following one link stays inside the names and neither enters nor leaves *)
(* main.                                                                   *)
LEMMA HopStays ==
    ASSUME NEW r, Sound(r), NEW x \in RefNames
    PROVE  /\ Hop(r, x) \in RefNames
           /\ Hop(r, x) = MAIN <=> x = MAIN
BY NamesDiffer DEF Sound, RepoType, Hop

(* So does following the whole chain.                                      *)
LEMMA TailStays ==
    ASSUME NEW r, Sound(r), NEW x \in RefNames
    PROVE  /\ Tail4(r, x) \in RefNames
           /\ Tail4(r, x) = MAIN <=> x = MAIN
<1> DEFINE a == Hop(r, x)
           b == Hop(r, a)
           c == Hop(r, b)
           d == Hop(r, c)
<1>1. a \in RefNames /\ (a = MAIN <=> x = MAIN)
  BY HopStays
<1>2. b \in RefNames /\ (b = MAIN <=> a = MAIN)
  BY <1>1, HopStays
<1>3. c \in RefNames /\ (c = MAIN <=> b = MAIN)
  BY <1>2, HopStays
<1>4. d \in RefNames /\ (d = MAIN <=> c = MAIN)
  BY <1>3, HopStays
<1>5. Tail4(r, x) = d
  BY DEF Tail4
<1> QED
  BY <1>1, <1>2, <1>3, <1>4, <1>5

LEMMA TargetStays ==
    ASSUME NEW r, Sound(r), NEW x \in RefNames
    PROVE  /\ Target(r, x) \in RefNames
           /\ Target(r, x) = MAIN <=> x = MAIN
BY TailStays DEF Target

(* A reference reads as a commit, or as 0 when it cannot be read.          *)
LEMMA ResolveType ==
    ASSUME NEW r, Sound(r), NEW x \in RefNames
    PROVE  Resolve(r, x) \in CommitIds(r) \cup {0}
BY TailStays DEF Resolve, Sound

(* main always reads as the commit its file holds.                         *)
LEMMA MainReads ==
    ASSUME NEW r, Sound(r)
    PROVE  MainHead(r) = r.sha[MAIN] /\ MainHead(r) \in CommitIds(r)
<1>1. Tail4(r, MAIN) = MAIN
  BY NamesDiffer, TailStays
<1>2. ~Loops(r, MAIN)
  BY <1>1 DEF Loops, Sound
<1>3. Resolve(r, MAIN) = r.sha[MAIN]
  BY <1>1, <1>2 DEF Resolve
<1> QED
  BY <1>3, NamesDiffer DEF MainHead, Sound

(* Any two sound repositories with the same commits and the same main file *)
(* have the same head of main.                                             *)
LEMMA SameMainFile ==
    ASSUME NEW r, NEW q, Sound(r), Sound(q), q.commits = r.commits, q.sha[MAIN] = r.sha[MAIN]
    PROVE  SameMain(r, q)
BY MainReads DEF SameMain
-----------------------------------------------------------------------------
(* Rewriting the file of one reference, as every writer does.              *)
Rewrite(r, x, c, y) ==
    [r EXCEPT !.sha = [@ EXCEPT ![x] = c], !.link = [@ EXCEPT ![x] = y]]

LEMMA RewriteType ==
    ASSUME NEW r, r \in RepoType, NEW x \in RefNames,
           NEW c \in CommitIds(r) \cup {0}, NEW y \in RefNames \cup {Direct}
    PROVE  /\ Rewrite(r, x, c, y) \in RepoType
           /\ Rewrite(r, x, c, y).commits = r.commits
           /\ \A z \in RefNames :
                  /\ Rewrite(r, x, c, y).sha[z] = IF z = x THEN c ELSE r.sha[z]
                  /\ Rewrite(r, x, c, y).link[z] = IF z = x THEN y ELSE r.link[z]
<1>1. c \in Nat
  BY DEF CommitIds
<1>2. [r.sha EXCEPT ![x] = c] \in [RefNames -> Nat]
  BY <1>1 DEF RepoType
<1>3. [r.link EXCEPT ![x] = y] \in [RefNames -> RefNames \cup {Direct}]
  BY DEF RepoType
<1> QED
  BY <1>2, <1>3 DEF RepoType, Rewrite

(* Rewriting a file that is not main's keeps a repository sound and leaves *)
(* main alone.                                                             *)
LEMMA RewriteFile ==
    ASSUME NEW r, Sound(r), NEW x \in RefNames \ {MAIN},
           NEW c \in CommitIds(r) \cup {0}, NEW y \in (RefNames \ {MAIN}) \cup {Direct}
    PROVE  Sound(Rewrite(r, x, c, y)) /\ SameMain(r, Rewrite(r, x, c, y))
<1> DEFINE q == Rewrite(r, x, c, y)
<1>1. r \in RepoType /\ x \in RefNames /\ y \in RefNames \cup {Direct}
  BY DEF Sound
<1>2. /\ q \in RepoType /\ q.commits = r.commits
      /\ \A z \in RefNames : /\ q.sha[z] = IF z = x THEN c ELSE r.sha[z]
                             /\ q.link[z] = IF z = x THEN y ELSE r.link[z]
  BY <1>1, RewriteType
<1> HIDE DEF q
<1>3. q.sha[MAIN] = r.sha[MAIN] /\ q.link[MAIN] = r.link[MAIN]
  BY <1>1, <1>2, NamesDiffer DEF RepoType
<1>4. \A z \in RefNames : q.sha[z] \in CommitIds(q) \cup {0} /\ q.link[z] # MAIN
  BY <1>1, <1>2, NamesDiffer DEF Sound, RepoType, CommitIds
<1>5. Sound(q)
  BY <1>2, <1>3, <1>4 DEF Sound, CommitIds, Ancestors
<1>6. SameMain(r, q)
  BY <1>2, <1>3, <1>5, SameMainFile
<1> QED
  BY <1>5, <1>6 DEF q

(* An assignment to a reference other than main leaves main alone.         *)
LEMMA SetRefSound ==
    ASSUME NEW r, Sound(r), NEW x \in RefNames \ {MAIN}, NEW c \in CommitIds(r) \cup {0}
    PROVE  Sound(SetRef(r, x, c)) /\ SameMain(r, SetRef(r, x, c))
<1>1. Target(r, x) \in RefNames \ {MAIN}
  BY TargetStays
<1>2. SetRef(r, x, c) = Rewrite(r, Target(r, x), c, Direct)
  BY DEF SetRef, Rewrite
<1> QED
  BY <1>1, <1>2, RewriteFile

(* An assignment to main sets its head.                                    *)
LEMMA SetMainSound ==
    ASSUME NEW r, Sound(r), NEW c \in CommitIds(r)
    PROVE  /\ Sound(SetRef(r, MAIN, c))
           /\ SetRef(r, MAIN, c).commits = r.commits
           /\ MainHead(SetRef(r, MAIN, c)) = c
<1> DEFINE q == SetRef(r, MAIN, c)
<1>1. Target(r, MAIN) = MAIN
  BY TargetStays, NamesDiffer
<1>2. q = Rewrite(r, MAIN, c, Direct)
  BY <1>1 DEF SetRef, Rewrite
<1> HIDE DEF q
<1>3. r \in RepoType
  BY DEF Sound
<1>4. /\ q \in RepoType /\ q.commits = r.commits
      /\ \A z \in RefNames : /\ q.sha[z] = IF z = MAIN THEN c ELSE r.sha[z]
                             /\ q.link[z] = IF z = MAIN THEN Direct ELSE r.link[z]
  BY <1>2, <1>3, RewriteType, NamesDiffer
<1>5. \A z \in RefNames : q.sha[z] \in CommitIds(q) \cup {0} /\ q.link[z] # MAIN
  BY <1>3, <1>4, NamesDiffer DEF Sound, RepoType, CommitIds
<1>6. q.sha[MAIN] = c /\ q.link[MAIN] = Direct /\ c # 0
  BY <1>3, <1>4, NamesDiffer DEF RepoType, CommitIds
<1>7. Sound(q)
  BY <1>4, <1>5, <1>6 DEF Sound, CommitIds, Ancestors
<1> QED
  BY <1>4, <1>6, <1>7, MainReads DEF q

LEMMA WriteRefFileSound ==
    ASSUME NEW r, Sound(r), NEW n \in Sessions, NEW c \in CommitIds(r) \cup {0}
    PROVE  Sound(WriteRefFile(r, n, c)) /\ SameMain(r, WriteRefFile(r, n, c))
<1>1. n \in RefNames \ {MAIN}
  BY NamesDiffer
<1>2. WriteRefFile(r, n, c) = Rewrite(r, n, c, Direct)
  BY DEF WriteRefFile, Rewrite
<1> QED
  BY <1>1, <1>2, RewriteFile

(* HEAD made to name a session, through the container or as a file.        *)
LEMMA PointHeadSound ==
    ASSUME NEW r, Sound(r), NEW n \in Sessions
    PROVE  /\ Sound(SetSymRef(r, HEAD, n)) /\ SameMain(r, SetSymRef(r, HEAD, n))
           /\ Sound(WriteHeadFile(r, n)) /\ SameMain(r, WriteHeadFile(r, n))
<1>1. n \in RefNames \ {MAIN} /\ HEAD \in RefNames \ {MAIN}
  BY NamesDiffer
<1>2. Target(r, HEAD) \in RefNames \ {MAIN}
  BY <1>1, TargetStays
<1>3. /\ SetSymRef(r, HEAD, n) = Rewrite(r, Target(r, HEAD), 0, n)
      /\ WriteHeadFile(r, n) = Rewrite(r, HEAD, 0, n)
  BY DEF SetSymRef, WriteHeadFile, Rewrite
<1> QED
  BY <1>1, <1>2, <1>3, RewriteFile
-----------------------------------------------------------------------------
(* ensure_repo keeps a repository sound, its commits and its main.         *)
LEMMA EnsureRepoSound ==
    ASSUME NEW r, Sound(r), NEW s \in Sessions
    PROVE  Sound(EnsureRepo(r, s)) /\ SameMain(r, EnsureRepo(r, s))
<1>1. CreateMain(r) = r
  BY DEF CreateMain, Exists, Sound
<1>2. s \in RefNames \ {MAIN} /\ MainHead(r) \in CommitIds(r) \cup {0}
  BY NamesDiffer, MainReads
<1> DEFINE b == RecreateBranch(r, s)
<1>3. Sound(b) /\ SameMain(r, b)
  BY <1>2, SetRefSound, WriteRefFileSound DEF RecreateBranch, SameMain
<1>4. Sound(PointHead(b, s)) /\ SameMain(r, PointHead(b, s))
  BY <1>3, PointHeadSound DEF PointHead, SameMain
<1> QED
  BY <1>1, <1>4 DEF EnsureRepo, SameMain

LEMMA ClearStagingSound ==
    ASSUME NEW r, Sound(r), NEW s \in Sessions
    PROVE  Sound(ClearStaging(r, s)) /\ SameMain(r, ClearStaging(r, s))
<1> DEFINE e == EnsureRepo(r, s)
           q == [e EXCEPT !.index = EmptyTree]
<1>1. Sound(e) /\ SameMain(r, e)
  BY EnsureRepoSound
<1>2. EmptyTree \in Trees
  BY DEF EmptyTree, Trees
<1>3. q \in RepoType /\ q.sha = e.sha /\ q.link = e.link /\ q.commits = e.commits
  BY <1>1, <1>2 DEF Sound, RepoType
<1>4. Sound(q)
  BY <1>1, <1>3 DEF Sound, CommitIds, Ancestors
<1>5. SameMain(e, q)
  BY <1>1, <1>3, <1>4, SameMainFile
<1> QED
  BY <1>1, <1>4, <1>5 DEF ClearStaging, SameMain

(* The parent of a checkpoint is a commit, or none.                        *)
LEMMA CheckpointParentType ==
    ASSUME NEW r, Sound(r), NEW s \in Sessions
    PROVE  CheckpointParent(r, s) \in CommitIds(r) \cup {0}
BY NamesDiffer, ResolveType DEF CheckpointParent

(* A new commit gets the next number; the commits before it stay as they   *)
(* are, and it descends from each of its parents.                          *)
LEMMA AddCommitSound ==
    ASSUME NEW r, Sound(r), NEW tree \in Trees, NEW parents \in SUBSET CommitIds(r),
           NEW q, q = AddCommit(r, tree, parents)
    PROVE  /\ Sound(q)
           /\ Len(q.commits) = Len(r.commits) + 1
           /\ MainHead(q) = MainHead(r)
           /\ \A p \in parents : p \in Ancestors(q, Len(r.commits) + 1)
           /\ \A i \in CommitIds(r) : Ancestors(q, i) = Ancestors(r, i)
<1> DEFINE id == Len(r.commits) + 1
           anc == {id} \cup UNION {Ancestors(r, p) : p \in parents}
           new == [tree |-> tree, anc |-> anc]
<1>1. r \in RepoType /\ Len(r.commits) \in Nat
  BY DEF Sound, RepoType
<1>2. ASSUME NEW p \in CommitIds(r)
      PROVE  Ancestors(r, p) \subseteq Nat
  <2>1. r.commits \in Seq([tree : Trees, anc : SUBSET Nat])
    BY <1>1 DEF RepoType
  <2>2. r.commits[p] \in [tree : Trees, anc : SUBSET Nat]
    BY <2>1, ElementType, Zenon DEF CommitIds
  <2> QED
    BY <2>2 DEF Ancestors
<1>3. new \in [tree : Trees, anc : SUBSET Nat]
  <2>1. anc \subseteq Nat
    BY <1>1, <1>2
  <2> QED
    BY <2>1
<1> HIDE DEF new
<1>4. q = [r EXCEPT !.commits = Append(@, new)]
  BY DEF AddCommit, new
<1>5. /\ q \in RepoType /\ q.sha = r.sha /\ q.link = r.link
      /\ q.commits = Append(r.commits, new)
  <2>1. Append(r.commits, new) \in Seq([tree : Trees, anc : SUBSET Nat])
    BY <1>1, <1>3 DEF RepoType
  <2> QED
    BY <1>1, <1>4, <2>1 DEF RepoType
<1>6. /\ Len(q.commits) = id
      /\ q.commits[id] = new
      /\ \A i \in CommitIds(r) : q.commits[i] = r.commits[i]
  BY <1>1, <1>3, <1>5 DEF RepoType, CommitIds
<1>7. /\ \A i \in CommitIds(r) : Ancestors(q, i) = Ancestors(r, i)
      /\ Ancestors(q, id) = anc
      /\ CommitIds(q) = CommitIds(r) \cup {id}
  BY <1>1, <1>6 DEF Ancestors, CommitIds, new
<1>8. Sound(q)
  BY <1>5, <1>7 DEF Sound
<1>9. MainHead(q) = MainHead(r)
  BY <1>5, <1>8, MainReads
<1>10. \A p \in parents : p \in Ancestors(q, id)
  BY <1>7 DEF Sound
<1> QED
  BY <1>6, <1>7, <1>8, <1>9, <1>10

(* The end of create_checkpoint adds one commit and leaves main alone.     *)
LEMMA CommitCheckpointSound ==
    ASSUME NEW r, Sound(r), NEW s \in Sessions, NEW tree \in Trees,
           NEW parent \in CommitIds(r) \cup {0},
           NEW q, q = CommitCheckpoint(r, s, tree, parent)
    PROVE  /\ Sound(q)
           /\ Len(q.commits) = Len(r.commits) + 1
           /\ MainHead(q) = MainHead(r)
           /\ \A i \in CommitIds(r) : Ancestors(q, i) = Ancestors(r, i)
<1> DEFINE id == Len(r.commits) + 1
           parents == {parent} \ {0}
           added == AddCommit(r, tree, parents)
           set == SetRef(added, s, id)
           moved == WriteRefFile(set, s, id)
<1>1. /\ Sound(added) /\ Len(added.commits) = id /\ MainHead(added) = MainHead(r)
      /\ \A i \in CommitIds(r) : Ancestors(added, i) = Ancestors(r, i)
  <2>1. parents \in SUBSET CommitIds(r)
    OBVIOUS
  <2> HIDE DEF parents
  <2> QED
    BY <2>1, AddCommitSound
<1>2. s \in RefNames \ {MAIN}
  BY NamesDiffer
<1>3. id \in CommitIds(added)
  <2>1. Len(r.commits) \in Nat
    BY CommitCount
  <2> HIDE DEF added
  <2> QED
    BY <1>1, <2>1 DEF CommitIds
<1>4. Sound(set) /\ SameMain(added, set)
  BY <1>1, <1>2, <1>3, SetRefSound
<1>5. id \in CommitIds(set)
  BY <1>3, <1>4 DEF SameMain, CommitIds
<1>6. Sound(moved) /\ SameMain(set, moved)
  BY <1>4, <1>5, WriteRefFileSound
<1>7. Exists(moved, MAIN)
  BY <1>6 DEF Exists, Sound
<1>8. q = moved
  BY <1>7 DEF CommitCheckpoint
<1> QED
  BY <1>1, <1>4, <1>6, <1>8 DEF SameMain, Ancestors

(* _create_session leaves main alone.                                      *)
LEMMA CreateSessionSound ==
    ASSUME NEW r, Sound(r), NEW s \in Sessions, NEW n \in Sessions, NEW c \in CommitIds(r)
    PROVE  Sound(CreateSession(r, s, n, c)) /\ SameMain(r, CreateSession(r, s, n, c))
<1> DEFINE e == EnsureRepo(r, s)
           a == SetRef(e, n, c)
           b == WriteRefFile(a, n, c)
<1>1. Sound(e) /\ SameMain(r, e)
  BY EnsureRepoSound
<1>2. Sound(a) /\ SameMain(r, a)
  <2>1. n \in RefNames \ {MAIN} /\ c \in CommitIds(e)
    BY <1>1, NamesDiffer DEF SameMain, CommitIds
  <2> QED
    BY <1>1, <2>1, SetRefSound DEF SameMain
<1>3. Sound(b) /\ SameMain(r, b)
  <2>1. c \in CommitIds(a)
    BY <1>2 DEF SameMain, CommitIds
  <2> QED
    BY <1>2, <2>1, WriteRefFileSound DEF SameMain
<1> QED
  BY <1>3, PointHeadSound DEF CreateSession, PointHeadAt, SameMain
-----------------------------------------------------------------------------
(* A plain reference is where its chain ends.                              *)
LEMMA DirectRef ==
    ASSUME NEW r, NEW x, r.link[x] = Direct
    PROVE  Target(r, x) = x /\ Resolve(r, x) = r.sha[x]
<1>1. Hop(r, x) = x
  BY DEF Hop
<1>2. Tail4(r, x) = x
  BY <1>1 DEF Tail4
<1> QED
  BY <1>2 DEF Target, Resolve, Loops

(* The first checkpoint of a new repository, and main set to it            *)
(* (Project.create_dialog), give a sound repository.  When HEAD of the new *)
(* repository names main itself, they do not.                              *)
FirstRepo(tree) ==
    LET first == CommitCheckpoint(NewRepo, 1, tree, 0)
    IN  SetRef(first, MAIN, Resolve(first, 1))

LEMMA FirstRepoSound ==
    ASSUME DefaultBranch = MASTER, NEW tree \in Trees, NEW q, q = FirstRepo(tree)
    PROVE  /\ Sound(q)
           /\ q.commits = <<[tree |-> tree, anc |-> {1}]>>
           /\ \A x \in RefNames : /\ q.sha[x] = IF x \in {1, MAIN} THEN 1 ELSE 0
                                  /\ q.link[x] = IF x = HEAD THEN MASTER ELSE Direct
<1> DEFINE new == [tree |-> tree, anc |-> {1}]
           a == AddCommit(NewRepo, tree, {})
           b == Rewrite(a, 1, 1, Direct)
           c == Rewrite(b, 1, 1, Direct)
           d == Rewrite(c, MAIN, 1, Direct)
           e == Rewrite(d, MAIN, 1, Direct)
<1>1. /\ 1 \in RefNames /\ 1 # MAIN /\ 1 # HEAD /\ MAIN \in RefNames
      /\ MASTER \in RefNames /\ Direct \notin RefNames
      /\ HEAD # MAIN /\ MASTER # MAIN
  BY MaxSessionAssumption DEF MAIN, HEAD, MASTER, Direct, Sessions, RefNames
<1>2. /\ a \in RepoType
      /\ a.commits = <<new>>
      /\ \A x \in RefNames : /\ a.sha[x] = 0
                             /\ a.link[x] = IF x = HEAD THEN MASTER ELSE Direct
  <2>1. EmptyTree \in Trees /\ new \in [tree : Trees, anc : SUBSET Nat]
    BY DEF EmptyTree, Trees
  <2>2. a = [NewRepo EXCEPT !.commits = <<new>>]
    <3>1. NewRepo.commits = <<>>
      BY DEF NewRepo
    <3>2. UNION {Ancestors(NewRepo, p) : p \in {}} = {}
      OBVIOUS
    <3>3. Len(NewRepo.commits) + 1 = 1 /\ Append(NewRepo.commits, new) = <<new>>
      BY <3>1
    <3> QED
      BY <3>1, <3>2, <3>3 DEF AddCommit
  <2>3. <<new>> \in Seq([tree : Trees, anc : SUBSET Nat])
    BY <2>1
  <2>4. /\ NewContainer.sha \in [RefNames -> Nat]
        /\ NewContainer.link \in [RefNames -> RefNames \cup {Direct}]
        /\ \A x \in RefNames : /\ NewContainer.sha[x] = 0
                               /\ NewContainer.link[x] = IF x = HEAD THEN MASTER ELSE Direct
    BY <1>1 DEF NewContainer
  <2> HIDE DEF new
  <2>5. a = [sha |-> NewContainer.sha, link |-> NewContainer.link,
             index |-> EmptyTree, commits |-> <<new>>]
    BY <2>2 DEF NewRepo
  <2> HIDE DEF a
  <2> QED
    BY <2>1, <2>3, <2>4, <2>5 DEF RepoType
<1> HIDE DEF a
<1>3. Len(a.commits) = 1 /\ CommitIds(a) = {1}
  BY <1>2 DEF CommitIds
<1>4. /\ b \in RepoType /\ b.commits = a.commits
      /\ \A x \in RefNames : /\ b.sha[x] = IF x = 1 THEN 1 ELSE 0
                             /\ b.link[x] = a.link[x]
  BY <1>1, <1>2, <1>3, RewriteType
<1>5. SetRef(a, 1, 1) = b
  BY <1>1, <1>2, DirectRef DEF SetRef, Rewrite
<1> HIDE DEF b
<1>6. /\ c \in RepoType /\ c.commits = a.commits
      /\ \A x \in RefNames : /\ c.sha[x] = IF x = 1 THEN 1 ELSE 0
                             /\ c.link[x] = a.link[x]
  <2>1. CommitIds(b) = {1}
    BY <1>3, <1>4 DEF CommitIds
  <2>2. /\ c \in RepoType /\ c.commits = b.commits
        /\ \A z \in RefNames :
               /\ c.sha[z] = IF z = 1 THEN 1 ELSE b.sha[z]
               /\ c.link[z] = IF z = 1 THEN Direct ELSE b.link[z]
    BY <1>1, <1>4, <2>1, RewriteType
  <2> HIDE DEF c
  <2> QED
    BY <1>1, <1>2, <1>4, <2>2
<1>7. WriteRefFile(b, 1, 1) = c
  BY DEF WriteRefFile, Rewrite
<1> HIDE DEF c
<1>8. /\ d \in RepoType /\ d.commits = a.commits
      /\ \A x \in RefNames : /\ d.sha[x] = IF x \in {1, MAIN} THEN 1 ELSE 0
                             /\ d.link[x] = a.link[x]
  <2>1. CommitIds(c) = {1}
    BY <1>3, <1>6 DEF CommitIds
  <2>2. /\ d \in RepoType /\ d.commits = c.commits
        /\ \A z \in RefNames :
               /\ d.sha[z] = IF z = MAIN THEN 1 ELSE c.sha[z]
               /\ d.link[z] = IF z = MAIN THEN Direct ELSE c.link[z]
    BY <1>1, <1>6, <2>1, RewriteType
  <2> HIDE DEF d
  <2> QED
    BY <1>1, <1>2, <1>6, <2>2
<1>9. SetRef(c, MAIN, 1) = d /\ ~Exists(c, MAIN)
  BY <1>1, <1>2, <1>6, DirectRef DEF SetRef, Rewrite, Exists
<1> HIDE DEF d
<1>10. /\ e \in RepoType /\ e.commits = a.commits
       /\ \A x \in RefNames : /\ e.sha[x] = IF x \in {1, MAIN} THEN 1 ELSE 0
                              /\ e.link[x] = a.link[x]
  <2>1. CommitIds(d) = {1}
    BY <1>3, <1>8 DEF CommitIds
  <2>2. /\ e \in RepoType /\ e.commits = d.commits
        /\ \A z \in RefNames :
               /\ e.sha[z] = IF z = MAIN THEN 1 ELSE d.sha[z]
               /\ e.link[z] = IF z = MAIN THEN Direct ELSE d.link[z]
    <3>1. d \in RepoType /\ 1 \in CommitIds(d) \cup {0} /\ Direct \in RefNames \cup {Direct}
      BY <1>8, <2>1
    <3> QED
      BY <1>1, <3>1, RewriteType
  <2> HIDE DEF e
  <2> QED
    BY <1>1, <1>2, <1>8, <2>2
<1>11. SetRef(d, MAIN, Resolve(d, 1)) = e
  <2>1. Resolve(d, 1) = 1
    BY <1>1, <1>2, <1>8, DirectRef
  <2>2. Target(d, MAIN) = MAIN
    BY <1>1, <1>2, <1>8, DirectRef
  <2> QED
    BY <2>1, <2>2 DEF SetRef, Rewrite
<1> HIDE DEF e
<1>12. CommitCheckpoint(NewRepo, 1, tree, 0) = d
  <2>1. Len(NewRepo.commits) + 1 = 1 /\ {0} \ {0} = {}
    BY DEF NewRepo
  <2> QED
    BY <2>1, <1>5, <1>7, <1>9 DEF CommitCheckpoint, a
<1>13. FirstRepo(tree) = e
  BY <1>11, <1>12 DEF FirstRepo
<1>14. \A i \in CommitIds(e) : i \in Ancestors(e, i)
  BY <1>2, <1>3, <1>10 DEF Ancestors, CommitIds
<1>15. Sound(e)
  BY <1>1, <1>2, <1>3, <1>10, <1>14 DEF Sound, CommitIds
<1> QED
  BY <1>2, <1>10, <1>13, <1>15
=============================================================================
