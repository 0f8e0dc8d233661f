------------------------------ MODULE RefStore ------------------------------
(***************************************************************************)
(* The reference container of a dialog's shadow repository: the part of    *)
(* dulwich (DiskRefsContainer) that services/versioning.py relies on.  The *)
(* library is not in the repository, so every definition here is external  *)
(* and is taken from how versioning.py uses it: assignments to refs        *)
(* follow symbolic references ("Write symref directly to avoid dulwich     *)
(* following the ref", "It's a symref (broken), recreate", "avoid symref   *)
(* loops"), reads of a missing or looping reference raise, and files       *)
(* written with write_text bypass the container.                           *)
(*                                                                         *)
(* A reference name is an integer, so that any two can be compared: the    *)
(* branch of session n is n itself.                                        *)
(***************************************************************************)
EXTENDS Integers, Sequences, FiniteSets

CONSTANTS
    MaxSession,     \* bound: sessions are numbered 1..MaxSession
    DefaultBranch   \* the branch HEAD names in a new repository
                    \* (git's init.defaultBranch; master when it is not set)

MAIN   == 0         \* refs/heads/main
HEAD   == -1        \* HEAD
MASTER == -2        \* refs/heads/master, never written by versioning.py itself
Direct == -3        \* in "link": the file holds no symbolic reference

Sessions == 1..MaxSession
RefNames == Sessions \cup {MAIN, HEAD, MASTER}

ASSUME MaxSessionAssumption == MaxSession \in Nat \ {0}
ASSUME DefaultBranchAssumption == DefaultBranch \in {MASTER, MAIN}

(* A container r holds, for every name, the commit its file names (0 when  *)
(* there is none) and the name its file points to if it is symbolic.       *)
NewContainer ==
    [sha  |-> [x \in RefNames |-> 0],
     link |-> [x \in RefNames |-> IF x = HEAD THEN DefaultBranch ELSE Direct]]

Hop(r, x)  == IF r.link[x] = Direct THEN x ELSE r.link[x]
Tail4(r, x) == Hop(r, Hop(r, Hop(r, Hop(r, x))))

(* dulwich gives up on a chain of more than five files (SymrefLoop).       *)
Loops(r, x) == r.link[Tail4(r, x)] # Direct

(* repo.refs[x]: 0 stands for the exception a missing or looping reference *)
(* raises.                                                                 *)
Resolve(r, x) == IF Loops(r, x) THEN 0 ELSE r.sha[Tail4(r, x)]

(* x in repo.refs: only the file itself is looked at.                      *)
Exists(r, x) == r.link[x] # Direct \/ r.sha[x] # 0

(* The file an assignment to x really writes.                              *)
Target(r, x) == IF Loops(r, x) THEN x ELSE Tail4(r, x)

(* repo.refs[x] = c                                                        *)
SetRef(r, x, c) ==
    [r EXCEPT !.sha  = [@ EXCEPT ![Target(r, x)] = c],
              !.link = [@ EXCEPT ![Target(r, x)] = Direct]]

(* repo.refs[x] = b"ref: " + y                                             *)
SetSymRef(r, x, y) ==
    [r EXCEPT !.sha  = [@ EXCEPT ![Target(r, x)] = 0],
              !.link = [@ EXCEPT ![Target(r, x)] = y]]

(* ref_path.write_text(c)                                                  *)
WriteRefFile(r, x, c) ==
    [r EXCEPT !.sha  = [@ EXCEPT ![x] = c],
              !.link = [@ EXCEPT ![x] = Direct]]

(* head_file.write_text("ref: y")                                          *)
WriteHeadFile(r, y) ==
    [r EXCEPT !.sha  = [@ EXCEPT ![HEAD] = 0],
              !.link = [@ EXCEPT ![HEAD] = y]]
=============================================================================
