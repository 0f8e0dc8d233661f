---------------------------- MODULE MCCheckpoints ----------------------------
(* Instances of Checkpoints for TLC: tracked is an ordinary source file,   *)
(* ignored one that .gitignore excludes (a file under .venv, say), locked  *)
(* one that another process may hold.                                      *)
EXTENDS Checkpoints, TLC

CONSTANTS tracked, ignored, locked, v1

MCPaths == {tracked, ignored}
MCIgnored == {ignored}
MCNone == {}
MCOneContent == {v1}
MCTwoSources == {tracked, locked}
MCUnreadable == {locked}
MCNoGit == [p \in Paths |-> Absent]
MCMaster == MASTER
=============================================================================
