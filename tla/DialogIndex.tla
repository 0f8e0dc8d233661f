----------------------------- MODULE DialogIndex -----------------------------
(***************************************************************************)
(* dialogs/index.json, which lists a project's dialogs and names the       *)
(* current one, and the directories of the dialogs: creation, deletion,    *)
(* title, approval, the messages of chat streams, crashes and restarts.    *)
(*                                                                         *)
(* Every operation reads the whole index, changes it and replaces the file.*)
(* All of them run on the event loop without an await in between, so that  *)
(* only a crash or a failing save can cut one: creation and deletion, which*)
(* touch more than the index, are sequences of steps during which nothing  *)
(* else runs but the worker threads of resets and restores.  A client may  *)
(* still name a dialog that has been deleted, and a stream, a reset or a   *)
(* restore may outlive its dialog.                                         *)
(*                                                                         *)
(* Which dialog becomes current after the current one is deleted is left   *)
(* open, as is the order of the list.                                      *)
(*                                                                         *)
(* Preempt, NoDefault, KeepCurrent, HalfRollback and FilesOnly are likely  *)
(* defects of the operator that follows them.                              *)
(***************************************************************************)
EXTENDS Naturals, FiniteSets

CONSTANTS
    Ids,      \* ids that uuid4 may give, each of them once
    None,     \* no dialog
    MaxBusy,  \* bound: streams, and resets or restores, at a time
    MaxFaults \* bound: crashes, damaged files, saves and removals that fail

ASSUME NoneAssumption == None \notin Ids
ASSUME BoundAssumption == MaxBusy \in Nat /\ MaxFaults \in Nat

VARIABLES
    index,     \* index.json
    parts,     \* what there is of each dialog's directory
    op,        \* the creation or deletion in progress
    running,   \* dialogs with a chat stream
    resetting, \* dialogs with a reset or a restore in a worker thread
    up,        \* whether the server runs
    used,      \* ids given so far
    deleted,   \* dialogs deleted, or whose creation was rolled back
    strays,    \* ids that a request named, or a stream wrote to, while not listed
    left,      \* dialogs whose directory could not be removed
    cut,       \* dialogs whose files or entry were left half way by a crash, a save
               \* of the index that failed, or a damaged index
    faults     \* how many of those, and of removals that failed, there have been

vars == <<index, parts, op, running, resetting, up, used, deleted, strays, left, cut, faults>>
ghosts == <<used, deleted, strays, left, cut, faults>>

Titles == {"none", "given"}
Metas == [id : Ids, title : Titles, made : BOOLEAN]
Indexes == [current : Ids \cup {None}, entries : SUBSET Metas]
Parts == {"dir", "session", "repo"}

Empty == [current |-> None, entries |-> {}]
NoOp == [at |-> "none", id |-> None, read |-> Empty]

TypeOK ==
    /\ index \in Indexes
    /\ parts \in [Ids -> SUBSET Parts]
    /\ op \in [at : {"none", "list", "session", "checkpoint", "drop", "unlist"},
               id : Ids \cup {None}, read : Indexes]
    /\ op.at # "none" => op.id \in Ids
    /\ running \subseteq Ids /\ resetting \subseteq Ids
    /\ up \in BOOLEAN
    /\ used \subseteq Ids /\ deleted \subseteq Ids /\ strays \subseteq Ids
    /\ left \subseteq Ids /\ cut \subseteq Ids /\ faults \in 0..MaxFaults

Init ==
    /\ index = Empty
    /\ parts = [d \in Ids |-> {}]
    /\ op = NoOp
    /\ running = {} /\ resetting = {}
    /\ up = FALSE
    /\ used = {} /\ deleted = {} /\ strays = {} /\ left = {} /\ cut = {}
    /\ faults = 0
-----------------------------------------------------------------------------
Listed(ix, d) == \E e \in ix.entries : e.id = d

(* The event loop is free: no creation and no deletion is in progress.     *)
Preempt == up
Idle == up /\ op.at = "none"

(* upsert_dialog_meta: a missing entry is made.  Title "keep" stands for   *)
(* an update without a title.                                              *)
NoDefault(ix, d, title) ==
    [ix EXCEPT !.entries =
        IF Listed(ix, d)
        THEN {[e EXCEPT !.title = IF e.id = d /\ title # "keep" THEN title ELSE @] : e \in @}
        ELSE @ \cup {[id |-> d, title |-> title, made |-> FALSE]}]

Upsert(ix, d, title) ==
    [ix EXCEPT !.entries =
        IF Listed(ix, d)
        THEN {[e EXCEPT !.title = IF e.id = d /\ title # "keep" THEN title ELSE @] : e \in @}
        ELSE @ \cup {[id |-> d, title |-> IF title = "keep" THEN "none" ELSE title,
                      made |-> FALSE]}]

Without(ix, d) == {e \in ix.entries : e.id # d}

Busy == Cardinality(running) + Cardinality(resetting)
Stray(d) == strays' = IF Listed(index, d) THEN strays ELSE strays \cup {d}

Fault == faults < MaxFaults /\ faults' = faults + 1

(* rmtree with its errors ignored: some or all of a directory may stay.    *)
Remove(d) ==
    \/ /\ parts' = [parts EXCEPT ![d] = {}]
       /\ left' = left \ {d}
       /\ UNCHANGED faults
    \/ /\ \E rest \in SUBSET parts[d] : parts' = [parts EXCEPT ![d] = rest \cup {"dir"}]
       /\ left' = left \cup {d}
       /\ Fault
-----------------------------------------------------------------------------
(* create_dialog: the directory and the entry.                             *)
Create(d, title, setCurrent) ==
    LET ix == [current |-> IF setCurrent THEN d ELSE index.current,
               entries |-> index.entries \cup {[id |-> d, title |-> title, made |-> FALSE]}]
    IN  /\ parts' = [parts EXCEPT ![d] = {"dir"}]
        /\ op' = [at |-> "list", id |-> d, read |-> ix]
        /\ used' = used \cup {d}
        /\ UNCHANGED <<index, running, resetting, deleted, strays, left, cut, faults>>

(* lifespan: a project without dialogs gets one.  If that fails the server *)
(* ends (Crash), here at once or later.                                    *)
Start ==
    /\ ~up /\ up' = TRUE
    /\ IF index.entries = {}
       THEN \E d \in Ids \ used : Create(d, "none", TRUE)
       ELSE UNCHANGED <<index, parts, op, running, resetting, ghosts>>

CreateDialog ==
    /\ Idle
    /\ \E d \in Ids \ used, title \in Titles, setCurrent \in BOOLEAN :
        Create(d, title, setCurrent)
    /\ UNCHANGED up

ListDialog ==
    /\ op.at = "list"
    /\ index' = op.read
    /\ op' = [op EXCEPT !.at = "session"]
    /\ UNCHANGED <<parts, running, resetting, up, ghosts>>

MakeSession ==
    /\ op.at = "session"
    /\ parts' = [parts EXCEPT ![op.id] = @ \cup {"session"}]
    /\ op' = [op EXCEPT !.at = "checkpoint"]
    /\ UNCHANGED <<index, running, resetting, up, ghosts>>

(* The first checkpoint; the index as it was read is saved again, with the *)
(* checkpoint and the session in the new dialog's entry.                   *)
MakeCheckpoint ==
    /\ op.at = "checkpoint"
    /\ parts' = [parts EXCEPT ![op.id] = @ \cup {"repo"}]
    /\ index' = [op.read EXCEPT !.entries =
                    {[e EXCEPT !.made = @ \/ e.id = op.id] : e \in @}]
    /\ op' = NoOp
    /\ UNCHANGED <<running, resetting, up, ghosts>>

(* Either fails: the entry is removed from the index as it is now, and     *)
(* then the directory.                                                     *)
KeepCurrent ==
    /\ op.at \in {"session", "checkpoint"}
    /\ index' = [index EXCEPT !.entries = Without(index, op.id)]
    /\ op' = [op EXCEPT !.at = "drop"]
    /\ UNCHANGED <<parts, running, resetting, up, ghosts>>
HalfRollback ==
    /\ op.at \in {"session", "checkpoint"}
    /\ op' = [op EXCEPT !.at = "drop"]
    /\ UNCHANGED <<index, parts, running, resetting, up, ghosts>>
RollBack ==
    /\ op.at \in {"session", "checkpoint"}
    /\ index' = [current |-> IF index.current = op.id THEN None ELSE index.current,
                 entries |-> Without(index, op.id)]
    /\ op' = [op EXCEPT !.at = "drop"]
    /\ deleted' = deleted \cup {op.id}
    /\ UNCHANGED <<parts, running, resetting, up, used, strays, left, cut, faults>>

DropFiles ==
    /\ op.at = "drop"
    /\ Remove(op.id)
    /\ op' = NoOp
    /\ UNCHANGED <<index, running, resetting, up, used, deleted, strays, cut>>
-----------------------------------------------------------------------------
(* delete_dialog: the messages are cleared, which touches the entry if it  *)
(* succeeds, and the directory is removed, as far as it can be;            *)
DeleteFiles(d) ==
    /\ Idle
    /\ d \in used
    /\ index' \in {index, Upsert(index, d, "keep")}
    /\ Remove(d)
    /\ op' = [NoOp EXCEPT !.at = "unlist", !.id = d]
    /\ UNCHANGED <<running, resetting, up, used, deleted, strays, cut>>

(* then the entry, and if it was current any other one becomes current.    *)
FilesOnly ==
    /\ op.at = "unlist"
    /\ op' = NoOp
    /\ UNCHANGED <<index, parts, running, resetting, up, ghosts>>
Unlist ==
    /\ op.at = "unlist"
    /\ \E next \in {e.id : e \in Without(index, op.id)} \cup {None} :
        /\ next = None => Without(index, op.id) = {}
        /\ index' = [current |-> IF index.current = op.id THEN next ELSE index.current,
                     entries |-> Without(index, op.id)]
    /\ op' = NoOp
    /\ deleted' = deleted \cup {op.id}
    /\ UNCHANGED <<parts, running, resetting, up, used, strays, left, cut, faults>>

(* The save of the index fails where nothing rolls the operation back: the *)
(* first one of a creation, the one of its rollback, and a deletion's.     *)
SaveFails ==
    /\ op.at \in {"list", "session", "checkpoint", "unlist"}
    /\ op' = NoOp
    /\ cut' = cut \cup {op.id}
    /\ Fault
    /\ UNCHANGED <<index, parts, running, resetting, up, used, deleted, strays, left>>
-----------------------------------------------------------------------------
(* PATCH /api/dialogs/current: an id that is not listed is refused.        *)
SetCurrent(d) ==
    /\ Idle
    /\ Listed(index, d)
    /\ index' = [index EXCEPT !.current = d]
    /\ UNCHANGED <<parts, op, running, resetting, up, ghosts>>

(* PATCH /api/dialogs/{id}: any id gets an entry.                          *)
PatchTitle(d) ==
    /\ Idle
    /\ d \in used
    /\ index' = Upsert(index, d, "given")
    /\ Stray(d)
    /\ UNCHANGED <<parts, op, running, resetting, up, used, deleted, left, cut, faults>>

(* A chat request names a dialog, or goes to the current one; a stream     *)
(* makes a checkpoint, which makes the directory if it is not there.       *)
Chat(d) ==
    /\ Idle
    /\ d \in used \ running
    /\ Busy < MaxBusy
    /\ running' = running \cup {d}
    /\ parts' = [parts EXCEPT ![d] = @ \cup {"dir", "repo"}]
    /\ Stray(d)
    /\ UNCHANGED <<index, op, resetting, up, used, deleted, left, cut, faults>>

(* A message is added, and the entry touched; either may fail.             *)
AddMessage(d) ==
    /\ Idle
    /\ d \in running
    /\ parts' = [parts EXCEPT ![d] = @ \cup {"dir"}]
    /\ index' \in {index, Upsert(index, d, "keep")}
    /\ Stray(d)
    /\ UNCHANGED <<op, running, resetting, up, used, deleted, left, cut, faults>>

(* set_dialog_title, for whatever dialog the tools work for.               *)
SetTitle(d) ==
    /\ Idle
    /\ d \in running
    /\ index' = Upsert(index, d, "given")
    /\ Stray(d)
    /\ UNCHANGED <<parts, op, running, resetting, up, used, deleted, left, cut, faults>>

EndStream(d) ==
    /\ Idle
    /\ d \in running
    /\ running' = running \ {d}
    /\ UNCHANGED <<index, parts, op, resetting, up, ghosts>>

(* The checkpoint routes make the repository if it is not there.  Approval *)
(* updates the entry at once, or fails;                                    *)
Approve(d) ==
    /\ Idle
    /\ d \in used
    /\ parts' = [parts EXCEPT ![d] = @ \cup {"dir", "repo"}]
    /\ index' \in {index, Upsert(index, d, "keep")}
    /\ Stray(d)
    /\ UNCHANGED <<op, running, resetting, up, used, deleted, left, cut, faults>>

(* a reset and a restore hand over to worker threads,                      *)
BeginReset(d) ==
    /\ Idle
    /\ d \in used \ resetting
    /\ Busy < MaxBusy
    /\ parts' = [parts EXCEPT ![d] = @ \cup {"dir", "repo"}]
    /\ resetting' = resetting \cup {d}
    /\ Stray(d)
    /\ UNCHANGED <<index, op, running, up, used, deleted, left, cut, faults>>

(* which write to the repository at any time, whatever the event loop is   *)
(* doing meanwhile, and make it if it is not there;                        *)
WriteReset(d) ==
    /\ up
    /\ d \in resetting
    /\ parts' = [parts EXCEPT ![d] = @ \cup {"dir", "repo"}]
    /\ strays' = IF Listed(index, d) /\ ~(op.at = "unlist" /\ op.id = d)
                 THEN strays ELSE strays \cup {d}
    /\ UNCHANGED <<index, op, running, resetting, up, used, deleted, left, cut, faults>>

(* when one has ended, or has failed, a reset updates the entry; another   *)
(* may follow.                                                             *)
EndReset(d) ==
    /\ Idle
    /\ d \in resetting
    /\ resetting' \in {resetting, resetting \ {d}}
    /\ index' \in {index, Upsert(index, d, "keep")}
    /\ Stray(d)
    /\ UNCHANGED <<parts, op, running, up, used, deleted, left, cut, faults>>
-----------------------------------------------------------------------------
Crash ==
    /\ up /\ up' = FALSE
    /\ op' = NoOp
    /\ running' = {} /\ resetting' = {}
    /\ cut' = IF op.at = "none" THEN cut ELSE cut \cup {op.id}
    /\ Fault
    /\ UNCHANGED <<index, parts, used, deleted, strays, left>>

(* index.json is damaged while no server runs: it is read as empty.        *)
Damage ==
    /\ ~up
    /\ index' = Empty
    /\ cut' = cut \cup used
    /\ Fault
    /\ UNCHANGED <<parts, op, running, resetting, up, used, deleted, strays, left>>

Request(d) ==
    \/ DeleteFiles(d) \/ SetCurrent(d) \/ PatchTitle(d) \/ Chat(d) \/ AddMessage(d)
    \/ SetTitle(d) \/ EndStream(d) \/ Approve(d)
    \/ BeginReset(d) \/ WriteReset(d) \/ EndReset(d)

Next ==
    \/ Start \/ CreateDialog \/ ListDialog \/ MakeSession \/ MakeCheckpoint
    \/ RollBack \/ DropFiles \/ Unlist \/ SaveFails
    \/ \E d \in Ids : Request(d)
    \/ Crash \/ Damage

Spec == Init /\ [][Next]_vars
-----------------------------------------------------------------------------
(* The current dialog is one of the list: what a client without a dialog   *)
(* id talks to is there, whatever is deleted, rolled back or cut           *)
(* (get_current_dialog_id, delete_dialog, create_dialog's rollback).       *)
CurrentListed == index.current # None => Listed(index, index.current)

(* No dialog is listed twice (upsert_dialog_meta, create_dialog).          *)
EntriesUnique == \A e, f \in index.entries : e.id = f.id => e = f

Explained == deleted \cup strays \cup cut

(* Between operations every listed dialog has a directory, and every       *)
(* directory belongs to a listed dialog or could not be removed (rmtree    *)
(* ignores errors).  Excepted are dialogs that a crash, a failing save of  *)
(* the index or a damaged one left half way, and those that a request      *)
(* named, or a stream, reset or restore outlived, when they were gone.     *)
IndexMatchesDisk ==
    op.at = "none" =>
        \A d \in Ids \ (strays \cup cut) :
            /\ Listed(index, d) => "dir" \in parts[d]
            /\ "dir" \in parts[d] => Listed(index, d) \/ d \in left

(* A listed dialog that has not been deleted, and that no crash or failing *)
(* save cut, has its first session and checkpoint: creation is all or      *)
(* nothing.                                                                *)
ListedIsWhole ==
    op.at = "none" =>
        \A e \in index.entries :
            e.id \notin Explained => e.made /\ parts[e.id] = Parts

(* No update is lost: an entry goes only by the deletion of its dialog, its*)
(* rollback or a damaged file, and keeps its title and its checkpoint,     *)
(* although create_dialog saves the index it read before it made them.     *)
NoUpdateLost ==
    [][\A e \in index.entries :
         \/ e.id \in deleted' \cup cut'
         \/ \E f \in index'.entries :
              /\ f.id = e.id
              /\ e.made => f.made
              /\ e.title # "none" => f.title # "none"]_vars
=============================================================================
