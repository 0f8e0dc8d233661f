----------------------------- MODULE Dialogs_proofs -----------------------------
(***************************************************************************)
(* The index of the dialogs, and the history of each of them.              *)
(*                                                                         *)
(* DialogIndex, for every set of ids: the current dialog is listed,        *)
(* entries are unique, no update is lost, and the index agrees with the    *)
(* directories.  The inductive invariant says of the index, and of the     *)
(* copy that a creation holds, that each is sound and lists only ids given *)
(* out; that the copy is the index as it is; and, in DiskInv, how far the  *)
(* operation in progress has come with the files of its dialog.            *)
(*                                                                         *)
(* HistoryPaging, for every length of the journal, number of blocks and    *)
(* size of pages: everything its run checks.  The inductive invariant,     *)
(* PagingInv, says what each event the client holds stands for, and where  *)
(* the next page will end.  Three ideas carry the proof: the tables only   *)
(* grow, so what is true of a view stays true while a stream writes; a     *)
(* page is the counted messages of a range of ranks, which the next page   *)
(* continues downwards; and events inject into the rows of the tables.     *)
(***************************************************************************)
EXTENDS DialogIndex, HistoryPaging, FiniteSetTheorems, TLAPS

Sound(ix) ==
    /\ ix.current # None => Listed(ix, ix.current)
    /\ \A e, f \in ix.entries : e.id = f.id => e = f
    /\ \A e \in ix.entries : e.id \in used

Creating == op.at \in {"session", "checkpoint"}

IInv ==
    /\ TypeOK
    /\ Sound(index)
    /\ op.at = "list" => Sound(op.read) /\ index.entries \subseteq op.read.entries
    /\ Creating => op.read = index
    /\ op.at # "none" => op.id \in used /\ up
    /\ running \subseteq used /\ resetting \subseteq used
    /\ deleted \subseteq used

(* What upsert_dialog_meta returns.                                        *)
LEMMA UpsertType ==
    ASSUME NEW ix \in Indexes, NEW d \in Ids, NEW title \in {"keep", "given"}
    PROVE  Upsert(ix, d, title) \in Indexes
<1> DEFINE upd(e) == [e EXCEPT !.title = IF e.id = d /\ title # "keep" THEN title ELSE @]
<1> DEFINE new == [id |-> d, title |-> IF title = "keep" THEN "none" ELSE title, made |-> FALSE]
<1> DEFINE es == IF Listed(ix, d) THEN {upd(e) : e \in ix.entries} ELSE ix.entries \cup {new}
<1>1. \A e \in ix.entries : e \in Metas
  BY DEF Indexes
<1>2. \A e \in Metas : upd(e) \in Metas
  BY DEF Metas, Titles
<1>3. new \in Metas
  BY DEF Metas, Titles
<1>4. es \subseteq Metas
  BY <1>1, <1>2, <1>3
<1>5. Upsert(ix, d, title) = [ix EXCEPT !.entries = es]
  BY DEF Upsert
<1> HIDE DEF es
<1>6. QED
  BY <1>4, <1>5 DEF Indexes

(* An upsert of an id given out keeps an index sound.                      *)
LEMMA UpsertSound ==
    ASSUME NEW ix \in Indexes, Sound(ix), NEW d \in used, used \subseteq Ids,
           NEW title \in {"keep", "given"}
    PROVE  Sound(Upsert(ix, d, title))
<1> DEFINE u == Upsert(ix, d, title)
<1> DEFINE new == [id |-> d, title |-> IF title = "keep" THEN "none" ELSE title, made |-> FALSE]
<1> DEFINE upd(e) == [e EXCEPT !.title = IF e.id = d /\ title # "keep" THEN title ELSE @]
<1>1. u.current = ix.current
  BY DEF Upsert, Indexes
<1>2. CASE Listed(ix, d)
  <2>1. u.entries = {upd(e) : e \in ix.entries}
    BY <1>2 DEF Upsert, Indexes
  <2>2. \A e \in ix.entries : upd(e).id = e.id
    BY DEF Indexes, Metas
  <2> HIDE DEF u, upd
  <2>3. QED
    BY <1>1, <2>1, <2>2 DEF Sound, Listed, u
<1>3. CASE ~Listed(ix, d)
  <2>1. u.entries = ix.entries \cup {new} /\ new.id = d
    BY <1>3 DEF Upsert, Indexes
  <2> HIDE DEF u, new
  <2>2. QED
    BY <1>1, <1>3, <2>1 DEF Sound, Listed, u
<1>4. QED
  BY <1>2, <1>3

(* An upsert keeps every entry, with its checkpoint, and a title if it has *)
(* one.                                                                    *)
Kept(e, ix) ==
    \E f \in ix.entries :
        f.id = e.id /\ (e.made => f.made) /\ (e.title # "none" => f.title # "none")

LEMMA UpsertKeeps ==
    ASSUME NEW ix \in Indexes, NEW d \in Ids, NEW title \in {"keep", "given"},
           NEW e \in ix.entries
    PROVE  Kept(e, Upsert(ix, d, title))
<1> DEFINE f == [e EXCEPT !.title = IF e.id = d /\ title # "keep" THEN title ELSE @]
<1>1. e \in Metas
  BY DEF Indexes
<1>2. f.id = e.id /\ f.made = e.made /\ (e.title # "none" => f.title # "none")
  BY <1>1 DEF Metas, Titles
<1>3. CASE Listed(ix, d)
  <2>1. f \in Upsert(ix, d, title).entries
    BY <1>3 DEF Upsert, Indexes
  <2>2. QED
    BY <2>1, <1>2 DEF Kept
<1>4. CASE ~Listed(ix, d)
  BY <1>4 DEF Upsert, Kept, Indexes
<1>5. QED
  BY <1>3, <1>4

LEMMA InitIInv == Init => IInv
<1> SUFFICES ASSUME Init PROVE IInv
  OBVIOUS
<1>1. Empty \in Indexes
  BY DEF Empty, Indexes
<1>2. TypeOK
  <2>1. faults \in 0..MaxFaults
    BY BoundAssumption DEF Init
  <2>2. parts \in [Ids -> SUBSET Parts]
    BY DEF Init
  <2>3. QED
    BY <1>1, <2>1, <2>2 DEF Init, TypeOK, NoOp
<1>3. Sound(index)
  BY DEF Init, Sound, Empty
<1>4. QED
  BY <1>2, <1>3 DEF Init, IInv, NoOp, Creating

-----------------------------------------------------------------------------
(* Creation, from a state in which nothing else is in progress.            *)
LEMMA CreateKeeps ==
    ASSUME IInv, op.at = "none", NEW d \in Ids \ used, NEW title \in Titles,
           NEW setCurrent \in BOOLEAN, up' = TRUE, Create(d, title, setCurrent)
    PROVE  IInv'
<1> DEFINE new == [id |-> d, title |-> title, made |-> FALSE]
<1> DEFINE ix == [current |-> IF setCurrent THEN d ELSE index.current,
                  entries |-> index.entries \cup {new}]
<1>1. new \in Metas /\ new.id = d
  BY DEF Metas
<1>2. ix \in Indexes
  BY <1>1 DEF IInv, TypeOK, Indexes
<1>3. /\ op' = [at |-> "list", id |-> d, read |-> ix]
      /\ used' = used \cup {d}
      /\ index' = index /\ running' = running /\ resetting' = resetting
      /\ parts' = [parts EXCEPT ![d] = {"dir"}]
      /\ UNCHANGED <<deleted, strays, left, cut, faults>>
  BY DEF Create
<1>4. ix.entries = index.entries \cup {new} /\ ix.current \in {d, index.current}
  OBVIOUS
<1> HIDE DEF new, ix
<1>5. TypeOK'
  BY <1>2, <1>3 DEF IInv, TypeOK, Parts
<1>6. Sound(index)'
  BY <1>3 DEF IInv, Sound, Listed
<1>7. Sound(op.read)'
  BY <1>1, <1>3, <1>4 DEF IInv, Sound, Listed
<1>8. QED
  BY <1>3, <1>4, <1>5, <1>6, <1>7 DEF IInv, Creating

(* Steps that change the index by an upsert, or not at all, while nothing  *)
(* else is in progress.                                                    *)
LEMMA UpdateKeeps ==
    ASSUME IInv, TypeOK', op.at = "none",
           op'.at = "none" \/ (op'.at = "unlist" /\ op'.id \in used /\ up'),
           UNCHANGED <<used, deleted>>, running' \subseteq used, resetting' \subseteq used,
           \/ index' = index
           \/ \E d \in used, title \in {"keep", "given"} : index' = Upsert(index, d, title)
    PROVE  IInv'
<1>1. Sound(index')
  BY UpsertSound DEF IInv, TypeOK
<1>2. Sound(index)'
  BY <1>1 DEF Sound, Listed
<1>3. QED
  BY <1>2 DEF IInv, Creating

(* Removing an entry, with any other one, or none, current.                *)
LEMMA RemoveKeeps ==
    ASSUME IInv, TypeOK', op'.at \in {"none", "drop"},
           op'.at = "drop" => op'.id \in used /\ up',
           NEW d \in Ids, index'.entries = Without(index, d),
           \/ index'.current = None
           \/ index'.current = index.current /\ index.current # d
           \/ \E e \in Without(index, d) : index'.current = e.id,
           UNCHANGED <<used, running, resetting>>, deleted' \subseteq used
    PROVE  IInv'
<1>1. Sound(index)'
  BY DEF IInv, Sound, Listed, Without
<1>2. QED
  BY <1>1 DEF IInv, Creating

-----------------------------------------------------------------------------
(* What may stay of a directory that is removed.                           *)
LEMMA RemoveLeaves ==
    ASSUME TypeOK, NEW d \in Ids, Remove(d)
    PROVE  /\ parts' \in [Ids -> SUBSET Parts] /\ left' \subseteq Ids /\ faults' \in 0..MaxFaults
           /\ \A x \in Ids \ {d} : parts'[x] = parts[x] /\ (x \in left' <=> x \in left)
           /\ "dir" \in parts'[d] => d \in left'
<1>1. CASE /\ parts' = [parts EXCEPT ![d] = {}] /\ left' = left \ {d}
           /\ UNCHANGED faults
  BY <1>1 DEF TypeOK
<1>2. CASE /\ \E rest \in SUBSET parts[d] : parts' = [parts EXCEPT ![d] = rest \cup {"dir"}]
           /\ left' = left \cup {d}
           /\ Fault
  <2>1. PICK rest \in SUBSET parts[d] : parts' = [parts EXCEPT ![d] = rest \cup {"dir"}]
    BY <1>2
  <2>2. rest \cup {"dir"} \in SUBSET Parts
    BY DEF TypeOK, Parts
  <2>3. faults' \in 0..MaxFaults
    BY <1>2, BoundAssumption DEF Fault, TypeOK
  <2>4. QED
    BY <1>2, <2>1, <2>2, <2>3 DEF TypeOK
<1>3. QED
  BY <1>1, <1>2 DEF Remove

LEMMA RequestType ==
    ASSUME IInv, NEW d \in Ids, Request(d)
    PROVE  TypeOK'
<1>1. d \in used => Upsert(index, d, "keep") \in Indexes /\ Upsert(index, d, "given") \in Indexes
  BY UpsertType DEF IInv, TypeOK
<1>2. d \in running => d \in used
  BY DEF IInv
<1>3. d \in resetting => d \in used
  BY DEF IInv
<1>4. CASE DeleteFiles(d)
  BY <1>1, <1>4, RemoveLeaves DEF IInv, TypeOK, DeleteFiles, NoOp, Empty, Indexes
<1>5. CASE SetCurrent(d)
  BY <1>5 DEF IInv, TypeOK, SetCurrent, ghosts, Indexes
<1>6. CASE PatchTitle(d)
  BY <1>1, <1>6 DEF IInv, TypeOK, PatchTitle, Stray
<1>7. CASE Chat(d)
  BY <1>7 DEF IInv, TypeOK, Chat, Stray, Parts
<1>8. CASE AddMessage(d)
  BY <1>1, <1>2, <1>8 DEF IInv, TypeOK, AddMessage, Stray, Parts
<1>9. CASE SetTitle(d)
  BY <1>1, <1>2, <1>9 DEF IInv, TypeOK, SetTitle, Stray
<1>10. CASE EndStream(d)
  BY <1>10 DEF IInv, TypeOK, EndStream, ghosts
<1>11. CASE Approve(d)
  BY <1>1, <1>11 DEF IInv, TypeOK, Approve, Stray, Parts
<1>12. CASE BeginReset(d)
  BY <1>12 DEF IInv, TypeOK, BeginReset, Stray, Parts
<1>13. CASE EndReset(d)
  BY <1>1, <1>3, <1>13 DEF IInv, TypeOK, EndReset, Stray
<1>14. CASE WriteReset(d)
  BY <1>14 DEF IInv, TypeOK, WriteReset, Parts
<1>15. QED
  BY <1>4, <1>5, <1>6, <1>7, <1>8, <1>9, <1>10, <1>11, <1>12, <1>13, <1>14 DEF Request

LEMMA RequestKeeps ==
    ASSUME IInv, NEW d \in Ids, Request(d)
    PROVE  IInv'
<1> USE RequestType
<1>1. CASE DeleteFiles(d)
  <2>1. op'.at = "unlist" /\ op'.id = d
    BY <1>1 DEF DeleteFiles, NoOp
  <2>2. QED
    BY <1>1, <2>1, UpdateKeeps DEF DeleteFiles, Idle, ghosts, IInv
<1>2. CASE SetCurrent(d)
  <2>1. index'.current = d /\ index'.entries = index.entries
    BY <1>2 DEF SetCurrent, IInv, TypeOK, Indexes
  <2>2. Sound(index)'
    BY <1>2, <2>1 DEF SetCurrent, IInv, Sound, Listed, ghosts
  <2>3. QED
    BY <1>2, <2>2 DEF SetCurrent, Idle, IInv, Creating, ghosts
<1>3. CASE PatchTitle(d)
  BY <1>3, UpdateKeeps DEF PatchTitle, Idle, IInv
<1>4. CASE Chat(d)
  BY <1>4, UpdateKeeps DEF Chat, Idle, IInv
<1>5. CASE AddMessage(d)
  BY <1>5, UpdateKeeps DEF AddMessage, Idle, IInv
<1>6. CASE SetTitle(d)
  BY <1>6, UpdateKeeps DEF SetTitle, Idle, IInv
<1>7. CASE EndStream(d)
  BY <1>7, UpdateKeeps DEF EndStream, Idle, ghosts, IInv
<1>8. CASE Approve(d)
  BY <1>8, UpdateKeeps DEF Approve, Idle, IInv
<1>9. CASE BeginReset(d)
  BY <1>9, UpdateKeeps DEF BeginReset, Idle, IInv
<1>10. CASE EndReset(d)
  BY <1>10, UpdateKeeps DEF EndReset, Idle, IInv
<1>11. CASE WriteReset(d)
  BY <1>11 DEF WriteReset, IInv, Sound, Listed, Creating
<1>12. QED
  BY <1>1, <1>2, <1>3, <1>4, <1>5, <1>6, <1>7, <1>8, <1>9, <1>10, <1>11 DEF Request

(* The entry whose checkpoint has been made is still an entry.             *)
LEMMA DoneType ==
    ASSUME NEW e \in Metas, NEW d
    PROVE  [e EXCEPT !.made = @ \/ e.id = d] \in Metas
<1>1. e = [id |-> e.id, title |-> e.title, made |-> e.made]
  BY DEF Metas
<1>2. (e.made \/ e.id = d) \in BOOLEAN
  OBVIOUS
<1>3. [e EXCEPT !.made = @ \/ e.id = d] = [id |-> e.id, title |-> e.title, made |-> (e.made \/ e.id = d)]
  BY <1>1
<1>4. QED
  BY <1>2, <1>3 DEF Metas

LEMMA FaultType == ASSUME TypeOK, Fault PROVE faults' \in 0..MaxFaults
  BY BoundAssumption DEF TypeOK, Fault

LEMMA StepType ==
    ASSUME IInv, ListDialog \/ MakeSession \/ MakeCheckpoint \/ RollBack \/ DropFiles \/ Unlist
                 \/ SaveFails \/ Crash \/ Damage
    PROVE  TypeOK'
<1> USE DEF IInv, TypeOK, ghosts
<1>1. CASE ListDialog
  BY <1>1 DEF ListDialog
<1>2. CASE MakeSession
  BY <1>2 DEF MakeSession, Parts
<1>3. CASE MakeCheckpoint
  <2>1. op.read.entries \subseteq Metas /\ op.read.current \in Ids \cup {None}
    BY DEF Indexes
  <2> DEFINE done(e) == [e EXCEPT !.made = @ \/ e.id = op.id]
  <2>2. \A e \in Metas : done(e) \in Metas
    BY DoneType
  <2>3. index' \in Indexes
    <3>1. index' = [op.read EXCEPT !.entries = {done(e) : e \in @}]
      BY <1>3 DEF MakeCheckpoint
    <3>2. op.read = [current |-> op.read.current, entries |-> op.read.entries]
      BY DEF Indexes
    <3> HIDE DEF done
    <3>3. {done(e) : e \in op.read.entries} \subseteq Metas
      BY <2>1, <2>2
    <3>4. index' = [current |-> op.read.current, entries |-> {done(e) : e \in op.read.entries}]
      BY <3>1, <3>2
    <3>5. QED
      BY <2>1, <3>3, <3>4 DEF Indexes
  <2>4. parts' \in [Ids -> SUBSET Parts]
    BY <1>3 DEF MakeCheckpoint, Parts
  <2>5. QED
    BY <1>3, <2>3, <2>4 DEF MakeCheckpoint, NoOp, Empty, Indexes
<1>4. CASE RollBack
  BY <1>4 DEF RollBack, Indexes, Without
<1>5. CASE DropFiles
  BY <1>5, RemoveLeaves DEF DropFiles, NoOp, Empty, Indexes
<1>6. CASE Unlist
  <2>1. PICK next \in {e.id : e \in Without(index, op.id)} \cup {None} :
          index' = [current |-> IF index.current = op.id THEN next ELSE index.current,
                    entries |-> Without(index, op.id)]
    BY <1>6 DEF Unlist
  <2>2. Without(index, op.id) \subseteq Metas /\ index.current \in Ids \cup {None}
    BY DEF Without, Indexes
  <2>3. next \in Ids \cup {None}
    BY <2>2 DEF Metas
  <2>4. index' \in Indexes
    BY <2>1, <2>2, <2>3 DEF Indexes
  <2>5. QED
    BY <1>6, <2>4 DEF Unlist, NoOp, Empty, Indexes
<1>7. CASE Crash
  BY <1>7, FaultType DEF Crash, NoOp, Empty, Indexes
<1>8. CASE Damage
  BY <1>8, FaultType DEF Damage, Empty, Indexes
<1>9. CASE SaveFails
  BY <1>9, FaultType DEF SaveFails, NoOp, Empty, Indexes
<1>10. QED
  BY <1>1, <1>2, <1>3, <1>4, <1>5, <1>6, <1>7, <1>8, <1>9

(* The steps of creation and deletion, crashes and damage keep it.         *)
LEMMA StepKeeps ==
    ASSUME IInv, ListDialog \/ MakeSession \/ MakeCheckpoint \/ RollBack \/ DropFiles \/ Unlist
                 \/ SaveFails \/ Crash \/ Damage
    PROVE  IInv'
<1>1. TypeOK'
  BY StepType
<1>2. CASE ListDialog
  <2>1. Sound(index)'
    BY <1>2 DEF IInv, ListDialog, Sound, Listed, ghosts
  <2>2. QED
    BY <1>1, <1>2, <2>1 DEF IInv, ListDialog, Creating, ghosts
<1>3. CASE MakeSession
  BY <1>1, <1>3 DEF IInv, MakeSession, Sound, Listed, Creating, ghosts
<1>4. CASE MakeCheckpoint
  <2> DEFINE done(e) == [e EXCEPT !.made = @ \/ e.id = op.id]
  <2>1. index'.entries = {done(e) : e \in index.entries} /\ index'.current = index.current
    BY <1>4 DEF IInv, MakeCheckpoint, Creating, TypeOK, Indexes
  <2>2. \A e \in index.entries : done(e).id = e.id
    BY DEF IInv, TypeOK, Indexes, Metas
  <2> HIDE DEF done
  <2>3. used' = used
    BY <1>4 DEF MakeCheckpoint, ghosts
  <2>4. Sound(index)'
    BY <2>1, <2>2, <2>3 DEF IInv, Sound, Listed
  <2>5. QED
    BY <1>1, <1>4, <2>4 DEF IInv, MakeCheckpoint, Creating, NoOp, ghosts
<1>5. CASE RollBack
  <2>1. index'.entries = Without(index, op.id)
    BY <1>5 DEF RollBack
  <2>2. index'.current = IF index.current = op.id THEN None ELSE index.current
    BY <1>5 DEF RollBack
  <2>3. op'.at = "drop" /\ op'.id = op.id /\ op.id \in used /\ up'
    BY <1>5 DEF RollBack, IInv, TypeOK
  <2>4. op.id \in Ids /\ deleted' \subseteq used
    BY <1>5, <2>3 DEF RollBack, IInv, TypeOK
  <2>5. QED
    BY <1>1, <1>5, <2>1, <2>2, <2>3, <2>4, RemoveKeeps DEF RollBack
<1>6. CASE DropFiles
  BY <1>1, <1>6 DEF IInv, DropFiles, Sound, Listed, Creating, NoOp
<1>7. CASE Unlist
  <2>1. PICK next \in {e.id : e \in Without(index, op.id)} \cup {None} :
          index' = [current |-> IF index.current = op.id THEN next ELSE index.current,
                    entries |-> Without(index, op.id)]
    BY <1>7 DEF Unlist
  <2>2. op.id \in Ids /\ op.id \in used
    BY <1>7 DEF Unlist, IInv, TypeOK
  <2>3. deleted' \subseteq used /\ op'.at = "none"
    BY <1>7, <2>2 DEF Unlist, IInv, NoOp
  <2>4. QED
    BY <1>1, <1>7, <2>1, <2>2, <2>3, RemoveKeeps DEF Unlist
<1>8. CASE Crash
  BY <1>1, <1>8 DEF IInv, Crash, Sound, Listed, Creating, NoOp
<1>9. CASE Damage
  <2>1. op.at = "none"
    BY <1>9 DEF IInv, Damage
  <2>2. QED
    BY <1>1, <1>9, <2>1 DEF IInv, Damage, Sound, Listed, Creating, Empty
<1>10. CASE SaveFails
  BY <1>1, <1>10 DEF IInv, SaveFails, Sound, Listed, Creating, NoOp
<1>11. QED
  BY <1>2, <1>3, <1>4, <1>5, <1>6, <1>7, <1>8, <1>9, <1>10

LEMMA NextIInv == IInv /\ [Next]_vars => IInv'
<1> SUFFICES ASSUME IInv, [Next]_vars PROVE IInv'
  OBVIOUS
<1>1. CASE Start
  <2>1. op.at = "none" /\ up' = TRUE
    BY <1>1 DEF Start, IInv, TypeOK
  <2>2. CASE index.entries = {}
    BY <1>1, <2>1, <2>2, CreateKeeps DEF Start, Titles
  <2>3. CASE index.entries # {}
    <3>1. UNCHANGED <<index, parts, op, running, resetting, used, deleted, strays, left, cut, faults>>
      BY <1>1, <2>3 DEF Start, ghosts
    <3>2. up' = TRUE /\ op.at = "none"
      BY <2>1
    <3>3. TypeOK'
      BY <3>1, <3>2 DEF IInv, TypeOK
    <3>4. QED
      BY <3>1, <3>2, <3>3 DEF IInv, Sound, Listed, Creating
  <2>4. QED
    BY <2>2, <2>3
<1>2. CASE CreateDialog
  <2>1. op.at = "none" /\ up' = TRUE
    BY <1>2 DEF CreateDialog, Idle, IInv, TypeOK
  <2>2. QED
    BY <1>2, <2>1, CreateKeeps DEF CreateDialog
<1>3. CASE \E d \in Ids : Request(d)
  BY <1>3, RequestKeeps
<1>4. CASE ListDialog \/ MakeSession \/ MakeCheckpoint \/ RollBack \/ DropFiles \/ Unlist
           \/ SaveFails \/ Crash \/ Damage
  BY <1>4, StepKeeps
<1>5. CASE UNCHANGED vars
  BY <1>5 DEF vars, IInv, TypeOK, Sound, Listed, Creating
<1>6. QED
  BY <1>1, <1>2, <1>3, <1>4, <1>5 DEF Next

THEOREM Invariance == Spec => []IInv
  BY InitIInv, NextIInv, PTL DEF Spec

(* The current dialog is listed, whatever was deleted, rolled back or cut  *)
(* (get_current_dialog_id, delete_dialog, create_dialog).                  *)
THEOREM CurrentIsListed == Spec => []CurrentListed
<1>1. IInv => CurrentListed
  BY DEF IInv, Sound, CurrentListed
<1>2. QED
  BY <1>1, Invariance, PTL

(* No dialog is listed twice (upsert_dialog_meta, create_dialog).          *)
THEOREM NoDuplicates == Spec => []EntriesUnique
<1>1. IInv => EntriesUnique
  BY DEF IInv, Sound, EntriesUnique
<1>2. QED
  BY <1>1, Invariance, PTL

-----------------------------------------------------------------------------
(* What a step may do to an entry.                                         *)
EntryKept == \A e \in index.entries : e.id \in deleted' \cup cut' \/ Kept(e, index')

LEMMA RequestEntryKept ==
    ASSUME IInv, NEW d \in Ids, Request(d)
    PROVE  EntryKept
<1>1. index \in Indexes
  BY DEF IInv, TypeOK
<1>2. \/ index'.entries = index.entries
      \/ \E title \in {"keep", "given"} : index' = Upsert(index, d, title)
  BY <1>1 DEF Request, DeleteFiles, SetCurrent, PatchTitle, Chat, AddMessage, SetTitle, EndStream,
         Approve, BeginReset, WriteReset, EndReset, Indexes
<1>3. QED
  BY <1>1, <1>2, UpsertKeeps DEF EntryKept, Kept

LEMMA StepEntryKept == IInv /\ [Next]_vars => EntryKept
<1> SUFFICES ASSUME IInv, [Next]_vars PROVE EntryKept
  OBVIOUS
<1>1. CASE index' = index
  BY <1>1 DEF EntryKept, Kept
<1>2. CASE ListDialog
  BY <1>2 DEF ListDialog, IInv, EntryKept, Kept
<1>3. CASE MakeCheckpoint
  <2> DEFINE done(e) == [e EXCEPT !.made = @ \/ e.id = op.id]
  <2>1. index'.entries = {done(e) : e \in index.entries}
    BY <1>3 DEF IInv, MakeCheckpoint, Creating, TypeOK, Indexes
  <2>2. \A e \in index.entries :
          done(e).id = e.id /\ (e.made => done(e).made) /\ done(e).title = e.title
    BY DEF IInv, TypeOK, Indexes, Metas
  <2> HIDE DEF done
  <2>3. QED
    BY <2>1, <2>2 DEF EntryKept, Kept
<1>4. CASE RollBack
  <2>1. index'.entries = Without(index, op.id) /\ op.id \in deleted'
    BY <1>4 DEF RollBack
  <2>2. QED
    BY <2>1 DEF Without, EntryKept, Kept
<1>5. CASE Unlist
  <2>1. index'.entries = Without(index, op.id) /\ op.id \in deleted'
    BY <1>5 DEF Unlist
  <2>2. QED
    BY <2>1 DEF Without, EntryKept, Kept
<1>6. CASE \E d \in Ids : Request(d)
  BY <1>6, RequestEntryKept
<1>7. CASE Damage
  BY <1>7 DEF Damage, IInv, Sound, EntryKept
<1>8. QED
  BY <1>1, <1>2, <1>3, <1>4, <1>5, <1>6, <1>7
     DEF Next, vars, Start, Create, CreateDialog, MakeSession, DropFiles, SaveFails, Crash

(* No update is lost, although a creation saves the index it has read      *)
(* before it made the dialog's checkpoint (create_dialog).                 *)
THEOREM UpdatesKept == Spec => NoUpdateLost
<1>1. IInv /\ [Next]_vars =>
        [\A e \in index.entries :
           \/ e.id \in deleted' \cup cut'
           \/ \E f \in index'.entries :
                /\ f.id = e.id
                /\ e.made => f.made
                /\ e.title # "none" => f.title # "none"]_vars
  BY StepEntryKept DEF EntryKept, Kept
<1>2. QED
  BY <1>1, Invariance, PTL DEF Spec, NoUpdateLost

-----------------------------------------------------------------------------
(* The index and the directories.  What creation and deletion have done so *)
(* far, by where they are; every other dialog is as between operations.    *)
Match(d) ==
    /\ Listed(index, d) => "dir" \in parts[d]
    /\ "dir" \in parts[d] => Listed(index, d) \/ d \in left
Aside(d) == d \in strays \cup cut

OpOK ==
    /\ op.at = "list" =>
         /\ "dir" \in parts[op.id] /\ ~Listed(index, op.id)
         /\ \E new \in Metas : new.id = op.id /\ op.read.entries = index.entries \cup {new}
    /\ op.at \in {"session", "checkpoint"} => "dir" \in parts[op.id] /\ Listed(index, op.id)
    /\ op.at = "checkpoint" => "session" \in parts[op.id]
    /\ op.at = "drop" => ~Listed(index, op.id)
    /\ op.at = "unlist" /\ "dir" \in parts[op.id] => op.id \in left \cup strays

DiskInv ==
    /\ IInv /\ OpOK
    /\ \A d \in Ids \ used : parts[d] = {}
    /\ \A d \in Ids : ~Aside(d) /\ (op.at = "none" \/ d # op.id) => Match(d)
    /\ \A e \in index.entries :
         e.id \notin Explained /\ (op.at = "none" \/ e.id # op.id) => e.made /\ parts[e.id] = Parts

(* An upsert lists its dialog, and no other one is touched.                *)
LEMMA UpsertLists ==
    ASSUME NEW ix \in Indexes, NEW d \in Ids, NEW title \in {"keep", "given"}
    PROVE  LET u == Upsert(ix, d, title)
           IN  /\ \A x \in Ids : Listed(u, x) <=> Listed(ix, x) \/ x = d
               /\ \A e \in u.entries :
                    \/ e \in ix.entries
                    \/ /\ e.id = d
                       /\ Listed(ix, d) => \E f \in ix.entries : f.id = d /\ f.made = e.made
<1> DEFINE u == Upsert(ix, d, title)
<1> DEFINE new == [id |-> d, title |-> IF title = "keep" THEN "none" ELSE title, made |-> FALSE]
<1> DEFINE upd(e) == [e EXCEPT !.title = IF e.id = d /\ title # "keep" THEN title ELSE @]
<1>1. CASE Listed(ix, d)
  <2>1. u.entries = {upd(e) : e \in ix.entries}
    BY <1>1 DEF Upsert, Indexes
  <2>2. \A e \in ix.entries :
          upd(e).id = e.id /\ upd(e).made = e.made /\ (e.id # d => upd(e) = e)
    BY DEF Indexes, Metas
  <2> HIDE DEF u, upd
  <2>3. QED
    BY <1>1, <2>1, <2>2 DEF Listed, u
<1>2. CASE ~Listed(ix, d)
  <2>1. u.entries = ix.entries \cup {new} /\ new.id = d
    BY <1>2 DEF Upsert, Indexes
  <2> HIDE DEF u, new
  <2>2. QED
    BY <1>2, <2>1 DEF Listed, u
<1>3. QED
  BY <1>1, <1>2

LEMMA InitDisk == Init => DiskInv
  BY InitIInv DEF Init, DiskInv, OpOK, NoOp, Match, Listed, Empty

(* Requests other than a deletion: they add to what a dialog has, and mark *)
(* it when it was not listed.                                              *)
LEMMA AddingKeeps ==
    ASSUME DiskInv, IInv', NEW d \in Ids, d \in used, op.at = "none",
           op' = op, used' = used, deleted' = deleted, left' = left, cut' = cut,
           strays \subseteq strays',
           \/ index'.entries = index.entries
           \/ \E title \in {"keep", "given"} : index' = Upsert(index, d, title),
           \A x \in Ids \ {d} : parts'[x] = parts[x],
           parts[d] \subseteq parts'[d],
           Listed(index, d) \/ d \in strays'
             \/ (index'.entries = index.entries /\ parts' = parts)
    PROVE  DiskInv'
<1>1. index \in Indexes /\ index' \in Indexes /\ \A x \in Ids : parts'[x] \subseteq Parts
  BY DEF DiskInv, IInv, TypeOK
<1>2. /\ \A x \in Ids \ {d} : Listed(index', x) <=> Listed(index, x)
      /\ Listed(index, d) => Listed(index', d)
      /\ \A e \in index'.entries :
           \/ e \in index.entries
           \/ /\ e.id = d
              /\ Listed(index, d) => \E f \in index.entries : f.id = d /\ f.made = e.made
  BY <1>1, UpsertLists DEF Listed
<1>3. \A x \in Ids : ~Aside(x)' => Match(x)'
  <2> SUFFICES ASSUME NEW x \in Ids, ~Aside(x)' PROVE Match(x)'
    OBVIOUS
  <2>1. ~Aside(x) /\ Match(x)
    BY DEF DiskInv, Aside
  <2>2. CASE x # d
    BY <1>2, <2>1, <2>2 DEF Match, Listed
  <2>3. CASE x = d
    <3>1. CASE Listed(index, d)
      BY <1>2, <2>1, <2>3, <3>1 DEF Match, Listed
    <3>2. CASE index'.entries = index.entries /\ parts' = parts
      BY <2>1, <2>3, <3>2 DEF Match, Listed
    <3>3. QED
      BY <2>3, <3>1, <3>2 DEF Aside
  <2>4. QED
    BY <2>2, <2>3
<1>4. \A e \in index'.entries : e.id \notin Explained' => e.made /\ parts'[e.id] = Parts
  <2> SUFFICES ASSUME NEW e \in index'.entries, e.id \notin Explained'
               PROVE  e.made /\ parts'[e.id] = Parts
    OBVIOUS
  <2>1. e.id \notin Explained /\ e.id \in Ids
    BY <1>1 DEF Explained, Indexes, Metas
  <2>2. CASE e \in index.entries
    <3>1. e.made /\ parts[e.id] = Parts
      BY <2>1, <2>2 DEF DiskInv
    <3>2. QED
      BY <1>1, <2>1, <3>1
  <2>3. CASE e \notin index.entries
    <3>1. e.id = d /\ Listed(index, d)
      BY <1>2, <2>3 DEF Explained
    <3>2. PICK f \in index.entries : f.id = d /\ f.made = e.made
      BY <1>2, <2>3, <3>1
    <3>3. f.made /\ parts[d] = Parts
      BY <2>1, <3>1, <3>2 DEF DiskInv
    <3>4. QED
      BY <1>1, <3>1, <3>2, <3>3
  <2>4. QED
    BY <2>2, <2>3
<1>5. QED
  BY <1>3, <1>4 DEF DiskInv, OpOK

LEMMA RequestDisk ==
    ASSUME DiskInv, IInv', NEW d \in Ids, Request(d)
    PROVE  DiskInv'
<1>0. TypeOK /\ IInv
  BY DEF DiskInv, IInv
<1>1. ~WriteReset(d) => op.at = "none" /\ TypeOK /\ IInv
  BY <1>0 DEF Request, DeleteFiles, SetCurrent, PatchTitle, Chat, AddMessage, SetTitle, EndStream,
         Approve, BeginReset, EndReset, Idle
<1>2. CASE DeleteFiles(d)
  <2>1. /\ op'.at = "unlist" /\ op'.id = d /\ d \in used /\ op.at = "none"
        /\ used' = used /\ deleted' = deleted /\ cut' = cut /\ strays' = strays
        /\ index' \in {index, Upsert(index, d, "keep")}
    BY <1>2 DEF DeleteFiles, NoOp, Idle
  <2>2. /\ "dir" \in parts'[d] => d \in left'
        /\ \A x \in Ids \ {d} : parts'[x] = parts[x] /\ (x \in left' <=> x \in left)
    BY <1>0, <1>2, RemoveLeaves DEF DeleteFiles
  <2>3. /\ \A x \in Ids \ {d} : Listed(index', x) <=> Listed(index, x)
        /\ \A e \in index'.entries : e \in index.entries \/ e.id = d
    BY <1>0, <2>1, UpsertLists DEF TypeOK
  <2>4. \A e \in index'.entries : e.id \in Ids
    BY DEF IInv, TypeOK, Indexes, Metas
  <2>5. QED
    BY <1>0, <2>1, <2>2, <2>3, <2>4 DEF DiskInv, OpOK, Match, Aside, Listed, Explained
<1>3. CASE WriteReset(d)
  <2>1. /\ UNCHANGED <<index, op, used, deleted, left, cut>> /\ strays \subseteq strays'
        /\ (Listed(index, d) /\ ~(op.at = "unlist" /\ op.id = d)) \/ d \in strays'
    BY <1>3 DEF WriteReset
  <2>2. /\ parts[d] \subseteq parts'[d] /\ "dir" \in parts'[d] /\ parts'[d] \subseteq Parts
        /\ \A x \in Ids \ {d} : parts'[x] = parts[x]
    BY <1>0, <1>3 DEF WriteReset, TypeOK, Parts
  <2>3. d \in used
    BY <1>0, <1>3 DEF WriteReset, IInv
  <2>4. OpOK'
    BY <1>0, <2>1, <2>2 DEF DiskInv, OpOK, TypeOK, Listed
  <2>5. \A x \in Ids : ~Aside(x)' /\ (op.at = "none" \/ x # op.id) => Match(x)'
    BY <2>1, <2>2 DEF DiskInv, Aside, Match, Listed
  <2>6. \A e \in index.entries : e.id \in Ids
    BY <1>0 DEF TypeOK, Indexes, Metas
  <2>7. \A e \in index.entries : e.id \notin Explained' => e.id \notin Explained
    BY <2>1 DEF Explained
  <2>8. parts[d] = Parts => parts'[d] = Parts
    BY <2>2
  <2>9. \A e \in index.entries :
          e.id \notin Explained' /\ (op.at = "none" \/ e.id # op.id) => e.made /\ parts'[e.id] = Parts
    BY <2>2, <2>6, <2>7, <2>8 DEF DiskInv
  <2>10. \A x \in Ids \ used : parts'[x] = {}
    BY <2>2, <2>3 DEF DiskInv
  <2>11. QED
    BY <2>1, <2>4, <2>5, <2>9, <2>10 DEF DiskInv
<1>4. CASE ~DeleteFiles(d) /\ ~WriteReset(d)
  <2>1. d \in used
    BY <1>1, <1>4 DEF Request, SetCurrent, PatchTitle, Chat, AddMessage, SetTitle, EndStream,
       Approve, BeginReset, EndReset, IInv, Sound, Listed
  <2>2. /\ op' = op /\ used' = used /\ deleted' = deleted /\ left' = left /\ cut' = cut
        /\ strays \subseteq strays'
    BY <1>4 DEF Request, SetCurrent, PatchTitle, Chat, AddMessage, SetTitle, EndStream, Approve,
       BeginReset, EndReset, Stray, ghosts
  <2>3. \/ index'.entries = index.entries
        \/ \E title \in {"keep", "given"} : index' = Upsert(index, d, title)
    BY <1>1, <1>4 DEF Request, SetCurrent, PatchTitle, Chat, AddMessage, SetTitle, EndStream,
       Approve, BeginReset, EndReset, TypeOK, Indexes
  <2>4. parts[d] \subseteq parts'[d] /\ \A x \in Ids \ {d} : parts'[x] = parts[x]
    BY <1>1, <1>4 DEF Request, SetCurrent, PatchTitle, Chat, AddMessage, SetTitle, EndStream,
       Approve, BeginReset, EndReset, TypeOK
  <2>5. Listed(index, d) \/ d \in strays' \/ (index'.entries = index.entries /\ parts' = parts)
    BY <1>1, <1>4 DEF Request, SetCurrent, PatchTitle, Chat, AddMessage, SetTitle, EndStream,
       Approve, BeginReset, EndReset, Stray, TypeOK, Indexes
  <2>6. QED
    BY <1>1, <1>4, <2>1, <2>2, <2>3, <2>4, <2>5, AddingKeeps
<1>5. QED
  BY <1>2, <1>3, <1>4

LEMMA CreateDisk ==
    ASSUME DiskInv, IInv', op.at = "none", NEW d \in Ids \ used, NEW title \in Titles,
           NEW setCurrent \in BOOLEAN, Create(d, title, setCurrent)
    PROVE  DiskInv'
<1> DEFINE new == [id |-> d, title |-> title, made |-> FALSE]
<1>1. /\ op'.at = "list" /\ op'.id = d /\ op'.read.entries = index.entries \cup {new}
      /\ used' = used \cup {d} /\ index' = index
      /\ deleted' = deleted /\ strays' = strays /\ left' = left /\ cut' = cut
  BY DEF Create
<1>2. TypeOK /\ Sound(index)
  BY DEF DiskInv, IInv
<1>3. "dir" \in parts'[d] /\ \A x \in Ids \ {d} : parts'[x] = parts[x]
  BY <1>2 DEF Create, TypeOK
<1>4. new \in Metas /\ new.id = d
  BY DEF Metas
<1>5. ~Listed(index, d)
  BY <1>2 DEF Sound, Listed
<1> HIDE DEF new
<1>6. OpOK'
  BY <1>1, <1>3, <1>4, <1>5 DEF OpOK, Listed
<1>7. \A e \in index.entries : e.id \in Ids
  BY <1>2 DEF TypeOK, Indexes, Metas
<1>8. QED
  BY <1>1, <1>3, <1>5, <1>6, <1>7 DEF DiskInv, Match, Aside, Listed, Explained

LEMMA StepDisk ==
    ASSUME DiskInv, IInv',
           ListDialog \/ MakeSession \/ MakeCheckpoint \/ RollBack \/ DropFiles \/ Unlist
             \/ SaveFails \/ Crash \/ Damage
    PROVE  DiskInv'
<1>1. TypeOK /\ Sound(index) /\ IInv /\ OpOK
  BY DEF DiskInv, IInv
<1>2. \A e \in index.entries : e.id \in Ids
  BY <1>1 DEF TypeOK, Indexes, Metas
<1>3. op.at # "none" => op.id \in Ids
  BY <1>1 DEF TypeOK
<1>4. CASE ListDialog
  <2>1. /\ op.at = "list" /\ op'.at = "session" /\ op'.id = op.id
        /\ index' = op.read /\ parts' = parts
        /\ used' = used /\ deleted' = deleted /\ strays' = strays /\ left' = left /\ cut' = cut
    BY <1>1, <1>4 DEF ListDialog, TypeOK, ghosts
  <2>2. PICK new \in Metas : new.id = op.id /\ index'.entries = index.entries \cup {new}
    BY <1>1, <2>1 DEF OpOK
  <2>3. OpOK'
    BY <1>1, <2>1, <2>2 DEF OpOK, Listed
  <2>4. \A x \in Ids : x # op.id => (Listed(index', x) <=> Listed(index, x))
    BY <2>2 DEF Listed
  <2>5. QED
    BY <1>2, <2>1, <2>2, <2>3, <2>4 DEF DiskInv, Match, Aside, Listed, Explained
<1>5. CASE MakeSession
  <2>1. /\ op.at = "session" /\ op'.at = "checkpoint" /\ op'.id = op.id /\ index' = index
        /\ used' = used /\ deleted' = deleted /\ strays' = strays /\ left' = left /\ cut' = cut
    BY <1>1, <1>5 DEF MakeSession, TypeOK, ghosts
  <2>2. /\ parts'[op.id] = parts[op.id] \cup {"session"}
        /\ \A x \in Ids : x # op.id => parts'[x] = parts[x]
    BY <1>1, <1>3, <1>5, <2>1 DEF MakeSession, TypeOK
  <2>3. OpOK'
    BY <1>1, <2>1, <2>2 DEF OpOK, Listed
  <2>4. op.id \in used
    BY <1>1, <2>1 DEF IInv
  <2>5. QED
    BY <1>2, <2>1, <2>2, <2>3, <2>4 DEF DiskInv, Match, Aside, Listed, Explained
<1>6. CASE MakeCheckpoint
  <2> DEFINE done(e) == [e EXCEPT !.made = @ \/ e.id = op.id]
  <2>1. /\ op.at = "checkpoint" /\ op'.at = "none"
        /\ used' = used /\ deleted' = deleted /\ strays' = strays /\ left' = left /\ cut' = cut
    BY <1>6 DEF MakeCheckpoint, NoOp, ghosts
  <2>2. index'.entries = {done(e) : e \in index.entries}
    BY <1>1, <1>6 DEF IInv, MakeCheckpoint, Creating, TypeOK, Indexes
  <2>3. \A e \in index.entries :
          /\ done(e).id = e.id
          /\ done(e).made = (e.made \/ e.id = op.id)
    BY <1>1 DEF TypeOK, Indexes, Metas
  <2> HIDE DEF done
  <2>4. /\ parts'[op.id] = parts[op.id] \cup {"repo"}
        /\ \A x \in Ids : x # op.id => parts'[x] = parts[x]
    BY <1>1, <1>3, <1>6, <2>1 DEF MakeCheckpoint, TypeOK
  <2>5. parts'[op.id] = Parts /\ "dir" \in parts[op.id] /\ Listed(index, op.id)
    <3>1. parts[op.id] \subseteq Parts
      BY <1>1, <1>3, <2>1 DEF TypeOK
    <3>2. QED
      BY <1>1, <2>1, <2>4, <3>1 DEF OpOK, Parts
  <2>6. \A x \in Ids : Listed(index', x) <=> Listed(index, x)
    BY <2>2, <2>3 DEF Listed
  <2>7. op.id \in used
    BY <1>1, <2>1 DEF IInv
  <2>8. \A x \in Ids : ~Aside(x)' => Match(x)'
    BY <2>1, <2>4, <2>5, <2>6 DEF DiskInv, Match, Aside, Listed
  <2>9. \A e \in index'.entries : e.id \notin Explained' => e.made /\ parts'[e.id] = Parts
    <3> SUFFICES ASSUME NEW e \in index.entries, e.id \notin Explained
                 PROVE  done(e).made /\ parts'[done(e).id] = Parts
      BY <2>1, <2>2, <2>3 DEF Explained
    <3>1. CASE e.id = op.id
      BY <2>3, <2>5, <3>1
    <3>2. CASE e.id # op.id
      <4>1. e.made /\ parts[e.id] = Parts
        BY <3>2 DEF DiskInv
      <4>2. QED
        BY <1>2, <2>3, <2>4, <3>2, <4>1
    <3>3. QED
      BY <3>1, <3>2
  <2>10. QED
    BY <2>1, <2>4, <2>7, <2>8, <2>9 DEF DiskInv, OpOK
<1>7. CASE RollBack
  <2>1. /\ op.at \in {"session", "checkpoint"} /\ op'.at = "drop" /\ op'.id = op.id
        /\ index'.entries = Without(index, op.id) /\ parts' = parts
        /\ used' = used /\ deleted \subseteq deleted' /\ strays' = strays /\ left' = left /\ cut' = cut
    BY <1>1, <1>7 DEF RollBack, TypeOK
  <2>2. QED
    BY <1>2, <2>1 DEF DiskInv, OpOK, Match, Aside, Listed, Explained, Without
<1>8. CASE DropFiles
  <2>1. /\ op.at = "drop" /\ op'.at = "none" /\ index' = index
        /\ used' = used /\ deleted' = deleted /\ strays' = strays /\ cut' = cut
    BY <1>8 DEF DropFiles, NoOp
  <2>2. /\ "dir" \in parts'[op.id] => op.id \in left'
        /\ \A x \in Ids \ {op.id} : parts'[x] = parts[x] /\ (x \in left' <=> x \in left)
    BY <1>1, <1>3, <1>8, <2>1, RemoveLeaves DEF DropFiles
  <2>3. op.id \in used
    BY <1>1, <2>1 DEF IInv
  <2>4. QED
    BY <1>1, <1>2, <2>1, <2>2, <2>3 DEF DiskInv, OpOK, Match, Aside, Listed, Explained
<1>9. CASE Unlist
  <2>1. /\ op.at = "unlist" /\ op'.at = "none"
        /\ index'.entries = Without(index, op.id) /\ parts' = parts
        /\ used' = used /\ deleted \subseteq deleted' /\ strays' = strays /\ left' = left /\ cut' = cut
    BY <1>9 DEF Unlist, NoOp
  <2>2. QED
    BY <1>1, <1>2, <2>1 DEF DiskInv, OpOK, Match, Aside, Listed, Explained, Without
<1>10. CASE Crash \/ SaveFails
  <2>1. /\ op'.at = "none" /\ index' = index /\ parts' = parts
        /\ used' = used /\ deleted' = deleted /\ strays' = strays /\ left' = left
        /\ cut' = IF op.at = "none" THEN cut ELSE cut \cup {op.id}
    BY <1>10 DEF Crash, SaveFails, NoOp
  <2>2. QED
    BY <1>2, <2>1 DEF DiskInv, OpOK, Match, Aside, Listed, Explained
<1>11. CASE Damage
  <2>1. /\ op' = op /\ index'.entries = {} /\ parts' = parts
        /\ used' = used /\ left' = left /\ cut' = cut \cup used /\ op.at = "none"
    BY <1>1, <1>11 DEF Damage, Empty, IInv
  <2>2. QED
    BY <2>1 DEF DiskInv, OpOK, Match, Aside, Listed
<1>12. QED
  BY <1>4, <1>5, <1>6, <1>7, <1>8, <1>9, <1>10, <1>11

LEMMA NextDisk == DiskInv /\ [Next]_vars => DiskInv'
<1> SUFFICES ASSUME DiskInv, [Next]_vars PROVE DiskInv'
  OBVIOUS
<1>1. IInv /\ IInv'
  BY NextIInv DEF DiskInv
<1>2. CASE Start
  <2>1. op.at = "none"
    BY <1>1, <1>2 DEF Start, IInv
  <2>2. CASE index.entries = {}
    BY <1>1, <1>2, <2>1, <2>2, CreateDisk DEF Start, Titles
  <2>3. CASE index.entries # {}
    <3>1. UNCHANGED <<index, parts, op, used, deleted, strays, left, cut>>
      BY <1>2, <2>3 DEF Start, ghosts
    <3>2. QED
      BY <1>1, <3>1 DEF DiskInv, OpOK, Match, Aside, Listed, Explained
  <2>4. QED
    BY <2>2, <2>3
<1>3. CASE CreateDialog
  BY <1>1, <1>3, CreateDisk DEF CreateDialog, Idle
<1>4. CASE \E d \in Ids : Request(d)
  BY <1>1, <1>4, RequestDisk
<1>5. CASE ListDialog \/ MakeSession \/ MakeCheckpoint \/ RollBack \/ DropFiles \/ Unlist
           \/ SaveFails \/ Crash \/ Damage
  BY <1>1, <1>5, StepDisk
<1>6. CASE UNCHANGED vars
  BY <1>1, <1>6 DEF vars, DiskInv, OpOK, Match, Aside, Listed, Explained
<1>7. QED
  BY <1>2, <1>3, <1>4, <1>5, <1>6 DEF Next

THEOREM DiskInvariance == Spec => []DiskInv
  BY InitDisk, NextDisk, PTL DEF Spec

(* Between operations index and directories agree, but for directories that*)
(* could not be removed, dialogs that a crash or a failing save cut, and   *)
(* those written to when they were gone (create_dialog, delete_dialog,     *)
(* upsert_dialog_meta).                                                    *)
THEOREM DiskMatches == Spec => []IndexMatchesDisk
<1>1. DiskInv => IndexMatchesDisk
  BY DEF DiskInv, Match, Aside, IndexMatchesDisk
<1>2. QED
  BY <1>1, DiskInvariance, PTL

(* A listed dialog is whole, whatever failed while it was made, the saves  *)
(* of the index aside that nothing rolls back (create_dialog's rollback).  *)
THEOREM CreatedWhole == Spec => []ListedIsWhole
<1>1. DiskInv => ListedIsWhole
  BY DEF DiskInv, ListedIsWhole
<1>2. QED
  BY <1>1, DiskInvariance, PTL

(* Every variable keeps its type.                                          *)
THEOREM DialogTypes == Spec => []TypeOK
<1>1. IInv => TypeOK
  BY DEF IInv
<1>2. QED
  BY <1>1, Invariance, PTL
-----------------------------------------------------------------------------
(* HistoryPaging: the inductive invariant.                                 *)
(* Turns never go back along the journal, and the writer is at the last.   *)
JournalOrdered ==
    /\ \A q, r \in AllRows : q <= r => journal[q].turn <= journal[r].turn
    /\ \A r \in AllRows : journal[r].turn <= writer.turn
    /\ writer.at # "idle" => writer.turn >= 1
    /\ \A r \in AllRows : journal[r].calls = 1 => journal[r].type = "ai"

(* A block's row is between the rows of the turns before its own and those *)
(* after it; blocks are in the order of their turns.                       *)
LinksFit ==
    /\ \A k \in DOMAIN reasoning :
        reasoning[k].turn <= writer.turn /\ reasoning[k].row <= Len(journal) + 1
    /\ \A k \in DOMAIN reasoning : \A r \in AllRows :
        reasoning[k].row # Orphan =>
            IF r < reasoning[k].row THEN journal[r].turn <= reasoning[k].turn
                                    ELSE reasoning[k].turn <= journal[r].turn
    /\ \A k, l \in DOMAIN reasoning : k < l => reasoning[k].turn <= reasoning[l].turn

(* Each event the client holds stands for an entry of a table.             *)
Grounded(v) == \A e \in v.events :
    \/ /\ e.kind = "message" /\ e.row \in AllRows /\ HasEvent(e.row)
       /\ e.id = 0 /\ e.idx \in Nat /\ e.turn = journal[e.row].turn
    \/ /\ e.kind = "tool_call" /\ e.row \in AllRows /\ journal[e.row].calls = 1
       /\ e.id = 0 /\ e.idx = Null /\ e.turn = journal[e.row].turn
    \/ /\ e.kind = "reasoning" /\ e.row \in AllRows /\ e.id \in DOMAIN reasoning
       /\ reasoning[e.id].row = e.row
       /\ e.idx = Null /\ e.turn = reasoning[e.id].turn
    \/ /\ e.kind = "file_edit" /\ e.row \in AllRows /\ e.id \in DOMAIN edits
       /\ edits[e.id].row = e.row
       /\ e.idx = Null /\ e.turn = edits[e.id].turn
    \/ /\ e.kind = "orphan" /\ e.page = 1 /\ e.id \in DOMAIN reasoning
       /\ reasoning[e.id].row = Orphan
       /\ e.idx = Null /\ e.turn = reasoning[e.id].turn

(* The cursor: where the next page ends.                                   *)
CursorFits(v) ==
    /\ v.pages \in Nat
    /\ v.pages = 0 => v = NoView
    /\ v.newest \in 0..Len(journal)
    /\ v.pages > 0 => v.before \in Nat
    /\ v.stuck \in BOOLEAN /\ v.more \in BOOLEAN
    /\ v.stuck => v.before = 0
    /\ v.more /\ ~v.stuck => \E s \in v.starts : CountedBefore(s) = v.before
    /\ v.pages > 0 /\ ~v.more /\ ~v.stuck => v.before = 0
    /\ \A s \in v.starts : /\ s \in 1..v.newest /\ Counted(s)
                           /\ v.before <= CountedBefore(s)

(* Every row shown is of a page that has begun, and later pages are older. *)
Placed(v) ==
    /\ \A e \in v.events : e.page \in 1..v.pages
    /\ \A e \in v.events : e.kind # "orphan" =>
        e.row <= v.newest /\ \E s \in v.starts : s <= e.row
    /\ \A e, f \in v.events : e.kind = "orphan" /\ f.kind = "orphan" => e.row = f.row
    /\ \A e, f \in v.events :
        e.kind # "orphan" /\ f.kind # "orphan" /\ e.page > f.page => e.row < f.row

(* The page's messages have the positions they would have had all along.   *)
InPlace(v, e) == \E from \in v.starts :
    /\ from <= e.row /\ \A s \in v.starts : s <= e.row => s <= from
    /\ e.idx = CountedBefore(e.row) - Skipped(from, e.row)
Positioned(v) ==
    /\ \A e \in Messages(v.events) : v.before <= e.idx /\ InPlace(v, e)
    /\ \A e, f \in Messages(v.events) : e.row < f.row => e.idx < f.idx

(* Nothing at or behind the cursor is missing.                             *)
MessagesShown(v) == ~v.stuck =>
    \A r \in 1..v.newest : HasEvent(r) /\ v.before <= CountedBefore(r) =>
        \E e \in Messages(v.events) : e.row = r

CallsShown(v) == ~v.stuck =>
    \A r \in 1..v.newest : journal[r].calls = 1 /\ (\E s \in v.starts : s <= r) =>
        \/ \E e \in v.events : e.kind = "tool_call" /\ e.row = r
        \/ \E s \in v.starts : r < s /\ \A q \in r..(s - 1) : ~Counted(q)

ViewInv(v) ==
    /\ Grounded(v) /\ CursorFits(v) /\ Placed(v) /\ Positioned(v)
    /\ MessagesShown(v) /\ CallsShown(v)

TablesInv == JournalOrdered /\ LinksFit

(* EventsCounted is a conjunct since the total is that of the last page,   *)
(* when the tables may have grown again: it follows only at a page.        *)
PagingInv == PagingTypeOK /\ TablesInv /\ ViewInv(view) /\ EventsCounted


-----------------------------------------------------------------------------
(* Counting.                                                               *)
LEMMA LeastExists ==
    ASSUME NEW T \in SUBSET Nat, T # {}
    PROVE  \E x \in T : \A y \in T : x <= y
<1>1. \E x \in T : \A y \in T : ~ (<<y, x>> \in OpToRel(<, Nat))
  BY NatLessThanWellFounded, WFMin
<1>2. \A x, y \in T : ~ (<<y, x>> \in OpToRel(<, Nat)) => x <= y
  BY DEF OpToRel
<1>3. QED
  BY <1>1, <1>2

LEMMA GreatestExists ==
    ASSUME NEW n \in Nat, NEW T \in SUBSET (0..n), T # {}
    PROVE  \E x \in T : \A y \in T : y <= x
<1> DEFINE D == {n - x : x \in T}
<1>1. D \in SUBSET Nat /\ D # {}
  <2>1. \A x \in T : n - x \in Nat
    OBVIOUS
  <2>2. QED
    BY <2>1
<1> HIDE DEF D
<1>2. PICK d \in D : \A y \in D : d <= y
  BY <1>1, LeastExists
<1>3. PICK x \in T : d = n - x
  BY DEF D
<1>4. \A y \in T : n - y \in D
  BY DEF D
<1>5. QED
  BY <1>2, <1>3, <1>4

LEMMA InjectionBound ==
    ASSUME NEW S, NEW T, IsFiniteSet(T), NEW f \in [S -> T],
           \A a, b \in S : f[a] = f[b] => a = b
    PROVE  IsFiniteSet(S) /\ Cardinality(S) <= Cardinality(T)
<1>1. f \in Injection(S, T)
  BY DEF Injection, IsInjective
<1>2. QED
  BY <1>1, FS_Injection

LEMMA UnionBound ==
    ASSUME NEW S, NEW T, IsFiniteSet(S), IsFiniteSet(T),
           NEW m \in Nat, NEW n \in Nat, Cardinality(S) <= m, Cardinality(T) <= n
    PROVE  IsFiniteSet(S \cup T) /\ Cardinality(S \cup T) <= m + n
<1>1. IsFiniteSet(S \cap T)
  BY FS_Intersection
<1>2. /\ Cardinality(S) \in Nat /\ Cardinality(T) \in Nat
      /\ Cardinality(S \cap T) \in Nat
  BY <1>1, FS_CardinalityType
<1>3. QED
  BY <1>2, FS_Union

(* Sets of rows are finite.                                                *)
LEMMA RowSet ==
    ASSUME NEW n \in Nat, NEW S, S \subseteq 0..n
    PROVE  IsFiniteSet(S) /\ Cardinality(S) \in Nat
<1>1. IsFiniteSet(0..n)
  BY FS_Interval
<1>2. IsFiniteSet(S)
  BY <1>1, FS_Subset
<1>3. QED
  BY <1>2, FS_CardinalityType

LEMMA UpTo ==
    ASSUME NEW n \in Nat
    PROVE  IsFiniteSet(1..n) /\ Cardinality(1..n) = n
<1>1. n = 0 => Cardinality(1..n) = 0 /\ IsFiniteSet(1..n)
  BY FS_Interval
<1>2. n > 0 => Cardinality(1..n) = n - 1 + 1 /\ IsFiniteSet(1..n)
  BY FS_Interval
<1>3. QED
  BY <1>1, <1>2

LEMMA CountNat ==
    ASSUME NEW r \in Nat
    PROVE  CountedBefore(r) \in Nat
<1> DEFINE C == {q \in 1..(r - 1) : Counted(q)}
<1>1. C \subseteq 0..r
  OBVIOUS
<1>2. Cardinality(C) \in Nat
  <2> HIDE DEF C
  <2>1. QED
    BY <1>1, RowSet
<1>3. QED
  BY <1>2 DEF CountedBefore

(* The counted rows before r are those before from and those in between.   *)
LEMMA CountSplit ==
    ASSUME NEW from \in Nat, NEW r \in Nat, 1 <= from, from <= r
    PROVE  CountedBefore(r) = CountedBefore(from)
             + Cardinality({q \in from..(r - 1) : Counted(q)})
<1> DEFINE A == {q \in 1..(from - 1) : Counted(q)}
<1> DEFINE B == {q \in from..(r - 1) : Counted(q)}
<1> DEFINE C == {q \in 1..(r - 1) : Counted(q)}
<1>1. C = A \cup B /\ A \cap B = {}
  OBVIOUS
<1>2. A \subseteq 0..r /\ B \subseteq 0..r
  OBVIOUS
<1>3. IsFiniteSet(A) /\ IsFiniteSet(B) /\ Cardinality(A) \in Nat /\ Cardinality(B) \in Nat
  <2> HIDE DEF A, B
  <2>1. QED
    BY <1>2, RowSet
<1>4. Cardinality(A \cup B) = Cardinality(A) + Cardinality(B)
  <2> HIDE DEF A, B
  <2>1. Cardinality(A \cup B) = Cardinality(A) + Cardinality(B) - Cardinality(A \cap B)
    BY <1>3, FS_Union
  <2>2. Cardinality(A \cap B) = 0
    BY <1>1, FS_EmptySet
  <2>3. QED
    BY <1>3, <2>1, <2>2
<1>5. QED
  BY <1>1, <1>4 DEF CountedBefore

LEMMA CountMonotone ==
    ASSUME NEW q \in Nat, NEW r \in Nat, 1 <= q, q <= r
    PROVE  /\ CountedBefore(q) \in Nat /\ CountedBefore(r) \in Nat
           /\ CountedBefore(q) <= CountedBefore(r)
           /\ q < r /\ Counted(q) => CountedBefore(q) < CountedBefore(r)
<1> DEFINE B == {p \in q..(r - 1) : Counted(p)}
<1>1. CountedBefore(r) = CountedBefore(q) + Cardinality(B)
  BY CountSplit
<1>2. IsFiniteSet(B) /\ Cardinality(B) \in Nat
  <2>1. B \subseteq 0..r
    OBVIOUS
  <2> HIDE DEF B
  <2>2. QED
    BY <2>1, RowSet
<1>3. q < r /\ Counted(q) => B # {}
  OBVIOUS
<1>4. B # {} => Cardinality(B) # 0
  <2> HIDE DEF B
  <2>1. QED
    BY <1>2, FS_EmptySet
<1>5. CountedBefore(q) \in Nat /\ CountedBefore(r) \in Nat
  BY CountNat
<1> HIDE DEF B
<1>6. QED
  BY <1>1, <1>2, <1>3, <1>4, <1>5

(* Positions of rows are below the number of messages.                     *)
LEMMA CountTotal ==
    ASSUME journal \in Seq(Rows)
    PROVE  /\ Total \in Nat
           /\ IsFiniteSet(CountedRows)
           /\ \A r \in CountedRows : CountedBefore(r) < Total
<1>1. Len(journal) \in Nat /\ CountedRows = {q \in 1..(Len(journal) + 1 - 1) : Counted(q)}
  BY DEF CountedRows, AllRows
<1>2. Total = CountedBefore(Len(journal) + 1)
  BY <1>1 DEF Total, CountedBefore
<1>3. IsFiniteSet(CountedRows) /\ Total \in Nat
  <2>1. CountedRows \subseteq 0..Len(journal)
    BY DEF CountedRows, AllRows
  <2>2. QED
    BY <2>1, <1>1, RowSet DEF Total
<1>4. ASSUME NEW r \in CountedRows PROVE CountedBefore(r) < Total
  <2>1. r \in Nat /\ 1 <= r /\ r < Len(journal) + 1 /\ Counted(r)
    BY <1>1 DEF CountedRows, AllRows
  <2>2. QED
    BY <2>1, <1>1, <1>2, CountMonotone
<1>5. QED
  BY <1>3, <1>4

(* A row of a position beyond start has a counted row before it whose      *)
(* position is not below start: positions leave none out.                  *)
LEMMA CountContinuous ==
    ASSUME NEW r \in Nat, 1 <= r, NEW start \in Nat, start < CountedBefore(r)
    PROVE  \E q \in 1..(r - 1) : Counted(q) /\ start <= CountedBefore(q)
<1> DEFINE C == {q \in 1..(r - 1) : Counted(q)}
<1>1. C \in SUBSET (0..r) /\ C # {}
  <2>1. C \in SUBSET (0..r)
    OBVIOUS
  <2>2. CountedBefore(r) = Cardinality(C)
    BY DEF CountedBefore
  <2>3. C = {} => Cardinality(C) = 0
    <3> HIDE DEF C
    <3>1. QED
      BY FS_EmptySet
  <2>4. QED
    BY <2>1, <2>2, <2>3, CountNat
<1>2. PICK m \in C : \A y \in C : y <= m
  <2> HIDE DEF C
  <2>1. QED
    BY <1>1, GreatestExists
<1>3. m \in Nat /\ 1 <= m /\ m <= r /\ Counted(m) /\ m \in 1..(r - 1)
  BY <1>2
<1>4. {q \in m..(r - 1) : Counted(q)} = {m}
  <2>1. \A q \in m..(r - 1) : Counted(q) => q \in C
    BY <1>3
  <2>2. QED
    BY <2>1, <1>2, <1>3
<1>5. CountedBefore(r) = CountedBefore(m) + 1
  <2>1. CountedBefore(r) = CountedBefore(m) + Cardinality({m})
    BY <1>3, <1>4, CountSplit
  <2>2. QED
    BY <2>1, FS_Singleton
<1>6. CountedBefore(m) \in Nat /\ CountedBefore(r) \in Nat
  BY <1>3, CountNat
<1>7. QED
  BY <1>3, <1>5, <1>6


-----------------------------------------------------------------------------
(* What a page holds.                                                      *)
LEMMA JournalRow ==
    ASSUME journal \in Seq(Rows)
    PROVE  /\ Len(journal) \in Nat /\ AllRows = 1..Len(journal)
           /\ \A r \in AllRows : journal[r] \in Rows
           /\ \A r \in AllRows : r \in Nat /\ 1 <= r /\ r <= Len(journal)
           /\ \A r \in AllRows : HasEvent(r) => Counted(r) /\ journal[r].type # "tool"
           /\ \A r \in AllRows : Counted(r) => journal[r].type # "tool"
BY DEF AllRows, HasEvent, Counted

(* A counted row is on the page if its position is in the page's range.    *)
LEMMA SliceRows ==
    ASSUME journal \in Seq(Rows), NEW start \in Nat, NEW end \in Nat \cup {Null}
    PROVE  /\ Slice(start, end) \subseteq AllRows
           /\ \A r \in Slice(start, end) :
                /\ journal[r].type # "tool" /\ start <= CountedBefore(r)
                /\ end # Null => CountedBefore(r) < end
           /\ \A r \in AllRows : Counted(r) =>
                (r \in Slice(start, end) <=>
                    /\ start <= CountedBefore(r)
                    /\ end # Null => CountedBefore(r) < end)
<1>1. Slice(start, end) \subseteq AllRows
  BY DEF Slice
<1>2. \A q \in Picked(start, end) :
        /\ q \in AllRows /\ Counted(q) /\ start <= CountedBefore(q)
        /\ end # Null => CountedBefore(q) < end
  BY DEF Picked, CountedRows
<1>3. \A q \in AllRows : q \in Nat /\ 1 <= q
  BY JournalRow
<1>4. ASSUME NEW r \in Slice(start, end)
      PROVE  /\ journal[r].type # "tool" /\ start <= CountedBefore(r)
             /\ end # Null => CountedBefore(r) < end
  <2>1. journal[r].type # "tool"
    BY DEF Slice
  <2>2. PICK q \in Picked(start, end) : q <= r
    BY DEF Slice
  <2>3. CountedBefore(q) <= CountedBefore(r) /\ CountedBefore(q) \in Nat /\ CountedBefore(r) \in Nat
    BY <1>1, <1>2, <1>3, <2>2, CountMonotone
  <2>4. ASSUME end # Null PROVE CountedBefore(r) < end
    <3>1. PICK p \in Picked(start, end) : r <= p
      BY <2>4 DEF Slice
    <3>2. CountedBefore(r) <= CountedBefore(p) /\ CountedBefore(p) \in Nat
      BY <1>1, <1>2, <1>3, <3>1, CountMonotone
    <3>3. CountedBefore(p) < end /\ end \in Nat
      BY <1>2, <2>4
    <3>4. QED
      BY <2>3, <3>2, <3>3
  <2>5. start <= CountedBefore(r)
    BY <1>2, <2>2, <2>3
  <2>6. QED
    BY <2>1, <2>4, <2>5
<1>5. ASSUME NEW r \in AllRows, Counted(r), start <= CountedBefore(r),
             end # Null => CountedBefore(r) < end
      PROVE  r \in Slice(start, end)
  <2>1. r \in Picked(start, end)
    BY <1>5 DEF Picked, CountedRows
  <2>2. r <= r /\ journal[r].type # "tool"
    BY <1>3, <1>5, JournalRow
  <2>3. QED
    BY <2>1, <2>2 DEF Slice
<1>6. QED
  BY <1>1, <1>4, <1>5

(* A page has all visible rows from its first one to any of its others.    *)
LEMMA SliceConvex ==
    ASSUME journal \in Seq(Rows), NEW start \in Nat, NEW end \in Nat \cup {Null},
           NEW a \in Slice(start, end), NEW b \in Slice(start, end),
           NEW q \in AllRows, a <= q, q <= b, journal[q].type # "tool"
    PROVE  q \in Slice(start, end)
<1>1. /\ Slice(start, end) \subseteq AllRows /\ Picked(start, end) \subseteq AllRows
  BY DEF Slice, Picked, CountedRows
<1>2. \A p \in AllRows : p \in Nat
  BY JournalRow
<1>3. PICK p \in Picked(start, end) : p <= a
  BY DEF Slice
<1>4. end = Null \/ \E x \in Picked(start, end) : b <= x
  BY DEF Slice
<1>5. p <= q /\ (end = Null \/ \E x \in Picked(start, end) : q <= x)
  BY <1>1, <1>2, <1>3, <1>4
<1>6. QED
  BY <1>5 DEF Slice

(* The first row of a page is a message, and the page's start its position.*)
LEMMA FirstRow ==
    ASSUME journal \in Seq(Rows), NEW start \in Nat, NEW end \in Nat \cup {Null},
           Slice(start, end) # {}
    PROVE  /\ First(Slice(start, end)) \in Slice(start, end)
           /\ First(Slice(start, end)) \in AllRows
           /\ \A r \in Slice(start, end) : First(Slice(start, end)) <= r
           /\ Counted(First(Slice(start, end)))
           /\ CountedBefore(First(Slice(start, end))) = start
<1> DEFINE S == Slice(start, end)
<1> DEFINE P == Picked(start, end)
<1>1. S \subseteq AllRows /\ P \subseteq AllRows /\ \A p \in P : Counted(p)
  BY DEF Slice, Picked, CountedRows
<1>2. \A p \in AllRows : p \in Nat /\ 1 <= p
  BY JournalRow
<1>3. P # {}
  BY DEF Slice
<1>4. PICK h \in P : \A p \in P : h <= p
  <2>1. P \in SUBSET Nat
    BY <1>1, <1>2
  <2> HIDE DEF P
  <2>2. QED
    BY <1>3, <2>1, LeastExists
<1>5. h \in S /\ \A r \in S : h <= r
  <2>1. h \in S
    <3>1. h <= h /\ journal[h].type # "tool"
      BY <1>1, <1>2, JournalRow
    <3>2. QED
      BY <1>1, <3>1 DEF Slice
  <2>2. ASSUME NEW r \in S PROVE h <= r
    <3>1. PICK p \in P : p <= r
      BY DEF Slice
    <3>2. QED
      BY <3>1, <1>1, <1>2, <1>4
  <2>3. QED
    BY <2>1, <2>2
<1>6. First(S) = h
  <2>1. \A r \in S : (\A q \in S : r <= q) => r = h
    BY <1>1, <1>2, <1>5
  <2>2. QED
    BY <1>5, <2>1 DEF First
<1>7. CountedBefore(h) = start
  <2>1. /\ start <= CountedBefore(h)
        /\ end # Null => CountedBefore(h) < end
        /\ h \in Nat /\ 1 <= h /\ h \in AllRows
    BY <1>1, <1>2, <1>4 DEF Picked
  <2>2. SUFFICES ASSUME start < CountedBefore(h) PROVE FALSE
    BY <2>1, CountNat
  <2>3. PICK q \in 1..(h - 1) : Counted(q) /\ start <= CountedBefore(q)
    BY <2>1, <2>2, CountContinuous
  <2>4. q \in AllRows /\ q \in Nat /\ 1 <= q /\ q < h
    BY <2>1, <2>3, JournalRow
  <2>5. CountedBefore(q) < CountedBefore(h) /\ CountedBefore(q) \in Nat /\ CountedBefore(h) \in Nat
    BY <2>1, <2>3, <2>4, CountMonotone
  <2>6. q \in P
    BY <2>1, <2>3, <2>4, <2>5 DEF Picked, CountedRows
  <2>7. QED
    BY <1>4, <2>1, <2>4, <2>6
<1>8. QED
  BY <1>1, <1>4, <1>5, <1>6, <1>7

(* The range of positions a page has.                                      *)
LEMMA StartType ==
    ASSUME journal \in Seq(Rows), NEW limit \in 1..MaxLimit, NEW before \in Nat \cup {Null}
    PROVE  /\ StartOf(limit, before) \in Nat
           /\ before # Null => StartOf(limit, before) <= before
BY PagingAssumption, CountTotal DEF StartOf


LEMMA IdxType ==
    ASSUME journal \in Seq(Rows), NEW rows \in SUBSET AllRows,
           NEW start \in Nat, NEW r \in Nat
    PROVE  IdxOf(rows, r, start) \in Nat /\ start <= IdxOf(rows, r, start)
<1> DEFINE S == {q \in rows : q < r /\ HasEvent(q)}
<1>1. S \subseteq 0..Len(journal) /\ Len(journal) \in Nat
  BY JournalRow
<1>2. Cardinality(S) \in Nat
  <2> HIDE DEF S
  <2>1. QED
    BY <1>1, RowSet
<1>3. QED
  BY <1>2 DEF IdxOf

(* The five kinds of events of a page.                                     *)
OnPage(e, page, rows, start) ==
    /\ e.page = page
    /\ \/ /\ e.kind = "message" /\ e.row \in rows /\ HasEvent(e.row) /\ e.id = 0
          /\ e.idx = IdxOf(rows, e.row, start) /\ e.turn = journal[e.row].turn
       \/ /\ e.kind = "tool_call" /\ e.row \in rows /\ journal[e.row].calls = 1
          /\ e.id = 0 /\ e.idx = Null /\ e.turn = journal[e.row].turn
       \/ /\ e.kind = "reasoning" /\ e.row \in rows /\ e.id \in DOMAIN reasoning
          /\ reasoning[e.id].row = e.row
          /\ e.idx = Null /\ e.turn = reasoning[e.id].turn
       \/ /\ e.kind = "file_edit" /\ e.row \in rows /\ e.id \in DOMAIN edits
          /\ edits[e.id].row = e.row
          /\ e.idx = Null /\ e.turn = edits[e.id].turn
       \/ /\ e.kind = "orphan" /\ e.row = AfterAll(rows) /\ e.id \in DOMAIN reasoning
          /\ reasoning[e.id].row = Orphan
          /\ e.idx = Null /\ e.turn = reasoning[e.id].turn

LEMMA StreamShape ==
    ASSUME NEW page, NEW rows, NEW start, NEW before
    PROVE  /\ \A e \in Stream(page, rows, start, before) :
                /\ OnPage(e, page, rows, start)
                /\ e.kind = "orphan" => before = Null
           /\ \A r \in rows : HasEvent(r) =>
                Event(page, r, "message", 0, IdxOf(rows, r, start), journal[r].turn)
                    \in Stream(page, rows, start, before)
           /\ \A r \in rows : journal[r].calls = 1 =>
                Event(page, r, "tool_call", 0, Null, journal[r].turn)
                    \in Stream(page, rows, start, before)
<1> DEFINE S == Stream(page, rows, start, before)
<1>1. ASSUME NEW e \in S
      PROVE  OnPage(e, page, rows, start) /\ (e.kind = "orphan" => before = Null)
  <2>1. CASE e \in Linked(page, reasoning, "reasoning", rows)
    BY <2>1 DEF Linked, Event, OnPage
  <2>2. CASE e \in MessageEvents(page, rows, start)
    BY <2>2 DEF MessageEvents, Event, OnPage
  <2>3. CASE e \in ToolCalls(page, rows)
    BY <2>3 DEF ToolCalls, Event, OnPage
  <2>4. CASE e \in Linked(page, edits, "file_edit", rows)
    BY <2>4 DEF Linked, Event, OnPage
  <2>5. CASE before = Null /\ e \in Orphans(page, rows)
    BY <2>5 DEF Orphans, Event, OnPage
  <2>6. QED
    BY <2>1, <2>2, <2>3, <2>4, <2>5 DEF Stream
<1>2. MessageEvents(page, rows, start) \subseteq S /\ ToolCalls(page, rows) \subseteq S
  BY DEF Stream
<1>3. QED
  BY <1>1, <1>2 DEF MessageEvents, ToolCalls

(* The positions of a page.                                                *)
LEMMA PagePositions ==
    ASSUME journal \in Seq(Rows), NEW page, NEW start, start \in Nat,
           NEW rows, rows \in SUBSET AllRows, NEW before,
           NEW e \in Stream(page, rows, start, before)
    PROVE  /\ e.page = page
           /\ e.idx # Null <=> e.kind = "message"
           /\ e.kind = "message" =>
                /\ e.row \in rows /\ e.row \in AllRows /\ HasEvent(e.row)
                /\ e.idx = IdxOf(rows, e.row, start) /\ e.idx \in Nat /\ start <= e.idx
<1>1. OnPage(e, page, rows, start)
  BY StreamShape
<1>2. ASSUME NEW r \in rows
      PROVE  r \in AllRows /\ IdxOf(rows, r, start) \in Nat /\ start <= IdxOf(rows, r, start)
  BY JournalRow, IdxType
<1>3. QED
  BY <1>1, <1>2, NullAssumption DEF OnPage

LEMMA PageMessage ==
    ASSUME journal \in Seq(Rows), NEW page, NEW start, start \in Nat,
           NEW rows, rows \in SUBSET AllRows, NEW before,
           NEW e \in Messages(Stream(page, rows, start, before))
    PROVE  /\ e \in Stream(page, rows, start, before)
           /\ e.page = page /\ e.kind = "message"
           /\ e.row \in rows /\ e.row \in AllRows /\ HasEvent(e.row)
           /\ e.idx = IdxOf(rows, e.row, start) /\ e.idx \in Nat /\ start <= e.idx
<1>1. e \in Stream(page, rows, start, before) /\ e.idx # Null
  BY DEF Messages
<1>2. QED
  BY <1>1, PagePositions

LEMMA PageHasMessage ==
    ASSUME journal \in Seq(Rows), NEW page, NEW start, start \in Nat,
           NEW rows, rows \in SUBSET AllRows, NEW before,
           NEW r \in rows, HasEvent(r)
    PROVE  Event(page, r, "message", 0, IdxOf(rows, r, start), journal[r].turn)
             \in Messages(Stream(page, rows, start, before))
<1> DEFINE m == Event(page, r, "message", 0, IdxOf(rows, r, start), journal[r].turn)
<1>1. m \in Stream(page, rows, start, before)
  BY StreamShape
<1>2. IdxOf(rows, r, start) \in Nat
  BY JournalRow, IdxType
<1>3. m.idx # Null
  BY <1>2, NullAssumption DEF Event
<1>4. QED
  BY <1>1, <1>3 DEF Messages

(* first_idx is the start of the page if a message has a position.         *)
LEMMA FirstIdxIs ==
    ASSUME journal \in Seq(Rows), NEW page, page \in Nat, NEW start, start \in Nat,
           NEW rows, rows \in SUBSET AllRows, NEW before,
           Messages(Stream(page, rows, start, before)) # {}
    PROVE  FirstIdx(Stream(page, rows, start, before)) = start
<1>1. ASSUME NEW e \in Messages(Stream(page, rows, start, before))
      PROVE  /\ e \in Stream(page, rows, start, before)
            /\ e.page = page /\ e.kind = "message"
            /\ e.row \in rows /\ e.idx = IdxOf(rows, e.row, start)
  BY PageMessage
<1>2. ASSUME NEW r \in rows, HasEvent(r)
       PROVE  \E e \in Messages(Stream(page, rows, start, before)) : e.row = r
  <2> DEFINE m == Event(page, r, "message", 0, IdxOf(rows, r, start), journal[r].turn)
  <2>1. m \in Messages(Stream(page, rows, start, before))
    BY <1>2, PageHasMessage
  <2>2. m.row = r
    BY DEF Event
  <2>3. QED
    BY <2>1, <2>2
<1> DEFINE S == Stream(page, rows, start, before)
<1> DEFINE M == Messages(S)
<1>3. M # {}
  OBVIOUS
<1>4. \A e \in M : /\ e \in S /\ e.page = page /\ e.kind = "message" /\ e.row \in rows
                   /\ e.row \in Nat /\ e.idx = IdxOf(rows, e.row, start)
  <2>1. \A e \in M : /\ e \in S /\ e.page = page /\ e.kind = "message" /\ e.row \in rows
                     /\ e.idx = IdxOf(rows, e.row, start)
    BY <1>1
  <2>2. \A r \in rows : r \in Nat
    BY JournalRow
  <2> HIDE DEF M
  <2>3. QED
    BY <2>1, <2>2
<1>5. \A r \in rows : HasEvent(r) => \E e \in M : e.row = r
  BY <1>2
<1>6. \A e, f \in M : e.row = f.row => e = f
  <2>1. \A e \in M : e \in MessageEvents(page, rows, start)
    <3>1. ASSUME NEW e \in M PROVE e \in MessageEvents(page, rows, start)
      <4>1. e \in S /\ e.kind = "message"
        BY <1>4
      <4>2. /\ e \notin Linked(page, reasoning, "reasoning", rows)
            /\ e \notin Linked(page, edits, "file_edit", rows)
            /\ e \notin ToolCalls(page, rows) /\ e \notin Orphans(page, rows)
        BY <4>1 DEF Linked, ToolCalls, Orphans, Event
      <4>3. QED
        BY <4>1, <4>2 DEF Stream
    <3>2. QED
      BY <3>1
  <2>2. QED
    BY <2>1 DEF MessageEvents, Event
<1> DEFINE Rs == {e.row : e \in M}
<1>7. Rs \in SUBSET Nat /\ Rs # {}
  BY <1>3, <1>4
<1> HIDE DEF M
<1>8. PICK x \in Rs : \A y \in Rs : x <= y
  <2> HIDE DEF Rs
  <2>1. QED
    BY <1>7, LeastExists
<1>9. PICK m \in M : m.row = x
  BY <1>8 DEF Rs
<1>10. \A f \in M : m = f \/ m.row < f.row
  <2>1. ASSUME NEW f \in M, m # f PROVE m.row < f.row
    <3>1. f.row \in Rs /\ m.row # f.row
      BY <2>1, <1>6, <1>9 DEF Rs
    <3>2. m.row \in Nat /\ f.row \in Nat
      BY <1>4
    <3>3. x <= f.row
      BY <3>1, <1>8
    <3>4. QED
      BY <3>1, <3>2, <3>3, <1>9
  <2>2. QED
    BY <2>1
<1>11. \A f \in M : m = f \/ Precedes(m, f)
  BY <1>4, <1>10 DEF Precedes
<1>12. \A e \in M : (\A f \in M : e = f \/ Precedes(e, f)) => e = m
  <2>1. ASSUME NEW e \in M, e = m \/ Precedes(e, m), e # m PROVE FALSE
    <3>1. m.row < e.row /\ e.page = page /\ m.page = page
      BY <2>1, <1>4, <1>10
    <3>2. QED
      BY <2>1, <3>1, <1>4 DEF Precedes
  <2>2. QED
    BY <2>1
<1>13. FirstIdx(S) = m.idx
  BY <1>3, <1>11, <1>12 DEF FirstIdx, M
<1>14. {q \in rows : q < m.row /\ HasEvent(q)} = {}
  <2>1. ASSUME NEW q \in rows, q < m.row, HasEvent(q) PROVE FALSE
    <3>1. PICK f \in M : f.row = q
      BY <2>1, <1>5
    <3>2. QED
      BY <2>1, <3>1, <1>4, <1>10
  <2>2. QED
    BY <2>1
<1>15. IdxOf(rows, m.row, start) = start
  <2>1. IdxOf(rows, m.row, start) = start + Cardinality({})
    BY <1>14 DEF IdxOf
  <2>2. QED
    BY <2>1, FS_EmptySet
<1>16. QED
  BY <1>4, <1>13, <1>15


-----------------------------------------------------------------------------
(* Tables only grow: what the client has stays true when they do.          *)
Grows ==
    /\ journal \in Seq(Rows) /\ journal' \in Seq(Rows)
    /\ Len(journal) <= Len(journal')
    /\ \A r \in 1..Len(journal) : journal'[r] = journal[r]
    /\ reasoning \in Seq(Links) /\ reasoning' \in Seq(Links)
    /\ Len(reasoning) <= Len(reasoning')
    /\ \A k \in 1..Len(reasoning) : reasoning'[k] = reasoning[k]
    /\ edits \in Seq(Links) /\ edits' \in Seq(Links)
    /\ Len(edits) <= Len(edits')
    /\ \A k \in 1..Len(edits) : edits'[k] = edits[k]

LEMMA GrownRows ==
    ASSUME Grows
    PROVE  /\ \A r \in AllRows : /\ r \in AllRows' /\ journal'[r] = journal[r]
                                 /\ Counted(r)' <=> Counted(r)
                                 /\ HasEvent(r)' <=> HasEvent(r)
           /\ \A k \in DOMAIN reasoning : k \in DOMAIN reasoning' /\ reasoning'[k] = reasoning[k]
           /\ \A k \in DOMAIN edits : k \in DOMAIN edits' /\ edits'[k] = edits[k]
<1>1. Len(journal) \in Nat /\ Len(journal') \in Nat /\ Len(journal) <= Len(journal')
  BY DEF Grows
<1>2. \A r \in AllRows : r \in AllRows' /\ journal'[r] = journal[r]
  BY <1>1 DEF Grows, AllRows
<1>3. \A r \in AllRows : (Counted(r)' <=> Counted(r)) /\ (HasEvent(r)' <=> HasEvent(r))
  BY <1>2 DEF Counted, HasEvent
<1>4. \A k \in DOMAIN reasoning : k \in DOMAIN reasoning' /\ reasoning'[k] = reasoning[k]
  <2>1. /\ DOMAIN reasoning = 1..Len(reasoning) /\ DOMAIN reasoning' = 1..Len(reasoning')
        /\ Len(reasoning) \in Nat /\ Len(reasoning') \in Nat
    BY DEF Grows
  <2>2. QED
    BY <2>1 DEF Grows
<1>5. \A k \in DOMAIN edits : k \in DOMAIN edits' /\ edits'[k] = edits[k]
  <2>1. /\ DOMAIN edits = 1..Len(edits) /\ DOMAIN edits' = 1..Len(edits')
        /\ Len(edits) \in Nat /\ Len(edits') \in Nat
    BY DEF Grows
  <2>2. QED
    BY <2>1 DEF Grows
<1>6. QED
  BY <1>2, <1>3, <1>4, <1>5

LEMMA GrownCounts ==
    ASSUME Grows, NEW r \in AllRows
    PROVE  /\ CountedBefore(r)' = CountedBefore(r)
           /\ \A from \in 1..r : Skipped(from, r)' = Skipped(from, r)
<1>1. \A q \in 1..(r - 1) : (Counted(q)' <=> Counted(q)) /\ (HasEvent(q)' <=> HasEvent(q))
  <2>1. \A q \in 1..(r - 1) : q \in AllRows
    BY DEF AllRows, Grows
  <2>2. QED
    BY <2>1, GrownRows
<1>2. {q \in 1..(r - 1) : Counted(q)}' = {q \in 1..(r - 1) : Counted(q)}
  BY <1>1
<1>3. CountedBefore(r)' = CountedBefore(r)
  BY <1>2 DEF CountedBefore
<1>4. ASSUME NEW from \in 1..r PROVE Skipped(from, r)' = Skipped(from, r)
  <2>1. \A q \in from..(r - 1) : q \in 1..(r - 1)
    BY DEF AllRows, Grows
  <2>2. {q \in from..(r - 1) : Counted(q) /\ ~HasEvent(q)}'
          = {q \in from..(r - 1) : Counted(q) /\ ~HasEvent(q)}
    BY <1>1, <2>1
  <2>3. QED
    BY <2>2 DEF Skipped
<1>5. QED
  BY <1>3, <1>4

LEMMA ViewStays ==
    ASSUME Grows, NEW v, ViewInv(v)
    PROVE  ViewInv(v)'
<1>1. Len(journal) \in Nat /\ Len(journal') \in Nat /\ Len(journal) <= Len(journal')
  BY DEF Grows
<1>2. \A r \in 1..v.newest : r \in AllRows /\ r \in Nat /\ v.newest \in 0..Len(journal)
  BY <1>1 DEF ViewInv, CursorFits, AllRows
<1>3. \A s \in v.starts : s \in 1..v.newest
  BY DEF ViewInv, CursorFits
<1>4. \A r \in 1..v.newest : /\ journal'[r] = journal[r]
                             /\ Counted(r)' <=> Counted(r)
                             /\ HasEvent(r)' <=> HasEvent(r)
                             /\ CountedBefore(r)' = CountedBefore(r)
  BY <1>2, GrownRows, GrownCounts
<1>5. Grounded(v)'
  <2>1. ASSUME NEW e \in v.events,
               \/ /\ e.kind = "message" /\ e.row \in AllRows /\ HasEvent(e.row)
                  /\ e.id = 0 /\ e.idx \in Nat /\ e.turn = journal[e.row].turn
               \/ /\ e.kind = "tool_call" /\ e.row \in AllRows /\ journal[e.row].calls = 1
                  /\ e.id = 0 /\ e.idx = Null /\ e.turn = journal[e.row].turn
        PROVE  \/ /\ e.kind = "message" /\ e.row \in AllRows' /\ HasEvent(e.row)'
                  /\ e.id = 0 /\ e.idx \in Nat /\ e.turn = journal'[e.row].turn
               \/ /\ e.kind = "tool_call" /\ e.row \in AllRows' /\ journal'[e.row].calls = 1
                  /\ e.id = 0 /\ e.idx = Null /\ e.turn = journal'[e.row].turn
    BY <2>1, GrownRows
  <2>2. QED
    BY <2>1, GrownRows DEF ViewInv, Grounded
<1>6. CursorFits(v)'
  <2>1. \A s \in v.starts : (Counted(s)' <=> Counted(s)) /\ CountedBefore(s)' = CountedBefore(s)
    BY <1>3, <1>4
  <2>2. CursorFits(v)
    BY DEF ViewInv
  <2>3. v.newest \in 0..Len(journal')
    BY <1>1, <2>2 DEF CursorFits
  <2>4. QED
    BY <2>1, <2>2, <2>3 DEF CursorFits, NoView
<1>7. Placed(v)'
  BY DEF ViewInv, Placed
<1>8. Positioned(v)'
  <2>1. Positioned(v)
    BY DEF ViewInv
  <2>2. ASSUME NEW e \in Messages(v.events) PROVE InPlace(v, e)'
    <3>1. e.row \in AllRows /\ e.row \in Nat /\ InPlace(v, e)
      BY <2>1, NullAssumption, JournalRow DEF Positioned, Messages, ViewInv, Grounded, Grows
    <3>2. PICK from \in v.starts : /\ from <= e.row /\ \A s \in v.starts : s <= e.row => s <= from
                                   /\ e.idx = CountedBefore(e.row) - Skipped(from, e.row)
      BY <3>1 DEF InPlace
    <3>3. from \in 1..e.row
      BY <1>2, <1>3, <3>1, <3>2
    <3>4. CountedBefore(e.row)' = CountedBefore(e.row) /\ Skipped(from, e.row)' = Skipped(from, e.row)
      BY <3>1, <3>3, GrownCounts
    <3>5. QED
      BY <3>2, <3>4 DEF InPlace
  <2>3. QED
    BY <2>1, <2>2 DEF Positioned, Messages
<1>9. MessagesShown(v)'
  BY <1>4 DEF ViewInv, MessagesShown, Messages
<1>10. CallsShown(v)'
  <2>1. CallsShown(v)
    BY DEF ViewInv
  <2>2. ASSUME NEW r \in 1..v.newest, NEW s \in v.starts, r < s, \A q \in r..(s - 1) : ~Counted(q)
        PROVE  \A q \in r..(s - 1) : ~Counted(q)'
    <3>1. \A q \in r..(s - 1) : q \in 1..v.newest
      BY <1>2, <1>3
    <3>2. QED
      BY <1>4, <2>2, <3>1
  <2>3. QED
    BY <1>4, <2>1, <2>2 DEF CallsShown
<1>11. QED
  BY <1>5, <1>6, <1>7, <1>8, <1>9, <1>10 DEF ViewInv


-----------------------------------------------------------------------------
(* One more page.                                                          *)
NextView(v, limit, before, newest) ==
    LET page == v.pages + 1
        start == StartOf(limit, before)
        rows == Slice(start, before)
        events == Stream(page, rows, start, before)
    IN  [pages |-> page,
         events |-> v.events \cup events,
         starts |-> v.starts \cup (IF rows = {} THEN {} ELSE {First(rows)}),
         newest |-> newest,
         before |-> FirstIdx(events),
         total |-> TotalEvents,
         more |-> start > 0,
         stuck |-> v.stuck \/ (start > 0 /\ Messages(events) = {})]

Continues(v, before, newest) ==
    \/ v = NoView /\ before = Null /\ newest = Len(journal)
    \/ v.more /\ before = v.before /\ newest = v.newest

(* What the new page is to the pages before it: its rows are older than    *)
(* the first rows of all of them; a stuck client gets an empty page.       *)
LEMMA OlderRows ==
    ASSUME journal \in Seq(Rows), NEW v, CursorFits(v), v.more,
           NEW start, start \in Nat
    PROVE  /\ v.before \in Nat /\ v.pages > 0
           /\ \A r \in Slice(start, v.before), s \in v.starts : r < s
           /\ v.stuck => Slice(start, v.before) = {}
           /\ Slice(start, v.before) # {} =>
                ~v.stuck /\ \E s \in v.starts : CountedBefore(s) = v.before
<1>1. v.before \in Nat /\ v.pages > 0
  BY DEF CursorFits, NoView
<1>2. \A r \in Slice(start, v.before) :
        r \in AllRows /\ r \in Nat /\ 1 <= r /\ start <= CountedBefore(r)
        /\ CountedBefore(r) < v.before /\ CountedBefore(r) \in Nat
  <2>1. \A r \in AllRows : r \in Nat /\ 1 <= r /\ CountedBefore(r) \in Nat
    BY JournalRow, CountNat
  <2>2. v.before # Null
    BY <1>1, NullAssumption
  <2>3. /\ Slice(start, v.before) \subseteq AllRows
        /\ \A r \in Slice(start, v.before) :
              start <= CountedBefore(r) /\ CountedBefore(r) < v.before
    BY <1>1, <2>2, SliceRows
  <2>4. QED
    BY <2>1, <2>3
<1>3. \A s \in v.starts : s \in Nat /\ 1 <= s /\ v.before <= CountedBefore(s)
  BY DEF CursorFits
<1>4. ASSUME NEW r \in Slice(start, v.before), NEW s \in v.starts PROVE r < s
  <2>1. SUFFICES ASSUME s <= r PROVE FALSE
    BY <1>2, <1>3
  <2>2. CountedBefore(s) <= CountedBefore(r) /\ CountedBefore(s) \in Nat
    BY <1>2, <1>3, <2>1, CountMonotone
  <2>3. QED
    BY <1>1, <1>2, <1>3, <2>2
<1>5. v.stuck => Slice(start, v.before) = {}
  BY <1>2 DEF CursorFits
<1>6. Slice(start, v.before) # {} =>
        ~v.stuck /\ \E s \in v.starts : CountedBefore(s) = v.before
  BY <1>5 DEF CursorFits
<1>7. QED
  BY <1>1, <1>4, <1>5, <1>6

(* The position of a message on a page, from the first row of the page.    *)
LEMMA PageInPlace ==
    ASSUME journal \in Seq(Rows), NEW start, start \in Nat,
           NEW end, end \in Nat \cup {Null},
           NEW r \in Slice(start, end), HasEvent(r)
    PROVE  /\ IdxOf(Slice(start, end), r, start)
                = CountedBefore(r) - Skipped(First(Slice(start, end)), r)
           /\ IdxOf(Slice(start, end), r, start) <= CountedBefore(r)
<1> DEFINE S == Slice(start, end)
<1> DEFINE h == First(S)
<1> DEFINE A == {q \in S : q < r /\ HasEvent(q)}
<1> DEFINE B == {q \in h..(r - 1) : Counted(q) /\ ~HasEvent(q)}
<1> DEFINE C == {q \in h..(r - 1) : Counted(q)}
<1>1. S \subseteq AllRows /\ S # {}
  BY SliceRows
<1>2. /\ h \in S /\ \A q \in S : h <= q
      /\ CountedBefore(h) = start /\ Counted(h)
  BY <1>1, FirstRow
<1>3. \A q \in AllRows : /\ q \in Nat /\ 1 <= q /\ q <= Len(journal)
                         /\ HasEvent(q) => Counted(q) /\ journal[q].type # "tool"
  BY JournalRow
<1>4. Len(journal) \in Nat /\ AllRows = 1..Len(journal)
  BY JournalRow
<1>5. ASSUME NEW q \in AllRows, h <= q, q < r, HasEvent(q) PROVE q \in S
  BY <1>1, <1>2, <1>3, <1>5, SliceConvex
<1> HIDE DEF S, h
<1>6. C = A \cup B /\ A \cap B = {}
  <2>1. \A q \in h..(r - 1) : q \in AllRows /\ q < r /\ h <= q
    BY <1>1, <1>2, <1>3, <1>4 DEF S
  <2>2. \A q \in A : q \in h..(r - 1) /\ Counted(q) /\ HasEvent(q)
    BY <1>1, <1>2, <1>3 DEF S
  <2>3. \A q \in C : q \in A \/ q \in B
    BY <2>1, <1>5
  <2>4. QED
    BY <2>2, <2>3
<1>7. A \subseteq 0..Len(journal) /\ B \subseteq 0..Len(journal)
  <2>1. r \in AllRows /\ h \in AllRows
    BY <1>1, <1>2 DEF S
  <2>2. \A q \in S : q \in 0..Len(journal)
    BY <1>1, <1>3, <1>4
  <2>3. \A q \in h..(r - 1) : q \in 0..Len(journal)
    BY <1>3, <1>4, <2>1
  <2>4. QED
    BY <2>2, <2>3
<1>8. CountedBefore(r) = start + Cardinality(C)
  <2>1. h \in Nat /\ 1 <= h /\ h <= r /\ r \in Nat
    BY <1>1, <1>2, <1>3 DEF S
  <2>2. QED
    BY <1>2, <2>1, CountSplit
<1>9. IdxOf(S, r, start) = start + Cardinality(A) /\ Skipped(h, r) = Cardinality(B)
  BY DEF IdxOf, Skipped
<1> HIDE DEF A, B, C
<1>10. /\ IsFiniteSet(A) /\ IsFiniteSet(B)
       /\ Cardinality(A) \in Nat /\ Cardinality(B) \in Nat
  BY <1>4, <1>7, RowSet
<1>11. Cardinality(C) = Cardinality(A) + Cardinality(B)
  <2>1. Cardinality(A \cup B) = Cardinality(A) + Cardinality(B) - Cardinality(A \cap B)
    BY <1>10, FS_Union
  <2>2. Cardinality(A \cap B) = 0
    BY <1>6, FS_EmptySet
  <2>3. QED
    BY <1>6, <1>10, <2>1, <2>2
<1>12. /\ IdxOf(S, r, start) = CountedBefore(r) - Skipped(h, r)
       /\ IdxOf(S, r, start) <= CountedBefore(r)
  BY <1>8, <1>9, <1>10, <1>11
<1>13. QED
  BY <1>12 DEF S, h


LEMMA PageKeeps ==
    ASSUME journal \in Seq(Rows), JournalOrdered, NEW v, ViewInv(v),
           NEW limit, limit \in 1..MaxLimit, NEW before, NEW newest,
           Continues(v, before, newest)
    PROVE  ViewInv(NextView(v, limit, before, newest))
<1> DEFINE page == v.pages + 1
<1> DEFINE start == StartOf(limit, before)
<1> DEFINE rows == Slice(start, before)
<1> DEFINE new == Stream(page, rows, start, before)
<1> DEFINE M == Messages(new)
<1> DEFINE w == NextView(v, limit, before, newest)
<1>1. /\ v.pages \in Nat /\ page \in Nat /\ 0 < page
      /\ before \in Nat \cup {Null} /\ newest \in 0..Len(journal)
      /\ before = Null => v = NoView /\ newest = Len(journal)
      /\ before # Null => /\ v.more /\ before = v.before /\ newest = v.newest
                          /\ before \in Nat /\ v.pages > 0
  <2>1. Len(journal) \in Nat /\ CursorFits(v)
    BY DEF ViewInv
  <2>2. CASE v = NoView /\ before = Null /\ newest = Len(journal)
    BY <2>1, <2>2, NullAssumption DEF CursorFits
  <2>3. CASE v.more /\ before = v.before /\ newest = v.newest
    <3>1. v.pages > 0 /\ v.pages \in Nat
      BY <2>1, <2>3 DEF CursorFits, NoView
    <3>2. QED
      BY <2>1, <2>3, <3>1, NullAssumption DEF CursorFits
  <2>4. QED
    BY <2>2, <2>3 DEF Continues
<1>2. start \in Nat /\ (before # Null => start <= before)
  BY <1>1, StartType
<1> HIDE DEF start
<1>3. /\ rows \subseteq AllRows
      /\ \A r \in rows : journal[r].type # "tool" /\ start <= CountedBefore(r)
      /\ before # Null => \A r \in rows : CountedBefore(r) < before
      /\ \A r \in AllRows : Counted(r) =>
            (r \in rows <=> /\ start <= CountedBefore(r)
                            /\ before # Null => CountedBefore(r) < before)
  BY <1>1, <1>2, SliceRows
<1>4. /\ before # Null => \A r \in rows, s \in v.starts : r < s
      /\ before # Null /\ v.stuck => rows = {}
      /\ before # Null /\ rows # {} => \E s \in v.starts : CountedBefore(s) = before
  <2>1. CursorFits(v)
    BY DEF ViewInv
  <2>2. ASSUME before # Null
        PROVE  /\ \A r \in rows, s \in v.starts : r < s
               /\ v.stuck => rows = {}
               /\ rows # {} => \E s \in v.starts : CountedBefore(s) = before
    BY <1>1, <1>2, <2>1, <2>2, OlderRows
  <2>3. QED
    BY <2>2
<1>5. rows # {} =>
        /\ First(rows) \in rows /\ First(rows) \in AllRows
        /\ \A r \in rows : First(rows) <= r
        /\ Counted(First(rows)) /\ CountedBefore(First(rows)) = start
  BY <1>1, <1>2, FirstRow
<1>6. ASSUME NEW r \in rows, HasEvent(r)
      PROVE  /\ IdxOf(rows, r, start) = CountedBefore(r) - Skipped(First(rows), r)
             /\ IdxOf(rows, r, start) <= CountedBefore(r)
  BY <1>1, <1>2, <1>6, PageInPlace
<1>7. /\ v.pages = 0 => v.events = {} /\ v.starts = {} /\ ~v.more /\ ~v.stuck /\ v.newest = 0
      /\ before = Null => v.pages = 0
  BY <1>1 DEF ViewInv, CursorFits, NoView
<1>8. \A s \in v.starts : s \in Nat /\ s \in 1..v.newest /\ s \in AllRows /\ Counted(s)
                          /\ CountedBefore(s) \in Nat
  <2>1. \A s \in v.starts : s \in 1..v.newest /\ Counted(s)
    BY DEF ViewInv, CursorFits
  <2>2. v.newest \in 0..Len(journal) /\ Len(journal) \in Nat
    BY DEF ViewInv, CursorFits
  <2>3. \A s \in v.starts : s \in Nat /\ s \in AllRows
    BY <2>1, <2>2 DEF AllRows
  <2>4. QED
    BY <2>1, <2>3, CountNat
<1>9. \A r \in AllRows : r \in Nat /\ 1 <= r /\ r <= Len(journal) /\ CountedBefore(r) \in Nat
                         /\ (HasEvent(r) => Counted(r))
  BY JournalRow, CountNat
<1> HIDE DEF rows
<1>10. \A e \in new : /\ OnPage(e, page, rows, start)
                      /\ e.kind = "orphan" => before = Null
  BY StreamShape
<1>11. \A r \in rows : journal[r].calls = 1 =>
         \E e \in new : e.kind = "tool_call" /\ e.row = r
  <2>1. ASSUME NEW r \in rows, journal[r].calls = 1
        PROVE  \E e \in new : e.kind = "tool_call" /\ e.row = r
    <3> DEFINE c == Event(page, r, "tool_call", 0, Null, journal[r].turn)
    <3>1. c \in new
      BY <2>1, StreamShape
    <3>2. c.kind = "tool_call" /\ c.row = r
      BY DEF Event
    <3>3. QED
      BY <3>1, <3>2
  <2>2. QED
    BY <2>1
<1>12. ASSUME NEW e \in M
       PROVE  /\ e \in new /\ e.page = page /\ e.kind = "message"
              /\ e.row \in rows /\ e.row \in AllRows /\ HasEvent(e.row)
              /\ e.idx = IdxOf(rows, e.row, start) /\ e.idx \in Nat /\ start <= e.idx
  BY <1>2, <1>3, PageMessage
<1>13. ASSUME NEW r \in rows, HasEvent(r) PROVE \E e \in M : e.row = r
  <2> DEFINE m == Event(page, r, "message", 0, IdxOf(rows, r, start), journal[r].turn)
  <2>1. m \in M
    BY <1>2, <1>3, <1>13, PageHasMessage
  <2>2. m.row = r
    BY DEF Event
  <2>3. QED
    BY <2>1, <2>2
<1>14. FirstIdx(new) = IF M = {} THEN 0 ELSE start
  <2>1. M # {} => FirstIdx(new) = start
    BY <1>1, <1>2, <1>3, FirstIdxIs
  <2>2. M = {} => FirstIdx(new) = 0
    BY DEF FirstIdx
  <2>3. QED
    BY <2>1, <2>2
<1>15. /\ w.pages = page /\ w.events = v.events \cup new
       /\ w.starts = v.starts \cup (IF rows = {} THEN {} ELSE {First(rows)})
       /\ w.newest = newest /\ w.before = (IF M = {} THEN 0 ELSE start)
       /\ w.more = (start > 0)
       /\ w.stuck = (v.stuck \/ (start > 0 /\ M = {}))
  BY <1>14 DEF NextView, start, rows
<1>16. Messages(w.events) = Messages(v.events) \cup M
  BY <1>15 DEF Messages
<1>17. \A e \in new : e.idx # Null <=> e \in M
  BY DEF Messages
<1> HIDE DEF new, M, w
<1>18. \A e \in new : /\ e.page = page
                      /\ e.kind # "orphan" => e.row \in rows
                      /\ e.kind = "orphan" => e.row = AfterAll(rows) /\ before = Null
  BY <1>10 DEF OnPage
<1>19. /\ w.before \in Nat /\ w.before <= start
       /\ before # Null => before \in Nat /\ w.before <= before
       /\ w.more <=> 0 < start
       /\ start = 0 => w.before = 0
  <2>1. w.more <=> 0 < start
    BY <1>2, <1>15
  <2>2. CASE M = {}
    <3>1. w.before = 0
      BY <1>15, <2>2
    <3>2. QED
      BY <1>1, <1>2, <2>1, <3>1
  <2>3. CASE M # {}
    <3>1. w.before = start
      BY <1>15, <2>3
    <3>2. QED
      BY <1>1, <1>2, <2>1, <3>1
  <2>4. QED
    BY <2>2, <2>3
<1>20. Grounded(w)
  <2>1. ASSUME NEW e \in new
        PROVE  \/ /\ e.kind = "message" /\ e.row \in AllRows /\ HasEvent(e.row)
                  /\ e.id = 0 /\ e.idx \in Nat /\ e.turn = journal[e.row].turn
               \/ /\ e.kind = "tool_call" /\ e.row \in AllRows /\ journal[e.row].calls = 1
                  /\ e.id = 0 /\ e.idx = Null /\ e.turn = journal[e.row].turn
               \/ /\ e.kind = "reasoning" /\ e.row \in AllRows /\ e.id \in DOMAIN reasoning
                  /\ reasoning[e.id].row = e.row
                  /\ e.idx = Null /\ e.turn = reasoning[e.id].turn
               \/ /\ e.kind = "file_edit" /\ e.row \in AllRows /\ e.id \in DOMAIN edits
                  /\ edits[e.id].row = e.row
                  /\ e.idx = Null /\ e.turn = edits[e.id].turn
               \/ /\ e.kind = "orphan" /\ e.page = 1 /\ e.id \in DOMAIN reasoning
                  /\ reasoning[e.id].row = Orphan
                  /\ e.idx = Null /\ e.turn = reasoning[e.id].turn
    <3>1. e.kind = "orphan" => e.page = 1
      BY <1>7, <1>18
    <3>2. e.kind # "orphan" => e.row \in AllRows
      BY <1>3, <1>18
    <3>3. e.kind = "message" => e.idx \in Nat
      <4>1. SUFFICES ASSUME e.kind = "message" PROVE e.idx \in Nat
        OBVIOUS
      <4>2. e.idx = IdxOf(rows, e.row, start) /\ e.row \in Nat
        BY <1>9, <1>10, <3>2, <4>1 DEF OnPage
      <4>3. QED
        BY <1>2, <1>3, <4>2, IdxType
    <3>4. QED
      BY <1>10, <3>1, <3>2, <3>3 DEF OnPage
  <2>2. QED
    BY <1>15, <2>1 DEF ViewInv, Grounded
<1>21. CursorFits(w)
  <2>1. w.pages \in Nat /\ w.pages # 0
    BY <1>1, <1>15
  <2>2. w.stuck => w.before = 0
    <3>1. v.stuck => rows = {}
      BY <1>4, <1>7
    <3>2. rows = {} => M = {}
      BY <1>12
    <3>3. QED
      BY <1>15, <3>1, <3>2
  <2>3. w.more /\ ~w.stuck => \E s \in w.starts : CountedBefore(s) = w.before
    <3>1. SUFFICES ASSUME w.more, ~w.stuck PROVE \E s \in w.starts : CountedBefore(s) = w.before
      OBVIOUS
    <3>2. M # {} /\ w.before = start
      BY <1>15, <3>1
    <3>3. rows # {}
      BY <1>12, <3>2
    <3>4. QED
      BY <1>5, <1>15, <3>2, <3>3
  <2>4. ~w.more => w.before = 0
    BY <1>2, <1>19
  <2>5. ASSUME NEW s \in w.starts
        PROVE  s \in 1..w.newest /\ Counted(s) /\ w.before <= CountedBefore(s)
    <3>1. CASE s \in v.starts
      <4>1. before # Null
        BY <1>7, <3>1
      <4>2. v.before <= CountedBefore(s) /\ v.before = before /\ before \in Nat
        BY <1>1, <3>1, <4>1 DEF ViewInv, CursorFits
      <4>3. w.before <= CountedBefore(s)
        BY <1>8, <1>19, <3>1, <4>1, <4>2
      <4>4. QED
        BY <1>1, <1>8, <1>15, <3>1, <4>1, <4>3
    <3>2. CASE rows # {} /\ s = First(rows)
      <4>1. Counted(s) /\ CountedBefore(s) = start /\ s \in AllRows /\ s \in rows
        BY <1>5, <3>2
      <4>2. s \in 1..newest
        <5>1. CASE before = Null
          BY <1>1, <1>9, <4>1, <5>1
        <5>2. CASE before # Null
          <6>1. PICK t \in v.starts : TRUE
            BY <1>4, <3>2, <5>2
          <6>2. s < t /\ t \in 1..newest /\ s \in Nat /\ 1 <= s
            BY <1>1, <1>4, <1>8, <1>9, <4>1, <5>2, <6>1
          <6>3. QED
            BY <1>1, <6>2
        <5>3. QED
          BY <5>1, <5>2
      <4>3. QED
        BY <1>15, <1>19, <4>1, <4>2
    <3>3. QED
      BY <1>15, <3>1, <3>2
  <2>6. w.stuck \in BOOLEAN /\ w.more \in BOOLEAN
    BY <1>2, <1>15 DEF ViewInv, CursorFits
  <2>7. QED
    BY <1>1, <1>15, <1>19, <2>1, <2>2, <2>3, <2>4, <2>5, <2>6 DEF CursorFits
<1>22. ASSUME NEW e \in v.events, e.kind # "orphan", before # Null, NEW r \in rows
       PROVE  r < e.row /\ r \in Nat /\ e.row \in Nat
  <2>1. e.row \in AllRows
    BY <1>22 DEF ViewInv, Grounded
  <2>2. PICK s \in v.starts : s <= e.row
    BY <1>22 DEF ViewInv, Placed
  <2>3. r < s
    BY <1>4, <1>22
  <2>4. QED
    BY <1>3, <1>8, <1>9, <2>1, <2>2, <2>3
<1>23. Placed(w)
  <2>1. Placed(v)
    BY DEF ViewInv
  <2>2. \A e \in v.events : e.page \in 1..v.pages /\ before # Null
    BY <1>7, <2>1 DEF Placed
  <2>3. \A e \in w.events : e.page \in 1..w.pages
    BY <1>1, <1>15, <1>18, <2>2
  <2>4. ASSUME NEW e \in w.events, e.kind # "orphan"
        PROVE  e.row <= w.newest /\ \E s \in w.starts : s <= e.row
    <3>1. CASE e \in v.events
      <4>1. e.row <= v.newest /\ \E s \in v.starts : s <= e.row
        BY <2>1, <2>4, <3>1 DEF Placed
      <4>2. QED
        BY <1>1, <1>15, <2>2, <3>1, <4>1
    <3>2. CASE e \in new
      <4>1. e.row \in rows /\ rows # {} /\ e.row \in AllRows
        BY <1>3, <1>18, <2>4, <3>2
      <4>2. First(rows) \in w.starts /\ First(rows) <= e.row
        BY <1>5, <1>15, <4>1
      <4>3. e.row <= newest
        <5>1. CASE before = Null
          BY <1>1, <1>9, <4>1, <5>1
        <5>2. CASE before # Null
          <6>1. PICK t \in v.starts : TRUE
            BY <1>4, <4>1, <5>2
          <6>2. e.row < t /\ t \in 1..newest /\ e.row \in Nat
            BY <1>1, <1>4, <1>8, <1>9, <4>1, <5>2, <6>1
          <6>3. QED
            BY <1>1, <6>2
        <5>3. QED
          BY <5>1, <5>2
      <4>4. QED
        BY <1>15, <4>2, <4>3
    <3>3. QED
      BY <1>15, <3>1, <3>2
  <2>5. ASSUME NEW e \in w.events, NEW f \in w.events, e.kind = "orphan", f.kind = "orphan"
        PROVE  e.row = f.row
    <3>1. CASE before = Null
      BY <1>7, <1>15, <1>18, <2>5, <3>1
    <3>2. CASE before # Null
      <4>1. e \in v.events /\ f \in v.events
        BY <1>15, <1>18, <2>5, <3>2
      <4>2. QED
        BY <2>1, <2>5, <4>1 DEF Placed
    <3>3. QED
      BY <3>1, <3>2
  <2>6. ASSUME NEW e \in w.events, NEW f \in w.events,
               e.kind # "orphan", f.kind # "orphan", e.page > f.page
        PROVE  e.row < f.row
    <3>1. CASE e \in v.events /\ f \in v.events
      BY <2>1, <2>6, <3>1 DEF Placed
    <3>2. CASE f \in new
      <4>1. f.page = page /\ (e.page = page \/ e.page \in 1..v.pages)
        BY <1>15, <1>18, <2>2, <3>2
      <4>2. QED
        BY <1>1, <2>6, <4>1
    <3>3. CASE e \in new /\ f \in v.events
      BY <1>18, <1>22, <2>2, <2>6, <3>3
    <3>4. QED
      BY <1>15, <3>1, <3>2, <3>3
  <2>7. QED
    BY <2>3, <2>4, <2>5, <2>6 DEF Placed
<1>24. Positioned(w)
  <2>1. Positioned(v)
    BY DEF ViewInv
  <2>2. ASSUME NEW e \in Messages(v.events)
        PROVE  /\ e \in v.events /\ e.kind = "message" /\ before # Null
               /\ e.idx \in Nat /\ v.before <= e.idx /\ InPlace(v, e) /\ e.row \in AllRows
    <3>1. e \in v.events /\ e.idx # Null /\ v.before <= e.idx /\ InPlace(v, e)
      BY <2>1 DEF Positioned, Messages
    <3>2. e.kind = "message" /\ e.idx \in Nat /\ e.row \in AllRows
      BY <3>1 DEF ViewInv, Grounded
    <3>3. QED
      BY <1>7, <3>1, <3>2
  <2>3. ASSUME NEW e \in Messages(w.events) PROVE w.before <= e.idx /\ InPlace(w, e)
    <3>1. CASE e \in Messages(v.events)
      <4>1. w.before <= e.idx
        BY <1>1, <1>19, <2>2, <3>1
      <4>2. PICK from \in v.starts : /\ from <= e.row /\ \A s \in v.starts : s <= e.row => s <= from
                                     /\ e.idx = CountedBefore(e.row) - Skipped(from, e.row)
        BY <2>2, <3>1 DEF InPlace
      <4>3. \A s \in w.starts : s <= e.row => s <= from
        <5>1. rows # {} => First(rows) <= from
          <6>1. rows # {} => First(rows) < from /\ First(rows) \in Nat
            BY <1>4, <1>5, <1>9, <2>2, <3>1
          <6>2. QED
            BY <1>8, <6>1
        <5>2. QED
          BY <1>15, <4>2, <5>1
      <4>4. from \in w.starts
        BY <1>15
      <4>5. QED
        BY <4>1, <4>2, <4>3, <4>4 DEF InPlace
    <3>2. CASE e \in M
      <4>1. e.row \in rows /\ HasEvent(e.row) /\ e.idx = IdxOf(rows, e.row, start)
            /\ e.idx \in Nat /\ start <= e.idx /\ e.row \in AllRows
        BY <1>12, <3>2
      <4>2. w.before <= e.idx
        BY <1>2, <1>19, <4>1
      <4>3. /\ First(rows) \in w.starts /\ First(rows) <= e.row
            /\ e.idx = CountedBefore(e.row) - Skipped(First(rows), e.row)
        BY <1>5, <1>6, <1>15, <4>1
      <4>4. ASSUME NEW s \in w.starts, s <= e.row PROVE s <= First(rows)
        <5>1. CASE s = First(rows)
          BY <1>5, <1>9, <4>1, <5>1
        <5>2. CASE s \in v.starts
          <6>1. before # Null
            BY <1>7, <5>2
          <6>2. e.row < s /\ e.row \in Nat /\ s \in Nat
            BY <1>4, <1>8, <1>9, <4>1, <5>2, <6>1
          <6>3. QED
            BY <4>4, <6>2
        <5>3. QED
          BY <1>15, <5>1, <5>2
      <4>5. QED
        BY <4>2, <4>3, <4>4 DEF InPlace
    <3>3. QED
      BY <1>16, <3>1, <3>2
  <2>4. ASSUME NEW e \in Messages(w.events), NEW f \in Messages(w.events), e.row < f.row
        PROVE  e.idx < f.idx
    <3>1. CASE e \in Messages(v.events) /\ f \in Messages(v.events)
      BY <2>1, <2>4, <3>1 DEF Positioned
    <3>2. CASE e \in Messages(v.events) /\ f \in M
      BY <1>12, <1>22, <2>2, <2>4, <3>2
    <3>3. CASE e \in M /\ f \in Messages(v.events)
      <4>1. e.idx <= CountedBefore(e.row) /\ e.idx \in Nat /\ e.row \in rows /\ e.row \in AllRows
        BY <1>6, <1>12, <3>3
      <4>2. CountedBefore(e.row) < before /\ CountedBefore(e.row) \in Nat
        BY <1>3, <1>9, <2>2, <3>3, <4>1
      <4>3. before <= f.idx /\ f.idx \in Nat /\ before \in Nat
        BY <1>1, <2>2, <3>3
      <4>4. QED
        BY <4>1, <4>2, <4>3
    <3>4. CASE e \in M /\ f \in M
      <4> DEFINE A == {q \in rows : q < e.row /\ HasEvent(q)}
      <4> DEFINE B == {q \in rows : q < f.row /\ HasEvent(q)}
      <4>1. /\ e.row \in rows /\ HasEvent(e.row) /\ e.idx = IdxOf(rows, e.row, start)
            /\ f.row \in rows /\ f.idx = IdxOf(rows, f.row, start)
            /\ e.idx \in Nat /\ f.idx \in Nat
        BY <1>12, <3>4
      <4>2. \A q \in rows : q \in Nat /\ q <= Len(journal)
        BY <1>3, <1>9
      <4>3. A \subseteq B /\ e.row \in B /\ e.row \notin A
        BY <2>4, <4>1, <4>2
      <4>4. e.idx = start + Cardinality(A) /\ f.idx = start + Cardinality(B)
        BY <4>1 DEF IdxOf
      <4>5. A \subseteq 0..Len(journal) /\ B \subseteq 0..Len(journal) /\ Len(journal) \in Nat
        BY <4>2
      <4> HIDE DEF A, B
      <4>6. /\ IsFiniteSet(A) /\ IsFiniteSet(B)
            /\ Cardinality(A) \in Nat /\ Cardinality(B) \in Nat
        BY <4>5, RowSet
      <4>7. Cardinality(A) <= Cardinality(B) /\ Cardinality(A) # Cardinality(B)
        BY <4>3, <4>6, FS_Subset
      <4>8. QED
        BY <1>2, <4>4, <4>6, <4>7
    <3>5. QED
      BY <1>16, <3>1, <3>2, <3>3, <3>4
  <2>5. QED
    BY <2>3, <2>4 DEF Positioned
<1>25. ~w.stuck => ~v.stuck /\ w.before = start
  <2>1. SUFFICES ASSUME ~w.stuck PROVE ~v.stuck /\ w.before = start
    OBVIOUS
  <2>2. ~v.stuck /\ ~(start > 0 /\ M = {})
    BY <1>15, <2>1
  <2>3. start = 0 \/ M # {}
    BY <1>2, <2>2
  <2>4. QED
    BY <1>15, <2>2, <2>3
<1>26. MessagesShown(w)
  <2>1. SUFFICES ASSUME ~w.stuck, NEW r \in 1..w.newest, HasEvent(r), w.before <= CountedBefore(r)
                 PROVE  \E e \in Messages(w.events) : e.row = r
    BY DEF MessagesShown
  <2>2. r \in AllRows /\ Counted(r) /\ start <= CountedBefore(r)
        /\ CountedBefore(r) \in Nat
    <3>1. r \in AllRows
      BY <1>1, <1>15, <2>1 DEF AllRows
    <3>2. QED
      BY <1>9, <1>25, <2>1, <3>1
  <2>3. CASE r \in rows
    BY <1>13, <1>16, <2>1, <2>3
  <2>4. CASE r \notin rows
    <3>1. before # Null /\ before <= CountedBefore(r)
      BY <1>1, <1>3, <2>2, <2>4
    <3>2. r \in 1..v.newest /\ v.before <= CountedBefore(r) /\ ~v.stuck
      BY <1>1, <1>15, <1>25, <2>1, <3>1
    <3>3. \E e \in Messages(v.events) : e.row = r
      BY <2>1, <3>2 DEF ViewInv, MessagesShown
    <3>4. QED
      BY <1>16, <3>3
  <2>5. QED
    BY <2>3, <2>4
<1>27. CallsShown(w)
  <2>1. SUFFICES ASSUME ~w.stuck, NEW r \in 1..w.newest, journal[r].calls = 1,
                        NEW s \in w.starts, s <= r
                 PROVE  \/ \E e \in w.events : e.kind = "tool_call" /\ e.row = r
                        \/ \E t \in w.starts : r < t /\ \A q \in r..(t - 1) : ~Counted(q)
    BY DEF CallsShown
  <2>2. r \in AllRows /\ r \in Nat /\ journal[r].type # "tool"
    <3>1. r \in AllRows
      BY <1>1, <1>15, <2>1 DEF AllRows
    <3>2. QED
      BY <1>9, <2>1, <3>1 DEF JournalOrdered
  <2>3. CASE r \in rows
    BY <1>11, <1>15, <2>1, <2>3
  <2>4. CASE \E t \in v.starts : t <= r
    <3>1. before # Null /\ r \in 1..v.newest /\ ~v.stuck
      BY <1>1, <1>7, <1>15, <1>25, <2>1, <2>4
    <3>2. \/ \E e \in v.events : e.kind = "tool_call" /\ e.row = r
          \/ \E t \in v.starts : r < t /\ \A q \in r..(t - 1) : ~Counted(q)
      BY <2>1, <2>4, <3>1 DEF ViewInv, CallsShown
    <3>3. QED
      BY <1>15, <3>2
  <2>5. CASE r \notin rows /\ \A t \in v.starts : ~(t <= r)
    <3>1. rows # {} /\ s = First(rows) /\ s \in rows /\ s \in Nat /\ CountedBefore(s) = start /\ 1 <= s
      BY <1>5, <1>9, <1>15, <2>1, <2>5
    <3>2. before # Null
      <4>1. SUFFICES ASSUME before = Null PROVE r \in rows
        BY <2>5
      <4>2. \E q \in Picked(start, before) : q <= s
        BY <3>1 DEF rows, Slice
      <4>3. \A q \in Picked(start, before) : q \in Nat
        BY <1>9 DEF Picked, CountedRows
      <4>4. \E q \in Picked(start, before) : q <= r
        BY <2>1, <2>2, <3>1, <4>2, <4>3
      <4>5. QED
        BY <2>2, <4>1, <4>4 DEF rows, Slice
    <3>3. PICK t \in v.starts : CountedBefore(t) = before
      BY <1>4, <3>1, <3>2
    <3>4. r < t /\ t \in Nat /\ t <= Len(journal)
      BY <1>8, <1>9, <2>2, <2>5
    <3>5. ASSUME NEW q \in r..(t - 1), Counted(q) PROVE FALSE
      <4>1. q \in AllRows /\ q \in Nat /\ 1 <= q /\ s <= q /\ r <= q /\ q < t
        BY <2>1, <2>2, <3>1, <3>4 DEF AllRows
      <4>2. CountedBefore(q) < before /\ start <= CountedBefore(q)
        <5>1. CountedBefore(q) < CountedBefore(t)
          BY <3>4, <3>5, <4>1, CountMonotone
        <5>2. CountedBefore(s) <= CountedBefore(q)
          BY <3>1, <4>1, CountMonotone
        <5>3. QED
          BY <3>1, <3>3, <5>1, <5>2
      <4>3. q \in Picked(start, before)
        BY <3>5, <4>1, <4>2 DEF Picked, CountedRows
      <4>4. \E p \in Picked(start, before) : p <= r
        <5>1. PICK p \in Picked(start, before) : p <= s
          BY <3>1 DEF rows, Slice
        <5>2. p \in Nat
          BY <1>9 DEF Picked, CountedRows
        <5>3. QED
          BY <2>1, <2>2, <3>1, <5>1, <5>2
      <4>5. r \in rows
        BY <2>2, <4>1, <4>3, <4>4 DEF rows, Slice
      <4>6. QED
        BY <2>5, <4>5
    <3>6. QED
      BY <1>15, <3>4, <3>5
  <2>6. QED
    BY <2>3, <2>4, <2>5
<1>28. ViewInv(w)
  BY <1>20, <1>21, <1>23, <1>24, <1>26, <1>27 DEF ViewInv
<1>29. QED
  BY <1>28 DEF w


-----------------------------------------------------------------------------
(* What a page adds is well typed.                                         *)
LEMMA AfterAllType ==
    ASSUME journal \in Seq(Rows), Len(journal) <= MaxRows, NEW rows, rows \in SUBSET AllRows
    PROVE  AfterAll(rows) \in 1..(MaxRows + 1)
<1> DEFINE P(n) == /\ \A r \in rows : r < n
                   /\ n > 1 => n - 1 \in rows
<1>1. Len(journal) \in Nat /\ \A r \in rows : r \in Nat /\ 1 <= r /\ r <= Len(journal)
  BY JournalRow
<1>2. \E n \in 1..(Len(journal) + 1) : P(n)
  <2>1. CASE rows = {}
    <3>1. P(1) /\ 1 \in 1..(Len(journal) + 1)
      BY <1>1, <2>1
    <3>2. QED
      BY <3>1
  <2>2. CASE rows # {}
    <3>1. rows \in SUBSET (0..Len(journal))
      BY <1>1
    <3>2. PICK x \in rows : \A y \in rows : y <= x
      BY <1>1, <2>2, <3>1, GreatestExists
    <3>3. x \in Nat /\ 1 <= x /\ x <= Len(journal) /\ x + 1 - 1 = x
      BY <1>1
    <3>4. P(x + 1) /\ x + 1 \in 1..(Len(journal) + 1)
      BY <1>1, <3>2, <3>3
    <3>5. QED
      BY <3>4
  <2>3. QED
    BY <2>1, <2>2
<1>3. AfterAll(rows) \in 1..(Len(journal) + 1)
  BY <1>2 DEF AfterAll
<1>4. QED
  BY <1>1, <1>3, PagingAssumption

LEMMA StreamType ==
    ASSUME journal \in Seq(Rows), Len(journal) <= MaxRows,
           reasoning \in Seq(Links), edits \in Seq(Links),
           NEW page, page \in Nat, NEW rows, rows \in SUBSET AllRows,
           NEW start, start \in Nat, NEW before
    PROVE  Stream(page, rows, start, before) \subseteq Events
<1>1. ASSUME NEW r \in rows
      PROVE  /\ r \in 1..(MaxRows + 1) /\ journal[r].turn \in 1..MaxTurns
             /\ IdxOf(rows, r, start) \in Nat
  <2>1. r \in AllRows /\ r \in Nat /\ 1 <= r /\ r <= Len(journal) /\ journal[r] \in Rows
    BY JournalRow
  <2>2. IdxOf(rows, r, start) \in Nat
    BY <2>1, IdxType
  <2>3. QED
    BY <2>1, <2>2, JournalRow, PagingAssumption DEF Rows
<1>2. /\ \A k \in DOMAIN reasoning : k \in Nat /\ reasoning[k].turn \in 1..MaxTurns
      /\ \A k \in DOMAIN edits : k \in Nat /\ edits[k].turn \in 1..MaxTurns
  <2>1. /\ \A k \in DOMAIN reasoning : k \in Nat /\ reasoning[k] \in Links
        /\ \A k \in DOMAIN edits : k \in Nat /\ edits[k] \in Links
    OBVIOUS
  <2>2. QED
    BY <2>1 DEF Links
<1>3. AfterAll(rows) \in 1..(MaxRows + 1)
  BY AfterAllType
<1>4. \A p, r, k, i, x, t :
        p \in Nat /\ r \in 1..(MaxRows + 1) /\ k \in DOMAIN EventPriority /\ i \in Nat
        /\ x \in Nat \cup {Null} /\ t \in 1..MaxTurns
        => Event(p, r, k, i, x, t) \in Events
  BY DEF Event, Events
<1>5. {"message", "tool_call", "reasoning", "file_edit", "orphan"} \subseteq DOMAIN EventPriority
  BY DEF EventPriority
<1>6. MessageEvents(page, rows, start) \subseteq Events
  BY <1>1, <1>4, <1>5 DEF MessageEvents
<1>7. ToolCalls(page, rows) \subseteq Events
  BY <1>1, <1>4, <1>5 DEF ToolCalls
<1>8. Linked(page, reasoning, "reasoning", rows) \subseteq Events
  BY <1>1, <1>2, <1>4, <1>5 DEF Linked
<1>9. Linked(page, edits, "file_edit", rows) \subseteq Events
  BY <1>1, <1>2, <1>4, <1>5 DEF Linked
<1>10. Orphans(page, rows) \subseteq Events
  BY <1>2, <1>3, <1>4, <1>5 DEF Orphans
<1>11. QED
  BY <1>6, <1>7, <1>8, <1>9, <1>10 DEF Stream

(* No entry of a table is shown twice, whatever page it came with.         *)
LEMMA ShownOnce ==
    ASSUME NEW v, ViewInv(v), v.events \subseteq Events,
           journal \in Seq(Rows),
           NEW e \in v.events, NEW f \in v.events,
           e.kind = f.kind, e.row = f.row, e.id = f.id
    PROVE  e = f
<1>1. e \in Events /\ f \in Events
  OBVIOUS
<1>2. e.page = f.page
  <2>1. CASE e.kind = "orphan"
    BY <2>1 DEF ViewInv, Grounded
  <2>2. CASE e.kind # "orphan"
    <3>1. e.row \in Nat /\ e.page \in Nat /\ f.page \in Nat
      BY <1>1 DEF Events
    <3>2. ~(e.page > f.page) /\ ~(f.page > e.page)
      BY <2>2, <3>1 DEF ViewInv, Placed
    <3>3. QED
      BY <3>1, <3>2
  <2>3. QED
    BY <2>1, <2>2
<1>3. e.turn = f.turn
  BY DEF ViewInv, Grounded
<1>4. e.idx = f.idx
  <2>1. CASE e.kind # "message"
    BY <2>1 DEF ViewInv, Grounded
  <2>2. CASE e.kind = "message"
    <3>1. e.idx # Null /\ f.idx # Null /\ e.row \in Nat
      <4>1. e.idx \in Nat /\ f.idx \in Nat
        BY <2>2 DEF ViewInv, Grounded
      <4>2. e.row \in Nat
        BY <1>1 DEF Events
      <4>3. QED
        BY <4>1, <4>2, NullAssumption
    <3>2. e \in Messages(v.events) /\ f \in Messages(v.events)
      BY <3>1 DEF Messages
    <3>3. InPlace(v, e) /\ InPlace(v, f)
      BY <3>2 DEF ViewInv, Positioned
    <3>4. PICK a \in v.starts : /\ a <= e.row /\ \A s \in v.starts : s <= e.row => s <= a
                                /\ e.idx = CountedBefore(e.row) - Skipped(a, e.row)
      BY <3>3 DEF InPlace
    <3>5. PICK b \in v.starts : /\ b <= e.row /\ \A s \in v.starts : s <= e.row => s <= b
                                /\ f.idx = CountedBefore(e.row) - Skipped(b, e.row)
      BY <3>3 DEF InPlace
    <3>6. a \in Nat /\ b \in Nat
      BY DEF ViewInv, CursorFits
    <3>7. a <= b /\ b <= a
      BY <3>4, <3>5
    <3>8. QED
      BY <3>4, <3>5, <3>6, <3>7
  <2>3. QED
    BY <2>1, <2>2
<1>5. QED
  BY <1>1, <1>2, <1>3, <1>4 DEF Events

(* The client holds no more events than there are.                         *)
LEMMA EventsBounded ==
    ASSUME NEW v, ViewInv(v), v.events \subseteq Events,
           journal \in Seq(Rows), reasoning \in Seq(Links), edits \in Seq(Links)
    PROVE  Cardinality(v.events) <= TotalEvents
<1> DEFINE Ms == {e \in v.events : e.kind = "message"}
<1> DEFINE Cs == {e \in v.events : e.kind = "tool_call"}
<1> DEFINE Rs == {e \in v.events : e.kind \in {"reasoning", "orphan"}}
<1> DEFINE Es == {e \in v.events : e.kind = "file_edit"}
<1> DEFINE Calls == {r \in AllRows : journal[r].calls = 1}
<1>1. v.events = ((Ms \cup Cs) \cup Rs) \cup Es
  BY DEF ViewInv, Grounded
<1>2. /\ Len(journal) \in Nat /\ Len(reasoning) \in Nat /\ Len(edits) \in Nat
      /\ DOMAIN reasoning = 1..Len(reasoning) /\ DOMAIN edits = 1..Len(edits)
  OBVIOUS
<1>3. IsFiniteSet(Ms) /\ Cardinality(Ms) <= Total /\ Total \in Nat
  <2> DEFINE f == [e \in Ms |-> e.row]
  <2>1. f \in [Ms -> CountedRows]
    <3>1. \A e \in Ms : e.row \in AllRows /\ HasEvent(e.row)
      BY DEF ViewInv, Grounded
    <3>2. \A e \in Ms : e.row \in CountedRows
      BY <3>1, JournalRow DEF CountedRows
    <3>3. QED
      BY <3>2
  <2>2. \A a, b \in Ms : f[a] = f[b] => a = b
    <3>1. \A a \in Ms : a \in v.events /\ a.kind = "message" /\ a.id = 0
      BY DEF ViewInv, Grounded
    <3>2. QED
      BY <3>1, ShownOnce
  <2>3. IsFiniteSet(CountedRows) /\ Total \in Nat
    BY CountTotal
  <2> HIDE DEF f, Ms
  <2>4. QED
    BY <2>1, <2>2, <2>3, InjectionBound DEF Total
<1>4. IsFiniteSet(Cs) /\ Cardinality(Cs) <= Cardinality(Calls) /\ Cardinality(Calls) \in Nat
  <2> DEFINE f == [e \in Cs |-> e.row]
  <2>1. f \in [Cs -> Calls]
    BY DEF ViewInv, Grounded
  <2>2. \A a, b \in Cs : f[a] = f[b] => a = b
    <3>1. \A a \in Cs : a \in v.events /\ a.kind = "tool_call" /\ a.id = 0
      BY DEF ViewInv, Grounded
    <3>2. QED
      BY <3>1, ShownOnce
  <2>3. IsFiniteSet(Calls) /\ Cardinality(Calls) \in Nat
    <3>1. Calls \subseteq 0..Len(journal)
      BY JournalRow
    <3> HIDE DEF Calls
    <3>2. QED
      BY <1>2, <3>1, RowSet
  <2> HIDE DEF f, Cs, Calls
  <2>4. QED
    BY <2>1, <2>2, <2>3, InjectionBound
<1>5. IsFiniteSet(Rs) /\ Cardinality(Rs) <= Len(reasoning)
  <2> DEFINE f == [e \in Rs |-> e.id]
  <2>1. f \in [Rs -> 1..Len(reasoning)]
    BY <1>2 DEF ViewInv, Grounded
  <2>2. \A a, b \in Rs : f[a] = f[b] => a = b
    <3>1. ASSUME NEW a \in Rs, NEW b \in Rs, a.id = b.id PROVE a = b
      <4>1. /\ a.kind \in {"reasoning", "orphan"} /\ b.kind \in {"reasoning", "orphan"}
            /\ a.kind = "reasoning" => a.row = reasoning[a.id].row /\ a.row \in Nat
            /\ b.kind = "reasoning" => b.row = reasoning[b.id].row /\ b.row \in Nat
            /\ a.kind = "orphan" => reasoning[a.id].row = Orphan
            /\ b.kind = "orphan" => reasoning[b.id].row = Orphan
        BY JournalRow DEF ViewInv, Grounded
      <4>2. Orphan \notin Nat
        BY DEF Orphan
      <4>3. a.kind = b.kind
        BY <3>1, <4>1, <4>2
      <4>4. a.row = b.row
        BY <3>1, <4>1, <4>3 DEF ViewInv, Placed
      <4>5. QED
        BY <3>1, <4>3, <4>4, ShownOnce
    <3>2. QED
      BY <3>1
  <2>3. IsFiniteSet(1..Len(reasoning)) /\ Cardinality(1..Len(reasoning)) = Len(reasoning)
    BY <1>2, UpTo
  <2> HIDE DEF f, Rs
  <2>4. QED
    BY <2>1, <2>2, <2>3, InjectionBound
<1>6. IsFiniteSet(Es) /\ Cardinality(Es) <= Len(edits)
  <2> DEFINE f == [e \in Es |-> e.id]
  <2>1. f \in [Es -> 1..Len(edits)]
    BY <1>2 DEF ViewInv, Grounded
  <2>2. \A a, b \in Es : f[a] = f[b] => a = b
    <3>1. \A a \in Es : a \in v.events /\ a.kind = "file_edit" /\ a.row = edits[a.id].row
      BY DEF ViewInv, Grounded
    <3>2. QED
      BY <3>1, ShownOnce
  <2>3. IsFiniteSet(1..Len(edits)) /\ Cardinality(1..Len(edits)) = Len(edits)
    BY <1>2, UpTo
  <2> HIDE DEF f, Es
  <2>4. QED
    BY <2>1, <2>2, <2>3, InjectionBound
<1>7. TotalEvents = Total + Cardinality(Calls) + Len(reasoning) + Len(edits)
  BY DEF TotalEvents
<1> HIDE DEF Ms, Cs, Rs, Es, Calls
<1>8. IsFiniteSet(Ms \cup Cs) /\ Cardinality(Ms \cup Cs) <= Total + Cardinality(Calls)
  BY <1>3, <1>4, UnionBound
<1>9. /\ IsFiniteSet((Ms \cup Cs) \cup Rs)
      /\ Cardinality((Ms \cup Cs) \cup Rs) <= Total + Cardinality(Calls) + Len(reasoning)
  <2>1. Total + Cardinality(Calls) \in Nat
    BY <1>3, <1>4
  <2>2. QED
    BY <1>2, <1>5, <1>8, <2>1, UnionBound
<1>10. Cardinality(((Ms \cup Cs) \cup Rs) \cup Es)
         <= Total + Cardinality(Calls) + Len(reasoning) + Len(edits)
  <2>1. Total + Cardinality(Calls) + Len(reasoning) \in Nat
    BY <1>2, <1>3, <1>4
  <2>2. QED
    BY <1>2, <1>6, <1>9, <2>1, UnionBound
<1>11. QED
  BY <1>1, <1>7, <1>10


-----------------------------------------------------------------------------
(* The stream's steps.                                                     *)
Writers == [at : {"idle", "turn", "tool", "edited"}, turn : 0..MaxTurns,
            thought : BOOLEAN, buffer : Texts, lost : 0..MaxLost]

LEMMA WriterFields ==
    /\ writer \in Writers =>
        /\ writer.at \in {"idle", "turn", "tool", "edited"} /\ writer.turn \in 0..MaxTurns
        /\ writer.thought \in BOOLEAN /\ writer.buffer \in Texts /\ writer.lost \in 0..MaxLost
    /\ PagingTypeOK => writer \in Writers
BY DEF Writers, PagingTypeOK

(* Nothing is added: the tables fit as before.                             *)
LEMMA TablesStay ==
    ASSUME PagingTypeOK, TablesInv, UNCHANGED <<journal, reasoning>>,
           writer' \in Writers, writer'.turn \in 1..MaxTurns, writer.turn <= writer'.turn
    PROVE  TablesInv'
<1>1. /\ writer.turn \in Nat /\ writer'.turn \in Nat /\ 1 <= writer'.turn
  BY WriterFields, PagingAssumption
<1>2. \A r \in AllRows : journal[r].turn \in Nat
  BY JournalRow, PagingAssumption DEF PagingTypeOK, Rows
<1>3. JournalOrdered'
  BY <1>1, <1>2 DEF TablesInv, JournalOrdered, AllRows
<1>4. \A k \in DOMAIN reasoning : reasoning[k].turn \in Nat
  <2>1. \A k \in DOMAIN reasoning : reasoning[k] \in Links
    BY DEF PagingTypeOK
  <2>2. QED
    BY <2>1, PagingAssumption DEF Links
<1>5. LinksFit'
  BY <1>1, <1>4 DEF TablesInv, LinksFit, AllRows
<1>6. QED
  BY <1>3, <1>5 DEF TablesInv

(* A row added is of the last turn, so the tables still fit.               *)
LEMMA AddKeeps ==
    ASSUME PagingTypeOK, TablesInv,
           NEW w, w \in Writers, w.turn \in 1..MaxTurns, writer.turn <= w.turn,
           NEW type, type \in {"user", "ai", "tool"}, NEW text, text \in Texts,
           NEW calls, calls \in 0..1, calls = 1 => type = "ai",
           Add(w, type, text, calls), UNCHANGED <<reasoning, edits, view>>
    PROVE  PagingTypeOK' /\ TablesInv' /\ Grows
<1> DEFINE row == [type |-> type, text |-> text, calls |-> calls, turn |-> w.turn]
<1>1. /\ journal \in Seq(Rows) /\ Len(journal) <= MaxRows /\ Len(journal) \in Nat
      /\ reasoning \in Seq(Links) /\ edits \in Seq(Links)
      /\ writer.turn \in 0..MaxTurns /\ writer.lost \in 0..MaxLost
  BY WriterFields DEF PagingTypeOK
<1>2. row \in Rows
  BY DEF Rows
<1>3. CASE Len(journal) < MaxRows /\ journal' = Append(journal, row) /\ writer' = w
  <2> HIDE DEF row
  <2>1. /\ journal' \in Seq(Rows) /\ Len(journal') = Len(journal) + 1
        /\ journal'[Len(journal) + 1] = row
        /\ \A r \in 1..Len(journal) : journal'[r] = journal[r]
    BY <1>1, <1>2, <1>3
  <2>2. Grows
    BY <1>1, <2>1 DEF Grows
  <2>3. PagingTypeOK'
    BY <1>1, <1>3, <2>1, PagingAssumption DEF PagingTypeOK, Writers
  <2>4. /\ row.turn = w.turn /\ row.calls = calls /\ row.type = type
    BY DEF row
  <2>5. \A r \in AllRows' : r = Len(journal) + 1 \/ r \in AllRows
    BY <1>1, <2>1 DEF AllRows
  <2>6. /\ \A r \in AllRows : journal[r] \in Rows /\ r \in Nat /\ r <= Len(journal)
                              /\ journal[r].turn \in Nat /\ journal'[r] = journal[r]
        /\ \A r \in AllRows : journal[r].turn <= writer.turn
    BY <2>1, JournalRow, <1>1, PagingAssumption DEF AllRows, Rows, TablesInv, JournalOrdered
  <2>7. JournalOrdered'
    <3>1. ASSUME NEW q \in AllRows', NEW r \in AllRows', q <= r
          PROVE  journal'[q].turn <= journal'[r].turn
      <4>1. CASE q \in AllRows /\ r \in AllRows
        BY <2>6, <3>1, <4>1 DEF TablesInv, JournalOrdered
      <4>2. CASE r = Len(journal) + 1 /\ q \in AllRows
        BY <1>1, <2>1, <2>4, <2>6, <4>2, PagingAssumption
      <4>3. CASE q = Len(journal) + 1
        <5>1. r = Len(journal) + 1
          BY <1>1, <2>5, <2>6, <3>1, <4>3
        <5>2. QED
          BY <2>1, <2>4, <4>3, <5>1, PagingAssumption
      <4>4. QED
        BY <2>5, <4>1, <4>2, <4>3
    <3>2. ASSUME NEW r \in AllRows'
          PROVE  /\ journal'[r].turn <= writer'.turn
                 /\ journal'[r].calls = 1 => journal'[r].type = "ai"
      <4>1. CASE r \in AllRows
        <5>1. journal'[r] = journal[r] /\ journal[r].turn \in Nat /\ journal[r].turn <= writer.turn
          BY <2>6, <4>1
        <5>2. journal[r].calls = 1 => journal[r].type = "ai"
          BY <4>1 DEF TablesInv, JournalOrdered
        <5>3. writer'.turn = w.turn /\ w.turn \in Nat /\ writer.turn \in Nat
          BY <1>1, <1>3, PagingAssumption
        <5>4. QED
          BY <5>1, <5>2, <5>3
      <4>2. CASE r = Len(journal) + 1
        BY <1>3, <2>1, <2>4, <4>2, PagingAssumption
      <4>3. QED
        BY <2>5, <4>1, <4>2
    <3>3. writer'.turn >= 1
      BY <1>3
    <3>4. QED
      BY <3>1, <3>2, <3>3 DEF JournalOrdered
  <2>8. LinksFit'
    <3>1. \A k \in DOMAIN reasoning : /\ reasoning[k].turn \in Nat /\ reasoning[k].row \in Int
                                      /\ reasoning[k].turn <= writer.turn
                                      /\ reasoning[k].row <= Len(journal) + 1
      <4>1. \A k \in DOMAIN reasoning : reasoning[k] \in Links
        BY <1>1
      <4>2. QED
        BY <4>1, PagingAssumption DEF Links, TablesInv, LinksFit
    <3>2. ASSUME NEW k \in DOMAIN reasoning
          PROVE  reasoning[k].turn <= writer'.turn /\ reasoning[k].row <= Len(journal') + 1
      BY <1>1, <1>3, <2>1, <3>1, PagingAssumption
    <3>3. ASSUME NEW k \in DOMAIN reasoning, NEW r \in AllRows', reasoning[k].row # Orphan
          PROVE  IF r < reasoning[k].row THEN journal'[r].turn <= reasoning[k].turn
                                         ELSE reasoning[k].turn <= journal'[r].turn
      <4>1. CASE r \in AllRows
        BY <2>6, <3>3, <4>1 DEF TablesInv, LinksFit
      <4>2. CASE r = Len(journal) + 1
        <5>1. ~(r < reasoning[k].row)
          BY <1>1, <3>1, <4>2
        <5>2. journal'[r].turn = w.turn
          BY <2>1, <2>4, <4>2
        <5>3. reasoning[k].turn <= w.turn
          BY <1>1, <3>1, PagingAssumption
        <5>4. QED
          BY <5>1, <5>2, <5>3
      <4>3. QED
        BY <2>5, <4>1, <4>2
    <3>4. QED
      BY <3>2, <3>3 DEF TablesInv, LinksFit
  <2>9. QED
    BY <2>2, <2>3, <2>7, <2>8 DEF TablesInv
<1>4. CASE /\ w.lost < MaxLost
           /\ writer' = [w EXCEPT !.lost = w.lost + 1]
           /\ UNCHANGED journal
  <2>1. writer' \in Writers /\ writer'.turn = w.turn
    BY <1>4, PagingAssumption DEF Writers
  <2>2. Grows
    BY <1>1, <1>4 DEF Grows
  <2>3. PagingTypeOK'
    BY <1>4, <2>1 DEF PagingTypeOK, Writers
  <2>4. TablesInv'
    BY <1>4, <2>1, TablesStay
  <2>5. QED
    BY <2>2, <2>3, <2>4
<1>5. QED
  BY <1>3, <1>4 DEF Add

(* The same for a block: it is linked to the next row, or to none.         *)
LEMMA FlushKeeps ==
    ASSUME PagingTypeOK, TablesInv, FlushReasoning
    PROVE  PagingTypeOK' /\ TablesInv' /\ Grows
<1>1. /\ journal \in Seq(Rows) /\ Len(journal) <= MaxRows /\ Len(journal) \in Nat
      /\ reasoning \in Seq(Links) /\ edits \in Seq(Links)
      /\ writer \in Writers /\ writer.turn \in 1..MaxTurns
  BY WriterFields, PagingAssumption DEF PagingTypeOK, FlushReasoning, TablesInv, JournalOrdered
<1>2. PICK row \in {NextRow, Orphan} :
        reasoning' = Append(reasoning, [row |-> row, turn |-> writer.turn])
  BY DEF FlushReasoning
<1> DEFINE link == [row |-> row, turn |-> writer.turn]
<1>3. /\ row \in -1..(MaxRows + 1) /\ row <= Len(journal) + 1
      /\ row # Orphan => row = Len(journal) + 1
      /\ link \in Links /\ link.row = row /\ link.turn = writer.turn
  BY <1>1, <1>2, PagingAssumption DEF NextRow, Orphan, Links
<1> HIDE DEF link
<1>4. /\ reasoning' \in Seq(Links) /\ Len(reasoning') = Len(reasoning) + 1
      /\ Len(reasoning) \in Nat
      /\ reasoning'[Len(reasoning) + 1] = link
      /\ \A k \in 1..Len(reasoning) : reasoning'[k] = reasoning[k]
  BY <1>1, <1>2, <1>3 DEF link
<1>5. /\ UNCHANGED <<journal, edits, view>>
      /\ writer' = [writer EXCEPT !.thought = TRUE]
  BY DEF FlushReasoning
<1>6. Grows
  BY <1>1, <1>4, <1>5 DEF Grows
<1>7. writer' \in Writers /\ writer'.turn = writer.turn /\ writer'.at = writer.at
  BY <1>1, <1>5 DEF Writers
<1>8. PagingTypeOK'
  BY <1>4, <1>5, <1>7 DEF PagingTypeOK, Writers
<1>9. JournalOrdered'
  BY <1>5, <1>7 DEF TablesInv, JournalOrdered, AllRows
<1>10. LinksFit'
  <2>1. \A k \in DOMAIN reasoning' : k = Len(reasoning) + 1 \/ k \in DOMAIN reasoning
    BY <1>4
  <2>2. \A k \in DOMAIN reasoning : /\ reasoning'[k] = reasoning[k]
                                    /\ k \in Nat /\ k <= Len(reasoning)
    BY <1>1, <1>4
  <2>3. ASSUME NEW k \in DOMAIN reasoning'
        PROVE  reasoning'[k].turn <= writer'.turn /\ reasoning'[k].row <= Len(journal') + 1
    <3>1. CASE k = Len(reasoning) + 1
      BY <1>1, <1>3, <1>4, <1>5, <1>7, <3>1
    <3>2. CASE k \in DOMAIN reasoning
      BY <1>5, <1>7, <2>2, <3>2 DEF TablesInv, LinksFit
    <3>3. QED
      BY <2>1, <3>1, <3>2
  <2>4. ASSUME NEW k \in DOMAIN reasoning', NEW r \in AllRows', reasoning'[k].row # Orphan
        PROVE  IF r < reasoning'[k].row THEN journal'[r].turn <= reasoning'[k].turn
                                        ELSE reasoning'[k].turn <= journal'[r].turn
    <3>1. r \in AllRows /\ r \in Nat /\ r <= Len(journal) /\ journal[r].turn <= writer.turn
      BY <1>1, <1>5, JournalRow DEF AllRows, TablesInv, JournalOrdered
    <3>2. CASE k = Len(reasoning) + 1
      <4>1. reasoning'[k].row = Len(journal) + 1 /\ reasoning'[k].turn = writer.turn
        BY <1>3, <1>4, <2>4, <3>2
      <4>2. r < reasoning'[k].row
        BY <1>1, <3>1, <4>1
      <4>3. QED
        BY <1>5, <3>1, <4>1, <4>2
    <3>3. CASE k \in DOMAIN reasoning
      BY <1>5, <2>2, <2>4, <3>1, <3>3 DEF TablesInv, LinksFit
    <3>4. QED
      BY <2>1, <3>2, <3>3
  <2>5. ASSUME NEW k \in DOMAIN reasoning', NEW l \in DOMAIN reasoning', k < l
        PROVE  reasoning'[k].turn <= reasoning'[l].turn
    <3>1. k \in DOMAIN reasoning
      BY <1>1, <1>4, <2>5
    <3>2. CASE l = Len(reasoning) + 1
      BY <1>3, <1>4, <2>2, <3>1, <3>2 DEF TablesInv, LinksFit
    <3>3. CASE l \in DOMAIN reasoning
      BY <2>2, <2>5, <3>1, <3>3 DEF TablesInv, LinksFit
    <3>4. QED
      BY <2>1, <3>2, <3>3
  <2>6. QED
    BY <2>3, <2>4, <2>5 DEF LinksFit
<1>11. QED
  BY <1>6, <1>8, <1>9, <1>10 DEF TablesInv

LEMMA EditKeeps ==
    ASSUME PagingTypeOK, TablesInv, SaveFileEdit
    PROVE  PagingTypeOK' /\ TablesInv' /\ Grows
<1>1. /\ journal \in Seq(Rows) /\ Len(journal) <= MaxRows /\ Len(journal) \in Nat
      /\ reasoning \in Seq(Links) /\ edits \in Seq(Links)
      /\ writer \in Writers /\ writer.turn \in 1..MaxTurns
  BY WriterFields, PagingAssumption DEF PagingTypeOK, SaveFileEdit, TablesInv, JournalOrdered
<1> DEFINE link == [row |-> NextRow, turn |-> writer.turn]
<1>2. link \in Links
  BY <1>1, PagingAssumption DEF NextRow, Links
<1> HIDE DEF link
<1>3. /\ edits' \in Seq(Links) /\ Len(edits') = Len(edits) + 1 /\ Len(edits) \in Nat
      /\ \A k \in 1..Len(edits) : edits'[k] = edits[k]
  <2>1. edits' = Append(edits, link)
    BY DEF SaveFileEdit, link
  <2>2. QED
    BY <1>1, <1>2, <2>1
<1>4. /\ UNCHANGED <<journal, reasoning, view>>
      /\ writer' = [writer EXCEPT !.at = "edited"]
  BY DEF SaveFileEdit
<1>5. Grows
  BY <1>1, <1>3, <1>4 DEF Grows
<1>6. writer' \in Writers /\ writer'.turn = writer.turn
  BY <1>1, <1>4 DEF Writers
<1>7. PagingTypeOK'
  BY <1>3, <1>4, <1>6 DEF PagingTypeOK, Writers
<1>8. TablesInv'
  BY <1>1, <1>4, <1>6, TablesStay
<1>9. QED
  BY <1>5, <1>7, <1>8

LEMMA JoinType ==
    ASSUME NEW a \in Texts, NEW b \in Texts
    PROVE  Join(a, b) \in Texts
BY DEF Join, Texts

(* Every step of the stream lets the tables grow and keeps them in order.  *)
LEMMA WriterKeeps ==
    ASSUME PagingTypeOK, TablesInv,
           \/ UserMessage \/ FlushReasoning \/ DeclareCalls \/ SaveFileEdit
           \/ ToolResult \/ FinishStream
    PROVE  PagingTypeOK' /\ TablesInv' /\ Grows
<1>1. /\ writer \in Writers /\ writer.turn \in 0..MaxTurns
      /\ writer.at # "idle" => writer.turn \in 1..MaxTurns
  BY WriterFields, PagingAssumption DEF PagingTypeOK, TablesInv, JournalOrdered
<1>2. CASE UserMessage
  <2> DEFINE w == [writer EXCEPT !.at = "turn", !.turn = @ + 1]
  <2>1. w \in Writers /\ w.turn \in 1..MaxTurns /\ writer.turn <= w.turn
    <3>1. writer.turn + 1 \in 1..MaxTurns
      BY <1>1, <1>2, PagingAssumption DEF UserMessage
    <3>2. w.turn = writer.turn + 1
      BY <1>1 DEF Writers
    <3>3. w \in Writers
      <4>1. writer.turn + 1 \in 0..MaxTurns
        BY <3>1, PagingAssumption
      <4>2. QED
        BY <1>1, <4>1 DEF Writers
    <3>4. QED
      BY <1>1, <3>1, <3>2, <3>3, PagingAssumption
  <2>2. Add(w, "user", "words", 0) /\ UNCHANGED <<reasoning, edits, view>>
    BY <1>2 DEF UserMessage
  <2> HIDE DEF w
  <2>3. QED
    BY <2>1, <2>2, AddKeeps DEF Texts
<1>3. CASE DeclareCalls
  <2>1. PICK text \in Texts :
          Add([writer EXCEPT !.at = "tool", !.buffer = Join(@, text)], "ai", text, 1)
    BY <1>3 DEF DeclareCalls
  <2> DEFINE w == [writer EXCEPT !.at = "tool", !.buffer = Join(@, text)]
  <2>2. w \in Writers /\ w.turn \in 1..MaxTurns /\ writer.turn <= w.turn
    <3>1. Join(writer.buffer, text) \in Texts
      BY <1>1, WriterFields, JoinType
    <3>2. writer.turn \in 1..MaxTurns
      BY <1>1, <1>3 DEF DeclareCalls
    <3>3. w.turn = writer.turn
      BY <1>1 DEF Writers
    <3>4. w \in Writers
      BY <1>1, <3>1 DEF Writers
    <3>5. QED
      BY <3>2, <3>3, <3>4, PagingAssumption
  <2>3. Add(w, "ai", text, 1) /\ UNCHANGED <<reasoning, edits, view>>
    BY <1>3, <2>1 DEF DeclareCalls
  <2> HIDE DEF w
  <2>4. QED
    BY <2>2, <2>3, AddKeeps
<1>4. CASE ToolResult
  <2> DEFINE w == [writer EXCEPT !.at = "turn", !.thought = FALSE]
  <2>1. w \in Writers /\ w.turn \in 1..MaxTurns /\ writer.turn <= w.turn
    <3>1. w.turn = writer.turn /\ writer.turn \in 1..MaxTurns
      BY <1>1, <1>4 DEF ToolResult, Writers
    <3>2. w \in Writers
      BY <1>1 DEF Writers
    <3>3. QED
      BY <3>1, <3>2, PagingAssumption
  <2>2. Add(w, "tool", "words", 0) /\ UNCHANGED <<reasoning, edits, view>>
    BY <1>4 DEF ToolResult
  <2> HIDE DEF w
  <2>3. QED
    BY <2>1, <2>2, AddKeeps DEF Texts
<1>5. CASE FinishStream
  <2> DEFINE w == [writer EXCEPT !.at = "idle", !.thought = FALSE, !.buffer = "none"]
  <2>1. PICK text \in (IF writer.at = "turn" THEN Texts ELSE {"none"}) :
          IF Join(writer.buffer, text) = "none" THEN writer' = w /\ UNCHANGED journal
          ELSE Add(w, "ai", Join(writer.buffer, text), 0)
    BY <1>5 DEF FinishStream
  <2>2. w \in Writers /\ w.turn \in 1..MaxTurns /\ writer.turn <= w.turn /\ w.turn = writer.turn
    <3>1. w.turn = writer.turn /\ writer.turn \in 1..MaxTurns
      BY <1>1, <1>5 DEF FinishStream, Writers
    <3>2. w \in Writers
      BY <1>1 DEF Writers, Texts
    <3>3. QED
      BY <3>1, <3>2, PagingAssumption
  <2>3. UNCHANGED <<reasoning, edits, view>>
    BY <1>5 DEF FinishStream
  <2>4. Join(writer.buffer, text) \in Texts
    BY <1>1, WriterFields, JoinType DEF Texts
  <2> HIDE DEF w
  <2>5. CASE writer' = w /\ UNCHANGED journal
    <3>1. Grows
      BY <2>3, <2>5 DEF Grows, PagingTypeOK
    <3>2. PagingTypeOK'
      BY <2>2, <2>3, <2>5 DEF PagingTypeOK, Writers
    <3>3. TablesInv'
      BY <2>2, <2>3, <2>5, TablesStay
    <3>4. QED
      BY <3>1, <3>2, <3>3
  <2>6. CASE Add(w, "ai", Join(writer.buffer, text), 0)
    BY <2>2, <2>3, <2>4, <2>6, AddKeeps
  <2>7. QED
    BY <2>1, <2>5, <2>6
<1>6. QED
  BY <1>2, <1>3, <1>4, <1>5, FlushKeeps, EditKeeps


-----------------------------------------------------------------------------
(* The client's steps, and the invariant.                                  *)
LEMMA ClientKeeps ==
    ASSUME PagingInv, OpenHistory \/ ScrollUp
    PROVE  /\ PagingTypeOK' /\ TablesInv' /\ ViewInv(view)' /\ EventsCounted'
<1>1. /\ journal \in Seq(Rows) /\ Len(journal) <= MaxRows
      /\ reasoning \in Seq(Links) /\ edits \in Seq(Links)
      /\ view.events \subseteq Events /\ ViewInv(view) /\ JournalOrdered
  BY DEF PagingInv, PagingTypeOK, TablesInv
<1>2. UNCHANGED <<journal, reasoning, edits, writer>>
  BY DEF OpenHistory, ScrollUp
<1>3. PICK limit, before, newest :
        /\ limit \in 1..MaxLimit /\ Continues(view, before, newest)
        /\ view' = NextView(view, limit, before, newest)
  <2>1. CASE OpenHistory
    <3>1. PICK limit \in 1..MaxLimit : Show(limit, Null, Len(journal))
      BY <2>1 DEF OpenHistory
    <3>2. Continues(view, Null, Len(journal))
      BY <2>1 DEF OpenHistory, Continues
    <3>3. view' = NextView(view, limit, Null, Len(journal))
      BY <3>1 DEF Show, NextView
    <3>4. QED
      BY <3>2, <3>3
  <2>2. CASE ScrollUp
    <3>1. PICK limit \in 1..MaxLimit : Show(limit, view.before, view.newest)
      BY <2>2 DEF ScrollUp
    <3>2. Continues(view, view.before, view.newest)
      BY <2>2 DEF ScrollUp, Continues
    <3>3. view' = NextView(view, limit, view.before, view.newest)
      BY <3>1 DEF Show, NextView
    <3>4. QED
      BY <3>2, <3>3
  <2>3. QED
    BY <2>1, <2>2
<1>4. PICK w : w = NextView(view, limit, before, newest)
  OBVIOUS
<1>5. ViewInv(w)
  BY <1>1, <1>3, <1>4, PageKeeps
<1>6. w.events \subseteq Events /\ w.total = TotalEvents
  <2> DEFINE page == view.pages + 1
  <2> DEFINE start == StartOf(limit, before)
  <2> DEFINE rows == Slice(start, before)
  <2>1. page \in Nat
    BY <1>1 DEF ViewInv, CursorFits
  <2>2. before \in Nat \cup {Null}
    <3>1. CursorFits(view)
      BY <1>1 DEF ViewInv
    <3>2. QED
      BY <1>3, <3>1 DEF Continues, CursorFits, NoView
  <2>3. start \in Nat
    BY <1>1, <1>3, <2>2, StartType
  <2>4. rows \in SUBSET AllRows
    BY DEF Slice
  <2>5. w.events = view.events \cup Stream(page, rows, start, before) /\ w.total = TotalEvents
    BY <1>4 DEF NextView
  <2> HIDE DEF page, start, rows
  <2>6. Stream(page, rows, start, before) \subseteq Events
    BY <1>1, <2>1, <2>3, <2>4, StreamType
  <2>7. QED
    BY <1>1, <2>5, <2>6
<1>7. Cardinality(w.events) <= w.total
  BY <1>1, <1>5, <1>6, EventsBounded
<1>8. Grows
  BY <1>1, <1>2 DEF Grows
<1>9. ViewInv(w)'
  BY <1>5, <1>8, ViewStays
<1>10. view' = w
  BY <1>3, <1>4
<1>11. ViewInv(view)'
  BY <1>9, <1>10 DEF ViewInv, Grounded, CursorFits, Placed, Positioned, InPlace, MessagesShown,
     CallsShown, Messages
<1>12. PagingTypeOK'
  <2>1. w.more => w.before \in Nat
    BY <1>5 DEF ViewInv, CursorFits, NoView
  <2>2. QED
    BY <1>2, <1>6, <1>10, <2>1 DEF PagingInv, PagingTypeOK
<1>13. TablesInv'
  BY <1>2 DEF PagingInv, TablesInv, JournalOrdered, LinksFit, AllRows
<1>14. EventsCounted'
  BY <1>7, <1>10 DEF EventsCounted
<1>15. QED
  BY <1>11, <1>12, <1>13, <1>14

LEMMA PagingStart == PagingInit => PagingInv
<1> SUFFICES ASSUME PagingInit PROVE PagingInv
  OBVIOUS
<1>1. PagingTypeOK
  BY PagingAssumption DEF PagingInit, PagingTypeOK, NoView, Texts
<1>2. Len(journal) = 0 /\ AllRows = {} /\ DOMAIN reasoning = {}
  BY DEF PagingInit, AllRows
<1>3. TablesInv
  BY <1>2 DEF PagingInit, TablesInv, JournalOrdered, LinksFit
<1>4. ViewInv(view)
  <2>1. view = NoView
    BY DEF PagingInit
  <2>2. /\ NoView.pages = 0 /\ NoView.events = {} /\ NoView.starts = {} /\ NoView.newest = 0
        /\ NoView.more = FALSE /\ NoView.stuck = FALSE
    BY DEF NoView
  <2>3. Grounded(view) /\ Placed(view) /\ Positioned(view)
    BY <2>1, <2>2 DEF Grounded, Placed, Positioned, Messages
  <2>4. CursorFits(view)
    <3>1. view.pages \in Nat /\ ~(view.pages > 0)
      BY <2>1, <2>2
    <3>2. view.newest \in 0..Len(journal)
      BY <1>2, <2>1, <2>2
    <3>3. view.stuck = FALSE /\ view.more = FALSE /\ view.starts = {}
      BY <2>1, <2>2
    <3>4. QED
      BY <2>1, <3>1, <3>2, <3>3, Zenon DEF CursorFits
  <2>5. MessagesShown(view) /\ CallsShown(view)
    BY <2>1, <2>2 DEF MessagesShown, CallsShown
  <2>6. QED
    BY <2>3, <2>4, <2>5 DEF ViewInv
<1>5. EventsCounted
  BY FS_EmptySet DEF PagingInit, NoView, EventsCounted
<1>6. QED
  BY <1>1, <1>3, <1>4, <1>5 DEF PagingInv

LEMMA ViewUnchanged ==
    ASSUME PagingInv, UNCHANGED view, PagingTypeOK', TablesInv', Grows
    PROVE  PagingInv'
<1>1. PICK w : w = view
  OBVIOUS
<1>2. ViewInv(w)
  BY <1>1 DEF PagingInv
<1>3. ViewInv(w)'
  BY <1>2, ViewStays
<1>4. ViewInv(view)'
  BY <1>1, <1>3 DEF ViewInv, Grounded, CursorFits, Placed, Positioned, InPlace,
     MessagesShown, CallsShown, Messages
<1>5. EventsCounted'
  BY DEF PagingInv, EventsCounted
<1>6. QED
  BY <1>4, <1>5 DEF PagingInv

LEMMA PagingKeeps == PagingInv /\ [PagingNext]_pagingVars => PagingInv'
<1> SUFFICES ASSUME PagingInv, [PagingNext]_pagingVars PROVE PagingInv'
  OBVIOUS
<1>1. CASE \/ UserMessage \/ FlushReasoning \/ DeclareCalls \/ SaveFileEdit
           \/ ToolResult \/ FinishStream
  <2>1. view' = view
    BY <1>1 DEF UserMessage, FlushReasoning, DeclareCalls, SaveFileEdit, ToolResult, FinishStream
  <2>2. PagingTypeOK' /\ TablesInv' /\ Grows
    BY <1>1, WriterKeeps DEF PagingInv
  <2>3. QED
    BY <2>1, <2>2, ViewUnchanged
<1>2. CASE OpenHistory \/ ScrollUp
  BY <1>2, ClientKeeps DEF PagingInv
<1>3. CASE UNCHANGED pagingVars
  <2>1. UNCHANGED <<journal, reasoning, edits, writer, view>>
    BY <1>3 DEF pagingVars
  <2>2. PagingTypeOK'
    BY <2>1 DEF PagingInv, PagingTypeOK
  <2>3. TablesInv'
    BY <2>1 DEF PagingInv, TablesInv, JournalOrdered, LinksFit, AllRows
  <2>4. Grows
    BY <2>1 DEF PagingInv, PagingTypeOK, Grows
  <2>5. QED
    BY <2>1, <2>2, <2>3, <2>4, ViewUnchanged
<1>4. QED
  BY <1>1, <1>2, <1>3 DEF PagingNext

THEOREM PagingInvariance == PagingSpec => []PagingInv
<1>1. QED
  BY PagingStart, PagingKeeps, PTL DEF PagingSpec


-----------------------------------------------------------------------------
(* What the runs check, of every state with the invariant.                 *)
LEMMA ShownMessage ==
    ASSUME PagingInv, NEW e \in Shown
    PROVE  /\ e \in view.events /\ e.kind = "message" /\ e.id = 0
           /\ e.row \in AllRows /\ e.row \in Nat /\ 1 <= e.row /\ HasEvent(e.row)
           /\ view.newest \in Nat /\ e.row <= view.newest
           /\ e.idx \in Nat /\ view.before <= e.idx /\ InPlace(view, e)
<1>1. /\ Grounded(view) /\ CursorFits(view) /\ Placed(view) /\ Positioned(view)
      /\ journal \in Seq(Rows)
  BY DEF PagingInv, ViewInv, PagingTypeOK
<1>2. e \in view.events /\ e.idx # Null
  BY DEF Shown, Messages
<1>3. e.kind = "message" /\ e.id = 0 /\ e.row \in AllRows /\ HasEvent(e.row) /\ e.idx \in Nat
  BY <1>1, <1>2 DEF Grounded
<1>4. e.row \in Nat /\ 1 <= e.row
  BY <1>1, <1>3, JournalRow
<1>5. view.newest \in Nat
  BY <1>1, JournalRow DEF CursorFits
<1>6. e.row <= view.newest
  BY <1>1, <1>2, <1>3 DEF Placed
<1>7. view.before <= e.idx /\ InPlace(view, e)
  BY <1>1 DEF Positioned, Shown
<1>8. QED
  BY <1>2, <1>3, <1>4, <1>5, <1>6, <1>7

LEMMA IdxBehind ==
    ASSUME PagingInv, NEW e \in Shown
    PROVE  CountedBefore(e.row) \in Nat /\ e.idx <= CountedBefore(e.row)
<1>1. PICK from \in view.starts : from <= e.row /\ e.idx = CountedBefore(e.row) - Skipped(from, e.row)
  BY ShownMessage DEF InPlace
<1>2. e.row \in Nat /\ from \in Nat
  BY ShownMessage, <1>1 DEF PagingInv, ViewInv, CursorFits
<1>3. {q \in from..(e.row - 1) : Counted(q) /\ ~HasEvent(q)} \subseteq 0..e.row
  BY <1>2
<1>4. Skipped(from, e.row) \in Nat
  BY <1>2, <1>3, RowSet DEF Skipped
<1>5. CountedBefore(e.row) \in Nat
  BY <1>2, CountNat
<1>6. QED
  BY <1>1, <1>4, <1>5

LEMMA AgreeingPositions == PagingInv => PositionsAgree
<1> SUFFICES ASSUME PagingInv PROVE PositionsAgree
  OBVIOUS
<1>1. ASSUME NEW e \in Shown, NEW f \in Shown, Precedes(e, f)
      PROVE  e.idx < f.idx /\ e.row < f.row
  <2>1. /\ e.kind = "message" /\ f.kind = "message" /\ e.id = 0 /\ f.id = 0
        /\ e \in view.events /\ f \in view.events
    BY ShownMessage
  <2>2. EventPriority[e.kind] = EventPriority[f.kind] /\ EventPriority[f.kind] \in Nat
    BY <2>1 DEF EventPriority
  <2>3. e.row < f.row
    <3>1. CASE e.page > f.page
      BY <2>1, <3>1 DEF PagingInv, ViewInv, Placed
    <3>2. CASE ~(e.page > f.page)
      BY <1>1, <2>1, <2>2, <3>2 DEF Precedes
    <3>3. QED
      BY <3>1, <3>2
  <2>4. QED
    BY <2>3 DEF PagingInv, ViewInv, Positioned, Shown
<1>2. ASSUME NEW e \in Shown
      PROVE  \E from \in view.starts :
                /\ from <= e.row /\ \A s \in view.starts : s <= e.row => s <= from
                /\ e.idx = CountedBefore(e.row) - Skipped(from, e.row)
  BY ShownMessage DEF InPlace
<1>3. QED
  BY <1>1, <1>2 DEF PositionsAgree

LEMMA TilingPages == PagingInv => PagesTile
<1> SUFFICES ASSUME PagingInv, ~view.stuck,
                    NEW r \in AllRows \ ShownRows, HasEvent(r),
                    NEW s \in ShownRows, r < s,
                    ~view.more \/ \E q \in ShownRows : q < r
             PROVE  FALSE
  BY DEF PagesTile
<1>1. PICK f \in Shown : f.row = s
  BY DEF ShownRows
<1>2. r \in Nat /\ 1 <= r /\ CountedBefore(r) \in Nat
  BY JournalRow, CountNat DEF PagingInv, PagingTypeOK
<1>3. r \in 1..view.newest
  BY <1>1, <1>2, ShownMessage
<1>4. view.before <= CountedBefore(r)
  <2>1. CASE view.more
    <3>1. PICK e \in Shown : e.row < r
      BY <2>1 DEF ShownRows
    <3>2. e.row \in Nat /\ 1 <= e.row /\ view.before <= e.idx /\ e.idx \in Nat
      BY ShownMessage
    <3>3. e.idx <= CountedBefore(e.row) /\ CountedBefore(e.row) \in Nat
      BY IdxBehind
    <3>4. CountedBefore(e.row) <= CountedBefore(r)
      BY <1>2, <3>1, <3>2, CountMonotone
    <3>5. view.before \in Nat
      BY <2>1 DEF PagingInv, PagingTypeOK
    <3>6. QED
      BY <1>2, <3>2, <3>3, <3>4, <3>5
  <2>2. CASE ~view.more
    <3>1. CursorFits(view)
      BY DEF PagingInv, ViewInv
    <3>2. view.pages > 0
      <4>1. view # NoView
        BY <1>1 DEF Shown, Messages, NoView
      <4>2. QED
        BY <3>1, <4>1 DEF CursorFits
    <3>3. view.before = 0
      BY <2>2, <3>1, <3>2 DEF CursorFits
    <3>4. QED
      BY <1>2, <3>3
  <2>3. QED
    BY <2>1, <2>2
<1>5. PICK e \in Messages(view.events) : e.row = r
  BY <1>3, <1>4 DEF PagingInv, ViewInv, MessagesShown
<1>6. QED
  BY <1>5 DEF Shown, ShownRows

LEMMA ComingCalls == PagingInv => CallsComeAlong
<1> SUFFICES ASSUME PagingInv, ~view.stuck,
                    NEW r \in 1..view.newest, journal[r].calls > 0,
                    \A e \in view.events : ~(e.kind = "tool_call" /\ e.row = r),
                    NEW s \in ShownRows, s < r
             PROVE  \E from \in view.starts : r < from /\ \A q \in r..(from - 1) : ~Counted(q)
  BY DEF CallsComeAlong
<1>1. PICK e \in Shown : e.row = s
  BY DEF ShownRows
<1>2. e \in view.events /\ e.kind = "message" /\ e.row \in Nat
  BY ShownMessage
<1>3. PICK from \in view.starts : from <= s
  BY <1>1, <1>2 DEF PagingInv, ViewInv, Placed
<1>4. r \in AllRows /\ r \in Nat /\ view.newest \in Nat
  BY <1>1, ShownMessage, JournalRow DEF PagingInv, ViewInv, CursorFits, PagingTypeOK
<1>5. journal[r].calls = 1
  BY <1>4, JournalRow DEF PagingInv, PagingTypeOK, Rows
<1>6. from \in Nat /\ from <= r
  BY <1>1, <1>2, <1>3, <1>4 DEF PagingInv, ViewInv, CursorFits
<1>7. CallsShown(view)
  BY DEF PagingInv, ViewInv
<1>8. QED
  BY <1>5, <1>6, <1>7 DEF CallsShown

(* Where an event with a turn stands: its row, and what its turn is that   *)
(* of.                                                                     *)
LEMMA TimedEvent ==
    ASSUME PagingInv, NEW e \in view.events, e.kind \notin {"file_edit", "orphan"}
    PROVE  /\ e.kind # "orphan" /\ e.row \in AllRows /\ e.row \in Nat
           /\ \/ /\ e.kind # "reasoning" /\ e.turn = journal[e.row].turn
                 /\ EventPriority[e.kind] \in {1, 2}
              \/ /\ e.kind = "reasoning" /\ e.turn = reasoning[e.id].turn
                 /\ e.id \in DOMAIN reasoning /\ reasoning[e.id].row = e.row
                 /\ EventPriority[e.kind] = 0
           /\ e.turn \in Nat
<1>1. e.row \in AllRows
  BY DEF PagingInv, ViewInv, Grounded
<1>2. \/ e.kind \in {"message", "tool_call"} /\ e.turn = journal[e.row].turn
      \/ /\ e.kind = "reasoning" /\ e.turn = reasoning[e.id].turn
         /\ e.id \in DOMAIN reasoning /\ reasoning[e.id].row = e.row
  BY DEF PagingInv, ViewInv, Grounded
<1>3. e.kind # "reasoning" => EventPriority[e.kind] \in {1, 2}
  BY <1>2 DEF EventPriority
<1>4. e.kind = "reasoning" => EventPriority[e.kind] = 0
  BY DEF EventPriority
<1>5. e.turn \in Nat
  BY PagingAssumption DEF PagingInv, PagingTypeOK, Events
<1>6. QED
  BY <1>1, <1>2, <1>3, <1>4, <1>5, JournalRow DEF PagingInv, PagingTypeOK

LEMMA OrderedTurns == PagingInv => TurnsInOrder
<1> SUFFICES ASSUME PagingInv,
                    NEW e \in view.events, e.kind \notin {"file_edit", "orphan"},
                    NEW f \in view.events, f.kind \notin {"file_edit", "orphan"},
                    Precedes(e, f)
             PROVE  e.turn <= f.turn
  BY DEF TurnsInOrder
<1>1. JournalOrdered /\ LinksFit /\ Placed(view)
  BY DEF PagingInv, TablesInv, ViewInv
<1>2. Orphan \notin AllRows
  BY JournalRow DEF PagingInv, PagingTypeOK, Orphan
<1>3. \/ e.row < f.row
      \/ /\ e.row = f.row
         /\ \/ EventPriority[e.kind] < EventPriority[f.kind]
            \/ EventPriority[e.kind] = EventPriority[f.kind] /\ e.id < f.id
  <2>1. CASE e.page > f.page
    BY <1>1, <2>1 DEF Placed
  <2>2. CASE ~(e.page > f.page)
    BY <2>2 DEF Precedes
  <2>3. QED
    BY <2>1, <2>2
<1>4. e.row <= f.row
  BY <1>3, TimedEvent
<1>5. CASE e.kind # "reasoning" /\ f.kind # "reasoning"
  BY <1>1, <1>4, <1>5, TimedEvent DEF JournalOrdered
<1>6. CASE e.kind = "reasoning" /\ f.kind # "reasoning"
  BY <1>1, <1>2, <1>4, <1>6, TimedEvent DEF LinksFit
<1>7. CASE e.kind # "reasoning" /\ f.kind = "reasoning"
  <2>1. e.row < f.row
    BY <1>3, <1>7, TimedEvent
  <2>2. QED
    BY <1>1, <1>2, <1>7, <2>1, TimedEvent DEF LinksFit
<1>8. CASE e.kind = "reasoning" /\ f.kind = "reasoning"
  <2>1. CASE e.row < f.row
    <3>1. reasoning[e.id].turn <= journal[e.row].turn
      BY <1>1, <1>2, <1>8, TimedEvent DEF LinksFit
    <3>2. journal[e.row].turn <= reasoning[f.id].turn
      BY <1>1, <1>2, <1>8, <2>1, TimedEvent DEF LinksFit
    <3>3. journal[e.row].turn \in Nat
      BY TimedEvent, JournalRow, PagingAssumption DEF PagingInv, PagingTypeOK, Rows
    <3>4. QED
      BY <1>8, <3>1, <3>2, <3>3, TimedEvent
  <2>2. CASE e.row = f.row
    <3>1. e.id < f.id
      BY <1>3, <1>8, <2>2, TimedEvent
    <3>2. QED
      BY <1>1, <1>8, <3>1, TimedEvent DEF LinksFit
  <2>3. QED
    BY <1>3, <2>1, <2>2
<1>9. QED
  BY <1>5, <1>6, <1>7, <1>8
-----------------------------------------------------------------------------
(* The tables and the client's view have the types the code gives them,    *)
(* and a page that says there is more has a position to go on from.        *)
THEOREM PagingTypes == PagingSpec => []PagingTypeOK
<1>1. PagingInv => PagingTypeOK
  BY DEF PagingInv
<1>2. QED
  BY <1>1, PagingInvariance, PTL

(* The positions that GET /history gives out increase over all pages of a  *)
(* walk, however many messages are written meanwhile, and each is what the *)
(* message had when it was written, less the white space of its own page.  *)
THEOREM AgreedPositions == PagingSpec => []PositionsAgree
<1>1. QED
  BY AgreeingPositions, PagingInvariance, PTL

(* No message is lost between two pages of get_messages_slice, and at the  *)
(* page without has_more the client has them all from the first on.        *)
THEOREM TiledPages == PagingSpec => []PagesTile
<1>1. QED
  BY TilingPages, PagingInvariance, PTL

(* A tool call without text is on the page of the messages around it,      *)
(* unless it is right before the first message of a page.                  *)
THEOREM CallsWithPages == PagingSpec => []CallsComeAlong
<1>1. QED
  BY ComingCalls, PagingInvariance, PTL

(* No event comes twice, on one page or on two: a client that has all      *)
(* pages never holds more events than total_events.                        *)
THEOREM CountedEvents == PagingSpec => []EventsCounted
<1>1. PagingInv => EventsCounted
  BY DEF PagingInv
<1>2. QED
  BY <1>1, PagingInvariance, PTL

(* The sort key of the events keeps the turns of the dialog in order, also *)
(* when reasoning was linked to a row that its own stream never wrote.     *)
THEOREM OrderOfTurns == PagingSpec => []TurnsInOrder
<1>1. QED
  BY OrderedTurns, PagingInvariance, PTL
-----------------------------------------------------------------------------
(* A client that has come to the end of its walk has every message there   *)
(* was when it opened the history, and has it once (has_more and           *)
(* first_idx), however much was written while it walked; unless a page of  *)
(* nothing but white space has sent it to position 0.                      *)
WalkedThrough == view.pages > 0 /\ ~view.more /\ ~view.stuck
HasAll ==
    /\ ShownRows = {r \in 1..view.newest : HasEvent(r)}
    /\ \A e, f \in Shown : e.row = f.row => e = f

LEMMA WalkedHasAll == PagingInv /\ WalkedThrough => HasAll
<1> SUFFICES ASSUME PagingInv, WalkedThrough PROVE HasAll
  OBVIOUS
<1>1. ASSUME NEW r \in ShownRows
      PROVE  r \in 1..view.newest /\ HasEvent(r)
  BY <1>1, ShownMessage DEF ShownRows
<1>2. ASSUME NEW r \in 1..view.newest, HasEvent(r)
      PROVE  r \in ShownRows
  <2>1. CursorFits(view) /\ MessagesShown(view)
    BY DEF PagingInv, ViewInv
  <2>2. view.before = 0 /\ ~view.stuck
    BY <2>1 DEF WalkedThrough, CursorFits
  <2>3. r \in Nat /\ CountedBefore(r) \in Nat
    <3>1. journal \in Seq(Rows) /\ view.newest \in Nat
      BY <2>1, JournalRow DEF PagingInv, PagingTypeOK, CursorFits
    <3>2. r \in Nat
      BY <3>1
    <3>3. QED
      BY <3>1, <3>2, CountNat
  <2>4. \E e \in Messages(view.events) : e.row = r
    BY <1>2, <2>1, <2>2, <2>3 DEF MessagesShown
  <2>5. QED
    BY <2>4 DEF ShownRows, Shown
<1>3. ASSUME NEW e \in Shown, NEW f \in Shown, e.row = f.row
      PROVE  e = f
  <2>1. /\ e \in view.events /\ f \in view.events
        /\ e.kind = f.kind /\ e.id = f.id
    BY ShownMessage
  <2>2. ViewInv(view) /\ view.events \subseteq Events /\ journal \in Seq(Rows)
    BY DEF PagingInv, PagingTypeOK
  <2>3. QED
    BY <1>3, <2>1, <2>2, ShownOnce
<1>4. QED
  BY <1>1, <1>2, <1>3 DEF HasAll

THEOREM WholeHistory == PagingSpec => [](WalkedThrough => HasAll)
<1>1. QED
  BY WalkedHasAll, PagingInvariance, PTL
=============================================================================
