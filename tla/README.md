# Verification of AgentSmithy in TLA+

AgentSmithy is a local server that lets a language model work on a project: a
chat request streams the model's answer, the model calls tools that read,
write and run things in the project, and everything it does is recorded in the
project's `.agentsmithy` directory.  Its own core logic is the *version
control of the agent's work*: every dialog has a shadow git repository in which
checkpoints are taken, sessions are opened, approved and reset.  This directory
models that core in TLA+, and around it what the core lives with: the chat
streams, the server processes, the index of dialogs, the paged history, the
index of file contents and the layered configuration.  TLC checks the models on
small instances; TLAPS proves their safety properties for every value of the
constants, but for the two that the code violates, and for three about the server
that overlapping starts violate and that are proved up to such an overlap.

All paths are relative to the repository; `versioning.py` is
`agentsmithy/services/versioning.py`.

## 1. Inventory

| component | state | operations | interacts with | what makes it correct |
|---|---|---|---|---|
| shadow repository, `versioning.py` | references, staging index, commits, `metadata.json`, per dialog | `ensure_repo`, `stage_file`, `stage_file_deletion`, `create_checkpoint`, `restore_checkpoint`, `approve_all`, `reset_to_approved`, `list_checkpoints`, `has_*` | working directory (reads and writes), sessions table, callers in the event loop and in worker threads | approved history is never taken back; a checkpoint holds the project; the active session contains what is approved |
| sessions table, `db/sessions.py` | one row per session in `journal.sqlite` | `get_active_session`, `close_session`, `create_new_session`, `update_branch_head` | called in the middle of approve and reset | exactly one active session, the last; verdicts in order |
| checkpoint routes, `api/routes/checkpoints.py` | none of their own, but each awaits several tracker calls | `session`, `checkpoints`, `restore`, `approve`, `reset` | tracker, background tasks, dialog index | what the endpoint documentation promises, also when requests overlap |
| chat service, `services/chat_service.py`, `api/sse.py` | buffers of the running stream, active streams, shutdown event | `stream_chat`, `chat`, `shutdown` | tracker (checkpoint before the user's message), history, orchestrator | one `done` per stream, at its end; what the client has read is stored |
| tool executor and agents, `tools/tool_executor.py`, `llm/orchestration/`, `agents/` | the conversation, error counter, dialog context shared by all streams | model call, tool call, persisting of both | history, tool results, SSE | a result that is stored has its call, in its own dialog; errors stop the loop |
| file tools, `tools/builtin/{write_file,delete_file,replace_in_file}.py` | none | edit, stage | working directory, tracker, RAG index | the file and the staging area agree |
| other tools | `run_command` has a process and a timeout | read, search, fetch, run | project, network | limits and timeouts are kept |
| project and dialog index, `core/project.py` | `dialogs/index.json` | create, list, update, delete, set current | routes, chat | no update is lost; deleted dialogs stay deleted |
| history and storages, `dialogs/`, `storage/` | SQLite rows | append, load, page | executor, chat service, history endpoint | pages neither skip nor repeat |
| server status, `main.py`, `core/project_runtime.py`, `core/status_manager.py`, `api/app.py` | `status.json` | claim, ready, stopping, stopped, crash detection, scan status | other server processes, the editor that polls the file | one server per project; the file tells the truth |
| background tasks, `core/background_tasks.py` | set of running tasks | create, shutdown | routes, RAG | shutdown waits, then cancels |
| RAG index, `rag/vector_store.py` | chunks and hashes per file | index, delete, sync | tools, restore, chat | the index converges to the files |
| configuration, `config/` | global file, project override, merged view | load, set, watch | endpoint, watcher | a change is neither lost nor leaked between layers |
| model providers, prompts, platforms, logging | none to speak of | | network, operating system | not modelled: adapters and wording |

Hard behaviours: the tracker has no lock; it is called on the event loop (chat
requests, tools, approve) and in `asyncio.to_thread` workers (restore and
reset), so that calls overlap inside each other; approve and reset change the
references and the sessions table in several separate writes that a crash can
cut; `ensure_repo` rewrites references on every call; files may be unreadable
while they are scanned; the state.json-like files are read, changed and written
back by several writers.  `PROJECT.json` lists these hazards one by one, at
their lines.

## 2. Modules

| module | models | proofs |
|---|---|---|
| `RefStore` | the reference container of the `dulwich` library, as `versioning.py` uses it (external) | |
| `ShadowRepo` | the methods of `VersioningTracker`, as functions from repository values to repository values | `ShadowRepo_proofs` (lemmas) |
| `ApprovalWorkflow` | the abstract promise: sessions are decided one after the other, only an approval extends the approved history | |
| `Checkpoints` | one dialog: working directory, repository, sessions table, and the route in progress; one action per tool, command, request | `Checkpoints_proofs` |
| `SessionSteps` | the steps inside `create_checkpoint`, `approve_all` and `reset_to_approved`, interleaved and cut short | `SessionSteps_proofs` |
| `ServerStatus` | the server processes of one project and the `status.json` they share | `ServerStatus_proofs` |
| `ChatStream` | the streams of chat requests: `stream_chat`, the graph, the tool executor, what is sent and what is stored | `ChatStream_proofs` |
| `DialogIndex` | `dialogs/index.json`, the directories it lists, and the operations that read, change and replace it | `Dialogs_proofs` |
| `HistoryPaging` | the journal of a dialog, the tables linked to its rows, and the pages of `GET /history` | `Dialogs_proofs` |
| `RagIndex` | the index of file contents beside the files, with the tasks and threads that keep it up to date | `RagIndex_proofs` |
| `LayeredConfig` | the two configuration files, what the server holds of them, requests and observer threads | `LayeredConfig_proofs` |
| `MC...` | the instances for TLC, one module each | |

`RefStore` <- `ShadowRepo` <- `Checkpoints`, `SessionSteps` (EXTENDS);
`ApprovalWorkflow` is instantiated by `Checkpoints`, and by `SessionSteps_proofs`,
with a refinement mapping.
`ServerStatus` stands alone: the two halves meet only in that one server per
project is what lets the repository go without a lock between processes.
`ChatStream` meets `Checkpoints` in the checkpoint before a user's message
(`ChatCheckpoint` there) and in the tools' edits; it does not keep files.
`DialogIndex`, `HistoryPaging`, `RagIndex` and `LayeredConfig` stand alone: each
of them meets the others only through a file or a table that it owns, and the
other side appears as an action of its own (a stream that adds a message, a
restore that changes files, another server that saves the shared file).

### RefStore: references

A reference is direct (a commit number; 0 is "no such commit") or symbolic.
Names are integers: `HEAD`, `MASTER`, `MAIN` and the session numbers.  Reading
and writing follow symbolic references; a chain longer than five raises in
dulwich, which the callers see as "not resolvable".  Two facts about dulwich
0.24.8 (pinned in `requirements.txt`) decide how the program behaves:

* `repo.path` is the working tree (`checkpoints/`), not its `.git`.  The
  program writes and looks for files under `repo.path / "refs/heads/..."`
  (`versioning.py` 1088-1090, 1115, 1131-1137, 1229-1231, 1893-1895); git's
  references are elsewhere.  So `_ensure_branches_exist` never finds the file of
  the session and recreates the branch from main each time it is called.  The
  constant `PathIsGitDir` is FALSE for the program; the theorems hold for both.
* `repo.refs[b"HEAD"] = b"ref: ..."` follows the link HEAD already is.  A new
  repository's HEAD names `master` (git's `init.defaultBranch`, the constant
  `DefaultBranch`), so the first session change makes `master` a link to
  `session_2`, the next makes `session_2` a link to `session_3`, and so on.

Until the first approval or reset HEAD names a branch that does not exist,
and `ensure_repo` does nothing; that is why the tracker's tests, which mostly
use one session, see nothing of this.

### ShadowRepo: the tracker's methods

A repository value is `[sha, link, index, commits]`; commit `i` is a tree and
the set of its ancestors, which is all the properties need of the object
store.  A tree is a function from paths to contents.  Blob reuse
(`_try_reuse_blob_from_project_git`) appears as the set `old` of files not
modified in the last second: such a file gets the blob of the project's own git
HEAD when the sizes agree, and contents all have the same size in the model.
The comparison of hashes at `versioning.py:818` compares a binary digest with a
hexadecimal one and is never true; it only costs a new blob and is left out.

### Checkpoints: one dialog

`AgentWrite`, `AgentDelete`, `OutsideEdit` change the project as the tools, the
agent's commands and the user do; `ChatCheckpoint` is the part of a chat
request that touches the repository; `Poll` the requests that only look, but
run `ensure_repo`.  `Approve`/`ApproveFails` run on the event loop without an
await and are one action; restore and reset await two tracker calls, and are two
actions each (`RestoreFiles`, `RestoreCheckpoint`; `ResetSession`,
`ResetFiles`) with anything in between.  One restore or reset is in progress at
a time in this module; what two tracker calls do *inside* each other is the
subject of `SessionSteps`.

The checkpoint that `reset_to_approved` makes of
pending work is on the abandoned session's branch, and restore only accepts what
is reachable from the new session: the comment at `api/routes/checkpoints.py:515`,
"The auto-save checkpoint can be restored later via the restore endpoint", does
not describe what the code does.

### SessionSteps: inside the calls

One process is the event loop, the others are worker threads.  The steps are
the points at which another process can see a difference: `ensure_repo` and the
first reads; the parent read before the scan; the commit; the comparison of
heads; the merge commit and main; the session's branch; the new branch and
HEAD; `close_session`; `create_new_session`; the approve route's
`clear_staging`.  Local variables of the Python call are fields of `call[p]`.
`Crash` forgets them.  File contents do not matter here and every tree is
empty.

### ServerStatus: one server per project

A process starts (`Start`), reads `status.json` and marks a crash
(`ReadStatus`), is refused or admitted (`Refuse`, `Admit`), finds a port and
claims the project (`Claim`), and enters `run_server` (`RunServer`).  There two
tasks run beside each other: `run_server` itself waits for a shutdown event
(`NoticeShutdown`, `MarkStopped`), uvicorn's `serve` goes through the lifespan,
the socket, requests and shutdown (`LifespanUp` ... `Cleanup`).  The inspector
is a third task.  `ConfigChange` is the watcher's callback, `Signal` a SIGTERM
or SIGINT, `Kill` a SIGKILL; a later process may get the id of a dead one.

An update of `status.json` has no await, so that the tasks of one process never
see it half done; another process does, and so it is three steps (`ReadDoc`,
`WriteTmp`, `Rename`), with one name for the temporary file.  Two things follow
uvicorn's code, not this repository's, and are how `main.py` uses it:
`startup` returns normally when the lifespan failed or the port is taken
(the latter through `sys.exit`), and signals caught while `serve` runs
are raised again after it, which is when `main.py`'s handler sees them.

A claim lasts from the read of `status.json` to the rename that writes
"starting", a failed start-up from "error" to the end of its process.  `Apart`
says that no two claims, and no claim and failed start-up, are under way at once.
The code takes no lock that would keep them apart, and once they meet, the promise
of one server is broken (section 5).  The theorems say that this is the only way:
they hold for the program as it is, in every state up to which `Apart` has held.
The run needs a smaller state space: with `Overlap = FALSE` the two actions that
could end `Apart` (`ReadStatus`, `LifespanFails`) wait, which leaves kills,
restarts, the writes of a process that is shutting down, callbacks, refused starts
and starts that have not read the file yet to overlap as they like.

What the model shows beyond its properties: after a failed lifespan the file
says READY, then STOPPED, and the reason is lost; a signal during the lifespan's
start-up leads to STOPPING, READY, STOPPED, without the lifespan's cleanup; a
server whose port is taken at the last moment leaves STARTING behind, which the
next start reports as a crash.  A torn write of the temporary file is not
modelled (it is renamed only when complete).

### ChatStream: what a client reads and what is kept

A stream goes through `stream_chat` (`Request`, `Prepare`, `RunGraph`), the two
nodes of the graph (`EnterAgent`, `ContextBuilt`, with `StopBetweenNodes` where
the shutdown event is looked at) and the loop of `_process_streaming`: a turn of
the model (`AskModel`, `Reason`, `Speak`, then `Answer`, `ModelFails` or
`CallTools`), the assistant message (`Declare`), and the calls one by one
(`RunTool`, `ToolWorks`, `ToolFails`, `ToolEdits`, `Unparsed`).  `at` is the
await or the event at which the stream has stopped.  Streams alternate there and
only there, except that `next` is not such a place: a stream that is at `next`
goes on before any other.  `Cancel` ends an await, `Close` a yield; both run the
handlers of `stream_chat` and of `guarded_stream`, which is why `Finish` and its
flush are part of each.

The client is an observer: which segments it has open, whether it has seen
`error` and `done`, whether it has seen an event that docs/sse-protocol.md does
not let it expect (`broken`), and what text it has got.  A journal is the set of
what its messages hold; a write to it may fail, which the code logs and ignores
(`unsaved`), while a failing write of a tool result raises (`Recover`), as does
a call id that is in the table already (`db/models.py`: `tool_call_id` is the
primary key).

What the model shows beyond its properties:

* Text said before tool calls is stored twice, in the executor's message and in
  the final flush, whose buffer is never emptied (the comment at
  `chat_service.py:220` assumes one or the other); when the client hangs up at the
  last `done` there is one more flush.
* `summary_start` and `summary_end`, which docs/sse-protocol.md lists, go into
  a queue that nothing drains, and never reach the client.
* docs/graceful-shutdown.md has the shutdown event checked in the streaming
  loop.  It is checked between the nodes of the graph: after the answer has
  begun, only the cancellation ends the stream.
* `set_dialog_title` is unregistered for all dialogs and for good once one
  dialog with a title is used.  A call that another stream's model then makes
  finds no tool, is no longer ephemeral, and its error is stored.
* A tool call without id is stored under the empty key; a second one collides.
  When its arguments do not parse either, this ends the stream.
* When the checkpoint before the user's message raises, the message is not in
  the history, and the model is asked all the same.
* Without a configured model the task stays in `_active_streams`.

### DialogIndex: read, change, replace

Each operation of `core/project.py` reads the whole of `index.json`, changes it
and replaces the file; all of them run on the event loop without an await in
between.  So one operation is one action, except creation (`Create`,
`ListDialog`, `MakeSession`, `MakeCheckpoint`, or `RollBack` and `DropFiles`) and
deletion (`DeleteFiles`, `Unlist`), which touch directories, tables and
repositories too, and which a crash can cut, or a save of the index that fails
where nothing undoes what came before (`SaveFails`: the first one of a creation,
that of a rollback, that of a deletion).  The other actions of the event loop wait
until they are done (`Idle`).  `create_dialog` keeps the index it read before it
made the session and the checkpoint and saves that copy at the end: the copy is
`op.read`, and `NoUpdateLost` is about what it could overwrite.

Directories are removed with `shutil.rmtree(..., ignore_errors=True)`: `Remove`
leaves all, a part or nothing of one, and the entry goes in any case.  A chat
stream (`Chat`, `AddMessage`, `SetTitle`, `EndStream`) may outlive its dialog, and
clients may name one that is gone; `upsert_dialog_meta` then makes an entry.  The
worker threads of a reset or a restore (`BeginReset`, `WriteReset`, `EndReset`)
write to the dialog's repository at any moment, in the middle of its deletion and
after it, and make it again.  `strays`, `left` and `cut` remember those dialogs,
so that the properties can say exactly which disagreements of index and
directories there are.  Which dialog becomes current after a deletion, and the
order of the list, are left open.

### HistoryPaging: pages of a growing journal

A row of the journal is its type, what the two tests for emptiness see of its
text (SQL's `TRIM` keeps a newline that Python's `strip` removes), and its calls.
Blocks of reasoning and file edits are linked to a row by number, and the number
is a guess: `len(messages)` before the row is written.  The stream writes row by
row, any write may fail, and a stream may end at any point with what its buffer
holds.  A request has no await, so a page is one step; the client puts each page
before what it has and asks for the one before `first_idx`.

A page is the set of its events; each keeps the key it is sorted by (`Precedes`:
the page, then the row, the priority of its kind, the number of the block), so
that the order of a page needs no sequence.  `Counted` is the SQL's test,
`HasEvent` Python's; `Picked` and `Slice` are `get_messages_slice`, `StartOf` is
`_load_messages`, `Stream` is `_build_events_stream` with its sort, `TotalEvents`
is `_count_total_events`, and `Show` the response and the client that takes it.
`Null` is a cursor that was not sent, or an event without a position.  The
reference the pages are compared with is the journal itself.

### RagIndex: the index catches up with the files

`store` holds, per file, the batches of chunks with the time and size that they
were stored with; `run` is the `index_file` in progress of each process, cut
where another can come in between: after the delete, after the read, after the
stat.  On the event loop a run is not interrupted by the loop's other tasks
(`LoopFree`), but a thread started by a restore or a reset (`Restored` ...
`EndJob`) runs beside it, users and restores edit files at every moment, and the
check before each chat request (`StartSync` ... `EndSync`) awaits a thread for
each file it reads.  `Close`, `CancelTasks`, `Stop` are
`BackgroundTaskManager.shutdown` and the end of the process; `Crash` may come
anywhere.

Three history variables delimit what is promised: `blurred`, files changed in a
way no time or size shows; `mixed`, files that two processes have indexed at
once; `known`, files that the index should have.

### LayeredConfig: two files, one memory

`file`, `cache`, `lastValid` and `seen` are the two
`LocalFileConfigProvider`s, `config` is the manager's merged view.  A load is
`Read` and `Mark`, a save is `Write`, `StatSaved` and the load after it; a load
that finds no user's file saves the defaults in the same two steps (`create`,
`created`) and returns them without reading the file again.  They run on the event
loop without giving way, but the files change at any step (`Edit`: a person in
place, another server by replacing), and observer threads notice (`Notice`) and
schedule (`due`) reloads.  `seen` is the comparison of `_last_mtime` with the
file's: an edit takes it away, a stat gives it back, whoever wrote the file that is
stat'ed.  `Start` is `main.py`'s, `Watch` the lifespan's.  A configuration is a
function from fields to values: providers (their key), workloads (their provider),
a slot that names a workload, and one scalar.  JSON null, the schema's defaults,
and a request's null are three different values (`Unset`, the result of
`Validated`, `Remove`), because `deep_merge`, `validate_config` and
`apply_deletions` treat them differently.

`StatSaved` sets `lastValid` in the step of the stat, the code two lines later,
with nothing in between that could tell.

## 3. Runs

Passing:

| run | question | instance | why it is enough |
|---|---|---|---|
| `Checkpoints` | do the promises to the user hold over every sequence of edits, requests and decisions? | a tracked and an ignored path, one content, 5 sessions, 3 commits | a file is absent, as recorded or changed; the chain of references loops from session_5 on; three commits give a checkpoint, a merge and one more to lose |
| `CheckpointsLocked` | and when a file cannot be read or written? | two tracked paths, one of which may be held, 3 sessions, 3 commits | one file fails while the other must still be right |
| `SessionSteps` | and when calls overlap and the server is killed? | the loop and one worker, crashes, 3 sessions, 5 commits | each pair of calls interleaves in every order, over two session changes |
| `SessionLive` | does the dialog always get an active session back? | overlap, no crash, 3 sessions, 4 commits | |
| `ServerStatus` | is there one server, does the file tell the truth, does a signalled server end? | two process ids, three starts, one port that other programs may hold, `Overlap = FALSE` | the third start reuses the id of a process that died; one port shows a port taken, and the second one matters only when two processes claim at once |
| `DialogIndex` | does the index agree with the directories, and is no update lost? | three dialogs (symmetric), one stream, or one reset or restore at a time, two of crashes, damaged files, failing saves and failing removals | the current one, one that becomes current, and one in creation; a stream or a thread of one dialog beside the deletion of it; one fault to leave something behind, one to meet it |
| `HistoryPaging` | do pages neither skip nor repeat, whatever is written between them? | 6 rows, 2 turns, one block of reasoning, one file edit, one failing write, pages of 1 or 2 | two turns with two rows each and two more; pages shorter than the history, so that there are three of them; the guess of a row number is wrong after one failure |
| `RagIndex` | does the index converge to the files, and does no file drop out of it? | one file, two contents of one size and a blank one, the loop, one thread, one check, 3 seconds, one scheduled task | the three processes meet at one file; files do not interact except through the check's list, so one shows every race; equal sizes leave only the time to tell them apart |
| `LayeredConfig` | has what the server works with no dangling reference, is no edit lost, and no key lost or replaced? | two providers, one workload, two keys, two ports, four requests, five drafts, two edits | a reference from each kind of field to each other; the two files may give one provider different keys; one edit to start from and one that races with a request, a reload or the creation of the file |
| `ChatStream` | does every client read a well formed stream, is what it read kept, does each result have its call? | two streams of one dialog, four kinds of call (of a tool, with arguments that do not parse, of `set_dialog_title` with and without id), one call a turn, two pieces of text, one error before the executor gives up | two streams share the executor, the tools and the table of results, with one call id to collide on; turns follow each other without limit as long as tools succeed, so that text of an earlier turn is still in the buffer; two dialogs are the subject of `OwnDialog` |

The bounds are in the guards (`MaxSession`, `MaxCommits`, `MaxStarts`,
`MaxCalls`, `MaxTexts`, `MaxBusy`, `MaxFaults`, `MaxRows`, `MaxBlocks`, `MaxTurns`, `MaxLost`,
`MaxLimit`, `MaxClock`, `MaxQueue`, `MaxEdits`), so that the system
stops at them; deadlock checking is off in the runs where only the bounds stop
it.

Fairness: `SessionLive` assumes `WF_vars(InsertSession(p))` only.  A thread that
has committed `close_session` continues with `create_new_session` in the next
statement, with nothing to wait for but SQLite.  Nothing else is assumed fair:
clients need not ever send a request.  `ServerStatus` assumes, for each process,
weak fairness of the three steps of an update, which only wait for the file
system, and strong fairness of the steps of `run_server` and of `serve`: a config
callback disables them for the length of its update, and asyncio runs its
callbacks in the order they became ready, so that neither task is passed over
for ever; the waits of a shutdown have timeouts (`timeout_graceful_shutdown=5`, those of the
background manager and of the chat service).  Starting, signals, kills, callbacks and the inspector are not
assumed fair.  `ChatStream` states safety only: streams end when the model and
the tools let them, and `MAX_ITERATIONS` (10 in the code, `MaxErrors` here)
limits failures in a row, which is part of its `TypeOK`.

Violations, each a disagreement between the code and what the repository says
of it:

| run | the text | what TLC finds |
|---|---|---|
| `LocksIn` | "Current session changes are locked in as approved" (`docs/checkpoints-and-transactions.md:343`) | approve: auto-commit to session_2, `clear_staging` -> `ensure_repo` resets the branch to main, heads are equal, session_2 is closed as merged without the commit |
| `OwnDialog` | "Per dialog: `.agentsmithy/dialogs/<dialog_id>/journal.sqlite`" (`agentsmithy/dialogs/history.py:5`) | while a stream waits for its model, another dialog's stream enters the agent and sets the executor's context (`universal_agent.py:101`): the first one's tool calls and results go to the other dialog's journal |

More disagreements, which no run of their own shows, are in section 5.

What the runs of the new modules show:

* `DialogIndex`: the current dialog is always a listed one (`CurrentListed`);
  index and directories agree, and a listed dialog is whole, but for dialogs that
  a crash, a failing save or a damaged index left half way, that a request named
  or a thread wrote to when they were gone, or whose directory could not be removed
  (`IndexMatchesDisk`, `ListedIsWhole`); `create_dialog`'s second save, and a
  rollback, overwrite nobody's change (`NoUpdateLost`).
* `HistoryPaging`: positions increase over all pages and are those of the dialog
  up to white space (`PositionsAgree`); no message is skipped (`PagesTile`);
  calls come with their page but for one case (`CallsComeAlong`); there are never
  more events than the dialog has (`EventsCounted`); reasoning of a turn that failed is shown in its own
  turn's place (`TurnsInOrder`).
* `RagIndex`: what a check skips is current (`SkipIsRight`); a check that nothing
  disturbed leaves no stale chunk (`SyncRepairs`); between delete and add there is
  always somebody at work (`KeptIndexed`).
* `LayeredConfig`: each layer is validated alone, and yet the merged view has no
  dangling reference (`RefsHold`); when all is quiet memory is what the files say,
  whether the project has a file or not, and with a broken or invalid file what its
  layer was before (`Converged`); what a request writes over the user's file has the
  very keys of that file for the providers it does not name, unless the project's
  file gives another (`KeysKept`).
Symmetry is used in `DialogIndex` (ids) and `RagIndex` (the two contents): no
definition tells their elements apart, and neither run checks liveness.

Each property of a passing run has a mutant, a plausible defect of a mapped
definition (`PROJECT.json`, "mutants"; the operators are next to the ones they
replace): the run finds each property violated under it.

## 4. Proofs

`SessionSteps_proofs` proves, for any number of sessions and workers, with or
without overlap and crashes, and for both values of `PathIsGitDir`:

* `TypeCorrect`: `Spec => []TypeOK`;
* `TableInOrder`: `Spec => []RowsInOrder`, so that the `LIMIT 1` query of
  `get_active_session` never has two rows to choose from;
* `HistoryGrows`: `Spec => MainDescends`, main only moves to a descendant;
* `StepsHonourWorkflow`: `Spec => Workflow!Spec`, for calls that neither overlap
  nor are cut off (`Overlap` and `MayCrash` FALSE).

The assumption beyond the module's own is `DefaultBranch = MASTER`: with
`init.defaultBranch = main` HEAD names main and the third theorem is false.

The argument is one inductive invariant, `Inv`.  Types and `RowsInOrder` are
not inductive: a step writes what an earlier step of the same call read, and
other calls have run since.  `Inv` adds (a) `Sound(repo)`: each commit is an
ancestor of itself, references name existing commits or nothing, and main is a
direct reference that no symbolic reference names (this is where
`DefaultBranch` is used); (b)
`CallOK(p)`: the commit numbers a call holds exist, the merge it is about to
make has as parent a main that is still main, and the session it is about to close or follow is in order with the table.  Only the
event loop approves, which is why the loop's copy of main cannot go stale
between `Decide` and `MergeMain`: this is the argument behind `HistoryGrows`.
`ShadowRepo_proofs` holds what each tracker method preserves of `Sound`, and
which of them leave main alone.

`StepsHonourWorkflow` says of the steps what `HonoursWorkflow` says of whole
operations: however a call is divided into writes of the repository and of the
sessions table, they add up to one decision.  The mapping cannot read the verdicts
off the table.  The approved history grows at `MergeMain`, three steps before
`close_session` writes "merged", so that a session counts as decided (`Outcome`)
already when its approval has moved main, or has found that there is nothing to
merge; and as the call that got there can no longer fail without a kill, the table
catches up.  The invariant `Serial` adds that one call is under way, that its
session is the active one until it is closed, and that an active session exists
but between `close_session` and `create_new_session`.  Both hypotheses are needed:
TLC finds with `Overlap` a reset that closes, as abandoned, the session of an
approval that is about to close it as merged, and with `MayCrash` an approval that
is killed before its verdict is in the table (main may have moved by then).
`TableInOrder` and `HistoryGrows` are what is left of the workflow then.

`Checkpoints_proofs` proves, for any number of sessions and commits, any paths,
contents, ignored and unreadable files, for both values of `PathIsGitDir`, and
again with `DefaultBranch = MASTER`:

* `CheckpointTypes` (`[]TypeOK`) and `WorkStartsFromMain` (`[]ActiveHoldsMain`);
* `HonoursWorkflow` (`ImplementsWorkflow`): the refinement of
  `ApprovalWorkflow`;
* `RestoreSparesFiles` (`RestoreSparesUnknown`);
* `CommitsMatchProject` (`CheckpointMatchesProject`), for projects without a git
  repository of their own;
* `ResetSavesFiles` (`ResetSavesWork`), for those, when in addition every file
  can be read.  A scan that fails lets the reset go on, so without this it is
  false.

`ActiveHoldsMain` alone says nothing of the references a step follows.  The
invariant adds `Sound(repo)`, that the table is in order, and `Based`: the
active session's branch is a plain reference to a commit that contains main, and
no link names a later session.  The last part is what a new session needs:
`_create_session` writes the branch and then makes HEAD name it *through* the
chain of links that HEAD already is, and must not overwrite the branch it has
just made; the chain ends before it because no link is that late.  A step then
either leaves the session at work (`Stays`: main stays, commits are only added)
or closes it (`Advances`), and the refinement follows from these two alone.
That the merged commit is the project again is the delicate part of
`CommitsMatchProject`: `clear_staging` may have reset the branch to main between
the auto-commit and the comparison of heads; then nothing is merged
(`LocksIn`), and otherwise what is merged is the auto-commit's tree, or that of a
session from which nothing differed.

`Dialogs_proofs` proves of `DialogIndex`, for any set of ids, `CurrentIsListed`
(`[]CurrentListed`), `NoDuplicates` (`[]EntriesUnique`, which no run repeats) and
`UpdatesKept` (`NoUpdateLost`).  The invariant joins them with what an index in
flight is worth: the index and the copy that a creation holds are both sound
(current listed, no id twice), and from `ListDialog` until the end of the
creation the copy *equals* the index.  This is where the argument is: nothing
else may write the index while a creation is in progress, because the code has
no await there, and so the second save of an old copy loses nothing.
`DiskMatches` (`[]IndexMatchesDisk`), `CreatedWhole` (`[]ListedIsWhole`) and
`DialogTypes` (`[]TypeOK`) need in addition how far the operation in progress has
come with the files of its dialog (`DiskInv`): a creation has made the parts up
to its step, a rollback or a deletion has removed the directory or put it into
`left`; every other dialog is as it is between operations, also while threads
write to the repositories.

`Dialogs_proofs` also proves of `HistoryPaging`, for any length of the journal, any
blocks, turns and failing writes, and any page sizes, `PagingTypes`
(`[]PagingTypeOK`), `AgreedPositions` (`[]PositionsAgree`), `TiledPages`
(`[]PagesTile`), `CallsWithPages` (`[]CallsComeAlong`), `CountedEvents`
(`[]EventsCounted`) and `OrderOfTurns` (`[]TurnsInOrder`), and, which no run
states, `WholeHistory`: a client that has walked to the end has every message
that was there when it opened the history, and has it once.  None of these is
inductive: they speak of what is shown, and not of where the next page will end.
The invariant `PagingInv` has three parts.  The tables: rows of the journal are in
the order of their turns, and a block lies between the rows of the turns before
its own and those after it, whatever number was guessed for it (`LinksFit`).  The
events: each stands for an entry of a table (`Grounded`), and no page overlaps an
older one (`Placed`).  The cursor: `before` is the position of the first row of
some page (`CursorFits`), positions are those of the journal up to the white space
that the message's own page skipped (`Positioned`), and nothing with an event is
missing at or behind it (`MessagesShown`, `CallsShown`).  The writer preserves all
of it because tables only grow, at the end: rows, counts and links that a view
speaks of stay what they are (`GrownRows`, `GrownCounts`, `ViewStays`).  A page
preserves it because `Slice` is an interval of rows without those of tools
(`SliceConvex`), whose first row is at the page's start (`FirstRow`) and whose last
is before all rows shown (`OlderRows`).  `EventsCounted` is a conjunct of its own:
it maps events injectively to entries (`ShownOnce`), but compares them with the
total of the last page, which is older than the tables.

`RagIndex_proofs` proves, for any files, contents, threads and checks,
`RagTypes`, `SkippedIsCurrent` (`[]SkipIsRight`) and `FilesStayIndexed`
(`[]KeptIndexed`).  `SkipIsRight` is not inductive: a batch gets its time and
size from a run that read the file earlier.  The invariant therefore says the
same of runs: one that is about to add, and bears the file's time and size,
holds the file's content (`AddIsRight`); one between read and stat has read what
the file still holds (`StatIsRight`), or the file is blurred.  `JobsRest` says
that a thread without a job has no run, which `Stop` needs for `KeptIndexed`: an
orderly stop waits for threads, so that it cuts no run between delete and add.
`ChecksRepair` (`SyncRepairs`) carries through a check what it has established so
far: while nothing disturbs it (`Undisturbed`), the files it is through with are
current, every other one still has the hash the check began with, what it has
read is what the file holds, and what the event loop is about to add as well.  A
file it passes over is current by `SkipIsRight`; that one matching batch speaks
for the whole file is `Single`: unless two processes have indexed a file at a
time, it has one batch, or one process at work on it and no batch.

`LayeredConfig_proofs` proves, for any providers, keys, workloads, requests and
drafts, `ConfigTypes` (`[]TypeOK`), `ReferencesHold` (`[]RefsHold`),
`ServerConverges` (`[]Converged`) and `RequestsKeepKeys` (`KeysKept`).  The
invariant `AllValid` says that everything a reload may fall back to is valid:
the manager's view, each layer's cache, each layer's last valid value, and the
configuration of a save under way.  Its one lemma of substance is that the merge
of two valid layers is valid: a field that is present in either layer is present
in the merge, and a reference comes from one of them.  Convergence has an
invariant of its own, `InSync`: a layer's cached value is what its file says, or
something is still to come that will load it, which is a scheduled reload, a load
or a save under way, or an event whose file's time has not been seen
(`FilesFollowed`).  The last condition is the point: `Notice` drops the event of a
file whose time has been seen, and `save` notes the time of its own write, so that
it has to load the file again, as it does (the mutant `TrustSaved` does not).  The
creation of the user's file with the defaults does not load it again; there the
cached value is right unless an edit came before the stat, which `missed` records.
`CompleteAssumption` says that the defaults name the slot and the port, as
`get_default_config` does: with it a file made from the defaults loads as the
defaults.  `RequestsKeepKeys` follows from the same invariant: when all is quiet,
memory is the merge of what the two files say, and a merge takes the user's key
where the project's layer has none.

`ServerStatus_proofs` proves, for any processes, ports and starts, always,
`TypeCorrect` (`[]TypeOK`) and `DoneIsSaved` (`[]ScanDoneIsSaved`), and, in the form
`Spec => ([]Apart => P)`, `OneServer` (`[]SingleServer`), `ReadyIsTrue`
(`[]ReadyTellsTruth`) and `PidStands` (`ClaimStands`).  A behaviour of `Spec` may
stop anywhere, so that the form says: P holds in every state up to which `Apart`
has held.  Nothing is assumed of the program; what is proved is that two claims, or
a claim and a failed start-up, that overlap are the only way to two servers.  Such
overlaps do occur, and then the three properties fail (section 5).  The
invariant follows one pid through the file.  A process holds the project from
the rename of its claim to the rename of "stopped", and for that time the file
names it (`HeldOK`); one that has read the file either finds that pid alive, and
is refused, or finds nobody (`Saw`, `Clear`); at most one process is in the
middle of an update, and what it renames was made from the document that is
still there (`DocOK`), so that nobody's field is lost.  The other two theorems have
an invariant of their own (`Base`), as there updates interleave in any way: as long
as nothing has been saved, no document says "done", neither the file, nor the
temporary file, nor one that a process has read or is about to write.

`ChatStream_proofs` proves, for any streams, dialogs, calls and texts and any
limit of errors, `StreamTypes` (`[]TypeOK`), `StreamIsWellFormed`
(`[]ProtocolKept`) and `ReadIsKept` (`[]TextKept`); and for one dialog
`ResultsHaveCalls` (`[]ResultHasCall`).  The invariant says for each
point at which a stream can have stopped what it holds there (`Place`), which
segments its client has open and that it has had neither an error nor `done`
before the end (`Seen`), and where the texts it has read are (`Text`): those of
earlier turns in a journal, once their calls begin, unless a write failed, and
all of them in the buffer for the flush at the end.  (`TextKept` looks into all
journals; that messages are in their own dialog's is `SeparateStreams`, below.)  Of
what the streams share it says only that journals keep what they have and that the
executor has some dialog, which is why any number of streams may interleave.  The results are
another matter: the executor's context is shared, so that a stream's call may go
to one journal and its result to the other (`OwnDialog`); with one dialog there
is nowhere else to go.  `SeparateStreams` says for any number of dialogs that the
overlap is the only cause: while no two streams are in the agent at once
(`OneAtATime`), journals hold messages of their own dialogs' streams and every
result has its call.  Both follow from one fact about a step, `ContextKept`: the
context does not change under a stream that is in the agent and stays there.

Model-checked only: `GapCloses` and `SignalledStops`, which are liveness under
fairness, for which the prover has no rules; and that the code violates
`ApprovalLocksIn` and `OwnDialogOnly`, which is what their runs show.  The positions
of `HistoryPaging` are cardinalities of sets of rows, about which the library has
theorems; as folds over sequences they would need an induction over data, which
the installed provers cannot instantiate.

## 5. Deviations

What the code does, seen while modelling, that a doc, comment or test contradicts
or that the properties have to except.  The two that are runs are in section 3.

Shadow repository:

* `_try_reuse_blob_from_project_git` (`versioning.py:793`) reuses the project's
  committed blob for a file of the same size that is older than a second;
  `tests/test_blob_reuse_size_collision.py:1` says "Blob reuse must check content
  hash, not just size".  `CheckpointMatchesProject` is checked for projects
  without a git repository of their own (`ProjectGit`); with one it fails.
* A crash between `close_session` and `create_new_session`
  (`versioning.py:1538`) leaves the dialog without an active session; it falls back
  to `session_1` and can never insert `session_2` again.
  `docs/checkpoints-and-transactions.md:345` promises "New session created from
  approved state".
* Two overlapping `create_checkpoint` calls read one parent
  (`versioning.py:1160`); the session's branch keeps one of the two commits, and the
  other cannot be restored (`docs/...:212`, "restore to any checkpoint").

Server:

* Two processes that read `status.json` before either claims are both admitted
  (`project_runtime.py:131`); the second probes the next port and both serve.
  `docs/server-status.md:163`: "Only one server instance per project is allowed".
  With `Overlap = TRUE` and two starts TLC finds `SingleServer` violated in 15
  states: the second process reads before the first one's rename, and claims after
  it.  `ReadyTellsTruth` is violated in 20 states.
* A process whose start-up failed takes its pid out of the file and goes on until
  it has written "stopped" (`api/app.py:81`, `main.py:285`); one that starts
  meanwhile is admitted, and has its pid taken out by that last write.

Dialog index:

* A stream, a reset or `PATCH /api/dialogs/{id}` that names a deleted dialog, or
  one that never was, makes an entry for it (`strays`).  The worker threads of a
  reset or a restore make the directory of a dialog again that has been deleted
  meanwhile.
* A crash between a dialog's files and its entry leaves one without the other;
  nothing repairs it (`cut`).  So does a save of the index that fails: the first
  one of `create_dialog` comes before its `try` (`project.py:171`), that of the
  rollback (231) and that of a deletion (360) have nothing behind them.
* `rmtree` ignores its errors (`project.py:234`, 341): when a directory, or a file
  in it, cannot be removed, the entry goes and the directory stays (`left`), in a
  server that goes on.  The docstring of `delete_dialog` (`project.py:328`) says
  "Delete dialog directory and remove from index".

History:

* An AI message of nothing but newlines is counted by the SQL (`TRIM` removes
  spaces only) and has no event.  Positions behind it shift by one within its
  page, and a page of only such rows reports `first_idx` 0 and `has_more`: the
  client goes on from position 0 and never sees the rest (`stuck`).
* Calls of an AI message without text that falls between two pages are on
  neither; the docstring of `get_messages_slice` says it "loads nearby empty AI
  messages (before/after)".
* File edits are linked to the row of the tool's result, which the pages leave
  out; they are shown only when a failed write, or a stream cut short between edit
  and result, gave the number to another row, which may be a later turn's.
* Reasoning of a turn that ends without a message is linked to the row that the
  next turn's user message takes.

RAG index:

* Two processes that index one file at a time leave chunks of both contents, and
  the check compares one hash only (`mixed`).
* An edit between a thread's read and its stat, or two edits within a second at
  the same size, are never noticed (`blurred`).
* `delete_file` does not cancel scheduled tasks: the deleted file is back in the
  index until the next check.
* A failing add, or a kill between delete and add, drops the file from the index,
  and the check, which only looks at indexed files, does not bring it back.

Configuration:

* Each start and each save writes the whole *merged* configuration into the
  user's file, so that a project's overrides, and the defaults of the schema that
  the project's layer was filled with, leak into all projects.
  `docs/config-endpoint.md:60` calls them "Per-project overrides (read-only)".
* The project's layer is filled with the schema's defaults (port, log level)
  before it is merged, which then hide the user's values.
* Providers and workloads of the default configuration come back after they
  have been deleted or renamed: the defaults are merged in at each load.
* A provider to which the project's file gives a key has that key written over the
  user's own by the next save, in the file shared by all projects.  `KeysKept`
  excepts it.
* When the user's file is not there, a load makes it from the defaults, notes the
  time of the file after that (`providers.py:168`, 170) and returns the defaults
  without reading it.  An edit in between gives the file the time that is noted, its
  event is dropped (206), and the server goes on with the defaults until the next
  edit.  The same holds of an edit between the read of a file and its stat
  (`providers.py:91`, 93).  `Converged` excepts both (`missed`).
* A change whose save failed stays in memory, and the next save writes it
  (`dirty`).
* A file that another server replaces gives no event that is handled
  (`on_moved` is not), and a removal is not noticed (`missed`).

## 6. Not modelled, and the plan

Left out of the modules above: statistics of sessions and checkpoints, diff
computation, `metadata.json`, timestamps, counters of the sessions table, several
dialogs in one repository model (each has its own repository and table); of a
chat request, the user's own message, the non-streaming `chat()`, usage,
summaries, and a change of configuration, which replaces the shared executor; of
the server, the order in which ports are probed, `config_valid` and
`config_errors`, and the settings; of the dialog index, times, the order and the
filters of the list; of the RAG index, the similarity search (it changes
nothing), `add_texts` (unused), errors that Chroma's delete swallows, and edits
that keep an old modification time (`mv`, `cp -p`); of the configuration, the
metadata that the endpoint computes for the client.

Not modelled at all: `replace_in_file`'s matching, which is about strings and
not about state (its effect on files and staging is `AgentWrite`, and its
reindexing `WriteFile`); `run_command`, `web_search`, `web_fetch`, `search_files`
and the other read-only tools, whose results come from outside; summaries, whose
content is the model's; model providers, prompts, platforms and logging, which
adapt and word.  `PROJECT.json` gives the reason for each.

What would come next, in order:

1. Two dialogs in `HistoryPaging` and `ChatStream`'s streams as its writers, to
   see pages of a journal that two streams write at once.
2. What a restart after a kill makes of the workflow: which decisions
   `SessionSteps` may lose or repeat, as a weaker abstract specification.
