----------------------------- MODULE ChatStream -----------------------------
(***************************************************************************)
(* Streams of POST /api/chat: stream_chat, the graph of agents it runs,    *)
(* the tool executor's loop and the guard around them, what each sends to  *)
(* its client and what it leaves in the journals of the dialogs.           *)
(*                                                                         *)
(* All streams run on one event loop and share one orchestrator, with its  *)
(* executor, tools and tool manager.  They alternate where the code awaits *)
(* (the index, the summary, the context, the model, a tool) or yields an   *)
(* event, which waits for the client.  An await may end in a cancellation, *)
(* a yield in the generator being closed.                                  *)
(*                                                                         *)
(* One turn of the model says at most one piece of text; a piece is the    *)
(* number it has in its stream.  Of a call only its id, whether its        *)
(* arguments parse, and whether its tool is the one that sets the title    *)
(* matter.  Reasoning, usage and file edits have tables of their own and   *)
(* are events only; summaries and the configuration are left out.          *)
(*                                                                         *)
(* ChatEndOnly, NoLimit, ParsedOnly and LostOnCancel are likely defects of *)
(* the operator that follows them.                                         *)
(***************************************************************************)
EXTENDS Integers, Sequences

CONSTANTS
    Streams,     \* requests
    Dialogs,     \* dialogs of the project
    CallIds,     \* ids of tool calls, which providers make up
    NoId,        \* a call for which no id came
    None,        \* no dialog
    Calls,       \* calls the model may make: of a "plain" tool or of "title"
    MaxCalls,    \* bound: tool calls of a turn
    MaxTexts,    \* bound: pieces of text of a stream
    MaxErrors    \* MAX_ITERATIONS of ToolExecutor

ASSUME IdsAssumption == NoId \notin CallIds /\ None \notin Dialogs
ASSUME CallsAssumption ==
    Calls \subseteq [id : CallIds \cup {NoId}, parses : BOOLEAN, tool : {"plain", "title"}]
ASSUME BoundsAssumption ==
    MaxCalls \in Nat \ {0} /\ MaxTexts \in Nat /\ MaxErrors \in Nat \ {0}

VARIABLES
    stream,      \* the local variables of each stream
    active,      \* _active_streams
    client,      \* what the client of each stream has seen
    journal,     \* messages in each dialog's journal
    results,     \* keys of each dialog's table of tool results
    titled,      \* dialogs that have a title
    titleTool,   \* whether set_dialog_title is registered
    context,     \* the dialog the executor and the tools work for
    stopping     \* shutdown_event

vars == <<stream, active, client, journal, results, titled, titleTool, context, stopping>>
shared == <<journal, results, titled, titleTool, context, stopping>>

Texts == 1..MaxTexts
Ids == CallIds \cup {NoId}
Turns == UNION {[1..n -> Calls] : n \in 0..MaxCalls}

(* What the messages of a journal hold: pieces of text, the calls that an  *)
(* assistant message declares, references to results, and those to results *)
(* of set_dialog_title.                                                    *)
Entries == [kind : {"text"}, by : Streams, of : Texts]
           \cup [kind : {"call", "result", "title"}, by : Streams, of : Ids]
Message(kind, s, contents) == {[kind |-> kind, by |-> s, of |-> c] : c \in contents}

(* buffer: assistant_buffer; said: accumulated_content of this turn; calls:*)
(* those of this turn still to run; errors: consecutive_errors; unsaved: a *)
(* message could not be written and the failure was only logged.           *)
Fresh == [at |-> "idle", dialog |-> None, hasTitle |-> FALSE, buffer |-> {}, said |-> {},
          calls |-> <<>>, errors |-> 0, unsaved |-> FALSE]
Points == {"idle", "sync", "user", "compact", "prepare", "next", "turn",
           "declare", "tool", "edited", "done", "over"}

(* Every variable has its type.  With the bound on errors: no turn begins  *)
(* after MaxErrors failures in a row, and a turn adds at most two a call.  *)
TypeOK ==
    /\ stream \in [Streams ->
         [at : Points, dialog : Dialogs \cup {None}, hasTitle : BOOLEAN,
          buffer : SUBSET Texts, said : SUBSET Texts, calls : Turns,
          errors : 0..(MaxErrors - 1 + 2 * MaxCalls), unsaved : BOOLEAN]]
    /\ active \subseteq Streams
    /\ DOMAIN client = Streams
    /\ journal \in [Dialogs -> SUBSET Entries]
    /\ results \in [Dialogs -> SUBSET Ids]
    /\ titled \subseteq Dialogs
    /\ titleTool \in BOOLEAN /\ stopping \in BOOLEAN
    /\ context \in Dialogs \cup {None}
-----------------------------------------------------------------------------
(* The reader of docs/sse-protocol.md: segments are opened and closed,     *)
(* tools run outside of them, an error is followed by done, and done, with *)
(* every segment closed unless there was an error, by nothing.             *)
NewClient == [open |-> {}, got |-> {}, failed |-> FALSE, done |-> FALSE,
              broken |-> FALSE, gone |-> FALSE]

Allowed(c, event) ==
    /\ ~c.done
    /\ c.failed => event = "done"
    /\ event \in {"chat_start", "reasoning_start"} => event \notin c.open
    /\ event \in {"chat", "chat_end"} => "chat_start" \in c.open
    /\ event \in {"reasoning", "reasoning_end"} => "reasoning_start" \in c.open
    /\ event \in {"user", "tool_call", "file_edit"} => c.open = {}
    /\ event = "done" => c.open = {} \/ c.failed

See(c, event) ==
    IF c.gone THEN c
    ELSE [c EXCEPT !.broken = @ \/ ~Allowed(c, event),
                   !.failed = (@ \/ event = "error") /\ event # "done",
                   !.done = @ \/ event = "done",
                   !.open = CASE event = "done" -> {}
                              [] event \in {"chat_start", "reasoning_start"} -> @ \cup {event}
                              [] event = "chat_end" -> @ \ {"chat_start"}
                              [] event = "reasoning_end" -> @ \ {"reasoning_start"}
                              [] OTHER -> @]

(* The two events of whoever handles an error, and the ends of the         *)
(* segments of a turn that are open.                                       *)
Failed(c) == See(See(c, "error"), "done")

ChatEndOnly(c) == IF "chat_start" \in c.open THEN See(c, "chat_end") ELSE c

Ends(c) ==
    LET r == IF "reasoning_start" \in c.open THEN See(c, "reasoning_end") ELSE c
    IN  IF "chat_start" \in r.open THEN See(r, "chat_end") ELSE r

Sees(s, c) == client' = [client EXCEPT ![s] = c]
Send(s, event) == Sees(s, See(client[s], event))
SendError(s) == Sees(s, Failed(client[s]))
HangUp(s) == Sees(s, [client[s] EXCEPT !.gone = TRUE, !.open = {}, !.failed = FALSE])
-----------------------------------------------------------------------------
Init ==
    /\ stream = [s \in Streams |-> Fresh]
    /\ active = {}
    /\ client = [s \in Streams |-> NewClient]
    /\ journal = [d \in Dialogs |-> {}]
    /\ results = [d \in Dialogs |-> {}]
    /\ titled = {}
    /\ titleTool = TRUE
    /\ context = None
    /\ stopping = FALSE

At(s, points) == stream[s].at \in points

(* The stream's turn on the event loop: another one that is at "next" goes *)
(* on to its next await or event first.                                    *)
Runs(s, points) == At(s, points) /\ \A t \in Streams \ {s} : ~At(t, {"next"})

Becomes(s, r) == stream' = [stream EXCEPT ![s] = r]
GoTo(s, point) == Becomes(s, [stream[s] EXCEPT !.at = point])

(* A message is added, or the failure to do so is logged.                  *)
Add(s, d, message, r) ==
    \/ journal' = [journal EXCEPT ![d] = @ \cup message] /\ Becomes(s, r)
    \/ UNCHANGED journal /\ Becomes(s, [r EXCEPT !.unsaved = TRUE])

(* _flush_assistant_buffer: what is in the buffer, whether a message holds *)
(* it already or not, is written to the stream's own dialog.               *)
Flush(s, r) ==
    IF stream[s].buffer = {} THEN UNCHANGED journal /\ Becomes(s, r)
    ELSE Add(s, r.dialog, Message("text", s, stream[s].buffer), r)

Finish(s, flush) ==
    LET r == [Fresh EXCEPT !.at = "over", !.dialog = stream[s].dialog,
                           !.unsaved = stream[s].unsaved]
    IN  /\ active' = active \ {s}
        /\ IF flush THEN Flush(s, r) ELSE UNCHANGED journal /\ Becomes(s, r)
        /\ UNCHANGED <<results, titled, titleTool, context, stopping>>

(* The executor has ended: the buffer is flushed and done sent.            *)
Conclude(s) ==
    /\ Flush(s, [stream[s] EXCEPT !.at = "done"])
    /\ UNCHANGED <<active, results, titled, titleTool, context, stopping>>
-----------------------------------------------------------------------------
(* No model is configured: ValueError before the try of stream_chat, so    *)
(* that the task stays in _active_streams; stream_response tells the       *)
(* client.                                                                 *)
Misconfigured(s) ==
    /\ Runs(s, {"idle"})
    /\ GoTo(s, "over")
    /\ active' = active \cup {s}
    /\ SendError(s)
    /\ UNCHANGED shared

(* The checkpoint and the user's message, which are left out: without a    *)
(* wait, in the stream's own dialog, and a failure of either is logged and *)
(* the stream goes on without the message.                                 *)
Request(s) ==
    /\ Runs(s, {"idle"})
    /\ \E d \in Dialogs :
        Becomes(s, [Fresh EXCEPT !.at = "sync", !.dialog = d])
    /\ active' = active \cup {s}
    /\ UNCHANGED <<client, shared>>

(* The index is synchronised, or not; the history and title are read.      *)
Prepare(s) ==
    /\ Runs(s, {"sync"})
    /\ Becomes(s, [stream[s] EXCEPT !.at = "user", !.hasTitle = stream[s].dialog \in titled])
    /\ Send(s, "user")
    /\ UNCHANGED <<active, shared>>

RunGraph(s) ==
    /\ Runs(s, {"user"})
    /\ GoTo(s, "compact")
    /\ UNCHANGED <<active, client, shared>>

(* shutdown_event is looked at when a node of the graph has finished.      *)
StopBetweenNodes(s) ==
    /\ Runs(s, {"compact", "prepare"})
    /\ stopping
    /\ SendError(s)
    /\ Finish(s, TRUE)

(* The executor and the tools are shared: their context is this stream's   *)
(* from here on, for every stream.                                         *)
SetContext(s) == context' = stream[s].dialog
ManageTitleTool(s) == titleTool' = (titleTool /\ ~stream[s].hasTitle)

(* UniversalAgent.process up to its await.                                 *)
EnterAgent(s) ==
    /\ Runs(s, {"compact"})
    /\ ~stopping
    /\ GoTo(s, "prepare")
    /\ ManageTitleTool(s)
    /\ SetContext(s)
    /\ UNCHANGED <<active, client, journal, results, titled, stopping>>

ContextBuilt(s) ==
    /\ Runs(s, {"prepare"})
    /\ ~stopping
    /\ GoTo(s, "next")
    /\ UNCHANGED <<active, client, shared>>

ContextFails(s) ==
    /\ Runs(s, {"prepare"})
    /\ SendError(s)
    /\ Finish(s, TRUE)
-----------------------------------------------------------------------------
(* _process_streaming: the head of its loop, once every call has run.      *)
NoLimit(s) ==
    /\ Runs(s, {"next"})
    /\ stream[s].calls = <<>>
    /\ Becomes(s, [stream[s] EXCEPT !.at = "turn", !.said = {}])
    /\ UNCHANGED <<active, client, shared>>

AskModel(s) ==
    /\ Runs(s, {"next"})
    /\ stream[s].calls = <<>>
    /\ stream[s].errors < MaxErrors
    /\ Becomes(s, [stream[s] EXCEPT !.at = "turn", !.said = {}])
    /\ UNCHANGED <<active, client, shared>>

GiveUp(s) ==
    /\ Runs(s, {"next"})
    /\ stream[s].calls = <<>>
    /\ stream[s].errors >= MaxErrors
    /\ SendError(s)
    /\ Conclude(s)

Reason(s) ==
    /\ Runs(s, {"turn"})
    /\ "reasoning_start" \notin client[s].open
    /\ Sees(s, See(See(client[s], "reasoning_start"), "reasoning"))
    /\ UNCHANGED <<stream, active, shared>>

Speak(s) ==
    /\ Runs(s, {"turn"})
    /\ stream[s].said = {}
    /\ \E text \in Texts \ stream[s].buffer :
        /\ \A t \in Texts \ stream[s].buffer : text <= t
        /\ Becomes(s, [stream[s] EXCEPT !.said = {text}, !.buffer = @ \cup {text}])
        /\ LET c == See(See(client[s], "chat_start"), "chat")
           IN  Sees(s, [c EXCEPT !.got = @ \cup {text}])
    /\ UNCHANGED <<active, shared>>

ModelFails(s) ==
    /\ Runs(s, {"turn"})
    /\ Sees(s, Failed(Ends(client[s])))
    /\ Finish(s, TRUE)

(* No tool call: the loop ends.                                            *)
Answer(s) ==
    /\ Runs(s, {"turn"})
    /\ Sees(s, See(Ends(client[s]), "done"))
    /\ Conclude(s)

Complete(s) ==
    /\ Runs(s, {"done"})
    /\ Finish(s, FALSE)
    /\ UNCHANGED client

CallTools(s) ==
    /\ Runs(s, {"turn"})
    /\ \E calls \in Turns \ {<<>>} :
        Becomes(s, [stream[s] EXCEPT !.at = "declare", !.calls = calls])
    /\ Sees(s, Ends(client[s]))
    /\ UNCHANGED <<active, shared>>

(* Ephemeral tools are looked up by name each time this is asked.          *)
Ephemeral(call) == call.tool = "title" /\ titleTool

(* The calls that the assistant message in the journal declares.           *)
ParsedOnly(s) ==
    {stream[s].calls[i].id : i \in {j \in DOMAIN stream[s].calls :
        stream[s].calls[j].id # NoId /\ stream[s].calls[j].parses
        /\ ~Ephemeral(stream[s].calls[j])}}

Declared(s) ==
    {stream[s].calls[i].id : i \in {j \in DOMAIN stream[s].calls :
        stream[s].calls[j].id # NoId /\ ~Ephemeral(stream[s].calls[j])}}

Declare(s) ==
    /\ Runs(s, {"declare"})
    /\ Add(s, context,
           Message("text", s, stream[s].said) \cup Message("call", s, Declared(s)),
           [stream[s] EXCEPT !.at = "next"])
    /\ UNCHANGED <<active, client, results, titled, titleTool, context, stopping>>
-----------------------------------------------------------------------------
Call(s) == Head(stream[s].calls)
Return(s, errors) == [stream[s] EXCEPT !.at = "next", !.calls = Tail(@), !.errors = errors]

(* _build_tool_message and the append to the history.  A key that is in    *)
(* the table, or a failing write, raises.                                  *)
Keep(s, errors) ==
    /\ ~Ephemeral(Call(s))
    /\ Call(s).id \notin results[context]
    /\ results' = [results EXCEPT ![context] = @ \cup {Call(s).id}]
    /\ Add(s, context,
           Message(IF Call(s).tool = "title" THEN "title" ELSE "result", s, {Call(s).id}),
           Return(s, errors))

Pass(s, errors) ==
    UNCHANGED <<journal, results>> /\ Becomes(s, Return(s, errors))

Store(s, errors) == Keep(s, errors) \/ (Ephemeral(Call(s)) /\ Pass(s, errors))
MayRaise(s) == ~Ephemeral(Call(s))

(* The handler of unexpected errors: one more error, one more attempt.     *)
Recover(s, errors) ==
    Store(s, errors + 1) \/ (MayRaise(s) /\ Pass(s, errors + 1))

StoreById(s, errors) ==
    IF Call(s).id = NoId THEN Recover(s, errors)
    ELSE Store(s, errors) \/ (MayRaise(s) /\ Recover(s, errors))

RunTool(s) ==
    /\ Runs(s, {"next"})
    /\ stream[s].calls # <<>>
    /\ Call(s).parses
    /\ GoTo(s, "tool")
    /\ Send(s, "tool_call")
    /\ UNCHANGED <<active, shared>>

(* The arguments do not parse: outside of the try, an error here ends the  *)
(* executor and, without a flush, the stream.                              *)
Unparsed(s) ==
    /\ Runs(s, {"next"})
    /\ stream[s].calls # <<>>
    /\ ~Call(s).parses
    /\ \/ /\ Store(s, stream[s].errors + 1)
          /\ UNCHANGED <<active, client, titled, titleTool, context, stopping>>
       \/ MayRaise(s) /\ SendError(s) /\ Finish(s, FALSE)

(* A ToolError; or there is no such tool, and run_tool raises.             *)
Registered(call) == call.tool = "title" => titleTool
ToolFails(s) ==
    /\ Runs(s, {"tool"})
    /\ \/ Registered(Call(s)) /\ StoreById(s, stream[s].errors + 1)
       \/ (Call(s).tool = "plain" \/ ~titleTool) /\ Recover(s, stream[s].errors)
    /\ UNCHANGED <<active, client, titled, titleTool, context, stopping>>

ToolEdits(s) ==
    /\ Runs(s, {"tool"})
    /\ Call(s).tool = "plain"
    /\ Becomes(s, [stream[s] EXCEPT !.at = "edited", !.errors = 0])
    /\ Send(s, "file_edit")
    /\ UNCHANGED <<active, shared>>

EditKept(s) ==
    /\ Runs(s, {"edited"})
    /\ StoreById(s, 0)
    /\ UNCHANGED <<active, client, titled, titleTool, context, stopping>>

ToolWorks(s) ==
    /\ Runs(s, {"tool"})
    /\ Registered(Call(s))
    /\ StoreById(s, 0)
    /\ \/ Call(s).tool = "title" /\ titled' = titled \cup {context}
       \/ UNCHANGED titled
    /\ UNCHANGED <<active, client, titleTool, context, stopping>>
-----------------------------------------------------------------------------
(* A task is cancelled where it awaits: by ChatService.shutdown, or since  *)
(* the client is gone.  In "sync" the buffers do not exist yet: the        *)
(* handler itself raises, and stream_response sends the two events.        *)
LostOnCancel(s) ==
    /\ Runs(s, {"sync", "compact", "prepare", "turn", "tool"})
    /\ \/ HangUp(s)
       \/ stopping /\ s \in active /\ SendError(s)
    /\ Finish(s, FALSE)

Cancel(s) ==
    /\ Runs(s, {"sync", "compact", "prepare", "turn", "tool"})
    /\ \/ HangUp(s)
       \/ stopping /\ s \in active /\ SendError(s)
    /\ Finish(s, stream[s].at # "sync")

(* The connection ends while an event is sent: the generator is closed,    *)
(* and, when this event is done, flushes once more.                        *)
Yielded(s) ==
    \/ Runs(s, {"user", "declare", "tool", "edited", "done"})
    \/ Runs(s, {"turn"}) /\ client[s].open # {}
Close(s) ==
    /\ Yielded(s)
    /\ HangUp(s)
    /\ Finish(s, stream[s].at # "user")

Shutdown ==
    /\ \A s \in Streams : ~At(s, {"next"})
    /\ ~stopping
    /\ stopping' = TRUE
    /\ UNCHANGED <<stream, active, client, journal, results, titled, titleTool, context>>

Next ==
    \/ \E s \in Streams :
        \/ Misconfigured(s) \/ Request(s) \/ Prepare(s) \/ RunGraph(s)
        \/ StopBetweenNodes(s) \/ EnterAgent(s) \/ ContextBuilt(s) \/ ContextFails(s)
        \/ AskModel(s) \/ GiveUp(s) \/ Reason(s) \/ Speak(s) \/ ModelFails(s)
        \/ Answer(s) \/ Complete(s) \/ CallTools(s) \/ Declare(s)
        \/ RunTool(s) \/ Unparsed(s) \/ ToolFails(s) \/ ToolEdits(s)
        \/ EditKept(s) \/ ToolWorks(s) \/ Cancel(s) \/ Close(s)
    \/ Shutdown

Spec == Init /\ [][Next]_vars
-----------------------------------------------------------------------------
(* docs/sse-protocol.md: every client sees segments that open and close,   *)
(* error only before done, and done, unless it hangs up, exactly once and  *)
(* at the end.                                                             *)
ProtocolKept ==
    \A s \in Streams :
        /\ ~client[s].broken
        /\ At(s, {"over"}) => client[s].done \/ client[s].gone

(* Text a client got is in the journal when its stream is over, however    *)
(* the stream ended, unless a write failed (flushes in stream_chat).       *)
KeptTexts(s) ==
    {e.of : e \in {x \in UNION {journal[d] : d \in Dialogs} : x.kind = "text" /\ x.by = s}}
TextKept ==
    \A s \in Streams :
        At(s, {"over"}) /\ ~stream[s].unsaved => client[s].got \subseteq KeptTexts(s)

(* The result of a lasting tool is in a journal only next to the call of   *)
(* its own stream that it answers, unless a write failed                   *)
(* (_process_streaming).                                                   *)
ResultHasCall ==
    \A d \in Dialogs : \A e \in journal[d] :
        e.kind = "result" /\ e.of # NoId /\ ~stream[e.by].unsaved
          => \E c \in journal[d] : c.kind = "call" /\ c.of = e.of /\ c.by = e.by

(* A journal holds messages of its own dialog's streams.                   *)
OwnDialogOnly ==
    \A d \in Dialogs : \A e \in journal[d] : stream[e.by].dialog = d
=============================================================================
