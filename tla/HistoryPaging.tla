---------------------------- MODULE HistoryPaging ----------------------------
(***************************************************************************)
(* The journal of a dialog, the tables of reasoning and of file edits that *)
(* refer to its rows by number, and GET /api/dialogs/{id}/history, by      *)
(* which a client walks back from the newest messages, page by page, while *)
(* a chat stream goes on writing.                                          *)
(*                                                                         *)
(* A request has no await, so a page is one step; so is each write of the  *)
(* stream.  Streams follow each other (ChatStream has those that overlap). *)
(* Rows are numbered from 1, positions of messages from 0 as in the code.  *)
(* Of a text matters what the two tests for emptiness see: nothing, white  *)
(* space that SQL's TRIM keeps and Python's strip removes, or words.       *)
(* A page is the set of its events, each with the key it is sorted by; the *)
(* client keeps with an event the number of the page it came with.         *)
(*                                                                         *)
(* LinkBeyond, InnerEmptyOnly, ExclusiveEnd, PageNumber, MessageFirst and  *)
(* OrphansAgain are likely defects of the operator that follows them.      *)
(***************************************************************************)
EXTENDS Integers, Sequences, FiniteSets

CONSTANTS
    MaxRows,    \* bound: rows of the journal
    MaxBlocks,  \* bound: reasoning blocks, and file edits
    MaxTurns,   \* bound: requests to the model
    MaxLost,    \* bound: writes to the journal that fail
    MaxLimit,   \* bound: page sizes asked for
    Null        \* no position: no cursor, or an event without one

ASSUME NullAssumption == Null \notin Int
ASSUME PagingAssumption ==
    /\ MaxRows \in Nat /\ MaxBlocks \in Nat /\ MaxTurns \in Nat
    /\ MaxLost \in Nat
    /\ MaxLimit \in Nat \ {0}

VARIABLES
    journal,    \* message_store: rows in the order of their ids
    reasoning,  \* dialog_reasoning: the row a block is linked to, its turn
    edits,      \* dialog_file_edits: the row an edit is linked to, its turn
    writer,     \* the stream: where it is, its turn and its buffer
    view        \* what the client has put together from pages

pagingVars == <<journal, reasoning, edits, writer, view>>

Texts == {"none", "blank", "words"}
Rows == [type : {"user", "ai", "tool"}, text : Texts, calls : 0..1, turn : 1..MaxTurns]
Links == [row : -1..(MaxRows + 1), turn : 1..MaxTurns]
Orphan == -1
(* Kinds of events, in the order a row's have on a page.  Orphans are      *)
(* blocks linked to no row.                                                *)
MessageFirst == [reasoning |-> 1, message |-> 0, tool_call |-> 2, file_edit |-> 3, orphan |-> 4]
EventPriority == [reasoning |-> 0, message |-> 1, tool_call |-> 2, file_edit |-> 3, orphan |-> 4]
Events == [page : Nat, row : 1..(MaxRows + 1), kind : DOMAIN EventPriority,
           id : Nat, idx : Nat \cup {Null}, turn : 1..MaxTurns]

(* What the client holds: the number of its pages and their events, the    *)
(* first row of each page, the length of the journal at its first page;    *)
(* before, more and total of its last page; stuck: a page with more before *)
(* it had no position to go on from.                                       *)
NoView == [pages |-> 0, events |-> {}, starts |-> {}, newest |-> 0, before |-> Null,
           total |-> 0, more |-> FALSE, stuck |-> FALSE]

PagingTypeOK ==
    /\ journal \in Seq(Rows) /\ Len(journal) <= MaxRows
    /\ reasoning \in Seq(Links) /\ edits \in Seq(Links)
    /\ writer \in [at : {"idle", "turn", "tool", "edited"}, turn : 0..MaxTurns,
                   thought : BOOLEAN, buffer : Texts, lost : 0..MaxLost]
    /\ view.events \subseteq Events
    /\ view.more => view.before \in Nat

PagingInit ==
    /\ journal = <<>> /\ reasoning = <<>> /\ edits = <<>>
    /\ writer = [at |-> "idle", turn |-> 0, thought |-> FALSE, buffer |-> "none",
                 lost |-> 0]
    /\ view = NoView
-----------------------------------------------------------------------------
(* The stream.  A write that fails is logged, and the stream goes on.      *)
Add(w, type, text, calls) ==
    \/ /\ Len(journal) < MaxRows
       /\ journal' = Append(journal, [type |-> type, text |-> text,
                                      calls |-> calls, turn |-> w.turn])
       /\ writer' = w
    \/ /\ w.lost < MaxLost
       /\ writer' = [w EXCEPT !.lost = @ + 1]
       /\ UNCHANGED journal

(* The number the next row will have.  len(messages) counts all rows.      *)
LinkBeyond == Len(journal) + 2
NextRow == Len(journal) + 1

Join(a, b) == IF "words" \in {a, b} THEN "words" ELSE IF "blank" \in {a, b} THEN "blank" ELSE "none"

UserMessage ==
    /\ writer.at = "idle"
    /\ writer.turn < MaxTurns
    /\ Add([writer EXCEPT !.at = "turn", !.turn = @ + 1], "user", "words", 0)
    /\ UNCHANGED <<reasoning, edits, view>>

(* The end of a reasoning segment: the block is linked to the row that     *)
(* comes next, or to none when the journal cannot be read.                 *)
FlushReasoning ==
    /\ writer.at = "turn" /\ ~writer.thought
    /\ Len(reasoning) < MaxBlocks
    /\ \E row \in {NextRow, Orphan} :
        reasoning' = Append(reasoning, [row |-> row, turn |-> writer.turn])
    /\ writer' = [writer EXCEPT !.thought = TRUE]
    /\ UNCHANGED <<journal, edits, view>>

(* The model calls a tool, after some text or none.  The buffer keeps the  *)
(* text that the row holds, too.  Each turn makes one call.                *)
DeclareCalls ==
    /\ writer.at = "turn"
    /\ \E text \in Texts :
        Add([writer EXCEPT !.at = "tool", !.buffer = Join(@, text)], "ai", text, 1)
    /\ UNCHANGED <<reasoning, edits, view>>

(* The event of a tool that changed a file is handled before the tool's    *)
(* result is added to the journal.                                         *)
SaveFileEdit ==
    /\ writer.at = "tool"
    /\ Len(edits) < MaxBlocks
    /\ edits' = Append(edits, [row |-> NextRow, turn |-> writer.turn])
    /\ writer' = [writer EXCEPT !.at = "edited"]
    /\ UNCHANGED <<journal, reasoning, view>>

ToolResult ==
    /\ writer.at \in {"tool", "edited"}
    /\ Add([writer EXCEPT !.at = "turn", !.thought = FALSE], "tool", "words", 0)
    /\ UNCHANGED <<reasoning, edits, view>>

(* The answer, an error, a cancellation or a client that went away: what   *)
(* is in the buffer is written, if there is anything.                      *)
FinishStream ==
    /\ writer.at # "idle"
    /\ \E text \in IF writer.at = "turn" THEN Texts ELSE {"none"} :
        LET said == Join(writer.buffer, text)
            ended == [writer EXCEPT !.at = "idle", !.thought = FALSE, !.buffer = "none"]
        IN  IF said = "none" THEN writer' = ended /\ UNCHANGED journal
            ELSE Add(ended, "ai", said, 0)
    /\ UNCHANGED <<reasoning, edits, view>>
-----------------------------------------------------------------------------
(* What counts as a message for the SQL queries, and for the events.       *)
Counted(r) == journal[r].type # "tool" /\ ~(journal[r].type = "ai" /\ journal[r].text = "none")
HasEvent(r) == journal[r].type # "tool" /\ ~(journal[r].type = "ai" /\ journal[r].text # "words")

AllRows == 1..Len(journal)
CountedRows == {r \in AllRows : Counted(r)}
Total == Cardinality(CountedRows)
CountedBefore(r) == Cardinality({q \in 1..(r - 1) : Counted(q)})

(* get_messages_slice: the counted messages from start up to end, and all  *)
(* rows but tools' in between; to the end of the journal if end is Null.   *)
Picked(start, end) ==
    {r \in CountedRows : /\ start <= CountedBefore(r)
                         /\ end = Null \/ CountedBefore(r) < end}

InnerEmptyOnly(start, end) ==
    LET picked == Picked(start, end)
    IN  {r \in AllRows : /\ journal[r].type # "tool"
                         /\ \E q \in picked : q <= r
                         /\ \E q \in picked : r <= q}

ExclusiveEnd(start, end) ==
    LET picked == Picked(start, end)
    IN  {r \in AllRows : /\ journal[r].type # "tool"
                         /\ \E q \in picked : q <= r
                         /\ end = Null \/ \E q \in picked : r < q}

Slice(start, end) ==
    LET picked == Picked(start, end)
    IN  {r \in AllRows : /\ journal[r].type # "tool"
                         /\ \E q \in picked : q <= r
                         /\ end = Null \/ \E q \in picked : r <= q}

First(rows) == CHOOSE r \in rows : \A q \in rows : r <= q

Event(page, row, kind, id, idx, turn) ==
    [page |-> page, row |-> row, kind |-> kind, id |-> id, idx |-> idx, turn |-> turn]

Linked(page, table, kind, rows) ==
    {Event(page, table[i].row, kind, i, Null, table[i].turn) :
        i \in {k \in DOMAIN table : table[k].row \in rows}}

(* Positions are those of the messages of the page that have an event,     *)
(* counted on from its start.                                              *)
PageNumber(rows, r, start) == start + Cardinality({q \in rows : q < r})
IdxOf(rows, r, start) == start + Cardinality({q \in rows : q < r /\ HasEvent(q)})

MessageEvents(page, rows, start) ==
    {Event(page, r, "message", 0, IdxOf(rows, r, start), journal[r].turn) :
        r \in {q \in rows : HasEvent(q)}}

ToolCalls(page, rows) ==
    {Event(page, r, "tool_call", 0, Null, journal[r].turn) :
        r \in {q \in rows : journal[q].calls = 1}}

(* Blocks linked to no row are sorted behind all rows of the page.         *)
AfterAll(rows) == CHOOSE n \in 1..(Len(journal) + 1) : /\ \A r \in rows : r < n
                                                       /\ n > 1 => n - 1 \in rows

Orphans(page, rows) ==
    {Event(page, AfterAll(rows), "orphan", i, Null, reasoning[i].turn) :
        i \in {k \in DOMAIN reasoning : reasoning[k].row = Orphan}}

(* Only the page at the end of the history has those.                      *)
OrphansAgain(page, rows, start, before) ==
    Linked(page, reasoning, "reasoning", rows) \cup MessageEvents(page, rows, start)
        \cup ToolCalls(page, rows) \cup Linked(page, edits, "file_edit", rows)
        \cup Orphans(page, rows)

Stream(page, rows, start, before) ==
    Linked(page, reasoning, "reasoning", rows) \cup MessageEvents(page, rows, start)
        \cup ToolCalls(page, rows) \cup Linked(page, edits, "file_edit", rows)
        \cup IF before = Null THEN Orphans(page, rows) ELSE {}

(* The key is (row, priority, id); later pages come before earlier ones.   *)
Precedes(e, f) ==
    \/ e.page > f.page
    \/ /\ e.page = f.page
       /\ \/ e.row < f.row
          \/ /\ e.row = f.row
             /\ \/ EventPriority[e.kind] < EventPriority[f.kind]
                \/ EventPriority[e.kind] = EventPriority[f.kind] /\ e.id < f.id

(* _load_messages: the range of positions a page has.                      *)
StartOf(limit, before) ==
    LET end == IF before = Null THEN Total ELSE before
    IN  IF limit < end THEN end - limit ELSE 0

Messages(events) == {e \in events : e.idx # Null}

(* _count_total_events: rows of all tables, whether a page has them or not.*)
TotalEvents ==
    Total + Cardinality({r \in AllRows : journal[r].calls = 1}) + Len(reasoning) + Len(edits)

(* The response: first_idx is 0 when no event has a position.              *)
FirstIdx(events) ==
    IF Messages(events) = {} THEN 0
    ELSE (CHOOSE e \in Messages(events) : \A f \in Messages(events) : e = f \/ Precedes(e, f)).idx

(* The client puts a page before what it has, and asks for the one before. *)
Show(limit, before, newest) ==
    LET page == view.pages + 1
        start == StartOf(limit, before)
        rows == Slice(start, before)
        events == Stream(page, rows, start, before)
    IN  view' = [pages |-> page,
                 events |-> view.events \cup events,
                 starts |-> view.starts \cup (IF rows = {} THEN {} ELSE {First(rows)}),
                 newest |-> newest,
                 before |-> FirstIdx(events),
                 total |-> TotalEvents,
                 more |-> start > 0,
                 stuck |-> view.stuck \/ (start > 0 /\ Messages(events) = {})]

(* A client walks once: to open the history again is to be a new client.   *)
OpenHistory ==
    /\ view = NoView
    /\ \E limit \in 1..MaxLimit : Show(limit, Null, Len(journal))
    /\ UNCHANGED <<journal, reasoning, edits, writer>>

ScrollUp ==
    /\ view.more
    /\ \E limit \in 1..MaxLimit : Show(limit, view.before, view.newest)
    /\ UNCHANGED <<journal, reasoning, edits, writer>>

PagingNext ==
    \/ UserMessage \/ FlushReasoning \/ DeclareCalls \/ SaveFileEdit \/ ToolResult \/ FinishStream
    \/ OpenHistory \/ ScrollUp

PagingSpec == PagingInit /\ [][PagingNext]_pagingVars
-----------------------------------------------------------------------------
Shown == Messages(view.events)
ShownRows == {e.row : e \in Shown}
Skipped(from, r) == Cardinality({q \in from..(r - 1) : Counted(q) /\ ~HasEvent(q)})

(* The positions a client gets increase over all of its pages, whatever is *)
(* written between two of them, and each is the message's position in the  *)
(* dialog, less the white space its page skipped before it (client_idx in  *)
(* _build_events_stream).                                                  *)
PositionsAgree ==
    /\ \A e, f \in Shown : Precedes(e, f) => e.idx < f.idx /\ e.row < f.row
    /\ \A e \in Shown : \E from \in view.starts :
        /\ from <= e.row /\ \A s \in view.starts : s <= e.row => s <= from
        /\ e.idx = CountedBefore(e.row) - Skipped(from, e.row)

(* Pages tile the history: no message between the oldest and the newest    *)
(* the client has is missing, and when has_more is false the oldest of the *)
(* dialog is there, unless a page of nothing but white space has sent the  *)
(* client to position 0.                                                   *)
PagesTile ==
    ~view.stuck =>
        \A r \in AllRows \ ShownRows :
            ~ /\ HasEvent(r)
              /\ \E s \in ShownRows : r < s
              /\ ~view.more \/ \E s \in ShownRows : s < r

(* Calls come with their page: one that the client has not got, although   *)
(* it has a message from before it, is newer than the client's first page, *)
(* or of a message without text right before the first message of a page   *)
(* (get_messages_slice).                                                   *)
CallsComeAlong ==
    ~view.stuck =>
        \A r \in 1..view.newest :
            /\ journal[r].calls > 0
            /\ \A e \in view.events : ~(e.kind = "tool_call" /\ e.row = r)
            /\ \E s \in ShownRows : s < r
            => \E s \in view.starts : r < s /\ \A q \in r..(s - 1) : ~Counted(q)

(* A client never holds more events than the newest page says there are    *)
(* (total_events), blocks linked to no row included.  This is a count: a   *)
(* repeat that a missing event makes up for does not show in it.           *)
EventsCounted == Cardinality(view.events) <= view.total

(* Turns are shown in their order: reasoning that was linked to a row      *)
(* which a failed or cancelled stream never wrote comes before the next    *)
(* user message, which took the row (EventPriority, sort).  File edits and *)
(* blocks linked to no row are not covered.                                *)
TurnsInOrder ==
    LET timed == {e \in view.events : e.kind \notin {"file_edit", "orphan"}}
    IN  \A e, f \in timed : Precedes(e, f) => e.turn <= f.turn
=============================================================================
